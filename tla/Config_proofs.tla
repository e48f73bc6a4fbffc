----------------------------- MODULE Config_proofs -----------------------------
(***************************************************************************)
(* Proofs about Config, for any number of routers and any files and        *)
(* environments.                                                           *)
(***************************************************************************)
EXTENDS Config, FiniteSetTheorems, WellFoundedInduction, TLAPS

-----------------------------------------------------------------------------
(* Values that may be given and may not *)

LEMMA OrNone ==
  ASSUME NEW v
  PROVE  Or({}, v) = v
BY DEF Or

LEMMA OrGiven ==
  ASSUME NEW option, NEW v, NEW w, option # {}
  PROVE  Or(option, v) = Or(option, w) /\ Or(option, v) \in option
BY DEF Or

LEMMA Least ==
  ASSUME NEW S \in SUBSET Int, NEW k \in S, \A j \in S : k <= j
  PROVE  (CHOOSE i \in S : \A j \in S : i <= j) = k
<1> DEFINE first == CHOOSE i \in S : \A j \in S : i <= j
<1>1. first \in S /\ \A j \in S : first <= j
  OBVIOUS
<1>2. first \in Int /\ k \in Int /\ first <= k /\ k <= first
  BY <1>1
<1> HIDE DEF first
<1>3. first = k
  BY <1>2
<1> QED
  BY <1>3 DEF first

\* The strongest source that gives a value, of two and of three.
First2(a, b, v) == FirstOf(<<a, b>>, v)
First3(a, b, c, v) == FirstOf(<<a, b, c>>, v)

LEMMA FirstOfTwo ==
  ASSUME NEW a, NEW b, NEW v
  PROVE  First2(a, b, v) = IF a # {} THEN Or(a, v) ELSE Or(b, v)
<1> DEFINE sources == <<a, b>>
           given == {i \in DOMAIN sources : sources[i] # {}}
           first == CHOOSE i \in given : \A j \in given : i <= j
<1>1. DOMAIN sources = {1, 2} /\ sources[1] = a /\ sources[2] = b
  OBVIOUS
<1>2. First2(a, b, v) = IF given = {} THEN v ELSE Or(sources[first], v)
  BY DEF FirstOf, First2, First3
<1>3. CASE a # {}
  <2>1. 1 \in given /\ given \subseteq {1, 2}
    BY <1>1, <1>3
  <2>2. first = 1
    BY <2>1, Least
  <2> HIDE DEF sources, given, first
  <2> QED
    BY <1>1, <1>2, <1>3, <2>1, <2>2
<1>4. CASE a = {} /\ b # {}
  <2>1. given = {2}
    BY <1>1, <1>4
  <2>2. first = 2
    BY <2>1, Least
  <2> HIDE DEF sources, given, first
  <2> QED
    BY <1>1, <1>2, <1>4, <2>1, <2>2
<1>5. CASE a = {} /\ b = {}
  <2>1. given = {}
    BY <1>1, <1>5
  <2> QED
    BY <1>2, <1>5, <2>1, OrNone
<1> QED
  BY <1>3, <1>4, <1>5

LEMMA FirstOfThree ==
  ASSUME NEW a, NEW b, NEW c, NEW v
  PROVE  First3(a, b, c, v) =
           IF a # {} THEN Or(a, v) ELSE IF b # {} THEN Or(b, v) ELSE Or(c, v)
<1> DEFINE sources == <<a, b, c>>
           given == {i \in DOMAIN sources : sources[i] # {}}
           first == CHOOSE i \in given : \A j \in given : i <= j
<1>1. DOMAIN sources = {1, 2, 3} /\ sources[1] = a /\ sources[2] = b /\ sources[3] = c
  OBVIOUS
<1>2. First3(a, b, c, v) = IF given = {} THEN v ELSE Or(sources[first], v)
  BY DEF FirstOf, First2, First3
<1>3. CASE a # {}
  <2>1. 1 \in given /\ given \subseteq {1, 2, 3}
    BY <1>1, <1>3
  <2>2. first = 1
    BY <2>1, Least
  <2> HIDE DEF sources, given, first
  <2> QED
    BY <1>1, <1>2, <1>3, <2>1, <2>2
<1>4. CASE a = {} /\ b # {}
  <2>1. 2 \in given /\ given \subseteq {2, 3}
    BY <1>1, <1>4
  <2>2. first = 2
    BY <2>1, Least
  <2> HIDE DEF sources, given, first
  <2> QED
    BY <1>1, <1>2, <1>4, <2>1, <2>2
<1>5. CASE a = {} /\ b = {} /\ c # {}
  <2>1. given = {3}
    BY <1>1, <1>5
  <2>2. first = 3
    BY <2>1, Least
  <2> HIDE DEF sources, given, first
  <2> QED
    BY <1>1, <1>2, <1>5, <2>1, <2>2
<1>6. CASE a = {} /\ b = {} /\ c = {}
  <2>1. given = {}
    BY <1>1, <1>6
  <2> QED
    BY <1>2, <1>6, <2>1, OrNone
<1> QED
  BY <1>3, <1>4, <1>5, <1>6

\* A variable of the environment that is set has one value.
LEMMA BooleansOr ==
  ASSUME NEW texts, Optional(texts), NEW v
  PROVE  /\ Booleans(texts) = {} <=> texts = {}
         /\ texts # {} => Or(Booleans(texts), v) = GetBool(Or(texts, ""))
<1>1. Booleans(texts) = {} <=> texts = {}
  BY DEF Booleans
<1>2. ASSUME texts # {} PROVE Or(Booleans(texts), v) = GetBool(Or(texts, ""))
  <2>1. Or(texts, "") \in texts
    BY <1>2, OrGiven
  <2>2. PICK text \in texts : Or(Booleans(texts), v) = GetBool(text)
    <3>1. Or(Booleans(texts), v) \in Booleans(texts)
      BY <1>1, <1>2, OrGiven
    <3> QED
      BY <3>1 DEF Booleans
  <2>3. text = Or(texts, "")
    BY <2>1 DEF Optional
  <2> QED
    BY <2>2, <2>3
<1> QED
  BY <1>1, <1>2

LEMMA NumbersOr ==
  ASSUME NEW texts, Optional(texts), NEW v
  PROVE  /\ Numbers(texts) = {} <=> texts = {}
         /\ texts # {} => /\ Or(Numbers(texts), v) = GetInt(Or(texts, {}))
                          /\ Numbers(texts) = {GetInt(Or(texts, {}))}
<1>1. Numbers(texts) = {} <=> texts = {}
  BY DEF Numbers
<1>2. ASSUME texts # {}
      PROVE  /\ Or(Numbers(texts), v) = GetInt(Or(texts, {}))
             /\ Numbers(texts) = {GetInt(Or(texts, {}))}
  <2>1. Or(texts, {}) \in texts
    BY <1>2, OrGiven
  <2>2. \A text \in texts : text = Or(texts, {})
    BY <2>1 DEF Optional
  <2>3. Numbers(texts) = {GetInt(Or(texts, {}))}
    BY <2>1, <2>2 DEF Numbers
  <2>4. Or(Numbers(texts), v) \in Numbers(texts)
    BY <1>1, <1>2, OrGiven
  <2> QED
    BY <2>3, <2>4
<1> QED
  BY <1>1, <1>2

LEMMA GetIntType ==
  ASSUME NEW texts, \A text \in texts : IsNumber(text)
  PROVE  GetInt(Or(texts, {})) \in Int
<1>1. CASE texts = {}
  BY <1>1, OrNone DEF GetInt
<1>2. CASE texts # {}
  <2>1. Or(texts, {}) \subseteq Int
    BY <1>2, OrGiven DEF IsNumber, OptionalOf
  <2> QED
    BY <2>1, OrNone, OrGiven DEF GetInt
<1> QED
  BY <1>1, <1>2

-----------------------------------------------------------------------------
(* What a cache is of a configuration *)

\* What the environment gives once its layer is among those applied.
Taken(applied, option) == IF "routers" \in applied THEN option ELSE {}

\* Whose map the labels of a router are in.
OwnerOf(config, r, applied) ==
  IF config.routers[r].labels # {} THEN r
  ELSE IF config.default.labels # {} THEN "default"
  ELSE IF Taken(applied, EnvOf(r).labels) # {} THEN r
  ELSE "nil"

EntryFits(entry, config, r, applied) ==
  /\ entry.flag = First3(Booleans(Taken(applied, EnvOf(r).flag)),
                            config.routers[r].flag, config.default.flag, TRUE)
  /\ entry.port = First3(Numbers(Taken(applied, EnvOf(r).port)) \cap Ports,
                            config.routers[r].port, config.default.port, DefaultPort)
  /\ entry.labels = OwnerOf(config, r, applied)

WrittenBy(entries, o, applied) ==
  IF "routers" \in applied THEN Written(entries, o) ELSE {}

\* A map has what the routers wrote into it, the value of one of them for each
\* key, and for the other keys what its section has.
MapFits(map, entries, config, o, applied) ==
  /\ DOMAIN map = WrittenBy(entries, o, applied) \cup DOMAIN SectionMap(config, o)
  /\ \A k \in WrittenBy(entries, o, applied) : \E r \in LabelWriters(entries, o, k) :
       map[k] = Or(EnvOf(r).labels, EmptyMap)[k]
  /\ \A k \in DOMAIN SectionMap(config, o) \ WrittenBy(entries, o, applied) :
       map[k] = SectionMap(config, o)[k]

Fits(c, config, applied) ==
  /\ DOMAIN c.entries = DOMAIN config.routers
  /\ \A r \in DOMAIN config.routers : EntryFits(c.entries[r], config, r, applied)
  /\ DOMAIN c.maps = Owners
  /\ \A o \in Owners : MapFits(c.maps[o], c.entries, config, o, applied)

\* The cache that buildEntryCache makes.
LEMMA BuildFits ==
  ASSUME NEW config, NEW applied, "routers" \notin applied
  PROVE  Fits(BuildEntryCache(config), config, applied)
<1> DEFINE c == BuildEntryCache(config)
<1>1. /\ DOMAIN c.entries = DOMAIN config.routers
      /\ \A r \in DOMAIN config.routers :
           c.entries[r] = MergeEntry(MergeWithDefaults(config.default), config.routers[r], r)
      /\ DOMAIN c.maps = Owners
      /\ \A o \in Owners : c.maps[o] = SectionMap(config, o)
  BY DEF BuildEntryCache
<1> HIDE DEF c
<1>2. ASSUME NEW r \in DOMAIN config.routers PROVE EntryFits(c.entries[r], config, r, applied)
  <2> DEFINE base == MergeWithDefaults(config.default)
             raw == config.routers[r]
  <2>1. /\ base.flag = Or(config.default.flag, TRUE)
        /\ base.port = Or(config.default.port, DefaultPort)
        /\ base.labels = IF config.default.labels = {} THEN "nil" ELSE "default"
    BY DEF MergeWithDefaults, MergeEntry, HardcodedDefaults
  <2>2. /\ c.entries[r].flag = Or(raw.flag, base.flag)
        /\ c.entries[r].port = Or(raw.port, base.port)
        /\ c.entries[r].labels = IF raw.labels = {} THEN base.labels ELSE r
    <3>1. c.entries[r] = MergeEntry(base, raw, r)
      BY <1>1
    <3> HIDE DEF base, raw
    <3> QED
      BY <3>1 DEF MergeEntry
  <2>3. Taken(applied, EnvOf(r).flag) = {} /\ Taken(applied, EnvOf(r).port) = {}
        /\ Taken(applied, EnvOf(r).labels) = {}
    BY DEF Taken
  <2>4. Booleans({}) = {} /\ Numbers({}) \cap Ports = {}
    BY DEF Booleans, Numbers
  <2>5. /\ Or(raw.flag, base.flag) =
             IF raw.flag # {} THEN Or(raw.flag, TRUE) ELSE Or(config.default.flag, TRUE)
        /\ Or(raw.port, base.port) =
             IF raw.port # {} THEN Or(raw.port, DefaultPort) ELSE Or(config.default.port, DefaultPort)
    <3> HIDE DEF base, raw
    <3>1. /\ raw.flag # {} => Or(raw.flag, base.flag) = Or(raw.flag, TRUE)
          /\ raw.port # {} => Or(raw.port, base.port) = Or(raw.port, DefaultPort)
      BY OrGiven
    <3>2. /\ raw.flag = {} => Or(raw.flag, base.flag) = base.flag
          /\ raw.port = {} => Or(raw.port, base.port) = base.port
      BY OrNone
    <3> QED
      BY <2>1, <3>1, <3>2
  <2>6. c.entries[r].flag = First3(Booleans({}), raw.flag, config.default.flag, TRUE)
    BY <2>2, <2>4, <2>5, FirstOfThree
  <2>7. c.entries[r].port =
          First3(Numbers({}) \cap Ports, raw.port, config.default.port, DefaultPort)
    <3> DEFINE none == Numbers({}) \cap Ports
    <3>1. First3(none, raw.port, config.default.port, DefaultPort) =
            IF none # {} THEN Or(none, DefaultPort)
            ELSE IF raw.port # {} THEN Or(raw.port, DefaultPort)
            ELSE Or(config.default.port, DefaultPort)
      BY FirstOfThree, Zenon
    <3> QED
      BY <2>2, <2>4, <2>5, <3>1
  <2>8. c.entries[r].labels = OwnerOf(config, r, applied)
    BY <2>1, <2>2, <2>3 DEF OwnerOf
  <2> QED
    BY <2>3, <2>6, <2>7, <2>8 DEF EntryFits
<1>3. ASSUME NEW o \in Owners PROVE MapFits(c.maps[o], c.entries, config, o, applied)
  BY <1>1 DEF MapFits, WrittenBy
<1>4. Fits(c, config, applied)
  BY <1>1, <1>2, <1>3 DEF Fits
<1> QED
  BY <1>4 DEF c

\* An override leaves an entry that had it already as it was.
LEMMA OverrideEntryFits ==
  ASSUME IsEnvironment(env), NEW r \in Names, NEW entry, NEW config,
         NEW before, NEW after, "routers" \in after,
         EntryFits(entry, config, r, before)
  PROVE  EntryFits(OverrideEntry(r, entry), config, r, after)
<1> DEFINE flag == EnvOf(r).flag
           port == EnvOf(r).port
           labels == EnvOf(r).labels
           n == GetInt(Or(port, {}))
           new == OverrideEntry(r, entry)
<1>1. /\ new.flag = IF flag = {} THEN entry.flag ELSE GetBool(Or(flag, ""))
      /\ new.port = IF port # {} /\ n \in Ports THEN n ELSE entry.port
      /\ new.labels = IF labels # {} /\ entry.labels = "nil" THEN r ELSE entry.labels
  BY DEF OverrideEntry, PortInRange
<1>2. Optional(flag) /\ Optional(port)
  BY DEF IsEnvironment, EnvOf
<1>3. /\ Taken(after, flag) = flag /\ Taken(after, port) = port /\ Taken(after, labels) = labels
      /\ Taken(before, flag) \in {flag, {}}
      /\ Taken(before, port) \in {port, {}}
      /\ Taken(before, labels) \in {labels, {}}
  BY DEF Taken
<1> HIDE DEF flag, port, labels, n, new
<1>4. /\ entry.flag = First3(Booleans(Taken(before, flag)),
                                config.routers[r].flag, config.default.flag, TRUE)
      /\ entry.port = First3(Numbers(Taken(before, port)) \cap Ports,
                                config.routers[r].port, config.default.port, DefaultPort)
      /\ entry.labels = OwnerOf(config, r, before)
  BY DEF EntryFits, flag, port
<1>5. Booleans({}) = {} /\ Numbers({}) = {}
  BY DEF Booleans, Numbers
<1>6. new.flag = First3(Booleans(flag), config.routers[r].flag, config.default.flag, TRUE)
  <2>1. CASE flag = {}
    BY <1>1, <1>3, <1>4, <2>1
  <2>2. CASE flag # {}
    <3>1. Booleans(flag) # {} /\ Or(Booleans(flag), TRUE) = GetBool(Or(flag, ""))
      BY <1>2, <2>2, BooleansOr
    <3>2. First3(Booleans(flag), config.routers[r].flag, config.default.flag, TRUE) =
            Or(Booleans(flag), TRUE)
      BY <3>1, FirstOfThree, Zenon
    <3> QED
      BY <1>1, <2>2, <3>1, <3>2
  <2> QED
    BY <2>1, <2>2
<1>7. new.port = First3(Numbers(port) \cap Ports, config.routers[r].port,
                           config.default.port, DefaultPort)
  <2>1. CASE port = {}
    BY <1>1, <1>3, <1>4, <2>1
  <2>2. CASE port # {} /\ n \notin Ports
    <3>1. Numbers(port) \cap Ports = {}
      <4>1. Numbers(port) = {n}
        BY <1>2, <2>2, NumbersOr DEF n
      <4> QED
        BY <2>2, <4>1
    <3>2. Numbers(Taken(before, port)) \cap Ports = {}
      BY <1>3, <1>5, <3>1
    <3> QED
      BY <1>1, <1>4, <2>2, <3>1, <3>2
  <2>3. CASE port # {} /\ n \in Ports
    <3>1. Numbers(port) \cap Ports = {n}
      <4>1. Numbers(port) = {n}
        BY <1>2, <2>3, NumbersOr DEF n
      <4> QED
        BY <2>3, <4>1
    <3>2. Or({n}, DefaultPort) = n
      BY OrGiven
    <3>3. First3({n}, config.routers[r].port, config.default.port, DefaultPort) =
            Or({n}, DefaultPort)
      BY FirstOfThree
    <3> QED
      BY <1>1, <2>3, <3>1, <3>2, <3>3
  <2> QED
    BY <2>1, <2>2, <2>3
<1>8. new.labels = OwnerOf(config, r, after)
  <2>1. "nil" # r /\ "nil" # "default"
    BY ConfigAssumption
  <2>2. /\ OwnerOf(config, r, before) =
             IF config.routers[r].labels # {} THEN r
             ELSE IF config.default.labels # {} THEN "default"
             ELSE IF Taken(before, labels) # {} THEN r ELSE "nil"
        /\ OwnerOf(config, r, after) =
             IF config.routers[r].labels # {} THEN r
             ELSE IF config.default.labels # {} THEN "default"
             ELSE IF Taken(after, labels) # {} THEN r ELSE "nil"
    BY DEF OwnerOf, labels
  <2> QED
    BY <1>1, <1>3, <1>4, <2>1, <2>2
<1>9. EntryFits(new, config, r, after)
  BY <1>3, <1>6, <1>7, <1>8 DEF EntryFits, flag, port
<1> QED
  BY <1>9 DEF new

\* Of the routers that write a key of a map one is the last.
LEMMA LastOfRanks ==
  ASSUME NEW n \in Nat, NEW W, W # {}, NEW rank, \A r \in W : rank[r] \in 1..n
  PROVE  \E r \in W : \A q \in W : rank[q] <= rank[r]
<1> DEFINE Less == OpToRel(<, Nat)
           Distances == {n - rank[r] : r \in W}
<1>1. IsWellFoundedOn(Less, Nat)
  BY NatLessThanWellFounded
<1>2. Distances \subseteq Nat /\ Distances # {}
  <2>1. \A r \in W : n - rank[r] \in Nat
    OBVIOUS
  <2> QED
    BY <2>1
<1>3. PICK d \in Distances : \A e \in Distances : <<e, d>> \notin Less
  <2> HIDE DEF Less, Distances
  <2> QED
    BY <1>1, <1>2, WFMin
<1>4. PICK r \in W : d = n - rank[r]
  OBVIOUS
<1>5. ASSUME NEW q \in W PROVE rank[q] <= rank[r]
  <2>1. n - rank[q] \in Distances /\ n - rank[q] \in Nat /\ d \in Nat
    BY <1>2
  <2>2. ~(n - rank[q] < d)
    BY <1>3, <2>1 DEF OpToRel
  <2> QED
    BY <1>4, <2>1, <2>2
<1> QED
  BY <1>5

LEMMA LastWrites ==
  ASSUME NEW entries, DOMAIN entries \subseteq Names, NEW o, NEW k \in Written(entries, o),
         NEW rank \in Orders
  PROVE  \E r \in LabelWriters(entries, o, k) :
           LastValue(entries, o, k, rank) = Or(EnvOf(r).labels, EmptyMap)[k]
<1> DEFINE writers == LabelWriters(entries, o, k)
           last == CHOOSE r \in writers : \A q \in writers : rank[q] <= rank[r]
<1>1. writers # {} /\ writers \subseteq Names
  BY DEF LabelWriters, Written
<1>2. Cardinality(Names) \in Nat
  BY ConfigAssumption, FS_CardinalityType
<1>3. \A r \in writers : rank[r] \in 1..Cardinality(Names)
  BY <1>1 DEF Orders
<1>4. \E r \in writers : \A q \in writers : rank[q] <= rank[r]
  <2> HIDE DEF writers
  <2> QED
    BY <1>1, <1>2, <1>3, LastOfRanks
<1>5. last \in writers
  <2> HIDE DEF writers
  <2> QED
    BY <1>4
<1>6. LastValue(entries, o, k, rank) = Or(EnvOf(last).labels, EmptyMap)[k]
  BY DEF LastValue
<1> HIDE DEF last
<1> QED
  BY <1>5, <1>6

\* Whoever has written into a map goes on doing so.
LEMMA WrittenStays ==
  ASSUME NEW entries, NEW o, o # "nil"
  PROVE  Written(entries, o)
           \subseteq Written([r \in DOMAIN entries |-> OverrideEntry(r, entries[r])], o)
<1> DEFINE new == [r \in DOMAIN entries |-> OverrideEntry(r, entries[r])]
<1>1. ASSUME NEW r \in DOMAIN entries, entries[r].labels = o PROVE new[r].labels = o
  BY <1>1 DEF OverrideEntry
<1>2. DOMAIN new = DOMAIN entries
  OBVIOUS
<1> HIDE DEF new
<1>3. Written(entries, o) \subseteq Written(new, o)
  BY <1>1, <1>2 DEF Written
<1> QED
  BY <1>3 DEF new

LEMMA OverrideMapFits ==
  ASSUME NEW entries, DOMAIN entries \subseteq Names, NEW config, NEW o \in Owners, NEW map,
         NEW rank \in Orders, NEW before, NEW after, "routers" \in after,
         MapFits(map, entries, config, o, before),
         NEW new, new = [r \in DOMAIN entries |-> OverrideEntry(r, entries[r])],
         NEW newMap,
         newMap = Onto([k \in Written(new, o) |-> LastValue(new, o, k, rank)], map)
  PROVE  MapFits(newMap, new, config, o, after)
<1>1. o # "nil" /\ DOMAIN new = DOMAIN entries
  BY ConfigAssumption DEF Owners
<1>2. Written(entries, o) \subseteq Written(new, o)
  BY <1>1, WrittenStays
<1>3. WrittenBy(new, o, after) = Written(new, o)
  BY DEF WrittenBy
<1>4. WrittenBy(entries, o, before) \subseteq Written(new, o)
  BY <1>2 DEF WrittenBy
<1>5. /\ DOMAIN newMap = Written(new, o) \cup DOMAIN map
      /\ \A k \in Written(new, o) : newMap[k] = LastValue(new, o, k, rank)
      /\ \A k \in DOMAIN map \ Written(new, o) : newMap[k] = map[k]
  BY DEF Onto
<1>6. DOMAIN newMap = Written(new, o) \cup DOMAIN SectionMap(config, o)
  BY <1>4, <1>5 DEF MapFits
<1>7. ASSUME NEW k \in Written(new, o)
      PROVE  \E r \in LabelWriters(new, o, k) : newMap[k] = Or(EnvOf(r).labels, EmptyMap)[k]
  <2>1. PICK r \in LabelWriters(new, o, k) :
          LastValue(new, o, k, rank) = Or(EnvOf(r).labels, EmptyMap)[k]
    BY <1>1, LastWrites
  <2> QED
    BY <1>5, <2>1
<1>8. ASSUME NEW k \in DOMAIN SectionMap(config, o) \ Written(new, o)
      PROVE  newMap[k] = SectionMap(config, o)[k]
  BY <1>4, <1>5 DEF MapFits
<1> QED
  BY <1>3, <1>6, <1>7, <1>8 DEF MapFits

LEMMA OverrideFits ==
  ASSUME IsEnvironment(env), NEW config, DOMAIN config.routers \subseteq Names,
         NEW c, NEW rank \in Orders, NEW before, NEW after, "routers" \in after,
         Fits(c, config, before)
  PROVE  Fits(ApplyRouterEnvOverrides(c, rank), config, after)
<1> DEFINE new == [r \in DOMAIN c.entries |-> OverrideEntry(r, c.entries[r])]
           result == ApplyRouterEnvOverrides(c, rank)
<1>1. /\ result.entries = new
      /\ result.maps = OverrideMaps(new, c.maps, rank)
  BY DEF ApplyRouterEnvOverrides
<1>2. DOMAIN new = DOMAIN c.entries /\ DOMAIN c.entries = DOMAIN config.routers
  BY DEF Fits
<1>3. \A r \in DOMAIN config.routers : new[r] = OverrideEntry(r, c.entries[r])
  BY <1>2
<1>4. /\ DOMAIN result.maps = Owners
      /\ \A o \in Owners : result.maps[o] =
           Onto([k \in Written(new, o) |-> LastValue(new, o, k, rank)], c.maps[o])
  <2> HIDE DEF new, result
  <2> QED
    BY <1>1 DEF OverrideMaps, Fits
<1> HIDE DEF result
<1>5. ASSUME NEW r \in DOMAIN config.routers PROVE EntryFits(new[r], config, r, after)
  <2>1. EntryFits(c.entries[r], config, r, before) /\ r \in Names
    BY DEF Fits
  <2>2. EntryFits(OverrideEntry(r, c.entries[r]), config, r, after)
    BY <2>1, OverrideEntryFits
  <2> HIDE DEF new
  <2> QED
    BY <1>3, <2>2
<1>6. ASSUME NEW o \in Owners PROVE MapFits(result.maps[o], new, config, o, after)
  <2>1. MapFits(c.maps[o], c.entries, config, o, before) /\ DOMAIN c.entries \subseteq Names
    BY <1>2 DEF Fits
  <2>2. new = [r \in DOMAIN c.entries |-> OverrideEntry(r, c.entries[r])]
    OBVIOUS
  <2> HIDE DEF new
  <2>3. result.maps[o] = Onto([k \in Written(new, o) |-> LastValue(new, o, k, rank)], c.maps[o])
    BY <1>4
  <2> QED
    BY <2>1, <2>2, <2>3, OverrideMapFits
<1>7. Fits(result, config, after)
  <2> HIDE DEF new
  <2> QED
    BY <1>1, <1>2, <1>4, <1>5, <1>6 DEF Fits
<1> QED
  BY <1>7 DEF result

-----------------------------------------------------------------------------
(* The settings of the system *)

Systems == [flag : BOOLEAN, timeout : Int]

SystemFits(s, raw, applied) ==
  /\ s.flag = First2(Booleans(IF "system" \in applied THEN env.flag ELSE {}), raw.flag, FALSE)
  /\ s.timeout = First3({n \in (IF "flags" \in applied THEN {cmdFlag} ELSE {}) : n > 0},
                        Numbers(IF "system" \in applied THEN env.timeout ELSE {}),
                        raw.timeout \ {0}, DefaultTimeout)

LEMMA DefaultsFit ==
  ASSUME NEW raw, IsSystem(raw), NEW applied, "system" \notin applied, "flags" \notin applied
  PROVE  /\ SystemFits(ApplySystemDefaults(raw), raw, applied)
         /\ ApplySystemDefaults(raw) \in Systems
<1> DEFINE s == ApplySystemDefaults(raw)
           t == Or(raw.timeout, 0)
<1>1. /\ s = [flag |-> Or(raw.flag, FALSE), timeout |-> IF t = 0 THEN DefaultTimeout ELSE t]
      /\ s.flag = Or(raw.flag, FALSE)
      /\ s.timeout = IF t = 0 THEN DefaultTimeout ELSE t
  BY DEF ApplySystemDefaults
<1>2. Or(raw.flag, FALSE) \in BOOLEAN
  BY OrNone, OrGiven DEF IsSystem, OptionalOf
<1>3. t \in Int
  BY OrNone, OrGiven DEF IsSystem, OptionalOf
<1>4. Booleans({}) = {} /\ Numbers({}) = {}
  BY DEF Booleans, Numbers
<1>5. IF t = 0 THEN raw.timeout \ {0} = {}
      ELSE raw.timeout \ {0} # {} /\ Or(raw.timeout \ {0}, DefaultTimeout) = t
  <2>1. CASE raw.timeout = {}
    BY <2>1, OrNone
  <2>2. CASE raw.timeout # {}
    <3>1. t \in raw.timeout /\ \A n \in raw.timeout : n = t
      BY <2>2, OrGiven DEF IsSystem, OptionalOf, Optional
    <3>2. t # 0 => raw.timeout \ {0} # {} /\ Or(raw.timeout \ {0}, DefaultTimeout) \in raw.timeout
      BY <3>1, OrGiven
    <3> HIDE DEF t
    <3> QED
      BY <3>1, <3>2
  <2> QED
    BY <2>1, <2>2
<1> HIDE DEF s, t
<1>6. s.flag = First2({}, raw.flag, FALSE)
  BY <1>1, FirstOfTwo
<1>7. s.timeout = First3({}, {}, raw.timeout \ {0}, DefaultTimeout)
  <2>1. First3({}, {}, raw.timeout \ {0}, DefaultTimeout) = Or(raw.timeout \ {0}, DefaultTimeout)
    BY FirstOfThree
  <2>2. CASE t = 0
    BY <1>1, <1>5, <2>1, <2>2, OrNone
  <2>3. CASE t # 0
    BY <1>1, <1>5, <2>1, <2>3
  <2> QED
    BY <2>2, <2>3
<1>8. SystemFits(s, raw, applied)
  <2>1. {n \in {} : n > 0} = {}
    OBVIOUS
  <2> QED
    BY <1>4, <1>6, <1>7, <2>1 DEF SystemFits
<1>9. s \in Systems
  <2>1. (IF t = 0 THEN DefaultTimeout ELSE t) \in Int
    BY <1>3 DEF DefaultTimeout
  <2> QED
    BY <1>1, <1>2, <2>1, Zenon DEF Systems
<1> QED
  BY <1>8, <1>9 DEF s

LEMMA SystemOverrideFits ==
  ASSUME IsEnvironment(env), NEW s \in Systems, NEW raw, NEW before, NEW after,
         "flags" \notin before, "flags" \notin after, "system" \in after,
         SystemFits(s, raw, before)
  PROVE  /\ SystemFits(ApplySystemEnvOverrides(s), raw, after)
         /\ ApplySystemEnvOverrides(s) \in Systems
<1> DEFINE new == ApplySystemEnvOverrides(s)
           n == GetInt(Or(env.timeout, {}))
           b == GetBool(Or(env.flag, ""))
<1>1. /\ new = [flag |-> IF env.flag = {} THEN s.flag ELSE b,
                timeout |-> IF env.timeout = {} THEN s.timeout ELSE n]
      /\ new.flag = IF env.flag = {} THEN s.flag ELSE b
      /\ new.timeout = IF env.timeout = {} THEN s.timeout ELSE n
  BY DEF ApplySystemEnvOverrides
<1>2. n \in Int
  BY GetIntType DEF IsEnvironment
<1>3. b \in BOOLEAN
  BY DEF GetBool
<1>4. new \in Systems
  <2> HIDE DEF new, n, b
  <2> QED
    BY <1>1, <1>2, <1>3 DEF Systems
<1>5. Booleans({}) = {} /\ Numbers({}) = {} /\ {k \in {} : k > 0} = {}
  BY DEF Booleans, Numbers
<1>6. new.flag = First2(Booleans(env.flag), raw.flag, FALSE)
  <2>1. CASE env.flag = {}
    <3>1. (IF "system" \in before THEN env.flag ELSE {}) = {}
      BY <2>1
    <3> HIDE DEF new, n, b
    <3> QED
      BY <1>1, <2>1, <3>1 DEF SystemFits
  <2>2. CASE env.flag # {}
    <3>1. Booleans(env.flag) # {} /\ Or(Booleans(env.flag), FALSE) = b
      BY <2>2, BooleansOr DEF IsEnvironment
    <3> HIDE DEF new, n, b
    <3>2. First2(Booleans(env.flag), raw.flag, FALSE) = Or(Booleans(env.flag), FALSE)
      BY <3>1, FirstOfTwo
    <3> QED
      BY <1>1, <2>2, <3>1, <3>2
  <2> QED
    BY <2>1, <2>2
<1>7. new.timeout = First3({}, Numbers(env.timeout), raw.timeout \ {0}, DefaultTimeout)
  <2>1. CASE env.timeout = {}
    <3>1. (IF "system" \in before THEN env.timeout ELSE {}) = {}
      BY <2>1
    <3>2. s.timeout = First3({}, Numbers({}), raw.timeout \ {0}, DefaultTimeout)
      BY <1>5, <3>1 DEF SystemFits
    <3> HIDE DEF new, n, b
    <3> QED
      BY <1>1, <2>1, <3>2
  <2>2. CASE env.timeout # {}
    <3>1. Numbers(env.timeout) # {} /\ Or(Numbers(env.timeout), DefaultTimeout) = n
      BY <2>2, NumbersOr DEF IsEnvironment
    <3> HIDE DEF new, n, b
    <3>2. First3({}, Numbers(env.timeout), raw.timeout \ {0}, DefaultTimeout) =
            Or(Numbers(env.timeout), DefaultTimeout)
      BY <3>1, FirstOfThree
    <3> QED
      BY <1>1, <2>2, <3>1, <3>2
  <2> QED
    BY <2>1, <2>2
<1>8. SystemFits(new, raw, after)
  <2> HIDE DEF new
  <2> QED
    BY <1>5, <1>6, <1>7 DEF SystemFits
<1> QED
  BY <1>4, <1>8 DEF new

LEMMA FlagsFit ==
  ASSUME cmdFlag \in Int, NEW s \in Systems, NEW raw, NEW before, "flags" \notin before,
         SystemFits(s, raw, before),
         NEW new, new = IF cmdFlag > 0 THEN [s EXCEPT !.timeout = cmdFlag] ELSE s
  PROVE  SystemFits(new, raw, before \cup {"flags"}) /\ new \in Systems
<1> DEFINE own == Numbers(IF "system" \in before THEN env.timeout ELSE {})
<1>1. "system" \in before <=> "system" \in before \cup {"flags"}
  OBVIOUS
<1>2. new \in Systems /\ new.flag = s.flag /\ new.timeout = IF cmdFlag > 0 THEN cmdFlag ELSE s.timeout
  BY DEF Systems
<1>3. /\ s.flag = First2(Booleans(IF "system" \in before THEN env.flag ELSE {}), raw.flag, FALSE)
      /\ s.timeout = First3({}, own, raw.timeout \ {0}, DefaultTimeout)
  <2>1. {n \in {} : n > 0} = {}
    OBVIOUS
  <2> QED
    BY <2>1 DEF SystemFits
<1> HIDE DEF own
<1>4. new.timeout = First3({n \in {cmdFlag} : n > 0}, own, raw.timeout \ {0}, DefaultTimeout)
  <2>1. CASE cmdFlag > 0
    <3>1. {n \in {cmdFlag} : n > 0} = {cmdFlag}
      BY <2>1
    <3>2. Or({cmdFlag}, DefaultTimeout) = cmdFlag
      BY OrGiven
    <3>3. First3({cmdFlag}, own, raw.timeout \ {0}, DefaultTimeout) = Or({cmdFlag}, DefaultTimeout)
      BY FirstOfThree
    <3> QED
      BY <1>2, <2>1, <3>1, <3>2, <3>3
  <2>2. CASE ~(cmdFlag > 0)
    <3>1. {n \in {cmdFlag} : n > 0} = {}
      BY <2>2
    <3> QED
      BY <1>2, <1>3, <2>2, <3>1
  <2> QED
    BY <2>1, <2>2
<1>5. SystemFits(new, raw, before \cup {"flags"})
  BY <1>1, <1>2, <1>3, <1>4 DEF SystemFits, own
<1> QED
  BY <1>2, <1>5

-----------------------------------------------------------------------------
(* The invariant *)

InputInv ==
  /\ env \in Environments /\ cmdFlag \in Flags
  /\ mainFile \in MainFiles /\ sysFile \in SystemFiles
  /\ envOnly \in BOOLEAN /\ edits \in 0..MaxEdits

\* The flags come last.
PhaseInv ==
  /\ phase \in {"start", "system", "routers", "ready", "serving", "exited"}
  /\ phase \in {"start", "system", "routers", "ready"} => "flags" \notin layers

\* The cache and the system settings are always those of one configuration and
\* of the layers applied since.
ConfigInv ==
  /\ InputInv
  /\ PhaseInv
  /\ IsMain(source.main) /\ IsSystem(source.sys)
  /\ sys \in Systems /\ SystemFits(sys, source.sys, layers)
  /\ Fits(cache, source.main, layers)

LEMMA NoFileTypes ==
  IsSystem(NoFile.sys) /\ NoFile.sys = [flag |-> {TRUE}, timeout |-> {}]
BY DEF NoFile, IsSystem, OptionalOf, Optional

LEMMA NoRawTypes ==
  ASSUME NEW S, S \subseteq Names
  PROVE  IsMain([default |-> NoRaw, routers |-> [r \in S |-> NoRaw]])
<1>1. IsRaw(NoRaw)
  BY DEF NoRaw, IsRaw, OptionalOf, Optional
<1> QED
  BY <1>1 DEF IsMain

LEMMA HardcodedFits ==
  ASSUME NEW applied, "system" \notin applied, "flags" \notin applied
  PROVE  SystemFits(HardcodedSystem, NoFile.sys, applied) /\ HardcodedSystem \in Systems
<1>1. /\ HardcodedSystem.flag = TRUE /\ HardcodedSystem.timeout = DefaultTimeout
      /\ HardcodedSystem \in Systems
  BY DEF HardcodedSystem, DefaultTimeout, Systems
<1>2. Booleans({}) = {} /\ Numbers({}) = {} /\ {k \in {} : k > 0} = {}
  BY DEF Booleans, Numbers
<1>3. First2({}, {TRUE}, FALSE) = TRUE
  <2>1. First2({}, {TRUE}, FALSE) = Or({TRUE}, FALSE)
    BY FirstOfTwo
  <2>2. Or({TRUE}, FALSE) \in {TRUE}
    BY OrGiven
  <2> QED
    BY <2>1, <2>2
<1>4. First3({}, {}, {}, DefaultTimeout) = DefaultTimeout
  BY FirstOfThree, OrNone
<1>5. NoFile.sys.flag = {TRUE} /\ NoFile.sys.timeout \ {0} = {}
  BY NoFileTypes
<1> QED
  BY <1>1, <1>2, <1>3, <1>4, <1>5 DEF SystemFits

LEMMA InvInit == Init => ConfigInv
<1> SUFFICES ASSUME Init PROVE ConfigInv
  OBVIOUS
<1>1. InputInv
  <2>1. edits = 0 /\ 0 \in 0..MaxEdits
    BY ConfigAssumption DEF Init
  <2> QED
    BY <2>1 DEF Init, InputInv
<1>2. PhaseInv
  BY DEF Init, PhaseInv
<1>3. source = NoFile /\ layers = {}
  BY DEF Init
<1>4. NoFile.main = [default |-> NoRaw, routers |-> EmptyMap] /\ DOMAIN EmptyMap = {}
  BY DEF NoFile, EmptyMap
<1>5. IsMain(NoFile.main)
  <2>1. IsRaw(NoRaw)
    BY DEF NoRaw, IsRaw, OptionalOf, Optional
  <2> QED
    BY <1>4, <2>1 DEF IsMain
<1>6. Fits(cache, NoFile.main, {})
  <2>1. /\ cache.entries = EmptyMap /\ DOMAIN cache.maps = Owners
        /\ \A o \in Owners : cache.maps[o] = EmptyMap
    BY DEF Init
  <2>2. \A o \in Owners : SectionMap(NoFile.main, o) = EmptyMap
    <3>1. Or(NoRaw.labels, EmptyMap) = EmptyMap
      BY OrNone DEF NoRaw
    <3> QED
      BY <1>4, <3>1 DEF SectionMap
  <2>3. \A o \in Owners : MapFits(cache.maps[o], cache.entries, NoFile.main, o, {})
    BY <1>4, <2>1, <2>2 DEF MapFits, WrittenBy
  <2> QED
    BY <1>4, <2>1, <2>3 DEF Fits
<1>7. sys \in Systems /\ SystemFits(sys, NoFile.sys, {})
  BY HardcodedFits DEF Init
<1> QED
  BY <1>1, <1>2, <1>3, <1>5, <1>6, <1>7, NoFileTypes DEF ConfigInv

\* The environment and the flags are what they were.
LEMMA EnvStays ==
  ASSUME env' = env
  PROVE  /\ \A r : EnvOf(r)' = EnvOf(r)
         /\ \A r : EnvKeys(r)' = EnvKeys(r)
         /\ \A entries, o : Written(entries, o)' = Written(entries, o)
         /\ \A entries, o, k : LabelWriters(entries, o, k)' = LabelWriters(entries, o, k)
<1>1. \A r : EnvOf(r)' = EnvOf(r)
  BY DEF EnvOf
<1>2. \A r : EnvKeys(r)' = EnvKeys(r)
  BY <1>1 DEF EnvKeys
<1>3. \A entries, o : Written(entries, o)' = Written(entries, o)
  BY <1>2 DEF Written
<1>4. \A entries, o, k : LabelWriters(entries, o, k)' = LabelWriters(entries, o, k)
  BY <1>2 DEF LabelWriters
<1> QED
  BY <1>1, <1>2, <1>3, <1>4

LEMMA FitsStays ==
  ASSUME env' = env, NEW c, NEW config, NEW applied, Fits(c, config, applied)
  PROVE  Fits(c, config, applied)'
<1>1. ASSUME NEW r \in DOMAIN config.routers PROVE EntryFits(c.entries[r], config, r, applied)'
  <2>1. EntryFits(c.entries[r], config, r, applied)
    BY DEF Fits
  <2>2. /\ Taken(applied, EnvOf(r).flag)' = Taken(applied, EnvOf(r).flag)
        /\ Taken(applied, EnvOf(r).port)' = Taken(applied, EnvOf(r).port)
        /\ Taken(applied, EnvOf(r).labels)' = Taken(applied, EnvOf(r).labels)
    BY EnvStays DEF Taken
  <2>3. OwnerOf(config, r, applied)' = OwnerOf(config, r, applied)
    BY <2>2 DEF OwnerOf
  <2> QED
    BY <2>1, <2>2, <2>3 DEF EntryFits
<1>2. ASSUME NEW o \in Owners PROVE MapFits(c.maps[o], c.entries, config, o, applied)'
  <2>1. MapFits(c.maps[o], c.entries, config, o, applied)
    BY DEF Fits
  <2> QED
    BY <2>1, EnvStays DEF MapFits, WrittenBy
<1> QED
  BY <1>1, <1>2 DEF Fits

LEMMA SystemStays ==
  ASSUME env' = env, cmdFlag' = cmdFlag, NEW s, NEW raw, NEW applied,
         SystemFits(s, raw, applied)
  PROVE  SystemFits(s, raw, applied)'
BY DEF SystemFits

\* Only the layer of the routers matters to the entries.
LEMMA SameRouters ==
  ASSUME NEW c, NEW config, NEW before, NEW after, Fits(c, config, before),
         "routers" \in after <=> "routers" \in before
  PROVE  Fits(c, config, after)
<1>1. \A option : Taken(after, option) = Taken(before, option)
  BY DEF Taken
<1>2. \A entries, o : WrittenBy(entries, o, after) = WrittenBy(entries, o, before)
  BY DEF WrittenBy
<1>3. ASSUME NEW r \in DOMAIN config.routers PROVE EntryFits(c.entries[r], config, r, after)
  <2>1. EntryFits(c.entries[r], config, r, before)
    BY DEF Fits
  <2> QED
    BY <1>1, <2>1 DEF EntryFits, OwnerOf
<1>4. ASSUME NEW o \in Owners PROVE MapFits(c.maps[o], c.entries, config, o, after)
  <2>1. MapFits(c.maps[o], c.entries, config, o, before)
    BY DEF Fits
  <2> QED
    BY <1>2, <2>1 DEF MapFits
<1> QED
  BY <1>3, <1>4 DEF Fits

LEMMA InputTypes ==
  ASSUME InputInv
  PROVE  IsEnvironment(env) /\ cmdFlag \in Int
BY ConfigAssumption DEF InputInv

\* What the actions have to show of the settings they leave.
LoadedNext ==
  /\ IsMain(source'.main) /\ IsSystem(source'.sys)
  /\ sys' \in Systems /\ SystemFits(sys', source'.sys, layers')
  /\ Fits(cache', source'.main, layers')

LEMMA LoadedInv ==
  ASSUME env' = env, cmdFlag' = cmdFlag, LoadedNext, InputInv', PhaseInv'
  PROVE  ConfigInv'
<1>1. SystemFits(sys, source.sys, layers)' /\ Fits(cache, source.main, layers)'
  BY FitsStays, SystemStays DEF LoadedNext
<1> QED
  BY <1>1 DEF LoadedNext, ConfigInv, IsMain, IsSystem, IsRaw

LEMMA EnvOnlyLoads ==
  ASSUME InputInv, LoadEnvOnly
  PROVE  LoadedNext /\ layers' = {"system", "routers"} /\ envOnly' = TRUE
<1> DEFINE config == [default |-> NoRaw, routers |-> [r \in Listed |-> NoRaw]]
<1>1. source'.main = config /\ source'.sys = NoFile.sys
  BY DEF LoadEnvOnly, NoFile
<1>2. IsMain(config)
  BY NoRawTypes DEF LoadEnvOnly, ListAccepted
<1>3. layers' = {"system", "routers"} /\ envOnly' = TRUE
  BY DEF LoadEnvOnly
<1>4. sys' \in Systems /\ SystemFits(sys', NoFile.sys, layers')
  <2>1. SystemFits(HardcodedSystem, NoFile.sys, {}) /\ HardcodedSystem \in Systems
    BY HardcodedFits
  <2>2. sys' = ApplySystemEnvOverrides(HardcodedSystem)
    BY DEF LoadEnvOnly
  <2>3. IsEnvironment(env) /\ "flags" \notin {} /\ "flags" \notin layers' /\ "system" \in layers'
    BY <1>3, InputTypes
  <2> QED
    BY <2>1, <2>2, <2>3, SystemOverrideFits
<1>5. Fits(cache', config, layers')
  <2>1. PICK rank \in Orders : cache' = ApplyRouterEnvOverrides(BuildEntryCache(config), rank)
    BY DEF LoadEnvOnly
  <2>2. Fits(BuildEntryCache(config), config, {})
    BY BuildFits
  <2>3. IsEnvironment(env) /\ "routers" \in layers' /\ DOMAIN config.routers \subseteq Names
    BY <1>2, <1>3, InputTypes DEF IsMain
  <2> HIDE DEF config
  <2> QED
    BY <2>1, <2>2, <2>3, OverrideFits
<1> HIDE DEF config
<1> QED
  BY <1>1, <1>2, <1>3, <1>4, <1>5, NoFileTypes DEF LoadedNext

LEMMA FilesLoad ==
  ASSUME NEW m \in MainFiles, NEW s \in SystemFiles, LoadFiles(m, s)
  PROVE  LoadedNext /\ layers' = {}
<1>1. IsMain(m.config) /\ IsSystem(s.config)
  BY ConfigAssumption DEF LoadFiles
<1>2. source'.main = m.config /\ source'.sys = s.config /\ layers' = {}
  BY DEF LoadFiles
<1>3. SystemFits(sys', s.config, {}) /\ sys' \in Systems
  <2>1. sys' = ApplySystemDefaults(s.config)
    BY DEF LoadFiles
  <2> QED
    BY <1>1, <2>1, DefaultsFit
<1>4. Fits(cache', m.config, {})
  <2>1. cache' = BuildEntryCache(m.config)
    BY DEF LoadFiles
  <2> QED
    BY <2>1, BuildFits
<1> QED
  BY <1>1, <1>2, <1>3, <1>4 DEF LoadedNext

LEMMA NothingLoaded ==
  ASSUME ConfigInv, UNCHANGED <<sys, cache, source, layers>>
  PROVE  LoadedNext
BY DEF ConfigInv, LoadedNext

LEMMA InvStep == ConfigInv /\ [Next]_vars => ConfigInv'
<1> SUFFICES ASSUME ConfigInv, [Next]_vars PROVE ConfigInv'
  OBVIOUS
<1>1. InputInv /\ PhaseInv /\ IsEnvironment(env) /\ cmdFlag \in Int
  BY InputTypes DEF ConfigInv
<1>2. /\ EnsureFile(mainFile, MainTemplate) \in MainFiles
      /\ EnsureFile(sysFile, SystemTemplate) \in SystemFiles
  BY <1>1, ConfigAssumption DEF EnsureFile, InputInv
<1>3. ASSUME InitEnvOnly PROVE ConfigInv'
  <2>1. LoadedNext /\ layers' = {"system", "routers"} /\ envOnly' = TRUE
    BY <1>1, <1>3, EnvOnlyLoads DEF InitEnvOnly
  <2>2. InputInv' /\ PhaseInv'
    BY <1>1, <1>3, <2>1 DEF InitEnvOnly, InputInv, PhaseInv
  <2> QED
    BY <1>3, <2>1, <2>2, LoadedInv DEF InitEnvOnly
<1>4. ASSUME InitEnvOnlyFails PROVE ConfigInv'
  <2>1. LoadedNext
    BY <1>4, NothingLoaded DEF InitEnvOnlyFails
  <2>2. InputInv' /\ PhaseInv'
    BY <1>1, <1>4 DEF InitEnvOnlyFails, InputInv, PhaseInv
  <2> QED
    BY <1>4, <2>1, <2>2, LoadedInv DEF InitEnvOnlyFails
<1>5. ASSUME InitFiles PROVE ConfigInv'
  <2>1. LoadedNext /\ layers' = {}
    BY <1>2, <1>5, FilesLoad DEF InitFiles
  <2>2. InputInv' /\ PhaseInv'
    BY <1>1, <1>2, <1>5, <2>1 DEF InitFiles, InputInv, PhaseInv
  <2> QED
    BY <1>5, <2>1, <2>2, LoadedInv DEF InitFiles
<1>6. ASSUME InitFilesFails PROVE ConfigInv'
  <2>1. LoadedNext
    BY <1>6, NothingLoaded DEF InitFilesFails, LoadMainFails, LoadSystemFails
  <2>2. InputInv' /\ PhaseInv'
    BY <1>1, <1>2, <1>6 DEF InitFilesFails, InputInv, PhaseInv
  <2> QED
    BY <1>6, <2>1, <2>2, LoadedInv DEF InitFilesFails
<1>7. ASSUME ApplySystemOverrides PROVE ConfigInv'
  <2>1. "flags" \notin layers /\ "flags" \notin layers' /\ "system" \in layers'
    BY <1>1, <1>7 DEF ApplySystemOverrides, PhaseInv
  <2>2. SystemFits(sys', source'.sys, layers') /\ sys' \in Systems
    BY <1>1, <1>7, <2>1, SystemOverrideFits DEF ApplySystemOverrides, ConfigInv
  <2>3. Fits(cache', source'.main, layers')
    <3>1. "routers" \in layers' <=> "routers" \in layers
      BY <1>7 DEF ApplySystemOverrides
    <3>2. Fits(cache, source.main, layers) /\ cache' = cache /\ source' = source
      BY <1>7 DEF ApplySystemOverrides, ConfigInv
    <3>3. Fits(cache, source.main, layers')
      BY <3>1, <3>2, SameRouters
    <3> QED
      BY <3>2, <3>3
  <2>4. LoadedNext
    BY <1>7, <2>2, <2>3 DEF ApplySystemOverrides, ConfigInv, LoadedNext
  <2>5. InputInv' /\ PhaseInv'
    BY <1>1, <1>7, <2>1 DEF ApplySystemOverrides, InputInv, PhaseInv
  <2> QED
    BY <1>7, <2>4, <2>5, LoadedInv DEF ApplySystemOverrides
<1>8. ASSUME ApplyRouterOverrides PROVE ConfigInv'
  <2>1. PICK rank \in Orders : cache' = ApplyRouterEnvOverrides(cache, rank)
    BY <1>8 DEF ApplyRouterOverrides
  <2>2. /\ "flags" \notin layers' /\ "routers" \in layers'
        /\ "system" \in layers' <=> "system" \in layers
        /\ "flags" \in layers' <=> "flags" \in layers
    BY <1>1, <1>8 DEF ApplyRouterOverrides, PhaseInv
  <2>3. Fits(cache', source'.main, layers')
    <3>1. DOMAIN source.main.routers \subseteq Names /\ Fits(cache, source.main, layers)
      BY DEF ConfigInv, IsMain
    <3> QED
      BY <1>1, <1>8, <2>1, <2>2, <3>1, OverrideFits DEF ApplyRouterOverrides
  <2>4. SystemFits(sys', source'.sys, layers')
    BY <1>8, <2>2 DEF ApplyRouterOverrides, ConfigInv, SystemFits
  <2>5. LoadedNext
    BY <1>8, <2>3, <2>4 DEF ApplyRouterOverrides, ConfigInv, LoadedNext
  <2>6. InputInv' /\ PhaseInv'
    BY <1>1, <1>8, <2>2 DEF ApplyRouterOverrides, InputInv, PhaseInv
  <2> QED
    BY <1>8, <2>5, <2>6, LoadedInv DEF ApplyRouterOverrides
<1>9. ASSUME ApplyExportOverrides PROVE ConfigInv'
  <2>1. "flags" \notin layers /\ layers' = layers \cup {"flags"}
    BY <1>1, <1>9 DEF ApplyExportOverrides, PhaseInv
  <2>2. SystemFits(sys', source'.sys, layers') /\ sys' \in Systems
    <3>1. /\ sys' = IF cmdFlag > 0 THEN [sys EXCEPT !.timeout = cmdFlag] ELSE sys
          /\ source' = source /\ sys \in Systems /\ SystemFits(sys, source.sys, layers)
      BY <1>9 DEF ApplyExportOverrides, ConfigInv
    <3> QED
      BY <1>1, <2>1, <3>1, FlagsFit
  <2>3. Fits(cache', source'.main, layers')
    <3>1. "routers" \in layers' <=> "routers" \in layers
      BY <2>1
    <3>2. Fits(cache, source.main, layers) /\ cache' = cache /\ source' = source
      BY <1>9 DEF ApplyExportOverrides, ConfigInv
    <3>3. Fits(cache, source.main, layers')
      BY <3>1, <3>2, SameRouters
    <3> QED
      BY <3>2, <3>3
  <2>4. LoadedNext
    BY <1>9, <2>2, <2>3 DEF ApplyExportOverrides, ConfigInv, LoadedNext
  <2>5. InputInv' /\ PhaseInv'
    BY <1>1, <1>9 DEF ApplyExportOverrides, InputInv, PhaseInv
  <2> QED
    BY <1>9, <2>4, <2>5, LoadedInv DEF ApplyExportOverrides
<1>10. ASSUME NEW file \in MainFiles, EditMain(file) PROVE ConfigInv'
  <2>1. LoadedNext
    BY <1>10, NothingLoaded DEF EditMain
  <2>2. InputInv' /\ PhaseInv'
    BY <1>1, <1>10, ConfigAssumption DEF EditMain, InputInv, PhaseInv
  <2> QED
    BY <1>10, <2>1, <2>2, LoadedInv DEF EditMain
<1>11. ASSUME NEW file \in SystemFiles, EditSystem(file) PROVE ConfigInv'
  <2>1. LoadedNext
    BY <1>11, NothingLoaded DEF EditSystem
  <2>2. InputInv' /\ PhaseInv'
    BY <1>1, <1>11, ConfigAssumption DEF EditSystem, InputInv, PhaseInv
  <2> QED
    BY <1>11, <2>1, <2>2, LoadedInv DEF EditSystem
<1>12. ASSUME ReloadEnvOnly PROVE ConfigInv'
  <2>1. LoadedNext /\ layers' = {"system", "routers"} /\ envOnly' = TRUE
    BY <1>1, <1>12, EnvOnlyLoads DEF ReloadEnvOnly
  <2>2. InputInv' /\ PhaseInv'
    BY <1>1, <1>12, <2>1 DEF ReloadEnvOnly, InputInv, PhaseInv
  <2> QED
    BY <1>12, <2>1, <2>2, LoadedInv DEF ReloadEnvOnly
<1>13. ASSUME ReloadFiles PROVE ConfigInv'
  <2>1. LoadedNext /\ layers' \in {layers, {}}
    <3>1. CASE LoadMainFails(mainFile) \/ LoadSystemFails(mainFile, sysFile)
      BY <3>1, NothingLoaded DEF LoadMainFails, LoadSystemFails
    <3>2. CASE LoadFiles(mainFile, sysFile)
      BY <1>1, <3>2, FilesLoad DEF InputInv
    <3> QED
      BY <1>13, <3>1, <3>2 DEF ReloadFiles
  <2>2. InputInv' /\ PhaseInv'
    BY <1>1, <1>13, <2>1 DEF ReloadFiles, InputInv, PhaseInv
  <2> QED
    BY <1>13, <2>1, <2>2, LoadedInv DEF ReloadFiles
<1>14. ASSUME UNCHANGED vars PROVE ConfigInv'
  <2>1. LoadedNext
    BY <1>14, NothingLoaded DEF vars
  <2>2. InputInv' /\ PhaseInv'
    BY <1>1, <1>14 DEF vars, InputInv, PhaseInv
  <2> QED
    BY <1>14, <2>1, <2>2, LoadedInv DEF vars
<1> QED
  BY <1>3, <1>4, <1>5, <1>6, <1>7, <1>8, <1>9, <1>10, <1>11, <1>12, <1>13, <1>14 DEF Next

LEMMA InvAlways == Spec => []ConfigInv
BY InvInit, InvStep, PTL DEF Spec

-----------------------------------------------------------------------------
(* The theorems *)

LEMMA GivenType ==
  ASSUME NEW S, NEW a \in SUBSET S, NEW b \in SUBSET S, NEW c \in SUBSET S, NEW v \in S
  PROVE  First3(a, b, c, v) \in S
<1>1. First3(a, b, c, v) = IF a # {} THEN Or(a, v) ELSE IF b # {} THEN Or(b, v) ELSE Or(c, v)
  BY FirstOfThree
<1>2. \A option \in SUBSET S : Or(option, v) \in S
  BY OrNone, OrGiven
<1> QED
  BY <1>1, <1>2

\* The settings that readers see are complete and of their types, in every
\* phase of the start and after every reload, whatever the files and the
\* environment say.
THEOREM TypeCorrect == Spec => []TypeOK
<1>1. ConfigInv => TypeOK
  <2> SUFFICES ASSUME ConfigInv PROVE TypeOK
    OBVIOUS
  <2>1. sys.flag \in BOOLEAN /\ sys.timeout \in Int
    BY DEF ConfigInv, Systems
  <2>2. DOMAIN cache.entries = DOMAIN source.main.routers /\ DOMAIN cache.entries \subseteq Names
    BY DEF ConfigInv, IsMain, Fits
  <2>3. ASSUME NEW r \in DOMAIN cache.entries
        PROVE  /\ cache.entries[r].flag \in BOOLEAN
               /\ cache.entries[r].port \in Int
               /\ cache.entries[r].labels \in {"nil", "default", r}
    <3>1. EntryFits(cache.entries[r], source.main, r, layers)
      BY <2>2 DEF ConfigInv, Fits
    <3>2. IsRaw(source.main.routers[r]) /\ IsRaw(source.main.default) /\ r \in Names
      BY <2>2 DEF ConfigInv, IsMain
    <3>3. Booleans(Taken(layers, EnvOf(r).flag)) \in SUBSET BOOLEAN
      <4>1. \A text : GetBool(text) \in BOOLEAN
        BY DEF GetBool
      <4> QED
        BY <4>1 DEF Booleans
    <3>4. Numbers(Taken(layers, EnvOf(r).port)) \cap Ports \in SUBSET Int
      <4>1. Ports \subseteq Int
        BY DEF Ports
      <4> QED
        BY <4>1
    <3>5. cache.entries[r].flag \in BOOLEAN
      BY <3>1, <3>2, <3>3, GivenType DEF EntryFits, IsRaw, OptionalOf
    <3>6. cache.entries[r].port \in Int
      <4>1. DefaultPort \in Int
        BY DEF DefaultPort
      <4> QED
        BY <3>1, <3>2, <3>4, <4>1, GivenType DEF EntryFits, IsRaw, OptionalOf
    <3>7. cache.entries[r].labels \in {"nil", "default", r}
      BY <3>1 DEF EntryFits, OwnerOf
    <3> QED
      BY <3>5, <3>6, <3>7
  <2> QED
    BY <2>1, <2>2, <2>3 DEF TypeOK, ConfigInv, InputInv, PhaseInv
<1> QED
  BY <1>1, InvAlways, PTL

\* Every setting of every router is the strongest source that gives it:
\* environment, section, default section, built-in value.
THEOREM EntriesAlwaysResolve == Spec => []EntriesResolve
<1>1. ConfigInv => EntriesResolve
  <2> SUFFICES ASSUME ConfigInv PROVE EntriesResolve
    OBVIOUS
  <2>1. DOMAIN cache.entries = DOMAIN source.main.routers
    BY DEF ConfigInv, Fits
  <2>2. \A r \in DOMAIN cache.entries : EntryFits(cache.entries[r], source.main, r, layers)
    BY <2>1 DEF ConfigInv, Fits
  <2>3. \A option : Applied("routers", option) = Taken(layers, option)
    BY DEF Applied, Taken
  <2> QED
    BY <2>1, <2>2, <2>3 DEF EntriesResolve, EntryFits, First3, Raw, Default
<1> QED
  BY <1>1, InvAlways, PTL

\* And so is every setting of the system: flag, environment, file, built-in
\* value.
THEOREM SystemAlwaysResolves == Spec => []SystemResolves
<1>1. ConfigInv => SystemResolves
  BY DEF ConfigInv, SystemFits, First2, First3, SystemResolves, Applied
<1> QED
  BY <1>1, InvAlways, PTL

\* In whatever order the routers are visited and whichever of them share a map,
\* the labels given to a router are in the map its collectors read, with the
\* value given, unless another router that shares the map wrote the same key.
THEOREM LabelsAlwaysReach == Spec => []LabelsReachTheRouter
<1>1. ConfigInv => LabelsReachTheRouter
  <2> SUFFICES ASSUME ConfigInv, NEW r \in DOMAIN cache.entries
      PROVE  /\ DOMAIN OwnLabels(r) \subseteq DOMAIN Labels(r)
             /\ \A k \in DOMAIN OwnLabels(r) \ ForeignKeys(r) : Labels(r)[k] = OwnLabels(r)[k]
    BY DEF LabelsReachTheRouter
  <2> DEFINE given == Taken(layers, EnvOf(r).labels)
             own == Or(given, EmptyMap)
             o == cache.entries[r].labels
             section == SectionMap(source.main, o)
             shared == WrittenBy(cache.entries, o, layers)
             raw == source.main.routers[r].labels
             default == source.main.default.labels
  <2>1. r \in DOMAIN source.main.routers /\ r \in Names
    BY DEF ConfigInv, Fits, IsMain
  <2>2. r # "nil" /\ r # "default" /\ r \in Owners /\ "default" \in Owners
    BY <2>1, ConfigAssumption DEF Owners
  <2>3. o = OwnerOf(source.main, r, layers)
    BY <2>1 DEF ConfigInv, Fits, EntryFits
  <2>4. DOMAIN EmptyMap = {}
    BY DEF EmptyMap
  <2>5. OwnLabels(r) = Onto(own, First2(raw, default, EmptyMap))
    BY DEF OwnLabels, Applied, Taken, First2, Raw, Default
  <2>6. First2(raw, default, EmptyMap) = IF raw # {} THEN Or(raw, EmptyMap) ELSE Or(default, EmptyMap)
    BY FirstOfTwo
  <2>7. CASE o = "nil"
    <3>1. raw = {} /\ default = {} /\ given = {}
      BY <2>2, <2>3, <2>7 DEF OwnerOf
    <3>2. First2(raw, default, EmptyMap) = EmptyMap /\ own = EmptyMap
      BY <2>6, <3>1, OrNone
    <3>3. DOMAIN OwnLabels(r) = {}
      BY <2>4, <2>5, <3>2 DEF Onto
    <3> QED
      BY <3>3
  <2>8. CASE o # "nil"
    <3>1. o \in Owners /\ Labels(r) = cache.maps[o]
      BY <2>2, <2>3, <2>8 DEF OwnerOf, Labels
    <3>2. First2(raw, default, EmptyMap) = section
      <4>1. CASE raw # {}
        <5>1. o = r
          BY <2>3, <4>1 DEF OwnerOf
        <5> QED
          BY <2>1, <2>2, <2>6, <4>1, <5>1 DEF SectionMap
      <4>2. CASE raw = {} /\ default # {}
        <5>1. o = "default"
          BY <2>3, <4>2 DEF OwnerOf
        <5> QED
          BY <2>6, <4>2, <5>1 DEF SectionMap
      <4>3. CASE raw = {} /\ default = {}
        <5>1. o = r
          BY <2>3, <2>8, <4>3 DEF OwnerOf
        <5> QED
          BY <2>1, <2>2, <2>6, <4>3, <5>1 DEF SectionMap
      <4> QED
        BY <4>1, <4>2, <4>3
    <3>3. MapFits(Labels(r), cache.entries, source.main, o, layers)
      BY <3>1 DEF ConfigInv, Fits
    <3>4. /\ DOMAIN OwnLabels(r) = DOMAIN own \cup DOMAIN section
          /\ \A k \in DOMAIN own : OwnLabels(r)[k] = own[k]
          /\ \A k \in DOMAIN section \ DOMAIN own : OwnLabels(r)[k] = section[k]
      BY <2>5, <3>2 DEF Onto
    <3>5. DOMAIN own \subseteq shared
      <4>1. CASE given = {}
        BY <2>4, <4>1, OrNone
      <4>2. CASE given # {}
        <5>1. "routers" \in layers /\ given = EnvOf(r).labels
          BY <4>2 DEF Taken
        <5>2. own \in EnvOf(r).labels
          BY <4>2, <5>1, OrGiven
        <5> HIDE DEF own
        <5>3. DOMAIN own \subseteq EnvKeys(r)
          BY <5>2 DEF EnvKeys
        <5>4. DOMAIN own \subseteq Written(cache.entries, o)
          BY <5>3 DEF Written
        <5> QED
          BY <5>1, <5>4 DEF WrittenBy
      <4> QED
        BY <4>1, <4>2
    <3>6. DOMAIN OwnLabels(r) \subseteq DOMAIN Labels(r)
      BY <3>3, <3>4, <3>5 DEF MapFits
    <3>7. ASSUME NEW k \in shared, k \notin ForeignKeys(r)
          PROVE  k \in DOMAIN own /\ Labels(r)[k] = own[k]
      <4>1. PICK w \in LabelWriters(cache.entries, o, k) :
              Labels(r)[k] = Or(EnvOf(w).labels, EmptyMap)[k]
        BY <3>3 DEF MapFits
      <4>2. w = r /\ k \in EnvKeys(r)
        BY <3>7, <4>1 DEF LabelWriters, ForeignKeys
      <4>3. "routers" \in layers /\ given = EnvOf(r).labels
        BY DEF WrittenBy, Taken
      <4>4. k \in DOMAIN own
        <5>1. PICK labels \in EnvOf(r).labels : k \in DOMAIN labels
          BY <4>2 DEF EnvKeys
        <5>2. own \in EnvOf(r).labels
          BY <4>3, <5>1, OrGiven
        <5>3. Optional(EnvOf(r).labels)
          BY <2>1, InputTypes DEF ConfigInv, IsEnvironment, EnvOf
        <5> HIDE DEF own
        <5> QED
          BY <5>1, <5>2, <5>3 DEF Optional
      <4> QED
        BY <4>1, <4>2, <4>3, <4>4
    <3>8. ASSUME NEW k \in DOMAIN OwnLabels(r) \ ForeignKeys(r)
          PROVE  Labels(r)[k] = OwnLabels(r)[k]
      <4>1. CASE k \in shared
        <5>1. k \in DOMAIN own /\ Labels(r)[k] = own[k]
          BY <3>7, <3>8, <4>1
        <5> QED
          BY <3>4, <5>1
      <4>2. CASE k \notin shared
        <5>1. k \in DOMAIN section \ DOMAIN own /\ k \in DOMAIN section \ shared
          BY <3>4, <3>5, <3>8, <4>2
        <5>2. Labels(r)[k] = section[k]
          BY <3>3, <5>1 DEF MapFits
        <5> QED
          BY <3>4, <5>1, <5>2
      <4> QED
        BY <4>1, <4>2
    <3> QED
      BY <3>6, <3>8
  <2> QED
    BY <2>7, <2>8
<1> QED
  BY <1>1, InvAlways, PTL
=============================================================================
