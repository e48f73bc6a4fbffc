---------------------------- MODULE Settings_proofs ----------------------------
(***************************************************************************)
(* Proofs about Settings, for every set of routers and environments.       *)
(***************************************************************************)
EXTENDS Settings, SequenceTheorems, WellFoundedInduction, TLAPS

-----------------------------------------------------------------------------
(* The last of several spellings *)

\* A set of places in a sequence has a last one: the one of the least distance
\* from the end.
LEMMA LastPlace ==
  ASSUME NEW n \in Nat, NEW P \in SUBSET (1..n), P # {}
  PROVE  \E i \in P : \A j \in P : j <= i
<1> DEFINE Less == OpToRel(<, Nat)
           Distances == {n - i : i \in P}
<1>1. IsWellFoundedOn(Less, Nat)
  BY NatLessThanWellFounded
<1>2. Distances \subseteq Nat /\ Distances # {}
  <2>1. \A i \in P : n - i \in Nat
    OBVIOUS
  <2> QED
    BY <2>1
<1>3. PICK d \in Distances : \A e \in Distances : <<e, d>> \notin Less
  <2> HIDE DEF Less, Distances
  <2> QED
    BY <1>1, <1>2, WFMin
<1>4. PICK i \in P : d = n - i
  OBVIOUS
<1>5. ASSUME NEW j \in P PROVE j <= i
  <2>1. n - j \in Distances /\ n - j \in Nat /\ d \in Nat
    BY <1>2
  <2>2. ~(n - j < d)
    BY <1>3, <2>1 DEF OpToRel
  <2> QED
    BY <1>4, <2>1, <2>2
<1> QED
  BY <1>5

\* The environment is one of those the process may be started in.
EnvOK == env \in Environments

LEMMA EnvTypes ==
  ASSUME EnvOK
  PROVE  /\ env \in Seq(Variables) /\ Len(env) \in Nat /\ DOMAIN env = 1..Len(env)
         /\ \A i \in DOMAIN env : env[i] \in Variables
<1>1. env \in Seq(Variables)
  BY SettingsAssumption DEF EnvOK
<1> QED
  BY <1>1, LenProperties, ElementOfSeq

\* The variable a setting takes its value from names it.
LEMMA WinnerNames ==
  ASSUME EnvOK, NEW s, Namers(s) # {}
  PROVE  Winner(s) \in DOMAIN env /\ Names(Winner(s), s[1], s[2])
<1>1. Namers(s) \in SUBSET (1..Len(env)) /\ Len(env) \in Nat
  BY EnvTypes DEF Namers
<1>2. \E i \in Namers(s) : \A j \in Namers(s) : j <= i
  BY <1>1, LastPlace
<1>3. Winner(s) \in Namers(s)
  BY <1>2 DEF Winner
<1> QED
  BY <1>3 DEF Namers

-----------------------------------------------------------------------------
(* Types *)

\* Every override comes from a variable that names its setting and that the
\* setting accepts.
OriginInv ==
  \A s \in Overridden :
    origin[s] \in DOMAIN env /\ Names(origin[s], s[1], s[2]) /\ Accepts(s[2], env[origin[s]])

Places ==
  /\ phase \in {"system", "routers", "dial"}
  /\ visited \subseteq Settings
  /\ Overridden \subseteq visited
  /\ login \in {<<>>} \cup (Routers \X [Credentials -> {"file", "environment", "entry"}])

SettingsInv == EnvOK /\ Places /\ OriginInv

LEMMA OriginsKept == OriginInv /\ env' = env /\ origin' = origin => OriginInv'
BY DEF OriginInv, Overridden, Names, Accepts

LEMMA InvInit == Init => SettingsInv
<1> SUFFICES ASSUME Init PROVE SettingsInv
  OBVIOUS
<1>1. Overridden = {}
  BY DEF Init, Overridden
<1> QED
  BY <1>1 DEF Init, SettingsInv, EnvOK, Places, OriginInv

LEMMA InvStep == SettingsInv /\ [Next]_vars => SettingsInv'
<1> SUFFICES ASSUME SettingsInv, [Next]_vars PROVE SettingsInv'
  OBVIOUS
<1> USE DEF SettingsInv
<1>1. EnvOK'
  BY DEF EnvOK, Next, Override, PhaseEnds, Dial, vars
<1>2. ASSUME NEW s \in Settings, Override(s) PROVE Places' /\ OriginInv'
  <2>1. Winner(s) \in DOMAIN env /\ Names(Winner(s), s[1], s[2])
    BY <1>2, WinnerNames DEF Override
  <2>2. env' = env /\ phase' = phase /\ login' = login /\ visited' = visited \cup {s}
    BY <1>2 DEF Override
  <2>3. CASE Accepts(s[2], env[Winner(s)])
    <3>1. origin' = [t \in Overridden \cup {s} |-> IF t = s THEN Winner(s) ELSE origin[t]]
      BY <1>2, <2>3 DEF Override
    <3>2. Overridden' = Overridden \cup {s}
      BY <3>1 DEF Overridden
    <3>3. \A t \in Overridden' : origin'[t] = IF t = s THEN Winner(s) ELSE origin[t]
      BY <3>1, <3>2
    <3> QED
      BY <2>1, <2>2, <2>3, <3>2, <3>3 DEF Places, OriginInv, Names, Accepts
  <2>4. CASE ~Accepts(s[2], env[Winner(s)])
    <3>1. origin' = origin
      BY <1>2, <2>4 DEF Override
    <3> QED
      BY <2>2, <3>1, OriginsKept DEF Places, Overridden
  <2> QED
    BY <2>3, <2>4
<1>3. CASE PhaseEnds
  BY <1>1, <1>3, OriginsKept DEF PhaseEnds, Places, Overridden
<1>4. ASSUME NEW r \in Routers, Dial(r) PROVE Places' /\ OriginInv'
  <2>1. OriginInv' /\ phase' = phase /\ visited' = visited /\ Overridden' = Overridden
    BY <1>4, OriginsKept DEF Dial, Overridden
  <2>2. login' \in Routers \X [Credentials -> {"file", "environment", "entry"}]
    BY <1>4 DEF Dial
  <2> QED
    BY <2>1, <2>2 DEF Places
<1>5. CASE UNCHANGED vars
  BY <1>1, <1>5, OriginsKept DEF vars, Places, Overridden
<1> QED
  BY <1>1, <1>2, <1>3, <1>4, <1>5 DEF Next

LEMMA InvAlways == Spec => []SettingsInv
BY InvInit, InvStep, PTL DEF Spec

\* The variables keep their types, and no port out of range is ever set.
THEOREM TypeCorrect == Spec => []TypeOK
<1>1. SettingsInv => TypeOK
  <2> SUFFICES ASSUME SettingsInv PROVE TypeOK
    OBVIOUS
  <2>1. ASSUME NEW s \in Overridden PROVE s[2] = Port => env[origin[s]].n \in Ports
    BY <2>1 DEF SettingsInv, OriginInv, Accepts
  <2> QED
    BY <2>1 DEF SettingsInv, Places, OriginInv, TypeOK
<1> QED
  BY <1>1, InvAlways, PTL

\* Whatever the environment says of the worker threads, the semaphore has a slot.
THEOREM SemaphoreAlwaysUsable == Spec => []SemaphoreUsable
<1>1. SettingsInv => SemaphoreUsable
  <2> SUFFICES ASSUME SettingsInv PROVE SemSize >= 1
    BY DEF SemaphoreUsable
  <2> DEFINE Threads == Number(<<"max", "worker", "threads">>)
  <2>1. Threads \in Int
    <3>1. \A i \in DOMAIN env : env[i].n \in Int
      BY EnvTypes DEF SettingsInv, Variables
    <3> QED
      BY <3>1 DEF SettingsInv, OriginInv, Number, BuiltIn
  <2> HIDE DEF Threads
  <2>2. SemSize = 1 \/ SemSize = 5 \/ (~(Threads <= 0) /\ SemSize = Threads)
    BY DEF SemSize, Threads
  <2> QED
    BY <2>1, <2>2
<1> QED
  BY <1>1, InvAlways, PTL

-----------------------------------------------------------------------------
(* Names with the same words *)

\* A name for the length that the provers leave alone.
Width(w) == Len(w)

LEMMA ConcatFirst ==
  ASSUME NEW S, NEW s \in Seq(S), NEW t \in Seq(S), NEW i \in 1..Len(s)
  PROVE  (s \o t)[i] = s[i]
<1>1. i \in 1..Len(s) + Len(t) /\ i <= Len(s)
  BY LenProperties
<1> QED
  BY <1>1, ConcatProperties

LEMMA ConcatSecond ==
  ASSUME NEW S, NEW s \in Seq(S), NEW t \in Seq(S), NEW i \in 1..Len(t)
  PROVE  (s \o t)[Len(s) + i] = t[i]
<1>1. /\ Len(s) + i \in 1..Len(s) + Len(t) /\ ~(Len(s) + i <= Len(s))
      /\ Len(s) + i - Len(s) = i
  BY LenProperties
<1>2. (s \o t)[Len(s) + i] =
        IF Len(s) + i <= Len(s) THEN s[Len(s) + i] ELSE t[Len(s) + i - Len(s)]
  BY <1>1, ConcatProperties
<1> QED
  BY <1>1, <1>2

\* Two ways to cut a sequence in two differ by a middle part.
CutTwice(a, x, b, y) ==
  /\ a \in Seq(Words) /\ x \in Seq(Words) /\ b \in Seq(Words) /\ y \in Seq(Words)
  /\ a \o x = b \o y

Between(a, x, b, y, w) ==
  /\ w \in Seq(Words) /\ Width(w) > 0
  /\ b = a \o w /\ x = w \o y

LEMMA MiddlePart ==
  ASSUME NEW a, NEW x, NEW b, NEW y, CutTwice(a, x, b, y), Width(a) < Width(b)
  PROVE  \E w : Between(a, x, b, y, w)
<1> USE DEF CutTwice
<1> DEFINE k == Len(b) - Len(a)
           w == [j \in 1..k |-> b[Len(a) + j]]
<1>1. /\ Len(a) \in Nat /\ Len(x) \in Nat /\ Len(b) \in Nat /\ Len(y) \in Nat
      /\ k \in Nat /\ k > 0
  BY LenProperties DEF Width
<1>2. w \in Seq(Words) /\ Len(w) = k
  <2>1. \A j \in 1..k : b[Len(a) + j] \in Words
    BY <1>1, ElementOfSeq
  <2>2. w \in [1..k -> Words]
    BY <2>1
  <2> QED
    BY <1>1, <2>2, SeqDef
<1>3. Len(a) + Len(x) = Len(b) + Len(y)
  BY ConcatProperties
<1>4. b = a \o w
  <2>1. a \o w \in Seq(Words) /\ Len(a \o w) = Len(b)
    BY <1>1, <1>2, ConcatProperties
  <2>2. ASSUME NEW i \in 1..Len(b) PROVE b[i] = (a \o w)[i]
    <3>1. (a \o x)[i] = (b \o y)[i] /\ (b \o y)[i] = b[i]
      BY <1>1, <1>3, ConcatProperties
    <3>2. CASE i <= Len(a)
      BY <1>1, <1>2, <1>3, <3>1, <3>2, ConcatProperties
    <3>3. CASE ~(i <= Len(a))
      <4>1. i - Len(a) \in 1..k /\ Len(a) + (i - Len(a)) = i
        BY <1>1, <3>3
      <4>2. (a \o w)[i] = w[i - Len(a)]
        BY <1>1, <1>2, <3>3, ConcatProperties
      <4> QED
        BY <4>1, <4>2
    <3> QED
      BY <3>2, <3>3
  <2> QED
    BY <2>1, <2>2, SeqEqual
<1>5. x = w \o y
  <2>1. w \o y \in Seq(Words) /\ Len(w \o y) = Len(x)
    BY <1>1, <1>2, <1>3, ConcatProperties
  <2>2. ASSUME NEW i \in 1..Len(x) PROVE x[i] = (w \o y)[i]
    <3>1. Len(a) + i \in 1..Len(a) + Len(x)
      BY <1>1
    <3>2. x[i] = (b \o y)[Len(a) + i]
      <4>1. (a \o x)[Len(a) + i] = x[i]
        BY ConcatSecond
      <4> QED
        BY <4>1
    <3>3. CASE i <= k
      <4>1. (b \o y)[Len(a) + i] = b[Len(a) + i]
        BY <1>1, <1>3, <3>1, <3>3, ConcatProperties
      <4>2. (w \o y)[i] = w[i] /\ i \in 1..k
        BY <1>1, <1>2, <1>3, <3>3, ConcatProperties
      <4> QED
        BY <3>2, <4>1, <4>2
    <3>4. CASE ~(i <= k)
      <4>1. (b \o y)[Len(a) + i] = y[Len(a) + i - Len(b)]
        BY <1>1, <1>3, <3>1, <3>4, ConcatProperties
      <4>2. (w \o y)[i] = y[i - k] /\ i - k = Len(a) + i - Len(b)
        BY <1>1, <1>2, <1>3, <3>4, ConcatProperties
      <4> QED
        BY <3>2, <4>1, <4>2
    <3> QED
      BY <3>3, <3>4
  <2> HIDE DEF w
  <2> QED
    BY <2>1, <2>2, SeqEqual
<1>6. Width(w) > 0
  BY <1>1, <1>2 DEF Width
<1>7. Between(a, x, b, y, w)
  <2> HIDE DEF w
  <2> QED
    BY <1>2, <1>4, <1>5, <1>6 DEF Between
<1> QED
  BY <1>7

\* The first part of a cut determines the second.
LEMMA SameOwner ==
  ASSUME NEW a, NEW x, NEW b, NEW y, CutTwice(a, x, b, y), Len(a) = Len(b)
  PROVE  a = b /\ x = y
<1> USE DEF CutTwice
<1>1. Len(a) \in Nat /\ Len(x) \in Nat /\ Len(y) \in Nat /\ Len(x) = Len(y)
  <2>1. Len(a) \in Nat /\ Len(x) \in Nat /\ Len(y) \in Nat
    BY LenProperties
  <2>2. Len(a \o x) = Len(a) + Len(x)
    BY ConcatProperties
  <2>3. Len(b \o y) = Len(b) + Len(y)
    BY ConcatProperties
  <2> QED
    BY <2>1, <2>2, <2>3
<1>2. a = b
  <2>1. ASSUME NEW i \in 1..Len(a) PROVE a[i] = b[i]
    <3>1. (a \o x)[i] = a[i]
      BY ConcatFirst
    <3>2. (b \o y)[i] = b[i]
      BY ConcatFirst
    <3> QED
      BY <3>1, <3>2
  <2> QED
    BY <2>1, SeqEqual
<1>3. x = y
  <2>1. ASSUME NEW i \in 1..Len(x) PROVE x[i] = y[i]
    <3>1. (a \o x)[Len(a) + i] = x[i]
      BY ConcatSecond
    <3>2. (b \o y)[Len(b) + i] = y[i]
      BY <1>1, ConcatSecond
    <3> QED
      BY <3>1, <3>2
  <2> QED
    BY <1>1, <2>1, SeqEqual
<1> QED
  BY <1>2, <1>3

-----------------------------------------------------------------------------
(* The tables of the settings *)

\* What ends fields of two words only, what ends fields of three words only, and
\* what ends others besides.
EndsOfTwo ==
  {"only", "ssl", "login", "packages", "lease", "stats", "ip", "clients", "file", "labels"}
EndsOfThree == {"verify", "assigned", "dynamic", "updates", "entry", "format"}

\* How the last word of a setting of a router says what comes before.
LEMMA RouterFieldEnds ==
  ASSUME NEW f \in RouterFields
  PROVE  /\ Width(f) \in 1..3
         /\ Width(f) = 1 => f[1] \notin EndsOfTwo \cup EndsOfThree
         /\ Width(f) = 2 => /\ f[2] \notin EndsOfThree \cup {"hostname", "certificate"}
                            /\ f[2] \in EndsOfTwo \/ f[1] \in {"ipv6", "switch"}
         /\ Width(f) = 3 => /\ f[3] \in EndsOfThree \cup {"hostname", "certificate"}
                            /\ f[3] = "hostname" => f[1] = "ssl" /\ f[2] = "check"
                            /\ f[3] = "certificate" => f[1] = "no" /\ f[2] = "ssl"
<1>1. CASE f \in BoolFields
  BY <1>1 DEF BoolFields, EndsOfTwo, EndsOfThree, Width
<1>2. CASE f \in StringFields \cup {Port, CustomLabels}
  BY <1>2 DEF StringFields, Port, CustomLabels, EndsOfTwo, EndsOfThree, Width
<1> QED
  BY <1>1, <1>2 DEF RouterFields

EndsOfSystem ==
  {"timeout", "failure", "div", "interval", "threads", "duration", "ttl", "size", "listen",
   "bandwidth", "server", "mode", "parallel", "cache"}

\* Of a setting of a router the last word ends none of the system, but `pool'.
LEMMA RouterFieldNotSystem ==
  ASSUME NEW f \in RouterFields
  PROVE  /\ f[Width(f)] \notin EndsOfSystem
         /\ f[Width(f)] = "pool" => Width(f) = 1 \/ (Width(f) = 2 /\ f[1] = "ipv6")
<1>1. CASE f \in BoolFields
  BY <1>1 DEF BoolFields, EndsOfSystem, Width
<1>2. CASE f \in StringFields \cup {Port, CustomLabels}
  BY <1>2 DEF StringFields, Port, CustomLabels, EndsOfSystem, Width
<1> QED
  BY <1>1, <1>2 DEF RouterFields

LEMMA SystemFieldEnds ==
  ASSUME NEW f \in SystemFields
  PROVE  \/ f[Width(f)] \in EndsOfSystem
         \/ f = <<"persistent", "router", "connection", "pool">>
         \/ f = <<"probe", "connection", "pool">>
<1>1. CASE f \in SystemNumbers
  <2>1. Len(f) \in 2..5
    BY <1>1 DEF SystemNumbers
  <2>2. Len(f) = 2 => f[2] \in EndsOfSystem
    BY <1>1 DEF SystemNumbers, EndsOfSystem
  <2>3. Len(f) = 3 => f[3] \in EndsOfSystem
    BY <1>1 DEF SystemNumbers, EndsOfSystem
  <2>4. Len(f) = 4 => f[4] \in EndsOfSystem
    BY <1>1 DEF SystemNumbers, EndsOfSystem
  <2>5. Len(f) = 5 => f[5] \in EndsOfSystem
    BY <1>1 DEF SystemNumbers, EndsOfSystem
  <2> QED
    BY <2>1, <2>2, <2>3, <2>4, <2>5 DEF Width
<1>2. CASE f \in {<<"listen">>, <<"bandwidth">>, <<"bandwidth", "test", "dns", "server">>,
                  <<"verbose", "mode">>, <<"fetch", "routers", "in", "parallel">>,
                  <<"persistent", "dhcp", "cache">>}
  <2>1. Len(f) \in 1..4
    BY <1>2
  <2>2. Len(f) = 1 => f[1] \in EndsOfSystem
    BY <1>2 DEF EndsOfSystem
  <2>3. Len(f) = 2 => f[2] \in EndsOfSystem
    BY <1>2 DEF EndsOfSystem
  <2>4. Len(f) = 3 => f[3] \in EndsOfSystem
    BY <1>2 DEF EndsOfSystem
  <2>5. Len(f) = 4 => f[4] \in EndsOfSystem
    BY <1>2 DEF EndsOfSystem
  <2> QED
    BY <2>1, <2>2, <2>3, <2>4, <2>5 DEF Width
<1>3. \/ f = <<"persistent", "router", "connection", "pool">>
      \/ f = <<"probe", "connection", "pool">>
      \/ f \in SystemNumbers
      \/ f \in {<<"listen">>, <<"bandwidth">>, <<"bandwidth", "test", "dns", "server">>,
                <<"verbose", "mode">>, <<"fetch", "routers", "in", "parallel">>,
                <<"persistent", "dhcp", "cache">>}
  BY DEF SystemFields
<1> QED
  BY <1>1, <1>2, <1>3 DEF Width
-----------------------------------------------------------------------------
(* Clashes *)

LEMMA OneWord ==
  ASSUME NEW S, NEW w \in Seq(S), Len(w) = 1
  PROVE  w = <<w[1]>>
<1>1. w \in [1..1 -> S]
  BY LenProperties
<1> QED
  BY <1>1

LEMMA TwoWords ==
  ASSUME NEW S, NEW w \in Seq(S), Len(w) = 2
  PROVE  w = <<w[1], w[2]>>
<1>1. w \in [1..2 -> S]
  BY LenProperties
<1> QED
  BY <1>1

LEMMA ThreeWords ==
  ASSUME NEW S, NEW w \in Seq(S), Len(w) = 3
  PROVE  w = <<w[1], w[2], w[3]>>
<1>1. w \in [1..3 -> S]
  BY LenProperties
<1> QED
  BY <1>1

\* The words before a setting of a router within another setting.
Ends(g, f, w) ==
  g \in RouterFields /\ w \in Seq(Words) /\ f = w \o g /\ Width(w) > 0

LEMMA Before ==
  ASSUME NEW f, NEW w, NEW g, Ends(g, f, w)
  PROVE  /\ g \in Seq(Words) /\ Width(w) \in Nat /\ Width(g) \in Nat
         /\ Width(f) = Width(w) + Width(g)
         /\ \A i \in 1..Width(w) : f[i] = w[i]
         /\ \A i \in 1..Width(g) : f[Width(w) + i] = g[i]
<1> USE DEF Ends
<1>1. g \in Seq(Words)
  BY SettingsAssumption
<1>2. Len(w) \in Nat /\ Len(g) \in Nat /\ Len(f) = Len(w) + Len(g)
  BY <1>1, LenProperties, ConcatProperties
<1>3. ASSUME NEW i \in 1..Len(w) PROVE f[i] = w[i]
  BY <1>1, ConcatFirst
<1>4. ASSUME NEW i \in 1..Len(g) PROVE f[Len(w) + i] = g[i]
  BY <1>1, ConcatSecond
<1> QED
  BY <1>1, <1>2, <1>3, <1>4 DEF Width

\* Where a setting of a router can follow p words in another of a router.
LEMMA RouterFieldInside ==
  ASSUME NEW f \in RouterFields, NEW g \in RouterFields, NEW p \in Nat,
         p > 0, Width(f) = p + Width(g),
         \A i \in 1..Width(g) : f[p + i] = g[i]
  PROVE  \/ p = 1 /\ f[1] \in {"ipv6", "switch"}
         \/ p = 2 /\ f[1] = "no" /\ f[2] = "ssl"
         \/ p = 2 /\ f[1] = "ssl" /\ f[2] = "check"
<1>1. Width(g) \in 1..3 /\ Width(f) \in 1..3
  BY RouterFieldEnds
<1>2. \/ Width(f) = 2 /\ p = 1 /\ Width(g) = 1
      \/ Width(f) = 3 /\ p = 1 /\ Width(g) = 2
      \/ Width(f) = 3 /\ p = 2 /\ Width(g) = 1
  BY <1>1
<1>3. CASE Width(f) = 2 /\ p = 1 /\ Width(g) = 1
  <2>1. f[2] = g[1]
    BY <1>3
  <2>2. f[2] \notin EndsOfTwo
    BY <1>3, <2>1, RouterFieldEnds
  <2> QED
    BY <1>3, <2>2, RouterFieldEnds
<1>4. CASE Width(f) = 3 /\ p = 1 /\ Width(g) = 2
  <2>1. f[3] = g[2]
    BY <1>4
  <2>2. g[2] \notin EndsOfThree \cup {"hostname", "certificate"}
    BY <1>4, RouterFieldEnds
  <2>3. f[3] \in EndsOfThree \cup {"hostname", "certificate"}
    BY <1>4, RouterFieldEnds
  <2> QED
    BY <2>1, <2>2, <2>3
<1>5. CASE Width(f) = 3 /\ p = 2 /\ Width(g) = 1
  <2>1. f[3] = g[1]
    BY <1>5
  <2>2. g[1] \notin EndsOfThree
    BY <1>5, RouterFieldEnds
  <2>3. f[3] \in {"hostname", "certificate"}
    BY <1>5, <2>1, <2>2, RouterFieldEnds
  <2> QED
    BY <1>5, <2>3, RouterFieldEnds
<1> QED
  BY <1>2, <1>3, <1>4, <1>5

\* And in one of the system.
LEMMA RouterFieldInsideSystem ==
  ASSUME NEW f \in SystemFields, NEW g \in RouterFields, NEW p \in Nat,
         p > 0, Width(f) = p + Width(g),
         \A i \in 1..Width(g) : f[p + i] = g[i]
  PROVE  \/ p = 2 /\ f = <<"probe", "connection", "pool">>
         \/ p = 3 /\ f = <<"persistent", "router", "connection", "pool">>
<1>1. Width(g) \in 1..3
  BY RouterFieldEnds
<1>2. f[Width(f)] = g[Width(g)]
  BY <1>1
<1>3. f[Width(f)] \notin EndsOfSystem
  BY <1>2, RouterFieldNotSystem
<1>4. CASE f = <<"probe", "connection", "pool">>
  <2>1. Width(f) = 3 /\ f[2] = "connection" /\ f[3] = "pool"
    BY <1>4 DEF Width
  <2>2. Width(g) = 1 \/ (Width(g) = 2 /\ g[1] = "ipv6")
    BY <1>2, <2>1, RouterFieldNotSystem
  <2>3. ASSUME Width(g) = 2 PROVE FALSE
    <3>1. p = 1 /\ g[1] = "ipv6" /\ f[2] = g[1]
      BY <2>1, <2>2, <2>3
    <3> QED
      BY <2>1, <3>1
  <2> QED
    BY <1>4, <2>1, <2>2, <2>3
<1>5. CASE f = <<"persistent", "router", "connection", "pool">>
  <2>1. Width(f) = 4 /\ f[3] = "connection" /\ f[4] = "pool"
    BY <1>5 DEF Width
  <2>2. Width(g) = 1 \/ (Width(g) = 2 /\ g[1] = "ipv6")
    BY <1>2, <2>1, RouterFieldNotSystem
  <2>3. ASSUME Width(g) = 2 PROVE FALSE
    <3>1. p = 2 /\ g[1] = "ipv6" /\ f[3] = g[1]
      BY <2>1, <2>2, <2>3
    <3> QED
      BY <2>1, <3>1
  <2> QED
    BY <1>5, <2>1, <2>2, <2>3
<1> QED
  BY <1>3, <1>4, <1>5, SystemFieldEnds

\* The owner and the setting of an override.
LEMMA SettingParts ==
  ASSUME NEW s \in Settings
  PROVE  /\ s = <<s[1], s[2]>> /\ s[1] \in Seq(Words) /\ s[2] \in Seq(Words)
         /\ s[1] = System => s[2] \in SystemFields
         /\ s[1] # System => s[2] \in RouterFields
<1>1. System \in Seq(Words)
  BY EmptySeq DEF System
<1>2. CASE s \in {System} \X SystemFields
  BY <1>1, <1>2, SettingsAssumption
<1>3. CASE s \in Routers \X RouterFields
  BY <1>3, SettingsAssumption
<1> QED
  BY <1>2, <1>3 DEF Settings

\* The words before it are those listed.
LEMMA WordsListed ==
  ASSUME NEW x, NEW w \in Seq(Words), Width(w) \in Nat,
         \A i \in 1..Width(w) : x[i] = w[i]
  PROVE  /\ Width(w) = 1 /\ x[1] \in {"ipv6", "switch"} => w \in {<<"ipv6">>, <<"switch">>}
         /\ Width(w) = 2 /\ x[1] = "no" /\ x[2] = "ssl" => w = <<"no", "ssl">>
         /\ Width(w) = 2 /\ x[1] = "ssl" /\ x[2] = "check" => w = <<"ssl", "check">>
         /\ Width(w) = 2 /\ x = <<"probe", "connection", "pool">> => w = <<"probe", "connection">>
         /\ Width(w) = 3 /\ x = <<"persistent", "router", "connection", "pool">> =>
              w = <<"persistent", "router", "connection">>
<1>1. CASE Width(w) = 1
  <2>1. w = <<w[1]>>
    BY <1>1, OneWord DEF Width
  <2>2. w[1] = x[1]
    BY <1>1
  <2> QED
    BY <1>1, <2>1, <2>2
<1>2. CASE Width(w) = 2
  <2>1. w = <<w[1], w[2]>>
    BY <1>2, TwoWords DEF Width
  <2>2. w[1] = x[1] /\ w[2] = x[2]
    BY <1>2
  <2> QED
    BY <1>2, <2>1, <2>2
<1>3. CASE Width(w) = 3
  <2>1. w = <<w[1], w[2], w[3]>>
    BY <1>3, ThreeWords DEF Width
  <2>2. w[1] = x[1] /\ w[2] = x[2] /\ w[3] = x[3]
    BY <1>3
  <2> QED
    BY <1>3, <2>1, <2>2
<1> QED
  BY <1>1, <1>2, <1>3

LEMMA WordsShared ==
  ASSUME NEW owner, NEW x, NEW w, NEW y, Ends(y, x, w),
         owner = System => x \in SystemFields,
         owner # System => x \in RouterFields
  PROVE  w \in SharedWords(owner)
<1>1. /\ Width(w) \in Nat /\ Width(w) > 0 /\ Width(x) = Width(w) + Width(y)
      /\ w \in Seq(Words) /\ y \in RouterFields
      /\ \A i \in 1..Width(w) : x[i] = w[i]
      /\ \A i \in 1..Width(y) : x[Width(w) + i] = y[i]
  <2>1. w \in Seq(Words) /\ y \in RouterFields /\ Width(w) > 0
    BY DEF Ends
  <2> QED
    BY <2>1, Before
<1>2. CASE owner = System
  <2>1. \/ Width(w) = 2 /\ x = <<"probe", "connection", "pool">>
        \/ Width(w) = 3 /\ x = <<"persistent", "router", "connection", "pool">>
    BY <1>1, <1>2, RouterFieldInsideSystem, Zenon
  <2>2. w \in {<<"probe", "connection">>, <<"persistent", "router", "connection">>}
    BY <1>1, <2>1, WordsListed, Zenon
  <2> QED
    BY <1>2, <2>2 DEF SharedWords
<1>3. CASE owner # System
  <2>1. \/ Width(w) = 1 /\ x[1] \in {"ipv6", "switch"}
        \/ Width(w) = 2 /\ x[1] = "no" /\ x[2] = "ssl"
        \/ Width(w) = 2 /\ x[1] = "ssl" /\ x[2] = "check"
    BY <1>1, <1>3, RouterFieldInside, Zenon
  <2>2. w \in {<<"ipv6">>, <<"switch">>, <<"no", "ssl">>, <<"ssl", "check">>}
    BY <1>1, <2>1, WordsListed, Zenon
  <2> QED
    BY <1>3, <2>2 DEF SharedWords
<1> QED
  BY <1>2, <1>3

LEMMA ClashShape ==
  ASSUME NEW a, NEW x, NEW b, NEW y, CutTwice(a, x, b, y),
         a = System => x \in SystemFields,
         a # System => x \in RouterFields,
         b # System => y \in RouterFields,
         Width(a) < Width(b)
  PROVE  \E words \in SharedWords(a) : Between(a, x, b, y, words)
<1>1. PICK w : Between(a, x, b, y, w)
  BY MiddlePart
<1>2. b # System
  <2>1. Width(a) \in Nat
    BY LenProperties DEF Width, CutTwice
  <2>2. b = <<>> => Width(b) = 0
    BY EmptySeq DEF Width
  <2> QED
    BY <2>1, <2>2 DEF System, CutTwice
<1>3. w \in SharedWords(a)
  <2>1. Ends(y, x, w)
    BY <1>1, <1>2 DEF Between, Ends
  <2> QED
    BY <2>1, WordsShared
<1> QED
  BY <1>1, <1>3

\* Whatever the routers are called and the environment has, one variable reaches
\* two settings only in the six ways listed in SharedWords.
THEOREM ClashesAllKnown == Spec => []ClashesKnown
<1>1. SettingsInv => ClashesKnown
  <2> SUFFICES ASSUME SettingsInv, NEW i \in DOMAIN env, NEW s \in Reached(i), NEW t \in Reached(i)
      PROVE  /\ s # t => Len(s[1]) # Len(t[1])
             /\ Len(s[1]) < Len(t[1]) =>
                  \E words \in SharedWords(s[1]) : t[1] = s[1] \o words /\ s[2] = words \o t[2]
    BY DEF ClashesKnown
  <2>1. s \in Settings /\ t \in Settings
    BY DEF SettingsInv, Places, Reached
  <2>2. CutTwice(s[1], s[2], t[1], t[2])
    <3>1. s[1] \o s[2] = t[1] \o t[2]
      BY DEF SettingsInv, OriginInv, Reached, Names
    <3> QED
      BY <2>1, <3>1, SettingParts DEF CutTwice
  <2>3. ASSUME Len(s[1]) = Len(t[1]) PROVE s = t
    <3>1. s[1] = t[1] /\ s[2] = t[2]
      BY <2>2, <2>3, SameOwner
    <3> QED
      BY <2>1, <3>1, SettingParts
  <2>4. ASSUME Len(s[1]) < Len(t[1])
        PROVE  \E words \in SharedWords(s[1]) : t[1] = s[1] \o words /\ s[2] = words \o t[2]
    <3>1. Width(s[1]) < Width(t[1])
      BY <2>4 DEF Width
    <3>2. /\ s[1] = System => s[2] \in SystemFields
          /\ s[1] # System => s[2] \in RouterFields
          /\ t[1] # System => t[2] \in RouterFields
      BY <2>1, SettingParts
    <3>3. PICK words \in SharedWords(s[1]) : Between(s[1], s[2], t[1], t[2], words)
      BY <2>2, <3>1, <3>2, ClashShape
    <3> QED
      BY <3>3, Zenon DEF Between
  <2> QED
    BY <2>3, <2>4
<1> QED
  BY <1>1, InvAlways, PTL
=============================================================================
