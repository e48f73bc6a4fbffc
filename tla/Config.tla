------------------------------- MODULE Config -------------------------------
(***************************************************************************)
(* The configuration handler of the exporter: how the router entries and   *)
(* the system settings are put together from their layers.                 *)
(*                                                                         *)
(*   built-in value < default section < router section < environment       *)
(*   built-in value < _mktxp.yaml < environment < command-line flag        *)
(*                                                                         *)
(* Three router settings stand for the three ways a setting is kept:       *)
(* `flag' for the booleans, `port' for the checked integer, `labels' for   *)
(* the maps, which Go holds by reference.  Two system settings stand for   *)
(* the booleans and for the integers and strings (zero means absent).      *)
(* An optional value is a set with at most one element, a nil pointer in   *)
(* the code being the empty set.  The text of an integer variable is the   *)
(* set of the number it is: empty when it is none.                         *)
(***************************************************************************)
EXTENDS Integers, FiniteSets

CONSTANTS
  Names,         \* router names
  Upper,         \* a router name to its upper case, the form the environment uses
  MainFiles,     \* contents mktxp.yaml may have, the template among them
  SystemFiles,   \* contents _mktxp.yaml may have, the template among them
  MainTemplate, SystemTemplate,
  Environments,  \* environments the process may be started in
  Flags,         \* values of --socket-timeout, 0 when it is not given
  MaxEdits       \* bound: edits of the files while the process runs

\* A file holds a configuration only when it can be read and parsed.
Ok(file) == file.state = "ok"

Optional(option) == \A x, y \in option : x = y
OptionalOf(option, S) == option \subseteq S /\ Optional(option)

\* A section of mktxp.yaml as yaml leaves it.
IsRaw(raw) ==
  OptionalOf(raw.flag, BOOLEAN) /\ OptionalOf(raw.port, Int) /\ Optional(raw.labels)

IsMain(config) ==
  /\ IsRaw(config.default)
  /\ DOMAIN config.routers \subseteq Names
  /\ \A r \in DOMAIN config.routers : IsRaw(config.routers[r])

IsSystem(config) == OptionalOf(config.flag, BOOLEAN) /\ OptionalOf(config.timeout, Int)

IsNumber(text) == OptionalOf(text, Int)

IsEnvironment(e) ==
  /\ Optional(e.names)
  /\ Optional(e.flag)
  /\ Optional(e.timeout) /\ \A text \in e.timeout : IsNumber(text)
  /\ \A r \in Names : LET own == e.routers[Upper[r]] IN
       /\ Optional(own.flag)
       /\ Optional(own.port) /\ \A text \in own.port : IsNumber(text)
       /\ Optional(own.labels)

ASSUME ConfigAssumption ==
  /\ IsFiniteSet(Names)
  /\ "nil" \notin Names /\ "default" \notin Names
  /\ \A file \in MainFiles : Ok(file) => IsMain(file.config)
  /\ \A file \in SystemFiles : Ok(file) => IsSystem(file.config)
  /\ MainTemplate \in MainFiles /\ Ok(MainTemplate)
  /\ SystemTemplate \in SystemFiles /\ Ok(SystemTemplate)
  /\ \A e \in Environments : IsEnvironment(e)
  /\ Flags \subseteq Int /\ MaxEdits \in Nat

VARIABLES
  env,       \* the environment, fixed for the life of the process
  cmdFlag,   \* --socket-timeout
  mainFile, sysFile,
  main,      \* mainConfig
  sys,       \* sysConfig
  cache,     \* entryCache: the entries, and the label maps they point to
  envOnly,
  phase,     \* progress of the start: start, system, routers, ready, serving, exited
  edits,     \* edits made so far (bound)
  source,    \* history: the configuration that sys and cache were built from
  layers     \* history: the layers applied to them since

vars == <<env, cmdFlag, mainFile, sysFile, main, sys, cache, envOnly, phase, edits,
          source, layers>>

-----------------------------------------------------------------------------
(* Values. *)

DefaultPort == 8728
DefaultTimeout == 10
EmptyMap == <<>>

Or(option, value) == IF option = {} THEN value ELSE CHOOSE v \in option : TRUE

\* viper reads a text through strconv: one it rejects gives the zero value.
GetBool(text) == text \in {"true", "1"}
GetInt(text) == Or(text, 0)

NoRaw == [flag |-> {}, port |-> {}, labels |-> {}]
HardcodedDefaults == [flag |-> TRUE, port |-> DefaultPort, labels |-> "nil"]
HardcodedSystem == [flag |-> TRUE, timeout |-> DefaultTimeout]
NoFile == [main |-> [default |-> NoRaw, routers |-> EmptyMap],
           sys  |-> [flag |-> {TRUE}, timeout |-> {}]]

-----------------------------------------------------------------------------
(* Merging. *)

\* Defect: a false in a section is taken for a value that is not given.
MergeNonZero(base, raw, owner) ==
  [flag   |-> Or(raw.flag, FALSE) \/ base.flag,
   port   |-> Or(raw.port, base.port),
   labels |-> IF raw.labels = {} THEN base.labels ELSE owner]

\* A section with labels of its own gets a map of its own; a section without
\* them keeps the reference it inherits.
MergeEntry(base, raw, owner) ==
  [flag   |-> Or(raw.flag, base.flag),
   port   |-> Or(raw.port, base.port),
   labels |-> IF raw.labels = {} THEN base.labels ELSE owner]

MergeWithDefaults(raw) == MergeEntry(HardcodedDefaults, raw, "default")

\* Who may own a map of labels.
Owners == Names \cup {"default"}

SectionMap(config, o) ==
  IF o = "default" THEN Or(config.default.labels, EmptyMap)
  ELSE IF o \in DOMAIN config.routers THEN Or(config.routers[o].labels, EmptyMap)
  ELSE EmptyMap

BuildEntryCache(config) ==
  [entries |-> [r \in DOMAIN config.routers |->
                  MergeEntry(MergeWithDefaults(config.default), config.routers[r], r)],
   maps    |-> [o \in Owners |-> SectionMap(config, o)]]

\* applySystemDefaults: zero values are replaced by the built-in ones; an absent boolean is false.
ApplySystemDefaults(raw) ==
  [flag    |-> Or(raw.flag, FALSE),
   timeout |-> IF Or(raw.timeout, 0) = 0 THEN DefaultTimeout ELSE Or(raw.timeout, 0)]

-----------------------------------------------------------------------------
(* Environment overrides. *)

EnvOf(r) == env.routers[Upper[r]]

\* Defect: a boolean of the environment can only switch a setting on.
SystemSwitchedOn(s) ==
  [flag    |-> s.flag \/ GetBool(Or(env.flag, "")),
   timeout |-> IF env.timeout = {} THEN s.timeout ELSE GetInt(Or(env.timeout, {}))]

ApplySystemEnvOverrides(s) ==
  [flag    |-> IF env.flag = {} THEN s.flag ELSE GetBool(Or(env.flag, "")),
   timeout |-> IF env.timeout = {} THEN s.timeout ELSE GetInt(Or(env.timeout, {}))]

Ports == 1..65535
PortInRange(n) == n \in Ports

OverrideEntry(r, e) ==
  [flag   |-> IF EnvOf(r).flag = {} THEN e.flag ELSE GetBool(Or(EnvOf(r).flag, "")),
   port   |-> IF EnvOf(r).port # {} /\ PortInRange(GetInt(Or(EnvOf(r).port, {})))
                THEN GetInt(Or(EnvOf(r).port, {})) ELSE e.port,
   labels |-> IF EnvOf(r).labels # {} /\ e.labels = "nil" THEN r ELSE e.labels]

\* Routers are visited in the random order of a Go map.  Each writes its
\* labels into the map its entry points to, which others may point to as well.
Orders == {rank \in [Names -> 1..Cardinality(Names)] :
             \A r, q \in Names : rank[r] = rank[q] => r = q}

EnvKeys(r) == UNION {DOMAIN labels : labels \in EnvOf(r).labels}

LabelWriters(entries, o, k) ==
  {r \in DOMAIN entries : entries[r].labels = o /\ k \in EnvKeys(r)}

Written(entries, o) ==
  UNION {EnvKeys(r) : r \in {r \in DOMAIN entries : entries[r].labels = o}}

LastValue(entries, o, k, rank) ==
  LET writers == LabelWriters(entries, o, k)
      last == CHOOSE r \in writers : \A q \in writers : rank[q] <= rank[r]
  IN  Or(EnvOf(last).labels, EmptyMap)[k]

\* Defect: the labels of the environment replace the map.
ReplaceMaps(entries, maps, rank) ==
  [o \in DOMAIN maps |->
    IF Written(entries, o) = {} THEN maps[o]
    ELSE [k \in Written(entries, o) |-> LastValue(entries, o, k, rank)]]

\* The entries of one map written into another.
Onto(f, g) ==
  [k \in DOMAIN f \cup DOMAIN g |-> IF k \in DOMAIN f THEN f[k] ELSE g[k]]

OverrideMaps(entries, maps, rank) ==
  [o \in DOMAIN maps |->
    Onto([k \in Written(entries, o) |-> LastValue(entries, o, k, rank)], maps[o])]

ApplyRouterEnvOverrides(c, rank) ==
  LET entries == [r \in DOMAIN c.entries |-> OverrideEntry(r, c.entries[r])]
  IN  [entries |-> entries, maps |-> OverrideMaps(entries, c.maps, rank)]

-----------------------------------------------------------------------------
(* Loading. *)

Listed == {Or(env.names, <<>>)[i] : i \in DOMAIN Or(env.names, <<>>)}

\* Every element of MKTXP_ROUTERS is a legal name, and no two are the same
\* router in another case.
ListAccepted ==
  LET list == Or(env.names, <<>>)
  IN  /\ Listed \subseteq Names
      /\ \A i, j \in DOMAIN list : Upper[list[i]] = Upper[list[j]] => i = j

LoadEnvOnly ==
  /\ ListAccepted
  /\ main' = [default |-> NoRaw, routers |-> [r \in Listed |-> NoRaw]]
  /\ sys' = ApplySystemEnvOverrides(HardcodedSystem)
  /\ \E rank \in Orders : cache' = ApplyRouterEnvOverrides(BuildEntryCache(main'), rank)
  /\ source' = [NoFile EXCEPT !.main = main']
  /\ layers' = {"system", "routers"}
  /\ envOnly' = TRUE

LoadMainFails(m) ==
  /\ ~ Ok(m)
  /\ UNCHANGED <<main, sys, cache, source, layers>>

\* mktxp.yaml is already in place when _mktxp.yaml turns out to be unusable.
LoadSystemFails(m, s) ==
  /\ Ok(m) /\ ~ Ok(s)
  /\ main' = m.config
  /\ UNCHANGED <<sys, cache, source, layers>>

LoadFiles(m, s) ==
  /\ Ok(m) /\ Ok(s)
  /\ main' = m.config
  /\ sys' = ApplySystemDefaults(s.config)
  /\ cache' = BuildEntryCache(m.config)
  /\ source' = [main |-> m.config, sys |-> s.config]
  /\ layers' = {}

-----------------------------------------------------------------------------
(* The start of the program. *)

Init ==
  /\ env \in Environments
  /\ cmdFlag \in Flags
  /\ mainFile \in MainFiles /\ sysFile \in SystemFiles
  /\ main = NoFile.main
  /\ sys = HardcodedSystem
  /\ cache = [entries |-> EmptyMap, maps |-> [o \in Owners |-> EmptyMap]]
  /\ envOnly = FALSE
  /\ phase = "start"
  /\ edits = 0
  /\ source = NoFile
  /\ layers = {}

EnsureFile(file, template) == IF file.state = "missing" THEN template ELSE file

InitEnvOnly ==
  /\ phase = "start" /\ env.names # {}
  /\ LoadEnvOnly
  /\ phase' = "system"
  /\ UNCHANGED <<env, cmdFlag, mainFile, sysFile, edits>>

InitEnvOnlyFails ==
  /\ phase = "start" /\ env.names # {} /\ ~ ListAccepted
  /\ phase' = "exited"
  /\ UNCHANGED <<env, cmdFlag, mainFile, sysFile, main, sys, cache, envOnly, edits, source, layers>>

InitFiles ==
  /\ phase = "start" /\ env.names = {}
  /\ mainFile' = EnsureFile(mainFile, MainTemplate)
  /\ sysFile' = EnsureFile(sysFile, SystemTemplate)
  /\ LoadFiles(mainFile', sysFile')
  /\ envOnly' = FALSE
  /\ phase' = "system"
  /\ UNCHANGED <<env, cmdFlag, edits>>

InitFilesFails ==
  /\ phase = "start" /\ env.names = {}
  /\ mainFile' = EnsureFile(mainFile, MainTemplate)
  /\ sysFile' = EnsureFile(sysFile, SystemTemplate)
  /\ LoadMainFails(mainFile') \/ LoadSystemFails(mainFile', sysFile')
  /\ envOnly' = FALSE
  /\ phase' = "exited"
  /\ UNCHANGED <<env, cmdFlag, edits>>

ApplySystemOverrides ==
  /\ phase = "system"
  /\ sys' = ApplySystemEnvOverrides(sys)
  /\ layers' = layers \cup {"system"}
  /\ phase' = "routers"
  /\ UNCHANGED <<env, cmdFlag, mainFile, sysFile, main, cache, envOnly, edits, source>>

ApplyRouterOverrides ==
  /\ phase = "routers"
  /\ \E rank \in Orders : cache' = ApplyRouterEnvOverrides(cache, rank)
  /\ layers' = layers \cup {"routers"}
  /\ phase' = "ready"
  /\ UNCHANGED <<env, cmdFlag, mainFile, sysFile, main, sys, envOnly, edits, source>>

ApplyExportOverrides ==
  /\ phase = "ready"
  /\ sys' = IF cmdFlag > 0 THEN [sys EXCEPT !.timeout = cmdFlag] ELSE sys
  /\ layers' = layers \cup {"flags"}
  /\ phase' = "serving"
  /\ UNCHANGED <<env, cmdFlag, mainFile, sysFile, main, cache, envOnly, edits, source>>

-----------------------------------------------------------------------------
(* Reload, while somebody edits the files. *)

EditMain(file) ==
  /\ phase = "serving" /\ edits < MaxEdits
  /\ mainFile' = file
  /\ edits' = edits + 1
  /\ UNCHANGED <<env, cmdFlag, sysFile, main, sys, cache, envOnly, phase, source, layers>>

EditSystem(file) ==
  /\ phase = "serving" /\ edits < MaxEdits
  /\ sysFile' = file
  /\ edits' = edits + 1
  /\ UNCHANGED <<env, cmdFlag, mainFile, main, sys, cache, envOnly, phase, source, layers>>

ReloadEnvOnly ==
  /\ phase = "serving" /\ envOnly
  /\ LoadEnvOnly
  /\ UNCHANGED <<env, cmdFlag, mainFile, sysFile, phase, edits>>

ReloadFiles ==
  /\ phase = "serving" /\ ~ envOnly
  /\ \/ LoadMainFails(mainFile)
     \/ LoadSystemFails(mainFile, sysFile)
     \/ LoadFiles(mainFile, sysFile)
  /\ UNCHANGED <<env, cmdFlag, mainFile, sysFile, envOnly, phase, edits>>

Next ==
  \/ InitEnvOnly \/ InitEnvOnlyFails \/ InitFiles \/ InitFilesFails
  \/ ApplySystemOverrides \/ ApplyRouterOverrides \/ ApplyExportOverrides
  \/ \E file \in MainFiles : EditMain(file)
  \/ \E file \in SystemFiles : EditSystem(file)
  \/ ReloadEnvOnly \/ ReloadFiles

Spec == Init /\ [][Next]_vars

-----------------------------------------------------------------------------
(* Properties. *)

\* The first of the sources, the strongest one first, that gives a value.
FirstOf(sources, builtIn) ==
  LET given == {i \in DOMAIN sources : sources[i] # {}}
  IN  IF given = {} THEN builtIn
      ELSE Or(sources[CHOOSE i \in given : \A j \in given : i <= j], builtIn)

Applied(layer, option) == IF layer \in layers THEN option ELSE {}
Booleans(texts) == {GetBool(text) : text \in texts}
Numbers(texts) == {GetInt(text) : text \in texts}

Raw(r) == source.main.routers[r]
Default == source.main.default

TypeOK ==
  /\ phase \in {"start", "system", "routers", "ready", "serving", "exited"}
  /\ envOnly \in BOOLEAN
  /\ edits \in 0..MaxEdits
  /\ sys.flag \in BOOLEAN /\ sys.timeout \in Int
  /\ DOMAIN cache.entries \subseteq Names
  /\ \A r \in DOMAIN cache.entries :
       /\ cache.entries[r].flag \in BOOLEAN
       /\ cache.entries[r].port \in Int
       /\ cache.entries[r].labels \in {"nil", "default", r}

\* What every reader sees of a setting is the strongest source that gives it,
\* whatever the order of the loads, of the overrides and of the reloads: the
\* merge of the default section, of the router section and of the environment
\* never lets a weaker source through, and a failed reload leaves all of the
\* entries on the configuration they were built from.
EntriesResolve ==
  /\ DOMAIN cache.entries = DOMAIN source.main.routers
  /\ \A r \in DOMAIN cache.entries :
       /\ cache.entries[r].flag =
            FirstOf(<<Booleans(Applied("routers", EnvOf(r).flag)),
                      Raw(r).flag, Default.flag>>, TRUE)
       /\ cache.entries[r].port =
            FirstOf(<<Numbers(Applied("routers", EnvOf(r).port)) \cap Ports,
                      Raw(r).port, Default.port>>, DefaultPort)

\* The system settings resolve the same way: flag, environment, file, built-in
\* value, where a zero in the file counts as absent and an absent boolean as
\* false.
SystemResolves ==
  /\ sys.flag = FirstOf(<<Booleans(Applied("system", env.flag)), source.sys.flag>>,
                        FALSE)
  /\ sys.timeout =
       FirstOf(<<{n \in Applied("flags", {cmdFlag}) : n > 0},
                 Numbers(Applied("system", env.timeout)),
                 source.sys.timeout \ {0}>>, DefaultTimeout)

Labels(r) == IF cache.entries[r].labels = "nil" THEN EmptyMap
             ELSE cache.maps[cache.entries[r].labels]
OwnLabels(r) ==
  Onto(Or(Applied("routers", EnvOf(r).labels), EmptyMap),
       FirstOf(<<Raw(r).labels, Default.labels>>, EmptyMap))

\* The keys that another router's environment writes into the map of r.
ForeignKeys(r) ==
  UNION {EnvKeys(q) : q \in {q \in DOMAIN cache.entries \ {r} :
                               cache.entries[q].labels = cache.entries[r].labels}}

\* Every label a router is given reaches its metrics, and with the value of
\* its strongest source, unless another router writes the same key of a map
\* they share.
LabelsReachTheRouter ==
  \A r \in DOMAIN cache.entries :
    /\ DOMAIN OwnLabels(r) \subseteq DOMAIN Labels(r)
    /\ \A k \in DOMAIN OwnLabels(r) \ ForeignKeys(r) : Labels(r)[k] = OwnLabels(r)[k]

\* README.md:186 calls MKTXP_{ROUTERNAME}_{FIELD} a router-specific override.
\* It is not one for the labels: entries that inherit the map of the default
\* section share it, and an override of one router is written into it.
LabelsStayWithTheRouter ==
  \A r \in DOMAIN cache.entries : Labels(r) = OwnLabels(r)

\* README.md:204-206: booleans accept true, false, 1, 0, yes and no, and an
\* invalid value is ignored.  In the code whatever strconv rejects is false.
BooleanTextsHonoured ==
  "routers" \in layers =>
    \A r \in DOMAIN cache.entries : \A text \in EnvOf(r).flag :
      cache.entries[r].flag =
        CASE text \in {"true", "1", "yes"} -> TRUE
          [] text \in {"false", "0", "no"} -> FALSE
          [] OTHER -> FirstOf(<<Raw(r).flag, Default.flag>>, TRUE)

=============================================================================
