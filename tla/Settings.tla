------------------------------- MODULE Settings -------------------------------
(***************************************************************************)
(* Which setting a variable of the environment reaches, and what becomes   *)
(* of it (internal/config/env.go, the tables of internal/config/types.go,  *)
(* resolveCredentials of internal/routeros/connection.go and New of        *)
(* internal/server/server.go).  Config has the layers and their order.     *)
(*                                                                         *)
(* A name is the sequence of its words: MKTXP_HOME_IPV6_ROUTE is           *)
(* <<"home", "ipv6", "route">>.  Of a setting that was overridden the      *)
(* model keeps the variable its value comes from.                          *)
(***************************************************************************)
EXTENDS Integers, Sequences

CONSTANTS
  Words,        \* what names are made of
  Routers,      \* the names of the router entries
  Environments, \* the environments: sequences of variables, as os.Environ has them; one
                \* of the system without a text is none for viper and not among them
  Files         \* for each router what its credentials file gives

VARIABLES
  env,      \* the environment
  files,
  phase,    \* "system", "routers" or "dial"
  visited,  \* the settings the loops over the tables have come to
  origin,   \* for the settings that were overridden, the variable
  login     \* the router dialed last, and where its user name and password come from

vars == <<env, files, phase, visited, origin, login>>

-----------------------------------------------------------------------------
(* The tables *)

BoolFields ==
  {<<w>> : w \in {"enabled", "health", "dhcp", "connections", "interface", "route", "pool",
                  "firewall", "neighbor", "dns", "poe", "monitor", "netwatch", "wireless",
                  "capsman", "w60g", "eoip", "gre", "ipip", "lte", "ipsec", "user", "queue",
                  "bfd", "bgp", "certificate", "container"}}
  \cup {<<"ipv6", w>> : w \in {"route", "pool", "firewall", "neighbor"}}
  \cup {<<"module", "only">>, <<"use", "ssl">>, <<"plaintext", "login">>,
        <<"installed", "packages">>, <<"dhcp", "lease">>, <<"connection", "stats">>,
        <<"public", "ip">>, <<"wireless", "clients">>, <<"capsman", "clients">>,
        <<"switch", "port">>, <<"routing", "stats">>}
  \cup {<<"ssl", "certificate", "verify">>, <<"ssl", "check", "hostname">>,
        <<"no", "ssl", "certificate">>, <<"kid", "control", "assigned">>,
        <<"kid", "control", "dynamic">>, <<"check", "for", "updates">>}

StringFields ==
  {<<"hostname">>, <<"username">>, <<"password">>, <<"credentials", "file">>,
   <<"remote", "dhcp", "entry">>, <<"remote", "capsman", "entry">>,
   <<"interface", "name", "format">>}

Port == <<"port">>
CustomLabels == <<"custom", "labels">>

RouterFields == BoolFields \cup StringFields \cup {Port, CustomLabels}

\* What RouterConfigEntry has besides.
FileFields ==
  {<<"ssl", "ca", "file">>, <<"dhcpv6">>, <<"dhcpv6", "lease">>, <<"address", "list">>,
   <<"ipv6", "address", "list">>}

SystemNumbers ==
  {<<"socket", "timeout">>, <<"initial", "delay", "on", "failure">>,
   <<"max", "delay", "on", "failure">>, <<"delay", "inc", "div">>,
   <<"bandwidth", "test", "interval">>, <<"minimal", "collect", "interval">>,
   <<"max", "worker", "threads">>, <<"max", "scrape", "duration">>,
   <<"total", "max", "scrape", "duration">>, <<"probe", "connection", "pool", "ttl">>,
   <<"probe", "connection", "pool", "max", "size">>}

SystemFields ==
  SystemNumbers \cup
  {<<"listen">>, <<"bandwidth">>, <<"bandwidth", "test", "dns", "server">>, <<"verbose", "mode">>,
   <<"fetch", "routers", "in", "parallel">>, <<"persistent", "router", "connection", "pool">>,
   <<"persistent", "dhcp", "cache">>, <<"probe", "connection", "pool">>}

\* The system is the owner of settings whose name has no words.
System == <<>>
Settings == ({System} \X SystemFields) \cup (Routers \X RouterFields)
Sections == ({System} \X SystemFields) \cup (Routers \X (RouterFields \cup FileFields))

-----------------------------------------------------------------------------
(* The overrides *)

Credentials == {"username", "password"}

\* A variable: the words of its name, whether that is in upper case throughout,
\* whether its text is what its setting takes, and the number it is.
Variables == [name : Seq(Words), upper : BOOLEAN, good : BOOLEAN, n : Int]

\* Go keeps one variable of a name: two that differ, differ in case.
ASSUME SettingsAssumption ==
  /\ SystemFields \cup RouterFields \subseteq Seq(Words)
  /\ Routers \subseteq Seq(Words) \ {System}
  /\ \A e \in Environments :
       /\ e \in Seq(Variables)
       /\ \A i, j \in DOMAIN e :
            e[i].name = e[j].name /\ e[i].upper /\ e[j].upper => i = j
  /\ Files \subseteq [Routers -> SUBSET Credentials]

Overridden == DOMAIN origin

Init ==
  /\ env \in Environments
  /\ files \in Files
  /\ phase = "system"
  /\ visited = {}
  /\ origin = <<>>
  /\ login = <<>>

\* Mutant: what follows the length of the prefix is taken, whatever precedes it.
NamesAnywhere(i, owner, field) ==
  Len(env[i].name) > Len(owner) /\ SubSeq(env[i].name, Len(owner) + 1, Len(env[i].name)) = field

\* The variable MKTXP_{owner}_{field}, in any case for a router, in upper case
\* for the system.
Names(i, owner, field) == env[i].name = owner \o field /\ (owner = System => env[i].upper)

Namers(s) == {i \in DOMAIN env : Names(i, s[1], s[2])}

\* buildEnvMap keeps the last of several spellings.
Winner(s) == CHOOSE i \in Namers(s) : \A j \in Namers(s) : j <= i

Ports == 1..65535

\* Mutant: the port is set before its range is looked at.
AcceptsAny(field, variable) == field = CustomLabels => variable.good

\* A port out of range and labels that are no JSON are refused.  A text that is
\* no number is 0, and one that is no boolean false.
Accepts(field, variable) ==
  /\ field = Port => variable.good /\ variable.n \in Ports
  /\ field = CustomLabels => variable.good

InPhase(s) == phase = (IF s[1] = System THEN "system" ELSE "routers")

\* The loops over the tables, which are Go maps: in any order.
Override(s) ==
  /\ InPhase(s)
  /\ Namers(s) # {}
  /\ s \notin visited
  /\ visited' = visited \cup {s}
  /\ origin' = IF Accepts(s[2], env[Winner(s)])
               THEN [t \in Overridden \cup {s} |-> IF t = s THEN Winner(s) ELSE origin[t]]
               ELSE origin
  /\ UNCHANGED <<env, files, phase, login>>

PhaseEnds ==
  /\ phase \in {"system", "routers"}
  /\ \A s \in Settings : InPhase(s) /\ Namers(s) # {} => s \in visited
  /\ phase' = IF phase = "system" THEN "routers" ELSE "dial"
  /\ UNCHANGED <<env, files, visited, origin, login>>

\* resolveCredentials, when the router is dialed.
Dial(r) ==
  /\ phase = "dial"
  /\ login' = <<r, [c \in Credentials |->
                      IF c \in files[r] THEN "file"
                      ELSE IF <<r, <<c>>>> \in Overridden THEN "environment" ELSE "entry"]>>
  /\ UNCHANGED <<env, files, phase, visited, origin>>

Next ==
  \/ \E s \in Settings : Override(s)
  \/ PhaseEnds
  \/ \E r \in Routers : Dial(r)

Spec == Init /\ [][Next]_vars

-----------------------------------------------------------------------------
(* What the server makes of the numbers *)

BuiltIn == 5

Number(field) ==
  LET s == <<System, field>>
  IN  IF s \notin Overridden THEN BuiltIn
      ELSE IF env[origin[s]].good THEN env[origin[s]].n ELSE 0

Switch(field) ==
  LET s == <<System, field>>
  IN  s \in Overridden /\ env[origin[s]].good /\ env[origin[s]].n = 1

\* Mutant: the number is taken as it is.
SemSizeRaw == IF Switch(<<"fetch", "routers", "in", "parallel">>)
              THEN Number(<<"max", "worker", "threads">>) ELSE 1

SemSize ==
  IF ~Switch(<<"fetch", "routers", "in", "parallel">>) THEN 1
  ELSE IF Number(<<"max", "worker", "threads">>) <= 0 THEN 5
  ELSE Number(<<"max", "worker", "threads">>)

ScrapeDuration == Number(<<"max", "scrape", "duration">>)

-----------------------------------------------------------------------------
(* Properties *)

TypeOK ==
  /\ phase \in {"system", "routers", "dial"}
  /\ visited \subseteq Settings
  /\ Overridden \subseteq visited
  /\ \A s \in Overridden :
       /\ origin[s] \in DOMAIN env
       /\ s[2] = Port => env[origin[s]].n \in Ports
  /\ login \in {<<>>} \cup (Routers \X [Credentials -> {"file", "environment", "entry"}])

Reached(i) == {s \in Overridden : origin[s] = i}

\* The words a setting of an owner begins with that may also end the name of
\* another owner.
SharedWords(owner) ==
  IF owner = System
  THEN {<<"probe", "connection">>, <<"persistent", "router", "connection">>}
  ELSE {<<"ipv6">>, <<"switch">>, <<"no", "ssl">>, <<"ssl", "check">>}

\* One variable reaches two settings only in these ways: MKTXP_X_IPV6_{FIELD},
\* MKTXP_X_SWITCH_PORT, MKTXP_X_NO_SSL_CERTIFICATE and MKTXP_X_SSL_CHECK_HOSTNAME
\* of router X are also those of routers X_IPV6, X_SWITCH, X_NO_SSL and
\* X_SSL_CHECK, and two settings of the system are also the pool of a router.
\* Two settings of one owner never share a variable, nor do two routers whose
\* names are not prefixes of each other.
ClashesKnown ==
  \A i \in DOMAIN env : \A s, t \in Reached(i) :
    /\ s # t => Len(s[1]) # Len(t[1])
    /\ Len(s[1]) < Len(t[1]) =>
         \E words \in SharedWords(s[1]) : t[1] = s[1] \o words /\ s[2] = words \o t[2]

\* Server takes a semaphore of at least one slot for granted: no text of the
\* environment gives it less, or requests would wait for ever.
SemaphoreUsable == SemSize >= 1

\* "Router-specific overrides (format: MKTXP_{ROUTERNAME}_{FIELD})": a variable
\* reaches one router.
OverridesAreSpecific == \A i \in DOMAIN env : \A s, t \in Reached(i) : s[1] = t[1]

\* "Environment variables take priority over YAML config": whatever the section
\* of a router may give, a variable of its name overrides.
EnvironmentOverridesFiles ==
  phase = "dial" =>
    \A s \in Sections :
      Namers(s) # {} /\ s[2] \notin {Port, CustomLabels} => s \in Overridden

\* "... and credentials files".
EnvironmentOverridesCredentials ==
  login # <<>> =>
    \A c \in Credentials : <<login[1], <<c>>>> \in Overridden => login[2][c] # "file"

\* "Invalid values are ignored (original config preserved)": a text that is no
\* number leaves the collectors the time they had.
InvalidDurationIgnored == (\A i \in DOMAIN env : ~env[i].good) => ScrapeDuration = BuiltIn
=============================================================================
