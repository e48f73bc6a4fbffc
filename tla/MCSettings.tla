------------------------------- MODULE MCSettings -------------------------------
(* Instances of Settings for TLC. *)
EXTENDS Settings

AnyText == STRING

Home == <<"home">>
MCRouters ==
  {Home, <<"office">>, <<"home", "ipv6">>, <<"home", "switch">>, <<"home", "dhcp">>,
   <<"home", "ssl">>, <<"home", "no", "ssl">>, <<"home", "ssl", "check">>,
   <<"probe", "connection">>, <<"persistent", "router", "connection">>}

Variable(name, upper, good, n) == [name |-> name, upper |-> upper, good |-> good, n |-> n]

Number1 == {Variable(s[1] \o s[2], TRUE, TRUE, 1) : s \in Settings}

Spellings ==
  {Variable(<<"home", "port">>, upper, good, n) : upper, good \in BOOLEAN, n \in {0, 22, 65536}}
  \cup {Variable(<<"home", "custom", "labels">>, TRUE, good, 1) : good \in BOOLEAN}
  \cup {Variable(<<"listen">>, upper, TRUE, 1) : upper \in BOOLEAN}
  \cup {Variable(<<"home", "username">>, FALSE, TRUE, 1)}

Threads ==
  {Variable(<<"max", "worker", "threads">>, TRUE, good, n) : good \in BOOLEAN, n \in {-1, 0, 3}}
Parallel == Variable(<<"fetch", "routers", "in", "parallel">>, TRUE, TRUE, 1)

\* Every variable that some setting has, alone; several spellings of one name;
\* and the numbers the semaphore is made of.
MCEnvironments ==
  {<<v>> : v \in Number1}
  \cup {e \in {<<v, w>> : v, w \in Spellings} :
          ~(e[1].name = e[2].name /\ e[1].upper /\ e[2].upper)}
  \cup {<<Parallel, v>> : v \in Threads}

MCFiles == {[r \in MCRouters |-> IF r = Home THEN given ELSE {}] : given \in SUBSET Credentials}

\* Two routers, and the variables that are of interest to the documentation.
TwoRouters == {Home, <<"home", "ipv6">>}
RouteEnvironments == {<<Variable(<<"home", "ipv6", "route">>, TRUE, TRUE, 1)>>}
FieldEnvironments == {<<Variable(Home \o f, TRUE, TRUE, 1)>> : f \in FileFields}
LoginEnvironments == {<<Variable(<<"home", "username">>, TRUE, TRUE, 1)>>}
DurationEnvironments == {<<Variable(<<"max", "scrape", "duration">>, TRUE, FALSE, 0)>>}
OneFile == {[r \in TwoRouters |-> {"username"}]}
=============================================================================
