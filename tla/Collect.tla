------------------------------- MODULE Collect -------------------------------
(* The collectors of one router during one scrape after another.  They run at *)
(* the same time (internal/server registers each with the Prometheus          *)
(* registry, which calls them all), ask the router through one connection,    *)
(* and put their samples through a MetricBuilder of their own into one        *)
(* answer.                                                                    *)
(*                                                                            *)
(* What the collectors share is the connection, which one of them may find    *)
(* broken for all, the cache of DHCP leases, what the router holds, and the   *)
(* answer: a sample that is there twice makes Prometheus refuse all of it.    *)
EXTENDS Collectors, FiniteSets

CONSTANTS
  Setups,      \* which collectors are run together, and with which settings on
  Tables,      \* what the tables of the router may hold: sequences of rows
  Numbers,     \* the texts that are numbers, with what they are
  Durations,   \* those that are durations, with their seconds
  Times,       \* those that are times of the day, with their seconds
  Now,         \* the time of the scrape
  MaxChanges,  \* how often the tables change during one scrape
  MaxRefused   \* how many commands the router refuses during one scrape

VARIABLES
  collectors, \* the registry: what the collectors registered do, by name
  flags,    \* the settings of the router that are on
  table,    \* what every table of the router holds now
  changes,  \* how often it changed in this scrape
  past,     \* what it held in this scrape
  link,     \* the session with the router: "up", or "lost"
  expired,  \* the collectors whose context is done
  leases,   \* the DHCP lease cache: "empty", or "filled"
  pc,       \* the step each collector is at; 0 when it has returned
  held,     \* the rows each keeps for its next step
  turn,     \* how many of them it has dealt with
  emitted,  \* MetricBuilder.emitted, of each
  answer,   \* the samples sent
  twice,    \* the series sent twice
  replies,  \* the rows each got for its steps
  failed    \* the steps whose command failed

collectVars == <<collectors, flags, table, changes, past, link, expired, leases,
                 pc, held, turn, emitted, answer, twice, replies, failed>>

Row == [name : STRING, state : STRING, text : STRING, comment : STRING,
        channel : STRING, protocols : SUBSET STRING]
Blank == [name |-> "", state |-> "", text |-> "", comment |-> "", channel |-> "", protocols |-> {}]

ASSUME CollectAssumption ==
  /\ \A s \in Setups : s.collectors # {} /\ s.collectors \subseteq AllCollectors
  /\ Tables \subseteq Seq(Row)
  /\ MaxChanges \in Nat /\ MaxRefused \in Nat

Rows(t) == {t[i] : i \in 1..Len(t)}
Steps(c) == collectors[c].steps
Step(c) == Steps(c)[pc[c]]
On(gate) == gate = {} \/ gate \cap flags # {}

------------------------------------------------------------------------------
(* The metric builder.                                                        *)

\* What is not a number is 0, with no sign that it was not one; so is a duration.
ParseFloat(x) == IF x \in DOMAIN Numbers THEN Numbers[x] ELSE 0
ParseMktUptime(x) == IF x \in DOMAIN Durations THEN Durations[x] ELSE 0
ParseBool(x) == IF x \in {"yes", "true"} THEN 1 ELSE 0
\* UserCollector: a login at a time that cannot be read is one just now.
LoginTime(x) == IF x \in DOMAIN Times THEN Times[x] ELSE Now

Value(m, row) ==
  CASE m.value = "number"    -> ParseFloat(row.text)
    [] m.value = "kibibytes" -> ParseFloat(row.text) * 1024
    [] m.value = "seconds"   -> ParseMktUptime(row.text)
    [] m.value = "bool"      -> ParseBool(row.text)
    [] m.value = "state"     -> ParseBool(row.state)
    [] m.value = "login"     -> LoginTime(row.text)
    [] m.value = "one"       -> 1
    [] OTHER                 -> 0

\* The row has the column without which the metric is not shown.
Has(m, row) == m.needs = "" \/ row[m.needs] # ""

\* The places of the rows of a reply that a step looks at.
Wanted(step, t) ==
  {i \in 1..Len(t) : CASE step.rows = "named" -> t[i].name # ""
                       [] step.rows = "up" -> t[i].state = "yes"
                       [] step.rows = "addressed" -> t[i].name # "" /\ t[i].text # ""
                       [] OTHER -> TRUE}

Sample(m, labels, value) == [metric |-> m, labels |-> labels, value |-> value]

\* The label value a metric takes from a row.
Label(m, row) == IF m.from = "channel" THEN row.channel ELSE row.name

\* The label values that tell the sample of one row from that of another.
RowLabels(m, row) ==
  CASE m.from = "keys"   -> <<"keys">>
    [] m.from = "client" -> <<Label(m, row), leases'>>
    [] OTHER             -> <<Label(m, row)>>

\* Of some places of a table, those of the first and of the last row of each name.
Firsts(t, at) == {i \in at : \A j \in at : j < i => t[j].name # t[i].name}
Lasts(t, at) == {i \in at : \A j \in at : j > i => t[j].name # t[i].name}

\* The samples the code builds of metric m from the rows of a reply that are
\* wanted, each at its place.  The rows kept of the reply before give a count of
\* zero to what is listed but not used.
Samples(m, t, wanted, before) ==
  CASE m.from = "first" -> [i \in {j \in wanted : Has(m, t[j]) /\ \A k \in wanted : j <= k} |->
                              Sample(m, <<m.tag>>, Value(m, t[i]))]
    [] m.from = "reply" -> [i \in {0} |-> Sample(m, <<m.tag>>,
                              Cardinality({j \in wanted : m.tag \in t[j].protocols \cup {""}}))]
    [] m.from = "group" -> LET all == before \o t
                               at == (1..Len(before)) \cup {Len(before) + k : k \in wanted}
                           IN [i \in Firsts(all, at) |-> Sample(m, <<all[i].name>>,
                                 Cardinality({j \in wanted : t[j].name = all[i].name}))]
    [] m.from = "last"  -> [i \in Lasts(t, wanted) |-> Sample(m, <<t[i].name>>, Value(m, t[i]))]
    [] OTHER            -> [i \in {j \in wanted : Has(m, t[j])} |->
                              Sample(m, RowLabels(m, t[i]), Value(m, t[i]))]

Series(x) == <<x.metric.family, x.labels>>
\* Mutants: nothing is a duplicate; the labels are not looked at.
NeverDuplicate(seen, x) == FALSE
DuplicateByFamily(seen, x) == \E s \in seen : s[1] = x.metric.family

IsDuplicate(seen, x) == Series(x) \in seen

\* Metrics are built one after the other, and each of row after row.
Before(p, q) == p[1] < q[1] \/ (p[1] = q[1] /\ p[2] < q[2])

\* The samples of xs that get past the builder of c: of those of one series the
\* first, if it was not emitted already.
Past(c, xs) ==
  {p \in DOMAIN xs :
     ~IsDuplicate(emitted[c] \cup {Series(xs[q]) : q \in {q \in DOMAIN xs : Before(q, p)}}, xs[p])}

\* NewConstMetric gives a metric only for as many values as names.
Built(m) == m.names = m.values

\* GaugeVal and its like: a sample is marked as emitted before it is built, and
\* one that cannot be built is dropped.
EmitAll(c, xs) ==
  LET sent == {p \in Past(c, xs) : Built(xs[p].metric)}
  IN /\ emitted' = [emitted EXCEPT ![c] = @ \cup {Series(xs[p]) : p \in DOMAIN xs}]
     /\ answer' = answer \cup {xs[p] : p \in sent}
     /\ twice' = twice \cup {Series(xs[p]) : p \in
                              {n \in sent : \/ \E x \in answer : Series(x) = Series(xs[n])
                                           \/ \E q \in sent : /\ Before(q, n)
                                                              /\ Series(xs[q]) = Series(xs[n])}}

\* The metrics of a step whose own setting is on, of rows t: at <<k, i>> the
\* sample of metric k at place i.
Emissions(step, t, before) ==
  LET of == [k \in {k \in DOMAIN step.emit : On(step.emit[k].when)} |->
               Samples(step.emit[k], t, Wanted(step, t), before)]
  IN [p \in UNION {{k} \X DOMAIN of[k] : k \in DOMAIN of} |-> of[p[1]][p[2]]]

Emit(c, step, t, before) == \E xs \in {Emissions(step, t, before)} : EmitAll(c, xs)

------------------------------------------------------------------------------
StartOf(c) == IF On(collectors[c].gate) THEN 1 ELSE Len(Steps(c)) + 1

\* A scrape starts: IsReady found or made a connection, the lease cache was
\* emptied at the end of the last one, and every collector makes a builder.
Init ==
  /\ \E s \in Setups : collectors = [c \in s.collectors |-> Program(c)] /\ flags = s.flags
  /\ table \in Tables
  /\ changes = 0 /\ past = {table} /\ link = "up" /\ expired = {} /\ leases = "empty"
  /\ pc = [c \in DOMAIN collectors |-> StartOf(c)]
  /\ held = [c \in DOMAIN collectors |-> <<>>] /\ turn = [c \in DOMAIN collectors |-> 0]
  /\ emitted = [c \in DOMAIN collectors |-> {}] /\ answer = {} /\ twice = {}
  /\ replies = {} /\ failed = {}

------------------------------------------------------------------------------
\* Collector c is at a step of this kind, and its setting is on.
At(c, how) ==
  /\ pc[c] \in 1..Len(Steps(c))
  /\ Step(c).how \in how
  /\ On(Step(c).gate)

Go(c, n) == pc' = [pc EXCEPT ![c] = @ + n]
Return(c) == pc' = [pc EXCEPT ![c] = Len(Steps(c)) + 1]
Forget(c) == held' = [held EXCEPT ![c] = <<>>] /\ turn' = [turn EXCEPT ![c] = 0]

Router == <<collectors, flags, table, changes, past>>

\* The setting of a step is off.
PassOver(c) ==
  /\ pc[c] \in 1..Len(Steps(c))
  /\ ~On(Step(c).gate)
  /\ Go(c, Step(c).jump)
  /\ Forget(c)
  /\ UNCHANGED <<Router, link, expired, leases, emitted, answer, twice, replies, failed>>

\* The session is asked and answers, in time.  RunStream has a session of its
\* own and dials it when need be.
MayAnswer(c) == c \notin expired /\ (Step(c).how = "stream" \/ link = "up")

\* The router answers, and the collector goes through its rows.
Answered(c) ==
  /\ At(c, {"run", "stream", "used"})
  /\ MayAnswer(c)
  /\ LET step == Step(c)
     IN /\ held' = [held EXCEPT ![c] = IF step.keeps THEN table ELSE <<>>]
        /\ Emit(c, step, table, IF step.how = "used" THEN held[c] ELSE <<>>)
        /\ replies' = replies \cup {[by |-> c, step |-> pc[c], rows |-> table]}
  /\ Go(c, 1)
  /\ turn' = [turn EXCEPT ![c] = 0]
  /\ UNCHANGED <<Router, link, expired, leases, failed>>

\* A command fails: the router refuses it, the deadline has passed, there is no
\* session, or the session breaks, and Run then drops it for everybody.
CommandFails(c) ==
  /\ failed' = failed \cup {<<c, pc[c]>>}
  /\ \/ ~MayAnswer(c) /\ link' = link
     \/ MayAnswer(c) /\ Cardinality(failed) < MaxRefused /\ link' = link
     \/ MayAnswer(c) /\ link' = (IF Step(c).how = "stream" THEN link ELSE "lost")

\* Mutant: what could not be asked is shown as down.
UnansweredIsDown(c) ==
  /\ At(c, {"run", "stream", "used"})
  /\ CommandFails(c)
  /\ Emit(c, Step(c), [i \in 1..Len(table) |-> [table[i] EXCEPT !.state = "no", !.text = ""]], <<>>)
  /\ IF Step(c).stops THEN Return(c) ELSE Go(c, Step(c).jump)
  /\ Forget(c)
  /\ UNCHANGED <<Router, expired, leases, replies>>

\* The collector returns, or goes on as if the command had not been there.
Unanswered(c) ==
  /\ At(c, {"run", "stream", "used"})
  /\ CommandFails(c)
  /\ IF Step(c).stops THEN Return(c) ELSE Go(c, Step(c).jump)
  /\ Forget(c)
  /\ UNCHANGED <<Router, expired, leases, emitted, answer, twice, replies>>

\* HealthCollector: health_up says whether there is a session.
TellLink(c) ==
  /\ At(c, {"tell"})
  /\ Emit(c, Step(c), <<[Blank EXCEPT !.state = IF link = "up" THEN "yes" ELSE "no"]>>, <<>>)
  /\ Go(c, 1)
  /\ UNCHANGED <<Router, link, expired, leases, held, turn, replies, failed>>

\* The clients kept are shown under the names their leases give them.
ShowClients(c) ==
  /\ Emit(c, Step(c), held[c], <<>>)
  /\ replies' = replies \cup {[by |-> c, step |-> pc[c], rows |-> held[c]]}
  /\ Go(c, 1)
  /\ Forget(c)
  /\ UNCHANGED <<Router, expired>>

\* EnsureDHCPRecords: the leases are there, or are fetched, or cannot be, and
\* then the clients go by their MAC addresses.
ResolveCached(c) ==
  /\ At(c, {"resolve"})
  /\ leases = "filled"
  /\ leases' = leases
  /\ ShowClients(c)
  /\ UNCHANGED <<link, failed>>

ResolveFetched(c) ==
  /\ At(c, {"resolve"})
  /\ leases = "empty" /\ MayAnswer(c)
  /\ leases' = "filled"
  /\ ShowClients(c)
  /\ UNCHANGED <<link, failed>>

ResolveFails(c) ==
  /\ At(c, {"resolve"})
  /\ leases = "empty"
  /\ CommandFails(c)
  /\ leases' = leases
  /\ ShowClients(c)

------------------------------------------------------------------------------
(* MonitorCollector: one command for each interface of the list.              *)

Listed(c) == held[c][turn[c] + 1]

NextLink(c) ==
  /\ turn' = [turn EXCEPT ![c] = @ + 1]
  /\ UNCHANGED <<Router, expired, leases, pc, held, replies>>

\* Only the status is shown, as down.
ShowDown(c) ==
  LET status == Step(c).emit[1]
  IN EmitAll(c, [p \in {<<1, 1>>} |-> Sample(status, <<Listed(c).name>>, 0)])

\* The list says the interface does not run.
LinkIdle(c) ==
  /\ At(c, {"each"}) /\ turn[c] < Len(held[c])
  /\ Listed(c).state # "yes"
  /\ ShowDown(c)
  /\ NextLink(c)
  /\ UNCHANGED <<link, failed>>

\* The command names the interface by its place in the list; the router
\* answers for what it has at that place now, or for nothing.
LinkAnswered(c) ==
  /\ At(c, {"each"}) /\ turn[c] < Len(held[c])
  /\ Listed(c).state = "yes"
  /\ MayAnswer(c)
  /\ IF turn[c] + 1 <= Len(table)
     THEN Emit(c, Step(c), <<[table[turn[c] + 1] EXCEPT !.name = Listed(c).name]>>, <<>>)
     ELSE ShowDown(c)
  /\ NextLink(c)
  /\ UNCHANGED <<link, failed>>

LinkUnanswered(c) ==
  /\ At(c, {"each"}) /\ turn[c] < Len(held[c])
  /\ Listed(c).state = "yes"
  /\ CommandFails(c)
  /\ ShowDown(c)
  /\ NextLink(c)

LinksDone(c) ==
  /\ At(c, {"each"}) /\ turn[c] = Len(held[c])
  /\ Go(c, 1)
  /\ Forget(c)
  /\ UNCHANGED <<Router, link, expired, leases, emitted, answer, twice, replies, failed>>

------------------------------------------------------------------------------
\* How long a collector took is told without a builder.
CollectionTime == [Of("time", Metric("mktxp_collection_time_total", 1)) EXCEPT !.from = "clock"]

\* routerCollector.Collect: the collector has returned, with or without an
\* error, and its time is added to the answer.
Finish(c) ==
  /\ pc[c] > Len(Steps(c))
  /\ pc' = [pc EXCEPT ![c] = 0]
  /\ answer' = answer \cup {Sample(CollectionTime, <<c>>, 0)}
  /\ twice' = twice
  /\ UNCHANGED <<Router, link, expired, leases, held, turn, emitted, replies, failed>>

\* The deadline of a collector passes: max_scrape_duration after its start, or
\* the timeout of the request, which is that of all its collectors.
Expire(c) ==
  /\ pc[c] \in 1..Len(Steps(c)) /\ c \notin expired
  /\ expired' = expired \cup {c}
  /\ UNCHANGED <<Router, link, leases, pc, held, turn, emitted, answer, twice, replies, failed>>

RouterChanges ==
  /\ changes < MaxChanges
  /\ \E c \in DOMAIN collectors : pc[c] # 0
  /\ \E t \in Tables \ {table} : table' = t /\ past' = past \cup {t}
  /\ changes' = changes + 1
  /\ UNCHANGED <<collectors, flags, link, expired, leases, pc, held, turn, emitted, answer, twice, replies, failed>>

\* Gather has all the samples; the scrape ends and another starts.
NextScrape ==
  /\ \A c \in DOMAIN collectors : pc[c] = 0
  /\ changes' = 0 /\ past' = {table} /\ link' = "up" /\ expired' = {} /\ leases' = "empty"
  /\ pc' = [c \in DOMAIN collectors |-> StartOf(c)]
  /\ emitted' = [c \in DOMAIN collectors |-> {}] /\ answer' = {} /\ twice' = {}
  /\ replies' = {} /\ failed' = {}
  /\ UNCHANGED <<collectors, flags, table, held, turn>>

Collecting(c) ==
  \/ PassOver(c) \/ Answered(c) \/ Unanswered(c) \/ TellLink(c)
  \/ ResolveCached(c) \/ ResolveFetched(c) \/ ResolveFails(c)
  \/ LinkIdle(c) \/ LinkAnswered(c) \/ LinkUnanswered(c) \/ LinksDone(c)
  \/ Finish(c) \/ Expire(c)

Next ==
  \/ \E c \in DOMAIN collectors : Collecting(c)
  \/ RouterChanges \/ NextScrape

Spec == Init /\ [][Next]_collectVars

------------------------------------------------------------------------------
(* Properties.                                                                *)

\* The variables have their types, and a collector is never past its last step.
TypeOK ==
  /\ DOMAIN collectors \subseteq AllCollectors /\ table \in Tables /\ past \subseteq Tables /\ table \in past
  /\ changes \in 0..MaxChanges /\ link \in {"up", "lost"} /\ expired \subseteq DOMAIN collectors
  /\ leases \in {"empty", "filled"}
  /\ \A c \in DOMAIN collectors : /\ pc[c] \in 0..Len(Steps(c)) + 1
                       /\ held[c] \in Tables \cup {<<>>} /\ turn[c] \in 0..Len(held[c])

\* No series is in the answer twice: the registry would refuse the whole answer
\* (HandlerFor with its default ErrorHandling), and every router of the scrape
\* would be without metrics.  Two rows may have the same labels, a collector may
\* reach a metric on two ways, and two collectors may use one metric name.
SeriesUnique ==
  twice = {}

\* Commands whose rows a count is made of: both lists for the pools.
CountedFrom(c, i) == CASE Steps(c)[i].how = "used"    -> {i - 1, i}
                       [] Steps(c)[i].how = "resolve" -> {i - 1}
                       [] OTHER                       -> {i}

\* A number of things is in the answer only when every command it was counted
\* from succeeded: a list cut off, or half of a pair, must give no count and not
\* a smaller one.
CountsAreWhole ==
  \A c \in DOMAIN collectors : \A i \in 1..Len(Steps(c)) : \A m \in Rows(Steps(c)[i].emit) :
    (m.value = "count" /\ \E x \in answer : x.metric.family = m.family)
      => \A j \in CountedFrom(c, i) : /\ <<c, j>> \notin failed
                                       /\ \E r \in replies : r.by = c /\ r.step = j

\* The metrics that tell of one row, and are labelled by it.
OfRow(m) == m.from \in {"row", "client", "channel"}

\* What is told of a row is what the code reads in a row the router had at some
\* time in this scrape: its number, its state, its time, and the 0 or the time
\* of the scrape that stand for a text it cannot read.  A command that failed
\* shows as nothing, never as one of these.  The link status of
\* MonitorCollector is left out: it is 0 when its command fails, too.
ReadingsAreReal ==
  \A x \in answer : OfRow(x.metric) =>
    \E t \in past : \E row \in Rows(t) : /\ Has(x.metric, row)
                                       /\ x.labels[1] = Label(x.metric, row)
                                       /\ x.value = Value(x.metric, row)

\* A metric the builder can build, labelled by the row it is of.
WellLabelled(m) == Built(m) /\ m.from \in {"row", "channel"}

ShownInAnswer(m, row) ==
  \E x \in answer : Series(x) = <<m.family, <<Label(m, row)>>>>

\* A failure takes away no more than what it must: every row that a collector
\* got and looks at is in the answer, under the labels the code gives it, with
\* every metric whose column it has, whatever failed before or after.  Two rows
\* of one label share what is shown, as two radios on one channel do.  Metrics
\* labelled by the names of the labels (bgp.go:44), or with more values than
\* names (ipsec.go:110), are left out.
RowsReachTheAnswer ==
  \A r \in replies : LET step == Steps(r.by)[r.step] IN
    \A m \in Rows(step.emit) : WellLabelled(m) /\ On(m.when) =>
      \A i \in Wanted(step, r.rows) : Has(m, r.rows[i]) => ShownInAnswer(m, r.rows[i])

\* The rates of a link in Mbit/s, by the words of RouterOS.
RateOf(x) == CASE x = "10Mbps" -> 10 [] x = "100Mbps" -> 100 [] x = "1Gbps" -> 1000
               [] x = "2.5Gbps" -> 2500 [] x = "5Gbps" -> 5000 [] x = "10Gbps" -> 10000
               [] x = "40Gbps" -> 40000 [] x = "100Gbps" -> 100000 [] OTHER -> ParseFloat(x)

\* interface_rate is the "Actual interface connection data rate"
\* (monitor.go:84) of a link the router had in this scrape, as "ratesMbps maps
\* RouterOS rate strings to numeric Mbps values." (monitor.go:13).  Not so: the
\* entry of the metric has parseFloat false, and ratesMbps is never looked at.
RateIsShown ==
  \A x \in answer : x.metric.family = "interface_rate" =>
    \E t \in past : \E row \in Rows(t) : x.value = RateOf(row.text)
=============================================================================
