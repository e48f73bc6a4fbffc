# Verification of mktxp

mktxp (Go, `src/`) is a Prometheus exporter for MikroTik routers: an HTTP server
that, for each scrape, connects to the configured routers, lets some forty
collectors ask each of them for tables, and answers with the metrics they make
of the rows. This directory has TLA+ models of its parts, the TLC configurations
that check them on small instances, and TLAPS proofs of the properties that
matter most.

* [The system](#the-system): its parts and what is hard about them
* [The modules](#the-modules): what models what, and how it corresponds to the code
* [The runs](#the-runs): what is checked, with which bounds, and why they are enough
* [Fairness](#fairness)
* [The proofs](#the-proofs)
* [Where the code disagrees with its documentation](#where-the-code-disagrees-with-its-documentation)
* [What is not modelled](#what-is-not-modelled)
* [Plan](#plan)

## The system

| Component | Source | State it keeps | Operations |
|---|---|---|---|
| Connection | `internal/routeros/connection.go` | the run session, the stream session, failure count, time of the last failure; one mutex | `Connect`, `Disconnect`, `Run`, `RunStream` |
| Router entry | `internal/entry/router_entry.go` | its connection, remote entries, DHCP lease cache, a mutex for the fields and one for the fetch | `IsReady`, `IsDone`, `EnsureDHCPRecords`, `DHCPRecord` |
| Server | `internal/server/server.go` | the entries, a semaphore, time of the last collection | `/metrics`, `/probe`; per scrape one goroutine per router |
| Configuration | `internal/config`, `cmd/mktxp/cmd/root.go`, `export.go` | the two parsed files, the system settings, the cache of router entries | `Init`, `Reload`, environment overrides, flag overrides |
| Collectors | `internal/collector` | nothing between scrapes | 38 `Collect` methods, `MetricBuilder` |
| Bandwidth | `internal/collector/bandwidth.go` | last result; a background goroutine | `Collect`, `StartBackgroundTest` |
| Exporter process | `cmd/mktxp/cmd/export.go`, `Server.Run` | the context, the signal channel, the listener | start, signal, shutdown, exit |
| Command line | `cmd/mktxp/cmd` | none | `print`, `show`, `info` |

How they interact. A request of the server starts one goroutine per enabled
router. It takes a slot of the semaphore, asks `IsReady` (which calls `Connect`
on a connection that is down), registers a `routerCollector` for each collector
with the registry of the request, and gives the slot back. The handler waits for
all of them or for its timeout, then lets `promhttp` gather: every collector of
every router runs in a goroutine of its own, and calls `Run` and `RunStream` on
the entry's connection and `EnsureDHCPRecords` on its cache. When the handler
returns it calls `IsDone` on every router that was ready, which closes the
connections and clears the lease cache when these are not persistent.

What is hard.

* *Connection.* `Connect` and `Run` hold the mutex across the network; `RunStream`
  dials and listens without it, and looks at the shared fields again after each
  wait. Several streams share one session that each of them closes when it is
  done. A context that is done does not end a stream; it sends a cancel and waits
  for the router, or for the end of the session. Correct when: no session leaks or
  is used after it was closed by its owner, a failure closes only the session it
  belongs to, a stream that returns nil delivered the whole table, the backoff
  ends.
* *Router entry.* Scrapes overlap (a `/probe` during a `/metrics`), and collectors
  outlive their scrape when the handler timed out. Correct when: the leases are
  fetched once, they are those of this scrape, nothing is left connected but by a
  scrape that nobody waits for any more.
* *Server.* Timeouts at every wait; what a handler leaves behind goes on. Correct
  when: the slots balance, an answer that says it is complete is, every router
  found ready is finalized, everybody is answered.
* *Configuration.* Five layers in two orders, with a reload after some of them.
  Correct when: each setting has the value of the strongest layer that gives it.
* *Collectors.* Any command may fail alone or take the session with it, for all
  collectors. Correct when: no series is there twice (the registry would refuse
  the whole answer), no count is made of part of a table, no failure is shown as a
  reading, and a row that was read is shown. Texts become numbers on the way, and what
  is no number becomes 0, or the time of the scrape.
* *Bandwidth.* A test takes up to a minute beside the scrapes; `Collect` sends its
  samples with the mutex held. Correct when: a scrape never waits for a test,
  results never go back, the loop ends with its context.
* *Process.* Signal, listener, requests and a test, in any order. Correct when: the
  process ends, and reports success only if no client was cut off.
* *Together.* Requests that share a router wait for the mutex of its connection, some
  of them with a slot of the semaphore that others wait for. Correct when: everybody
  gets on in the end, and one request disturbs another only by its `IsDone`.

`PROJECT.json` lists each hazard at its line with the property that would catch it.

## The modules

| Module | Models | Proofs |
|---|---|---|
| `Backoff` | `connectDelay`, `inBackoff` | `Connection_proofs` |
| `StreamContract` | what `RunStream` promises a caller (abstract) | |
| `Connection` | `connection.go`; implements `StreamContract` | `Connection_proofs` |
| `RouterEntry` | `router_entry.go` and its use by a scrape | `RouterEntry_proofs` |
| `ScrapeContract` | what the server promises of each request (abstract) | |
| `Server` | `server.go`; implements `ScrapeContract` | `Server_proofs` |
| `Exporter` | `Server` with the mutex of each connection; implements `Server` | `Exporter_proofs` |
| `Config` | `config.go`, `env.go`, `types.go`, the start of `export` | `Config_proofs` |
| `Settings` | the tables of `env.go` and `types.go`, `resolveCredentials`, the size of the semaphore | `Settings_proofs` |
| `Bandwidth` | `bandwidth.go` | `Process_proofs` |
| `Process` | `runExport`, `Server.Run`; extends `Bandwidth` | `Process_proofs` |
| `Collectors` | what each collector asks and emits | `Collect_proofs` |
| `Collect` | the collectors of a router, running together; extends `Collectors` | `Collect_proofs` |
| `MC...` | the instance of each for TLC | |

**Connection.** An action is one critical section of `c.mu`, or one step outside
of it. `mu` is only ever held *between* actions by `Connect` and `Run`, which is
how the code holds it across the network. `runClient`, `streamClient`,
`failureCount` and `lastFailure` are the fields of the same names; `lastFailure`
is the time elapsed since. Sessions are identities; one is `open` between its
dial and its `Close`, and its identity may be used again once nothing refers to
it. The locals of a `RunStream` call are `held` (`cl`), `dialed` (`client`),
`cancelled` (`ctxChan == nil`), and its listen is `chan` with the number of
records sent, received and given to the callback. What the router and the library
do (send, end the listen, stop the reader of a closed session) are actions of
their own. `Connect` on an open session or in backoff and calls without a session
change nothing and are stuttering steps.

**StreamContract** says nothing of sessions: records are sent, the callback sees
them in order and none after the call noticed that its context is done, and the
call succeeds only if it saw them all. `Connection` maps the phase of each call to
it (`StreamPhase`).

**RouterEntry.** `Look` is one `IsConnected` of `connectionState`, `TryConnect` one
`Connect` of `Connect`, `DisconnectOne` one `Disconnect` of `IsDone`: each takes the
lock of its connection, so what other scrapes do comes in between. A `Task` is a
collector of a scrape that resolves names (`wlan.go`, `capsman.go`) from
`EnsureDHCPRecords` to `DHCPRecord`. A scrape that finds the router ready starts its
collectors (`IsReady`), or the handler times out because of another router and only calls `IsDone`
(`IsReadyInVain`), or has timed out and gone through `scraped` already (`IsReadyTooLate`): then nobody
calls `IsDone`, and `left` remembers the connections that were up. `table` is a version number of the router's
leases; the cache holds the version it was filled from, and `began` is the version at the moment
the entry was last taken up by a scrape with no other using it. `Detach` lets `IsDone` start before the
collectors have returned. The remote entries (`Children`) are part of the package
but nothing in the exporter sets them, so runs are made with them and without.

**Server.** `handler[q]` is where the handler of a request is, `worker[q, r]` the
goroutine for router `r`. `pending` is what the deferred loop over `scraped` has
left to visit; it holds `scrapedMu` meanwhile, which is the guard of `Append`.
Times are reduced to `recent` (the interval has not passed) and `expired`.

**ScrapeContract** knows requests, the routers each has found, asked and still owes an
`IsDone` to, and the status it was answered; no goroutine, slot, mutex or registry.
`Server` maps `handler` to its phases, `scraped` to what was found, `registered` to what was
asked, and what is in `scraped` before the answer, `pending` after it, to what is owed.

**Exporter** adds to `Server` the mutex of each connection. What `Server` does in one step,
`IsReady` of a router or the calls of a collector, takes from `StartDial` or `StartCall` to
`IsReady`, `CallEnds` or `CallFails`, with the mutex held as `Connect` and `Run` hold
it; `IsDone` waits for it in `Disconnect`. `sound` and `cutOff` are histories of who lost
a session and how. What `Server` says of safety it has by `ExporterIsServer`, a theorem; that
everybody is answered in spite of the mutexes is checked of `Exporter` itself.

**Config.** One router setting of each way a setting is kept (`flag`, `port`,
`labels`), and two system settings. An optional value is a set of at most one
element, and so is the text of an integer variable: the number it is, if it is one. Label maps are held by reference as in Go: an entry names the owner of
its map. The order of the random iteration over the routers is a `rank`.

**Settings.** `Config` has the layers for one setting of a kind; `Settings` has all settings of
the tables, and names as sequences of words, so that the prefix of one router can be
that of another. `origin` says which variable a setting was taken from. `Override` is one
turn of the loops over the tables, which are Go maps, in any order; `Dial` is
`resolveCredentials`.

**Bandwidth.** `loop` is where the goroutine of each `StartBackgroundTest` is: in a stage of
`runSpeedtest`, about to store, in the `select`, or stopped. A result is the number of its
test. `collect`, `result` and `unsent` are a `Collect`, its local copy, and the samples it has
still to send, which the registry takes one at a time.

**Process.** `main` is the goroutine of `runExport`; the one that reads `sigCh`, the listener
and the background task run beside it, until it returns, when what is left of them is
cut.

**Collectors** and **Collect.** A collector is a gate and a sequence of steps; a
step asks a command and says what its rows become, whether its failure ends the
collector, and what it skips otherwise. `Collect` runs a set of them: a step is
`Answered` or `Unanswered`, the latter by refusal, by the deadline or because the
session was lost, which is then lost for all. A metric record stands for the metrics of its
collector with the same labels, the same guard (`needs`: a comment, for most of the `_info`
metrics) and the same rule for the value (`value`). Of a row are kept the name that identifies it,
the words of its state as one, one text, its comment, its channel and its protocols; a column the router left
out is `""`. `ParseFloat`, `ParseMktUptime`, `ParseBool` and `LoginTime` make numbers of texts as the code does: a
timeout of an address list or the state of a BFD session is a text that is no number, and is 0. `Has` is the guard,
`Label` the label value taken from the row (the channel, for the noise floor of `wlan.go`).

Definitions called *Mutant* in a comment are not part of the model.
They are variants of the definition after them, with a plausible bug, that show
that the properties can fail: `PROJECT.json` pairs each property with one.

## The runs

| Run | Instance | Distinct states |
|---|---|---|
| `MCConnection.cfg` | a scraper (`Connect`, `Run`, `Disconnect`) and two streaming collectors, 4 sessions | 401,928 |
| `MCConnectionLive.cfg` | the same with one streaming collector and fairness | 13,304 |
| `MCRouterEntry.cfg` | two scrapes, a collector, both remote entries, detached collectors | 4,030,558 |
| `MCRouterEntryAlone.cfg` | two overlapping scrapes, a collector, no remote entries, fairness | 50,096 |
| `MCExporter.cfg` | a `/metrics` of two routers and a `/probe` of one, one slot, the mutexes, no pool, fairness | 43,967 |
| `MCConfig.cfg` | 5 contents of each file, 4 router lists, environments with good and bad texts, two edits or reloads | 103,488 |
| `MCSettings.cfg` | 10 routers with names of one another's words, every variable that a setting has alone, pairs of spellings, texts of the numbers | 47,540 |
| `MCCollect.cfg` | every collector alone with all and with all but one of its settings, nine pairs; 3 tables | 156,570 |
| `MCProcess.cfg` | a request, the Collects of two routers, two starts of the loop, 2 tests | 74,386 |

* **connection**: `SessionsAccountedFor` (nothing leaks), `StreamSessionOwned` (a stream
  session has a call that will close it), `CurrentSessionsOpen` (no closed session is
  used next), `DelayNeverShrinks`, `SessionsIndependent` (a failed `Run` does not touch
  the streams, nor the reverse), `StreamContractHolds` (the refinement: among other
  things, that nil means the whole table).
* **connection_live**: `StreamReturns`, `Reconnects`.
* **router_entry**: `FetchedOnce`, `NoIdleConnection` (an idle router has no connection but one a
  scrape ready too late has left, which the next `IsDone` closes). **router_entry_alone**:
  `LookupsCurrent`, `ScrapeEnds`. The first two hold with detached collectors;
  `LookupsCurrent` does not: a collector left behind may store its leases after
  `IsDone` has cleared the cache, and the next scrape then uses them.
* **server** checks `Server` as part of `Exporter`: `SemaphoreAccounted`,
  `OnlySetupTimeoutsLeak`, `MutexReturned` (on every path), `CutOffByOthersAlone` (who may
  take a session from a request that collects: the `IsDone` of another that was answered
  and had found the router itself), `Answered`, `WaitEnds`, `ScrapeContractHolds` (the
  refinement: among other things, that an answer 200 has every router that was ready).
* **config**: `EntriesResolve`, `SystemResolves` (the strongest layer wins, whatever the
  order of loads, overrides and reloads), `LabelsReachTheRouter`.
* **settings**: `ClashesKnown` (the only ways in which one variable reaches two settings),
  `SemaphoreUsable`.
* **process**: `SuccessIsGraceful`, `SignalEndsProcess`, `ListenFailureEnds`, and of the
  bandwidth collector in it `ResultsAdvance`, `ShownInOrder`, `CollectEnds`.
* **collect**: `SeriesUnique`, `CountsAreWhole` (of the commands; what a stream that is cut off
  returns is `StreamContractHolds`), `ReadingsAreReal` (what is told of a row is what the code reads in one the
  router had, and a command that failed gives no zeros), `RowsReachTheAnswer` (with the guards of the code; the
  metrics whose labels the code gets wrong are left out).
* **server_left**, **config_labels** and **collect_rate** each refute one statement; see
  below. Seven more configurations beside them do the same, outside of the list in
  `PROJECT.json`: `MCConnectionShared.cfg`, `MCRouterEntryReady.cfg`, `MCConfigTexts.cfg`,
  and `Route`, `Field`, `Login` and `Duration` of `MCSettings`.

Bounds. *Connection*: two streams are enough for the race of two dials and for two
users of one session; the scraper adds failures and disconnects at every point;
4 sessions are the run session, the stream session, and two on their way. The
delay is 1 and then at most 2 units, `MaxElapsed` covers it, and `MaxFailures = 2`
reaches the cap; one record distinguishes a complete table from a cut one.
*RouterEntry*: two scrapes overlap in every way; one change of the leases makes a
cache stale. *Server*: with one slot and three claimants everybody waits for
everybody; a request of each kind meets the other at every step; more requests
of the same kind add no new step, and the proofs cover them. *Config*: the edits
allow a good, a broken and a partly broken reload. *Collect*: the tables have
no row, two rows of one name, and four rows, of which one has no name, two have one channel and one has nothing
but its name, with texts that are a number, a duration, a time or none of them, with a comment and without; one change
of the tables during a scrape and one refused command, beside deadlines and a lost
session, which are not bounded. *Exporter*: with two routers and one slot a request waits
for a mutex while another waits for its slot, and two meet on one connection.
*Settings*: a clash needs two names, of which one is the other and a word; the routers have one pair for each word that a field begins with
and a field is left after it, and a pair for each kind that only looks like it. *Process* and
*Bandwidth*: with two Collects and the loop each waits for each; the numbers of tests
saturate at 2, an older result and a current one; two starts are the least that `startOnce` must
keep apart; a request is under way at the end or not.

Deadlock is checked in all runs but those of `Exporter`, `Config`, `Settings` and `Process`:
requests, edits and reloads, variables and processes come to an end.

## Fairness

*Connection*: Go's mutex is handed to whoever waits long enough (strong fairness of
steps that take it). Dials are bounded by `SocketTimeout`, `Run` by the context of the
scrape, which expires under a `RunStream` as well. A router or TCP keepalive ends a
listen that was cancelled; nothing makes it end one that was not, which is why the
mutant without the cancel fails. For `Reconnects`: `Connect` is called by every
scrape, and dials succeed from some time on. *RouterEntry*: the steps of a scrape and a fetch, which is
a `Run`, end; the fetch mutex is handed on. *Exporter*: contexts have deadlines and a handler
that can run does; a dial ends by its timeout and a call by its context (weak fairness of
`CallEnds`); `sync.Mutex` hands itself to a goroutine that has waited for more than a
millisecond (strong fairness of the steps that take it). Nothing is assumed of who gets a
slot, nor of when the collectors of a router are all through.
*Bandwidth*: the registry takes samples and the mutex is handed on, and nothing is assumed
of the tests. *Process*: the main goroutine and the one for signals run when they can, and
the 10 s of a shutdown pass; nothing is assumed of requests and tests.

## The proofs

All proofs are checked by TLAPS for every value of the constants, from the named
assumptions in the modules: the sets of goroutines, sessions, requests, routers
are arbitrary (finite where slots are counted), the capacities and bounds natural
numbers, and the special values outside of the sets.

* `Connection_proofs`, of the backoff: `DelayBounds` (the delay is between the initial delay and the
  maximum in force and never shrinks with more failures, for every configuration,
  negative divisors included) and `BackoffEnds`. They rest on the monotonicity of `\div`.
  Of the connection: `TypeCorrect`; `SessionsSafe`, by the inductive invariant
  `SessionInv`. None of the three properties is inductive alone: that a session does not leak
  when its goroutine publishes it needs that nobody else refers to it
  (`PrivateInv`), hence which locals are set where (`LocalsInv`), who holds the
  mutex (`MutexInv`), and that streams never use the run session (`RolesInv`).
  `StreamsComplete` and `ContractImplemented` rest on `ListenInv` (what is
  received, used and sent, until the cancel); the latter shows that initial states
  map to initial states and each step to a step of the contract or a stutter.
  `StreamSessionsOwned` and `FieldsNotStale` are parts of `SessionInv` under their own names.
  `BackoffRecord`, `DelayGrows` (from `DelayBounds`) and `SessionsDoNotInterfere` are
  the rest.
* `RouterEntry_proofs`: `LeasesFetchedOnce`, because whoever is between the look at
  the cache and the store holds the fetch mutex and found the cache empty, which
  only the holder changes (`FetchInv`); `IdleDisconnected`, because each connection
  that is up and not `left` by a scrape ready too late has a scrape that will still visit it (`HeldInv`), as some other
  scrape may have closed and another reopened it meanwhile. `LeasesCurrent`, for scrapes that
  wait for their collectors and a cache that is not persistent, by `LeaseInv`: what is in
  the cache, or on its way there, is as new as the moment the entry was taken up, and the
  last to leave finds the cache cleared behind it.
* `Server_proofs`: `SlotsAccounted`: each step that takes a slot adds exactly one
  holder and each that gives one back removes exactly one (cardinalities of
  finite sets). `AnswersComplete`, by `AnswerInv` and `ScrapedInv`: a goroutine that has not ended
  belongs to a handler in its setup or to one that timed out there.
  `ConnectionsReturned`: every connection that is up has a request that cares for it
  (`CaredInv`). `ContractImplemented`: initial states map to initial states, and each step
  to one of the contract or a stutter; the interesting ones are the answer, which needs
  that all goroutines have registered what they found, and `Append`, which meets
  either a handler that is still open or one that timed out.
* `Exporter_proofs`: `ExporterIsServer` (each step is a step of `Server` or a stutter), so that
  all theorems about `Server` are theorems of the exporter. `CutOffsExplained` by an
  invariant that whoever is `sound` still has its session, or another request has
  finalized the router; `MutexAlwaysReturned`.
* `Process_proofs`, of the bandwidth collector: `ResultsNeverGoBack`: there is one loop,
  `startOnce`, whose number is the last and above the one stored. `SamplesInOrder`: who sends
  holds the mutex, and no result is stored or copied meanwhile. Of the process:
  `ProcessKeepsTask` (each step of the process is one of `Bandwidth` or leaves it alone), so
  that both hold there too; `SuccessAlwaysGraceful` by `EndInv`: the context is only done once
  the signal was handled, the shutdown begins only then, and nothing is cut while the
  process runs.
* `Config_proofs`. None of the three properties is inductive: they say how an entry looks, and
  an override or a reload needs to know where it came from. `ConfigInv` says that the cache is
  always the one of `source.main` with the environment applied or not, and the system settings
  those of `source.sys` with the layers applied (`Fits`, `SystemFits`), and that the flags come
  last (`PhaseInv`). `Fits` gives each entry as the strongest of its sources, whose map its
  labels are in, and of each map what the routers wrote into it and, below that, its
  section. It is one lemma for each way to make a cache: `BuildFits`, `OverrideFits` (also when
  the environment was applied before, which `LoadEnvOnly` and then `initConfig` do). That
  `FirstOf` is the nested choice the code makes are `FirstOfTwo` and `FirstOfThree`; that the
  random order of the routers has a last writer of a key, whichever it is, is `LastOfRanks`.
  `EntriesAlwaysResolve`, `SystemAlwaysResolves`, `LabelsAlwaysReach` and `TypeCorrect` follow
  from it. Assumed of the files and the environments is only what yaml and viper give
  (`ConfigAssumption`): values of the right kind, or none.
* `Settings_proofs`: `TypeCorrect` and `SemaphoreAlwaysUsable` by `OriginInv` (what a setting
  was taken from names it and was accepted). `ClashesAllKnown` is about two ways to cut the name of a
  variable: if `X o f = Y o g` and X is shorter, there is a word sequence w between them with
  `Y = X o w` and `f = w o g` (`MiddlePart`); and of the fields of the tables only those that
  begin with the words of `SharedWords` have another field left after them
  (`RouterFieldInside`, `RouterFieldInsideSystem`, `SystemFieldEnds`). The names of the routers are
  any sequences of any words. `Width` hides `Len` from the provers, which would otherwise
  expand every name of the tables.

* `Collect_proofs`. What the 37 collectors have in common is one lemma about their programs,
  `AllShapes`: no `jump` leads past the end, rows are kept only for a step that uses them, a
  step that uses what was kept is come to from no other step than the one that kept it, and each metric name
  is sent by one step of one collector (`PlaceOf`). A metric that cannot be built has its name
  from nobody else, but for `kid_control`, whose metrics another collector names and cannot build.
  From it follow `TypeCorrect` (with `KeptInv`: what is kept is a table of this scrape, and only
  until the next step) and what any step can send (`WhatIsSent`). `SeriesAlwaysUnique`: whatever is in
  the answer under a name of a collector is marked in its builder (`OwnedInv`), and no other
  collector has that name. `RowsAlwaysReach`: the converse, what is marked is in the answer
  (`ShownInv`), by the first place at which the series is sent (`FirstOf`, the least pair of two
  numbers). `ReadingsAlwaysReal` by `RealInv`: what a step that asks emits is `Value` of a row of the reply that `Has` the column
  (`ReadingSampled`), and no step sends what tells of a row without a reply, but for the states of the connection and of
  the links, which are of no row of a table (`NoRowMetrics`). `CountsAlwaysWhole` by three invariants: a command that failed is behind
  its collector (`FailInv`), a step that uses kept rows is only come to when the step before was
  answered (`PairInv`), and the steps that have sent counts are over (`WholeInv`), so that
  nothing fails under a count afterwards.

Only model-checked: liveness (`StreamReturns`, `Reconnects`, `ScrapeEnds`, `Answered`,
`WaitEnds`, `CollectEnds`, `SignalEndsProcess`, `ListenFailureEnds`), which is beyond the
prover. Every invariant and every other action property of the runs is proved. Proved and in no
run: `CompleteOrError`, `BackoffConsistent`, `GatherComplete`, and `TypeOK` of `RouterEntry`, `Config`,
`Process` (`ProcessTypeOK`) and `Collect`.

Two of the proofs corrected the model. `ClashesKnown` was false as it stood: it had no
`MKTXP_X_NO_SSL_CERTIFICATE` and `MKTXP_X_SSL_CHECK_HOSTNAME`, which are also settings of routers
X_NO_SSL and X_SSL_CHECK, because the instance had no such routers; it has them now. `Config`
had taken the text of a number for a string and had said nothing of what files hold.

## Where the code disagrees with its documentation

Each is refuted by the configuration named with it.

* `IsReady` is true of a router whose connection is down (`ReadyMeansConnected`,
  `MCRouterEntryReady.cfg`): absent remote entries count as connected. `/probe` of an
  unreachable router answers 200.
* `/metrics` that times out in its setup can leave a connection up (`NoConnectionLeft`,
  `MCExporterLeft.cfg`): a goroutine appends its router after the deferred loop.
  `OnlySetupTimeoutsLeak` says that this is the only way.
* `MKTXP_{ROUTERNAME}_CUSTOM_LABELS` of one router is written into the map that
  routers without labels of their own share (`LabelsStayWithTheRouter`, `MCConfigLabels.cfg`).
* `yes` and invalid texts in a boolean of the environment are false
  (`BooleanTextsHonoured`, `MCConfigTexts.cfg`).
* The RunStream that returns first closes the session another of the same scrape shares
  (`WinnerServesAll`, `MCConnectionShared.cfg`), which then ends with an error: one of `routes`
  and `connection stats` may be missing from an answer for no fault of the router.
* `MKTXP_HOME_IPV6_ROUTE` is a setting of router HOME and of router HOME_IPV6
  (`OverridesAreSpecific`, `MCSettingsRoute.cfg`); `ClashesKnown` says for which names this
  happens.
* `ssl_ca_file`, `dhcpv6`, `dhcpv6_lease`, `address_list` and `ipv6_address_list` cannot be
  overridden by the environment (`EnvironmentOverridesFiles`, `MCSettingsField.cfg`).
* The credentials file wins over the environment (`EnvironmentOverridesCredentials`,
  `MCSettingsLogin.cfg`).
* A number of the environment that is none is 0; as `max_scrape_duration` it lets every
  collector end at once (`InvalidDurationIgnored`, `MCSettingsDuration.cfg`).
* `interface_rate` is 0 whatever the rate of the link (`RateIsShown`, `MCCollectRate.cfg`): its entry in the table of
  metrics says that it is not a number, and `ratesMbps` is never looked at.

Nothing in the documentation says otherwise, but it may surprise: BGP and routing rows share one series
(`bgp.go:44`), and IPsec, LTE and kid-control metrics are never built (`ipsec.go:110`), because of labels that do not tell the
rows apart or do not match their names (`NamedByKeys`, `Mislabelled`).

## What is not modelled

* `WirelessType` and its detection: no caller; `IsDone` only resets the field.
* The commands `print`, `show` and `info` and the root page: sequential output. `SetDHCPEntry` and
  `SetCAPsMANEntry` have no caller either; `Children` and `RemoteRouters` stand for their
  result. `Reload` is in the model and called by tests only, `RegisterTestRouterEntry` and
  `RegisterTestSystemConfig` as well.
* How a session is dialed (TLS, login): one step that succeeds or fails.
* The text of labels, and of values more than whether it is a number, a duration, a time or a boolean. Names of `custom_labels` that clash with those of a
  metric, and metrics whose key in the code is never in the normalised record, are
  therefore out of sight. Empty texts in the environment, which are as absent for the
  system and as present for a router, are too.
* `utils` and `version`: pure functions over strings with unit tests of their own, of which `Collect` has what
  `ParseMktUptime` makes of a text that is no duration.
* Time: durations of scrapes and of HTTP headers are reduced to whether a deadline has passed.
* RunStream in `Exporter`: its session and its end are in `Connection`.

## Plan

Done: the modules above, in the order Connection, RouterEntry, Server, Config,
Collectors, Bandwidth, Process, ScrapeContract, Exporter, Settings, and proofs of every safety
property the runs check. Next:

1. The agreement of a router's `SeriesUnique` with those of the other routers of the scrape:
   their series differ by the labels of the router, which `Collect` leaves out.
2. `Exporter` with the calls of `Collect` in the place of its one call for each router.
