------------------------------- MODULE Bandwidth -------------------------------
(***************************************************************************)
(* collector.BandwidthCollector (internal/collector/bandwidth.go): the one *)
(* collector with a background task.  A loop tests the speed of the        *)
(* internet connection and stores the result; the Collect of every router  *)
(* shows the last one.                                                     *)
(*                                                                         *)
(* The mutex guards the result.  The loop holds it for one assignment,     *)
(* never during a test; Collect holds it to its end, while it sends its    *)
(* samples to the channel of the registry.                                 *)
(***************************************************************************)
EXTENDS Integers

CONSTANTS
  Starters,   \* the calls of StartBackgroundTest; the exporter makes one
  Routers,    \* the routers whose Collect may run together
  NoOwner,    \* c.mu is free
  NoResult,   \* the nil internetResults
  DNSServer,  \* whether bandwidth_test_dns_server is set
  MaxTests    \* bound: the numbers of the tests saturate here

ASSUME BandwidthAssumption ==
  /\ NoOwner \notin Routers
  /\ NoResult \notin Nat
  /\ DNSServer \in BOOLEAN
  /\ MaxTests \in Nat

VARIABLES
  mu,              \* the router whose Collect holds c.mu, or NoOwner
  internetResults, \* the number of the test whose result is stored, or NoResult
  startOnce,       \* the loop has been started
  loop,            \* where the loop of each StartBackgroundTest is
  number,          \* the number of the test each loop is at
  tests,           \* the number of the last test that began
  ctxDone,         \* the context of the exporter is cancelled
  collect,         \* where the Collect of each router is
  result,          \* its local copy of internetResults
  unsent,          \* samples it has still to send
  shown            \* history: the newest test a sample was sent of, 0 if there is none

loopVars == <<internetResults, startOnce, loop, number, tests>>
collectVars == <<collect, result, unsent, shown>>
bandwidthVars == <<mu, loopVars, ctxDone, collectVars>>

\* runSpeedtest; each stage may fail, and the 60 s for all of them may pass in
\* any of them.
Stages == {"dial", "fetch", "ping", "download", "upload"}

Following(stage) ==
  CASE stage = "dial" -> "fetch"
    [] stage = "fetch" -> "ping"
    [] stage = "ping" -> "download"
    [] stage = "download" -> "upload"
    [] stage = "upload" -> "store"

\* The connection to the DNS server comes first, when one is set.
FirstStage == IF DNSServer THEN "dial" ELSE "fetch"

LoopStates == Stages \cup {"off", "not needed", "store", "waiting", "stopped"}

\* Two of internet_bandwidth_<direction>, the latency, two of internet_bandwidth.
Samples == 5

TypeOK ==
  /\ mu \in Routers \cup {NoOwner}
  /\ internetResults \in (0..MaxTests) \cup {NoResult}
  /\ startOnce \in BOOLEAN
  /\ loop \in [Starters -> LoopStates]
  /\ number \in [Starters -> 0..MaxTests]
  /\ tests \in 0..MaxTests
  /\ ctxDone \in BOOLEAN
  /\ collect \in [Routers -> {"idle", "locking", "sending"}]
  /\ result \in [Routers -> (0..MaxTests) \cup {NoResult}]
  /\ unsent \in [Routers -> 0..Samples]
  /\ shown \in 0..MaxTests

Init ==
  /\ mu = NoOwner
  /\ internetResults = NoResult
  /\ startOnce = FALSE
  /\ loop = [s \in Starters |-> "off"]
  /\ number = [s \in Starters |-> 0]
  /\ tests = 0
  /\ ctxDone = FALSE
  /\ collect = [r \in Routers |-> "idle"]
  /\ result = [r \in Routers |-> NoResult]
  /\ unsent = [r \in Routers |-> 0]
  /\ shown = 0

-----------------------------------------------------------------------------
(* StartBackgroundTest and its loop *)

LoopGoesTo(s, from, to) == loop[s] = from /\ loop' = [loop EXCEPT ![s] = to]

BeginTest(s, from) ==
  /\ LoopGoesTo(s, from, FirstStage)
  /\ tests' = IF tests < MaxTests THEN tests + 1 ELSE tests
  /\ number' = [number EXCEPT ![s] = tests']

\* Mutant: every call starts a loop.
StartEveryTime(s) ==
  /\ BeginTest(s, "off")
  /\ startOnce' = TRUE
  /\ UNCHANGED <<mu, internetResults, ctxDone, collectVars>>

Start(s) ==
  /\ ~startOnce
  /\ BeginTest(s, "off")
  /\ startOnce' = TRUE
  /\ UNCHANGED <<mu, internetResults, ctxDone, collectVars>>

StartAgain(s) ==
  /\ startOnce
  /\ LoopGoesTo(s, "off", "not needed")
  /\ UNCHANGED <<mu, internetResults, startOnce, number, tests, ctxDone, collectVars>>

\* Mutant: the mutex is held during the test.
StageLocked(s) ==
  /\ mu \in {NoOwner, s}
  /\ loop[s] \in Stages
  /\ LoopGoesTo(s, loop[s], Following(loop[s]))
  /\ mu' = IF loop[s] = "upload" THEN NoOwner ELSE s
  /\ UNCHANGED <<internetResults, startOnce, number, tests, ctxDone, collectVars>>

StageSucceeds(s) ==
  /\ loop[s] \in Stages
  /\ LoopGoesTo(s, loop[s], Following(loop[s]))
  /\ UNCHANGED <<mu, internetResults, startOnce, number, tests, ctxDone, collectVars>>

\* An unreachable DNS server, an empty server list, an error, or the timeout:
\* the result that is stored stays.
StageFails(s) ==
  /\ loop[s] \in Stages
  /\ LoopGoesTo(s, loop[s], "waiting")
  /\ UNCHANGED <<mu, internetResults, startOnce, number, tests, ctxDone, collectVars>>

Store(s) ==
  /\ mu = NoOwner
  /\ LoopGoesTo(s, "store", "waiting")
  /\ internetResults' = number[s]
  /\ UNCHANGED <<mu, startOnce, number, tests, ctxDone, collectVars>>

\* The interval is over.  Go chooses between the cases of the select that are
\* ready, so that this may still come after the context is done.
IntervalElapses(s) ==
  /\ BeginTest(s, "waiting")
  /\ UNCHANGED <<mu, internetResults, startOnce, ctxDone, collectVars>>

Stop(s) ==
  /\ ctxDone
  /\ LoopGoesTo(s, "waiting", "stopped")
  /\ UNCHANGED <<mu, internetResults, startOnce, number, tests, ctxDone, collectVars>>

LoopStep(s) ==
  \/ Start(s) \/ StartAgain(s)
  \/ StageSucceeds(s) \/ StageFails(s) \/ Store(s)
  \/ IntervalElapses(s) \/ Stop(s)

-----------------------------------------------------------------------------
(* Collect *)

CallCollect(r) ==
  /\ collect[r] = "idle"
  /\ collect' = [collect EXCEPT ![r] = "locking"]
  /\ UNCHANGED <<mu, loopVars, ctxDone, result, unsent, shown>>

\* Mutant: the mutex is held for the copy only.
CopyUnlocked(r) ==
  /\ mu = NoOwner
  /\ internetResults # NoResult
  /\ collect[r] = "locking"
  /\ collect' = [collect EXCEPT ![r] = "sending"]
  /\ result' = [result EXCEPT ![r] = internetResults]
  /\ unsent' = [unsent EXCEPT ![r] = Samples]
  /\ UNCHANGED <<mu, loopVars, ctxDone, shown>>

Copy(r) ==
  /\ mu = NoOwner
  /\ internetResults # NoResult
  /\ collect[r] = "locking"
  /\ collect' = [collect EXCEPT ![r] = "sending"]
  /\ result' = [result EXCEPT ![r] = internetResults]
  /\ unsent' = [unsent EXCEPT ![r] = Samples]
  /\ mu' = r
  /\ UNCHANGED <<loopVars, ctxDone, shown>>

\* No test has succeeded yet: Collect returns without a sample.
NothingToShow(r) ==
  /\ mu = NoOwner
  /\ internetResults = NoResult
  /\ collect[r] = "locking"
  /\ collect' = [collect EXCEPT ![r] = "idle"]
  /\ UNCHANGED <<mu, loopVars, ctxDone, result, unsent, shown>>

\* The registry takes a sample from the channel.
Send(r) ==
  /\ collect[r] = "sending"
  /\ unsent[r] > 0
  /\ unsent' = [unsent EXCEPT ![r] = @ - 1]
  /\ shown' = IF result[r] > shown THEN result[r] ELSE shown
  /\ UNCHANGED <<mu, loopVars, ctxDone, collect, result>>

CollectReturns(r) ==
  /\ collect[r] = "sending"
  /\ unsent[r] = 0
  /\ collect' = [collect EXCEPT ![r] = "idle"]
  /\ result' = [result EXCEPT ![r] = NoResult]
  /\ mu' = NoOwner
  /\ UNCHANGED <<loopVars, ctxDone, unsent, shown>>

CollectStep(r) ==
  CallCollect(r) \/ Copy(r) \/ NothingToShow(r) \/ Send(r) \/ CollectReturns(r)

BandwidthStep == (\E s \in Starters : LoopStep(s)) \/ (\E r \in Routers : CollectStep(r))

-----------------------------------------------------------------------------
\* The exporter cancels the context once (module Process says when).
Cancel ==
  /\ ~ctxDone
  /\ ctxDone' = TRUE
  /\ UNCHANGED <<mu, loopVars, collectVars>>

Next == BandwidthStep \/ Cancel

Spec == Init /\ [][Next]_bandwidthVars

-----------------------------------------------------------------------------
(* Safety *)

\* The stored result is never replaced by that of an earlier test: tests do not
\* overlap, however often the background task is started (startOnce).
ResultsAdvance ==
  [][internetResults # NoResult => internetResults' >= internetResults]_bandwidthVars

\* No sample is older than one that was sent before it, by whichever router's
\* Collect: each of them sends all its samples before another one, or the loop,
\* gets at the result.  The answers of one scrape, gathered by goroutines that
\* run together, then never go back to an earlier test.
ShownInOrder ==
  \A r \in Routers : collect[r] = "sending" => result[r] >= shown

=============================================================================
