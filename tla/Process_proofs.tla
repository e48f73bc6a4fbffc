---------------------------- MODULE Process_proofs ----------------------------
(***************************************************************************)
(* Proofs about Bandwidth, for every number of starts, routers and tests,  *)
(* and about Process, which it is a part of, for every set of requests.    *)
(***************************************************************************)
EXTENDS Process, TLAPS

\* The number of the next test.
LEMMA NextTest ==
  ASSUME NEW max \in Nat, NEW n \in 0..max
  PROVE  LET next == IF n < max THEN n + 1 ELSE n
         IN  next \in 0..max /\ n <= next
OBVIOUS

LEMMA AllSamples == Samples \in 0..Samples
BY DEF Samples

LEMMA Countdown ==
  ASSUME NEW n \in 0..5, n > 0
  PROVE  n - 1 \in 0..5
OBVIOUS

LEMMA BeginTestFacts ==
  ASSUME TypeOK, NEW s \in Starters, NEW from, BeginTest(s, from)
  PROVE  /\ tests' \in 0..MaxTests /\ tests <= tests'
         /\ loop[s] = from /\ loop' = [loop EXCEPT ![s] = FirstStage]
         /\ number' = [number EXCEPT ![s] = tests']
BY NextTest, BandwidthAssumption DEF BeginTest, LoopGoesTo, TypeOK

LEMMA BeginTestTypes ==
  ASSUME TypeOK, NEW s \in Starters, NEW from, BeginTest(s, from)
  PROVE  /\ tests' \in 0..MaxTests
         /\ loop' \in [Starters -> LoopStates]
         /\ number' \in [Starters -> 0..MaxTests]
<1>1. FirstStage \in LoopStates
  BY DEF FirstStage, LoopStates, Stages
<1>2. loop \in [Starters -> LoopStates] /\ number \in [Starters -> 0..MaxTests]
  BY DEF TypeOK
<1> QED
  BY <1>1, <1>2, BeginTestFacts

\* A Collect that sends has a result.
CopyInv == \A r \in Routers : collect[r] = "sending" => result[r] \in 0..MaxTests

LEMMA TypeInit == Init => TypeOK /\ CopyInv
<1> USE BandwidthAssumption
<1>1. Init => TypeOK
  <2> SUFFICES ASSUME Init PROVE TypeOK
    OBVIOUS
  <2>1. internetResults \in (0..MaxTests) \cup {NoResult} /\ result \in [Routers -> (0..MaxTests) \cup {NoResult}]
    BY DEF Init
  <2>2. number \in [Starters -> 0..MaxTests] /\ tests \in 0..MaxTests /\ shown \in 0..MaxTests
    BY DEF Init
  <2>3. unsent \in [Routers -> 0..Samples]
    BY DEF Init, Samples
  <2>4. loop \in [Starters -> LoopStates] /\ collect \in [Routers -> {"idle", "locking", "sending"}]
    BY DEF Init, LoopStates
  <2> QED
    BY <2>1, <2>2, <2>3, <2>4 DEF Init, TypeOK
<1>2. Init => CopyInv
  BY DEF Init, CopyInv
<1> QED
  BY <1>1, <1>2

LEMMA TypeStep == TypeOK /\ CopyInv /\ [Next]_bandwidthVars => TypeOK'
<1> USE BandwidthAssumption
<1> SUFFICES ASSUME TypeOK, CopyInv, [Next]_bandwidthVars PROVE TypeOK'
  OBVIOUS
<1> USE DEF TypeOK, LoopStates, Stages, Samples, FirstStage, Following, LoopGoesTo,
            loopVars, collectVars
<1>1. ASSUME NEW s \in Starters, LoopStep(s) PROVE TypeOK'
  <2>1. CASE Start(s)
    <3>1. BeginTest(s, "off") BY <2>1 DEF Start
    <3>2. /\ tests' \in 0..MaxTests
          /\ loop' \in [Starters -> LoopStates]
          /\ number' \in [Starters -> 0..MaxTests]
      BY <3>1, BeginTestTypes
    <3> QED
      BY <2>1, <3>2 DEF Start
  <2>2. CASE StartAgain(s) BY <2>2 DEF StartAgain
  <2>3. CASE StageSucceeds(s) BY <2>3 DEF StageSucceeds
  <2>4. CASE StageFails(s) BY <2>4 DEF StageFails
  <2>5. CASE Store(s) BY <2>5 DEF Store
  <2>6. CASE IntervalElapses(s)
    <3>1. BeginTest(s, "waiting") BY <2>6 DEF IntervalElapses
    <3>2. /\ tests' \in 0..MaxTests
          /\ loop' \in [Starters -> LoopStates]
          /\ number' \in [Starters -> 0..MaxTests]
      BY <3>1, BeginTestTypes
    <3> QED
      BY <2>6, <3>2 DEF IntervalElapses
  <2>7. CASE Stop(s) BY <2>7 DEF Stop
  <2> QED
    BY <1>1, <2>1, <2>2, <2>3, <2>4, <2>5, <2>6, <2>7 DEF LoopStep
<1>2. ASSUME NEW r \in Routers, CollectStep(r) PROVE TypeOK'
  <2>1. CASE CallCollect(r) BY <2>1 DEF CallCollect
  <2>2. CASE Copy(r)
    <3>1. unsent' \in [Routers -> 0..Samples]
      <4>1. unsent' = [unsent EXCEPT ![r] = Samples]
        BY <2>2 DEF Copy
      <4>2. Samples \in 0..Samples
        BY AllSamples
      <4> HIDE DEF Samples
      <4> QED
        BY <4>1, <4>2
    <3>2. result' \in [Routers -> (0..MaxTests) \cup {NoResult}]
      <4> DEFINE Results == (0..MaxTests) \cup {NoResult}
      <4>1. internetResults \in Results /\ result \in [Routers -> Results]
        OBVIOUS
      <4>2. result' = [result EXCEPT ![r] = internetResults]
        BY <2>2 DEF Copy
      <4> HIDE DEF Results
      <4>3. result' \in [Routers -> Results]
        BY <4>1, <4>2
      <4> QED
        BY <4>3 DEF Results
    <3>3. collect' \in [Routers -> {"idle", "locking", "sending"}]
      BY <2>2 DEF Copy
    <3> QED
      BY <2>2, <3>1, <3>2, <3>3 DEF Copy
  <2>3. CASE NothingToShow(r) BY <2>3 DEF NothingToShow
  <2>4. CASE Send(r)
    <3>1. unsent[r] - 1 \in 0..5
      BY <2>4, Countdown DEF Send
    <3>2. unsent' \in [Routers -> 0..Samples]
      BY <2>4, <3>1 DEF Send
    <3>3. shown' \in 0..MaxTests
      BY <2>4 DEF Send, CopyInv
    <3> QED
      BY <2>4, <3>2, <3>3 DEF Send
  <2>5. CASE CollectReturns(r) BY <2>5 DEF CollectReturns
  <2> QED
    BY <1>2, <2>1, <2>2, <2>3, <2>4, <2>5 DEF CollectStep
<1>3. CASE Cancel BY <1>3 DEF Cancel
<1>4. CASE UNCHANGED bandwidthVars BY <1>4 DEF bandwidthVars
<1> QED
  BY <1>1, <1>2, <1>3, <1>4 DEF Next, BandwidthStep

LEMMA CopyStep == TypeOK /\ CopyInv /\ [Next]_bandwidthVars => CopyInv'
<1> SUFFICES ASSUME TypeOK, CopyInv, [Next]_bandwidthVars, NEW q \in Routers, collect'[q] = "sending"
    PROVE  result'[q] \in 0..MaxTests
  BY DEF CopyInv
<1> USE DEF TypeOK, CopyInv, collectVars, loopVars
<1>1. ASSUME NEW s \in Starters, LoopStep(s) PROVE UNCHANGED <<collect, result>>
  BY <1>1 DEF LoopStep, Start, StartAgain, StageSucceeds, StageFails, Store, IntervalElapses, Stop
<1>2. ASSUME NEW r \in Routers, CollectStep(r) PROVE result'[q] \in 0..MaxTests
  BY <1>2 DEF CollectStep, CallCollect, Copy, NothingToShow, Send, CollectReturns
<1>3. CASE Cancel \/ UNCHANGED bandwidthVars
  BY <1>3 DEF Cancel, bandwidthVars
<1> QED
  BY <1>1, <1>2, <1>3 DEF Next, BandwidthStep

\* The variables always hold values of their types.
THEOREM TypeCorrect == Spec => []TypeOK
BY TypeInit, TypeStep, CopyStep, PTL DEF Spec

-----------------------------------------------------------------------------
(* Only the first start runs a loop, so that the test a loop is at is the  *)
(* last that began; whoever sends holds the mutex, and what it sends is    *)
(* what is stored.                                                         *)
Runs(s) == loop[s] \notin {"off", "not needed"}

OneLoop ==
  /\ \A s \in Starters : Runs(s) => startOnce /\ number[s] = tests
  /\ \A s, t \in Starters : Runs(s) /\ Runs(t) => s = t

StoredLast == internetResults # NoResult => internetResults <= tests

SendsStored ==
  \A r \in Routers : collect[r] = "sending" => mu = r /\ result[r] = internetResults

ShownStored == IF internetResults = NoResult THEN shown = 0 ELSE shown <= internetResults

OrderInv == OneLoop /\ StoredLast /\ SendsStored /\ ShownStored

LEMMA OneLoopStep == TypeOK /\ OneLoop /\ [Next]_bandwidthVars => OneLoop'
<1> SUFFICES ASSUME TypeOK, OneLoop, [Next]_bandwidthVars PROVE OneLoop'
  OBVIOUS
<1> USE DEF OneLoop, Runs, Stages, LoopGoesTo, loopVars, collectVars
<1>1. ASSUME NEW s \in Starters, LoopStep(s) PROVE OneLoop'
  <2>0. loop \in [Starters -> LoopStates] /\ number \in [Starters -> 0..MaxTests]
    BY DEF TypeOK
  <2>1. CASE Start(s)
    <3>1. BeginTest(s, "off") BY <2>1 DEF Start
    <3> QED
      BY <2>0, <2>1, <3>1, BeginTestFacts DEF Start, FirstStage
  <2>2. CASE StartAgain(s) BY <2>0, <2>2 DEF StartAgain
  <2>3. CASE StageSucceeds(s)
    <3>1. Following(loop[s]) \notin {"off", "not needed"}
      BY <2>3 DEF StageSucceeds, Following
    <3>2. Runs(s) /\ \A t \in Starters : Runs(t)' => Runs(t)
      BY <2>0, <2>3 DEF StageSucceeds
    <3> QED
      BY <2>0, <2>3, <3>1, <3>2 DEF StageSucceeds
  <2>4. CASE StageFails(s) BY <2>0, <2>4 DEF StageFails
  <2>5. CASE Store(s) BY <2>0, <2>5 DEF Store
  <2>6. CASE IntervalElapses(s)
    <3>1. BeginTest(s, "waiting") BY <2>6 DEF IntervalElapses
    <3>2. /\ loop[s] = "waiting" /\ loop' = [loop EXCEPT ![s] = FirstStage]
          /\ number' = [number EXCEPT ![s] = tests']
      BY <3>1, BeginTestFacts
    <3>3. Runs(s) /\ \A t \in Starters : Runs(t)' => t = s
      BY <2>0, <3>2
    <3> QED
      BY <2>0, <2>6, <3>2, <3>3 DEF IntervalElapses
  <2>7. CASE Stop(s) BY <2>0, <2>7 DEF Stop
  <2> QED
    BY <1>1, <2>1, <2>2, <2>3, <2>4, <2>5, <2>6, <2>7 DEF LoopStep
<1>2. ASSUME NEW r \in Routers, CollectStep(r) PROVE UNCHANGED loopVars
  BY <1>2 DEF CollectStep, CallCollect, Copy, NothingToShow, Send, CollectReturns
<1>3. ASSUME Cancel \/ UNCHANGED bandwidthVars PROVE UNCHANGED loopVars
  BY <1>3 DEF Cancel, bandwidthVars
<1>4. ASSUME UNCHANGED loopVars PROVE OneLoop'
  <2>1. loop' = loop /\ number' = number /\ tests' = tests /\ startOnce' = startOnce
    BY <1>4
  <2> QED
    BY <2>1
<1> QED
  BY <1>1, <1>2, <1>3, <1>4 DEF Next, BandwidthStep

\* What a store replaces is not newer.
LEMMA StoreAdvances ==
  ASSUME TypeOK, OneLoop, StoredLast, [Next]_bandwidthVars
  PROVE  \/ internetResults' = internetResults /\ tests <= tests'
         \/ mu = NoOwner /\ internetResults' = tests /\ tests' = tests
<1> USE DEF loopVars, collectVars
<1>0. tests <= tests
  BY NextTest, BandwidthAssumption DEF TypeOK
<1>1. ASSUME NEW s \in Starters, LoopStep(s)
      PROVE  \/ internetResults' = internetResults /\ tests <= tests'
             \/ mu = NoOwner /\ internetResults' = tests /\ tests' = tests
  <2>1. CASE Start(s)
    <3>1. BeginTest(s, "off") BY <2>1 DEF Start
    <3> QED
      BY <2>1, <3>1, BeginTestFacts DEF Start
  <2>2. CASE IntervalElapses(s)
    <3>1. BeginTest(s, "waiting") BY <2>2 DEF IntervalElapses
    <3> QED
      BY <2>2, <3>1, BeginTestFacts DEF IntervalElapses
  <2>3. CASE Store(s)
    BY <2>3 DEF Store, OneLoop, Runs, LoopGoesTo
  <2>4. CASE StartAgain(s) \/ StageSucceeds(s) \/ StageFails(s) \/ Stop(s)
    BY <1>0, <2>4 DEF StartAgain, StageSucceeds, StageFails, Stop
  <2> QED
    BY <1>1, <2>1, <2>2, <2>3, <2>4 DEF LoopStep
<1>2. ASSUME NEW r \in Routers, CollectStep(r) PROVE UNCHANGED loopVars
  BY <1>2 DEF CollectStep, CallCollect, Copy, NothingToShow, Send, CollectReturns
<1>3. CASE Cancel \/ UNCHANGED bandwidthVars
  BY <1>0, <1>3 DEF Cancel, bandwidthVars
<1> QED
  BY <1>0, <1>1, <1>2, <1>3 DEF Next, BandwidthStep

LEMMA OrderInvStep == TypeOK /\ CopyInv /\ OrderInv /\ [Next]_bandwidthVars => OrderInv'
<1> SUFFICES ASSUME TypeOK, CopyInv, OrderInv, [Next]_bandwidthVars PROVE OrderInv'
  OBVIOUS
<1> USE BandwidthAssumption
<1>1. OneLoop'
  BY OneLoopStep DEF OrderInv
<1>2. StoredLast'
  <2>1. tests \in 0..MaxTests /\ tests' \in 0..MaxTests /\ tests <= tests
    BY TypeStep, NextTest DEF TypeOK
  <2>2. internetResults # NoResult => internetResults \in 0..MaxTests
    BY DEF TypeOK
  <2> QED
    BY <2>1, <2>2, StoreAdvances DEF OrderInv, StoredLast
<1>3. SendsStored'
  <2>1. ASSUME NEW r \in Routers, CollectStep(r) PROVE SendsStored'
    BY <2>1 DEF OrderInv, SendsStored, CollectStep, CallCollect, Copy, NothingToShow, Send,
      CollectReturns, TypeOK, loopVars
  <2>2. ASSUME NEW s \in Starters, LoopStep(s) PROVE SendsStored'
    <3>1. UNCHANGED <<mu, collect, result>>
      BY <2>2 DEF LoopStep, Start, StartAgain, StageSucceeds, StageFails, Store,
        IntervalElapses, Stop, collectVars
    <3>2. internetResults' = internetResults \/ mu = NoOwner
      BY StoreAdvances DEF OrderInv
    <3> QED
      BY <3>1, <3>2 DEF OrderInv, SendsStored
  <2>3. CASE Cancel \/ UNCHANGED bandwidthVars
    BY <2>3 DEF Cancel, bandwidthVars, loopVars, collectVars, OrderInv, SendsStored
  <2> QED
    BY <2>1, <2>2, <2>3 DEF Next, BandwidthStep
<1>4. ShownStored'
  <2>1. ASSUME NEW r \in Routers, CollectStep(r) PROVE ShownStored'
    <3>1. CASE Send(r)
      <4>1. result[r] = internetResults /\ internetResults \in 0..MaxTests
        BY <3>1 DEF OrderInv, SendsStored, CopyInv, Send
      <4>2. internetResults <= internetResults
        BY <4>1, NextTest
      <4> QED
        BY <3>1, <4>1, <4>2 DEF OrderInv, ShownStored, Send, loopVars
    <3>2. CASE ~Send(r)
      BY <2>1, <3>2 DEF CollectStep, CallCollect, Copy, NothingToShow, CollectReturns,
        loopVars, OrderInv, ShownStored
    <3> QED
      BY <3>1, <3>2
  <2>2. ASSUME NEW s \in Starters, LoopStep(s) PROVE ShownStored'
    <3>1. shown' = shown
      BY <2>2 DEF LoopStep, Start, StartAgain, StageSucceeds, StageFails, Store,
        IntervalElapses, Stop, collectVars
    <3>2. CASE internetResults' = internetResults
      BY <3>1, <3>2 DEF OrderInv, ShownStored
    <3>3. CASE internetResults' = tests
      <4>1. shown \in 0..MaxTests /\ tests \in 0..MaxTests
        BY DEF TypeOK
      <4>2. internetResults # NoResult => internetResults \in 0..MaxTests
        BY DEF TypeOK
      <4>3. shown <= tests
        BY <4>1, <4>2 DEF OrderInv, ShownStored, StoredLast
      <4> QED
        BY <3>1, <3>3, <4>1, <4>3 DEF ShownStored
    <3> QED
      BY <3>2, <3>3, StoreAdvances DEF OrderInv
  <2>3. CASE Cancel \/ UNCHANGED bandwidthVars
    BY <2>3 DEF Cancel, bandwidthVars, loopVars, collectVars, OrderInv, ShownStored
  <2> QED
    BY <2>1, <2>2, <2>3 DEF Next, BandwidthStep
<1> QED
  BY <1>1, <1>2, <1>3, <1>4 DEF OrderInv

LEMMA OrderInvInit == Init => OrderInv
BY BandwidthAssumption DEF Init, OrderInv, OneLoop, Runs, StoredLast, SendsStored, ShownStored

\* The stored result is never replaced by that of an earlier test.
THEOREM ResultsNeverGoBack == Spec => ResultsAdvance
<1> DEFINE Advance == internetResults # NoResult => internetResults' >= internetResults
<1>1. TypeOK /\ OrderInv /\ [Next]_bandwidthVars => [Advance]_bandwidthVars
  <2> SUFFICES ASSUME TypeOK, OrderInv, [Next]_bandwidthVars, internetResults # NoResult
               PROVE  internetResults' >= internetResults
    OBVIOUS
  <2>1. internetResults \in 0..MaxTests /\ tests \in 0..MaxTests /\ internetResults <= tests
    BY DEF TypeOK, OrderInv, StoredLast
  <2>2. MaxTests \in Nat
    BY BandwidthAssumption
  <2>3. internetResults <= internetResults
    BY <2>1, <2>2, NextTest
  <2> QED
    BY <2>1, <2>2, <2>3, StoreAdvances DEF OrderInv
<1> QED
  BY <1>1, TypeInit, TypeStep, CopyStep, OrderInvInit, OrderInvStep, PTL DEF Spec, ResultsAdvance

\* Samples are shown in the order of the tests, whoever shows them.
THEOREM SamplesInOrder == Spec => []ShownInOrder
<1>1. TypeOK /\ CopyInv /\ OrderInv => ShownInOrder
  <2> SUFFICES ASSUME TypeOK, CopyInv, OrderInv, NEW r \in Routers, collect[r] = "sending"
               PROVE  result[r] >= shown
    BY DEF ShownInOrder
  <2>1. result[r] = internetResults /\ result[r] \in 0..MaxTests /\ internetResults # NoResult
    BY BandwidthAssumption DEF OrderInv, SendsStored, CopyInv
  <2>2. shown <= internetResults /\ shown \in 0..MaxTests
    BY <2>1 DEF OrderInv, ShownStored, TypeOK
  <2> QED
    BY <2>1, <2>2
<1> QED
  BY <1>1, TypeInit, TypeStep, CopyStep, OrderInvInit, OrderInvStep, PTL DEF Spec
-----------------------------------------------------------------------------
(* The process.  A step of it is, for the background task, a step of its   *)
(* own specification or none.                                              *)

LEMMA MainLeavesTask == MainStep => UNCHANGED bandwidthVars
BY DEF MainStep, RegisterCollectors, Notify, Run, ListenError, BeginShutdown, ShutdownReturns,
  ShutdownTimesOut

LEMMA TaskStep == [ProcessNext]_allVars => [Next]_bandwidthVars
<1>1. CASE MainStep BY <1>1, MainLeavesTask
<1>2. CASE Signal \/ SignalKills \/ Bind \/ ListenFails
  BY <1>2 DEF Signal, SignalKills, Bind, ListenFails
<1>3. CASE HandleSignal BY <1>3 DEF HandleSignal, Next
<1>4. ASSUME NEW q \in Requests, Arrive(q) \/ Answer(q) PROVE UNCHANGED bandwidthVars
  BY <1>4 DEF Arrive, Answer
<1>5. CASE Background BY <1>5 DEF Background, Next
<1>6. CASE UNCHANGED allVars BY <1>6 DEF allVars
<1> QED
  BY <1>1, <1>2, <1>3, <1>4, <1>5, <1>6 DEF ProcessNext

\* The process implements the specification of its background task: the start,
\* the requests, the signal and the shutdown change nothing of it but its
\* context, and that only as Cancel does.
THEOREM ProcessKeepsTask == ProcessSpec => Spec
<1>1. ProcessInit => Init BY DEF ProcessInit
<1> QED
  BY <1>1, TaskStep, PTL DEF ProcessSpec, Spec

\* In the process, too, an answer never goes back to an earlier test.
THEOREM ProcessShowsInOrder == ProcessSpec => []ShownInOrder
BY ProcessKeepsTask, SamplesInOrder, PTL

\* In the process, too, a result is never replaced by that of an earlier test.
THEOREM ProcessResultsAdvance == ProcessSpec => ResultsAdvance
BY ProcessKeepsTask, ResultsNeverGoBack, PTL

-----------------------------------------------------------------------------
(* Its own variables *)

ProcessTypes ==
  /\ main \in {"starting", "registered", "notified", "waiting", "shutting", "exited"}
  /\ exit \in {"none", "ok", "error", "killed"}
  /\ signal \in {"none", "pending", "handled"}
  /\ listener \in {"off", "binding", "listening", "failed", "closed"}
  /\ request \in [Requests -> {"none", "active", "answered", "cut"}]

LEMMA ExitTypes ==
  ASSUME ProcessTypes, NEW from, NEW how \in {"none", "ok", "error", "killed"}, Exit(from, how)
  PROVE  /\ main' = "exited" /\ exit' = how
         /\ request' \in [Requests -> {"none", "active", "answered", "cut"}]
BY DEF Exit, MainGoes, ProcessTypes

LEMMA ProcessTypesStep == ProcessTypes /\ [ProcessNext]_allVars => ProcessTypes'
<1> SUFFICES ASSUME ProcessTypes, [ProcessNext]_allVars PROVE ProcessTypes'
  OBVIOUS
<1> USE DEF ProcessTypes
<1>1. CASE RegisterCollectors \/ Notify \/ Run \/ BeginShutdown
  BY <1>1 DEF RegisterCollectors, Notify, Run, BeginShutdown, MainGoes
<1>2. CASE ListenError BY <1>2, ExitTypes DEF ListenError
<1>3. CASE ShutdownReturns BY <1>3, ExitTypes DEF ShutdownReturns
<1>4. CASE ShutdownTimesOut BY <1>4, ExitTypes DEF ShutdownTimesOut
<1>5. CASE SignalKills BY <1>5, ExitTypes DEF SignalKills
<1>6. CASE Signal \/ HandleSignal \/ Bind \/ ListenFails
  BY <1>6 DEF Signal, HandleSignal, Bind, ListenFails
<1>7. ASSUME NEW q \in Requests, Arrive(q) \/ Answer(q) PROVE ProcessTypes'
  BY <1>7 DEF Arrive, Answer
<1>8. CASE Background BY <1>8 DEF Background, processVars
<1>9. CASE UNCHANGED allVars BY <1>9 DEF allVars, processVars
<1> QED
  BY <1>1, <1>2, <1>3, <1>4, <1>5, <1>6, <1>7, <1>8, <1>9 DEF ProcessNext, MainStep

\* The variables of the process and of its background task have their types.
THEOREM ProcessTypeCorrect == ProcessSpec => []ProcessTypeOK
<1>1. ProcessInit => ProcessTypes
  BY DEF ProcessInit, ProcessTypes
<1>2. ProcessSpec => []TypeOK
  BY ProcessKeepsTask, TypeCorrect, PTL
<1>3. TypeOK /\ ProcessTypes => ProcessTypeOK
  BY DEF ProcessTypes, ProcessTypeOK
<1> QED
  BY <1>1, <1>2, <1>3, ProcessTypesStep, PTL DEF ProcessSpec

-----------------------------------------------------------------------------
(* How the process ends *)

\* The context is the signal's doing, and the shutdown is the context's.  No
\* client is cut before the end, and the end that is a success cuts none.
EndInv ==
  /\ ctxDone => signal = "handled"
  /\ main = "shutting" => ctxDone
  /\ Running => exit = "none" /\ \A q \in Requests : request[q] # "cut"
  /\ exit = "ok" => ctxDone /\ \A q \in Requests : request[q] # "cut"

LEMMA TaskKeepsContext == BandwidthStep => ctxDone' = ctxDone
<1>1. ASSUME NEW s \in Starters, LoopStep(s) PROVE ctxDone' = ctxDone
  BY <1>1 DEF LoopStep, Start, StartAgain, StageSucceeds, StageFails, Store, IntervalElapses, Stop
<1>2. ASSUME NEW r \in Routers, CollectStep(r) PROVE ctxDone' = ctxDone
  BY <1>2 DEF CollectStep, CallCollect, Copy, NothingToShow, Send, CollectReturns
<1> QED
  BY <1>1, <1>2 DEF BandwidthStep

LEMMA EndInvStep == ProcessTypes /\ EndInv /\ [ProcessNext]_allVars => EndInv'
<1> SUFFICES ASSUME ProcessTypes, EndInv, [ProcessNext]_allVars PROVE EndInv'
  OBVIOUS
<1> USE DEF ProcessTypes, EndInv, Running
<1>1. CASE MainStep
  <2>1. ctxDone' = ctxDone
    BY <1>1, MainLeavesTask DEF bandwidthVars
  <2>2. CASE RegisterCollectors \/ Notify \/ Run \/ BeginShutdown
    BY <2>1, <2>2 DEF RegisterCollectors, Notify, Run, BeginShutdown, MainGoes
  <2>3. CASE ListenError \/ ShutdownTimesOut
    BY <2>1, <2>3 DEF ListenError, ShutdownTimesOut, Exit, MainGoes
  <2>4. CASE ShutdownReturns
    BY <2>1, <2>4 DEF ShutdownReturns, Exit, MainGoes
  <2> QED
    BY <1>1, <2>2, <2>3, <2>4 DEF MainStep
<1>2. CASE Signal BY <1>2 DEF Signal, bandwidthVars
<1>3. CASE SignalKills BY <1>3 DEF SignalKills, Exit, MainGoes, bandwidthVars
<1>4. CASE HandleSignal BY <1>4 DEF HandleSignal, Cancel
<1>5. CASE Bind \/ ListenFails BY <1>5 DEF Bind, ListenFails, bandwidthVars
<1>6. ASSUME NEW q \in Requests, Arrive(q) \/ Answer(q) PROVE EndInv'
  BY <1>6 DEF Arrive, Answer, bandwidthVars
<1>7. CASE Background BY <1>7, TaskKeepsContext DEF Background, processVars
<1>8. CASE UNCHANGED allVars BY <1>8 DEF allVars, processVars, bandwidthVars
<1> QED
  BY <1>1, <1>2, <1>3, <1>4, <1>5, <1>6, <1>7, <1>8 DEF ProcessNext

\* A success is never reported to the operator for an end that nobody asked for,
\* nor for one that cut a client off.
THEOREM SuccessAlwaysGraceful == ProcessSpec => []SuccessIsGraceful
<1>1. ProcessInit => ProcessTypes /\ EndInv
  BY DEF ProcessInit, ProcessTypes, EndInv, Init, Running
<1>2. EndInv => SuccessIsGraceful
  BY DEF EndInv, SuccessIsGraceful
<1> QED
  BY <1>1, <1>2, ProcessTypesStep, EndInvStep, PTL DEF ProcessSpec
=============================================================================
