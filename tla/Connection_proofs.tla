--------------------------- MODULE Connection_proofs ---------------------------
(***************************************************************************)
(* Proofs about Connection, for every set of goroutines and sessions,      *)
(* every backoff configuration and every bound.                            *)
(***************************************************************************)
EXTENDS Connection, TLAPS

-----------------------------------------------------------------------------
(* The backoff delay, for every configuration a file can hold              *)

LEMMA DivMonotone ==
  ASSUME NEW d \in Nat, d > 0, NEW x \in Nat, NEW y \in Nat, x <= y
  PROVE  x \div d <= y \div d
<1> DEFINE p == x \div d
           q == y \div d
<1>1. p \in Int /\ q \in Int
  OBVIOUS
<1>2. d * p <= x
  OBVIOUS
<1>3. y < d * (q + 1)
  OBVIOUS
<1>4. SUFFICES ASSUME p >= q + 1 PROVE FALSE
  BY <1>1
<1> HIDE DEF p, q
<1>5. d * p >= d * (q + 1)
  BY <1>1, <1>4
<1> QED
  BY <1>1, <1>2, <1>3, <1>5

LEMMA EffectiveType ==
  ASSUME NEW b \in BackoffConfig
  PROVE  /\ Effective(b) \in BackoffConfig
         /\ Effective(b).divisor > 0
BY DEF Effective, BackoffConfig, DefaultBackoff

\* The growth never goes down with more failures.
LEMMA GrownDelayMonotone ==
  ASSUME NEW b \in BackoffConfig, b.divisor > 0,
         NEW m \in Nat, NEW n \in Nat, m <= n
  PROVE  /\ GrownDelay(b, m) \in Nat
         /\ GrownDelay(b, m) <= GrownDelay(b, n)
<1> DEFINE i == b.initial
           d == b.divisor
<1>1. i \in Nat /\ d \in Nat /\ d > 0
  BY DEF BackoffConfig
<1> HIDE DEF i, d
<1>2. i * m \in Nat /\ i * n \in Nat /\ i * m <= i * n
  BY <1>1
<1>3. (i * m) \div d <= (i * n) \div d
  BY <1>1, <1>2, DivMonotone
<1>4. (i * m) \div d \in Nat /\ (i * n) \div d \in Nat
  BY <1>1, <1>2
<1>5. i + (i * m) \div d <= i + (i * n) \div d /\ i + (i * m) \div d \in Nat
  BY <1>1, <1>3, <1>4
<1> QED
  BY <1>5 DEF GrownDelay, i, d

\* With any configuration the delay is a duration no longer than the maximum
\* in force, no shorter than the initial delay if the maximum allows it, and
\* it never shrinks as failures accumulate (connectDelay).
THEOREM DelayBounds ==
  ASSUME NEW b \in BackoffConfig, NEW m \in Nat, NEW n \in Nat, m <= n
  PROVE  /\ ConnectDelay(b, m) \in 0..Effective(b).max
         /\ Effective(b).initial <= Effective(b).max => Effective(b).initial <= ConnectDelay(b, m)
         /\ ConnectDelay(b, m) <= ConnectDelay(b, n)
<1> DEFINE e == Effective(b)
<1>1. e \in BackoffConfig /\ e.divisor > 0
  BY EffectiveType
<1>2. e.max \in Nat /\ e.initial \in Nat
  BY <1>1 DEF BackoffConfig
<1>3. GrownDelay(e, m) \in Nat /\ GrownDelay(e, n) \in Nat
  BY <1>1, GrownDelayMonotone
<1>4. GrownDelay(e, m) <= GrownDelay(e, n)
  BY <1>1, GrownDelayMonotone
<1>5. GrownDelay(e, m) >= GrownDelay(e, 0) /\ GrownDelay(e, 0) >= e.initial
  <2>1. GrownDelay(e, 0) >= e.initial
    <3>1. (e.initial * 0) \div e.divisor = 0
      BY <1>1, <1>2 DEF BackoffConfig
    <3> QED
      BY <1>2, <3>1 DEF GrownDelay
  <2>2. GrownDelay(e, 0) <= GrownDelay(e, m)
    BY <1>1, GrownDelayMonotone
  <2>3. GrownDelay(e, 0) \in Nat
    BY <1>1, GrownDelayMonotone
  <2> QED
    BY <2>1, <2>2, <2>3, <1>3
<1> HIDE DEF e
<1>6. /\ (IF GrownDelay(e, m) > e.max THEN e.max ELSE GrownDelay(e, m)) \in 0..e.max
      /\ e.initial <= e.max =>
           e.initial <= (IF GrownDelay(e, m) > e.max THEN e.max ELSE GrownDelay(e, m))
      /\ (IF GrownDelay(e, m) > e.max THEN e.max ELSE GrownDelay(e, m))
           <= (IF GrownDelay(e, n) > e.max THEN e.max ELSE GrownDelay(e, n))
  <2>1. GrownDelay(e, 0) \in Nat
    BY <1>1, GrownDelayMonotone
  <2> QED
    BY <1>2, <1>3, <1>4, <1>5, <2>1
<1> QED
  BY <1>6 DEF e, ConnectDelay

\* The wait is finite: once the maximum has elapsed Connect dials again.
THEOREM BackoffEnds ==
  ASSUME NEW b \in BackoffConfig, NEW n \in Nat, NEW elapsed \in Nat,
         elapsed >= Effective(b).max
  PROVE  ~Waiting(b, n, elapsed)
<1>1. ConnectDelay(b, n) \in 0..Effective(b).max
  BY DelayBounds
<1>2. Effective(b).max \in Nat
  BY EffectiveType DEF BackoffConfig
<1> QED
  BY <1>1, <1>2 DEF Waiting

-----------------------------------------------------------------------------
\* Where a goroutine is inside RunStream and has acquired a session.
Holding == Streaming \cup {"lost"}

-----------------------------------------------------------------------------
(* The inductive invariant about the sessions.  None of the three session  *)
(* properties is inductive alone: that a leaked session cannot arise needs *)
(* that fresh sessions are private, which needs to know who refers to what *)
(* at every location.                                                      *)

\* The mutex is held across a network wait exactly by Connect and by Run.
MutexInv ==
  \A g \in Goroutines : pc[g] \in {"connecting", "running"} <=> mu = g

\* Which locals are set where.
LocalsInv ==
  \A g \in Goroutines :
    /\ held[g] # NoSession <=> pc[g] \in Holding \cup {"running"}
    /\ dialed[g] # NoSession <=> pc[g] \in {"publish", "lost"}
    /\ pc[g] = "running" => held[g] = runClient
    /\ pc[g] = "connecting" => runClient = NoSession

\* A dialed session is open and known only to the goroutine that dialed it.
PrivateInv ==
  \A g \in Goroutines : dialed[g] # NoSession =>
    /\ dialed[g] \in open
    /\ dialed[g] # runClient
    /\ dialed[g] # streamClient
    /\ \A h \in Goroutines : held[h] # dialed[g] /\ (h # g => dialed[h] # dialed[g])

\* No RunStream uses the run session.
RolesInv ==
  \A g \in Goroutines : pc[g] \in Holding => held[g] # runClient

SessionInv ==
  /\ MutexInv
  /\ LocalsInv
  /\ PrivateInv
  /\ RolesInv
  /\ CurrentSessionsOpen
  /\ SessionsAccountedFor
  /\ StreamSessionOwned

(* The inductive invariant about a RunStream call and its listen. *)
ListenInv ==
  \A g \in Goroutines :
    /\ chan[g] # "none" => pc[g] \in {"streaming", "failing", "dropping"}
    /\ pc[g] = "streaming" => chan[g] # "none" /\ outcome[g] = "none"
    /\ outcome[g] # "none" <=> pc[g] \in {"failing", "dropping"}
    /\ outcome[g] # "none" => chan[g] # "open"
    /\ cancelled[g] => ctxDone[g] /\ pc[g] \in {"streaming", "failing", "dropping"}
    /\ taken[g] <= sent[g]
    /\ ~cancelled[g] => used[g] = taken[g]
    /\ chan[g] = "none" => sent[g] = 0 /\ used[g] = 0
    /\ outcome[g] = "done" => chan[g] = "done" /\ used[g] = sent[g] /\ ~cancelled[g]

-----------------------------------------------------------------------------
\* The variables always hold values of their types.
THEOREM TypeCorrect == Spec => []TypeOK
<1> USE ConstantsAssumption
<1>1. Init => TypeOK
  BY DEF Init, TypeOK, Locations, Never
<1>2. TypeOK /\ [Next]_vars => TypeOK'
  <2> SUFFICES ASSUME TypeOK, [Next]_vars PROVE TypeOK'
    OBVIOUS
  <2> USE DEF TypeOK, Locations, Outcomes, Errors, Never, shared, stream, GoTo
  <2>1. CASE Tick
    BY <2>1 DEF Tick
  <2>2. ASSUME NEW g \in Goroutines, Step(g) PROVE TypeOK'
    <3>1. CASE StartConnect(g) BY <3>1 DEF StartConnect
    <3>2. CASE ConnectDialed(g) BY <3>2 DEF ConnectDialed
    <3>3. CASE ConnectFailed(g) BY <3>3 DEF ConnectFailed, RecordFailure
    <3>4. CASE Disconnect(g) BY <3>4 DEF Disconnect
    <3>5. CASE StartRun(g) BY <3>5 DEF StartRun
    <3>6. CASE RunReply(g) BY <3>6 DEF RunReply, FailRunLocked, RecordFailure
    <3>7. CASE AcquireShared(g) BY <3>7 DEF AcquireShared
    <3>8. CASE AcquireByDialing(g) BY <3>8 DEF AcquireByDialing
    <3>9. CASE StreamDialed(g) BY <3>9 DEF StreamDialed
    <3>10. CASE StreamDialFails(g) BY <3>10 DEF StreamDialFails
    <3>11. CASE RecordDialFailure(g) BY <3>11 DEF RecordDialFailure, RecordFailure
    <3>12. CASE Publish(g) BY <3>12 DEF Publish
    <3>13. CASE CloseLoser(g) BY <3>13 DEF CloseLoser
    <3>14. CASE Listen(g) BY <3>14 DEF Listen
    <3>15. CASE ListenFails(g) BY <3>15 DEF ListenFails
    <3>16. CASE RouterSends(g) BY <3>16 DEF RouterSends
    <3>17. CASE RouterEnds(g) BY <3>17 DEF RouterEnds
    <3>18. CASE ReaderStops(g) BY <3>18 DEF ReaderStops
    <3>19. CASE Expire(g) BY <3>19 DEF Expire
    <3>20. CASE NoticeExpiry(g) BY <3>20 DEF NoticeExpiry
    <3>21. CASE Receive(g) BY <3>21 DEF Receive
    <3>22. CASE ChannelClosed(g) BY <3>22 DEF ChannelClosed, StreamResult
    <3>23. CASE FailStream(g) BY <3>23 DEF FailStream, RecordFailure
    <3>24. CASE DropStream(g) BY <3>24 DEF DropStream, EndCall
    <3> QED
      BY <2>2, <3>1, <3>2, <3>3, <3>4, <3>5, <3>6, <3>7, <3>8, <3>9, <3>10, <3>11, <3>12,
         <3>13, <3>14, <3>15, <3>16, <3>17, <3>18, <3>19, <3>20, <3>21, <3>22, <3>23, <3>24
         DEF Step
  <2>3. CASE UNCHANGED vars
    BY <2>3 DEF vars
  <2> QED
    BY <2>1, <2>2, <2>3 DEF Next
<1> QED
  BY <1>1, <1>2, PTL DEF Spec

-----------------------------------------------------------------------------
LEMMA SessionInvInit == Init => SessionInv
BY ConstantsAssumption
   DEF Init, SessionInv, MutexInv, LocalsInv, PrivateInv, RolesInv, CurrentSessionsOpen,
       SessionsAccountedFor, StreamSessionOwned, Holding, Streaming

LEMMA SessionInvStep == TypeOK /\ SessionInv /\ [Next]_vars => SessionInv'
<1> SUFFICES ASSUME TypeOK, SessionInv, [Next]_vars PROVE SessionInv'
  OBVIOUS
<1> USE ConstantsAssumption
    DEF TypeOK, SessionInv, MutexInv, LocalsInv, PrivateInv, RolesInv, CurrentSessionsOpen,
        SessionsAccountedFor, StreamSessionOwned, Holding, Streaming, GoTo, shared, stream,
        MutexFree
<1>1. CASE Tick
  BY <1>1 DEF Tick
<1>2. ASSUME NEW g \in Goroutines, Step(g) PROVE SessionInv'
  <2>1. CASE StartConnect(g) BY <2>1 DEF StartConnect
  <2>2. CASE ConnectDialed(g)
    <3>1. PICK s \in Sessions : Unreferenced(s) /\ runClient' = s /\ open' = open \cup {s}
      BY <2>2 DEF ConnectDialed
    <3> USE <2>2, <3>1 DEF ConnectDialed, Unreferenced
    <3>2. MutexInv' OBVIOUS
    <3>3. LocalsInv' OBVIOUS
    <3>4. PrivateInv' OBVIOUS
    <3>5. RolesInv' OBVIOUS
    <3>6. CurrentSessionsOpen' OBVIOUS
    <3>7. SessionsAccountedFor' OBVIOUS
    <3>8. StreamSessionOwned' OBVIOUS
    <3> QED BY <3>2, <3>3, <3>4, <3>5, <3>6, <3>7, <3>8
  <2>3. CASE ConnectFailed(g) BY <2>3 DEF ConnectFailed
  <2>4. CASE Disconnect(g) BY <2>4 DEF Disconnect
  <2>5. CASE StartRun(g) BY <2>5 DEF StartRun
  <2>6. CASE RunReply(g) BY <2>6 DEF RunReply, FailRunLocked
  <2>7. CASE AcquireShared(g) BY <2>7 DEF AcquireShared
  <2>8. CASE AcquireByDialing(g) BY <2>8 DEF AcquireByDialing
  <2>9. CASE StreamDialed(g) BY <2>9 DEF StreamDialed, Unreferenced
  <2>10. CASE StreamDialFails(g) BY <2>10 DEF StreamDialFails
  <2>11. CASE RecordDialFailure(g) BY <2>11 DEF RecordDialFailure
  <2>12. CASE Publish(g) BY <2>12 DEF Publish
  <2>13. CASE CloseLoser(g) BY <2>13 DEF CloseLoser
  <2>14. CASE Listen(g) BY <2>14 DEF Listen
  <2>15. CASE ListenFails(g) BY <2>15 DEF ListenFails
  <2>16. CASE RouterSends(g) BY <2>16 DEF RouterSends
  <2>17. CASE RouterEnds(g) BY <2>17 DEF RouterEnds
  <2>18. CASE ReaderStops(g) BY <2>18 DEF ReaderStops
  <2>19. CASE Expire(g) BY <2>19 DEF Expire
  <2>20. CASE NoticeExpiry(g) BY <2>20 DEF NoticeExpiry
  <2>21. CASE Receive(g) BY <2>21 DEF Receive
  <2>22. CASE ChannelClosed(g) BY <2>22 DEF ChannelClosed
  <2>23. CASE FailStream(g) BY <2>23 DEF FailStream
  <2>24. CASE DropStream(g) BY <2>24 DEF DropStream, EndCall
  <2> QED
    BY <1>2, <2>1, <2>2, <2>3, <2>4, <2>5, <2>6, <2>7, <2>8, <2>9, <2>10, <2>11, <2>12, <2>13, <2>14, <2>15, <2>16, <2>17, <2>18, <2>19, <2>20, <2>21, <2>22, <2>23, <2>24
       DEF Step
<1>3. CASE UNCHANGED vars
  BY <1>3 DEF vars
<1> QED
  BY <1>1, <1>2, <1>3 DEF Next

\* No session is leaked, every stream session has an owner, and the current
\* sessions are open and distinct, in every reachable state.
THEOREM SessionsSafe == Spec => [](SessionsAccountedFor /\ StreamSessionOwned /\ CurrentSessionsOpen)
<1>1. Spec => []SessionInv
  BY TypeCorrect, SessionInvInit, SessionInvStep, PTL DEF Spec
<1>2. SessionInv => SessionsAccountedFor /\ StreamSessionOwned /\ CurrentSessionsOpen
  BY DEF SessionInv
<1> QED
  BY <1>1, <1>2, PTL

\* The shared stream session always has a call that will close it.
THEOREM StreamSessionsOwned == Spec => []StreamSessionOwned
BY SessionsSafe, PTL

\* No session is used after its close by whoever looks at the fields next.
THEOREM FieldsNotStale == Spec => []CurrentSessionsOpen
BY SessionsSafe, PTL

-----------------------------------------------------------------------------
LEMMA ListenInvInit == Init => ListenInv
BY DEF Init, ListenInv

LEMMA ListenInvStep == TypeOK /\ ListenInv /\ [Next]_vars => ListenInv'
<1> SUFFICES ASSUME TypeOK, ListenInv, [Next]_vars PROVE ListenInv'
  OBVIOUS
<1> USE ConstantsAssumption
    DEF TypeOK, ListenInv, GoTo, shared, stream, Locations, Outcomes, Errors
<1>1. CASE Tick
  BY <1>1 DEF Tick
<1>2. ASSUME NEW g \in Goroutines, Step(g) PROVE ListenInv'
  <2>1. CASE StartConnect(g) BY <2>1 DEF StartConnect
  <2>2. CASE ConnectDialed(g) BY <2>2 DEF ConnectDialed, Unreferenced
  <2>3. CASE ConnectFailed(g) BY <2>3 DEF ConnectFailed
  <2>4. CASE Disconnect(g) BY <2>4 DEF Disconnect
  <2>5. CASE StartRun(g) BY <2>5 DEF StartRun
  <2>6. CASE RunReply(g) BY <2>6 DEF RunReply, FailRunLocked
  <2>7. CASE AcquireShared(g) BY <2>7 DEF AcquireShared
  <2>8. CASE AcquireByDialing(g) BY <2>8 DEF AcquireByDialing
  <2>9. CASE StreamDialed(g) BY <2>9 DEF StreamDialed, Unreferenced
  <2>10. CASE StreamDialFails(g) BY <2>10 DEF StreamDialFails
  <2>11. CASE RecordDialFailure(g) BY <2>11 DEF RecordDialFailure
  <2>12. CASE Publish(g) BY <2>12 DEF Publish
  <2>13. CASE CloseLoser(g) BY <2>13 DEF CloseLoser
  <2>14. CASE Listen(g) BY <2>14 DEF Listen
  <2>15. CASE ListenFails(g) BY <2>15 DEF ListenFails
  <2>16. CASE RouterSends(g) BY <2>16 DEF RouterSends
  <2>17. CASE RouterEnds(g) BY <2>17 DEF RouterEnds
  <2>18. CASE ReaderStops(g) BY <2>18 DEF ReaderStops
  <2>19. CASE Expire(g) BY <2>19 DEF Expire
  <2>20. CASE NoticeExpiry(g) BY <2>20 DEF NoticeExpiry
  <2>21. CASE Receive(g) BY <2>21 DEF Receive
  <2>22. CASE ChannelClosed(g) BY <2>22 DEF ChannelClosed, StreamResult, IsConnectionError
  <2>23. CASE FailStream(g) BY <2>23 DEF FailStream
  <2>24. CASE DropStream(g) BY <2>24 DEF DropStream, EndCall
  <2> QED
    BY <1>2, <2>1, <2>2, <2>3, <2>4, <2>5, <2>6, <2>7, <2>8, <2>9, <2>10, <2>11, <2>12,
       <2>13, <2>14, <2>15, <2>16, <2>17, <2>18, <2>19, <2>20, <2>21, <2>22, <2>23, <2>24
       DEF Step
<1>3. CASE UNCHANGED vars
  BY <1>3 DEF vars
<1> QED
  BY <1>1, <1>2, <1>3 DEF Next

\* A RunStream that returns nil has given its callback the complete table.
THEOREM StreamsComplete == Spec => []CompleteOrError
<1>1. Spec => []ListenInv
  BY TypeCorrect, ListenInvInit, ListenInvStep, PTL DEF Spec
<1>2. ListenInv => CompleteOrError
  BY DEF ListenInv, CompleteOrError
<1> QED
  BY <1>1, <1>2, PTL

-----------------------------------------------------------------------------
\* What any step does to the failure record: it forgets it, records one more
\* failure, or lets time pass.
LEMMA FailureRecordStep ==
  ASSUME TypeOK, [Next]_vars
  PROVE  \/ failureCount' = 0 /\ lastFailure' = Never
         \/ RecordFailure
         \/ failureCount' = failureCount /\ (lastFailure' = Never <=> lastFailure = Never)
<1> USE ConstantsAssumption DEF TypeOK, Never, shared
<1>1. CASE Tick
  BY <1>1 DEF Tick
<1>2. ASSUME NEW g \in Goroutines, Step(g)
      PROVE  \/ failureCount' = 0 /\ lastFailure' = Never
             \/ RecordFailure
             \/ failureCount' = failureCount /\ (lastFailure' = Never <=> lastFailure = Never)
  BY <1>2 DEF Step, StartConnect, ConnectDialed, ConnectFailed, Disconnect, StartRun, RunReply, AcquireShared, AcquireByDialing, StreamDialed,
           StreamDialFails, RecordDialFailure, Publish, CloseLoser, Listen, ListenFails, RouterSends, RouterEnds, ReaderStops,
           Expire, NoticeExpiry, Receive, ChannelClosed, FailStream, DropStream,
           FailRunLocked
<1>3. CASE UNCHANGED vars
  BY <1>3 DEF vars
<1> QED
  BY <1>1, <1>2, <1>3 DEF Next

\* A connection has a time of last failure exactly when it counts failures.
THEOREM BackoffRecord == Spec => []BackoffConsistent
<1>1. Init => BackoffConsistent
  BY DEF Init, BackoffConsistent
<1>2. TypeOK /\ BackoffConsistent /\ [Next]_vars => BackoffConsistent'
  BY FailureRecordStep, ConstantsAssumption
     DEF TypeOK, BackoffConsistent, RecordFailure, Never
<1> QED
  BY TypeCorrect, <1>1, <1>2, PTL DEF Spec

\* While failures accumulate the delay never gets shorter.
THEOREM DelayGrows == Spec => DelayNeverShrinks
<1> DEFINE Grows == failureCount' # 0 =>
             ConnectDelay(Config, failureCount') >= ConnectDelay(Config, failureCount)
<1>1. TypeOK /\ TypeOK' /\ [Next]_vars => [Grows]_vars
  <2> SUFFICES ASSUME TypeOK, TypeOK', [Next]_vars, failureCount' # 0
               PROVE  ConnectDelay(Config, failureCount') >= ConnectDelay(Config, failureCount)
    OBVIOUS
  <2>1. failureCount' >= failureCount
    BY FailureRecordStep, ConstantsAssumption DEF TypeOK, RecordFailure
  <2>2. failureCount \in Nat /\ failureCount' \in Nat /\ Config \in BackoffConfig
    BY ConstantsAssumption DEF TypeOK
  <2>3. /\ ConnectDelay(Config, failureCount) <= ConnectDelay(Config, failureCount')
        /\ ConnectDelay(Config, failureCount) \in 0..Effective(Config).max
    BY <2>1, <2>2, DelayBounds
  <2>4. ConnectDelay(Config, failureCount') \in 0..Effective(Config).max
    BY <2>2, DelayBounds
  <2>5. Effective(Config).max \in Nat
    BY <2>2, EffectiveType DEF BackoffConfig
  <2> QED
    BY <2>3, <2>4, <2>5
<1> QED
  BY TypeCorrect, <1>1, PTL DEF Spec, DelayNeverShrinks

-----------------------------------------------------------------------------
\* A Run that ends leaves the stream session alone, and nothing a RunStream
\* does touches the run session.
THEOREM SessionsDoNotInterfere == Spec => SessionsIndependent
<1> DEFINE Independent ==
      \A g \in Goroutines : pc'[g] # pc[g] =>
        /\ pc[g] = "running" =>
             streamClient' = streamClient /\ (streamClient \in open => streamClient \in open')
        /\ pc[g] \in Streaming \cup {"dialing", "dialFailed", "publish", "lost"} =>
             runClient' = runClient /\ (runClient \in open => runClient \in open')
<1>1. TypeOK /\ SessionInv /\ [Next]_vars => [Independent]_vars
  <2> SUFFICES ASSUME TypeOK, SessionInv, [Next]_vars, NEW h \in Goroutines, pc'[h] # pc[h]
      PROVE  /\ pc[h] = "running" =>
                  streamClient' = streamClient /\ (streamClient \in open => streamClient \in open')
             /\ pc[h] \in Streaming \cup {"dialing", "dialFailed", "publish", "lost"} =>
                  runClient' = runClient /\ (runClient \in open => runClient \in open')
    OBVIOUS
  <2> USE ConstantsAssumption
      DEF TypeOK, SessionInv, LocalsInv, PrivateInv, RolesInv, CurrentSessionsOpen, Holding,
          Streaming, GoTo, shared, stream
  <2>0. PICK g \in Goroutines : Step(g)
    BY DEF Next, Tick, vars
  <2>1. CASE StartConnect(g) BY <2>1 DEF StartConnect
  <2>2. CASE ConnectDialed(g) BY <2>2 DEF ConnectDialed
  <2>3. CASE ConnectFailed(g) BY <2>3 DEF ConnectFailed
  <2>4. CASE Disconnect(g) BY <2>4 DEF Disconnect
  <2>5. CASE StartRun(g) BY <2>5 DEF StartRun
  <2>6. CASE RunReply(g) BY <2>6 DEF RunReply, FailRunLocked
  <2>7. CASE AcquireShared(g) BY <2>7 DEF AcquireShared
  <2>8. CASE AcquireByDialing(g) BY <2>8 DEF AcquireByDialing
  <2>9. CASE StreamDialed(g) BY <2>9 DEF StreamDialed
  <2>10. CASE StreamDialFails(g) BY <2>10 DEF StreamDialFails
  <2>11. CASE RecordDialFailure(g) BY <2>11 DEF RecordDialFailure
  <2>12. CASE Publish(g) BY <2>12 DEF Publish
  <2>13. CASE CloseLoser(g) BY <2>13 DEF CloseLoser
  <2>14. CASE Listen(g) BY <2>14 DEF Listen
  <2>15. CASE ListenFails(g) BY <2>15 DEF ListenFails
  <2>16. CASE RouterSends(g) BY <2>16 DEF RouterSends
  <2>17. CASE RouterEnds(g) BY <2>17 DEF RouterEnds
  <2>18. CASE ReaderStops(g) BY <2>18 DEF ReaderStops
  <2>19. CASE Expire(g) BY <2>19 DEF Expire
  <2>20. CASE NoticeExpiry(g) BY <2>20 DEF NoticeExpiry
  <2>21. CASE Receive(g) BY <2>21 DEF Receive
  <2>22. CASE ChannelClosed(g) BY <2>22 DEF ChannelClosed
  <2>23. CASE FailStream(g) BY <2>23 DEF FailStream
  <2>24. CASE DropStream(g) BY <2>24 DEF DropStream, EndCall
  <2> QED
    BY <2>0, <2>1, <2>2, <2>3, <2>4, <2>5, <2>6, <2>7, <2>8, <2>9, <2>10, <2>11, <2>12,
       <2>13, <2>14, <2>15, <2>16, <2>17, <2>18, <2>19, <2>20, <2>21, <2>22, <2>23, <2>24
       DEF Step
<1>2. Spec => []SessionInv
  BY TypeCorrect, SessionInvInit, SessionInvStep, PTL DEF Spec
<1> QED
  BY TypeCorrect, <1>1, <1>2, PTL DEF Spec, SessionsIndependent

-----------------------------------------------------------------------------
(* Refinement of StreamContract. *)

\* A step that changes no outcome and moves g between locations of the same
\* phase is invisible in the phases.
LEMMA PhaseKept ==
  ASSUME TypeOK, NEW g \in Goroutines, NEW from, NEW to, GoTo(g, from, to),
         UNCHANGED outcome,
         from \in {"idle", "connecting", "running"} <=> to \in {"idle", "connecting", "running"}
  PROVE  UNCHANGED StreamPhase
BY DEF TypeOK, GoTo, StreamPhase, PhaseAt

\* A step that moves g and sets its outcome only changes the phase of g.
LEMMA PhaseSet ==
  ASSUME TypeOK, NEW g \in Goroutines, NEW to \in Locations, NEW o \in {"none"} \cup Outcomes,
         pc' = [pc EXCEPT ![g] = to],
         outcome' = [outcome EXCEPT ![g] = o]
  PROVE  StreamPhase' = [StreamPhase EXCEPT ![g] = PhaseAt(to, o)]
<1>1. \A h \in Goroutines : StreamPhase'[h] = IF h = g THEN PhaseAt(to, o) ELSE StreamPhase[h]
  BY DEF TypeOK, GoTo, StreamPhase
<1> QED
  BY <1>1 DEF StreamPhase

\* RunStream keeps its contract with each caller, whatever the other calls do.
THEOREM ContractImplemented == Spec => StreamContractHolds
<1> USE DEF Contract!Init, Contract!vars
<1>1. Init => Contract!Init
  BY DEF Init, StreamPhase, PhaseAt
<1>2. TypeOK /\ ListenInv /\ [Next]_vars => [Contract!Next]_(Contract!vars)
  <2> SUFFICES ASSUME TypeOK, ListenInv, [Next]_vars PROVE [Contract!Next]_(Contract!vars)
    OBVIOUS
  <2>1. CASE UNCHANGED vars \/ Tick
    BY <2>1 DEF Tick, vars, stream, StreamPhase
  <2>2. ASSUME NEW g \in Goroutines, Step(g) PROVE [Contract!Next]_(Contract!vars)
    <3> USE DEF stream, shared
    <3>0. /\ pc[g] \in Locations
          /\ pc \in [Goroutines -> Locations]
          /\ outcome \in [Goroutines -> {"none"} \cup Outcomes]
      BY DEF TypeOK
    <3>1. CASE StartConnect(g) \/ ConnectDialed(g) \/ ConnectFailed(g) \/ StartRun(g) \/ RunReply(g)
      BY <3>1, PhaseKept DEF StartConnect, ConnectDialed, ConnectFailed, StartRun, RunReply
    <3>2. CASE Disconnect(g) \/ RouterEnds(g) \/ ReaderStops(g) \/ Expire(g)
      BY <3>2 DEF Disconnect, RouterEnds, ReaderStops, Expire, StreamPhase
    <3>3. CASE StreamDialed(g) \/ StreamDialFails(g) \/ Publish(g) \/ CloseLoser(g) \/ FailStream(g)
      BY <3>3, PhaseKept DEF StreamDialed, StreamDialFails, Publish, CloseLoser, FailStream
    <3>4. CASE Listen(g)
      BY <3>4, PhaseKept DEF Listen
    <3>5. CASE AcquireShared(g) \/ AcquireByDialing(g)
      <4>1. PICK to \in {"listen", "dialing"} : GoTo(g, "idle", to)
        BY <3>5 DEF AcquireShared, AcquireByDialing
      <4>2. outcome' = [outcome EXCEPT ![g] = "none"] /\ StreamPhase[g] = "out"
        BY <3>0, <3>5, <4>1 DEF AcquireShared, AcquireByDialing, ListenInv, GoTo, StreamPhase, PhaseAt
      <4>3. StreamPhase' = [StreamPhase EXCEPT ![g] = "in"]
        <5>1. PhaseAt(to, "none") = "in"
          BY <4>1 DEF PhaseAt, Errors
        <5>2. pc' = [pc EXCEPT ![g] = to] /\ to \in Locations
          BY <4>1 DEF GoTo, Locations
        <5>3. StreamPhase' = [StreamPhase EXCEPT ![g] = PhaseAt(to, "none")]
          BY <4>2, <5>2, PhaseSet
        <5> QED
          BY <5>1, <5>3
      <4> QED
        BY <3>5, <4>2, <4>3 DEF AcquireShared, AcquireByDialing, Contract!Next, Contract!Call
    <3>6. CASE RecordDialFailure(g)
      <4>1. outcome' = [outcome EXCEPT ![g] = "none"] /\ StreamPhase[g] = "in"
        BY <3>0, <3>6 DEF RecordDialFailure, ListenInv, GoTo, StreamPhase, PhaseAt, Errors
      <4>2. StreamPhase' = [StreamPhase EXCEPT ![g] = "out"]
        <5>1. PhaseAt("idle", "none") = "out"
          BY DEF PhaseAt
        <5>2. pc' = [pc EXCEPT ![g] = "idle"]
          BY <3>6 DEF RecordDialFailure, GoTo
        <5>3. StreamPhase' = [StreamPhase EXCEPT ![g] = PhaseAt("idle", "none")]
          BY <4>1, <5>2, PhaseSet DEF Locations
        <5> QED
          BY <5>1, <5>3
      <4>3. /\ sent[g] = 0 /\ used[g] = 0 /\ ~cancelled[g]
            /\ sent' = [sent EXCEPT ![g] = 0]
            /\ used' = [used EXCEPT ![g] = 0]
            /\ cancelled' = [cancelled EXCEPT ![g] = FALSE]
        BY <3>6 DEF RecordDialFailure, ListenInv, GoTo, TypeOK
      <4> QED
        BY <4>1, <4>2, <4>3 DEF Contract!Next, Contract!Return
    <3>7. CASE RouterSends(g)
      <4>1. StreamPhase[g] = "in" /\ UNCHANGED StreamPhase
        BY <3>7 DEF RouterSends, ListenInv, StreamPhase, PhaseAt, Errors
      <4> QED
        BY <3>7, <4>1 DEF RouterSends, Contract!Next, Contract!Send
    <3>8. CASE NoticeExpiry(g)
      <4>1. StreamPhase[g] = "in" /\ UNCHANGED StreamPhase
        BY <3>8 DEF NoticeExpiry, ListenInv, StreamPhase, PhaseAt, Errors
      <4> QED
        BY <3>8, <4>1 DEF NoticeExpiry, Contract!Next, Contract!Stop
    <3>9. CASE Receive(g)
      <4>1. StreamPhase[g] = "in" /\ UNCHANGED StreamPhase
        BY <3>9 DEF Receive, ListenInv, StreamPhase, PhaseAt, Errors
      <4>2. CASE cancelled[g]
        BY <3>9, <4>1, <4>2 DEF Receive
      <4>3. CASE ~cancelled[g]
        <5>1. used[g] < sent[g]
          BY <3>9, <4>3 DEF Receive, ListenInv
        <5> QED
          BY <3>9, <4>1, <4>3, <5>1 DEF Receive, Contract!Next, Contract!Use
      <4> QED
        BY <4>2, <4>3
    <3>10. CASE ListenFails(g)
      <4>1. PICK err \in Errors : outcome' = [outcome EXCEPT ![g] = err]
        BY <3>10 DEF ListenFails
      <4>2. PICK to \in {"failing", "dropping"} : GoTo(g, "listen", to)
        BY <3>10 DEF ListenFails
      <4>3. StreamPhase[g] = "in"
        BY <4>2 DEF ListenInv, GoTo, StreamPhase, PhaseAt, Errors
      <4>4. StreamPhase' = [StreamPhase EXCEPT ![g] = "failed"]
        BY <4>1, <4>2, PhaseSet DEF GoTo, PhaseAt, Errors, Outcomes, Locations
      <4> QED
        BY <3>10, <4>3, <4>4 DEF ListenFails, Contract!Next, Contract!Fail
    <3>11. CASE ChannelClosed(g)
      <4>1. PICK to \in {"failing", "dropping"} : GoTo(g, "streaming", to)
        BY <3>11 DEF ChannelClosed
      <4>2. StreamPhase[g] = "in"
        BY <4>1 DEF ListenInv, GoTo, StreamPhase, PhaseAt, Errors
      <4>3. StreamPhase' = [StreamPhase EXCEPT ![g] = PhaseAt(to, StreamResult(g))]
        <5>1. StreamResult(g) \in {"none"} \cup Outcomes /\ to \in Locations
          BY <3>11 DEF ChannelClosed, StreamResult, Outcomes, Errors, Locations
        <5> QED
          BY <3>11, <4>1, <5>1, PhaseSet DEF ChannelClosed, GoTo
      <4>4. CASE StreamResult(g) = "done"
        <5>1. used[g] = sent[g] /\ ~cancelled[g]
          BY <3>11, <4>4 DEF ChannelClosed, StreamResult, ListenInv
        <5>2. StreamPhase' = [StreamPhase EXCEPT ![g] = "succeeded"]
          BY <4>3, <4>4 DEF PhaseAt
        <5> QED
          BY <3>11, <4>2, <5>1, <5>2 DEF ChannelClosed, Contract!Next, Contract!Succeed
      <4>5. CASE StreamResult(g) # "done"
        <5>1. StreamResult(g) \in Errors
          BY <3>11, <4>5 DEF ChannelClosed, StreamResult, Outcomes, Errors
        <5>2. StreamPhase' = [StreamPhase EXCEPT ![g] = "failed"]
          BY <4>3, <5>1 DEF PhaseAt, Errors
        <5> QED
          BY <3>11, <4>2, <5>2 DEF ChannelClosed, Contract!Next, Contract!Fail
      <4> QED
        BY <4>4, <4>5
    <3>12. CASE DropStream(g)
      <4>1. StreamPhase[g] # "out"
        BY <3>12 DEF DropStream, GoTo, StreamPhase, PhaseAt
      <4>2. outcome[g] # "none"
        BY <3>12 DEF DropStream, GoTo, ListenInv
      <4>3. StreamPhase[g] # "in"
        BY <3>0, <3>12, <4>2 DEF DropStream, GoTo, StreamPhase, PhaseAt, Outcomes, Errors
      <4>4. StreamPhase' = [StreamPhase EXCEPT ![g] = "out"]
        <5>1. PhaseAt("idle", "none") = "out"
          BY DEF PhaseAt
        <5>2. pc' = [pc EXCEPT ![g] = "idle"] /\ outcome' = [outcome EXCEPT ![g] = "none"]
          BY <3>12 DEF DropStream, GoTo, EndCall
        <5>3. StreamPhase' = [StreamPhase EXCEPT ![g] = PhaseAt("idle", "none")]
          BY <5>2, PhaseSet DEF Locations
        <5> QED
          BY <5>1, <5>3
      <4> QED
        BY <3>12, <4>1, <4>3, <4>4 DEF DropStream, EndCall, Contract!Next, Contract!Return
    <3> QED
      BY <2>2, <3>1, <3>2, <3>3, <3>4, <3>5, <3>6, <3>7, <3>8, <3>9, <3>10, <3>11, <3>12 DEF Step
  <2> QED
    BY <2>1, <2>2 DEF Next
<1>3. Spec => []ListenInv
  BY TypeCorrect, ListenInvInit, ListenInvStep, PTL DEF Spec
<1> QED
  BY TypeCorrect, <1>1, <1>2, <1>3, PTL DEF Spec, StreamContractHolds, Contract!Spec
=============================================================================
