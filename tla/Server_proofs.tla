----------------------------- MODULE Server_proofs -----------------------------
(***************************************************************************)
(* Proofs about Server, for every set of requests and routers and every    *)
(* size of the semaphore.                                                  *)
(***************************************************************************)
EXTENDS Server, FiniteSetTheorems, TLAPS

Jobs == Requests \X Routers

\* Only a /metrics request that has arrived has goroutines, and it never waits
\* for a slot itself; the target of a probe is a router.
KindInv ==
  /\ \A q \in Metrics : handler[q] \notin {"waiting", "asking"}
  /\ \A q \in Probes : handler[q] # "setup" /\ Target[q] \in Routers
  /\ \A w \in Jobs : w[1] \in Probes \/ handler[w[1]] = "idle" => worker[w] = "none"

Typed == TypeOK /\ KindInv

\* What each group of steps leaves alone.
LEMMA WorkerFrame ==
  ASSUME NEW w \in Jobs, WorkerStep(w)
  PROVE  /\ UNCHANGED <<recent, expired, handler, reply, collecting, pending>>
         /\ \E to \in WorkerStates : worker' = [worker EXCEPT ![w] = to]
         /\ worker[w] \notin {"none", "done"}
BY DEF WorkerStep, Acquire, GiveUp, Ready, NotReady, Append, Register, Release,
  requestVars, Works, WorkerStates

LEMMA HandlerFrame ==
  ASSUME NEW q \in Requests, HandlerStep(q)
  PROVE  UNCHANGED <<recent, worker>>
BY DEF HandlerStep, SetupDone, SetupTimesOut, ProbeAcquire, ProbeGivesUp, ProbeReady,
  ProbeNotReady, GatherDone, GatherTimesOut, Return

LEMMA TypedStep == Typed /\ [Next]_vars => Typed'
<1> USE ServerAssumption
<1> SUFFICES ASSUME TypeOK, KindInv, [Next]_vars PROVE TypeOK' /\ KindInv'
  BY DEF Typed
<1> USE DEF TypeOK, HandlerStates, WorkerStates, Replies, requestVars, Goes, Works,
            Answers, GiveSlot, TakeSlot, MayConnect
<1>1. ASSUME NEW q \in Requests,
             ArriveMetrics(q) \/ ArriveProbe(q) \/ Deferred(q) \/ Expire(q)
      PROVE  TypeOK' /\ KindInv'
  <2> USE DEF KindInv, Metrics, Probes, Jobs
  <2>1. CASE ArriveMetrics(q) BY <2>1 DEF ArriveMetrics
  <2>2. CASE ArriveProbe(q) BY <2>2 DEF ArriveProbe
  <2>3. CASE Deferred(q) BY <2>3 DEF Deferred
  <2>4. CASE Expire(q) BY <2>4 DEF Expire
  <2> QED
    BY <1>1, <2>1, <2>2, <2>3, <2>4
<1>2. ASSUME NEW q \in Requests, HandlerStep(q) PROVE TypeOK' /\ KindInv'
  <2> USE DEF KindInv, Metrics, Probes, Jobs
  <2>1. CASE SetupDone(q) BY <2>1 DEF SetupDone
  <2>2. CASE SetupTimesOut(q) BY <2>2 DEF SetupTimesOut
  <2>3. CASE ProbeAcquire(q) BY <2>3 DEF ProbeAcquire
  <2>4. CASE ProbeGivesUp(q) BY <2>4 DEF ProbeGivesUp
  <2>5. CASE ProbeReady(q) BY <2>5 DEF ProbeReady
  <2>6. CASE ProbeNotReady(q) BY <2>6 DEF ProbeNotReady
  <2>7. CASE GatherDone(q) BY <2>7 DEF GatherDone
  <2>8. CASE GatherTimesOut(q) BY <2>8 DEF GatherTimesOut
  <2>9. CASE Return(q) BY <2>9 DEF Return
  <2> QED
    BY <1>2, <2>1, <2>2, <2>3, <2>4, <2>5, <2>6, <2>7, <2>8, <2>9 DEF HandlerStep
<1>3. ASSUME NEW q \in Requests, NEW r \in Routers, CollectionEnds(q, r) \/ IsDone(q, r)
      PROVE  TypeOK' /\ KindInv'
  BY <1>3 DEF CollectionEnds, IsDone, KindInv
<1>4. ASSUME NEW w \in Jobs, WorkerStep(w) PROVE TypeOK' /\ KindInv'
  <2>1. w[1] \in Requests /\ w[2] \in Routers
    BY DEF Jobs
  <2>2. TypeOK'
    <3> USE <2>1 DEF Jobs
    <3>1. CASE Acquire(w) BY <3>1 DEF Acquire
    <3>2. CASE GiveUp(w) BY <3>2 DEF GiveUp
    <3>3. CASE Ready(w) BY <3>3 DEF Ready
    <3>4. CASE NotReady(w) BY <3>4 DEF NotReady
    <3>5. CASE Append(w) BY <3>5 DEF Append
    <3>6. CASE Register(w) BY <3>6 DEF Register
    <3>7. CASE Release(w) BY <3>7 DEF Release
    <3> QED
      BY <1>4, <3>1, <3>2, <3>3, <3>4, <3>5, <3>6, <3>7 DEF WorkerStep
  <2>3. KindInv'
    <3>1. UNCHANGED handler /\ worker[w] # "none"
      BY <1>4, WorkerFrame
    <3>2. \A v \in Jobs : v # w => worker'[v] = worker[v]
      BY <1>4, WorkerFrame DEF Jobs
    <3>3. w[1] \notin Probes /\ handler[w[1]] # "idle"
      BY <3>1 DEF KindInv
    <3> QED
      BY <3>1, <3>2, <3>3 DEF KindInv
  <2> QED
    BY <2>2, <2>3
<1>5. ASSUME NEW r \in Routers, LinkDrops(r) PROVE TypeOK' /\ KindInv'
  BY <1>5 DEF LinkDrops, KindInv
<1>6. CASE IntervalPasses
  BY <1>6 DEF IntervalPasses, KindInv
<1>7. CASE UNCHANGED vars
  BY <1>7 DEF vars, KindInv
<1> QED
  BY <1>1, <1>2, <1>3, <1>4, <1>5, <1>6, <1>7 DEF Next, Jobs

LEMMA TypedAlways == Spec => []Typed
<1>1. Init => Typed
  <2> SUFFICES ASSUME Init PROVE TypeOK /\ KindInv
    BY DEF Typed
  <2>1. TypeOK
    <3>1. handler \in [Requests -> HandlerStates] /\ reply \in [Requests -> Replies]
      BY DEF Init, HandlerStates, Replies
    <3>2. worker \in [Requests \X Routers -> WorkerStates]
      BY DEF Init, WorkerStates
    <3>3. /\ scraped \in [Requests -> SUBSET Routers]
          /\ registered \in [Requests -> SUBSET Routers]
          /\ collecting \in [Requests -> SUBSET Routers]
          /\ pending \in [Requests -> SUBSET Routers]
      BY DEF Init
    <3>4. up \in SUBSET Routers /\ semaphore \in Int
      BY DEF Init
    <3>6. recent \in BOOLEAN
      BY Zenon DEF Init
    <3>5. expired \in SUBSET Requests
      BY DEF Init
    <3> QED
      BY <3>1, <3>2, <3>3, <3>4, <3>5, <3>6 DEF TypeOK
  <2>2. KindInv
    BY ServerAssumption DEF Init, KindInv, Metrics, Probes, Jobs
  <2> QED
    BY <2>1, <2>2
<1> QED
  BY <1>1, TypedStep, PTL DEF Spec

THEOREM TypeCorrect == Spec => []TypeOK
BY TypedAlways, PTL DEF Typed
-----------------------------------------------------------------------------
(* The semaphore: every step that takes a slot adds one holder, every step *)
(* that gives one back removes one, and no other step changes the holders. *)

LEMMA HoldersFinite == IsFiniteSet(Holders)
<1>1. IsFiniteSet(Requests \X Routers)
  BY FiniteAssumption, FS_Product
<1> QED
  BY <1>1, FS_Subset DEF Holders

LEMMA SlotTaken ==
  ASSUME SemaphoreAccounted, TakeSlot, NEW w, w \notin Holders, Holders' = Holders \cup {w}
  PROVE  SemaphoreAccounted'
<1>1. Cardinality(Holders') = Cardinality(Holders) + 1
  BY HoldersFinite, FS_AddElement
<1>2. Cardinality(Holders) \in Nat
  BY HoldersFinite, FS_CardinalityType
<1> QED
  BY <1>1, <1>2, ServerAssumption DEF SemaphoreAccounted, TakeSlot

LEMMA SlotGiven ==
  ASSUME SemaphoreAccounted, GiveSlot, NEW w \in Holders, Holders' = Holders \ {w}
  PROVE  SemaphoreAccounted'
<1>1. Cardinality(Holders') = Cardinality(Holders) - 1
  BY HoldersFinite, FS_RemoveElement
<1>2. Cardinality(Holders) \in Nat
  BY HoldersFinite, FS_CardinalityType
<1> QED
  BY <1>1, <1>2, ServerAssumption DEF SemaphoreAccounted, GiveSlot

LEMMA SlotsKept ==
  ASSUME SemaphoreAccounted, UNCHANGED semaphore, Holders' = Holders
  PROVE  SemaphoreAccounted'
BY DEF SemaphoreAccounted

HoldingWorker == {"asking", "append", "register", "release"}
HoldingProbe == {"asking", "gather", "finalize"}

\* A goroutine's slot depends on where it is, a probe's on its handler.
LEMMA WhoHolds ==
  ASSUME KindInv, NEW w \in Jobs
  PROVE  /\ w[1] \in Metrics => (HoldsSlot(w) <=> worker[w] \in HoldingWorker)
         /\ w[1] \in Probes =>
              (HoldsSlot(w) <=> Target[w[1]] = w[2] /\ handler[w[1]] \in HoldingProbe)
BY ServerAssumption
DEF KindInv, HoldsSlot, HoldingWorker, HoldingProbe, Metrics, Probes, Jobs

\* A step of one goroutine changes the slot of that goroutine alone.
LEMMA WorkerHolders ==
  ASSUME Typed, Typed', NEW w \in Jobs, WorkerStep(w)
  PROVE  /\ \A v \in Jobs : v # w => (HoldsSlot(v)' <=> HoldsSlot(v))
         /\ HoldsSlot(w) <=> worker[w] \in HoldingWorker
         /\ HoldsSlot(w)' <=> worker'[w] \in HoldingWorker
<1>1. UNCHANGED handler /\ \A v \in Jobs : v # w => worker'[v] = worker[v]
  BY WorkerFrame DEF Jobs, Typed, TypeOK
<1>2. w[1] \in Metrics
  BY WorkerFrame DEF Typed, KindInv, Jobs, Probes
<1>3. \A v \in Jobs : v # w => (HoldsSlot(v)' <=> HoldsSlot(v))
  BY <1>1 DEF HoldsSlot
<1>4. HoldsSlot(w) <=> worker[w] \in HoldingWorker
  BY <1>2, WhoHolds DEF Typed
<1>5. HoldsSlot(w)' <=> worker'[w] \in HoldingWorker
  <2>1. KindInv'
    BY DEF Typed
  <2>2. Target[w[1]] # w[2]
    BY <1>2, ServerAssumption DEF Metrics, Jobs
  <2> QED
    BY <2>2 DEF HoldsSlot, HoldingWorker
<1> QED
  BY <1>3, <1>4, <1>5

\* A step of one handler changes the slot of its probe alone.
LEMMA HandlerHolders ==
  ASSUME Typed, NEW q \in Requests, UNCHANGED worker,
         \A p \in Requests : p # q => handler'[p] = handler[p]
  PROVE  /\ q \in Metrics => Holders' = Holders
         /\ (handler'[q] \in HoldingProbe <=> handler[q] \in HoldingProbe) => Holders' = Holders
         /\ q \in Probes /\ handler[q] \notin HoldingProbe /\ handler'[q] \in HoldingProbe =>
              <<q, Target[q]>> \notin Holders /\ Holders' = Holders \cup {<<q, Target[q]>>}
         /\ q \in Probes /\ handler[q] \in HoldingProbe /\ handler'[q] \notin HoldingProbe =>
              <<q, Target[q]>> \in Holders /\ Holders' = Holders \ {<<q, Target[q]>>}
<1> DEFINE job == <<q, Target[q]>>
<1>1. \A w \in Jobs : w # job => (HoldsSlot(w)' <=> HoldsSlot(w))
  BY DEF HoldsSlot, Jobs
<1>2. q \in Metrics => \A w \in Jobs : HoldsSlot(w)' <=> HoldsSlot(w)
  BY ServerAssumption DEF HoldsSlot, Jobs, Metrics
<1>3. ASSUME q \in Probes
      PROVE  /\ job \in Jobs
             /\ HoldsSlot(job) <=> handler[q] \in HoldingProbe
             /\ HoldsSlot(job)' <=> handler'[q] \in HoldingProbe
  BY <1>3 DEF Typed, KindInv, HoldsSlot, HoldingProbe, Jobs
<1>4. q \in Metrics \/ q \in Probes
  BY DEF Probes
<1> HIDE DEF job
<1>5. q \in Metrics => Holders' = Holders
  BY <1>2 DEF Holders, Jobs
<1>6. (handler'[q] \in HoldingProbe <=> handler[q] \in HoldingProbe) => Holders' = Holders
  BY <1>1, <1>3, <1>4, <1>5 DEF Holders, Jobs
<1>7. q \in Probes /\ handler[q] \notin HoldingProbe /\ handler'[q] \in HoldingProbe =>
        job \notin Holders /\ Holders' = Holders \cup {job}
  BY <1>1, <1>3 DEF Holders, Jobs
<1>8. q \in Probes /\ handler[q] \in HoldingProbe /\ handler'[q] \notin HoldingProbe =>
        job \in Holders /\ Holders' = Holders \ {job}
  BY <1>1, <1>3 DEF Holders, Jobs
<1> QED
  BY <1>5, <1>6, <1>7, <1>8 DEF job

LEMMA SemaphoreStep ==
  Typed /\ Typed' /\ SemaphoreAccounted /\ [Next]_vars => SemaphoreAccounted'
<1> SUFFICES ASSUME Typed, Typed', SemaphoreAccounted, [Next]_vars
             PROVE  SemaphoreAccounted'
  OBVIOUS
<1>0. handler \in [Requests -> HandlerStates] /\ worker \in [Jobs -> WorkerStates]
  BY DEF Typed, TypeOK, Jobs
<1>1. ASSUME NEW q \in Requests, ArriveMetrics(q) PROVE SemaphoreAccounted'
  <2>1. q \in Metrics /\ \A p \in Requests : p # q => handler'[p] = handler[p]
    BY <1>0, <1>1 DEF ArriveMetrics, Goes
  <2>2. \A w \in Jobs : /\ w[1] # q => worker'[w] = worker[w]
                        /\ w[1] = q => worker'[w] = "queued"
    BY <1>1 DEF ArriveMetrics, Jobs
  <2>3. \A w \in Jobs : w[1] = q => worker[w] = "none" /\ Target[q] # w[2]
    BY <1>1, <2>1, ServerAssumption DEF ArriveMetrics, Goes, Typed, KindInv, Metrics, Jobs
  <2>4. \A w \in Jobs : HoldsSlot(w)' <=> HoldsSlot(w)
    <3> SUFFICES ASSUME NEW w \in Jobs PROVE HoldsSlot(w)' <=> HoldsSlot(w)
      OBVIOUS
    <3>1. CASE w[1] = q
      BY <2>2, <2>3, <3>1 DEF HoldsSlot
    <3>2. CASE w[1] # q
      BY <2>1, <2>2, <3>2 DEF HoldsSlot, Jobs
    <3> QED
      BY <3>1, <3>2
  <2>5. Holders' = Holders
    BY <2>4 DEF Holders, Jobs
  <2> QED
    BY <1>1, <2>5, SlotsKept DEF ArriveMetrics
<1>2. ASSUME NEW q \in Requests, ArriveProbe(q) \/ Deferred(q) \/ Expire(q)
      PROVE  SemaphoreAccounted'
  <2>1. UNCHANGED <<worker, semaphore>> /\ \A p \in Requests : p # q => handler'[p] = handler[p]
    BY <1>0, <1>2 DEF ArriveProbe, Deferred, Expire, Goes
  <2>2. handler'[q] \in HoldingProbe <=> handler[q] \in HoldingProbe
    BY <1>0, <1>2 DEF ArriveProbe, Deferred, Expire, Goes, HoldingProbe
  <2> QED
    BY <2>1, <2>2, HandlerHolders, SlotsKept
<1>3. ASSUME NEW q \in Requests, HandlerStep(q) PROVE SemaphoreAccounted'
  <2>1. UNCHANGED worker
    BY <1>3, HandlerFrame
  <2>2. \A p \in Requests : p # q => handler'[p] = handler[p]
    BY <1>0, <1>3 DEF HandlerStep, SetupDone, SetupTimesOut, ProbeAcquire, ProbeGivesUp,
      ProbeReady, ProbeNotReady, GatherDone, GatherTimesOut, Return, Goes
  <2>3. CASE ProbeAcquire(q)
    <3>1. q \in Probes /\ handler[q] \notin HoldingProbe /\ handler'[q] \in HoldingProbe /\ TakeSlot
      BY <1>0, <2>3 DEF ProbeAcquire, Goes, HoldingProbe, Typed, KindInv, Probes
    <3>2. <<q, Target[q]>> \notin Holders /\ Holders' = Holders \cup {<<q, Target[q]>>}
      BY <2>1, <2>2, <3>1, HandlerHolders
    <3> QED
      BY <3>1, <3>2, SlotTaken
  <2>4. CASE Return(q)
    <3>1. handler[q] \in HoldingProbe /\ handler'[q] \notin HoldingProbe
      BY <1>0, <2>4 DEF Return, Goes, HoldingProbe
    <3>2. CASE q \in Probes
      <4>1. <<q, Target[q]>> \in Holders /\ Holders' = Holders \ {<<q, Target[q]>>}
        BY <2>1, <2>2, <3>1, <3>2, HandlerHolders
      <4> QED
        BY <2>4, <3>2, <4>1, SlotGiven DEF Return
    <3>3. CASE q \notin Probes
      <4>1. Holders' = Holders
        BY <2>1, <2>2, <3>3, HandlerHolders DEF Probes
      <4> QED
        BY <2>4, <3>3, <4>1, SlotsKept DEF Return
    <3> QED
      BY <3>2, <3>3
  <2>5. CASE SetupDone(q) \/ SetupTimesOut(q)
    <3>1. q \in Metrics /\ UNCHANGED semaphore
      BY <2>5 DEF SetupDone, SetupTimesOut, Goes, Typed, KindInv, Probes
    <3> QED
      BY <2>1, <2>2, <3>1, HandlerHolders, SlotsKept
  <2>6. CASE ProbeGivesUp(q) \/ ProbeReady(q) \/ ProbeNotReady(q) \/ GatherDone(q) \/ GatherTimesOut(q)
    <3>1. UNCHANGED semaphore
      BY <2>6 DEF ProbeGivesUp, ProbeReady, ProbeNotReady, GatherDone, GatherTimesOut
    <3>2. handler'[q] \in HoldingProbe <=> handler[q] \in HoldingProbe
      BY <1>0, <2>6 DEF ProbeGivesUp, ProbeReady, ProbeNotReady, GatherDone, GatherTimesOut,
        Goes, HoldingProbe
    <3> QED
      BY <2>1, <2>2, <3>1, <3>2, HandlerHolders, SlotsKept
  <2> QED
    BY <1>3, <2>3, <2>4, <2>5, <2>6 DEF HandlerStep
<1>4. ASSUME NEW w \in Jobs, WorkerStep(w) PROVE SemaphoreAccounted'
  <2>1. /\ \A v \in Jobs : v # w => (HoldsSlot(v)' <=> HoldsSlot(v))
        /\ HoldsSlot(w) <=> worker[w] \in HoldingWorker
        /\ HoldsSlot(w)' <=> worker'[w] \in HoldingWorker
    BY <1>4, WorkerHolders
  <2>2. CASE Acquire(w)
    <3>1. worker[w] \notin HoldingWorker /\ worker'[w] \in HoldingWorker /\ TakeSlot
      BY <1>0, <2>2 DEF Acquire, Works, HoldingWorker
    <3>2. w \notin Holders /\ Holders' = Holders \cup {w}
      BY <2>1, <3>1 DEF Holders, Jobs
    <3> QED
      BY <3>1, <3>2, SlotTaken
  <2>3. CASE Release(w)
    <3>1. worker[w] \in HoldingWorker /\ worker'[w] \notin HoldingWorker /\ GiveSlot
      BY <1>0, <2>3 DEF Release, Works, HoldingWorker
    <3>2. w \in Holders /\ Holders' = Holders \ {w}
      BY <2>1, <3>1 DEF Holders, Jobs
    <3> QED
      BY <3>1, <3>2, SlotGiven
  <2>4. CASE GiveUp(w) \/ Ready(w) \/ NotReady(w) \/ Append(w) \/ Register(w)
    <3>1. UNCHANGED semaphore
      BY <2>4 DEF GiveUp, Ready, NotReady, Append, Register
    <3>2. worker'[w] \in HoldingWorker <=> worker[w] \in HoldingWorker
      BY <1>0, <2>4 DEF GiveUp, Ready, NotReady, Append, Register, Works, HoldingWorker
    <3>3. Holders' = Holders
      BY <2>1, <3>2 DEF Holders, Jobs
    <3> QED
      BY <3>1, <3>3, SlotsKept
  <2> QED
    BY <1>4, <2>2, <2>3, <2>4 DEF WorkerStep
<1>5. ASSUME UNCHANGED <<semaphore, handler, worker>> PROVE SemaphoreAccounted'
  BY <1>5, SlotsKept DEF Holders, HoldsSlot
<1>6. ASSUME NEW q \in Requests, NEW r \in Routers, CollectionEnds(q, r) \/ IsDone(q, r)
      PROVE  SemaphoreAccounted'
  BY <1>5, <1>6 DEF CollectionEnds, IsDone
<1>7. ASSUME NEW r \in Routers, LinkDrops(r) PROVE SemaphoreAccounted'
  BY <1>5, <1>7 DEF LinkDrops, requestVars
<1>8. CASE IntervalPasses \/ UNCHANGED vars
  BY <1>5, <1>8 DEF IntervalPasses, vars, requestVars
<1> QED
  BY <1>1, <1>2, <1>3, <1>4, <1>6, <1>7, <1>8 DEF Next, Jobs

\* No slot of the semaphore leaks and none is given back twice.
THEOREM SlotsAccounted == Spec => []SemaphoreAccounted
<1>1. Init => SemaphoreAccounted
  <2> SUFFICES ASSUME Init PROVE SemaphoreAccounted
    OBVIOUS
  <2>1. Holders = {}
    BY DEF Init, Holders, HoldsSlot
  <2> QED
    BY <2>1, FS_EmptySet, ServerAssumption DEF Init, SemaphoreAccounted
<1> QED
  BY <1>1, TypedAlways, SemaphoreStep, PTL DEF Spec
-----------------------------------------------------------------------------
(* A goroutine that has not ended belongs to a request in its setup, or to *)
(* one that timed out there; a router is in scraped when its collectors    *)
(* are registered, but for the goroutine between the two.                  *)

AnswerInv ==
  /\ \A q \in Requests : reply[q] # "none" => handler[q] \in {"finalize", "returned"}
  /\ \A w \in Jobs : worker[w] \notin {"none", "done"} =>
       handler[w[1]] = "setup" \/ reply[w[1]] = "504"
  /\ \A q \in Requests : pending[q] # {} => handler[q] = "finalize"

ScrapedInv ==
  \A w \in Jobs :
    w[2] \in scraped[w[1]] <=> w[2] \in registered[w[1]] \/ worker[w] = "register"

LEMMA AnswerStep == Typed /\ AnswerInv /\ [Next]_vars => AnswerInv'
<1> SUFFICES ASSUME Typed, AnswerInv, [Next]_vars PROVE AnswerInv'
  OBVIOUS
<1> USE DEF Typed, TypeOK, Goes, Answers, Jobs
<1>1. ASSUME NEW q \in Requests,
             ArriveMetrics(q) \/ ArriveProbe(q) \/ Deferred(q) \/ Expire(q)
      PROVE  AnswerInv'
  <2>1. CASE ArriveMetrics(q) BY <2>1 DEF ArriveMetrics, AnswerInv
  <2>2. CASE ArriveProbe(q) BY <2>2 DEF ArriveProbe, AnswerInv, KindInv
  <2>3. CASE Deferred(q) BY <2>3 DEF Deferred, AnswerInv, KindInv
  <2>4. CASE Expire(q) BY <2>4 DEF Expire, AnswerInv
  <2> QED
    BY <1>1, <2>1, <2>2, <2>3, <2>4
<1>2. ASSUME NEW q \in Requests, HandlerStep(q) PROVE AnswerInv'
  <2> USE DEF AnswerInv
  <2>1. CASE SetupDone(q) BY <2>1 DEF SetupDone, WorkersOf
  <2>2. CASE SetupTimesOut(q) BY <2>2 DEF SetupTimesOut
  <2>3. CASE ProbeAcquire(q) BY <2>3 DEF ProbeAcquire
  <2>4. CASE ProbeGivesUp(q) BY <2>4 DEF ProbeGivesUp
  <2>5. CASE ProbeReady(q) BY <2>5 DEF ProbeReady
  <2>6. CASE ProbeNotReady(q) BY <2>6 DEF ProbeNotReady, KindInv, Metrics, Probes
  <2>7. CASE GatherDone(q) BY <2>7 DEF GatherDone
  <2>8. CASE GatherTimesOut(q) BY <2>8 DEF GatherTimesOut
  <2>9. CASE Return(q) BY <2>9 DEF Return
  <2> QED
    BY <1>2, <2>1, <2>2, <2>3, <2>4, <2>5, <2>6, <2>7, <2>8, <2>9 DEF HandlerStep
<1>3. ASSUME NEW q \in Requests, NEW r \in Routers, CollectionEnds(q, r) \/ IsDone(q, r)
      PROVE  AnswerInv'
  BY <1>3 DEF CollectionEnds, IsDone, AnswerInv
<1>4. ASSUME NEW w \in Jobs, WorkerStep(w) PROVE AnswerInv'
  <2>1. UNCHANGED <<handler, reply, pending>> /\ worker[w] \notin {"none", "done"}
    BY <1>4, WorkerFrame
  <2>2. \A v \in Jobs : v # w => worker'[v] = worker[v]
    BY <1>4, WorkerFrame
  <2> QED
    BY <2>1, <2>2 DEF AnswerInv
<1>5. ASSUME NEW r \in Routers, LinkDrops(r) PROVE AnswerInv'
  BY <1>5 DEF LinkDrops, requestVars, AnswerInv
<1>6. CASE IntervalPasses \/ UNCHANGED vars
  BY <1>6 DEF IntervalPasses, vars, requestVars, AnswerInv
<1> QED
  BY <1>1, <1>2, <1>3, <1>4, <1>5, <1>6 DEF Next

LEMMA ScrapedStep == Typed /\ ScrapedInv /\ [Next]_vars => ScrapedInv'
<1> SUFFICES ASSUME Typed, ScrapedInv, [Next]_vars PROVE ScrapedInv'
  OBVIOUS
<1> USE DEF Typed, TypeOK, Goes, Works, Jobs, ScrapedInv
<1>1. ASSUME NEW q \in Requests,
             ArriveMetrics(q) \/ ArriveProbe(q) \/ Deferred(q) \/ Expire(q)
      PROVE  ScrapedInv'
  BY <1>1 DEF ArriveMetrics, ArriveProbe, Deferred, Expire, KindInv
<1>2. ASSUME NEW q \in Requests, HandlerStep(q) PROVE ScrapedInv'
  <2>1. CASE ProbeReady(q) BY <2>1 DEF ProbeReady, KindInv, Metrics, Probes
  <2>2. CASE ~ProbeReady(q)
    BY <1>2, <2>2 DEF HandlerStep, SetupDone, SetupTimesOut, ProbeAcquire, ProbeGivesUp,
      ProbeNotReady, GatherDone, GatherTimesOut, Return
  <2> QED
    BY <2>1, <2>2
<1>3. ASSUME NEW q \in Requests, NEW r \in Routers, CollectionEnds(q, r) \/ IsDone(q, r)
      PROVE  ScrapedInv'
  BY <1>3 DEF CollectionEnds, IsDone
<1>4. ASSUME NEW w \in Jobs, WorkerStep(w) PROVE ScrapedInv'
  <2>0. \A v \in Jobs : v # w => v[1] # w[1] \/ v[2] # w[2]
    OBVIOUS
  <2>1. CASE Append(w) BY <2>0, <2>1 DEF Append
  <2>2. CASE Register(w) BY <2>0, <2>2 DEF Register
  <2>3. CASE Acquire(w) \/ GiveUp(w) \/ Ready(w) \/ NotReady(w) \/ Release(w)
    BY <2>3 DEF Acquire, GiveUp, Ready, NotReady, Release, requestVars
  <2> QED
    BY <1>4, <2>1, <2>2, <2>3 DEF WorkerStep
<1>5. ASSUME NEW r \in Routers, LinkDrops(r) PROVE ScrapedInv'
  BY <1>5 DEF LinkDrops, requestVars
<1>6. CASE IntervalPasses \/ UNCHANGED vars
  BY <1>6 DEF IntervalPasses, vars, requestVars
<1> QED
  BY <1>1, <1>2, <1>3, <1>4, <1>5, <1>6 DEF Next

LEMMA InvAlways == Spec => [](Typed /\ AnswerInv /\ ScrapedInv)
<1>1. Init => AnswerInv /\ ScrapedInv
  BY DEF Init, AnswerInv, ScrapedInv, Jobs
<1> QED
  BY <1>1, TypedAlways, AnswerStep, ScrapedStep, PTL DEF Spec

\* A complete answer has the metrics of every router that was ready.
THEOREM AnswersComplete == Spec => []GatherComplete
<1>1. Typed /\ AnswerInv /\ ScrapedInv => GatherComplete
  <2> SUFFICES ASSUME Typed, AnswerInv, ScrapedInv, NEW q \in Requests,
                      handler[q] = "gather" \/ reply[q] = "200"
               PROVE  /\ scraped[q] = registered[q]
                      /\ \A w \in WorkersOf(q) : worker[w] \in {"none", "done"}
    BY DEF GatherComplete
  <2>1. \A w \in WorkersOf(q) : w \in Jobs /\ w[1] = q
    BY DEF WorkersOf, Jobs
  <2>2. handler[q] # "setup" /\ reply[q] # "504"
    BY DEF AnswerInv
  <2>3. \A w \in WorkersOf(q) : worker[w] \in {"none", "done"}
    BY <2>1, <2>2 DEF AnswerInv
  <2>4. \A r \in Routers : r \in scraped[q] <=> r \in registered[q]
    <3> SUFFICES ASSUME NEW r \in Routers PROVE r \in scraped[q] <=> r \in registered[q]
      OBVIOUS
    <3>1. <<q, r>> \in WorkersOf(q)
      BY DEF WorkersOf
    <3> QED
      BY <2>1, <2>3, <3>1 DEF ScrapedInv
  <2> QED
    BY <2>3, <2>4 DEF Typed, TypeOK
<1> QED
  BY <1>1, InvAlways, PTL

-----------------------------------------------------------------------------
(* Every connection is up for a request that will close it, or because a   *)
(* request timed out during its setup.                                     *)

Cares(q, r) ==
  \/ q \in Metrics /\ reply[q] = "504"
  \/ worker[<<q, r>>] = "append"
  \/ r \in scraped[q] /\ handler[q] \in {"setup", "gather"}
  \/ r \in pending[q]

CaredInv == PersistentPool \/ \A r \in up : \E q \in Requests : Cares(q, r)

LEMMA CaredKept ==
  ASSUME CaredInv, up' \subseteq up,
         \A q \in Requests, r \in up' : Cares(q, r) => Cares(q, r)'
  PROVE  CaredInv'
BY DEF CaredInv

LEMMA CaredStep == Typed /\ AnswerInv /\ CaredInv /\ [Next]_vars => CaredInv'
<1> SUFFICES ASSUME Typed, AnswerInv, CaredInv, [Next]_vars PROVE CaredInv'
  OBVIOUS
<1>0. up \subseteq Routers
  BY DEF Typed, TypeOK
<1> USE DEF Typed, TypeOK, Goes, Works, Answers, Jobs
<1>1. ASSUME NEW q \in Requests,
             ArriveMetrics(q) \/ ArriveProbe(q) \/ Deferred(q) \/ Expire(q)
      PROVE  CaredInv'
  <2>1. UNCHANGED up
    BY <1>1 DEF ArriveMetrics, ArriveProbe, Deferred, Expire
  <2>2. ASSUME NEW p \in Requests, NEW r \in up, Cares(p, r) PROVE Cares(p, r)'
    <3>1. CASE ArriveMetrics(q)
      BY <1>0, <2>2, <3>1 DEF ArriveMetrics, Cares, KindInv
    <3>2. CASE ArriveProbe(q) BY <2>2, <3>2 DEF ArriveProbe, Cares
    <3>3. CASE Deferred(q) BY <2>2, <3>3 DEF Deferred, Cares, AnswerInv
    <3>4. CASE Expire(q) BY <2>2, <3>4 DEF Expire, Cares
    <3> QED
      BY <1>1, <3>1, <3>2, <3>3, <3>4
  <2> QED
    BY <2>1, <2>2, CaredKept
<1>2. ASSUME NEW q \in Requests, HandlerStep(q), ~ProbeReady(q) PROVE CaredInv'
  <2>1. UNCHANGED up
    BY <1>2 DEF HandlerStep, SetupDone, SetupTimesOut, ProbeAcquire, ProbeGivesUp,
      ProbeNotReady, GatherDone, GatherTimesOut, Return
  <2>2. ASSUME NEW p \in Requests, NEW r \in up, Cares(p, r) PROVE Cares(p, r)'
    <3> USE <2>2 DEF Cares, AnswerInv
    <3>1. CASE SetupDone(q) BY <3>1 DEF SetupDone
    <3>2. CASE SetupTimesOut(q) BY <3>2 DEF SetupTimesOut
    <3>3. CASE ProbeAcquire(q) BY <3>3 DEF ProbeAcquire
    <3>4. CASE ProbeGivesUp(q) BY <3>4 DEF ProbeGivesUp
    <3>6. CASE ProbeNotReady(q) BY <3>6 DEF ProbeNotReady
    <3>7. CASE GatherDone(q) BY <3>7 DEF GatherDone
    <3>8. CASE GatherTimesOut(q) BY <3>8 DEF GatherTimesOut
    <3>9. CASE Return(q) BY <3>9 DEF Return
    <3> QED
      BY <1>2, <3>1, <3>2, <3>3, <3>4, <3>6, <3>7, <3>8, <3>9 DEF HandlerStep
  <2> QED
    BY <2>1, <2>2, CaredKept
<1>3. ASSUME NEW q \in Requests, ProbeReady(q) PROVE CaredInv'
  <2>1. Cares(q, Target[q])' /\ up' \subseteq up \cup {Target[q]}
    BY <1>3 DEF ProbeReady, MayConnect, Cares
  <2>2. ASSUME NEW p \in Requests, NEW r \in up, Cares(p, r) PROVE Cares(p, r)'
    BY <1>3, <2>2 DEF ProbeReady, Cares, AnswerInv
  <2> QED
    BY <2>1, <2>2 DEF CaredInv
<1>4. ASSUME NEW q \in Requests, NEW r \in Routers, CollectionEnds(q, r) PROVE CaredInv'
  BY <1>4, CaredKept DEF CollectionEnds, Cares
<1>5. ASSUME NEW q \in Requests, NEW r \in Routers, IsDone(q, r) PROVE CaredInv'
  <2>1. CASE PersistentPool
    BY <2>1 DEF CaredInv
  <2>2. CASE ~PersistentPool
    <3>1. up' = up \ {r} /\ UNCHANGED <<reply, worker, scraped, handler>>
      BY <1>5, <2>2 DEF IsDone
    <3>2. \A p \in Requests, s \in up' : Cares(p, s) => Cares(p, s)'
      BY <1>5, <3>1 DEF IsDone, Cares
    <3> QED
      BY <3>1, <3>2, CaredKept
  <2> QED
    BY <2>1, <2>2
<1>6. ASSUME NEW w \in Jobs, WorkerStep(w) PROVE CaredInv'
  <2>1. \A v \in Jobs : v # w => worker'[v] = worker[v]
    BY <1>6, WorkerFrame
  <2>2. UNCHANGED <<handler, reply, pending>>
    BY <1>6, WorkerFrame
  <2>3. w = <<w[1], w[2]>> /\ w[1] \in Requests /\ w[2] \in Routers
    OBVIOUS
  <2>4. CASE Ready(w)
    <3>1. Cares(w[1], w[2])' /\ up' \subseteq up \cup {w[2]}
      BY <2>3, <2>4 DEF Ready, MayConnect, Cares
    <3>2. ASSUME NEW p \in Requests, NEW r \in up, Cares(p, r) PROVE Cares(p, r)'
      BY <1>0, <2>1, <2>2, <2>4, <3>2 DEF Ready, Cares, requestVars
    <3> QED
      BY <2>3, <3>1, <3>2 DEF CaredInv
  <2>5. CASE Append(w)
    <3>1. UNCHANGED up /\ scraped' = [scraped EXCEPT ![w[1]] = @ \cup {w[2]}]
      BY <2>5 DEF Append
    <3>2. handler[w[1]] = "setup" \/ (w[1] \in Metrics /\ reply[w[1]] = "504")
      BY <2>3, <2>5 DEF Append, AnswerInv, KindInv, Metrics, Probes
    <3>3. ASSUME NEW p \in Requests, NEW r \in up, Cares(p, r) PROVE Cares(p, r)'
      <4>1. CASE <<p, r>> = w
        BY <2>2, <2>3, <3>1, <3>2, <4>1 DEF Cares
      <4>2. CASE <<p, r>> # w
        <5>1. <<p, r>> \in Jobs
          BY <1>0
        <5>2. worker'[<<p, r>>] = worker[<<p, r>>]
          BY <2>1, <4>2, <5>1
        <5> QED
          BY <2>2, <3>1, <3>3, <5>2 DEF Cares
      <4> QED
        BY <4>1, <4>2
    <3> QED
      BY <3>1, <3>3, CaredKept
  <2>6. CASE Acquire(w) \/ GiveUp(w) \/ NotReady(w) \/ Register(w) \/ Release(w)
    <3>1. UNCHANGED <<up, scraped>> /\ worker[w] # "append"
      BY <2>6 DEF Acquire, GiveUp, NotReady, Register, Release, requestVars
    <3>2. ASSUME NEW p \in Requests, NEW r \in up, Cares(p, r) PROVE Cares(p, r)'
      <4>1. <<p, r>> \in Jobs
        BY <1>0
      <4>2. worker[<<p, r>>] = "append" => worker'[<<p, r>>] = "append"
        BY <2>1, <3>1, <4>1
      <4> QED
        BY <2>2, <3>1, <3>2, <4>2 DEF Cares
    <3> QED
      BY <3>1, <3>2, CaredKept
  <2> QED
    BY <1>6, <2>4, <2>5, <2>6 DEF WorkerStep
<1>7. ASSUME NEW r \in Routers, LinkDrops(r) PROVE CaredInv'
  BY <1>7, CaredKept DEF LinkDrops, requestVars, Cares
<1>8. CASE IntervalPasses \/ UNCHANGED vars
  BY <1>8, CaredKept DEF IntervalPasses, vars, requestVars, Cares
<1> QED
  BY <1>1, <1>2, <1>3, <1>4, <1>5, <1>6, <1>7, <1>8 DEF Next

\* Only a request that timed out during its setup leaves a connection up.
THEOREM ConnectionsReturned == Spec => []OnlySetupTimeoutsLeak
<1>1. Init => CaredInv
  BY DEF Init, CaredInv
<1>2. Typed /\ AnswerInv /\ CaredInv => OnlySetupTimeoutsLeak
  <2> SUFFICES ASSUME Typed, AnswerInv, CaredInv, ~PersistentPool, AllOver,
                      \A q \in Metrics : reply[q] # "504",
                      NEW r \in up
               PROVE  FALSE
    BY DEF OnlySetupTimeoutsLeak
  <2>1. PICK q \in Requests : Cares(q, r)
    BY DEF CaredInv
  <2>2. <<q, r>> \in Requests \X Routers
    BY DEF Typed, TypeOK
  <2>3. handler[q] \in {"idle", "returned"} /\ worker[<<q, r>>] \in {"none", "done"}
    BY <2>2 DEF AllOver
  <2> QED
    BY <2>1, <2>3 DEF Cares, AnswerInv
<1> QED
  BY <1>1, <1>2, InvAlways, CaredStep, PTL DEF Spec
-----------------------------------------------------------------------------
(* Server implements ScrapeContract: each step of a handler or a goroutine *)
(* is one step of the contract of its request, or a stutter.               *)

\* Nothing is found for a request before it is past its wait.
FreshInv ==
  \A q \in Requests :
    handler[q] \in {"idle", "waiting", "asking"} => scraped[q] = {} /\ registered[q] = {}

LEMMA FreshStep == Typed /\ AnswerInv /\ FreshInv /\ [Next]_vars => FreshInv'
<1> SUFFICES ASSUME Typed, AnswerInv, FreshInv, [Next]_vars PROVE FreshInv'
  OBVIOUS
<1> USE DEF Typed, TypeOK, Goes, Works, Jobs, FreshInv
<1>1. ASSUME NEW q \in Requests,
             ArriveMetrics(q) \/ ArriveProbe(q) \/ Deferred(q) \/ Expire(q)
      PROVE  FreshInv'
  BY <1>1 DEF ArriveMetrics, ArriveProbe, Deferred, Expire
<1>2. ASSUME NEW q \in Requests, HandlerStep(q) PROVE FreshInv'
  BY <1>2 DEF HandlerStep, SetupDone, SetupTimesOut, ProbeAcquire, ProbeGivesUp, ProbeReady,
    ProbeNotReady, GatherDone, GatherTimesOut, Return
<1>3. ASSUME NEW q \in Requests, NEW r \in Routers, CollectionEnds(q, r) \/ IsDone(q, r)
      PROVE  FreshInv'
  BY <1>3 DEF CollectionEnds, IsDone
<1>4. ASSUME NEW w \in Jobs, WorkerStep(w) PROVE FreshInv'
  <2>1. handler[w[1]] \notin {"idle", "waiting", "asking"} /\ UNCHANGED handler
    BY <1>4, WorkerFrame DEF AnswerInv
  <2>2. \A q \in Requests : q # w[1] => scraped'[q] = scraped[q] /\ registered'[q] = registered[q]
    BY <1>4 DEF WorkerStep, Acquire, GiveUp, Ready, NotReady, Append, Register, Release, requestVars
  <2> QED
    BY <2>1, <2>2
<1>5. ASSUME NEW r \in Routers, LinkDrops(r) PROVE FreshInv'
  BY <1>5 DEF LinkDrops, requestVars
<1>6. CASE IntervalPasses \/ UNCHANGED vars
  BY <1>6 DEF IntervalPasses, vars, requestVars
<1> QED
  BY <1>1, <1>2, <1>3, <1>4, <1>5, <1>6 DEF Next

LEMMA PhaseValues ==
  /\ PhaseOf("idle") = "new"
  /\ \A where \in {"setup", "waiting", "asking", "gather"} : PhaseOf(where) = "open"
  /\ PhaseOf("finalize") = "finalizing"
  /\ PhaseOf("returned") = "closed"
BY DEF PhaseOf

\* What a request owes, where its handler is.
LEMMA OwedValues ==
  ASSUME NEW q \in Requests, handler[q] \in HandlerStates
  PROVE  /\ RequestPhase[q] = PhaseOf(handler[q])
         /\ handler[q] \in {"setup", "waiting", "asking", "gather"} => Owed[q] = scraped[q]
         /\ handler[q] \in {"idle", "finalize", "returned"} => Owed[q] = pending[q]
BY PhaseValues DEF RequestPhase, Owed

\* A step of one request's handler moves the phase of that request alone.
LEMMA PhaseMoves ==
  ASSUME NEW q \in Requests, NEW from, NEW to,
         handler \in [Requests -> HandlerStates], Goes(q, from, to)
  PROVE  /\ RequestPhase[q] = PhaseOf(from)
         /\ RequestPhase' = [RequestPhase EXCEPT ![q] = PhaseOf(to)]
         /\ handler[q] = from
         /\ handler'[q] = to
BY DEF RequestPhase, Goes

\* What the other requests owe, and the same request, as long as no handler moves.
LEMMA OwedMoves ==
  ASSUME NEW q \in Requests,
         \A p \in Requests \ {q} : /\ handler'[p] = handler[p]
                                   /\ scraped'[p] = scraped[p]
                                   /\ pending'[p] = pending[p]
  PROVE  /\ Owed' = [Owed EXCEPT ![q] = IF PhaseOf(handler'[q]) = "open"
                                          THEN scraped'[q] ELSE pending'[q]]
         /\ Owed'[q] = IF PhaseOf(handler'[q]) = "open" THEN scraped'[q] ELSE pending'[q]
BY DEF Owed

LEMMA OwedKept ==
  ASSUME NEW q \in Requests, Owed' = [Owed EXCEPT ![q] = Owed'[q]], Owed'[q] = Owed[q]
  PROVE  UNCHANGED Owed
BY DEF Owed

\* The contract sees nothing of a step.
Stutters == UNCHANGED <<RequestPhase, reply, scraped, registered, Owed>>

LEMMA StuttersWhen ==
  ASSUME UNCHANGED <<handler, reply, scraped, registered, pending>> PROVE Stutters
BY DEF Stutters, RequestPhase, Owed

\* The steps of a handler.
LEMMA HandlerContract ==
  ASSUME Typed, AnswerInv, ScrapedInv, FreshInv, NEW q \in Requests, HandlerStep(q)
  PROVE  Contract!Next \/ Stutters
<1> DEFINE OwedThen == IF PhaseOf(handler'[q]) = "open" THEN scraped'[q] ELSE pending'[q]
<1> USE PhaseValues
<1>0. /\ handler \in [Requests -> HandlerStates] /\ reply \in [Requests -> Replies]
      /\ scraped \in [Requests -> SUBSET Routers] /\ registered \in [Requests -> SUBSET Routers]
      /\ pending \in [Requests -> SUBSET Routers]
      /\ handler[q] \in HandlerStates
  BY DEF Typed, TypeOK
<1>1. /\ Owed' = [Owed EXCEPT ![q] = OwedThen]
      /\ Owed'[q] = OwedThen
  <2>1. \A p \in Requests \ {q} : /\ handler'[p] = handler[p]
                                  /\ scraped'[p] = scraped[p]
                                  /\ pending'[p] = pending[p]
    BY <1>0 DEF HandlerStep, SetupDone, SetupTimesOut, ProbeAcquire, ProbeGivesUp, ProbeReady,
      ProbeNotReady, GatherDone, GatherTimesOut, Return, Goes
  <2> QED
    BY <2>1, OwedMoves
<1>2. /\ handler[q] \in {"setup", "waiting", "asking", "gather"} => Owed[q] = scraped[q]
      /\ handler[q] \in {"idle", "finalize", "returned"} => Owed[q] = pending[q]
  BY <1>0, OwedValues
<1>3. handler[q] \in {"setup", "waiting", "asking", "gather"} => pending[q] = {}
  BY DEF AnswerInv
<1>4. OwedThen = Owed[q] => UNCHANGED Owed
  BY <1>1, OwedKept
<1>5. DOMAIN RequestPhase = Requests /\ DOMAIN Owed = Requests
  BY DEF RequestPhase, Owed
<1>6. CASE SetupDone(q) \/ ProbeAcquire(q)
  <2>1. PICK from \in {"setup", "waiting"}, to \in {"gather", "asking"} : Goes(q, from, to)
    BY <1>6 DEF SetupDone, ProbeAcquire
  <2>2. RequestPhase[q] = "open" /\ RequestPhase' = [RequestPhase EXCEPT ![q] = "open"]
        /\ handler'[q] = to
    BY <1>0, <2>1, PhaseMoves
  <2>3. UNCHANGED RequestPhase
    BY <2>2 DEF RequestPhase
  <2>4. UNCHANGED <<reply, scraped, registered>>
    BY <1>6 DEF SetupDone, ProbeAcquire
  <2>5. OwedThen = Owed[q]
    BY <1>2, <2>1, <2>2, <2>4 DEF Goes
  <2> QED
    BY <1>4, <2>3, <2>4, <2>5 DEF Stutters
<1>7. CASE SetupTimesOut(q) \/ GatherDone(q) \/ GatherTimesOut(q) \/ ProbeNotReady(q)
  <2>1. PICK from \in {"setup", "gather", "asking"}, code \in {"200", "502", "503", "504"} :
          /\ Goes(q, from, "finalize")
          /\ Answers(q, code)
          /\ code \in {"200", "503"} => from = "gather"
          /\ code = "502" => from = "asking"
    BY <1>7 DEF SetupTimesOut, GatherDone, GatherTimesOut, ProbeNotReady
  <2>2. /\ RequestPhase[q] = "open"
        /\ RequestPhase' = [RequestPhase EXCEPT ![q] = "finalizing"]
        /\ handler'[q] = "finalize" /\ handler[q] = from
    BY <1>0, <2>1, PhaseMoves
  <2>3. UNCHANGED <<scraped, registered>> /\ pending'[q] = scraped[q]
    <3>1. CASE ProbeNotReady(q)
      BY <1>3, <3>1 DEF ProbeNotReady, FreshInv, Goes
    <3>2. CASE ~ProbeNotReady(q)
      BY <1>0, <1>7, <3>2 DEF SetupTimesOut, GatherDone, GatherTimesOut
    <3> QED
      BY <3>1, <3>2
  <2>4. UNCHANGED Owed
    BY <1>2, <1>4, <2>1, <2>2, <2>3
  <2>5. from = "gather" => registered[q] = scraped[q]
    <3>1. ASSUME from = "gather", NEW r \in Routers
          PROVE  r \in scraped[q] <=> r \in registered[q]
      <4>1. <<q, r>> \in Jobs
        BY DEF Jobs
      <4>2. worker[<<q, r>>] \in {"none", "done"}
        BY <2>2, <3>1, <4>1 DEF AnswerInv
      <4> QED
        BY <4>1, <4>2 DEF ScrapedInv
    <3> QED
      BY <1>0, <3>1
  <2>6. from = "asking" => scraped[q] = {}
    BY <2>2 DEF FreshInv
  <2>7. Contract!Answer(q, code)
    BY <2>1, <2>2, <2>3, <2>4, <2>5, <2>6 DEF Contract!Answer, Contract!Enters, Answers
  <2> QED
    BY <2>7 DEF Contract!Next
<1>8. CASE ProbeGivesUp(q)
  <2>1. /\ RequestPhase[q] = "open"
        /\ RequestPhase' = [RequestPhase EXCEPT ![q] = "closed"]
        /\ handler'[q] = "returned" /\ handler[q] = "waiting"
    BY <1>0, <1>8, PhaseMoves DEF ProbeGivesUp
  <2>2. scraped[q] = {} /\ UNCHANGED <<scraped, registered, pending>> /\ Answers(q, "504")
    BY <1>8, <2>1 DEF ProbeGivesUp, FreshInv
  <2>3. UNCHANGED Owed
    BY <1>2, <1>3, <1>4, <2>1, <2>2
  <2>4. Contract!Abandon(q)
    BY <2>1, <2>2, <2>3 DEF Contract!Abandon, Contract!Enters, Answers
  <2> QED
    BY <2>4 DEF Contract!Next
<1>9. CASE ProbeReady(q)
  <2>1. /\ RequestPhase[q] = "open"
        /\ RequestPhase' = [RequestPhase EXCEPT ![q] = "open"]
        /\ handler'[q] = "gather" /\ handler[q] = "asking"
    BY <1>0, <1>9, PhaseMoves DEF ProbeReady
  <2>2. UNCHANGED RequestPhase
    BY <2>1 DEF RequestPhase
  <2>3. PICK r \in Routers : r = Target[q]
    BY <1>9, <2>1 DEF Typed, KindInv, Probes
  <2>4. scraped[q] = {} /\ registered[q] = {}
    BY <2>1 DEF FreshInv
  <2>5. /\ scraped' = [scraped EXCEPT ![q] = @ \cup {r}]
        /\ registered' = [registered EXCEPT ![q] = @ \cup {r}]
        /\ UNCHANGED reply
    BY <1>9, <2>3, <2>4 DEF ProbeReady
  <2>6. Owed' = [Owed EXCEPT ![q] = @ \cup {r}]
    <3>1. Owed[q] = {} /\ OwedThen = {r}
      BY <1>0, <1>2, <2>1, <2>4, <2>5
    <3> QED
      BY <1>1, <1>5, <3>1
  <2>7. Contract!Find(q, r)
    BY <2>1, <2>2, <2>5, <2>6 DEF Contract!Find
  <2> QED
    BY <2>7 DEF Contract!Next
<1>10. CASE Return(q)
  <2>1. /\ RequestPhase[q] = "finalizing"
        /\ RequestPhase' = [RequestPhase EXCEPT ![q] = "closed"]
        /\ handler'[q] = "returned" /\ handler[q] = "finalize"
    BY <1>0, <1>10, PhaseMoves DEF Return
  <2>2. pending[q] = {} /\ UNCHANGED <<reply, scraped, registered, pending>>
    BY <1>10 DEF Return
  <2>3. Owed[q] = {} /\ UNCHANGED Owed
    BY <1>2, <1>4, <2>1, <2>2
  <2>4. Contract!Close(q)
    BY <2>1, <2>2, <2>3 DEF Contract!Close, Contract!Enters
  <2> QED
    BY <2>4 DEF Contract!Next
<1> QED
  BY <1>6, <1>7, <1>8, <1>9, <1>10 DEF HandlerStep

\* The steps of a goroutine.
LEMMA WorkerContract ==
  ASSUME Typed, AnswerInv, ScrapedInv, NEW w \in Jobs, WorkerStep(w)
  PROVE  Contract!Next \/ Stutters
<1> USE PhaseValues
<1>0. /\ handler \in [Requests -> HandlerStates]
      /\ scraped \in [Requests -> SUBSET Routers] /\ registered \in [Requests -> SUBSET Routers]
  BY DEF Typed, TypeOK
<1>1. PICK q \in Requests, r \in Routers : w = <<q, r>> /\ w[1] = q /\ w[2] = r
  BY DEF Jobs
<1>2. UNCHANGED <<handler, reply, pending>> /\ worker[w] \notin {"none", "done"}
  BY WorkerFrame
<1>3. handler[q] = "setup" \/ reply[q] = "504"
  BY <1>1, <1>2 DEF AnswerInv
<1>4. UNCHANGED RequestPhase
  BY <1>2 DEF RequestPhase
<1>5. /\ RequestPhase[q] = PhaseOf(handler[q]) /\ handler[q] \in HandlerStates
      /\ handler[q] = "setup" => Owed[q] = scraped[q]
  BY <1>0, OwedValues
<1>6. CASE Append(w)
  <2>1. scraped' = [scraped EXCEPT ![q] = @ \cup {r}] /\ UNCHANGED <<reply, registered>>
    BY <1>1, <1>6 DEF Append
  <2>2. handler[q] # "finalize"
    BY <1>1, <1>6 DEF Append
  <2>3. /\ Owed' = [Owed EXCEPT ![q] = IF PhaseOf(handler'[q]) = "open"
                                          THEN scraped'[q] ELSE pending'[q]]
        /\ Owed'[q] = IF PhaseOf(handler'[q]) = "open" THEN scraped'[q] ELSE pending'[q]
    BY <1>0, <1>2, <2>1, OwedMoves
  <2>4. CASE handler[q] = "setup"
    <3>1. Owed' = [Owed EXCEPT ![q] = @ \cup {r}]
      <4>1. Owed'[q] = Owed[q] \cup {r}
        BY <1>0, <1>2, <1>5, <2>1, <2>3, <2>4
      <4> QED
        BY <2>3, <4>1 DEF Owed
    <3>2. Contract!Find(q, r)
      BY <1>4, <1>5, <2>1, <2>4, <3>1 DEF Contract!Find
    <3> QED
      BY <3>2 DEF Contract!Next
  <2>5. CASE handler[q] # "setup"
    <3>1. handler[q] = "returned" /\ reply[q] = "504"
      BY <1>3, <2>2, <2>5 DEF AnswerInv
    <3>2. Owed'[q] = Owed[q]
      BY <1>0, <1>2, <2>3, <3>1, OwedValues DEF Owed
    <3>3. UNCHANGED Owed
      BY <2>3, <3>2, OwedKept
    <3>4. Contract!FindLate(q, r)
      BY <1>4, <1>5, <2>1, <3>1, <3>3 DEF Contract!FindLate, Contract!Late
    <3> QED
      BY <3>4 DEF Contract!Next
  <2> QED
    BY <2>4, <2>5
<1>7. CASE Register(w)
  <2>1. /\ registered' = [registered EXCEPT ![q] = @ \cup {r}]
        /\ UNCHANGED <<reply, scraped>> /\ worker[w] = "register"
    BY <1>1, <1>7 DEF Register, Works
  <2>2. r \in scraped[q]
    BY <1>1, <2>1 DEF ScrapedInv
  <2>3. UNCHANGED Owed
    BY <1>2, <2>1 DEF Owed
  <2>4. Contract!Ask(q, r)
    BY <1>3, <1>4, <1>5, <2>1, <2>2, <2>3 DEF Contract!Ask
  <2> QED
    BY <2>4 DEF Contract!Next
<1>8. CASE Acquire(w) \/ GiveUp(w) \/ Ready(w) \/ NotReady(w) \/ Release(w)
  <2>1. UNCHANGED <<scraped, registered>>
    BY <1>8 DEF Acquire, GiveUp, Ready, NotReady, Release, requestVars
  <2> QED
    BY <1>2, <2>1, StuttersWhen
<1> QED
  BY <1>6, <1>7, <1>8 DEF WorkerStep

\* The server keeps the contract of every request, whatever the other requests
\* and the routers do.
THEOREM ContractImplemented == Spec => ScrapeContractHolds
<1>1. Init => Contract!Init /\ FreshInv
  <2> SUFFICES ASSUME Init PROVE Contract!Init /\ FreshInv
    OBVIOUS
  <2>1. RequestPhase = [q \in Requests |-> "new"]
    BY PhaseValues DEF Init, RequestPhase
  <2>2. Owed = [q \in Requests |-> {}]
    BY PhaseValues DEF Init, Owed
  <2> QED
    BY <2>1, <2>2 DEF Init, Contract!Init, FreshInv
<1>2. Typed /\ AnswerInv /\ ScrapedInv /\ FreshInv /\ [Next]_vars => [Contract!Next]_(Contract!vars)
  <2> SUFFICES ASSUME Typed, AnswerInv, ScrapedInv, FreshInv, [Next]_vars
               PROVE  Contract!Next \/ Stutters
    BY DEF Contract!vars, Stutters
  <2> USE PhaseValues
  <2>0. /\ handler \in [Requests -> HandlerStates]
        /\ scraped \in [Requests -> SUBSET Routers]
        /\ pending \in [Requests -> SUBSET Routers]
    BY DEF Typed, TypeOK
  <2>1. ASSUME NEW q \in Requests, ArriveMetrics(q) \/ ArriveProbe(q) \/ Deferred(q)
        PROVE  Contract!Next
    <3>1. PICK to \in {"setup", "waiting", "returned"} :
            /\ Goes(q, "idle", to)
            /\ to = "returned" => Answers(q, "429")
            /\ to # "returned" => UNCHANGED reply
            /\ UNCHANGED <<scraped, registered, pending>>
      BY <2>1 DEF ArriveMetrics, ArriveProbe, Deferred
    <3>2. /\ RequestPhase[q] = "new"
          /\ RequestPhase' = [RequestPhase EXCEPT ![q] = PhaseOf(to)]
          /\ handler'[q] = to /\ handler[q] = "idle"
      <4>1. "idle" \in HandlerStates /\ to \in HandlerStates
        BY DEF HandlerStates
      <4>2. Goes(q, "idle", to) /\ handler[q] = "idle"
        BY <3>1 DEF Goes
      <4> QED
        BY <2>0, <4>1, <4>2, PhaseMoves
    <3>3. UNCHANGED Owed
      <4>1. Owed[q] = {} /\ scraped[q] = {} /\ pending[q] = {}
        BY <2>0, <3>2, OwedValues DEF FreshInv, AnswerInv, HandlerStates
      <4>2. \A p \in Requests \ {q} : /\ handler'[p] = handler[p]
                                      /\ scraped'[p] = scraped[p]
                                      /\ pending'[p] = pending[p]
        BY <2>0, <3>1 DEF Goes
      <4>3. Owed' = [Owed EXCEPT ![q] = Owed'[q]] /\ Owed'[q] = {}
        BY <3>1, <4>1, <4>2, OwedMoves
      <4> QED
        BY <4>1, <4>3, OwedKept
    <3>4. CASE to = "returned"
      <4>1. Contract!Refuse(q)
        BY <3>1, <3>2, <3>3, <3>4 DEF Contract!Refuse, Contract!Enters, Answers
      <4> QED
        BY <4>1 DEF Contract!Next
    <3>5. CASE to # "returned"
      <4>1. Contract!Accept(q)
        BY <3>1, <3>2, <3>3, <3>5 DEF Contract!Accept, Contract!Enters
      <4> QED
        BY <4>1 DEF Contract!Next
    <3> QED
      BY <3>4, <3>5
  <2>2. ASSUME NEW q \in Requests, NEW r \in Routers, IsDone(q, r) PROVE Contract!Next
    <3>1. /\ r \in pending[q] /\ handler[q] = "finalize"
          /\ UNCHANGED <<handler, reply, scraped, registered>>
          /\ pending' = [pending EXCEPT ![q] = @ \ {r}]
      BY <2>2 DEF IsDone, AnswerInv
    <3>2. RequestPhase[q] = "finalizing" /\ UNCHANGED RequestPhase /\ Owed[q] = pending[q]
      BY <2>0, <3>1, OwedValues DEF RequestPhase, HandlerStates
    <3>3. Owed' = [Owed EXCEPT ![q] = @ \ {r}]
      <4>1. Owed' = [Owed EXCEPT ![q] = Owed'[q]] /\ Owed'[q] = pending'[q]
        BY <2>0, <3>1, OwedMoves
      <4>2. pending'[q] = Owed[q] \ {r}
        BY <2>0, <3>1, <3>2
      <4> QED
        BY <4>1, <4>2 DEF Owed
    <3>4. Contract!Finalize(q, r)
      BY <3>1, <3>2, <3>3 DEF Contract!Finalize
    <3> QED
      BY <3>4 DEF Contract!Next
  <2>3. ASSUME NEW q \in Requests, Expire(q) \/ \E r \in Routers : CollectionEnds(q, r)
        PROVE  Stutters
    BY <2>3, StuttersWhen DEF Expire, CollectionEnds
  <2>4. CASE IntervalPasses \/ (\E r \in Routers : LinkDrops(r)) \/ UNCHANGED vars
    BY <2>4, StuttersWhen DEF IntervalPasses, LinkDrops, vars, requestVars
  <2> QED
    BY <2>1, <2>2, <2>3, <2>4, HandlerContract, WorkerContract DEF Next, Jobs
<1> QED
  BY <1>1, <1>2, InvAlways, FreshStep, PTL DEF Spec, ScrapeContractHolds, Contract!Spec
=============================================================================
