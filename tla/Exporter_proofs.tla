---------------------------- MODULE Exporter_proofs ----------------------------
(***************************************************************************)
(* Proofs about Exporter, for every set of requests and routers: it is a   *)
(* Server, so what is proved of Server holds of it, and no request is cut  *)
(* off from a router but by another that has finalized it.                 *)
(***************************************************************************)
EXTENDS Exporter, Server_proofs

\* Every step is one of Server, or one it does not see.
LEMMA ServerStep == [ExporterNext]_exporterVars => [Next]_vars
<1> SUFFICES ASSUME [ExporterNext]_exporterVars PROVE [Next]_vars
  OBVIOUS
<1>1. ASSUME NEW q \in Requests, Arrives(q) \/ HandlerAlone(q) PROVE Next
  BY <1>1 DEF Arrives, HandlerAlone, Next, HandlerStep
<1>2. ASSUME NEW w \in Jobs, WorkerAlone(w) PROVE Next
  BY <1>2 DEF WorkerAlone, Next, WorkerStep, Jobs
<1>3. ASSUME NEW q \in Requests, NEW r \in Routers, RouterStep(q, r) PROVE [Next]_vars
  <2>1. CASE StartDial(q, r) \/ StartCall(q, r) \/ CallRefused(q, r) \/ CallEnds(q, r)
    BY <2>1 DEF StartDial, StartCall, CallRefused, CallEnds
  <2>2. CASE IsReady(q, r)
    <3>1. <<q, r>> \in Requests \X Routers
      OBVIOUS
    <3> QED
      BY <2>2, <3>1 DEF IsReady, Next, WorkerStep, HandlerStep
  <2>3. CASE CallFails(q, r)
    BY <2>3 DEF CallFails, Next
  <2>4. CASE CollectorsEnd(q, r) \/ FinalizeRouter(q, r)
    BY <2>4 DEF CollectorsEnd, FinalizeRouter, Next
  <2> QED
    BY <1>3, <2>1, <2>2, <2>3, <2>4 DEF RouterStep
<1>4. CASE IntervalPasses
  BY <1>4 DEF Next
<1>5. CASE UNCHANGED exporterVars
  BY <1>5 DEF exporterVars
<1> QED
  BY <1>1, <1>2, <1>3, <1>4, <1>5 DEF ExporterNext, Jobs

\* What is proved of Server is true of the exporter.
THEOREM ExporterIsServer == ExporterSpec => Spec
<1>1. ExporterInit => Init
  BY DEF ExporterInit
<1> QED
  BY <1>1, ServerStep, PTL DEF ExporterSpec, Spec

-----------------------------------------------------------------------------
(* A session that was found and that the router has not ended is up, or    *)
(* was closed by a request that found the router too.                      *)

Finalized(r) == ~PersistentPool /\ \E p \in Requests : r \in scraped[p] /\ reply[p] # "none"

SoundInv ==
  /\ sound \subseteq Jobs
  /\ \A q \in Requests, r \in Routers : <<q, r>> \in sound => r \in up \/ Finalized(r)

\* Who is still to be finalized was found, by a request that was answered.
PendingInv ==
  \A q \in Requests : pending[q] \subseteq scraped[q] /\ (pending[q] # {} => reply[q] # "none")

CutInv == cutOff \subseteq Jobs /\ CutOffByOthersAlone

\* A router that was found stays found, and an answer is not taken back.
LEMMA FoundKept ==
  ASSUME Typed, AnswerInv, FreshInv, [Next]_vars, NEW p \in Requests
  PROVE  scraped[p] \subseteq scraped'[p] /\ (reply[p] # "none" => reply'[p] # "none")
<1> USE DEF Typed, TypeOK, Goes, Works, Answers
<1>1. ASSUME NEW q \in Requests,
             ArriveMetrics(q) \/ ArriveProbe(q) \/ Deferred(q) \/ Expire(q)
      PROVE  scraped[p] \subseteq scraped'[p] /\ (reply[p] # "none" => reply'[p] # "none")
  BY <1>1 DEF ArriveMetrics, ArriveProbe, Deferred, Expire
<1>2. ASSUME NEW q \in Requests, HandlerStep(q)
      PROVE  scraped[p] \subseteq scraped'[p] /\ (reply[p] # "none" => reply'[p] # "none")
  <2>1. CASE ProbeReady(q)
    BY <2>1 DEF ProbeReady, FreshInv
  <2>2. CASE ~ProbeReady(q)
    BY <1>2, <2>2 DEF HandlerStep, SetupDone, SetupTimesOut, ProbeAcquire, ProbeGivesUp,
      ProbeNotReady, GatherDone, GatherTimesOut, Return
  <2> QED
    BY <2>1, <2>2
<1>3. ASSUME NEW q \in Requests, NEW r \in Routers, CollectionEnds(q, r) \/ IsDone(q, r)
      PROVE  scraped[p] \subseteq scraped'[p] /\ (reply[p] # "none" => reply'[p] # "none")
  BY <1>3 DEF CollectionEnds, IsDone
<1>4. ASSUME NEW w \in Jobs, WorkerStep(w)
      PROVE  scraped[p] \subseteq scraped'[p] /\ (reply[p] # "none" => reply'[p] # "none")
  <2>1. UNCHANGED reply
    BY <1>4, WorkerFrame
  <2>2. scraped[p] \subseteq scraped'[p]
    BY <1>4 DEF WorkerStep, Acquire, GiveUp, Ready, NotReady, Append, Register, Release,
      requestVars
  <2> QED
    BY <2>1, <2>2
<1>5. CASE IntervalPasses \/ (\E r \in Routers : LinkDrops(r)) \/ UNCHANGED vars
  BY <1>5 DEF IntervalPasses, LinkDrops, vars, requestVars
<1> QED
  BY <1>1, <1>2, <1>3, <1>4, <1>5 DEF Next, Jobs

LEMMA PendingStep ==
  Typed /\ AnswerInv /\ FreshInv /\ PendingInv /\ [Next]_vars => PendingInv'
<1> DEFINE Final(p) == pending'[p] \subseteq scraped'[p] /\ (pending'[p] # {} => reply'[p] # "none")
<1> SUFFICES ASSUME Typed, AnswerInv, FreshInv, PendingInv, [Next]_vars, NEW p \in Requests
             PROVE  Final(p)
  BY DEF PendingInv
<1>0. /\ scraped[p] \subseteq scraped'[p] /\ pending[p] \subseteq scraped[p]
      /\ reply[p] # "none" => reply'[p] # "none"
      /\ pending[p] # {} => reply[p] # "none"
  BY FoundKept DEF PendingInv
<1> USE DEF Typed, TypeOK, Goes, Works, Answers
<1>1. ASSUME NEW q \in Requests,
             ArriveMetrics(q) \/ ArriveProbe(q) \/ Deferred(q) \/ Expire(q)
      PROVE  Final(p)
  BY <1>0, <1>1 DEF ArriveMetrics, ArriveProbe, Deferred, Expire
<1>2. ASSUME NEW q \in Requests, HandlerStep(q) PROVE Final(p)
  <2>1. CASE SetupTimesOut(q) \/ GatherDone(q) \/ GatherTimesOut(q)
    BY <1>0, <2>1 DEF SetupTimesOut, GatherDone, GatherTimesOut
  <2>2. CASE ~(SetupTimesOut(q) \/ GatherDone(q) \/ GatherTimesOut(q))
    <3>1. UNCHANGED pending
      BY <1>2, <2>2 DEF HandlerStep, SetupDone, ProbeAcquire, ProbeGivesUp, ProbeReady,
        ProbeNotReady, Return
    <3> QED
      BY <1>0, <3>1
  <2> QED
    BY <2>1, <2>2
<1>3. ASSUME NEW q \in Requests, NEW r \in Routers, CollectionEnds(q, r) \/ IsDone(q, r)
      PROVE  Final(p)
  BY <1>0, <1>3 DEF CollectionEnds, IsDone
<1>4. ASSUME NEW w \in Jobs, WorkerStep(w) PROVE Final(p)
  <2>1. UNCHANGED pending
    BY <1>4, WorkerFrame
  <2> QED
    BY <1>0, <2>1
<1>5. CASE IntervalPasses \/ (\E r \in Routers : LinkDrops(r)) \/ UNCHANGED vars
  BY <1>0, <1>5 DEF IntervalPasses, LinkDrops, vars, requestVars
<1> QED
  BY <1>1, <1>2, <1>3, <1>4, <1>5 DEF Next, Jobs

\* Who was finalized with a router stays so.
LEMMA FinalizedKept ==
  ASSUME Typed, AnswerInv, FreshInv, [Next]_vars, NEW r, Finalized(r)
  PROVE  Finalized(r)'
BY FoundKept DEF Finalized

\* A router leaves up only by a call that fails, or by an IsDone.
LEMMA SoundStep ==
  ASSUME Typed, AnswerInv, FreshInv, PendingInv, SoundInv, [ExporterNext]_exporterVars
  PROVE  SoundInv'
<1>0. [Next]_vars
  BY ServerStep
<1>1. up \subseteq Routers
  BY DEF Typed, TypeOK
<1>2. ASSUME NEW q \in Requests, NEW r \in Routers, <<q, r>> \in sound, r \in up => r \in up'
      PROVE  r \in up' \/ Finalized(r)'
  BY <1>0, <1>2, FinalizedKept DEF SoundInv
<1>3. ASSUME UNCHANGED sound, up \subseteq up' PROVE SoundInv'
  BY <1>2, <1>3 DEF SoundInv
<1>4. ASSUME NEW q \in Requests, Arrives(q) \/ HandlerAlone(q) PROVE SoundInv'
  BY <1>3, <1>4 DEF Arrives, HandlerAlone, jobVars, ArriveMetrics, ArriveProbe, Deferred, Expire,
    SetupDone, SetupTimesOut, ProbeAcquire, ProbeGivesUp, GatherDone, GatherTimesOut, Return
<1>5. ASSUME NEW w \in Jobs, WorkerAlone(w) PROVE SoundInv'
  BY <1>3, <1>5 DEF WorkerAlone, jobVars, Acquire, GiveUp, Append, Register, Release, requestVars
<1>6. ASSUME NEW q \in Requests, NEW r \in Routers, RouterStep(q, r) PROVE SoundInv'
  <2>1. CASE StartDial(q, r) \/ StartCall(q, r) \/ CallRefused(q, r) \/ CallEnds(q, r)
    BY <1>3, <2>1 DEF StartDial, StartCall, CallRefused, CallEnds, vars
  <2>2. CASE IsReady(q, r)
    <3>1. up \subseteq up'
      BY <2>2 DEF IsReady, Ready, NotReady, ProbeReady, ProbeNotReady, MayConnect
    <3>2. sound' = IF r \in up' THEN sound \cup {<<q, r>>} ELSE sound
      BY <2>2 DEF IsReady
    <3>3. sound' \subseteq Jobs
      BY <3>2 DEF SoundInv, Jobs
    <3>4. ASSUME NEW p \in Requests, NEW s \in Routers, <<p, s>> \in sound'
          PROVE  s \in up' \/ Finalized(s)'
      BY <1>2, <3>1, <3>2, <3>4
    <3> QED
      BY <3>3, <3>4 DEF SoundInv
  <2>3. CASE CallFails(q, r)
    <3>1. up' = up \ {r} /\ sound' = sound \ (Requests \X {r})
      BY <2>3 DEF CallFails, LinkDrops
    <3>2. ASSUME NEW p \in Requests, NEW s \in Routers, <<p, s>> \in sound'
          PROVE  s \in up' \/ Finalized(s)'
      BY <1>2, <3>1, <3>2
    <3> QED
      BY <3>1, <3>2 DEF SoundInv
  <2>4. CASE CollectorsEnd(q, r)
    BY <1>3, <2>4 DEF CollectorsEnd, jobVars, CollectionEnds
  <2>5. CASE FinalizeRouter(q, r)
    <3>1. UNCHANGED <<sound, scraped, reply>> /\ r \in pending[q] /\ IsDone(q, r)
      BY <2>5 DEF FinalizeRouter, jobVars, IsDone
    <3>2. CASE PersistentPool
      BY <1>3, <3>1, <3>2 DEF IsDone
    <3>3. CASE ~PersistentPool
      <4>1. up' = up \ {r}
        BY <3>1, <3>3 DEF IsDone
      <4>2. r \in scraped[q] /\ reply[q] # "none"
        BY <3>1 DEF PendingInv
      <4>3. Finalized(r)'
        BY <3>1, <3>3, <4>2 DEF Finalized
      <4>4. ASSUME NEW p \in Requests, NEW s \in Routers, <<p, s>> \in sound'
            PROVE  s \in up' \/ Finalized(s)'
        BY <1>2, <3>1, <4>1, <4>3, <4>4
      <4> QED
        BY <3>1, <4>4 DEF SoundInv
    <3> QED
      BY <3>2, <3>3
  <2> QED
    BY <1>6, <2>1, <2>2, <2>3, <2>4, <2>5 DEF RouterStep
<1>7. CASE (IntervalPasses /\ UNCHANGED jobVars) \/ UNCHANGED exporterVars
  BY <1>3, <1>7 DEF IntervalPasses, jobVars, exporterVars, vars
<1> QED
  BY <1>4, <1>5, <1>6, <1>7 DEF ExporterNext, Jobs

LEMMA CutStep ==
  ASSUME Typed, AnswerInv, FreshInv, SoundInv, CutInv, [ExporterNext]_exporterVars
  PROVE  CutInv'
<1>0. [Next]_vars
  BY ServerStep
\* The cause that was found for a job still holds.
<1>1. ASSUME NEW q \in Requests, NEW r \in Routers, ~PersistentPool,
             \E p \in Requests \ {q} : r \in scraped[p] /\ reply[p] # "none"
      PROVE  \E p \in Requests \ {q} : r \in scraped'[p] /\ reply'[p] # "none"
  BY <1>0, <1>1, FoundKept
<1>2. ASSUME UNCHANGED cutOff PROVE CutInv'
  BY <1>1, <1>2 DEF CutInv, CutOffByOthersAlone, Jobs
<1>3. ASSUME NEW q \in Requests, NEW r \in Routers, CallRefused(q, r) PROVE CutInv'
  <2>1. CASE UNCHANGED cutOff
    BY <1>2, <2>1
  <2>2. CASE cutOff' # cutOff
    <3>1. /\ <<q, r>> \in sound /\ handler[q] = "gather" /\ r \notin up
          /\ cutOff' = cutOff \cup {<<q, r>>}
      BY <1>3, <2>2 DEF CallRefused
    <3>2. Finalized(r) /\ reply[q] = "none"
      BY <3>1 DEF SoundInv, AnswerInv
    <3>3. \E p \in Requests \ {q} : r \in scraped'[p] /\ reply'[p] # "none"
      BY <1>1, <3>2 DEF Finalized
    <3>4. \A p \in Requests, s \in Routers : <<p, s>> \in cutOff' =>
            ~PersistentPool /\ \E o \in Requests \ {p} : s \in scraped'[o] /\ reply'[o] # "none"
      BY <1>1, <3>1, <3>2, <3>3 DEF Finalized, CutInv, CutOffByOthersAlone
    <3>5. cutOff' \subseteq Jobs
      BY <3>1 DEF CutInv, Jobs
    <3> QED
      BY <3>4, <3>5 DEF CutInv, CutOffByOthersAlone, Jobs
  <2> QED
    BY <2>1, <2>2
<1>4. ASSUME NEW q \in Requests, NEW r \in Routers, RouterStep(q, r), ~CallRefused(q, r)
      PROVE  CutInv'
  BY <1>2, <1>4 DEF RouterStep, StartDial, IsReady, StartCall, CallEnds, CallFails, CollectorsEnd,
    FinalizeRouter, jobVars
<1>5. ASSUME NEW q \in Requests, Arrives(q) \/ HandlerAlone(q) PROVE CutInv'
  BY <1>2, <1>5 DEF Arrives, HandlerAlone, jobVars
<1>6. ASSUME NEW w \in Jobs, WorkerAlone(w) PROVE CutInv'
  BY <1>2, <1>6 DEF WorkerAlone, jobVars
<1>7. CASE (IntervalPasses /\ UNCHANGED jobVars) \/ UNCHANGED exporterVars
  BY <1>2, <1>7 DEF jobVars, exporterVars
<1> QED
  BY <1>3, <1>4, <1>5, <1>6, <1>7 DEF ExporterNext, Jobs

\* A request that found a session loses it, while it collects and the router has
\* not ended it, only to the IsDone of another request without the pool.
THEOREM CutOffsExplained == ExporterSpec => []CutOffByOthersAlone
<1>1. ExporterInit => FreshInv /\ PendingInv /\ SoundInv /\ CutInv
  BY DEF ExporterInit, Init, FreshInv, PendingInv, SoundInv, CutInv, CutOffByOthersAlone
<1>2. CutInv => CutOffByOthersAlone
  BY DEF CutInv
<1>3. ExporterSpec => [](Typed /\ AnswerInv)
  BY ExporterIsServer, InvAlways, PTL
<1>4. Typed /\ AnswerInv /\ FreshInv /\ PendingInv /\ SoundInv /\ CutInv /\ [ExporterNext]_exporterVars
        => FreshInv' /\ PendingInv' /\ SoundInv' /\ CutInv'
  BY ServerStep, FreshStep, PendingStep, SoundStep, CutStep
<1> QED
  BY <1>1, <1>2, <1>3, <1>4, PTL DEF ExporterSpec

-----------------------------------------------------------------------------
(* The mutex: a request collects from a router only when its goroutines    *)
(* have ended, so who holds the mutex is in a dial or in a call.           *)

CollectInv ==
  \A q \in Requests : collecting[q] # {} =>
    /\ handler[q] \in {"gather", "finalize", "returned"}
    /\ \A r \in Routers : worker[<<q, r>>] \in {"none", "done"}

LEMMA CollectStep == Typed /\ AnswerInv /\ CollectInv /\ [Next]_vars => CollectInv'
<1> SUFFICES ASSUME Typed, AnswerInv, CollectInv, [Next]_vars PROVE CollectInv'
  OBVIOUS
<1> USE DEF Typed, TypeOK, Goes, Works, Jobs, CollectInv
<1>1. ASSUME NEW q \in Requests,
             ArriveMetrics(q) \/ ArriveProbe(q) \/ Deferred(q) \/ Expire(q)
      PROVE  CollectInv'
  BY <1>1 DEF ArriveMetrics, ArriveProbe, Deferred, Expire
<1>2. ASSUME NEW q \in Requests, HandlerStep(q) PROVE CollectInv'
  <2>1. CASE SetupDone(q) BY <2>1 DEF SetupDone, WorkersOf
  <2>2. CASE ProbeReady(q) BY <2>2 DEF ProbeReady, KindInv, Probes, Metrics
  <2>3. CASE ~(SetupDone(q) \/ ProbeReady(q))
    BY <1>2, <2>3 DEF HandlerStep, SetupTimesOut, ProbeAcquire, ProbeGivesUp, ProbeNotReady,
      GatherDone, GatherTimesOut, Return
  <2> QED
    BY <2>1, <2>2, <2>3
<1>3. ASSUME NEW q \in Requests, NEW r \in Routers, CollectionEnds(q, r) \/ IsDone(q, r)
      PROVE  CollectInv'
  BY <1>3 DEF CollectionEnds, IsDone
<1>4. ASSUME NEW w \in Jobs, WorkerStep(w) PROVE CollectInv'
  <2>1. UNCHANGED <<handler, collecting>> /\ worker[w] \notin {"none", "done"}
    BY <1>4, WorkerFrame
  <2>2. collecting[w[1]] = {}
    BY <2>1
  <2>3. \A v \in Jobs : v # w => worker'[v] = worker[v]
    BY <1>4, WorkerFrame
  <2> QED
    BY <2>1, <2>2, <2>3
<1>5. CASE IntervalPasses \/ (\E r \in Routers : LinkDrops(r)) \/ UNCHANGED vars
  BY <1>5 DEF IntervalPasses, LinkDrops, vars, requestVars
<1> QED
  BY <1>1, <1>2, <1>3, <1>4, <1>5 DEF Next

\* A step that moves no mutex, session or collection keeps the invariant, if
\* no request that holds a mutex begins or ends to ask.
LEMMA MutexKept ==
  ASSUME MutexReturned, UNCHANGED <<lock, up>>,
         \A q \in Requests, r \in Routers : lock[r] = q =>
           /\ Asking(q, r)' <=> Asking(q, r)
           /\ r \in collecting[q] => r \in collecting'[q]
  PROVE  MutexReturned'
BY DEF MutexReturned

LEMMA MutexStep ==
  ASSUME Typed, AnswerInv, CollectInv, MutexReturned, [ExporterNext]_exporterVars
  PROVE  MutexReturned'
<1> USE ExporterAssumption
<1> USE DEF Typed, TypeOK, Goes, Works
<1>1. ASSUME NEW q \in Requests, Arrives(q) PROVE MutexReturned'
  <2>1. UNCHANGED <<lock, up, collecting>>
    BY <1>1 DEF Arrives, jobVars, ArriveMetrics, ArriveProbe, Deferred, Expire
  <2>2. \A p \in Requests, r \in Routers : Asking(p, r)' <=> Asking(p, r)
    BY <1>1 DEF Arrives, ArriveMetrics, ArriveProbe, Deferred, Expire, Asking, KindInv, Jobs
  <2> QED
    BY <2>1, <2>2, MutexKept
<1>2. ASSUME NEW q \in Requests, HandlerAlone(q) PROVE MutexReturned'
  <2>1. UNCHANGED <<lock, up>>
    BY <1>2 DEF HandlerAlone, jobVars, SetupDone, SetupTimesOut, ProbeAcquire, ProbeGivesUp,
      GatherDone, GatherTimesOut, Return
  <2>2. CASE SetupDone(q)
    <3>1. collecting[q] = {} /\ UNCHANGED worker /\ collecting' = [collecting EXCEPT ![q] = registered[q]]
      BY <2>2 DEF SetupDone, CollectInv
    <3>2. \A p \in Requests, r \in Routers : Asking(p, r)' <=> Asking(p, r)
      BY <2>2, <3>1 DEF SetupDone, Asking
    <3>3. \A p \in Requests, r \in Routers : r \in collecting[p] => r \in collecting'[p]
      BY <3>1
    <3> QED
      BY <2>1, <3>2, <3>3, MutexKept
  <2>3. CASE ProbeAcquire(q)
    <3>1. UNCHANGED <<worker, collecting>> /\ handler[q] = "waiting" /\ q \in Probes
          /\ handler' = [handler EXCEPT ![q] = "asking"]
      BY <2>3 DEF ProbeAcquire, KindInv, Probes
    <3>2. collecting[q] = {} /\ \A r \in Routers : worker[<<q, r>>] = "none"
      BY <3>1 DEF CollectInv, KindInv, Jobs
    <3>3. \A r \in Routers : lock[r] # q
      BY <3>1, <3>2 DEF MutexReturned, Asking
    <3>4. \A p \in Requests, r \in Routers : lock[r] = p => (Asking(p, r)' <=> Asking(p, r))
      BY <3>1, <3>3 DEF Asking
    <3> QED
      BY <2>1, <3>1, <3>4, MutexKept
  <2>4. CASE ~SetupDone(q) /\ ~ProbeAcquire(q)
    <3>1. UNCHANGED <<worker, collecting>>
      BY <1>2, <2>4 DEF HandlerAlone, SetupTimesOut, ProbeGivesUp, GatherDone, GatherTimesOut, Return
    <3>2. \A p \in Requests : handler'[p] = "asking" <=> handler[p] = "asking"
      BY <1>2, <2>4 DEF HandlerAlone, SetupTimesOut, ProbeGivesUp, GatherDone, GatherTimesOut, Return
    <3>3. \A p \in Requests, r \in Routers : Asking(p, r)' <=> Asking(p, r)
      BY <3>1, <3>2 DEF Asking
    <3> QED
      BY <2>1, <3>1, <3>3, MutexKept
  <2> QED
    BY <2>2, <2>3, <2>4
<1>3. ASSUME NEW w \in Jobs, WorkerAlone(w) PROVE MutexReturned'
  <2>0. PICK q \in Requests, r \in Routers : w = <<q, r>>
    BY DEF Jobs
  <2>1. UNCHANGED <<lock, up, handler, collecting>>
    BY <1>3 DEF WorkerAlone, jobVars, Acquire, GiveUp, Append, Register, Release, requestVars
  <2>2. CASE Acquire(w)
    <3>1. worker[w] = "queued" /\ worker' = [worker EXCEPT ![w] = "asking"]
      BY <2>2 DEF Acquire
    <3>2. collecting[q] = {} /\ handler[q] # "asking"
      BY <2>0, <3>1 DEF CollectInv, AnswerInv, Jobs, KindInv, Probes
    <3>3. lock[r] # q
      BY <2>0, <3>1, <3>2 DEF MutexReturned, Asking
    <3>4. \A p \in Requests, s \in Routers : lock[s] = p => (Asking(p, s)' <=> Asking(p, s))
      BY <2>0, <2>1, <3>1, <3>3 DEF Asking
    <3> QED
      BY <2>1, <3>4, MutexKept
  <2>3. CASE ~Acquire(w)
    <3>1. \A v \in Jobs : worker'[v] = "asking" <=> worker[v] = "asking"
      BY <1>3, <2>3 DEF WorkerAlone, GiveUp, Append, Register, Release, Jobs
    <3>2. \A p \in Requests, s \in Routers : Asking(p, s)' <=> Asking(p, s)
      BY <2>1, <3>1 DEF Asking, Jobs
    <3> QED
      BY <2>1, <3>2, MutexKept
  <2> QED
    BY <2>2, <2>3
<1>4. ASSUME NEW q \in Requests, NEW r \in Routers, RouterStep(q, r) PROVE MutexReturned'
  <2>1. CASE StartDial(q, r)
    <3>1. UNCHANGED <<up, worker, handler, collecting>> /\ Asking(q, r) /\ r \notin up
          /\ lock[r] = Free /\ lock' = [lock EXCEPT ![r] = q]
      BY <2>1 DEF StartDial, Locks, vars, requestVars
    <3> QED
      BY <3>1 DEF MutexReturned, Asking
  <2>2. CASE StartCall(q, r)
    <3>1. UNCHANGED <<up, worker, handler, collecting>> /\ r \in collecting[q] /\ r \in up
          /\ lock[r] = Free /\ lock' = [lock EXCEPT ![r] = q]
      BY <2>2 DEF StartCall, Locks, vars, requestVars
    <3>2. ~Asking(q, r)
      BY <3>1 DEF CollectInv, Asking
    <3> QED
      BY <3>1, <3>2 DEF MutexReturned, Asking
  <2>3. CASE CallRefused(q, r)
    BY <2>3, MutexKept DEF CallRefused, vars, requestVars, Asking
  <2>4. CASE CallEnds(q, r)
    <3>1. UNCHANGED <<up, worker, handler, collecting>> /\ lock' = [lock EXCEPT ![r] = Free]
      BY <2>4 DEF CallEnds, Unlocks, vars, requestVars
    <3> QED
      BY <3>1 DEF MutexReturned, Asking
  <2>5. CASE CallFails(q, r)
    <3>1. UNCHANGED <<worker, handler, collecting>> /\ lock' = [lock EXCEPT ![r] = Free]
          /\ up' = up \ {r}
      BY <2>5 DEF CallFails, LinkDrops, Unlocks, requestVars
    <3> QED
      BY <3>1 DEF MutexReturned, Asking
  <2>6. CASE CollectorsEnd(q, r)
    <3>1. UNCHANGED <<lock, up, worker, handler>> /\ collecting' = [collecting EXCEPT ![q] = @ \ {r}]
          /\ lock[r] # q
      BY <2>6 DEF CollectorsEnd, Calling, CollectionEnds, jobVars
    <3> QED
      BY <3>1, MutexKept DEF Asking
  <2>7. CASE FinalizeRouter(q, r)
    <3>1. /\ UNCHANGED <<lock, worker, handler, collecting>>
          /\ UNCHANGED up \/ (lock[r] = Free /\ up' = up \ {r})
      BY <2>7 DEF FinalizeRouter, IsDone, jobVars
    <3> QED
      BY <3>1 DEF MutexReturned, Asking
  <2>8. CASE IsReady(q, r)
    <3>1. /\ lock' = [lock EXCEPT ![r] = Free]
          /\ lock[r] = q \/ lock[r] = Free
      BY <2>8 DEF IsReady, Unlocks, MutexReturned
    <3>2. UNCHANGED up \/ up' = up \cup {r}
      BY <2>8 DEF IsReady, Ready, NotReady, ProbeReady, ProbeNotReady, MayConnect
    <3>3. \A s \in Routers : s # r => lock'[s] = lock[s] /\ (s \in up' <=> s \in up)
      BY <3>1, <3>2 DEF MutexReturned
    <3>4. ASSUME NEW p \in Requests, NEW s \in Routers, s # r, lock[s] = p
          PROVE  /\ Asking(p, s)' <=> Asking(p, s)
                 /\ s \in collecting[p] => s \in collecting'[p]
      <4>1. CASE Ready(<<q, r>>) \/ NotReady(<<q, r>>)
        BY <3>4, <4>1 DEF Ready, NotReady, requestVars, Asking, Jobs
      <4>2. CASE Target[q] = r /\ (ProbeReady(q) \/ ProbeNotReady(q))
        <5>1. UNCHANGED worker /\ handler[q] = "asking"
          BY <4>2 DEF ProbeReady, ProbeNotReady
        <5>2. \A o \in Requests : o # q => handler'[o] = handler[o] /\ collecting'[o] = collecting[o]
          BY <4>2 DEF ProbeReady, ProbeNotReady
        <5>3. collecting[q] = {}
          BY <5>1 DEF CollectInv
        <5> QED
          BY <3>4, <4>2, <5>1, <5>2, <5>3 DEF Asking
      <4> QED
        BY <2>8, <4>1, <4>2 DEF IsReady
    <3>5. lock'[r] = Free /\ lock' \in [Routers -> Requests \cup {Free}]
      BY <3>1 DEF MutexReturned
    <3> QED
      BY <3>3, <3>4, <3>5 DEF MutexReturned
  <2> QED
    BY <1>4, <2>1, <2>2, <2>3, <2>4, <2>5, <2>6, <2>7, <2>8 DEF RouterStep
<1>5. CASE (IntervalPasses /\ UNCHANGED jobVars) \/ UNCHANGED exporterVars
  BY <1>5, MutexKept DEF IntervalPasses, jobVars, exporterVars, vars, requestVars, Asking
<1> QED
  BY <1>1, <1>2, <1>3, <1>4, <1>5 DEF ExporterNext, Jobs

\* The mutex of a connection is released on every path.
THEOREM MutexAlwaysReturned == ExporterSpec => []MutexReturned
<1>1. ExporterInit => CollectInv /\ MutexReturned
  BY ExporterAssumption DEF ExporterInit, Init, CollectInv, MutexReturned
<1>2. ExporterSpec => [](Typed /\ AnswerInv)
  BY ExporterIsServer, InvAlways, PTL
<1>3. Typed /\ AnswerInv /\ CollectInv /\ MutexReturned /\ [ExporterNext]_exporterVars
        => CollectInv' /\ MutexReturned'
  BY ServerStep, CollectStep, MutexStep
<1> QED
  BY <1>1, <1>2, <1>3, PTL DEF ExporterSpec
=============================================================================
