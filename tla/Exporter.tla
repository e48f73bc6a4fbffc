------------------------------- MODULE Exporter -------------------------------
(***************************************************************************)
(* Requests and connections together: the handlers, goroutines and         *)
(* semaphore of Server, and the mutex each Connection is used under        *)
(* (Connect, Run and Disconnect of internal/routeros/connection.go).  What *)
(* Server takes as one step, a dial or the calls of a collector, is a      *)
(* stretch of time in which one request keeps the mutex of the router, and *)
(* IsReady, Run and IsDone of all other requests wait.                     *)
(*                                                                         *)
(* The collectors of a request make their calls to a router one after the  *)
(* other, as many as they like.  RunStream has its own session: Connection *)
(* has it.  The semaphore, the spacing of collections and the readiness of *)
(* remote entries are those of Server.                                     *)
(***************************************************************************)
EXTENDS Server

CONSTANT Free  \* no request holds the mutex

ASSUME ExporterAssumption == Free \notin Requests

VARIABLES
  lock,   \* the request that holds the mutex of a router's connection
  sound,  \* jobs that found a session their router has not ended since
  cutOff  \* jobs that were refused a call all the same, before their answer

jobVars == <<lock, sound, cutOff>>
exporterVars == <<vars, jobVars>>

ExporterInit ==
  /\ Init
  /\ lock = [r \in Routers |-> Free]
  /\ sound = {}
  /\ cutOff = {}

Locks(q, r) == lock[r] = Free /\ lock' = [lock EXCEPT ![r] = q]
Unlocks(q, r) == lock[r] = q /\ lock' = [lock EXCEPT ![r] = Free]

-----------------------------------------------------------------------------
(* IsReady: IsConnected, and Connect, which dials under the mutex *)

Asking(q, r) == worker[<<q, r>>] = "asking" \/ (handler[q] = "asking" /\ Target[q] = r)

StartDial(q, r) ==
  /\ Asking(q, r)
  /\ r \notin up
  /\ Locks(q, r)
  /\ UNCHANGED <<vars, sound, cutOff>>

\* The dial has ended, by a session, an error, the socket timeout or the end of
\* the context, or was not needed, or is held back by the backoff.
IsReady(q, r) ==
  /\ Asking(q, r)
  /\ Unlocks(q, r) \/ (lock[r] = Free /\ r \in up /\ UNCHANGED lock)
  /\ \/ Ready(<<q, r>>)
     \/ NotReady(<<q, r>>)
     \/ Target[q] = r /\ (ProbeReady(q) \/ ProbeNotReady(q))
  /\ sound' = IF r \in up' THEN sound \cup {<<q, r>>} ELSE sound
  /\ UNCHANGED cutOff

-----------------------------------------------------------------------------
(* Run, by the collectors of a request *)

Calling(q, r) == lock[r] = q /\ r \in collecting[q]

StartCall(q, r) ==
  /\ r \in collecting[q]
  /\ r \in up
  /\ Locks(q, r)
  /\ UNCHANGED <<vars, sound, cutOff>>

\* "not connected to": there is no session any more, or there never was.
CallRefused(q, r) ==
  /\ r \in collecting[q]
  /\ r \notin up
  /\ lock[r] = Free
  /\ cutOff' = IF <<q, r>> \in sound /\ handler[q] = "gather" THEN cutOff \cup {<<q, r>>} ELSE cutOff
  /\ UNCHANGED <<vars, lock, sound>>

\* A reply or a trap, or the context of the collector is done.
CallEnds(q, r) ==
  /\ Calling(q, r)
  /\ Unlocks(q, r)
  /\ UNCHANGED <<vars, sound, cutOff>>

\* Mutant: the early return on a connection error does not unlock.
CallFailsLocked(q, r) ==
  /\ Calling(q, r)
  /\ LinkDrops(r)
  /\ sound' = sound \ (Requests \X {r})
  /\ UNCHANGED <<lock, cutOff>>

\* A connection error: failRunLocked closes the session.
CallFails(q, r) ==
  /\ Calling(q, r)
  /\ LinkDrops(r)
  /\ Unlocks(q, r)
  /\ sound' = sound \ (Requests \X {r})
  /\ UNCHANGED cutOff

CollectorsEnd(q, r) ==
  /\ ~Calling(q, r)
  /\ CollectionEnds(q, r)
  /\ UNCHANGED jobVars

-----------------------------------------------------------------------------
(* IsDone: Disconnect waits for the mutex, the persistent pool does not *)

FinalizeRouter(q, r) ==
  /\ PersistentPool \/ lock[r] = Free
  /\ IsDone(q, r)
  /\ UNCHANGED jobVars

HandlerAlone(q) ==
  /\ \/ SetupDone(q) \/ SetupTimesOut(q) \/ ProbeAcquire(q) \/ ProbeGivesUp(q)
     \/ GatherDone(q) \/ GatherTimesOut(q) \/ Return(q)
  /\ UNCHANGED jobVars

Arrives(q) ==
  /\ ArriveMetrics(q) \/ ArriveProbe(q) \/ Deferred(q) \/ Expire(q)
  /\ UNCHANGED jobVars

WorkerAlone(w) ==
  /\ Acquire(w) \/ GiveUp(w) \/ Append(w) \/ Register(w) \/ Release(w)
  /\ UNCHANGED jobVars

RouterStep(q, r) ==
  \/ StartDial(q, r) \/ IsReady(q, r)
  \/ StartCall(q, r) \/ CallRefused(q, r) \/ CallEnds(q, r) \/ CallFails(q, r)
  \/ CollectorsEnd(q, r) \/ FinalizeRouter(q, r)

ExporterNext ==
  \/ \E q \in Requests : Arrives(q) \/ HandlerAlone(q)
  \/ \E w \in Requests \X Routers : WorkerAlone(w)
  \/ \E q \in Requests, r \in Routers : RouterStep(q, r)
  \/ IntervalPasses /\ UNCHANGED jobVars

ExporterSpec == ExporterInit /\ [][ExporterNext]_exporterVars

-----------------------------------------------------------------------------
(* Safety *)

\* The mutex of a connection is released on every path: who holds it is in a
\* dial or in a call, and nobody who has ended left it locked.
MutexReturned ==
  /\ lock \in [Routers -> Requests \cup {Free}]
  /\ \A q \in Requests, r \in Routers :
       lock[r] = q => IF Asking(q, r) THEN r \notin up ELSE r \in collecting[q] /\ r \in up

\* A request that found a session loses it, while it collects and the router
\* has not ended it, only to the IsDone of another request that was answered,
\* had found that router ready itself, and runs without the persistent pool.
CutOffByOthersAlone ==
  \A q \in Requests, r \in Routers : <<q, r>> \in cutOff =>
    /\ ~PersistentPool
    /\ \E p \in Requests \ {q} : r \in scraped[p] /\ reply[p] # "none"

-----------------------------------------------------------------------------
(* Liveness: every context has a deadline, and a handler that can run runs. *)
(* A dial ends by its timeout and a call by its context.  A goroutine that  *)
(* waits for a mutex gets it when it is free again and again: sync.Mutex    *)
(* hands over to a waiter of more than a millisecond.  Nothing is assumed   *)
(* of who gets a slot that is given back.                                   *)

ExporterFairness ==
  /\ \A q \in Requests :
       /\ WF_exporterVars(Arrives(q) /\ Expire(q))
       /\ WF_exporterVars(HandlerAlone(q))
       /\ SF_exporterVars(\E r \in Routers : FinalizeRouter(q, r))
  /\ \A w \in Requests \X Routers : WF_exporterVars(WorkerAlone(w) /\ (Acquire(w) \/ GiveUp(w)))
  /\ \A q \in Requests, r \in Routers :
       /\ SF_exporterVars(StartDial(q, r) \/ IsReady(q, r))
       /\ WF_exporterVars(CallEnds(q, r))

FairExporterSpec == ExporterSpec /\ ExporterFairness
=============================================================================
