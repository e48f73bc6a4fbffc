-------------------------------- MODULE Server --------------------------------
(***************************************************************************)
(* server.Server (internal/server/server.go): the HTTP handlers of         *)
(* /metrics and /probe, the worker goroutines of a /metrics request, the   *)
(* semaphore they share with the probes, and the routers they all use.     *)
(*                                                                         *)
(* Time is reduced to what the code tests: whether the last collection is  *)
(* recent, and whether the context of a request is done.  A router is      *)
(* reduced to its connection: RouterEntry has its caches and its children. *)
(***************************************************************************)
EXTENDS Integers, FiniteSets

CONSTANTS
  Requests,       \* the requests the server receives
  Routers,        \* the enabled router entries
  All,            \* the target of a /metrics request
  Target,         \* the router a /probe asks for, or All
  SemSize,        \* capacity of the semaphore
  Spaced,         \* minimal_collect_interval > 0
  PersistentPool, \* persistent_router_connection_pool
  RemoteRouters   \* routers whose remote entries can make IsReady false

ASSUME ServerAssumption ==
  /\ All \notin Routers
  /\ Target \in [Requests -> Routers \cup {All}]
  /\ SemSize \in Nat \ {0}
  /\ Spaced \in BOOLEAN
  /\ PersistentPool \in BOOLEAN
  /\ RemoteRouters \subseteq Routers

ASSUME FiniteAssumption == IsFiniteSet(Requests) /\ IsFiniteSet(Routers)

VARIABLES
  up,         \* the routers whose connection is up
  recent,     \* lastCollectAt is less than the interval ago
  semaphore,  \* how many slots of the semaphore are taken
  expired,    \* the requests whose context is done
  handler,    \* where the handler of each request is
  reply,      \* the status it has answered, or "none"
  worker,     \* where the goroutine of a request for a router is
  scraped,    \* the routers a request has found ready
  registered, \* the routers whose collectors are in its registry
  collecting, \* the routers whose collectors are running for it
  pending     \* the routers its finalizer has still to visit

requestVars == <<expired, handler, reply, scraped, registered, collecting, pending>>
vars == <<up, recent, semaphore, worker, requestVars>>

HandlerStates == {"idle", "setup", "waiting", "asking", "gather", "finalize", "returned"}
WorkerStates == {"none", "queued", "asking", "append", "register", "release", "done"}
Replies == {"none", "200", "429", "502", "503", "504"}

TypeOK ==
  /\ up \in SUBSET Routers
  /\ recent \in BOOLEAN
  /\ semaphore \in Int  \* SemaphoreAccounted has its bounds
  /\ expired \in SUBSET Requests
  /\ handler \in [Requests -> HandlerStates]
  /\ reply \in [Requests -> Replies]
  /\ worker \in [Requests \X Routers -> WorkerStates]
  /\ scraped \in [Requests -> SUBSET Routers]
  /\ registered \in [Requests -> SUBSET Routers]
  /\ collecting \in [Requests -> SUBSET Routers]
  /\ pending \in [Requests -> SUBSET Routers]

Init ==
  /\ up = {}
  /\ recent = FALSE
  /\ semaphore = 0
  /\ expired = {}
  /\ handler = [q \in Requests |-> "idle"]
  /\ reply = [q \in Requests |-> "none"]
  /\ worker = [w \in Requests \X Routers |-> "none"]
  /\ scraped = [q \in Requests |-> {}]
  /\ registered = [q \in Requests |-> {}]
  /\ collecting = [q \in Requests |-> {}]
  /\ pending = [q \in Requests |-> {}]

Metrics == {q \in Requests : Target[q] = All}
Probes == Requests \ Metrics

Goes(q, from, to) == handler[q] = from /\ handler' = [handler EXCEPT ![q] = to]
Works(w, from, to) == worker[w] = from /\ worker' = [worker EXCEPT ![w] = to]
Answers(q, code) == reply' = [reply EXCEPT ![q] = code]

TakeSlot == semaphore < SemSize /\ semaphore' = semaphore + 1
GiveSlot == semaphore' = semaphore - 1

\* Connect succeeds, fails, or had nothing to do; it dials with the context of
\* the request.
MayConnect(q, r) == UNCHANGED up \/ (q \notin expired /\ up' = up \cup {r})

-----------------------------------------------------------------------------
(* Arrival: reserveCollectSlot *)

ArriveMetrics(q) ==
  /\ q \in Metrics
  /\ ~recent
  /\ Goes(q, "idle", "setup")
  /\ recent' = Spaced
  /\ worker' = [w \in Requests \X Routers |-> IF w[1] = q THEN "queued" ELSE worker[w]]
  /\ UNCHANGED <<up, semaphore, expired, reply, scraped, registered, collecting, pending>>

ArriveProbe(q) ==
  /\ q \in Probes
  /\ ~recent
  /\ Goes(q, "idle", "waiting")
  /\ recent' = Spaced
  /\ UNCHANGED <<up, semaphore, worker, expired, reply, scraped, registered, collecting, pending>>

\* Too early after another collection, whatever its target was.
Deferred(q) ==
  /\ recent
  /\ Goes(q, "idle", "returned")
  /\ Answers(q, "429")
  /\ UNCHANGED <<up, recent, semaphore, worker, expired, scraped, registered, collecting, pending>>

IntervalPasses ==
  /\ recent
  /\ recent' = FALSE
  /\ UNCHANGED <<up, semaphore, worker, requestVars>>

\* The timeout of the scrape passes, or its client goes away.
Expire(q) ==
  /\ handler[q] \notin {"idle", "returned"}
  /\ q \notin expired
  /\ expired' = expired \cup {q}
  /\ UNCHANGED <<up, recent, semaphore, worker, handler, reply,
                 scraped, registered, collecting, pending>>

-----------------------------------------------------------------------------
(* The goroutine of a /metrics request for one router, w = <<q, r>> *)

Acquire(w) ==
  /\ TakeSlot
  /\ Works(w, "queued", "asking")
  /\ UNCHANGED <<up, recent, requestVars>>

\* Mutant: the goroutine waits for the semaphore alone.
KeepWaiting(w) == FALSE /\ UNCHANGED vars

GiveUp(w) ==
  /\ w[1] \in expired
  /\ Works(w, "queued", "done")
  /\ UNCHANGED <<up, recent, semaphore, requestVars>>

Ready(w) ==
  /\ Works(w, "asking", "append")
  /\ MayConnect(w[1], w[2])
  /\ UNCHANGED <<recent, semaphore, requestVars>>

\* Mutant: the early return does not give the slot back.
NotReadyLeak(w) ==
  /\ w[2] \in RemoteRouters \ up
  /\ Works(w, "asking", "done")
  /\ UNCHANGED <<up, recent, semaphore, requestVars>>

NotReady(w) ==
  /\ w[2] \in RemoteRouters \ up
  /\ Works(w, "asking", "release")
  /\ UNCHANGED <<up, recent, semaphore, requestVars>>

\* Mutant: the collectors are registered before the router is in scraped.
AppendNothing(w) ==
  /\ handler[w[1]] # "finalize"
  /\ Works(w, "append", "register")
  /\ UNCHANGED <<up, recent, semaphore, requestVars>>

\* Mutant: scraped is appended to without scrapedMu.
AppendUnlocked(w) ==
  /\ Works(w, "append", "register")
  /\ scraped' = [scraped EXCEPT ![w[1]] = @ \cup {w[2]}]
  /\ UNCHANGED <<up, recent, semaphore, expired, handler, reply, registered, collecting, pending>>

\* scrapedMu is held by the finalizer while it runs; an append after it is
\* seen by nobody.
Append(w) ==
  /\ handler[w[1]] # "finalize"
  /\ Works(w, "append", "register")
  /\ scraped' = [scraped EXCEPT ![w[1]] = @ \cup {w[2]}]
  /\ UNCHANGED <<up, recent, semaphore, expired, handler, reply, registered, collecting, pending>>

Register(w) ==
  /\ Works(w, "register", "release")
  /\ registered' = [registered EXCEPT ![w[1]] = @ \cup {w[2]}]
  /\ UNCHANGED <<up, recent, semaphore, expired, handler, reply, scraped, collecting, pending>>

Release(w) ==
  /\ Works(w, "release", "done")
  /\ GiveSlot
  /\ UNCHANGED <<up, recent, requestVars>>

-----------------------------------------------------------------------------
(* The handler of a /metrics request *)

WorkersOf(q) == {q} \X Routers

\* Every goroutine has ended: the registry is gathered, one goroutine per
\* collector and router.
SetupDone(q) ==
  /\ \A w \in WorkersOf(q) : worker[w] = "done"
  /\ Goes(q, "setup", "gather")
  /\ collecting' = [collecting EXCEPT ![q] = registered[q]]
  /\ UNCHANGED <<up, recent, semaphore, worker, expired, reply, scraped, registered, pending>>

\* Mutant: every entry is finalized, also those that were never touched.
SetupTimesOutAll(q) ==
  /\ q \in expired
  /\ Goes(q, "setup", "finalize")
  /\ Answers(q, "504")
  /\ pending' = [pending EXCEPT ![q] = Routers]
  /\ UNCHANGED <<up, recent, semaphore, worker, expired, scraped, registered, collecting>>

\* "Scrape timed out during setup": the goroutines are left behind, and the
\* deferred finalizer takes scrapedMu.
SetupTimesOut(q) ==
  /\ q \in expired
  /\ Goes(q, "setup", "finalize")
  /\ Answers(q, "504")
  /\ pending' = [pending EXCEPT ![q] = scraped[q]]
  /\ UNCHANGED <<up, recent, semaphore, worker, expired, scraped, registered, collecting>>

-----------------------------------------------------------------------------
(* The handler of a /probe request *)

ProbeAcquire(q) ==
  /\ TakeSlot
  /\ Goes(q, "waiting", "asking")
  /\ UNCHANGED <<up, recent, worker, expired, reply, scraped, registered, collecting, pending>>

\* Mutant: the probe waits for the semaphore alone.
ProbeKeepsWaiting(q) == FALSE /\ UNCHANGED vars

ProbeGivesUp(q) ==
  /\ q \in expired
  /\ Goes(q, "waiting", "returned")
  /\ Answers(q, "504")
  /\ UNCHANGED <<up, recent, semaphore, worker, expired, scraped, registered, collecting, pending>>

ProbeReady(q) ==
  /\ Goes(q, "asking", "gather")
  /\ MayConnect(q, Target[q])
  /\ scraped' = [scraped EXCEPT ![q] = {Target[q]}]
  /\ registered' = [registered EXCEPT ![q] = {Target[q]}]
  /\ collecting' = [collecting EXCEPT ![q] = {Target[q]}]
  /\ UNCHANGED <<recent, semaphore, worker, expired, reply, pending>>

\* Mutant: the wrong status.
ProbeNotReadyInternal(q) ==
  /\ Target[q] \in RemoteRouters \ up
  /\ Goes(q, "asking", "finalize")
  /\ Answers(q, "500")
  /\ UNCHANGED <<up, recent, semaphore, worker, expired, scraped, registered, collecting, pending>>

ProbeNotReady(q) ==
  /\ Target[q] \in RemoteRouters \ up
  /\ Goes(q, "asking", "finalize")
  /\ Answers(q, "502")
  /\ UNCHANGED <<up, recent, semaphore, worker, expired, scraped, registered, collecting, pending>>

-----------------------------------------------------------------------------
(* Both: the gathering under http.TimeoutHandler, IsDone, and the return *)

\* Also after the handler has returned: nothing waits for a collector that
\* the timeout left behind.
CollectionEnds(q, r) ==
  /\ r \in collecting[q]
  /\ collecting' = [collecting EXCEPT ![q] = @ \ {r}]
  /\ UNCHANGED <<up, recent, semaphore, worker, expired, handler, reply,
                 scraped, registered, pending>>

GatherDone(q) ==
  /\ collecting[q] = {}
  /\ Goes(q, "gather", "finalize")
  /\ Answers(q, "200")
  /\ pending' = [pending EXCEPT ![q] = scraped[q]]
  /\ UNCHANGED <<up, recent, semaphore, worker, expired, scraped, registered, collecting>>

\* The timeout of TimeoutHandler starts after that of the context.
GatherTimesOut(q) ==
  /\ q \in expired
  /\ Goes(q, "gather", "finalize")
  /\ Answers(q, "503")
  /\ pending' = [pending EXCEPT ![q] = scraped[q]]
  /\ UNCHANGED <<up, recent, semaphore, worker, expired, scraped, registered, collecting>>

\* IsDone on one router, whoever else is using it.
IsDone(q, r) ==
  /\ r \in pending[q]
  /\ pending' = [pending EXCEPT ![q] = @ \ {r}]
  /\ up' = IF PersistentPool THEN up ELSE up \ {r}
  /\ UNCHANGED <<recent, semaphore, worker, expired, handler, reply,
                 scraped, registered, collecting>>

\* The deferred calls that are left: a probe gives its slot back, and the
\* context is cancelled.
Return(q) ==
  /\ pending[q] = {}
  /\ Goes(q, "finalize", "returned")
  /\ IF q \in Probes THEN GiveSlot ELSE UNCHANGED semaphore
  /\ expired' = expired \cup {q}
  /\ UNCHANGED <<up, recent, worker, reply, scraped, registered, collecting, pending>>

\* The router closes an idle session, or a call of a collector fails.
LinkDrops(r) ==
  /\ r \in up
  /\ up' = up \ {r}
  /\ UNCHANGED <<recent, semaphore, worker, requestVars>>

WorkerStep(w) ==
  \/ Acquire(w) \/ GiveUp(w) \/ Ready(w) \/ NotReady(w)
  \/ Append(w) \/ Register(w) \/ Release(w)

HandlerStep(q) ==
  \/ SetupDone(q) \/ SetupTimesOut(q)
  \/ ProbeAcquire(q) \/ ProbeGivesUp(q) \/ ProbeReady(q) \/ ProbeNotReady(q)
  \/ GatherDone(q) \/ GatherTimesOut(q) \/ Return(q)

Next ==
  \/ \E q \in Requests :
       \/ ArriveMetrics(q) \/ ArriveProbe(q) \/ Deferred(q) \/ Expire(q)
       \/ HandlerStep(q)
       \/ \E r \in Routers : CollectionEnds(q, r) \/ IsDone(q, r)
  \/ \E w \in Requests \X Routers : WorkerStep(w)
  \/ IntervalPasses
  \/ \E r \in Routers : LinkDrops(r)

Spec == Init /\ [][Next]_vars

-----------------------------------------------------------------------------
(* Safety *)

\* A goroutine, or a probe, that is between taking a slot and giving it back.
HoldsSlot(w) ==
  \/ worker[w] \in {"asking", "append", "register", "release"}
  \/ Target[w[1]] = w[2] /\ handler[w[1]] \in {"asking", "gather", "finalize"}

Holders == {w \in Requests \X Routers : HoldsSlot(w)}

\* The semaphore counts exactly those who hold a slot, on every path through
\* the goroutines and the probes: no slot leaks and none is given back twice.
SemaphoreAccounted == semaphore = Cardinality(Holders) /\ semaphore <= SemSize

\* A complete answer has the metrics of every router that was ready.
GatherComplete ==
  \A q \in Requests :
    handler[q] = "gather" \/ reply[q] = "200" =>
      /\ scraped[q] = registered[q]
      /\ \A w \in WorkersOf(q) : worker[w] \in {"none", "done"}

AllOver ==
  /\ \A q \in Requests : handler[q] \in {"idle", "returned"}
  /\ \A w \in Requests \X Routers : worker[w] \in {"none", "done"}

\* Without the persistent pool, only a request that timed out during its
\* setup can leave a connection up that nobody will close: whatever else
\* overlaps, each router found ready is closed by somebody.
OnlySetupTimeoutsLeak ==
  /\ ~PersistentPool /\ AllOver
  /\ \A q \in Metrics : reply[q] # "504"
  => up = {}

\* "IsDone is called after a scrape cycle to optionally close connections and
\* clear caches": when no request is under way no connection is left.
NoConnectionLeft == ~PersistentPool /\ AllOver => up = {}

-----------------------------------------------------------------------------
(* Liveness, under the fairness that Exporter states: why the calls of a    *)
(* handler to a router end is a matter of the connections.                  *)

\* Every request is answered, and its handler returns, even if goroutines
\* that hold every slot never give them back and collectors never end.
Answered == \A q \in Requests : handler[q] # "idle" ~> handler[q] = "returned"

\* No goroutine waits for a slot for ever, whoever holds the slots: its
\* context ends the wait, also when its handler has long returned.
WaitEnds == \A w \in Requests \X Routers : worker[w] = "queued" ~> worker[w] # "queued"

-----------------------------------------------------------------------------
(* Refinement *)

PhaseOf(where) ==
  CASE where = "idle" -> "new"
    [] where \in {"setup", "waiting", "asking", "gather"} -> "open"
    [] where = "finalize" -> "finalizing"
    [] where = "returned" -> "closed"

RequestPhase == [q \in Requests |-> PhaseOf(handler[q])]

\* Until it is answered a request owes IsDone to whatever is in scraped, which
\* is what its finalizer then goes through.
Owed == [q \in Requests |-> IF PhaseOf(handler[q]) = "open" THEN scraped[q] ELSE pending[q]]

Contract == INSTANCE ScrapeContract WITH
  phase <- RequestPhase, status <- reply, found <- scraped, asked <- registered, owed <- Owed

\* The server keeps the contract of every request, whatever the others do:
\* answers are about all routers found, each of them is finalized once before
\* the request is closed, and only a 504 is followed by routers found late.
ScrapeContractHolds == Contract!Spec
=============================================================================
