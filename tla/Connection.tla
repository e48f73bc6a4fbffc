------------------------------ MODULE Connection ------------------------------
(***************************************************************************)
(* routeros.Connection (internal/routeros/connection.go): the two API      *)
(* sessions mktxp keeps to one router.                                     *)
(*                                                                         *)
(* Goroutines call Connect, Disconnect, Run and RunStream concurrently.    *)
(* Connect dials, and Run waits for the router's reply, while HOLDING      *)
(* c.mu; RunStream dials and listens WITHOUT it and takes it only around   *)
(* each look at the shared fields.  Each action is one such critical       *)
(* section, or one step outside of it.                                     *)
(*                                                                         *)
(* A session is a member of Sessions.  It is dialed (enters `open`),       *)
(* closed (leaves `open`), and its identity is used again only once no     *)
(* goroutine and no field refers to it any more.                           *)
(***************************************************************************)
EXTENDS Backoff, FiniteSets

CONSTANTS
  Goroutines,    \* the goroutines that call the connection
  Sessions,      \* identities of dialed API sessions (routeros.Client)
  NoSession,     \* the nil apiClient
  NoOwner,       \* the mutex is free
  Calls,         \* [Goroutines -> which methods that goroutine calls]
  Config,        \* the BackoffConfig
  MaxFailures,   \* bound: failureCount saturates here
  MaxElapsed,    \* bound: the time since the last failure saturates here
  MaxRecords     \* bound: records one listen delivers

Methods == {"Connect", "Disconnect", "Run", "RunStream"}

ASSUME ConstantsAssumption ==
  /\ NoSession \notin Sessions
  /\ NoOwner \notin Goroutines
  /\ Calls \in [Goroutines -> SUBSET Methods]
  /\ Config \in BackoffConfig
  /\ MaxFailures \in Nat \ {0}
  /\ MaxElapsed \in Nat
  /\ MaxRecords \in Nat

VARIABLES
  mu,            \* who holds c.mu across a network wait, or NoOwner
  runClient,     \* c.runClient
  streamClient,  \* c.streamClient
  failureCount,  \* c.failureCount
  lastFailure,   \* elapsed time since c.lastFailure; Never if it is zero
  open,          \* the sessions dialed and not closed
  pc,            \* where each goroutine is
  held,          \* the session its call uses (the local cl)
  dialed,        \* the session it dialed and has not handed over (local client)
  ctxDone,       \* its call's context has expired or was cancelled
  cancelled,     \* RunStream has seen that and sent the cancel (ctxChan = nil)
  chan,          \* its listen's channel: "none", "open", or why it closed
  sent,          \* records the router has put into that channel
  taken,         \* records RunStream has received from it
  used,          \* records RunStream has given to the callback
  outcome        \* what RunStream is about to return

shared == <<runClient, streamClient, failureCount, lastFailure, open>>
stream == <<chan, sent, taken, used, cancelled, outcome>>
vars == <<mu, shared, pc, held, dialed, ctxDone, stream>>

Never == -1

\* How a reply, a listen or a call ends.  "conn" stands for every error that
\* is neither a context error nor a !trap of the router.
Errors   == {"trap", "ctx", "conn"}
Outcomes == {"done"} \cup Errors

Locations == {"idle", "connecting", "running",
              "dialing", "dialFailed", "publish", "lost",
              "listen", "streaming", "failing", "dropping"}

\* The locations inside a RunStream call that has acquired a session.
Streaming == {"listen", "streaming", "failing", "dropping"}

TypeOK ==
  /\ mu \in Goroutines \cup {NoOwner}
  /\ runClient \in Sessions \cup {NoSession}
  /\ streamClient \in Sessions \cup {NoSession}
  /\ failureCount \in 0..MaxFailures
  /\ lastFailure \in (0..MaxElapsed) \cup {Never}
  /\ open \in SUBSET Sessions
  /\ pc \in [Goroutines -> Locations]
  /\ held \in [Goroutines -> Sessions \cup {NoSession}]
  /\ dialed \in [Goroutines -> Sessions \cup {NoSession}]
  /\ ctxDone \in [Goroutines -> BOOLEAN]
  /\ cancelled \in [Goroutines -> BOOLEAN]
  /\ chan \in [Goroutines -> {"none", "open"} \cup Outcomes]
  /\ sent \in [Goroutines -> Nat]
  /\ taken \in [Goroutines -> Nat]
  /\ used \in [Goroutines -> Nat]
  /\ outcome \in [Goroutines -> {"none"} \cup Outcomes]

Init ==
  /\ mu = NoOwner
  /\ runClient = NoSession
  /\ streamClient = NoSession
  /\ failureCount = 0
  /\ lastFailure = Never
  /\ open = {}
  /\ pc = [g \in Goroutines |-> "idle"]
  /\ held = [g \in Goroutines |-> NoSession]
  /\ dialed = [g \in Goroutines |-> NoSession]
  /\ ctxDone = [g \in Goroutines |-> FALSE]
  /\ cancelled = [g \in Goroutines |-> FALSE]
  /\ chan = [g \in Goroutines |-> "none"]
  /\ sent = [g \in Goroutines |-> 0]
  /\ taken = [g \in Goroutines |-> 0]
  /\ used = [g \in Goroutines |-> 0]
  /\ outcome = [g \in Goroutines |-> "none"]

-----------------------------------------------------------------------------
(* Helpers *)

GoTo(g, from, to) == pc[g] = from /\ pc' = [pc EXCEPT ![g] = to]

\* A critical section can be entered only while nobody holds the mutex.
MutexFree == mu = NoOwner

Unreferenced(s) ==
  /\ s \notin open
  /\ s # runClient
  /\ s # streamClient
  /\ \A g \in Goroutines : s # held[g] /\ s # dialed[g]

IsConnectionError(err) == err = "conn"

\* Mutant: the count goes down.
CountDown ==
  /\ failureCount' = failureCount - 1
  /\ lastFailure' = 0

RecordFailure ==
  /\ failureCount' = IF failureCount < MaxFailures THEN failureCount + 1 ELSE failureCount
  /\ lastFailure' = 0

InBackoff == lastFailure # Never /\ Waiting(Config, failureCount, lastFailure)
-----------------------------------------------------------------------------
(* Connect.  A call that finds the run session open, or the backoff still  *)
(* running, returns nil and changes nothing: it is a stuttering step.      *)

StartConnect(g) ==
  /\ "Connect" \in Calls[g]
  /\ MutexFree
  /\ runClient = NoSession
  /\ ~InBackoff
  /\ GoTo(g, "idle", "connecting")
  /\ mu' = g
  /\ UNCHANGED <<shared, held, dialed, ctxDone, stream>>

ConnectDialed(g) ==
  /\ GoTo(g, "connecting", "idle")
  /\ \E s \in Sessions : Unreferenced(s) /\ runClient' = s /\ open' = open \cup {s}
  /\ failureCount' = 0
  /\ lastFailure' = Never
  /\ mu' = NoOwner
  /\ UNCHANGED <<streamClient, held, dialed, ctxDone, stream>>

\* The credentials cannot be read, or the dial or the login fails; the dial's
\* own timeout and the expiry of the caller's context are such failures too.
ConnectFailed(g) ==
  /\ GoTo(g, "connecting", "idle")
  /\ RecordFailure
  /\ mu' = NoOwner
  /\ UNCHANGED <<runClient, streamClient, open, held, dialed, ctxDone, stream>>

-----------------------------------------------------------------------------
(* Disconnect. *)

Disconnect(g) ==
  /\ "Disconnect" \in Calls[g]
  /\ MutexFree
  /\ pc[g] = "idle"
  /\ open' = open \ {runClient, streamClient}
  /\ runClient' = NoSession
  /\ streamClient' = NoSession
  /\ UNCHANGED <<mu, failureCount, lastFailure, pc, held, dialed, ctxDone, stream>>

-----------------------------------------------------------------------------
(* Run holds the mutex while it waits for the reply.  Without a run        *)
(* session it returns an error and changes nothing.                        *)

StartRun(g) ==
  /\ "Run" \in Calls[g]
  /\ MutexFree
  /\ runClient # NoSession
  /\ GoTo(g, "idle", "running")
  /\ mu' = g
  /\ held' = [held EXCEPT ![g] = runClient]
  /\ UNCHANGED <<shared, dialed, ctxDone, stream>>

\* Mutant: the client is closed and not forgotten.
FailRunLeavesClient(s) ==
  IF runClient = s
  THEN open' = open \ {s} /\ RecordFailure /\ UNCHANGED <<runClient, streamClient>>
  ELSE UNCHANGED shared

\* Mutant: a failed Run closes both sessions, as Disconnect does.
FailRunClosesAll(s) ==
  IF runClient = s
  THEN /\ open' = open \ {runClient, streamClient}
       /\ runClient' = NoSession
       /\ streamClient' = NoSession
       /\ RecordFailure
  ELSE UNCHANGED shared

FailRunLocked(s) ==
  IF runClient = s
  THEN /\ open' = open \ {s}
       /\ runClient' = NoSession
       /\ RecordFailure
       /\ UNCHANGED streamClient
  ELSE UNCHANGED shared

RunReply(g) ==
  /\ GoTo(g, "running", "idle")
  /\ \E reply \in Outcomes :
       IF IsConnectionError(reply) THEN FailRunLocked(held[g]) ELSE UNCHANGED shared
  /\ mu' = NoOwner
  /\ held' = [held EXCEPT ![g] = NoSession]
  /\ UNCHANGED <<dialed, ctxDone, stream>>

-----------------------------------------------------------------------------
(* RunStream: acquireStreamClient.  Without any session, or when the       *)
(* credentials cannot be read, it returns an error and changes nothing.    *)

AcquireShared(g) ==
  /\ "RunStream" \in Calls[g]
  /\ MutexFree
  /\ streamClient # NoSession
  /\ GoTo(g, "idle", "listen")
  /\ held' = [held EXCEPT ![g] = streamClient]
  /\ UNCHANGED <<mu, shared, dialed, ctxDone, stream>>

AcquireByDialing(g) ==
  /\ "RunStream" \in Calls[g]
  /\ MutexFree
  /\ streamClient = NoSession
  /\ runClient # NoSession
  /\ GoTo(g, "idle", "dialing")
  /\ UNCHANGED <<mu, shared, held, dialed, ctxDone, stream>>

StreamDialed(g) ==
  /\ GoTo(g, "dialing", "publish")
  /\ \E s \in Sessions :
       /\ Unreferenced(s)
       /\ open' = open \cup {s}
       /\ dialed' = [dialed EXCEPT ![g] = s]
  /\ UNCHANGED <<mu, runClient, streamClient, failureCount, lastFailure, held, ctxDone, stream>>

StreamDialFails(g) ==
  /\ GoTo(g, "dialing", "dialFailed")
  /\ UNCHANGED <<mu, shared, held, dialed, ctxDone, stream>>

RecordDialFailure(g) ==
  /\ MutexFree
  /\ GoTo(g, "dialFailed", "idle")
  /\ RecordFailure
  /\ ctxDone' = [ctxDone EXCEPT ![g] = FALSE]
  /\ UNCHANGED <<mu, runClient, streamClient, open, held, dialed, stream>>

\* Mutant: the second look at streamClient is missing.
PublishUnchecked(g) ==
  /\ MutexFree
  /\ GoTo(g, "publish", "listen")
  /\ streamClient' = dialed[g]
  /\ held' = [held EXCEPT ![g] = dialed[g]]
  /\ dialed' = [dialed EXCEPT ![g] = NoSession]
  /\ UNCHANGED <<mu, runClient, failureCount, lastFailure, open, ctxDone, stream>>

\* After the dial streamClient is looked at again: the first goroutine that
\* comes back publishes its session, the others use it and close their own.
\* runClient is not looked at again.
Publish(g) ==
  /\ MutexFree
  /\ IF streamClient # NoSession
     THEN /\ GoTo(g, "publish", "lost")
          /\ held' = [held EXCEPT ![g] = streamClient]
          /\ UNCHANGED <<streamClient, dialed>>
     ELSE /\ GoTo(g, "publish", "listen")
          /\ streamClient' = dialed[g]
          /\ held' = [held EXCEPT ![g] = dialed[g]]
          /\ dialed' = [dialed EXCEPT ![g] = NoSession]
  /\ UNCHANGED <<mu, runClient, failureCount, lastFailure, open, ctxDone, stream>>

CloseLoser(g) ==
  /\ GoTo(g, "lost", "listen")
  /\ open' = open \ {dialed[g]}
  /\ dialed' = [dialed EXCEPT ![g] = NoSession]
  /\ UNCHANGED <<mu, runClient, streamClient, failureCount, lastFailure, held, ctxDone, stream>>

-----------------------------------------------------------------------------
(* RunStream: listening.  The library's reader puts records into the       *)
(* listen's channel and closes it when the router ends the command, when   *)
(* the network fails or when the session is closed under it.               *)

Listen(g) ==
  /\ held[g] \in open
  /\ GoTo(g, "listen", "streaming")
  /\ chan' = [chan EXCEPT ![g] = "open"]
  /\ UNCHANGED <<mu, shared, held, dialed, ctxDone, sent, taken, used, cancelled, outcome>>

\* The sentence cannot be sent: the session may or may not still be open.
ListenFails(g) ==
  /\ \E err \in Errors :
       /\ GoTo(g, "listen", IF IsConnectionError(err) THEN "failing" ELSE "dropping")
       /\ outcome' = [outcome EXCEPT ![g] = err]
  /\ UNCHANGED <<mu, shared, held, dialed, ctxDone, chan, sent, taken, used, cancelled>>

\* The bound MaxRecords is on what one listen delivers.
RouterSends(g) ==
  /\ chan[g] = "open"
  /\ held[g] \in open
  /\ sent[g] < MaxRecords
  /\ sent' = [sent EXCEPT ![g] = @ + 1]
  /\ UNCHANGED <<mu, shared, pc, held, dialed, ctxDone, chan, taken, used, cancelled, outcome>>

\* The router finishes the command, answers the cancel or rejects the
\* command with a trap, or the network fails.
RouterEnds(g) ==
  /\ chan[g] = "open"
  /\ held[g] \in open
  /\ \E end \in {"done", "trap", "conn"} : chan' = [chan EXCEPT ![g] = end]
  /\ UNCHANGED <<mu, shared, pc, held, dialed, ctxDone, sent, taken, used, cancelled, outcome>>

\* Another goroutine closed the session, or the listen context its reader is
\* bound to was cancelled: the reader ends every listen with an error.
ReaderStops(g) ==
  /\ chan[g] = "open"
  /\ held[g] \notin open
  /\ \E end \in {"ctx", "conn"} : chan' = [chan EXCEPT ![g] = end]
  /\ UNCHANGED <<mu, shared, pc, held, dialed, ctxDone, sent, taken, used, cancelled, outcome>>

Expire(g) ==
  /\ pc[g] \in Streaming \cup {"dialing", "dialFailed", "publish", "lost"}
  /\ ~ctxDone[g]
  /\ ctxDone' = [ctxDone EXCEPT ![g] = TRUE]
  /\ UNCHANGED <<mu, shared, pc, held, dialed, stream>>

\* Mutant: ctxChan becomes nil, no cancel is sent.
NoticeWithoutCancel(g) ==
  /\ pc[g] = "streaming"
  /\ ctxDone[g]
  /\ ~cancelled[g]
  /\ UNCHANGED vars

\* The <-ctxChan case of the select: ctxChan becomes nil and the cancel is
\* sent, once, by a goroutine of its own.
NoticeExpiry(g) ==
  /\ pc[g] = "streaming"
  /\ ctxDone[g]
  /\ ~cancelled[g]
  /\ cancelled' = [cancelled EXCEPT ![g] = TRUE]
  /\ UNCHANGED <<mu, shared, pc, held, dialed, ctxDone, chan, sent, taken, used, outcome>>

\* The <-l.Chan() case with a record: dropped once the expiry was noticed.
Receive(g) ==
  /\ pc[g] = "streaming"
  /\ taken[g] < sent[g]
  /\ taken' = [taken EXCEPT ![g] = @ + 1]
  /\ used' = IF cancelled[g] THEN used ELSE [used EXCEPT ![g] = @ + 1]
  /\ UNCHANGED <<mu, shared, pc, held, dialed, ctxDone, chan, sent, cancelled, outcome>>

\* Mutant: ctx.Err() is not consulted when the listen itself ended well.
StreamResultIgnoringContext(g) == chan[g]

\* The error RunStream returns when the channel has closed.
StreamResult(g) ==
  IF chan[g] # "done" THEN chan[g] ELSE IF ctxDone[g] THEN "ctx" ELSE "done"

\* The <-l.Chan() case with the channel closed and drained.
ChannelClosed(g) ==
  /\ chan[g] \in Outcomes
  /\ taken[g] = sent[g]
  /\ GoTo(g, "streaming", IF IsConnectionError(chan[g]) THEN "failing" ELSE "dropping")
  /\ outcome' = [outcome EXCEPT ![g] = StreamResult(g)]
  /\ UNCHANGED <<mu, shared, held, dialed, ctxDone, chan, sent, taken, used, cancelled>>

FailStream(g) ==
  /\ MutexFree
  /\ GoTo(g, "failing", "dropping")
  /\ IF streamClient = held[g]
     THEN /\ open' = open \ {held[g]}
          /\ streamClient' = NoSession
          /\ RecordFailure
          /\ UNCHANGED runClient
     ELSE UNCHANGED shared
  /\ UNCHANGED <<mu, held, dialed, ctxDone, stream>>

\* The call's local variables die when it returns.
EndCall(g) ==
  /\ held' = [held EXCEPT ![g] = NoSession]
  /\ ctxDone' = [ctxDone EXCEPT ![g] = FALSE]
  /\ cancelled' = [cancelled EXCEPT ![g] = FALSE]
  /\ chan' = [chan EXCEPT ![g] = "none"]
  /\ sent' = [sent EXCEPT ![g] = 0]
  /\ taken' = [taken EXCEPT ![g] = 0]
  /\ used' = [used EXCEPT ![g] = 0]
  /\ outcome' = [outcome EXCEPT ![g] = "none"]

\* Mutant: the deferred dropStream is missing.
KeepStream(g) ==
  /\ MutexFree
  /\ GoTo(g, "dropping", "idle")
  /\ EndCall(g)
  /\ UNCHANGED <<mu, shared, dialed>>

\* The deferred dropStream, then the deferred cancelListen: the listen's
\* reader belongs to the session that has just been closed.
DropStream(g) ==
  /\ MutexFree
  /\ GoTo(g, "dropping", "idle")
  /\ IF streamClient = held[g]
     THEN open' = open \ {held[g]} /\ streamClient' = NoSession
     ELSE UNCHANGED <<open, streamClient>>
  /\ EndCall(g)
  /\ UNCHANGED <<mu, runClient, failureCount, lastFailure, dialed>>

-----------------------------------------------------------------------------
\* Time since the last failure; MaxElapsed bounds it above every delay.
Tick ==
  /\ lastFailure # Never
  /\ lastFailure < MaxElapsed
  /\ lastFailure' = lastFailure + 1
  /\ UNCHANGED <<mu, runClient, streamClient, failureCount, open, pc, held, dialed, ctxDone, stream>>

Step(g) ==
  \/ StartConnect(g) \/ ConnectDialed(g) \/ ConnectFailed(g)
  \/ Disconnect(g)
  \/ StartRun(g) \/ RunReply(g)
  \/ AcquireShared(g) \/ AcquireByDialing(g)
  \/ StreamDialed(g) \/ StreamDialFails(g) \/ RecordDialFailure(g)
  \/ Publish(g) \/ CloseLoser(g)
  \/ Listen(g) \/ ListenFails(g)
  \/ RouterSends(g) \/ RouterEnds(g) \/ ReaderStops(g)
  \/ Expire(g) \/ NoticeExpiry(g) \/ Receive(g) \/ ChannelClosed(g)
  \/ FailStream(g) \/ DropStream(g)

Next == Tick \/ \E g \in Goroutines : Step(g)

Spec == Init /\ [][Next]_vars

-----------------------------------------------------------------------------
(* Safety *)

\* No API session is leaked: whatever the interleaving of dials, failures and
\* disconnects, a session that is open is one the connection can still close,
\* or one a RunStream has just dialed and is about to publish or to close
\* (acquireStreamClient, failRunLocked, failStream, dropStream).
SessionsAccountedFor ==
  \A s \in open :
    \/ s \in {runClient, streamClient}
    \/ \E g \in Goroutines : dialed[g] = s /\ pc[g] \in {"publish", "lost"}

\* A stream session never outlives the calls that use it: while the connection
\* has one, some RunStream that has not returned holds that very session, and
\* its deferred dropStream will find it.
StreamSessionOwned ==
  streamClient # NoSession =>
    \E g \in Goroutines : held[g] = streamClient /\ pc[g] \in Streaming \cup {"lost"}

\* A closed session is never left in runClient or streamClient, where the next
\* call would use it, and the two roles never share one session (what failing
\* one of them relies on).
CurrentSessionsOpen ==
  /\ {runClient, streamClient} \ {NoSession} \subseteq open
  /\ runClient = streamClient => runClient = NoSession

\* RunStream returns nil only for a complete table: every record the router
\* sent has been given to the callback and the router itself ended the listen.
\* A caller can therefore never mistake a truncated table for the whole one.
CompleteOrError ==
  \A g \in Goroutines :
    outcome[g] = "done" => chan[g] = "done" /\ used[g] = sent[g]

\* The failure count and the time of the last failure are reset and advanced
\* together, so a connection without failures is never in backoff and one with
\* failures always has a time to count from.
BackoffConsistent == failureCount = 0 <=> lastFailure = Never

\* While failures go on, the delay Connect waits for never gets shorter.
DelayNeverShrinks ==
  [][failureCount' # 0 =>
       ConnectDelay(Config, failureCount') >= ConnectDelay(Config, failureCount)]_vars

\* The two sessions fail independently: the end of a Run, with whatever error,
\* closes no stream session, and no step of a RunStream closes or replaces the
\* run session ("Stream-side state is preserved so a healthy in-flight
\* RunStream isn't mid-cancelled by an unrelated Run failure").
SessionsIndependent ==
  [][\A g \in Goroutines : pc'[g] # pc[g] =>
       /\ pc[g] = "running" =>
            streamClient' = streamClient /\ (streamClient \in open => streamClient \in open')
       /\ pc[g] \in Streaming \cup {"dialing", "dialFailed", "publish", "lost"} =>
            runClient' = runClient /\ (runClient \in open => runClient \in open')]_vars

\* A session that several RunStreams share serves each of them to its end ("On
\* race we close the loser and use the winner"): the one that is done first
\* does not close it under another that is still receiving.
WinnerServesAll ==
  [][\A g, h \in Goroutines :
       /\ pc[h] = "dropping" /\ pc'[h] = "idle" /\ outcome[h] = "done"
       /\ g # h /\ held[g] = held[h] /\ pc[g] = "streaming"
       => (held[g] \in open => held[g] \in open')]_vars

-----------------------------------------------------------------------------
(* Liveness.  Go's mutex hands itself to a waiter that has waited long     *)
(* enough, so a critical section that is free again and again is entered   *)
(* (strong fairness).  A dial is bounded by SocketTimeout and a Run by the *)
(* context of the scrape, which also expires under every RunStream.  A     *)
(* router, or the keepalive of the TCP session when it is gone, ends a     *)
(* listen that was cancelled; nothing makes it end one that was not.       *)

ScheduledStep(g) ==
  \/ ConnectFailed(g) \/ RunReply(g) \/ StreamDialFails(g)
  \/ CloseLoser(g) \/ Listen(g) \/ ListenFails(g)
  \/ NoticeExpiry(g) \/ ChannelClosed(g) \/ ReaderStops(g)
  \/ (cancelled[g] /\ RouterEnds(g))

LockedStep(g) ==
  RecordDialFailure(g) \/ Publish(g) \/ FailStream(g) \/ DropStream(g)

Fairness ==
  /\ WF_vars(Tick)
  /\ \A g \in Goroutines :
       /\ WF_vars(ScheduledStep(g))
       /\ WF_vars(Receive(g))
       /\ WF_vars(Expire(g))
       /\ SF_vars(LockedStep(g))

\* Connect is called by every scrape, and from some point on the router
\* accepts the dials it gets.
Reachable ==
  /\ \A g \in Goroutines : SF_vars(StartConnect(g))
  /\ SF_vars(\E g \in Goroutines : ConnectDialed(g))

FairSpec == Spec /\ Fairness /\ Reachable

\* Every RunStream returns, whether the router streams on, goes silent or the
\* session is closed under it.
StreamReturns ==
  \A g \in Goroutines : pc[g] \in Streaming \cup {"publish", "lost"} ~> pc[g] = "idle"

\* A router that was lost is connected again: the backoff always ends, whatever
\* the number of failures (README "Automatic Reconnection").
Reconnects == runClient = NoSession ~> runClient # NoSession

-----------------------------------------------------------------------------
(* Refinement *)

\* The phase of a RunStream call.  A goroutine inside Connect or Run is out of
\* it; one that failed to acquire a session returns from "in".
PhaseAt(location, result) ==
  IF location \in {"idle", "connecting", "running"} THEN "out"
  ELSE IF result = "done" THEN "succeeded"
  ELSE IF result \in Errors THEN "failed" ELSE "in"

StreamPhase == [g \in Goroutines |-> PhaseAt(pc[g], outcome[g])]

Contract == INSTANCE StreamContract WITH phase <- StreamPhase, stopped <- cancelled

\* Connection implements the contract of RunStream for each caller, whatever
\* the other callers do to the sessions meanwhile.
StreamContractHolds == Contract!Spec
=============================================================================
