-------------------------------- MODULE Process --------------------------------
(***************************************************************************)
(* The exporter as a process: runExport (cmd/mktxp/cmd/export.go) and      *)
(* Server.Run (internal/server/server.go), with the background task of     *)
(* module Bandwidth beside them.                                           *)
(*                                                                         *)
(* The main goroutine starts the background task, the goroutine that waits *)
(* for a signal and the one that listens, and then waits for the listener  *)
(* to fail or for its context.  When it returns the process ends, and with *)
(* it whatever the others are at.                                          *)
(***************************************************************************)
EXTENDS Bandwidth

CONSTANTS Requests   \* the HTTP requests that may arrive

VARIABLES
  main,      \* where the main goroutine is
  exit,      \* how the process ended, or "none"
  signal,    \* "none", "pending" in sigCh, or "handled"
  listener,  \* the goroutine in ListenAndServe
  request    \* what has become of each request

processVars == <<main, exit, signal, listener, request>>
allVars == <<bandwidthVars, processVars>>

ProcessTypeOK ==
  /\ TypeOK
  /\ main \in {"starting", "registered", "notified", "waiting", "shutting", "exited"}
  /\ exit \in {"none", "ok", "error", "killed"}
  /\ signal \in {"none", "pending", "handled"}
  /\ listener \in {"off", "binding", "listening", "failed", "closed"}
  /\ request \in [Requests -> {"none", "active", "answered", "cut"}]

ProcessInit ==
  /\ Init
  /\ main = "starting"
  /\ exit = "none"
  /\ signal = "none"
  /\ listener = "off"
  /\ request = [q \in Requests |-> "none"]

Running == main # "exited"

MainGoes(from, to) == main = from /\ main' = to

\* The process ends; what a client was still waiting for is cut.
Exit(from, how) ==
  /\ MainGoes(from, "exited")
  /\ exit' = how
  /\ request' = [q \in Requests |-> IF request[q] = "active" THEN "cut" ELSE request[q]]

-----------------------------------------------------------------------------
(* The main goroutine *)

\* registerCollectors starts the background task in a goroutine of its own.
RegisterCollectors ==
  /\ MainGoes("starting", "registered")
  /\ UNCHANGED <<bandwidthVars, exit, signal, listener, request>>

\* signal.Notify, and the goroutine that reads sigCh.
Notify ==
  /\ MainGoes("registered", "notified")
  /\ UNCHANGED <<bandwidthVars, exit, signal, listener, request>>

\* initEntries, registerRoutes, and the goroutine that listens.
Run ==
  /\ MainGoes("notified", "waiting")
  /\ listener' = "binding"
  /\ UNCHANGED <<bandwidthVars, exit, signal, request>>

\* Mutant: the error of the listener is not waited for.
ListenErrorIgnored ==
  /\ main = "waiting"
  /\ listener = "failed"
  /\ UNCHANGED allVars

\* The case of errCh.
ListenError ==
  /\ listener = "failed"
  /\ Exit("waiting", "error")
  /\ UNCHANGED <<bandwidthVars, signal, listener>>

\* The case of the context: Shutdown closes the listener, or keeps one that has
\* not bound yet from serving.
BeginShutdown ==
  /\ ctxDone
  /\ MainGoes("waiting", "shutting")
  /\ listener' = IF listener = "failed" THEN listener ELSE "closed"
  /\ UNCHANGED <<bandwidthVars, exit, signal, request>>

\* Shutdown waits until no request is under way.
ShutdownReturns ==
  /\ \A q \in Requests : request[q] # "active"
  /\ Exit("shutting", "ok")
  /\ UNCHANGED <<bandwidthVars, signal, listener>>

\* Mutant: Shutdown is given a context without a timeout.
ShutdownKeepsWaiting ==
  /\ main = "shutting"
  /\ \E q \in Requests : request[q] = "active"
  /\ UNCHANGED allVars

\* Mutant: the error of Shutdown is dropped.
ShutdownErrorDropped ==
  /\ \E q \in Requests : request[q] = "active"
  /\ Exit("shutting", "ok")
  /\ UNCHANGED <<bandwidthVars, signal, listener>>

\* The 10 s are over: the error of Shutdown is that of the process.
ShutdownTimesOut ==
  /\ \E q \in Requests : request[q] = "active"
  /\ Exit("shutting", "error")
  /\ UNCHANGED <<bandwidthVars, signal, listener>>

MainStep ==
  \/ RegisterCollectors \/ Notify \/ Run
  \/ ListenError \/ BeginShutdown \/ ShutdownReturns \/ ShutdownTimesOut

-----------------------------------------------------------------------------
(* The other goroutines, the clients and the operator *)

\* The first SIGINT or SIGTERM; later ones stay in sigCh and change nothing.
Signal ==
  /\ Running
  /\ signal = "none"
  /\ main \notin {"starting", "registered"}
  /\ signal' = "pending"
  /\ UNCHANGED <<bandwidthVars, main, exit, listener, request>>

\* Before signal.Notify a signal has its default effect.
SignalKills ==
  /\ main \in {"starting", "registered"}
  /\ Exit(main, "killed")
  /\ signal' = "handled"
  /\ UNCHANGED <<bandwidthVars, listener>>

HandleSignal ==
  /\ Running
  /\ signal = "pending"
  /\ signal' = "handled"
  /\ Cancel
  /\ UNCHANGED <<main, exit, listener, request>>

Bind ==
  /\ Running
  /\ listener = "binding"
  /\ listener' = "listening"
  /\ UNCHANGED <<bandwidthVars, main, exit, signal, request>>

\* The address is in use, or accepting connections fails later.
ListenFails ==
  /\ Running
  /\ listener \in {"binding", "listening"}
  /\ listener' = "failed"
  /\ UNCHANGED <<bandwidthVars, main, exit, signal, request>>

Arrive(q) ==
  /\ Running
  /\ listener = "listening"
  /\ request[q] = "none"
  /\ request' = [request EXCEPT ![q] = "active"]
  /\ UNCHANGED <<bandwidthVars, main, exit, signal, listener>>

Answer(q) ==
  /\ Running
  /\ request[q] = "active"
  /\ request' = [request EXCEPT ![q] = "answered"]
  /\ UNCHANGED <<bandwidthVars, main, exit, signal, listener>>

\* Once registerCollectors has started it, the background task; and the Collects
\* of the requests.
Background ==
  /\ Running
  /\ main # "starting"
  /\ BandwidthStep
  /\ (\E r \in Routers : collect'[r] = "locking" /\ collect[r] = "idle") =>
       \E q \in Requests : request[q] = "active"
  /\ UNCHANGED processVars

ProcessNext ==
  \/ MainStep
  \/ Signal \/ SignalKills \/ HandleSignal
  \/ Bind \/ ListenFails
  \/ \E q \in Requests : Arrive(q) \/ Answer(q)
  \/ Background

\* Goroutines that can run do, the 10 s of a shutdown pass, the mutex is handed
\* to whoever waits long enough, and the registry takes the samples of a Collect.
\* Nothing is assumed of the requests nor of the tests.
ProcessSpec ==
  /\ ProcessInit /\ [][ProcessNext]_allVars
  /\ WF_allVars(MainStep)
  /\ WF_allVars(HandleSignal)
  /\ \A r \in Routers :
       /\ SF_allVars(Running /\ (Copy(r) \/ NothingToShow(r)) /\ UNCHANGED processVars)
       /\ WF_allVars(Running /\ (Send(r) \/ CollectReturns(r)) /\ UNCHANGED processVars)

-----------------------------------------------------------------------------
\* A signal ends the process ("Shutting down server gracefully"), whatever the
\* requests and the test that are under way do, wherever the start was.
SignalEndsProcess == signal # "none" ~> main = "exited"

\* An exporter that cannot listen does not stay: its background task and its
\* goroutine for signals do not keep it.
ListenFailureEnds == listener = "failed" ~> main = "exited"

\* The Collect of every router returns, even if a test never ends: the mutex is
\* not held during a test.
CollectEnds == \A r \in Routers : collect[r] = "locking" ~> collect[r] = "idle" \/ ~Running

\* The process reports success only if no client lost an answer to its end, and
\* its end is what a signal asked for.
SuccessIsGraceful ==
  exit = "ok" => signal = "handled" /\ \A q \in Requests : request[q] # "cut"
=============================================================================
