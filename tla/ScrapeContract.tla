---------------------------- MODULE ScrapeContract ----------------------------
(***************************************************************************)
(* What the server promises of each request, with no word of goroutines,   *)
(* slots, registries or mutexes: it is refused or accepted, routers are    *)
(* found ready and asked for their metrics, it is answered once, and every *)
(* router it owes an IsDone to is given one before it is closed.           *)
(*                                                                         *)
(* An answer is about all routers that were found, with one exception: a   *)
(* request that ran out of time while it looked for them (504) may find    *)
(* more after it was closed, and nobody owes these anything.               *)
(***************************************************************************)

CONSTANTS Requests, Routers

VARIABLES
  phase,   \* "new", "open", "finalizing" or "closed"
  status,  \* the status it was answered, or "none"
  found,   \* the routers it has found ready
  asked,   \* those whose collectors take part in its answer
  owed     \* those it has still to call IsDone on

vars == <<phase, status, found, asked, owed>>

Init ==
  /\ phase = [q \in Requests |-> "new"]
  /\ status = [q \in Requests |-> "none"]
  /\ found = [q \in Requests |-> {}]
  /\ asked = [q \in Requests |-> {}]
  /\ owed = [q \in Requests |-> {}]

Enters(q, from, to) == phase[q] = from /\ phase' = [phase EXCEPT ![q] = to]

Refuse(q) ==
  /\ Enters(q, "new", "closed")
  /\ status' = [status EXCEPT ![q] = "429"]
  /\ UNCHANGED <<found, asked, owed>>

Accept(q) ==
  /\ Enters(q, "new", "open")
  /\ UNCHANGED <<status, found, asked, owed>>

Find(q, r) ==
  /\ phase[q] = "open"
  /\ found' = [found EXCEPT ![q] = @ \cup {r}]
  /\ owed' = [owed EXCEPT ![q] = @ \cup {r}]
  /\ UNCHANGED asked \/ asked' = [asked EXCEPT ![q] = @ \cup {r}]
  /\ UNCHANGED <<phase, status>>

Late(q) == status[q] = "504" /\ phase[q] = "closed"

FindLate(q, r) ==
  /\ Late(q)
  /\ found' = [found EXCEPT ![q] = @ \cup {r}]
  /\ UNCHANGED <<phase, status, asked, owed>>

Ask(q, r) ==
  /\ phase[q] = "open" \/ status[q] = "504"
  /\ r \in found[q]
  /\ asked' = [asked EXCEPT ![q] = @ \cup {r}]
  /\ UNCHANGED <<phase, status, found, owed>>

\* 200: the metrics of all that were found.  503: their collectors took too
\* long.  502: the one router of a probe was not ready.
Answer(q, code) ==
  /\ code \in {"200", "503"} => asked[q] = found[q]
  /\ code = "502" => found[q] = {}
  /\ Enters(q, "open", "finalizing")
  /\ status' = [status EXCEPT ![q] = code]
  /\ UNCHANGED <<found, asked, owed>>

\* The time is over before anything was found.
Abandon(q) ==
  /\ found[q] = {}
  /\ Enters(q, "open", "closed")
  /\ status' = [status EXCEPT ![q] = "504"]
  /\ UNCHANGED <<found, asked, owed>>

Finalize(q, r) ==
  /\ phase[q] = "finalizing"
  /\ r \in owed[q]
  /\ owed' = [owed EXCEPT ![q] = @ \ {r}]
  /\ UNCHANGED <<phase, status, found, asked>>

Close(q) ==
  /\ owed[q] = {}
  /\ Enters(q, "finalizing", "closed")
  /\ UNCHANGED <<status, found, asked, owed>>

Next ==
  \E q \in Requests :
    \/ Refuse(q) \/ Accept(q) \/ Abandon(q) \/ Close(q)
    \/ \E code \in {"200", "502", "503", "504"} : Answer(q, code)
    \/ \E r \in Routers : Find(q, r) \/ FindLate(q, r) \/ Ask(q, r) \/ Finalize(q, r)

Spec == Init /\ [][Next]_vars
=============================================================================
