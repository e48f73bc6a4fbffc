---------------------------- MODULE StreamContract ----------------------------
(***************************************************************************)
(* What Connection.RunStream promises each of its callers, with no word of *)
(* sessions, locks or channels: the callback sees the router's records in  *)
(* order and none after the call has noticed that its context is over; the *)
(* call succeeds only if the callback has seen them all; otherwise it      *)
(* fails, at any time.                                                     *)
(***************************************************************************)
EXTENDS Naturals

CONSTANTS
  Goroutines,  \* the callers
  MaxRecords   \* bound: records one call is sent

VARIABLES
  phase,    \* "out" of a call, "in" one, or its result is decided
  stopped,  \* the call has noticed that its context is over
  sent,     \* records the router has sent to the call
  used      \* records the callback has seen

vars == <<phase, stopped, sent, used>>

Init ==
  /\ phase = [g \in Goroutines |-> "out"]
  /\ stopped = [g \in Goroutines |-> FALSE]
  /\ sent = [g \in Goroutines |-> 0]
  /\ used = [g \in Goroutines |-> 0]

Call(g) ==
  /\ phase[g] = "out"
  /\ phase' = [phase EXCEPT ![g] = "in"]
  /\ UNCHANGED <<stopped, sent, used>>

Send(g) ==
  /\ phase[g] = "in"
  /\ sent[g] < MaxRecords
  /\ sent' = [sent EXCEPT ![g] = @ + 1]
  /\ UNCHANGED <<phase, stopped, used>>

Use(g) ==
  /\ phase[g] = "in"
  /\ ~stopped[g]
  /\ used[g] < sent[g]
  /\ used' = [used EXCEPT ![g] = @ + 1]
  /\ UNCHANGED <<phase, stopped, sent>>

Stop(g) ==
  /\ phase[g] = "in"
  /\ stopped' = [stopped EXCEPT ![g] = TRUE]
  /\ UNCHANGED <<phase, sent, used>>

Succeed(g) ==
  /\ phase[g] = "in"
  /\ ~stopped[g]
  /\ used[g] = sent[g]
  /\ phase' = [phase EXCEPT ![g] = "succeeded"]
  /\ UNCHANGED <<stopped, sent, used>>

Fail(g) ==
  /\ phase[g] = "in"
  /\ phase' = [phase EXCEPT ![g] = "failed"]
  /\ UNCHANGED <<stopped, sent, used>>

Return(g) ==
  /\ phase[g] # "out"
  /\ phase[g] = "in" => sent[g] = 0 /\ ~stopped[g]
  /\ phase' = [phase EXCEPT ![g] = "out"]
  /\ stopped' = [stopped EXCEPT ![g] = FALSE]
  /\ sent' = [sent EXCEPT ![g] = 0]
  /\ used' = [used EXCEPT ![g] = 0]

Next ==
  \E g \in Goroutines :
    Call(g) \/ Send(g) \/ Use(g) \/ Stop(g) \/ Succeed(g) \/ Fail(g) \/ Return(g)

Spec == Init /\ [][Next]_vars
=============================================================================
