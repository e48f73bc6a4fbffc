------------------------------- MODULE Backoff -------------------------------
(***************************************************************************)
(* The connect backoff of a routeros.Connection                            *)
(* (internal/routeros/connection.go): how long Connect keeps returning     *)
(* without dialing after a failure, as a function of the configuration and *)
(* of the number of failures recorded since the last success.              *)
(*                                                                         *)
(* Durations are natural numbers of one unit; the code's truncation of a   *)
(* float64 duration to a whole nanosecond is the floor of \div.            *)
(***************************************************************************)
EXTENDS Integers

\* A BackoffConfig.  The divisor is an int read from the configuration file,
\* so it may be zero or negative; the durations are not.
BackoffConfig == [initial : Nat, max : Nat, divisor : Int]

DefaultBackoff == [initial |-> 10, max |-> 900, divisor |-> 5]

\* The configuration connectDelay computes with: a divisor that is not
\* positive discards the WHOLE configuration, not only the divisor.
Effective(b) == IF b.divisor <= 0 THEN DefaultBackoff ELSE b

\* initial * (1 + failures / divisor), before the cap.
GrownDelay(b, failures) == b.initial + (b.initial * failures) \div b.divisor

\* Mutant: the cap forgotten.
ConnectDelayUncapped(b, failures) == GrownDelay(Effective(b), failures)

\* Mutant: the floor and the cap swapped, so the delay shrinks as it grows.
ConnectDelayShrinking(b, failures) ==
  LET e == Effective(b)
  IN IF GrownDelay(e, failures) > e.max THEN e.initial ELSE GrownDelay(e, failures)

ConnectDelay(b, failures) ==
  LET e == Effective(b)
  IN IF GrownDelay(e, failures) > e.max THEN e.max ELSE GrownDelay(e, failures)

\* The backoff period is over when the elapsed time reaches the delay.
Waiting(b, failures, elapsed) == ConnectDelay(b, failures) - elapsed > 0
=============================================================================
