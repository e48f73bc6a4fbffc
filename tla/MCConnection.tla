----------------------------- MODULE MCConnection -----------------------------
(***************************************************************************)
(* Instances of Connection for TLC: a scraper, which connects, runs and    *)
(* disconnects (RouterEntry.IsReady, a collector, RouterEntry.IsDone), and *)
(* collectors that stream tables (route.go, connection.go).                *)
(***************************************************************************)
EXTENDS Connection, TLC

CONSTANTS Scrapers, Streamers

MCGoroutines == Scrapers \cup Streamers

MCCalls ==
  [g \in MCGoroutines |->
     IF g \in Scrapers THEN {"Connect", "Disconnect", "Run"} ELSE {"RunStream"}]

\* A delay of 1 that grows to 2 with the second failure and is capped there.
MCConfig == [initial |-> 1, max |-> 2, divisor |-> 1]

Symmetry == Permutations(Sessions) \cup Permutations(Streamers)
=============================================================================
