----------------------------- MODULE MCRouterEntry -----------------------------
(* Instances of RouterEntry for TLC. *)
EXTENDS RouterEntry, TLC

Symmetry == Permutations(Scrapes) \cup Permutations(Collectors)
=============================================================================
