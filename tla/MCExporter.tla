------------------------------ MODULE MCExporter ------------------------------
(* Instances of Exporter for TLC. *)
EXTENDS Exporter, TLC

CONSTANTS m1, p1, r1, r2

\* A scrape of every router and a probe.
MCTargetPair == (m1 :> All) @@ (p1 :> r1)
=============================================================================
