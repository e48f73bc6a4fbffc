------------------------------ MODULE MCCollect ------------------------------
(* An instance of Collect for TLC: every collector alone, with all its        *)
(* settings on and with each of them off, and the pairs that share a metric   *)
(* name, a setting, a table or the lease cache.                               *)
EXTENDS Collect

StepsOf(c) == Program(c).steps
FlagsOf(c) == Program(c).gate
              \cup UNION {StepsOf(c)[i].gate \cup UNION {StepsOf(c)[i].emit[k].when : k \in 1..Len(StepsOf(c)[i].emit)}
                          : i \in 1..Len(StepsOf(c))}
FlagsOfAll(C) == UNION {FlagsOf(c) : c \in C}

Pairs == {{"wlan", "capsman"}, {"kid_control", "kid_control_device"}, {"interface", "monitor"},
          {"system_resource", "system_update"}, {"health", "pool"}, {"dhcp", "connection"},
          {"bgp", "bfd"}, {"gre", "ipip"}, {"route", "monitor"}}

MCSetups ==
  {[collectors |-> {c}, flags |-> FlagsOf(c)] : c \in AllCollectors}
  \cup UNION {{[collectors |-> {c}, flags |-> FlagsOf(c) \ {f}] : f \in FlagsOf(c)}
              : c \in AllCollectors}
  \cup {[collectors |-> P, flags |-> FlagsOfAll(P)] : P \in Pairs}

MCRow(n, s, x, m, ch, p) ==
  [name |-> n, state |-> s, text |-> x, comment |-> m, channel |-> ch, protocols |-> p]
MCTables ==
  {<<>>,
   <<MCRow("a", "yes", "7", "", "c1", {"static"}), MCRow("a", "no", "1h", "x", "c2", {})>>,
   <<MCRow("a", "yes", "noon", "x", "c1", {"dynamic", "bgp"}), MCRow("", "yes", "7", "x", "c1", {}),
     MCRow("b", "no", "yes", "", "c1", {"connect"}), MCRow("b", "", "", "", "", {"ospf"})>>}
MCNumbers == [x \in {"7"} |-> 7]
MCDurations == [x \in {"1h"} |-> 3600]
MCTimes == [x \in {"noon"} |-> 43200]

\* A link that runs at a rate RouterOS has a word for.
MCRateSetups == {[collectors |-> {"monitor"}, flags |-> FlagsOf("monitor")]}
MCRateTables == {<<>>, <<MCRow("a", "yes", "1Gbps", "", "", {})>>}
==============================================================================
