---------------------------- MODULE MCStatistics ----------------------------
(***************************************************************************)
(* Instances of Statistics for TLC.                                        *)
(***************************************************************************)
EXTENDS Statistics

\* RTTs of which one is too small to be measured, hop counts of which one is
\* far from the others and one below zero (a reply that came with TTL 127).
Near      == {<<0, 1>>, <<1, 9>>, <<2, 1>>, <<3, -63>>, <<7, 2>>}
MCReplies == Near \cup {<<1, 1>>, <<1, 60>>}

\* All periods of at most so many packets.
Short(max) == UNION {[1..n -> Near \cup {Lost}] : n \in 1..max}

\* n packets that were answered, k of which went 60 hops, far more than the others.
Far(n, k, hops) == [i \in 1..n |-> <<1, IF i <= k THEN 60 ELSE hops>>]

\* Periods of the default length, and those in which the share of the packets
\* beyond the estimate is as large as it can be.
MCPeriods == Short(5) \cup {Far(11, 1, 1), Far(22, 2, 1), Far(50, 1, 9), Far(50, 5, 9)}

\* Three packets that differ, of which one may be lost.
JitterPeriods == {r \in [1..3 -> {<<1, 9>>, <<2, 1>>, <<3, -63>>, Lost}] : IsInjective(r)}
=============================================================================
