------------------------------ MODULE MCTracer ------------------------------
(***************************************************************************)
(* Instances of Tracer for TLC.                                            *)
(***************************************************************************)
EXTENDS Tracer, TLC

CONSTANTS d1, d2, router

\* d1 is two hops away, d2 answers at the first.
MCDist == [d \in Dests |-> IF d = d1 THEN 2 ELSE 1]

Symmetry == Permutations(Receivers)
=============================================================================
