------------------------------ MODULE RoundLog ------------------------------
(***************************************************************************)
(* What the rounds of the agent promise about trace results, whatever      *)
(* queues, goroutines, directories and archives are in between: a task     *)
(* (one destination in one round) is asked for once and traced once; if    *)
(* the trace found anything its result is kept, and it stays, unless one   *)
(* of the counted faults of the storage costs it: a fault costs results of *)
(* one round only.                                                         *)
(***************************************************************************)
EXTENDS Naturals

CONSTANT Tasks   \* pairs of a round and a destination

VARIABLES
  asked,    \* tasks of all rounds so far
  pending,  \* not yet traced
  found,    \* traced, with a result to save
  kept,     \* saved
  faults    \* faults of the storage so far

logVars == <<asked, pending, found, kept, faults>>

Init == asked = {} /\ pending = {} /\ found = {} /\ kept = {} /\ faults = 0

Ask(t) ==
  /\ t \notin asked
  /\ asked' = asked \cup {t}
  /\ pending' = pending \cup {t}
  /\ UNCHANGED <<found, kept, faults>>

\* The trace of a task ends, with a result or without.
Trace(t) ==
  /\ t \in pending
  /\ pending' = pending \ {t}
  /\ found' \in {found, found \cup {t}}
  /\ UNCHANGED <<asked, kept, faults>>

Keep(t) ==
  /\ t \in found
  /\ found' = found \ {t}
  /\ kept' = kept \cup {t}
  /\ UNCHANGED <<asked, pending, faults>>

Fault ==
  /\ faults' = faults + 1
  /\ found' \subseteq found /\ kept' \subseteq kept
  /\ \A t, u \in (found \ found') \cup (kept \ kept') : t[1] = u[1]
  /\ UNCHANGED <<asked, pending>>

Next == Fault \/ \E t \in Tasks : Ask(t) \/ Trace(t) \/ Keep(t)

Spec == Init /\ [][Next]_logVars
=============================================================================
