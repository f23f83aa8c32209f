----------------------------- MODULE TableLoad ------------------------------
(***************************************************************************)
(* What the transfer to the database promises (Store and                   *)
(* InsertTableWithTimeout of dataStore/dao/store.go): the tables of a      *)
(* transfer are asked to be inserted in their order, each of them once or  *)
(* twice in a row; the rows of a request arrive together, after it was     *)
(* asked, and at most once, whichever goroutine commits them.              *)
(***************************************************************************)
EXTENDS Integers

CONSTANTS
  Stores,   \* the transfers, numbers
  Tables    \* the tables of a transfer, numbers

Attempt == Stores \X Tables \X {1, 2}

VARIABLES
  asked,    \* the requests made so far
  landed    \* landed[a]: how often the rows of a have arrived

vars == <<asked, landed>>

\* b is asked later than a, if at all.
After(b, a) ==
  \/ b[1] > a[1]
  \/ b[1] = a[1] /\ b[2] > a[2]
  \/ b[1] = a[1] /\ b[2] = a[2] /\ b[3] > a[3]

Init ==
  /\ asked = {}
  /\ landed = [a \in Attempt |-> 0]

\* The first or, after the first, the second request for a table, when
\* nothing later was asked.
Ask(a) ==
  /\ a \notin asked
  /\ \A b \in asked : After(a, b)
  /\ a[3] = 2 => <<a[1], a[2], 1>> \in asked
  /\ asked' = asked \cup {a}
  /\ UNCHANGED landed

\* The rows of some requests arrive.
Land ==
  /\ landed' \in [Attempt -> {0, 1}]
  /\ \A a \in Attempt :
       landed'[a] # landed[a] => a \in asked /\ landed[a] = 0
  /\ UNCHANGED asked

Next == (\E a \in Attempt : Ask(a)) \/ Land

Spec == Init /\ [][Next]_vars
=============================================================================
