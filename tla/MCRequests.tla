----------------------------- MODULE MCRequests -----------------------------
(***************************************************************************)
(* Instances of Requests for TLC.                                          *)
(***************************************************************************)
EXTENDS Requests

\* One batch and two; an object the device does not have, asked for alone,
\* in between and last; names with the dot and without.
Plain(o) == <<o, FALSE>>
MCGets == {<<Dotted("o3")>>, <<Plain("o3"), Dotted("o1")>>,
           <<Dotted("o1"), Plain("o2"), Dotted("o3")>>}
=============================================================================
