---------------------------- MODULE TraceResult ----------------------------
(***************************************************************************)
(* What becomes of the replies of one trace: the callback of               *)
(* traceroute.Trace groups them into hops as they come, Trace sorts the    *)
(* hops and merges those at the end in which only the destination          *)
(* answered, and traceIP lays the rest out as a table with one line per    *)
(* distance.  An RTT is represented by the number of the reply it was      *)
(* measured on.                                                            *)
(***************************************************************************)
EXTENDS Integers, Sequences, FiniteSets, SequencesExt

CONSTANTS
  Addrs,       \* addresses that answer
  Dest,        \* the address traced
  MaxDist,     \* largest hop count of a reply
  MaxReplies   \* bound of the model: replies of one trace

ASSUME DestAssumption == Dest \in Addrs
ASSUME DistAssumption == MaxDist \in Nat \ {0}

VARIABLES
  replies,  \* the replies h was called with
  hops,     \* the list of hops
  table,    \* traceIP's result
  err,      \* Trace returned an error
  stage     \* "tracing", "traced" when Trace returns, "stored"

vars == <<replies, hops, table, err, stage>>

Reply == [ip : Addrs, hops : 1..MaxDist]
-----------------------------------------------------------------------------
(* traceroute.Trace *)

\* touch: the place of the hop at distance d, or one past the end if it is new.
Touch(hs, d) ==
  LET i == SelectInSeq(hs, LAMBDA h : h.dist = d) IN IF i = 0 THEN Len(hs) + 1 ELSE i

\* Hop.Add: the RTT joins the node with that address, or a new node at the end.
AddNode_Always(nodes, ip, rtt) == Append(nodes, [ip |-> ip, rtt |-> <<rtt>>])
AddNode(nodes, ip, rtt) ==
  LET i == SelectInSeq(nodes, LAMBDA x : x.ip = ip)
  IN  IF i = 0 THEN Append(nodes, [ip |-> ip, rtt |-> <<rtt>>])
               ELSE [nodes EXCEPT ![i] = [ip |-> ip, rtt |-> Append(@.rtt, rtt)]]

AddReply(hs, r, rtt) ==
  LET i == Touch(hs, r.hops)
      nodes == IF i > Len(hs) THEN <<>> ELSE hs[i].nodes
      h == [dist |-> r.hops, nodes |-> AddNode(nodes, r.ip, rtt)]
  IN  IF i > Len(hs) THEN Append(hs, h) ELSE [hs EXCEPT ![i] = h]

\* No distance occurs twice, so a hop's rank is its place.
Sorted(hs) ==
  LET rank == [h \in ToSet(hs) |-> Cardinality({g \in ToSet(hs) : g.dist <= h.dist})]
  IN  [k \in 1..Len(hs) |-> CHOOSE h \in ToSet(hs) : rank[h] = k]

DestOnly(h) == Len(h.nodes) = 1 /\ h.nodes[1].ip = Dest

\* The first hop after the last one in which somebody else answered takes over
\* the RTTs of those behind it.
Merged(hs, k, n) ==
  LET rtts == FlattenSeq([i \in 1..n |-> hs[i + k].nodes[1].rtt])
  IN  Append(SubSeq(hs, 1, k), [dist |-> hs[k + 1].dist, nodes |-> <<[ip |-> Dest, rtt |-> rtts]>>])

MergeBeyondCut(hs, k) == Merged(hs, k, Len(hs) - k - 1)
MergeTail(hs, k) == Merged(hs, k, Len(hs) - k)

\* Nothing is merged if only the destination answered, or not as the last.
Trimmed(hs) ==
  LET k == SelectLastInSeq(hs, LAMBDA h : ~DestOnly(h))
  IN  IF k = 0 \/ k = Len(hs) THEN hs ELSE MergeTail(hs, k)
-----------------------------------------------------------------------------
(* traceIP *)

Silent == [ip |-> "*", rtt |-> <<>>]

\* One line per distance up to the last hop's; the last node of a hop wins.
Size_Count(hs) == Len(hs)
Size(hs) == IF hs = <<>> THEN 0 ELSE hs[Len(hs)].dist

Table(hs) ==
  [d \in 1..Size(hs) |->
     LET i == SelectInSeq(hs, LAMBDA h : h.dist = d)
     IN  IF i = 0 THEN Silent ELSE Last(hs[i].nodes)]
-----------------------------------------------------------------------------
Init ==
  /\ replies = <<>>
  /\ hops = <<>>
  /\ table = <<>>
  /\ err = FALSE
  /\ stage = "tracing"

\* Trace calls h.
Handed(r) ==
  /\ stage = "tracing"
  /\ Len(replies) < MaxReplies
  /\ replies' = Append(replies, r)
  /\ hops' = AddReply(hops, r, Len(replies) + 1)
  /\ UNCHANGED <<table, err, stage>>

Return ==
  /\ stage = "tracing"
  /\ hops' = Trimmed(Sorted(hops))
  /\ stage' = "traced"
  /\ UNCHANGED <<replies, table, err>>

\* A probe could not be sent: Trace returns nil, whatever replies there were.
\* traceIP logs the error and goes on without hops.
ReturnError ==
  /\ stage = "tracing"
  /\ hops' = <<>>
  /\ err' = TRUE
  /\ stage' = "traced"
  /\ UNCHANGED <<replies, table>>

LayOut ==
  /\ stage = "traced"
  /\ table' = Table(hops)
  /\ stage' = "stored"
  /\ UNCHANGED <<replies, hops, err>>

Next == (\E r \in Reply : Handed(r)) \/ Return \/ ReturnError \/ LayOut

Spec == Init /\ [][Next]_vars
-----------------------------------------------------------------------------
(***************************************************************************)
(* The result, said without the list: the distances at which somebody      *)
(* other than the destination answered, or that precede such a distance,   *)
(* keep their replies; the destination's replies beyond them all count at  *)
(* the smallest of their distances, unless nobody else answered at all.    *)
(***************************************************************************)
Dists  == {replies[i].hops : i \in DOMAIN replies}
Others == {replies[i].hops : i \in {j \in DOMAIN replies : replies[j].ip # Dest}}
Beyond == {d \in Dists : Others # {} /\ \A e \in Others : d > e}
Home(d) == IF d \in Beyond THEN CHOOSE e \in Beyond : \A f \in Beyond : e <= f ELSE d

Grouped ==
  {<<Home(replies[i].hops), replies[i].ip, i>> : i \in DOMAIN replies}

\* After an error nothing is left of them.
Expected == IF err THEN {} ELSE Grouped

Listed(hs) ==
  UNION {UNION {{<<hs[i].dist, hs[i].nodes[j].ip, k>> : k \in ToSet(hs[i].nodes[j].rtt)} :
                 j \in DOMAIN hs[i].nodes} : i \in DOMAIN hs}

\* Trace returns every RTT exactly once, at the distance and address where it
\* was measured, but for the destination's answers to probes sent too far; or,
\* when one probe could not be sent, none of them.
TraceGroupsReplies ==
  stage # "tracing" =>
    /\ Listed(hops) = Expected
    /\ \A i \in DOMAIN hops : \A j \in DOMAIN hops[i].nodes : IsInjective(hops[i].nodes[j].rtt)

\* The hops come in increasing order, each distance once, each address once in
\* a hop, none empty: what traceIP relies on to index its table.
HopsOrdered ==
  stage # "tracing" =>
    /\ \A i, j \in DOMAIN hops : i < j => hops[i].dist < hops[j].dist
    /\ \A i \in DOMAIN hops :
         /\ hops[i].nodes # <<>>
         /\ \A j, k \in DOMAIN hops[i].nodes :
              hops[i].nodes[j].ip = hops[i].nodes[k].ip => j = k

\* Every hop has a line of the table and the last line is not silent, so that the
\* hop count that is reported was measured.  A destination without a table is one
\* of which nothing came back, or of whose probes one could not be sent.
TableCoversHops ==
  stage = "stored" =>
    /\ \A i \in DOMAIN hops : hops[i].dist \in DOMAIN table /\ table[hops[i].dist] # Silent
    /\ table # <<>> => Last(table) # Silent
    /\ (table = <<>>) = (err \/ replies = <<>>)

\* The type of every variable.
TypeOK ==
  /\ replies \in Seq(Reply)
  /\ \A i \in DOMAIN hops : hops[i].dist \in 1..MaxDist /\ hops[i].nodes \in Seq([ip : Addrs, rtt : Seq(Nat)])
  /\ \A d \in DOMAIN table : d \in 1..MaxDist /\ table[d].ip \in Addrs \cup {"*"}
  /\ err \in BOOLEAN
  /\ stage \in {"tracing", "traced", "stored"}
=============================================================================
