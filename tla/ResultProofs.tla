---------------------------- MODULE ResultProofs ----------------------------
(***************************************************************************)
(* Theorems about what the agent makes of replies.  TraceResult: the       *)
(* callback of Trace, its sort and its merge, and traceIP's table, for     *)
(* every set of addresses, every number of hops and of replies.            *)
(* Statistics: the samples, the list of results, the cells and the         *)
(* estimate of the hops, for every set of replies and number of packets.   *)
(***************************************************************************)
EXTENDS TraceResult, Statistics, SequenceTheorems, FiniteSetTheorems, TLAPS

Node == [ip : Addrs, rtt : Seq(Nat)]
Hop  == [dist : 1..MaxDist, nodes : Seq(Node)]

\* The nodes of a hop: each address once, each with RTTs, none twice.
GoodNodes(ns) ==
  /\ ns \in Seq(Node)
  /\ \A j, k \in DOMAIN ns : ns[j].ip = ns[k].ip => j = k
  /\ \A j \in DOMAIN ns : ns[j].rtt # <<>> /\ IsInjective(ns[j].rtt)

\* The hops of a trace: each distance once, none empty.
GoodHops(hs) ==
  /\ hs \in Seq(Hop)
  /\ \A i \in DOMAIN hs : GoodNodes(hs[i].nodes) /\ hs[i].nodes # <<>>
  /\ \A i, j \in DOMAIN hs : hs[i].dist = hs[j].dist => i = j

Increasing(hs) == \A i, j \in DOMAIN hs : i < j => hs[i].dist < hs[j].dist

\* Reply n is kept at a node with address a, of a hop at distance d.
Has(ns, a, n) == \E j \in DOMAIN ns : ns[j].ip = a /\ n \in ToSet(ns[j].rtt)
Keeps(hs, d, a, n) == \E i \in DOMAIN hs : hs[i].dist = d /\ Has(hs[i].nodes, a, n)

\* What h was told.
Told(d, a, n) == n \in DOMAIN replies /\ replies[n].hops = d /\ replies[n].ip = a

IInv ==
  /\ replies \in Seq(Reply)
  /\ stage \in {"tracing", "traced", "stored"}
  /\ GoodHops(hops)
  /\ stage = "tracing" => \A d, a, n : Keeps(hops, d, a, n) <=> Told(d, a, n)
  /\ stage # "tracing" => Increasing(hops) /\ Listed(hops) = Expected
  /\ stage = "tracing" => err = FALSE
  /\ err \in BOOLEAN
  /\ table = IF stage = "stored" THEN Table(hops) ELSE <<>>
-----------------------------------------------------------------------------
(* Numbers and sequences *)

LEMMA LeastIsMin ==
  ASSUME NEW S \in SUBSET Nat, S # {}
  PROVE  Min(S) \in S /\ \A y \in S : Min(S) <= y
<1>1. IsWellFoundedOn(OpToRel(<, Nat), Nat)
  BY NatLessThanWellFounded
<1>2. PICK t \in S : \A y \in S : <<y, t>> \notin OpToRel(<, Nat)
  BY <1>1, WFMin
<1>3. \A y \in S : ~(y < t)
  BY <1>2 DEF OpToRel
<1>4. t \in S /\ \A y \in S : t <= y
  BY <1>3
<1>. QED BY <1>4 DEF Min

LEMMA GreatestIsMax ==
  ASSUME NEW b \in Nat, NEW S \in SUBSET (0..b), S # {}
  PROVE  Max(S) \in S /\ \A y \in S : y <= Max(S)
<1> DEFINE T == {y \in Nat : b - y \in S}
<1>1. \A x \in S : b - x \in Nat /\ b - (b - x) = x
  OBVIOUS
<1>2. T \in SUBSET Nat /\ T # {}
  BY <1>1
<1>3. Min(T) \in T /\ \A y \in T : Min(T) <= y
  BY <1>2, LeastIsMin
<1>4. ASSUME NEW x \in S PROVE b - Min(T) >= x
  <2>1. b - x \in T
    BY <1>1
  <2>2. Min(T) <= b - x
    BY <2>1, <1>3
  <2> HIDE DEF T
  <2>. QED BY <1>3, <2>2 DEF T
<1>5. b - Min(T) \in S
  BY <1>3
<1>6. Max(S) \in S /\ \A y \in S : Max(S) >= y
  BY <1>4, <1>5 DEF Max
<1>. QED BY <1>6

\* A place of a sequence.
LEMMA Places ==
  ASSUME NEW S, NEW s \in Seq(S)
  PROVE  /\ Len(s) \in Nat /\ DOMAIN s = 1..Len(s)
         /\ \A i \in DOMAIN s : s[i] \in S
  OBVIOUS

LEMMA AppendPlaces ==
  ASSUME NEW S, NEW s \in Seq(S), NEW e \in S
  PROVE  /\ Append(s, e) \in Seq(S) /\ Append(s, e) # <<>>
         /\ DOMAIN Append(s, e) = DOMAIN s \cup {Len(s) + 1}
         /\ Len(s) + 1 \notin DOMAIN s
         /\ Append(s, e)[Len(s) + 1] = e
         /\ \A i \in DOMAIN s : Append(s, e)[i] = s[i]
  OBVIOUS

\* What holds of zero and goes on to the next number holds of them all.
LEMMA UpTo ==
  ASSUME NEW m \in Nat, NEW P, 0 \in P, \A i \in 0..m : i \in P /\ i < m => i + 1 \in P
  PROVE  \A i \in 0..m : i \in P
<1> DEFINE Bad == {i \in 0..m : i \notin P}
<1> SUFFICES ASSUME Bad # {} PROVE FALSE
  OBVIOUS
<1>1. Bad \in SUBSET Nat
  OBVIOUS
<1> DEFINE i == Min(Bad)
<1>2. i \in Bad /\ \A k \in Bad : i <= k
  <2> HIDE DEF Bad
  <2>. QED BY <1>1, LeastIsMin
<1> HIDE DEF i
<1>3. i \in 0..m /\ i \notin P /\ i # 0
  BY <1>2
<1>4. i - 1 \in 0..m /\ i - 1 < m /\ (i - 1) + 1 = i /\ ~(i <= i - 1)
  BY <1>3
<1>5. i - 1 \in P
  BY <1>2, <1>4
<1>. QED BY <1>3, <1>4, <1>5

\* Below is a total order of X: what is below an element, and itself.
Ordered(X, Below) ==
  /\ \A x \in X : Below[x] \subseteq X /\ x \in Below[x]
  /\ \A x, y \in X : x \in Below[y] \/ y \in Below[x]
  /\ \A x, y \in X : x \in Below[y] /\ y \in Below[x] => x = y
  /\ \A x, y \in X : x \in Below[y] => Below[x] \subseteq Below[y]

\* In a finite set the number of elements up to one is its place.
LEMMA Ranks ==
  ASSUME NEW X, IsFiniteSet(X), NEW N, N = Cardinality(X), NEW Below, Ordered(X, Below),
         NEW rk, rk = [x \in X |-> Cardinality(Below[x])]
  PROVE  /\ rk \in Bijection(X, 1..N)
         /\ \A x, y \in X : rk[x] <= rk[y] => x \in Below[y]
<1>1. N \in Nat /\ IsFiniteSet(1..N) /\ Cardinality(1..N) = N
  <2>1. N \in Nat
    BY FS_CardinalityType
  <2>. QED BY <2>1, FS_Interval
<1>2. \A x \in X : IsFiniteSet(Below[x]) /\ Cardinality(Below[x]) \in 1..N
  <2> SUFFICES ASSUME NEW x \in X
               PROVE  IsFiniteSet(Below[x]) /\ Cardinality(Below[x]) \in 1..N
    OBVIOUS
  <2> DEFINE B == Below[x]
  <2>1. B \in SUBSET X /\ x \in B
    BY DEF Ordered
  <2> HIDE DEF B
  <2>2. IsFiniteSet(B) /\ Cardinality(B) <= N /\ Cardinality(B) \in Nat
    BY <2>1, FS_Subset, FS_CardinalityType
  <2>3. Cardinality(B) # 0
    BY <2>1, <2>2, FS_EmptySet
  <2>4. Cardinality(B) \in 1..N
    BY <1>1, <2>2, <2>3
  <2>. QED BY <2>2, <2>4 DEF B
<1>3. \A x \in X : rk[x] = Cardinality(Below[x])
  OBVIOUS
<1>4. rk \in [X -> 1..N]
  BY <1>2
<1>5. ASSUME NEW x \in X, NEW y \in X, x \notin Below[y] PROVE rk[y] < rk[x]
  <2> DEFINE B == Below[y]
             C == Below[x]
  <2>1. B \in SUBSET C /\ B # C
    BY <1>5 DEF Ordered
  <2>2. IsFiniteSet(B) /\ IsFiniteSet(C)
    BY <1>2
  <2>3. rk[y] = Cardinality(B) /\ rk[x] = Cardinality(C)
    BY <1>3
  <2> HIDE DEF B, C
  <2>4. Cardinality(B) <= Cardinality(C) /\ Cardinality(C) # Cardinality(B)
    BY <2>1, <2>2, FS_Subset
  <2>5. Cardinality(B) \in Nat /\ Cardinality(C) \in Nat
    BY <2>2, FS_CardinalityType
  <2>. QED BY <2>3, <2>4, <2>5
<1>6. \A x \in X : rk[x] \in Nat
  BY <1>4
<1>7. ASSUME NEW x \in X, NEW y \in X, rk[x] <= rk[y] PROVE x \in Below[y]
  BY <1>5, <1>6, <1>7
<1>8. ASSUME NEW x \in X, NEW y \in X, rk[x] = rk[y] PROVE x = y
  <2>1. rk[x] <= rk[y] /\ rk[y] <= rk[x]
    BY <1>6, <1>8
  <2>2. x \in Below[y] /\ y \in Below[x]
    BY <1>7, <2>1
  <2>. QED BY <2>2 DEF Ordered
<1>9. rk \in Injection(X, 1..N)
  <2>1. IsInjective(rk)
    BY <1>4, <1>8 DEF IsInjective
  <2>. QED BY <1>4, <2>1 DEF Injection
<1>10. rk \in Surjection(X, 1..N)
  BY <1>1, <1>9, FS_Injection
<1>. QED BY <1>7, <1>9, <1>10 DEF Bijection
-----------------------------------------------------------------------------
(* A reply joins the hops *)

LEMMA AppendedRtt ==
  ASSUME NEW s \in Seq(Nat), IsInjective(s), NEW n \in Nat, n \notin ToSet(s),
         NEW t, t = Append(s, n)
  PROVE  t \in Seq(Nat) /\ t # <<>> /\ IsInjective(t) /\ ToSet(t) = ToSet(s) \cup {n}
<1> DEFINE l == Len(s) + 1
<1>1. /\ t \in Seq(Nat) /\ t # <<>> /\ DOMAIN t = DOMAIN s \cup {l} /\ l \notin DOMAIN s
      /\ t[l] = n /\ \A i \in DOMAIN s : t[i] = s[i]
  BY AppendPlaces
<1> HIDE DEF l
<1>2. \A i \in DOMAIN s : s[i] # n
  BY DEF ToSet
<1>3. IsInjective(t)
  BY <1>1, <1>2 DEF IsInjective
<1>4. ToSet(t) = ToSet(s) \cup {n}
  BY <1>1 DEF ToSet
<1>. QED BY <1>1, <1>3, <1>4

LEMMA AddNodeKeeps ==
  ASSUME NEW ns, GoodNodes(ns), NEW ip \in Addrs, NEW n \in Nat, \A a : ~Has(ns, a, n)
  PROVE  /\ GoodNodes(AddNode(ns, ip, n)) /\ AddNode(ns, ip, n) # <<>>
         /\ \A a, m : Has(AddNode(ns, ip, n), a, m) <=> Has(ns, a, m) \/ (a = ip /\ m = n)
<1> DEFINE I == {i \in 1..Len(ns) : ns[i].ip = ip}
           new == AddNode(ns, ip, n)
<1>1. /\ ns \in Seq(Node) /\ Len(ns) \in Nat /\ DOMAIN ns = 1..Len(ns)
      /\ \A j \in DOMAIN ns : ns[j] \in Node
  BY Places DEF GoodNodes
<1>2. CASE I = {}
  <2> DEFINE e == [ip |-> ip, rtt |-> <<n>>]
             l == Len(ns) + 1
  <2>1. new = Append(ns, e)
    BY <1>2 DEF AddNode, SelectInSeq
  <2>2. e \in Node /\ e.ip = ip /\ e.rtt # <<>> /\ IsInjective(e.rtt) /\ ToSet(e.rtt) = {n}
    BY DEF Node, IsInjective, ToSet
  <2> HIDE DEF e
  <2>3. /\ new \in Seq(Node) /\ new # <<>>
        /\ DOMAIN new = DOMAIN ns \cup {l} /\ l \notin DOMAIN ns
        /\ new[l] = e /\ \A j \in DOMAIN ns : new[j] = ns[j]
    BY <1>1, <2>1, <2>2, AppendPlaces
  <2>4. \A j \in DOMAIN ns : ns[j].ip # ip
    BY <1>1, <1>2
  <2> HIDE DEF l, new, I
  <2>5. GoodNodes(new)
    BY <2>2, <2>3, <2>4 DEF GoodNodes
  <2>6. \A a, m : Has(new, a, m) <=> Has(ns, a, m) \/ (a = ip /\ m = n)
    BY <2>2, <2>3 DEF Has
  <2>. QED BY <2>3, <2>5, <2>6 DEF new
<1>3. CASE I # {}
  <2> DEFINE i == Min(I)
             s == ns[i].rtt
             t == Append(s, n)
  <2>1. i \in I
    <3>1. I \in SUBSET Nat
      BY <1>1
    <3> HIDE DEF I
    <3>. QED BY <1>3, <3>1, LeastIsMin
  <2>2. i \in DOMAIN ns /\ ns[i].ip = ip /\ i # 0
    BY <1>1, <2>1
  <2>3. new = [ns EXCEPT ![i] = [ip |-> ip, rtt |-> t]]
    BY <1>3, <2>2 DEF AddNode, SelectInSeq
  <2>4. ns[i] \in Node /\ s \in Seq(Nat) /\ IsInjective(s) /\ n \notin ToSet(s)
    BY <1>1, <2>2 DEF Node, GoodNodes, Has
  <2>5. t \in Seq(Nat) /\ t # <<>> /\ IsInjective(t) /\ ToSet(t) = ToSet(s) \cup {n}
    <3> HIDE DEF s
    <3>. QED BY <2>4, AppendedRtt
  <2> HIDE DEF I, i, new, t
  <2>6. DOMAIN new = DOMAIN ns /\ \A j \in DOMAIN ns : j # i => new[j] = ns[j]
    BY <2>3
  <2>7. new[i] = [ip |-> ip, rtt |-> t]
    BY <2>2, <2>3, <2>4 DEF Node
  <2>8. new[i] \in Node /\ new[i].ip = ip /\ new[i].rtt = t
    BY <2>5, <2>7 DEF Node
  <2>9. new \in Seq(Node) /\ new # <<>>
    BY <1>1, <2>2, <2>3, <2>6, <2>8
  <2>10. GoodNodes(new)
    <3>1. \A j \in DOMAIN new : new[j].ip = ns[j].ip /\ new[j].rtt # <<>> /\ IsInjective(new[j].rtt)
      BY <2>2, <2>5, <2>6, <2>8 DEF GoodNodes
    <3>. QED BY <2>6, <2>9, <3>1 DEF GoodNodes
  <2>11. \A a, m : Has(new, a, m) <=> Has(ns, a, m) \/ (a = ip /\ m = n)
    BY <2>2, <2>5, <2>6, <2>8 DEF Has
  <2>. QED BY <2>9, <2>10, <2>11 DEF new
<1>. QED BY <1>2, <1>3

LEMMA TouchFinds ==
  ASSUME NEW hs \in Seq(Hop), NEW d, NEW i, i = Touch(hs, d)
  PROVE  \/ i = Len(hs) + 1 /\ \A j \in DOMAIN hs : hs[j].dist # d
         \/ i \in DOMAIN hs /\ i <= Len(hs) /\ hs[i].dist = d
<1> DEFINE I == {j \in 1..Len(hs) : hs[j].dist = d}
<1>1. Len(hs) \in Nat /\ DOMAIN hs = 1..Len(hs)
  BY Places
<1>2. CASE I = {}
  BY <1>1, <1>2 DEF Touch, SelectInSeq
<1>3. CASE I # {}
  <2>1. I \in SUBSET Nat
    BY <1>1
  <2>2. Min(I) \in I
    <3> HIDE DEF I
    <3>. QED BY <1>3, <2>1, LeastIsMin
  <2>3. Min(I) \in DOMAIN hs /\ Min(I) <= Len(hs) /\ Min(I) # 0 /\ hs[Min(I)].dist = d
    BY <1>1, <2>2
  <2>4. i = Min(I)
    BY <1>3, <2>3 DEF Touch, SelectInSeq
  <2> HIDE DEF I
  <2>. QED BY <2>3, <2>4
<1>. QED BY <1>2, <1>3

LEMMA AddReplyKeeps ==
  ASSUME NEW hs, GoodHops(hs), NEW r \in Reply, NEW n \in Nat, \A d, a : ~Keeps(hs, d, a, n),
         NEW new, new = AddReply(hs, r, n)
  PROVE  /\ GoodHops(new)
         /\ \A d, a, m : Keeps(new, d, a, m) <=>
              Keeps(hs, d, a, m) \/ (d = r.hops /\ a = r.ip /\ m = n)
<1> DEFINE i == Touch(hs, r.hops)
           ns == IF i > Len(hs) THEN <<>> ELSE hs[i].nodes
           ms == AddNode(ns, r.ip, n)
           h == [dist |-> r.hops, nodes |-> ms]
<1>1. /\ hs \in Seq(Hop) /\ Len(hs) \in Nat /\ DOMAIN hs = 1..Len(hs)
      /\ \A j \in DOMAIN hs : hs[j] \in Hop
  BY Places DEF GoodHops
<1>2. Len(hs) \in Nat
  BY <1>1
<1>3. r.hops \in 1..MaxDist /\ r.ip \in Addrs
  BY DEF Reply
<1>4. \/ i = Len(hs) + 1 /\ \A j \in DOMAIN hs : hs[j].dist # r.hops
      \/ i \in DOMAIN hs /\ i <= Len(hs) /\ hs[i].dist = r.hops
  <2> HIDE DEF i
  <2>. QED BY <1>1, TouchFinds DEF i
<1>5. GoodNodes(ns) /\ \A a : ~Has(ns, a, n)
  <2>1. CASE i = Len(hs) + 1
    <3>1. ns = <<>>
      BY <1>1, <2>1
    <3> HIDE DEF ns
    <3>2. ns \in Seq(Node) /\ DOMAIN ns = {}
      BY <3>1
    <3>. QED BY <3>2 DEF GoodNodes, Has
  <2>2. CASE i \in DOMAIN hs /\ i <= Len(hs)
    <3>1. ns = hs[i].nodes
      BY <1>1, <2>2
    <3> HIDE DEF i, ns
    <3>. QED BY <2>2, <3>1 DEF GoodHops, Keeps
  <2>. QED BY <1>4, <2>1, <2>2
<1>6. /\ GoodNodes(ms) /\ ms # <<>>
      /\ \A a, m : Has(ms, a, m) <=> Has(ns, a, m) \/ (a = r.ip /\ m = n)
  <2> HIDE DEF ns
  <2>. QED BY <1>3, <1>5, AddNodeKeeps
<1>7. /\ new = IF i > Len(hs) THEN Append(hs, h) ELSE [hs EXCEPT ![i] = h]
      /\ ns = IF i > Len(hs) THEN <<>> ELSE hs[i].nodes
  BY DEF AddReply
<1> DEFINE l == Len(hs) + 1
<1> HIDE DEF i, ns, ms
<1>8. h \in Hop /\ h.dist = r.hops /\ h.nodes = ms
  BY <1>3, <1>6 DEF Hop, GoodNodes
<1> HIDE DEF h
<1>9. CASE i = l /\ \A j \in DOMAIN hs : hs[j].dist # r.hops
  <2>1. new = Append(hs, h) /\ ns = <<>>
    <3>1. i > Len(hs)
      BY <1>2, <1>9
    <3>. QED BY <1>7, <3>1, Zenon
  <2>2. /\ new \in Seq(Hop) /\ DOMAIN new = DOMAIN hs \cup {l} /\ l \notin DOMAIN hs
        /\ new[l] = h /\ \A j \in DOMAIN hs : new[j] = hs[j]
    BY <1>1, <1>8, <2>1, AppendPlaces
  <2> HIDE DEF l
  <2>3. GoodHops(new)
    BY <1>6, <1>8, <1>9, <2>2 DEF GoodHops
  <2>4. \A a, m : ~Has(ns, a, m)
    BY <2>1 DEF Has
  <2>. QED BY <1>6, <1>8, <2>2, <2>3, <2>4 DEF Keeps
<1>10. CASE i \in DOMAIN hs /\ i <= Len(hs) /\ hs[i].dist = r.hops
  <2>1. new = [hs EXCEPT ![i] = h] /\ ns = hs[i].nodes
    <3>1. ~(i > Len(hs))
      <4>1. i \in Nat
        BY <1>1, <1>10
      <4>. QED BY <1>2, <1>10, <4>1
    <3>. QED BY <1>7, <3>1, Zenon
  <2>2. /\ new \in Seq(Hop) /\ DOMAIN new = DOMAIN hs
        /\ new[i] = h /\ \A j \in DOMAIN hs : j # i => new[j] = hs[j]
    BY <1>1, <1>8, <1>10, <2>1
  <2>3. \A j \in DOMAIN new : new[j].dist = hs[j].dist /\ GoodNodes(new[j].nodes) /\ new[j].nodes # <<>>
    BY <1>6, <1>8, <1>10, <2>2 DEF GoodHops
  <2>4. GoodHops(new)
    BY <2>2, <2>3 DEF GoodHops
  <2>. QED BY <1>6, <1>8, <1>10, <2>1, <2>2, <2>4 DEF Keeps
<1>. QED BY <1>4, <1>9, <1>10
-----------------------------------------------------------------------------
(* The hops are sorted *)

\* The hops with at most h's distance are as many as h's place.
LEMMA RanksCount ==
  ASSUME NEW hs, GoodHops(hs), NEW S, S = ToSet(hs),
         NEW rk, rk = [h \in S |-> Cardinality({g \in S : g.dist <= h.dist})]
  PROVE  /\ S \subseteq Hop
         /\ rk \in [S -> 1..Len(hs)]
         /\ \A g, h \in S : g.dist < h.dist => rk[g] < rk[h]
         /\ \A g, h \in S : rk[g] = rk[h] => g = h
         /\ \A k \in 1..Len(hs) : \E h \in S : rk[h] = k
<1> DEFINE N == Len(hs)
           Below == [h \in S |-> {g \in S : g.dist <= h.dist}]
<1>1. /\ N \in Nat /\ hs \in Seq(Hop) /\ DOMAIN hs = 1..N
      /\ \A i \in DOMAIN hs : hs[i] \in Hop
  BY Places DEF GoodHops
<1>2. S \subseteq Hop /\ hs \in [1..N -> S] /\ \A h \in S : \E i \in 1..N : hs[i] = h
  BY <1>1 DEF ToSet
<1>3. \A h \in S : h.dist \in Nat
  BY <1>2, DistAssumption DEF Hop
<1>4. \A g, h \in S : g.dist = h.dist => g = h
  BY <1>1, <1>2 DEF GoodHops
<1>5. IsFiniteSet(1..N) /\ Cardinality(1..N) = N
  <2>1. N \in Nat
    BY <1>1
  <2> HIDE DEF N
  <2>. QED BY <2>1, FS_Interval
<1>6. IsFiniteSet(S) /\ N = Cardinality(S)
  <2>1. hs \in Surjection(1..N, S)
    BY <1>2 DEF Surjection
  <2>2. \A i, j \in 1..N : hs[i] = hs[j] => i = j
    BY <1>1 DEF GoodHops
  <2>3. hs \in Injection(1..N, S)
    BY <1>1, <1>2, <2>2 DEF Injection, IsInjective
  <2>. QED BY <1>5, <2>1, <2>3, FS_Surjection
<1>7. \A g, h \in S : g \in Below[h] <=> g.dist <= h.dist
  OBVIOUS
<1>8. \A h \in S : Below[h] \subseteq S
  OBVIOUS
<1>9. rk = [h \in S |-> Cardinality(Below[h])]
  OBVIOUS
<1> HIDE DEF N, Below
<1>10. Ordered(S, Below)
  <2>1. \A x, y \in S : x \in Below[y] => Below[x] \subseteq Below[y]
    <3> SUFFICES ASSUME NEW x \in S, NEW y \in S, x \in Below[y], NEW z \in Below[x]
                 PROVE  z \in Below[y]
      OBVIOUS
    <3>. QED BY <1>3, <1>7, <1>8
  <2>2. \A x, y \in S : x \in Below[y] \/ y \in Below[x]
    BY <1>3, <1>7
  <2>3. \A x, y \in S : x \in Below[y] /\ y \in Below[x] => x = y
    BY <1>3, <1>4, <1>7
  <2>. QED BY <1>3, <1>7, <1>8, <2>1, <2>2, <2>3 DEF Ordered
<1>11. /\ rk \in Bijection(S, 1..N)
       /\ \A x, y \in S : rk[x] <= rk[y] => x \in Below[y]
  BY <1>6, <1>9, <1>10, Ranks
<1>12. /\ rk \in [S -> 1..N] /\ (\A g, h \in S : rk[g] = rk[h] => g = h)
       /\ \A k \in 1..N : \E h \in S : rk[h] = k
  BY <1>11 DEF Bijection, Injection, Surjection, IsInjective
<1>13. ASSUME NEW g \in S, NEW h \in S, g.dist < h.dist PROVE rk[g] < rk[h]
  <2>1. h \notin Below[g]
    BY <1>3, <1>7, <1>13
  <2>2. ~(rk[h] <= rk[g])
    BY <1>11, <2>1
  <2>3. rk[g] \in 1..N /\ rk[h] \in 1..N /\ N \in Nat
    BY <1>1, <1>12
  <2>. QED BY <2>2, <2>3
<1>. QED BY <1>2, <1>12, <1>13 DEF N

LEMMA SortedKeeps ==
  ASSUME NEW hs, GoodHops(hs), NEW s, s = Sorted(hs)
  PROVE  /\ GoodHops(s) /\ Increasing(s)
         /\ \A d, a, n : Keeps(s, d, a, n) <=> Keeps(hs, d, a, n)
<1> DEFINE S == ToSet(hs)
           N == Len(hs)
           rk == [h \in S |-> Cardinality({g \in S : g.dist <= h.dist})]
<1>1. s = [k \in 1..N |-> CHOOSE h \in S : rk[h] = k]
  BY DEF Sorted
<1>2. /\ N \in Nat /\ hs \in Seq(Hop) /\ DOMAIN hs = 1..N
  BY Places DEF GoodHops
<1>3. S = ToSet(hs) /\ N = Len(hs) /\ rk = [h \in S |-> Cardinality({g \in S : g.dist <= h.dist})]
  OBVIOUS
<1> HIDE DEF S, N, rk
<1>4. /\ S \subseteq Hop
      /\ rk \in [S -> 1..N]
      /\ \A g, h \in S : g.dist < h.dist => rk[g] < rk[h]
      /\ \A g, h \in S : rk[g] = rk[h] => g = h
      /\ \A k \in 1..N : \E h \in S : rk[h] = k
  BY <1>3, RanksCount
<1>5. \A k \in 1..N : s[k] \in S /\ rk[s[k]] = k
  BY <1>1, <1>4
<1>6. DOMAIN s = 1..N /\ s \in Seq(Hop)
  BY <1>1, <1>2, <1>4, <1>5
<1>7. \A h \in S : rk[h] \in 1..N /\ s[rk[h]] = h
  BY <1>4, <1>5
<1>8. \A h \in S : GoodNodes(h.nodes) /\ h.nodes # <<>> /\ h.dist \in Nat
  <2>1. \A h \in S : GoodNodes(h.nodes) /\ h.nodes # <<>>
    BY DEF S, ToSet, GoodHops
  <2>2. \A h \in S : h.dist \in Nat
    BY <1>4, DistAssumption DEF Hop
  <2>. QED BY <2>1, <2>2
<1>9. Increasing(s)
  <2> SUFFICES ASSUME NEW i \in 1..N, NEW j \in 1..N, i < j PROVE s[i].dist < s[j].dist
    BY <1>6 DEF Increasing
  <2> DEFINE g == s[i]
             h == s[j]
  <2>1. g \in S /\ h \in S /\ rk[g] = i /\ rk[h] = j
    BY <1>5
  <2> HIDE DEF g, h
  <2>2. ~(h.dist < g.dist)
    <3>1. ~(rk[h] < rk[g])
      BY <1>2, <2>1
    <3>. QED BY <1>4, <2>1, <3>1
  <2>3. h.dist # g.dist
    <3>1. g # h
      BY <1>2, <2>1
    <3>. QED BY <3>1, <2>1 DEF S, ToSet, GoodHops
  <2>4. g.dist < h.dist
    BY <1>8, <2>1, <2>2, <2>3
  <2>. QED BY <2>4 DEF g, h
<1>10. GoodHops(s)
  <2>1. \A i, j \in DOMAIN s : s[i].dist = s[j].dist => i = j
    <3> SUFFICES ASSUME NEW i \in 1..N, NEW j \in 1..N, i < j PROVE s[i].dist # s[j].dist
      BY <1>2, <1>6
    <3>1. s[i].dist < s[j].dist
      BY <1>6, <1>9 DEF Increasing
    <3>2. s[i].dist \in Nat /\ s[j].dist \in Nat
      BY <1>5, <1>8
    <3>. QED BY <3>1, <3>2
  <2>. QED BY <1>5, <1>6, <1>8, <2>1 DEF GoodHops
<1>11. \A d, a, n : Keeps(s, d, a, n) <=> \E h \in S : h.dist = d /\ Has(h.nodes, a, n)
  BY <1>5, <1>6, <1>7 DEF Keeps
<1>12. \A d, a, n : Keeps(hs, d, a, n) <=> \E h \in S : h.dist = d /\ Has(h.nodes, a, n)
  BY DEF Keeps, S, ToSet
<1>. QED BY <1>9, <1>10, <1>11, <1>12
-----------------------------------------------------------------------------
(* RTTs are joined *)

\* f[i] joins the first i sequences of ss.
Joins(f, ss, m) == f = [i \in 1..m |-> IF i = 1 THEN ss[i] ELSE f[i - 1] \o ss[i]]

LEMMA JoinsExist == \A ss : \A m \in Nat : \E f : Joins(f, ss, m)
<1> SUFFICES ASSUME NEW ss PROVE \A m \in Nat : \E f : Joins(f, ss, m)
  OBVIOUS
<1> DEFINE Bad == {m \in Nat : ~\E f : Joins(f, ss, m)}
<1> SUFFICES ASSUME Bad # {} PROVE FALSE
  OBVIOUS
<1>1. PICK m \in Bad : \A k \in Bad : m <= k
  <2>1. Bad \in SUBSET Nat
    OBVIOUS
  <2> HIDE DEF Bad
  <2>2. Min(Bad) \in Bad /\ \A k \in Bad : Min(Bad) <= k
    BY <2>1, LeastIsMin
  <2>. QED BY <2>2
<1>2. m \in Nat /\ ~\E f : Joins(f, ss, m)
  OBVIOUS
<1>3. m # 0
  <2>1. Joins(<<>>, ss, 0)
    BY DEF Joins
  <2>. QED BY <1>2, <2>1
<1>4. m - 1 \in Nat /\ m - 1 \notin Bad
  <2>1. m - 1 \in Nat /\ ~(m <= m - 1)
    BY <1>2, <1>3
  <2> HIDE DEF Bad
  <2>. QED BY <1>1, <2>1
<1>5. PICK f : Joins(f, ss, m - 1)
  BY <1>4
<1> DEFINE last == IF m = 1 THEN ss[m] ELSE f[m - 1] \o ss[m]
           g == [i \in 1..m |-> IF i = m THEN last ELSE f[i]]
<1>6. \A i \in 1..(m - 1) : f[i] = IF i = 1 THEN ss[i] ELSE f[i - 1] \o ss[i]
  BY <1>5 DEF Joins
<1> HIDE DEF last, Bad
<1>7. g[m] = last /\ \A i \in 1..m : i # m => i \in 1..(m - 1) /\ g[i] = f[i]
  BY <1>2, <1>3
<1>8. \A i \in 1..m : g[i] = IF i = 1 THEN ss[i] ELSE g[i - 1] \o ss[i]
  <2> SUFFICES ASSUME NEW i \in 1..m
               PROVE  g[i] = IF i = 1 THEN ss[i] ELSE g[i - 1] \o ss[i]
    OBVIOUS
  <2>1. i # 1 => i - 1 \in 1..m /\ i - 1 # m
    BY <1>2
  <2>2. i # 1 => g[i - 1] = f[i - 1]
    BY <1>7, <2>1
  <2> HIDE DEF g
  <2>3. CASE i = m
    <3>1. g[i] = IF i = 1 THEN ss[i] ELSE f[i - 1] \o ss[i]
      BY <1>7, <2>3 DEF last
    <3>. QED BY <2>2, <3>1
  <2>4. CASE i # m
    <3>1. g[i] = IF i = 1 THEN ss[i] ELSE f[i - 1] \o ss[i]
      BY <1>6, <1>7, <2>4
    <3>. QED BY <2>2, <3>1
  <2>. QED BY <2>3, <2>4
<1>9. Joins(g, ss, m)
  <2>1. g = [i \in 1..m |-> g[i]]
    OBVIOUS
  <2> HIDE DEF g
  <2>. QED BY <1>8, <2>1 DEF Joins
<1>. QED BY <1>2, <1>9

LEMMA FlattenIsLast ==
  ASSUME NEW ss, Len(ss) \in Nat, Len(ss) # 0
  PROVE  \E f : Joins(f, ss, Len(ss)) /\ FlattenSeq(ss) = f[Len(ss)]
<1> DEFINE f == CHOOSE f : Joins(f, ss, Len(ss))
<1>1. Joins(f, ss, Len(ss))
  BY JoinsExist
<1>2. FlattenSeq(ss) = f[Len(ss)]
  BY DEF FlattenSeq, Joins
<1>. QED BY <1>1, <1>2

LEMMA ConcatJoins ==
  ASSUME NEW s \in Seq(Nat), NEW t \in Seq(Nat), IsInjective(s), IsInjective(t),
         \A n : ~(n \in ToSet(s) /\ n \in ToSet(t)),
         NEW u, u = s \o t
  PROVE  u \in Seq(Nat) /\ IsInjective(u) /\ \A n : n \in ToSet(u) <=> n \in ToSet(s) \/ n \in ToSet(t)
<1> DEFINE a == Len(s)
           b == Len(t)
<1>1. /\ a \in Nat /\ b \in Nat /\ DOMAIN s = 1..a /\ DOMAIN t = 1..b
      /\ u \in Seq(Nat) /\ DOMAIN u = 1..(a + b)
      /\ \A i \in 1..(a + b) : u[i] = IF i <= a THEN s[i] ELSE t[i - a]
  OBVIOUS
<1> HIDE DEF a, b
<1>2. \A i \in 1..(a + b) : \/ i \in DOMAIN s /\ i <= a /\ u[i] = s[i]
                            \/ i - a \in DOMAIN t /\ ~(i <= a) /\ u[i] = t[i - a]
  BY <1>1
<1>3. \A i \in 1..(a + b) : (i <= a => u[i] \in ToSet(s)) /\ (~(i <= a) => u[i] \in ToSet(t))
  BY <1>2 DEF ToSet
<1>4. ASSUME NEW i \in 1..(a + b), NEW j \in 1..(a + b), u[i] = u[j] PROVE i = j
  <2>1. CASE i <= a /\ j <= a
    BY <1>2, <1>4, <2>1 DEF IsInjective
  <2>2. CASE ~(i <= a) /\ ~(j <= a)
    <3> DEFINE x == i - a
               y == j - a
    <3>1. x \in DOMAIN t /\ y \in DOMAIN t /\ u[i] = t[x] /\ u[j] = t[y]
      BY <1>2, <2>2
    <3>2. a \in Int /\ i \in Int /\ j \in Int
      BY <1>1
    <3>3. x = y => i = j
      BY <3>2
    <3> HIDE DEF x, y
    <3>4. x = y
      BY <1>4, <3>1 DEF IsInjective
    <3>. QED BY <3>3, <3>4
  <2>3. i <= a <=> j <= a
    BY <1>3, <1>4
  <2>. QED BY <2>1, <2>2, <2>3
<1>5. IsInjective(u)
  BY <1>1, <1>4 DEF IsInjective
<1>6. ASSUME NEW n, n \in ToSet(s) \/ n \in ToSet(t) PROVE n \in ToSet(u)
  <2>1. CASE n \in ToSet(s)
    <3>1. PICK i \in 1..a : n = s[i]
      BY <1>1, <2>1 DEF ToSet
    <3>2. i \in 1..(a + b) /\ u[i] = n
      BY <1>1, <3>1
    <3>. QED BY <1>1, <3>2 DEF ToSet
  <2>2. CASE n \in ToSet(t)
    <3>1. PICK i \in 1..b : n = t[i]
      BY <1>1, <2>2 DEF ToSet
    <3>2. i + a \in 1..(a + b) /\ ~(i + a <= a) /\ (i + a) - a = i
      BY <1>1
    <3>3. u[i + a] = n
      BY <1>1, <3>1, <3>2
    <3>. QED BY <1>1, <3>2, <3>3 DEF ToSet
  <2>. QED BY <1>6, <2>1, <2>2
<1>7. \A n \in ToSet(u) : n \in ToSet(s) \/ n \in ToSet(t)
  BY <1>1, <1>3 DEF ToSet
<1>. QED BY <1>1, <1>5, <1>6, <1>7

\* Sequences that have nothing in common, none with a repetition, joined.
LEMMA FlattenKeeps ==
  ASSUME NEW m \in Nat \ {0}, NEW ss, DOMAIN ss = 1..m, Len(ss) = m,
         \A i \in 1..m : ss[i] \in Seq(Nat) /\ IsInjective(ss[i]),
         \A i, j \in 1..m : \A n : n \in ToSet(ss[i]) /\ n \in ToSet(ss[j]) => i = j,
         NEW u, u = FlattenSeq(ss)
  PROVE  /\ u \in Seq(Nat) /\ IsInjective(u)
         /\ \A n : n \in ToSet(u) <=> \E i \in 1..m : n \in ToSet(ss[i])
<1>1. PICK f : Joins(f, ss, m) /\ u = f[m]
  BY FlattenIsLast
<1>2. \A i \in 1..m : f[i] = IF i = 1 THEN ss[i] ELSE f[i - 1] \o ss[i]
  BY <1>1 DEF Joins
<1> DEFINE Good(i) == /\ f[i] \in Seq(Nat) /\ IsInjective(f[i])
                      /\ \A n : n \in ToSet(f[i]) <=> \E k \in 1..i : n \in ToSet(ss[k])
           Bad == {i \in 1..m : ~Good(i)}
<1>3. Bad = {}
  <2> SUFFICES ASSUME Bad # {} PROVE FALSE
    OBVIOUS
  <2> HIDE DEF Good
  <2>1. PICK i \in Bad : \A k \in Bad : i <= k
    <3>1. Bad \in SUBSET Nat
      OBVIOUS
    <3> HIDE DEF Bad
    <3>2. Min(Bad) \in Bad /\ \A k \in Bad : Min(Bad) <= k
      BY <3>1, LeastIsMin
    <3>. QED BY <3>2
  <2>2. i \in 1..m /\ ~Good(i)
    OBVIOUS
  <2>3. i # 1 => i - 1 \in 1..m /\ Good(i - 1)
    <3> SUFFICES ASSUME i # 1 PROVE i - 1 \in 1..m /\ Good(i - 1)
      OBVIOUS
    <3>1. i - 1 \in 1..m /\ ~(i <= i - 1)
      BY <2>2
    <3>2. i - 1 \notin Bad
      <4> HIDE DEF Bad
      <4>. QED BY <2>1, <3>1
    <3>. QED BY <3>1, <3>2
  <2>4. CASE i = 1
    <3>1. f[i] = ss[i] /\ 1..i = {1}
      BY <1>2, <2>2, <2>4
    <3>2. Good(i)
      BY <2>2, <2>4, <3>1 DEF Good
    <3>. QED BY <2>2, <3>2
  <2>5. CASE i # 1
    <3> DEFINE v == f[i]
               s == f[i - 1]
               t == ss[i]
    <3>1. v = s \o t
      BY <1>2, <2>2, <2>5
    <3>2. /\ s \in Seq(Nat) /\ IsInjective(s)
          /\ \A n : n \in ToSet(s) <=> \E k \in 1..(i - 1) : n \in ToSet(ss[k])
      BY <2>3, <2>5 DEF Good
    <3>3. t \in Seq(Nat) /\ IsInjective(t)
      BY <2>2
    <3>4. 1..i = (1..(i - 1)) \cup {i} /\ i \notin 1..(i - 1) /\ 1..i \subseteq 1..m
      BY <2>2, <2>5
    <3>5. \A n : ~(n \in ToSet(s) /\ n \in ToSet(t))
      BY <2>2, <3>2, <3>4
    <3> HIDE DEF s, t, v
    <3>6. /\ v \in Seq(Nat) /\ IsInjective(v)
          /\ \A n : n \in ToSet(v) <=> n \in ToSet(s) \/ n \in ToSet(t)
      BY <3>1, <3>2, <3>3, <3>5, ConcatJoins
    <3>7. \A n : n \in ToSet(v) <=> \E k \in 1..i : n \in ToSet(ss[k])
      BY <3>2, <3>4, <3>6 DEF t
    <3>8. Good(i)
      BY <3>6, <3>7 DEF Good, v
    <3>. QED BY <2>2, <3>8
  <2>. QED BY <2>4, <2>5
<1>4. Good(m)
  <2>1. m \in 1..m
    OBVIOUS
  <2> HIDE DEF Good
  <2>. QED BY <1>3, <2>1
<1>. QED BY <1>1, <1>4
-----------------------------------------------------------------------------
(* The hops beyond the last one in which somebody else answered *)

\* Every node of a hop has a reply, and only the destination answered in a hop
\* if all its replies are the destination's.
LEMMA DestOnlyHas ==
  ASSUME NEW h, GoodNodes(h.nodes), h.nodes # <<>>
  PROVE  /\ \A j \in DOMAIN h.nodes : \E n : Has(h.nodes, h.nodes[j].ip, n)
         /\ \E a, n : Has(h.nodes, a, n)
         /\ DestOnly(h) <=> \A a, n : Has(h.nodes, a, n) => a = Dest
         /\ DestOnly(h) => \A a, n : Has(h.nodes, a, n) <=> a = Dest /\ n \in ToSet(h.nodes[1].rtt)
<1> DEFINE ns == h.nodes
<1>1. /\ Len(ns) \in Nat /\ DOMAIN ns = 1..Len(ns) /\ Len(ns) # 0
      /\ \A j \in DOMAIN ns : ns[j] \in Node
  BY DEF GoodNodes
<1> HIDE DEF ns
<1>2. \A j \in DOMAIN ns : \E n : Has(ns, ns[j].ip, n)
  <2> SUFFICES ASSUME NEW j \in DOMAIN ns PROVE \E n : n \in ToSet(ns[j].rtt)
    BY DEF Has
  <2>1. ns[j].rtt \in Seq(Nat) /\ ns[j].rtt # <<>>
    BY <1>1 DEF Node, GoodNodes, ns
  <2>2. 1 \in DOMAIN ns[j].rtt
    BY <2>1
  <2>. QED BY <2>2 DEF ToSet
<1>3. 1 \in DOMAIN ns
  BY <1>1
<1>4. ASSUME \A a, n : Has(ns, a, n) => a = Dest PROVE Len(ns) = 1 /\ ns[1].ip = Dest
  <2>1. \A j \in DOMAIN ns : ns[j].ip = Dest
    BY <1>2, <1>4
  <2>2. \A j \in DOMAIN ns : j = 1
    BY <1>3, <2>1 DEF GoodNodes, ns
  <2>3. Len(ns) \in DOMAIN ns
    BY <1>1
  <2>. QED BY <1>3, <2>1, <2>2, <2>3
<1>5. ASSUME Len(ns) = 1, ns[1].ip = Dest
      PROVE  \A a, n : Has(ns, a, n) <=> a = Dest /\ n \in ToSet(ns[1].rtt)
  <2>1. DOMAIN ns = {1}
    BY <1>1, <1>5
  <2>. QED BY <1>5, <2>1 DEF Has
<1>6. DestOnly(h) <=> Len(ns) = 1 /\ ns[1].ip = Dest
  BY DEF DestOnly, ns
<1>7. \E a, n : Has(ns, a, n)
  BY <1>2, <1>3
<1>8. DestOnly(h) => \A a, n : Has(ns, a, n) <=> a = Dest /\ n \in ToSet(ns[1].rtt)
  BY <1>5, <1>6
<1>9. DestOnly(h) <=> \A a, n : Has(ns, a, n) => a = Dest
  BY <1>4, <1>6, <1>8
<1>. QED BY <1>2, <1>7, <1>8, <1>9 DEF ns

LEMMA DistsOfHops ==
  ASSUME NEW hs, GoodHops(hs), \A d, a, n : Keeps(hs, d, a, n) <=> Told(d, a, n)
  PROVE  /\ \A d : d \in Dists <=> \E i \in DOMAIN hs : hs[i].dist = d
         /\ \A d : d \in Others <=> \E i \in DOMAIN hs : hs[i].dist = d /\ ~DestOnly(hs[i])
<1>1. \A d : d \in Dists <=> \E a, n : Told(d, a, n)
  BY DEF Dists, Told
<1>2. \A d : d \in Others <=> \E a, n : a # Dest /\ Told(d, a, n)
  BY DEF Others, Told
<1>3. \A i \in DOMAIN hs : /\ \E a, n : Has(hs[i].nodes, a, n)
                           /\ DestOnly(hs[i]) <=> \A a, n : Has(hs[i].nodes, a, n) => a = Dest
  <2> SUFFICES ASSUME NEW i \in DOMAIN hs
               PROVE  /\ \E a, n : Has(hs[i].nodes, a, n)
                      /\ DestOnly(hs[i]) <=> \A a, n : Has(hs[i].nodes, a, n) => a = Dest
    OBVIOUS
  <2> DEFINE h == hs[i]
  <2>1. GoodNodes(h.nodes) /\ h.nodes # <<>>
    BY DEF GoodHops
  <2> HIDE DEF h
  <2>2. /\ \E a, n : Has(h.nodes, a, n)
        /\ DestOnly(h) <=> \A a, n : Has(h.nodes, a, n) => a = Dest
    BY <2>1, DestOnlyHas
  <2>. QED BY <2>2 DEF h
<1>4. \A d : (\E a, n : Told(d, a, n)) <=> \E i \in DOMAIN hs : hs[i].dist = d
  BY <1>3 DEF Keeps
<1>5. \A d : (\E a, n : a # Dest /\ Told(d, a, n)) <=>
             \E i \in DOMAIN hs : hs[i].dist = d /\ ~DestOnly(hs[i])
  <2> TAKE d
  <2>1. ASSUME NEW a, NEW n, a # Dest, Told(d, a, n)
        PROVE  \E i \in DOMAIN hs : hs[i].dist = d /\ ~DestOnly(hs[i])
    <3>1. PICK i \in DOMAIN hs : hs[i].dist = d /\ Has(hs[i].nodes, a, n)
      BY <2>1 DEF Keeps
    <3>. QED BY <1>3, <2>1, <3>1
  <2>2. ASSUME NEW i \in DOMAIN hs, hs[i].dist = d, ~DestOnly(hs[i])
        PROVE  \E a, n : a # Dest /\ Told(d, a, n)
    <3>1. PICK a, n : a # Dest /\ Has(hs[i].nodes, a, n)
      BY <1>3, <2>2
    <3>. QED BY <2>2, <3>1 DEF Keeps
  <2>. QED BY <2>1, <2>2
<1>. QED BY <1>1, <1>2, <1>4, <1>5

LEMMA LastOther ==
  ASSUME NEW hs \in Seq(Hop), NEW k, k = SelectLastInSeq(hs, LAMBDA h : ~DestOnly(h))
  PROVE  /\ k \in 0..Len(hs)
         /\ k # 0 => ~DestOnly(hs[k])
         /\ \A i \in DOMAIN hs : i > k => DestOnly(hs[i])
<1> DEFINE I == {i \in 1..Len(hs) : ~DestOnly(hs[i])}
           b == Len(hs)
<1>1. b \in Nat /\ DOMAIN hs = 1..b
  OBVIOUS
<1>2. k = IF I # {} THEN Max(I) ELSE 0
  BY DEF SelectLastInSeq
<1>3. I \in SUBSET (0..b)
  BY <1>1
<1>4. I # {} => Max(I) \in I /\ \A i \in I : i <= Max(I)
  <2> HIDE DEF I, b
  <2>. QED BY <1>1, <1>3, GreatestIsMax
<1>5. \A i \in DOMAIN hs : i \in I <=> ~DestOnly(hs[i])
  BY <1>1
<1>6. \A i \in I : i \in DOMAIN hs
  BY <1>1
<1> HIDE DEF I, b
<1>7. CASE I = {}
  <2>1. k = 0 /\ \A i \in DOMAIN hs : DestOnly(hs[i])
    BY <1>2, <1>5, <1>7
  <2>2. k \in 0..b
    BY <1>1, <2>1
  <2>. QED BY <2>1, <2>2 DEF b
<1>8. CASE I # {}
  <2>1. k \in I /\ \A i \in I : i <= k
    BY <1>2, <1>4, <1>8
  <2>2. k \in DOMAIN hs /\ ~DestOnly(hs[k])
    BY <1>5, <1>6, <2>1
  <2>3. k \in 0..b
    BY <1>1, <2>2
  <2>4. ASSUME NEW i \in DOMAIN hs, i > k PROVE DestOnly(hs[i])
    <3>1. i \in Nat /\ k \in Nat
      BY <1>1, <2>3
    <3>2. ~(i <= k)
      BY <2>4, <3>1
    <3>. QED BY <1>5, <2>1, <3>2
  <2>. QED BY <2>2, <2>3, <2>4 DEF b
<1>. QED BY <1>7, <1>8

\* The tail of hops in which only the destination answered becomes one.
LEMMA MergeKeeps ==
  ASSUME NEW hs, GoodHops(hs), Increasing(hs),
         NEW k \in Nat, k < Len(hs), \A i \in DOMAIN hs : i > k => DestOnly(hs[i]),
         \A d, e, a, b, n : Keeps(hs, d, a, n) /\ Keeps(hs, e, b, n) => d = e,
         NEW s, s = MergeTail(hs, k)
  PROVE  /\ GoodHops(s) /\ Increasing(s)
         /\ \A d, a, n : Keeps(s, d, a, n) <=>
              \/ \E i \in DOMAIN hs : i <= k /\ hs[i].dist = d /\ Has(hs[i].nodes, a, n)
              \/ /\ d = hs[k + 1].dist
                 /\ \E i \in DOMAIN hs : i > k /\ Has(hs[i].nodes, a, n)
<1> DEFINE l == Len(hs)
           m == l - k
           ss == [i \in 1..m |-> hs[i + k].nodes[1].rtt]
           rtts == FlattenSeq(ss)
           x == [ip |-> Dest, rtt |-> rtts]
           tail == [dist |-> hs[k + 1].dist, nodes |-> <<x>>]
           front == SubSeq(hs, 1, k)
<1>1. /\ l \in Nat /\ hs \in Seq(Hop) /\ DOMAIN hs = 1..l /\ k < l
      /\ \A i \in DOMAIN hs : hs[i] \in Hop
  BY Places DEF GoodHops
<1>2. s = Append(front, tail)
  BY DEF MergeTail, Merged
<1> HIDE DEF l
<1>3. m \in Nat \ {0} /\ DOMAIN ss = 1..m /\ Len(ss) = m /\ ss = [i \in 1..m |-> hs[i + k].nodes[1].rtt]
  BY <1>1
<1>4. \A i \in 1..m : i + k \in DOMAIN hs /\ i + k > k
  BY <1>1
<1>5. \A i \in DOMAIN hs : i > k => i - k \in 1..m /\ (i - k) + k = i
  BY <1>1
<1> HIDE DEF m, ss, rtts, x, tail
<1>6. \A i \in DOMAIN hs :
        i > k => \A a, n : Has(hs[i].nodes, a, n) <=> a = Dest /\ n \in ToSet(hs[i].nodes[1].rtt)
  <2> SUFFICES ASSUME NEW i \in DOMAIN hs, DestOnly(hs[i])
               PROVE  \A a, n : Has(hs[i].nodes, a, n) <=> a = Dest /\ n \in ToSet(hs[i].nodes[1].rtt)
    OBVIOUS
  <2> DEFINE h == hs[i]
  <2>1. GoodNodes(h.nodes) /\ h.nodes # <<>> /\ DestOnly(h)
    BY DEF GoodHops
  <2> HIDE DEF h
  <2>2. \A a, n : Has(h.nodes, a, n) <=> a = Dest /\ n \in ToSet(h.nodes[1].rtt)
    BY <2>1, DestOnlyHas
  <2>. QED BY <2>2 DEF h
<1>7. \A i \in DOMAIN hs : i > k =>
        /\ hs[i].nodes[1].rtt \in Seq(Nat) /\ IsInjective(hs[i].nodes[1].rtt)
        /\ hs[i].nodes[1].rtt # <<>>
  <2> SUFFICES ASSUME NEW i \in DOMAIN hs
               PROVE  /\ hs[i].nodes[1].rtt \in Seq(Nat) /\ IsInjective(hs[i].nodes[1].rtt)
                      /\ hs[i].nodes[1].rtt # <<>>
    OBVIOUS
  <2> DEFINE ns == hs[i].nodes
  <2>1. GoodNodes(ns) /\ ns # <<>>
    BY DEF GoodHops
  <2> HIDE DEF ns
  <2>2. ns \in Seq(Node) /\ 1 \in DOMAIN ns
    BY <2>1 DEF GoodNodes
  <2>3. ns[1] \in Node
    BY <2>2
  <2>4. ns[1].rtt \in Seq(Nat) /\ IsInjective(ns[1].rtt) /\ ns[1].rtt # <<>>
    BY <2>1, <2>2, <2>3 DEF Node, GoodNodes
  <2>. QED BY <2>4 DEF ns
<1>8. \A i \in 1..m : ss[i] = hs[i + k].nodes[1].rtt
  BY <1>3
<1>9. \A i \in 1..m : ss[i] \in Seq(Nat) /\ IsInjective(ss[i])
  BY <1>4, <1>7, <1>8
<1>10. \A i \in 1..m : \A n : n \in ToSet(ss[i]) <=> Has(hs[i + k].nodes, Dest, n)
  BY <1>4, <1>6, <1>8
<1>11. ASSUME NEW i \in 1..m, NEW j \in 1..m, NEW n, n \in ToSet(ss[i]), n \in ToSet(ss[j])
       PROVE  i = j
  <2>1. Keeps(hs, hs[i + k].dist, Dest, n) /\ Keeps(hs, hs[j + k].dist, Dest, n)
    BY <1>4, <1>10, <1>11 DEF Keeps
  <2>2. i + k = j + k
    BY <1>4, <2>1 DEF GoodHops
  <2>. QED BY <1>3, <2>2
<1>12. /\ rtts \in Seq(Nat) /\ IsInjective(rtts)
       /\ \A n : n \in ToSet(rtts) <=> \E i \in 1..m : n \in ToSet(ss[i])
  <2>1. m \in Nat \ {0} /\ DOMAIN ss = 1..m /\ Len(ss) = m
    BY <1>3
  <2>2. \A i, j \in 1..m : \A n : n \in ToSet(ss[i]) /\ n \in ToSet(ss[j]) => i = j
    BY ONLY <1>11
  <2>3. rtts = FlattenSeq(ss)
    BY DEF rtts
  <2>. QED BY ONLY <2>1, <2>2, <2>3, <1>9, FlattenKeeps
<1>13. rtts # <<>>
  <2>1. 1 \in 1..m
    BY <1>3
  <2>2. ss[1] \in Seq(Nat) /\ ss[1] # <<>>
    BY <1>4, <1>7, <1>8, <2>1
  <2>3. ss[1][1] \in ToSet(ss[1])
    BY <2>2 DEF ToSet
  <2>4. ss[1][1] \in ToSet(rtts)
    BY <1>12, <2>1, <2>3
  <2>. QED BY <2>4 DEF ToSet
<1>14. \A n : n \in ToSet(rtts) <=> \E i \in DOMAIN hs : i > k /\ Has(hs[i].nodes, Dest, n)
  BY <1>4, <1>5, <1>10, <1>12
<1>15. x \in Node /\ x.ip = Dest /\ x.rtt = rtts
  BY <1>12, DestAssumption DEF Node, x
<1> DEFINE ns == <<x>>
<1>16. ns \in Seq(Node) /\ ns # <<>> /\ DOMAIN ns = {1} /\ ns[1] = x
  BY <1>15
<1>17. k + 1 \in DOMAIN hs /\ hs[k + 1].dist \in 1..MaxDist
  <2>1. k + 1 \in DOMAIN hs
    BY <1>1
  <2>. QED BY <1>1, <2>1 DEF Hop
<1>18. tail \in Hop /\ tail.dist = hs[k + 1].dist /\ tail.nodes = ns
  BY <1>16, <1>17 DEF Hop, tail
<1> HIDE DEF ns
<1>19. GoodNodes(ns) /\ \A a, n : Has(ns, a, n) <=> a = Dest /\ n \in ToSet(rtts)
  BY <1>12, <1>13, <1>15, <1>16 DEF GoodNodes, Has
<1>20. /\ front \in Seq(Hop) /\ Len(front) = k /\ DOMAIN front = 1..k
       /\ \A i \in 1..k : front[i] = hs[i]
  <2>1. k \in 0..Len(hs) /\ hs \in Seq(Hop)
    BY <1>1 DEF l
  <2>. QED BY <2>1
<1> HIDE DEF front
<1>21. /\ s \in Seq(Hop) /\ s[k + 1] = tail /\ \A i \in 1..k : s[i] = hs[i]
       /\ DOMAIN s = 1..k \cup {k + 1}
  BY <1>2, <1>18, <1>20, AppendPlaces
<1>22. \A i \in DOMAIN s : i \in DOMAIN hs /\ s[i].dist = hs[i].dist
  <2>1. \A i \in 1..k : i \in DOMAIN hs
    BY <1>1
  <2>. QED BY <1>17, <1>18, <1>21, <2>1
<1>23. Increasing(s)
  BY <1>22 DEF Increasing
<1>24. GoodHops(s)
  <2>1. \A i \in DOMAIN s : GoodNodes(s[i].nodes) /\ s[i].nodes # <<>>
    BY <1>16, <1>18, <1>19, <1>21, <1>22 DEF GoodHops
  <2>2. \A i, j \in DOMAIN s : s[i].dist = s[j].dist => i = j
    BY <1>22 DEF GoodHops
  <2>. QED BY <1>21, <2>1, <2>2 DEF GoodHops
<1>25. \A d, a, n : Keeps(s, d, a, n) <=>
         \/ \E i \in 1..k : hs[i].dist = d /\ Has(hs[i].nodes, a, n)
         \/ d = hs[k + 1].dist /\ a = Dest /\ n \in ToSet(rtts)
  <2>1. \A d, a, n : Keeps(s, d, a, n) <=>
          \/ \E i \in 1..k : s[i].dist = d /\ Has(s[i].nodes, a, n)
          \/ s[k + 1].dist = d /\ Has(s[k + 1].nodes, a, n)
    BY <1>21 DEF Keeps
  <2>. QED BY <1>18, <1>19, <1>21, <2>1
<1>26. \A i : i \in 1..k <=> i \in DOMAIN hs /\ i <= k
  BY <1>1
<1>27. \A a, n : (a = Dest /\ n \in ToSet(rtts)) <=>
                 \E i \in DOMAIN hs : i > k /\ Has(hs[i].nodes, a, n)
  <2> TAKE a, n
  <2>1. ASSUME NEW i \in DOMAIN hs, i > k, Has(hs[i].nodes, a, n)
        PROVE  a = Dest /\ n \in ToSet(rtts)
    <3>1. \A b, o : Has(hs[i].nodes, b, o) <=> b = Dest /\ o \in ToSet(hs[i].nodes[1].rtt)
      BY <1>6, <2>1
    <3>2. a = Dest
      BY <2>1, <3>1
    <3>. QED BY <1>14, <2>1, <3>2
  <2>. QED BY <1>14, <2>1
<1>28. \A d, a, n : Keeps(s, d, a, n) <=>
         \/ \E i \in DOMAIN hs : i <= k /\ hs[i].dist = d /\ Has(hs[i].nodes, a, n)
         \/ /\ d = hs[k + 1].dist
            /\ \E i \in DOMAIN hs : i > k /\ Has(hs[i].nodes, a, n)
  <2> TAKE d, a, n
  <2>1. (\E i \in 1..k : hs[i].dist = d /\ Has(hs[i].nodes, a, n)) <=>
        \E i \in DOMAIN hs : i <= k /\ hs[i].dist = d /\ Has(hs[i].nodes, a, n)
    BY <1>26
  <2>2. (d = hs[k + 1].dist /\ a = Dest /\ n \in ToSet(rtts)) <=>
        d = hs[k + 1].dist /\ \E i \in DOMAIN hs : i > k /\ Has(hs[i].nodes, a, n)
    BY <1>27
  <2>3. Keeps(s, d, a, n) <=>
         \/ \E i \in 1..k : hs[i].dist = d /\ Has(hs[i].nodes, a, n)
         \/ d = hs[k + 1].dist /\ a = Dest /\ n \in ToSet(rtts)
    BY <1>25
  <2>. QED BY <2>1, <2>2, <2>3
<1>. QED BY <1>23, <1>24, <1>28

LEMMA ListedKeeps ==
  ASSUME NEW hs
  PROVE  \A t : t \in Listed(hs) <=> \E d, a, n : t = <<d, a, n>> /\ Keeps(hs, d, a, n)
  BY DEF Listed, Keeps, Has

LEMMA GroupedTold ==
  \A t : t \in Grouped <=> \E d, a, n : t = <<Home(d), a, n>> /\ Told(d, a, n)
  BY DEF Grouped, Told

LEMMA DistsIncrease ==
  ASSUME NEW hs, GoodHops(hs), Increasing(hs), NEW i \in DOMAIN hs, NEW j \in DOMAIN hs
  PROVE  /\ i \in Nat /\ j \in Nat /\ hs[i].dist \in Nat /\ hs[j].dist \in Nat
         /\ i < j <=> hs[i].dist < hs[j].dist
         /\ i <= j <=> hs[i].dist <= hs[j].dist
<1>1. i \in Nat /\ j \in Nat
  BY DEF GoodHops
<1>2. hs[i] \in Hop /\ hs[j] \in Hop
  BY DEF GoodHops
<1>3. hs[i].dist \in Nat /\ hs[j].dist \in Nat
  BY <1>2, DistAssumption DEF Hop
<1>4. (i < j => hs[i].dist < hs[j].dist) /\ (j < i => hs[j].dist < hs[i].dist)
  BY DEF Increasing
<1>. QED BY <1>1, <1>3, <1>4

\* With nobody else behind it, the last hop but those of the destination alone
\* separates the distances whose replies move from those whose replies stay.
LEMMA HomeOfTail ==
  ASSUME NEW hs, GoodHops(hs), Increasing(hs),
         \A d, a, n : Keeps(hs, d, a, n) <=> Told(d, a, n),
         NEW k \in DOMAIN hs, k < Len(hs), ~DestOnly(hs[k]),
         \A i \in DOMAIN hs : i > k => DestOnly(hs[i])
  PROVE  \A i \in DOMAIN hs : Home(hs[i].dist) = IF i > k THEN hs[k + 1].dist ELSE hs[i].dist
<1> DEFINE least == hs[k + 1].dist
<1>1. /\ Len(hs) \in Nat /\ DOMAIN hs = 1..Len(hs) /\ k \in Nat
      /\ k + 1 \in DOMAIN hs /\ k + 1 > k /\ \A i \in DOMAIN hs : i > k => k + 1 <= i
  <2>1. Len(hs) \in Nat /\ DOMAIN hs = 1..Len(hs)
    BY DEF GoodHops
  <2>. QED BY <2>1
<1>2. \A i, j \in DOMAIN hs : /\ i \in Nat /\ hs[i].dist \in Nat
                              /\ i < j <=> hs[i].dist < hs[j].dist
                              /\ i <= j <=> hs[i].dist <= hs[j].dist
  BY DistsIncrease
<1>3. \A d : d \in Others <=> \E i \in DOMAIN hs : hs[i].dist = d /\ ~DestOnly(hs[i])
  BY DistsOfHops
<1>4. \A d : d \in Dists <=> \E i \in DOMAIN hs : hs[i].dist = d
  BY DistsOfHops
<1>5. \A i \in DOMAIN hs : i > k => hs[i].dist \in Beyond
  <2> SUFFICES ASSUME NEW i \in DOMAIN hs, i > k, NEW e \in Others PROVE hs[i].dist > e
    BY <1>3, <1>4 DEF Beyond
  <2>1. PICK j \in DOMAIN hs : hs[j].dist = e /\ ~DestOnly(hs[j])
    BY <1>3
  <2>2. ~(j > k) /\ i \in Nat /\ j \in Nat
    BY <1>2, <2>1
  <2>3. j < i
    BY <1>1, <2>2
  <2>. QED BY <1>2, <2>1, <2>3
<1>6. \A i \in DOMAIN hs : hs[i].dist \in Beyond => i > k
  <2> SUFFICES ASSUME NEW i \in DOMAIN hs, hs[i].dist \in Beyond PROVE i > k
    OBVIOUS
  <2>1. hs[k].dist \in Others
    BY <1>3
  <2>2. hs[i].dist > hs[k].dist
    BY <2>1 DEF Beyond
  <2>3. hs[k].dist < hs[i].dist
    BY <1>2, <2>2
  <2>. QED BY <1>2, <2>3
<1>7. \A d \in Beyond : \E i \in DOMAIN hs : hs[i].dist = d
  BY <1>4 DEF Beyond
<1>8. least \in Beyond
  BY <1>1, <1>5
<1>9. \A f \in Beyond : least <= f /\ f \in Nat /\ least \in Nat
  <2> SUFFICES ASSUME NEW f \in Beyond PROVE least <= f /\ f \in Nat /\ least \in Nat
    OBVIOUS
  <2>1. PICK i \in DOMAIN hs : hs[i].dist = f
    BY <1>7
  <2>2. k + 1 <= i
    BY <1>1, <1>6, <2>1
  <2>. QED BY <1>1, <1>2, <2>1, <2>2
<1> HIDE DEF least
<1> DEFINE first == CHOOSE e \in Beyond : \A f \in Beyond : e <= f
<1>10. first = least
  <2>1. first \in Beyond /\ \A f \in Beyond : first <= f
    BY <1>8, <1>9
  <2> HIDE DEF first
  <2>. QED BY <1>8, <1>9, <2>1
<1>11. \A d : Home(d) = IF d \in Beyond THEN least ELSE d
  <2>1. \A d : Home(d) = IF d \in Beyond THEN first ELSE d
    BY DEF Home
  <2> HIDE DEF first
  <2>. QED BY <1>10, <2>1
<1>. QED BY <1>5, <1>6, <1>11 DEF least

LEMMA NothingBeyond ==
  ASSUME NEW hs, GoodHops(hs), Increasing(hs),
         \A d, a, n : Keeps(hs, d, a, n) <=> Told(d, a, n),
         \/ \A i \in DOMAIN hs : DestOnly(hs[i])
         \/ Len(hs) # 0 /\ ~DestOnly(hs[Len(hs)])
  PROVE  \A d : Home(d) = d
<1> SUFFICES ASSUME NEW d \in Beyond PROVE FALSE
  BY DEF Home
<1>1. \A e : e \in Others <=> \E i \in DOMAIN hs : hs[i].dist = e /\ ~DestOnly(hs[i])
  BY DistsOfHops
<1>2. PICK i \in DOMAIN hs : hs[i].dist = d
  <2>1. \A e : e \in Dists <=> \E i \in DOMAIN hs : hs[i].dist = e
    BY DistsOfHops
  <2>. QED BY <2>1 DEF Beyond
<1>3. CASE \A j \in DOMAIN hs : DestOnly(hs[j])
  BY <1>1, <1>3 DEF Beyond
<1>4. CASE Len(hs) # 0 /\ ~DestOnly(hs[Len(hs)])
  <2> DEFINE l == Len(hs)
  <2>1. l \in DOMAIN hs /\ i <= l
    BY <1>4 DEF GoodHops
  <2> HIDE DEF l
  <2>2. hs[l].dist \in Others
    BY <1>1, <1>4, <2>1 DEF l
  <2>3. d > hs[l].dist
    BY <2>2 DEF Beyond
  <2>4. d <= hs[l].dist /\ d \in Nat /\ hs[l].dist \in Nat
    BY <1>2, <2>1, DistsIncrease
  <2>. QED BY <2>3, <2>4
<1>. QED BY <1>3, <1>4

LEMMA TrimmedKeeps ==
  ASSUME NEW hs, GoodHops(hs), Increasing(hs),
         \A d, a, n : Keeps(hs, d, a, n) <=> Told(d, a, n),
         NEW s, s = Trimmed(hs)
  PROVE  GoodHops(s) /\ Increasing(s) /\ Listed(s) = Grouped
<1> DEFINE k == SelectLastInSeq(hs, LAMBDA h : ~DestOnly(h))
<1>1. s = IF k = 0 \/ k = Len(hs) THEN hs ELSE MergeTail(hs, k)
  BY DEF Trimmed
<1>2. /\ k \in 0..Len(hs)
      /\ k # 0 => ~DestOnly(hs[k])
      /\ \A i \in DOMAIN hs : i > k => DestOnly(hs[i])
  BY LastOther DEF GoodHops
<1>3. Len(hs) \in Nat /\ DOMAIN hs = 1..Len(hs)
  BY DEF GoodHops
<1> HIDE DEF k
<1>4. CASE k = 0 \/ k = Len(hs)
  <2>1. \/ \A i \in DOMAIN hs : DestOnly(hs[i])
        \/ Len(hs) # 0 /\ ~DestOnly(hs[Len(hs)])
    <3>1. \A i \in DOMAIN hs : i > 0
      BY <1>3
    <3>. QED BY <1>2, <1>4, <3>1
  <2>2. \A d : Home(d) = d
    BY <2>1, NothingBeyond
  <2>3. s = hs
    BY <1>1, <1>4
  <2>4. \A t : t \in Listed(s) <=> t \in Grouped
    BY <2>2, <2>3, ListedKeeps, GroupedTold
  <2>. QED BY <2>3, <2>4
<1>5. CASE ~(k = 0 \/ k = Len(hs))
  <2>1. k \in DOMAIN hs /\ k \in Nat /\ k < Len(hs) /\ ~DestOnly(hs[k]) /\ s = MergeTail(hs, k)
    <3>1. k \in 0..Len(hs) /\ ~DestOnly(hs[k]) /\ s = MergeTail(hs, k)
      BY <1>1, <1>2, <1>5
    <3>2. \A b \in Nat : k \in 0..b /\ k # 0 /\ k # b => k \in 1..b /\ k \in Nat /\ k < b
      OBVIOUS
    <3>3. k \in 1..Len(hs) /\ k \in Nat /\ k < Len(hs)
      BY <1>3, <1>5, <3>1, <3>2
    <3>. QED BY <1>3, <3>1, <3>3
  <2>2. \A d, e, a, b, n : Keeps(hs, d, a, n) /\ Keeps(hs, e, b, n) => d = e
    BY DEF Told
  <2>3. /\ GoodHops(s) /\ Increasing(s)
        /\ \A d, a, n : Keeps(s, d, a, n) <=>
             \/ \E i \in DOMAIN hs : i <= k /\ hs[i].dist = d /\ Has(hs[i].nodes, a, n)
             \/ /\ d = hs[k + 1].dist
                /\ \E i \in DOMAIN hs : i > k /\ Has(hs[i].nodes, a, n)
    BY <1>2, <2>1, <2>2, MergeKeeps
  <2>4. \A i \in DOMAIN hs : Home(hs[i].dist) = IF i > k THEN hs[k + 1].dist ELSE hs[i].dist
    BY <1>2, <2>1, HomeOfTail
  <2>5. \A i \in DOMAIN hs : i <= k <=> ~(i > k)
    BY <1>3, <2>1
  <2>6. \A e, a, n : Keeps(s, e, a, n) <=> \E d : e = Home(d) /\ Told(d, a, n)
    <3> TAKE e, a, n
    <3>1. (\E d : e = Home(d) /\ Told(d, a, n)) <=>
          \E i \in DOMAIN hs : e = Home(hs[i].dist) /\ Has(hs[i].nodes, a, n)
      BY DEF Keeps
    <3>. QED BY <2>3, <2>4, <2>5, <3>1
  <2>7. \A t : t \in Listed(s) <=> t \in Grouped
    BY <2>6, ListedKeeps, GroupedTold
  <2>. QED BY <2>3, <2>7
<1>. QED BY <1>4, <1>5
-----------------------------------------------------------------------------
(* The invariant *)

LEMMA HandedKeeps ==
  ASSUME IInv, NEW r \in Reply, Handed(r)
  PROVE  IInv'
<1> DEFINE n == Len(replies) + 1
<1>1. /\ replies' \in Seq(Reply) /\ replies'[n] = r /\ \A m \in DOMAIN replies : replies'[m] = replies[m]
      /\ DOMAIN replies' = DOMAIN replies \cup {n} /\ n \notin DOMAIN replies
  BY AppendPlaces DEF IInv, Handed
<1>2. n \in Nat
  BY DEF IInv
<1>3. hops' = AddReply(hops, r, n)
  BY DEF Handed
<1> HIDE DEF n
<1>4. GoodHops(hops) /\ \A d, a, m : Keeps(hops, d, a, m) <=> Told(d, a, m)
  BY DEF IInv, Handed
<1>5. \A d, a : ~Keeps(hops, d, a, n)
  BY <1>1, <1>4 DEF Told
<1> DEFINE new == hops'
<1>6. new = AddReply(hops, r, n)
  BY <1>3
<1> HIDE DEF new
<1>7. /\ GoodHops(new)
      /\ \A d, a, m : Keeps(new, d, a, m) <=>
           Keeps(hops, d, a, m) \/ (d = r.hops /\ a = r.ip /\ m = n)
  BY <1>2, <1>4, <1>5, <1>6, AddReplyKeeps
<1>8. \A d, a, m : Told(d, a, m)' <=> Told(d, a, m) \/ (d = r.hops /\ a = r.ip /\ m = n)
  BY <1>1 DEF Told
<1>9. \A d, a, m : Keeps(new, d, a, m) <=> Told(d, a, m)'
  BY <1>4, <1>7, <1>8
<1>10. GoodHops(hops') /\ \A d, a, m : Keeps(hops', d, a, m) <=> Told(d, a, m)'
  BY <1>7, <1>9 DEF new
<1>. QED BY <1>1, <1>10 DEF IInv, Handed

LEMMA ReturnKeeps ==
  ASSUME IInv, Return
  PROVE  IInv'
<1> DEFINE s == Sorted(hops)
           t == Trimmed(s)
<1>1. GoodHops(hops) /\ \A d, a, n : Keeps(hops, d, a, n) <=> Told(d, a, n)
  BY DEF IInv, Return
<1>2. hops' = t
  BY DEF Return
<1> HIDE DEF s
<1>3. GoodHops(s) /\ Increasing(s) /\ \A d, a, n : Keeps(s, d, a, n) <=> Told(d, a, n)
  BY <1>1, SortedKeeps DEF s
<1> HIDE DEF t
<1>4. GoodHops(t) /\ Increasing(t) /\ Listed(t) = Grouped
  BY <1>3, TrimmedKeeps DEF t
<1>5. GoodHops(hops') /\ Increasing(hops') /\ Listed(hops') = Grouped
  BY <1>2, <1>4
<1>6. Grouped' = Grouped
  BY DEF Return, Grouped, Home, Beyond, Dists, Others
<1>7. err' = FALSE
  BY DEF IInv, Return
<1>. QED BY <1>5, <1>6, <1>7 DEF IInv, Return, Expected

\* After an error there are no hops, and none is expected.
LEMMA ErrorKeeps ==
  ASSUME IInv, ReturnError
  PROVE  IInv'
<1>1. GoodHops(<<>>) /\ Increasing(<<>>) /\ \A d, a, n : ~Keeps(<<>>, d, a, n)
  BY DEF GoodHops, Increasing, Keeps
<1>2. Listed(<<>>) = {}
  BY <1>1, ListedKeeps
<1>. QED BY <1>1, <1>2 DEF IInv, ReturnError, Expected

LEMMA Invariance == Spec => []IInv
<1>1. Init => IInv
  <2> SUFFICES ASSUME Init PROVE IInv
    OBVIOUS
  <2>1. GoodHops(<<>>) /\ \A d, a, n : ~Keeps(<<>>, d, a, n)
    BY DEF GoodHops, Keeps
  <2>2. \A d, a, n : ~Told(d, a, n)
    BY DEF Init, Told
  <2>3. replies = <<>> /\ hops = <<>> /\ table = <<>> /\ stage = "tracing" /\ err = FALSE
    BY DEF Init
  <2>4. \A d, a, n : Keeps(hops, d, a, n) <=> Told(d, a, n)
    BY <2>1, <2>2, <2>3
  <2>5. replies \in Seq(Reply) /\ GoodHops(hops)
    BY <2>1, <2>3
  <2>6. table = IF stage = "stored" THEN Table(hops) ELSE <<>>
    BY <2>3
  <2>. QED BY <2>3, <2>4, <2>5, <2>6 DEF IInv
<1>2. IInv /\ [Next]_vars => IInv'
  <2> SUFFICES ASSUME IInv, [Next]_vars PROVE IInv'
    OBVIOUS
  <2>1. ASSUME NEW r \in Reply, Handed(r) PROVE IInv'
    BY <2>1, HandedKeeps
  <2>2. CASE Return
    BY <2>2, ReturnKeeps
  <2>3. CASE LayOut
    <3>1. Grouped' = Grouped
      BY <2>3 DEF LayOut, Grouped, Home, Beyond, Dists, Others
    <3>. QED BY <2>3, <3>1 DEF LayOut, IInv, Expected
  <2>5. CASE ReturnError
    BY <2>5, ErrorKeeps
  <2>4. CASE UNCHANGED vars
    <3>1. Grouped' = Grouped
      BY <2>4 DEF vars, Grouped, Home, Beyond, Dists, Others
    <3>. QED BY <2>4, <3>1 DEF vars, IInv, Told, Expected
  <2>. QED BY <2>1, <2>2, <2>3, <2>4, <2>5 DEF Next
<1>. QED BY <1>1, <1>2, PTL DEF Spec

\* In whatever order the replies of a trace come, and however many there are,
\* every RTT is returned exactly once, where it was measured or, if it is the
\* destination's answer to a probe sent too far, at the destination's distance;
\* after an error none is.
THEOREM GroupsCorrect == Spec => []TraceGroupsReplies
<1>1. IInv => TraceGroupsReplies
  BY DEF IInv, TraceGroupsReplies, GoodHops, GoodNodes
<1>. QED BY <1>1, Invariance, PTL

\* The hops come in increasing order, each distance and each address once.
THEOREM OrderCorrect == Spec => []HopsOrdered
<1>1. IInv => HopsOrdered
  BY DEF IInv, HopsOrdered, GoodHops, GoodNodes, Increasing
<1>. QED BY <1>1, Invariance, PTL
-----------------------------------------------------------------------------
(* The table *)

LEMMA LastNode ==
  ASSUME NEW hs, GoodHops(hs), NEW i \in DOMAIN hs
  PROVE  Last(hs[i].nodes) \in Node /\ Last(hs[i].nodes).rtt # <<>>
<1> DEFINE ns == hs[i].nodes
<1>1. GoodNodes(ns) /\ ns # <<>>
  BY DEF GoodHops
<1> HIDE DEF ns
<1>2. Len(ns) \in DOMAIN ns /\ ns \in Seq(Node)
  BY <1>1 DEF GoodNodes
<1>3. ns[Len(ns)] \in Node /\ ns[Len(ns)].rtt # <<>>
  BY <1>1, <1>2 DEF GoodNodes
<1>. QED BY <1>3 DEF ns, Last

LEMMA TableLines ==
  ASSUME NEW hs, GoodHops(hs), Increasing(hs)
  PROVE  /\ Size(hs) \in 0..MaxDist /\ (Size(hs) = 0 <=> hs = <<>>)
         /\ DOMAIN Table(hs) = 1..Size(hs) /\ Len(Table(hs)) = Size(hs)
         /\ \A i \in DOMAIN hs : /\ hs[i].dist \in 1..Size(hs)
                                 /\ Table(hs)[hs[i].dist] = Last(hs[i].nodes)
         /\ \A d \in 1..Size(hs) :
              \/ Table(hs)[d] = Silent
              \/ \E i \in DOMAIN hs : Table(hs)[d] = Last(hs[i].nodes)
         /\ hs # <<>> => \E i \in DOMAIN hs : hs[i].dist = Size(hs)
<1> DEFINE l == Len(hs)
           I(d) == {i \in 1..Len(hs) : hs[i].dist = d}
<1>1. hs \in Seq(Hop) /\ l \in Nat /\ DOMAIN hs = 1..l /\ (hs # <<>> => l \in DOMAIN hs)
  BY DEF GoodHops
<1>2. hs # <<>> => Size(hs) = hs[l].dist
  BY DEF Size
<1>3. \A i \in DOMAIN hs : hs[i].dist \in 1..MaxDist
  <2>1. \A i \in DOMAIN hs : hs[i] \in Hop
    BY <1>1
  <2>. QED BY <2>1 DEF Hop
<1>4. hs = <<>> => Size(hs) = 0 /\ DOMAIN hs = {}
  BY DEF Size
<1>5. Size(hs) \in 0..MaxDist /\ (Size(hs) = 0 <=> hs = <<>>)
  <2> HIDE DEF l
  <2>1. CASE hs = <<>>
    BY <1>4, <2>1, DistAssumption
  <2>2. CASE hs # <<>>
    <3>1. Size(hs) \in 1..MaxDist
      BY <1>1, <1>2, <1>3, <2>2
    <3>. QED BY <2>2, <3>1, DistAssumption
  <2>. QED BY <2>1, <2>2
<1>6. \A d \in 1..Size(hs) :
        Table(hs)[d] = IF I(d) = {} THEN Silent
                       ELSE IF Min(I(d)) = 0 THEN Silent ELSE Last(hs[Min(I(d))].nodes)
  BY DEF Table, SelectInSeq
<1>7. \A d : I(d) \in SUBSET Nat /\ I(d) \subseteq DOMAIN hs /\ 0 \notin I(d)
  BY <1>1
<1>8. \A d : I(d) # {} => Min(I(d)) \in I(d)
  <2> TAKE d
  <2>1. I(d) \in SUBSET Nat
    BY <1>7
  <2> HIDE DEF I
  <2>. QED BY <2>1, LeastIsMin
<1>9. \A i \in DOMAIN hs : hs[i].dist \in 1..Size(hs)
  <2> SUFFICES ASSUME NEW i \in DOMAIN hs PROVE hs[i].dist \in 1..Size(hs)
    OBVIOUS
  <2>1. hs # <<>> /\ l \in DOMAIN hs /\ i <= l
    BY <1>1
  <2> HIDE DEF l
  <2>2. hs[i].dist <= hs[l].dist
    BY <2>1, DistsIncrease
  <2>3. hs[i].dist <= Size(hs)
    BY <1>2, <2>1, <2>2
  <2>. QED BY <1>3, <1>5, <2>3, DistAssumption
<1>10. \A i \in DOMAIN hs : I(hs[i].dist) = {i}
  BY <1>1 DEF GoodHops
<1>11. \A i \in DOMAIN hs : Table(hs)[hs[i].dist] = Last(hs[i].nodes)
  <2> TAKE i \in DOMAIN hs
  <2> DEFINE d == hs[i].dist
  <2>1. I(d) = {i} /\ 0 \notin I(d) /\ d \in 1..Size(hs)
    BY <1>7, <1>9, <1>10
  <2>2. I(d) # {} => Min(I(d)) \in I(d)
    BY <1>8
  <2> HIDE DEF I, d
  <2>3. Min(I(d)) = i /\ i # 0 /\ I(d) # {}
    BY <2>1, <2>2
  <2>4. Table(hs)[d] = Last(hs[i].nodes)
    BY <1>6, <2>1, <2>3
  <2>. QED BY <2>4 DEF d
<1>12. \A d \in 1..Size(hs) :
         \/ Table(hs)[d] = Silent
         \/ \E i \in DOMAIN hs : Table(hs)[d] = Last(hs[i].nodes)
  <2> HIDE DEF I
  <2>. QED BY <1>6, <1>7, <1>8
<1>13. DOMAIN Table(hs) = 1..Size(hs) /\ Len(Table(hs)) = Size(hs)
  <2>1. DOMAIN Table(hs) = 1..Size(hs)
    BY DEF Table
  <2>2. Size(hs) \in Nat
    BY <1>5, DistAssumption
  <2>. QED BY <2>1, <2>2
<1>. QED BY <1>1, <1>2, <1>5, <1>9, <1>11, <1>12, <1>13

\* Every hop has its line, the last line is an answer, and a trace has an empty
\* table only if nobody answered or a probe could not be sent.
THEOREM TableCorrect == Spec => []TableCoversHops
<1>1. IInv => TableCoversHops
  <2> SUFFICES ASSUME IInv, stage = "stored"
               PROVE  /\ \A i \in DOMAIN hops : hops[i].dist \in DOMAIN table /\ table[hops[i].dist] # Silent
                      /\ table # <<>> => Last(table) # Silent
                      /\ (table = <<>>) = (err \/ replies = <<>>)
    BY DEF TableCoversHops
  <2>1. GoodHops(hops) /\ Increasing(hops) /\ Listed(hops) = Expected /\ table = Table(hops)
    BY DEF IInv
  <2>2. /\ Size(hops) \in Nat /\ (Size(hops) = 0 <=> hops = <<>>)
        /\ DOMAIN table = 1..Size(hops) /\ Len(table) = Size(hops)
        /\ \A i \in DOMAIN hops : /\ hops[i].dist \in 1..Size(hops)
                                  /\ table[hops[i].dist] = Last(hops[i].nodes)
        /\ hops # <<>> => \E i \in DOMAIN hops : hops[i].dist = Size(hops)
    BY <2>1, TableLines, DistAssumption
  <2>3. \A i \in DOMAIN hops : Last(hops[i].nodes) # Silent
    <3>1. \A i \in DOMAIN hops : Last(hops[i].nodes).rtt # Silent.rtt
      BY <2>1, LastNode DEF Silent
    <3>. QED BY <3>1
  <2>4. \A i \in DOMAIN hops : hops[i].dist \in DOMAIN table /\ table[hops[i].dist] # Silent
    BY <2>2, <2>3
  <2>5. table = <<>> <=> hops = <<>>
    <3>1. table = <<>> <=> Size(hops) = 0
      <4>1. table = <<>> => Len(table) = 0
        OBVIOUS
      <4>2. Size(hops) = 0 => DOMAIN table = {}
        BY <2>2
      <4>3. Size(hops) = 0 => table = <<>>
        BY <2>1, <4>2 DEF Table
      <4>. QED BY <2>2, <4>1, <4>3
    <3>. QED BY <2>2, <3>1
  <2>6. Last(table) = table[Size(hops)]
    BY <2>2 DEF Last
  <2>7. table # <<>> => Last(table) # Silent
    <3> SUFFICES ASSUME table # <<>> PROVE Last(table) # Silent
      OBVIOUS
    <3>1. PICK i \in DOMAIN hops : hops[i].dist = Size(hops)
      BY <2>2, <2>5
    <3>. QED BY <2>4, <2>6, <3>1
  <2>8. hops = <<>> <=> Listed(hops) = {}
    <3>1. ASSUME hops # <<>> PROVE Listed(hops) # {}
      <4>1. 1 \in DOMAIN hops
        BY <2>1, <3>1 DEF GoodHops
      <4> DEFINE h == hops[1]
      <4>2. GoodNodes(h.nodes) /\ h.nodes # <<>>
        BY <2>1, <4>1 DEF GoodHops
      <4> HIDE DEF h
      <4>3. PICK a, n : Has(h.nodes, a, n)
        BY <4>2, DestOnlyHas
      <4>4. Keeps(hops, h.dist, a, n)
        BY <4>1, <4>3 DEF Keeps, h
      <4>. QED BY <4>4, ListedKeeps
    <3>2. hops = <<>> => \A d, a, n : ~Keeps(hops, d, a, n)
      BY DEF Keeps
    <3>3. hops = <<>> => Listed(hops) = {}
      BY <3>2, ListedKeeps
    <3>. QED BY <3>1, <3>3
  <2>9. replies = <<>> <=> Grouped = {}
    <3>1. replies \in Seq(Reply)
      BY DEF IInv
    <3>2. replies = <<>> <=> DOMAIN replies = {}
      BY <3>1
    <3>3. Grouped = {} <=> DOMAIN replies = {}
      BY DEF Grouped
    <3>. QED BY <3>2, <3>3
  <2>10. table = <<>> <=> err \/ replies = <<>>
    BY <2>1, <2>5, <2>8, <2>9 DEF Expected
  <2>11. err \in BOOLEAN
    BY DEF IInv
  <2>. QED BY <2>4, <2>7, <2>10, <2>11
<1>. QED BY <1>1, Invariance, PTL

\* The type of every variable.
THEOREM TypeCorrect == Spec => []TypeOK
<1>1. IInv => TypeOK
  <2> SUFFICES ASSUME IInv PROVE TypeOK
    OBVIOUS
  <2>1. \A i \in DOMAIN hops : hops[i] \in Hop
    BY DEF IInv, GoodHops
  <2>2. \A d \in DOMAIN table : d \in 1..MaxDist /\ table[d].ip \in Addrs \cup {"*"}
    <3>1. CASE stage = "stored"
      <4>1. GoodHops(hops) /\ Increasing(hops) /\ table = Table(hops)
        BY <3>1 DEF IInv
      <4>2. /\ Size(hops) \in 0..MaxDist /\ DOMAIN table = 1..Size(hops)
            /\ \A d \in 1..Size(hops) :
                 table[d] = Silent \/ \E i \in DOMAIN hops : table[d] = Last(hops[i].nodes)
        BY <4>1, TableLines
      <4>3. \A i \in DOMAIN hops : Last(hops[i].nodes).ip \in Addrs
        BY <4>1, LastNode DEF Node
      <4>4. \A d \in 1..Size(hops) : table[d].ip \in Addrs \cup {"*"}
        BY <4>2, <4>3 DEF Silent
      <4>. QED BY <4>2, <4>4, DistAssumption
    <3>2. CASE stage # "stored"
      BY <3>2 DEF IInv
    <3>. QED BY <3>1, <3>2
  <2>3. \A i \in DOMAIN hops : hops[i].dist \in 1..MaxDist /\ hops[i].nodes \in Seq(Node)
    BY <2>1 DEF Hop
  <2>. QED BY <2>2, <2>3 DEF IInv, TypeOK, Node
<1>. QED BY <1>1, Invariance, PTL
-----------------------------------------------------------------------------
(* Sums *)

\* f[i] is the sum of the first i numbers of s.
Adds(f, s, m) == f = [i \in 0..m |-> IF i = 0 THEN 0 ELSE f[i - 1] + s[i]]

LEMMA AddsExist == \A s : \A m \in Nat : \E f : Adds(f, s, m)
<1> SUFFICES ASSUME NEW s, NEW m \in Nat PROVE \E f : Adds(f, s, m)
  OBVIOUS
<1> DEFINE P == {i \in Nat : \E f : Adds(f, s, i)}
<1>1. 0 \in P
  <2> DEFINE f == [i \in 0..0 |-> 0]
  <2>1. \A i \in 0..0 : i = 0
    OBVIOUS
  <2>2. f = [i \in 0..0 |-> IF i = 0 THEN 0 ELSE f[i - 1] + s[i]]
    BY <2>1
  <2>3. Adds(f, s, 0)
    BY <2>2 DEF Adds
  <2>. QED BY <2>3
<1>2. ASSUME NEW i \in 0..m, i \in P PROVE i + 1 \in P
  <2>1. PICK f : Adds(f, s, i)
    BY <1>2
  <2> DEFINE g == [k \in 0..(i + 1) |-> IF k = i + 1 THEN f[i] + s[i + 1] ELSE f[k]]
  <2>2. \A k \in 0..i : f[k] = IF k = 0 THEN 0 ELSE f[k - 1] + s[k]
    BY <2>1 DEF Adds
  <2>3. g[i + 1] = f[i] + s[i + 1] /\ \A k \in 0..i : g[k] = f[k]
    OBVIOUS
  <2>4. ASSUME NEW k \in 0..(i + 1) PROVE g[k] = IF k = 0 THEN 0 ELSE g[k - 1] + s[k]
    <3>1. CASE k = i + 1
      <4>1. k # 0 /\ k - 1 = i /\ i \in 0..i
        BY <3>1
      <4> HIDE DEF g
      <4>. QED BY <2>3, <3>1, <4>1
    <3>2. CASE k # i + 1
      <4>1. k \in 0..i /\ (k # 0 => k - 1 \in 0..i)
        BY <3>2
      <4> HIDE DEF g
      <4>. QED BY <2>2, <2>3, <4>1
    <3>. QED BY <3>1, <3>2
  <2>5. g = [k \in 0..(i + 1) |-> g[k]]
    OBVIOUS
  <2> HIDE DEF g
  <2>6. Adds(g, s, i + 1)
    BY <2>4, <2>5 DEF Adds
  <2>. QED BY <2>6
<1> HIDE DEF P
<1>3. \A i \in 0..m : i \in P
  BY <1>1, <1>2, UpTo
<1>4. m \in P
  BY <1>3
<1>. QED BY <1>4 DEF P

\* The partial sums of a sequence of integers.
Partial(f, s, m) ==
  /\ f \in [0..m -> Int] /\ f[0] = 0
  /\ \A i \in 0..m : i < m => f[i + 1] = f[i] + s[i + 1]

LEMMA SumOf ==
  ASSUME NEW s \in Seq(Int), NEW m, Len(s) = m
  PROVE  \E f : Partial(f, s, m) /\ Sum(s) = f[m]
<1> DEFINE f == CHOOSE f : Adds(f, s, m)
<1>1. m \in Nat /\ DOMAIN s = 1..m /\ \A i \in 1..m : s[i] \in Int
  OBVIOUS
<1>2. Adds(f, s, m)
  BY <1>1, AddsExist
<1>3. Sum(s) = f[m]
  BY DEF Sum, Adds
<1> HIDE DEF f
<1>4. \A i \in 0..m : f[i] = IF i = 0 THEN 0 ELSE f[i - 1] + s[i]
  BY <1>2 DEF Adds
<1>5. f[0] = 0
  BY <1>1, <1>4
<1>6. ASSUME NEW i \in 0..m, i < m PROVE f[i + 1] = f[i] + s[i + 1] /\ i + 1 \in 1..m
  <2>1. i + 1 \in 0..m /\ i + 1 # 0 /\ (i + 1) - 1 = i /\ i + 1 \in 1..m
    BY <1>1, <1>6
  <2>2. f[i + 1] = f[(i + 1) - 1] + s[i + 1]
    BY <1>4, <2>1
  <2>. QED BY <2>1, <2>2
<1> DEFINE P == {i \in Nat : f[i] \in Int}
<1>7. 0 \in P
  BY <1>5
<1>8. \A i \in 0..m : i \in P /\ i < m => i + 1 \in P
  BY <1>1, <1>6
<1> HIDE DEF P
<1>9. \A i \in 0..m : i \in P
  BY <1>1, <1>7, <1>8, UpTo
<1>10. \A i \in 0..m : f[i] \in Int
  BY <1>9 DEF P
<1>11. f \in [0..m -> Int]
  BY <1>2, <1>10 DEF Adds
<1>. QED BY <1>3, <1>5, <1>6, <1>11 DEF Partial

LEMMA SumType == ASSUME NEW s \in Seq(Int) PROVE Sum(s) \in Int
<1>1. PICK f : Partial(f, s, Len(s)) /\ Sum(s) = f[Len(s)]
  BY SumOf
<1>2. Len(s) \in 0..Len(s)
  OBVIOUS
<1>. QED BY <1>1, <1>2 DEF Partial

\* z mixes x and y in the proportions p and q, from r.
Mixes(z, x, y, n, p, q, r) ==
  /\ {x, y, z} \subseteq {s \in Seq(Int) : Len(s) = n}
  /\ {p, q, r} \subseteq Int
  /\ \A i \in 1..n : z[i] = p * x[i] + q * y[i] + r

LEMMA SumLinear ==
  ASSUME NEW x, NEW y, NEW z, NEW n, NEW p, NEW q, NEW r, Mixes(z, x, y, n, p, q, r)
  PROVE  Sum(z) = p * Sum(x) + q * Sum(y) + n * r
<1>1. /\ x \in Seq(Int) /\ y \in Seq(Int) /\ z \in Seq(Int)
      /\ Len(x) = n /\ Len(y) = n /\ Len(z) = n /\ n \in Nat
      /\ p \in Int /\ q \in Int /\ r \in Int
  BY DEF Mixes
<1>2. PICK f : Partial(f, x, n) /\ Sum(x) = f[n]
  BY <1>1, SumOf
<1>3. PICK g : Partial(g, y, n) /\ Sum(y) = g[n]
  BY <1>1, SumOf
<1>4. PICK h : Partial(h, z, n) /\ Sum(z) = h[n]
  BY <1>1, SumOf
<1> DEFINE P == {i \in Nat : h[i] = p * f[i] + q * g[i] + i * r}
<1>5. 0 \in P
  BY <1>1, <1>2, <1>3, <1>4 DEF Partial
<1>6. ASSUME NEW i \in 0..n, i \in P, i < n PROVE i + 1 \in P
  <2>1. i + 1 \in 1..n /\ i \in Int /\ i + 1 \in Nat
    BY <1>1, <1>6
  <2>2. f[i] \in Int /\ g[i] \in Int /\ x[i + 1] \in Int /\ y[i + 1] \in Int
    <3>1. \A k \in 1..n : x[k] \in Int /\ y[k] \in Int
      BY <1>1
    <3>. QED BY <1>2, <1>3, <2>1, <3>1 DEF Partial
  <2>3. h[i + 1] = (p * f[i] + q * g[i] + i * r) + (p * x[i + 1] + q * y[i + 1] + r)
    BY <1>4, <1>6, <2>1 DEF Mixes, Partial
  <2>4. (p * f[i] + q * g[i] + i * r) + (p * x[i + 1] + q * y[i + 1] + r)
           = p * (f[i] + x[i + 1]) + q * (g[i] + y[i + 1]) + (i + 1) * r
    <3> DEFINE a == f[i]
               b == g[i]
               c == x[i + 1]
               d == y[i + 1]
    <3>1. i \in Int /\ a \in Int /\ b \in Int /\ c \in Int /\ d \in Int
      BY <2>1, <2>2
    <3> HIDE DEF a, b, c, d
    <3>2. (p * a + q * b + i * r) + (p * c + q * d + r) = p * (a + c) + q * (b + d) + (i + 1) * r
      BY <1>1, <3>1
    <3>. QED BY <3>2 DEF a, b, c, d
  <2>5. f[i + 1] = f[i] + x[i + 1] /\ g[i + 1] = g[i] + y[i + 1]
    BY <1>2, <1>3, <1>6 DEF Partial
  <2>6. h[i + 1] = p * f[i + 1] + q * g[i + 1] + (i + 1) * r
    BY <2>3, <2>4, <2>5, Zenon
  <2>. QED BY <2>1, <2>6
<1> HIDE DEF P
<1>7. \A i \in 0..n : i \in P
  BY <1>1, <1>5, <1>6, UpTo
<1>8. n \in P
  BY <1>1, <1>7
<1>9. h[n] = p * f[n] + q * g[n] + n * r
  BY <1>8 DEF P
<1>. QED BY <1>2, <1>3, <1>4, <1>9, Zenon
-----------------------------------------------------------------------------
(* The jitters *)

\* The distances from the mean add up to nothing, and their squares to what
\* the squares of the numbers exceed the square of their sum by.
LEMMA VarianceIs ==
  ASSUME NEW s \in Seq(Int), NEW n, Len(s) = n
  PROVE  /\ n \in Nat /\ Deltas(s) \in Seq(Int) /\ Len(Deltas(s)) = n
         /\ Squares(s) \in Seq(Int) /\ Len(Squares(s)) = n
         /\ Sum(Deltas(s)) = 0 /\ Variance(s) \in Int
         /\ Variance(s) = n * n * Sum(Squares(s)) - n * Sum(s) * Sum(s)
<1> DEFINE T == Sum(s)
           d == Deltas(s)
           q == Squares(s)
           v == Squares(d)
           W == Sum(q)
<1>1. n \in Nat /\ DOMAIN s = 1..n /\ (\A i \in 1..n : s[i] \in Int) /\ T \in Int
  BY SumType
<1>2. /\ d \in Seq(Int) /\ Len(d) = n /\ DOMAIN d = 1..n
      /\ \A i \in 1..n : d[i] = n * s[i] - T
  <2> HIDE DEF T
  <2>1. d = [i \in 1..n |-> n * s[i] - T]
    BY <1>1 DEF Deltas, T
  <2> HIDE DEF d
  <2>2. \A i \in 1..n : n * s[i] - T \in Int
    BY <1>1
  <2>. QED BY <1>1, <2>1, <2>2
<1>3. /\ q \in Seq(Int) /\ Len(q) = n
      /\ \A i \in 1..n : q[i] = s[i] * s[i]
  <2>1. q = [i \in 1..n |-> s[i] * s[i]]
    BY <1>1 DEF Squares
  <2> HIDE DEF q
  <2>2. \A i \in 1..n : s[i] * s[i] \in Int
    BY <1>1
  <2>. QED BY <1>1, <2>1, <2>2
<1>4. /\ v \in Seq(Int) /\ Len(v) = n
      /\ \A i \in 1..n : v[i] = d[i] * d[i]
  <2> HIDE DEF d
  <2>1. v = [i \in 1..n |-> d[i] * d[i]]
    BY <1>2 DEF Squares
  <2>2. \A i \in 1..n : d[i] * d[i] \in Int
    BY <1>2
  <2> HIDE DEF v
  <2>. QED BY <1>1, <2>1, <2>2
<1>5. W \in Int /\ Sum(v) \in Int
  <2> HIDE DEF q, v
  <2>. QED BY <1>3, <1>4, SumType DEF W
<1>6. Variance(s) = Sum(v)
  BY DEF Variance
<1>7. T = Sum(s) /\ W = Sum(q)
  OBVIOUS
<1> HIDE DEF T, d, q, v, W
<1>8. Sum(d) = n * T + 0 * T + n * (-T)
  <2>1. \A i \in 1..n : d[i] = n * s[i] + 0 * s[i] + (-T)
    BY <1>1, <1>2
  <2> DEFINE zero == 0
             c == -T
  <2>2. n \in Int /\ zero \in Int /\ c \in Int
    BY <1>1
  <2>3. \A i \in 1..n : d[i] = n * s[i] + zero * s[i] + c
    BY <2>1
  <2> HIDE DEF zero, c
  <2>4. Mixes(d, s, s, n, n, zero, c)
    BY <1>2, <2>2, <2>3 DEF Mixes
  <2>5. Sum(d) = n * Sum(s) + zero * Sum(s) + n * c
    BY <2>4, SumLinear
  <2>. QED BY <1>7, <2>5 DEF zero, c
<1>9. Sum(d) = 0
  BY <1>1, <1>8
<1>10. \A i \in 1..n : v[i] = (n * n) * q[i] + (-2 * n * T) * s[i] + T * T
  <2> SUFFICES ASSUME NEW i \in 1..n PROVE v[i] = (n * n) * q[i] + (-2 * n * T) * s[i] + T * T
    OBVIOUS
  <2>1. v[i] = (n * s[i] - T) * (n * s[i] - T) /\ q[i] = s[i] * s[i]
    BY <1>2, <1>3, <1>4
  <2>2. s[i] \in Int
    BY <1>1
  <2> DEFINE a == s[i]
  <2>3. a \in Int
    BY <2>2
  <2> HIDE DEF a
  <2>4. (n * a - T) * (n * a - T) = (n * n) * (a * a) + (-2 * n * T) * a + T * T
    BY <1>1, <2>3
  <2>. QED BY <2>1, <2>4 DEF a
<1>11. Sum(v) = (n * n) * W + (-2 * n * T) * T + n * (T * T)
  <2> DEFINE a == n * n
             b == -2 * n * T
             c == T * T
  <2>1. a \in Int /\ b \in Int /\ c \in Int
    BY <1>1
  <2>2. \A i \in 1..n : v[i] = a * q[i] + b * s[i] + c
    BY <1>10
  <2> HIDE DEF a, b, c
  <2>3. v \in Seq(Int) /\ Len(v) = n /\ q \in Seq(Int) /\ Len(q) = n
    BY <1>3, <1>4
  <2>4. Mixes(v, q, s, n, a, b, c)
    BY <2>1, <2>2, <2>3 DEF Mixes
  <2>5. Sum(v) = a * Sum(q) + b * Sum(s) + n * c
    BY <2>4, SumLinear
  <2>. QED BY <1>7, <2>5 DEF a, b, c
<1>12. Sum(v) = n * n * W - n * T * T
  BY <1>1, <1>5, <1>11
<1>. QED BY <1>1, <1>2, <1>3, <1>5, <1>6, <1>7, <1>9, <1>12 DEF d, q

\* The jitters are the distances from the mean, without their signs.
LEMMA JittersAre ==
  ASSUME NEW s \in Seq(Int), NEW n, Len(s) = n
  PROVE  /\ Jitters(s) \in Seq(Int) /\ Len(Jitters(s)) = n
         /\ Variance(Jitters(s)) + n * Sum(Jitters(s)) * Sum(Jitters(s)) = n * n * Variance(s)
<1> DEFINE d == Deltas(s)
           j == Jitters(s)
<1>1. n \in Nat /\ DOMAIN s = 1..n
  OBVIOUS
<1>2. d \in Seq(Int) /\ Len(d) = n /\ Variance(s) = Sum(Squares(d)) /\ Variance(s) \in Int
  BY VarianceIs DEF Variance
<1>3. j = [i \in 1..n |-> IF d[i] < 0 THEN -d[i] ELSE d[i]]
  BY <1>1 DEF Jitters
<1> HIDE DEF d, j
<1>4. DOMAIN d = 1..n /\ \A i \in 1..n : d[i] \in Int
  BY <1>1, <1>2
<1>5. \A i \in 1..n : j[i] = IF d[i] < 0 THEN -d[i] ELSE d[i]
  BY <1>3
<1>6. \A i \in 1..n : j[i] \in Int
  BY <1>4, <1>5
<1>7. j \in Seq(Int) /\ Len(j) = n /\ DOMAIN j = 1..n
  BY <1>1, <1>3, <1>6
<1>8. \A i \in 1..n : j[i] * j[i] = d[i] * d[i]
  <2> SUFFICES ASSUME NEW i \in 1..n PROVE j[i] * j[i] = d[i] * d[i]
    OBVIOUS
  <2> DEFINE a == d[i]
             b == j[i]
  <2>1. a \in Int /\ (b = a \/ b = -a)
    BY <1>4, <1>5
  <2> HIDE DEF a, b
  <2>2. b * b = a * a
    BY <2>1
  <2>. QED BY <2>2 DEF a, b
<1>9. Squares(j) = Squares(d)
  <2>1. [i \in 1..n |-> j[i] * j[i]] = [i \in 1..n |-> d[i] * d[i]]
    BY <1>8
  <2>. QED BY <1>4, <1>7, <2>1 DEF Squares
<1> DEFINE V == Variance(j)
           W == Variance(s)
           T == Sum(j)
<1>10. V = n * n * W - n * T * T /\ V \in Int /\ T \in Int /\ W \in Int
  <2>1. V = n * n * Sum(Squares(j)) - n * T * T /\ V \in Int
    BY <1>7, VarianceIs
  <2>2. Sum(Squares(j)) = W
    BY <1>2, <1>9
  <2>3. T \in Int
    BY <1>7, SumType
  <2>. QED BY <1>2, <2>1, <2>2, <2>3
<1> HIDE DEF V, W, T
<1>11. V + n * T * T = n * n * W
  BY <1>1, <1>10
<1>. QED BY <1>7, <1>11 DEF V, W, T, j
-----------------------------------------------------------------------------
(* The estimate *)

\* No one of some numbers that are not negative exceeds their sum.
LEMMA SumBounds ==
  ASSUME NEW y \in Seq(Int), NEW n, Len(y) = n, \A i \in 1..n : y[i] >= 0
  PROVE  Sum(y) \in Nat /\ \A j \in 1..n : y[j] <= Sum(y)
<1>1. n \in Nat /\ \A i \in 1..n : y[i] \in Int
  OBVIOUS
<1>2. PICK f : Partial(f, y, n) /\ Sum(y) = f[n]
  BY SumOf
<1> DEFINE P == {i \in 0..n : f[i] >= 0 /\ \A j \in 1..i : y[j] <= f[i]}
<1>3. 0 \in P
  BY <1>1, <1>2 DEF Partial
<1>4. ASSUME NEW i \in 0..n, i \in P, i < n PROVE i + 1 \in P
  <2>1. i + 1 \in 1..n /\ i \in Nat /\ f[i] \in Int /\ f[i + 1] = f[i] + y[i + 1]
    BY <1>1, <1>2, <1>4 DEF Partial
  <2>2. y[i + 1] \in Int /\ y[i + 1] >= 0 /\ f[i] >= 0
    BY <1>1, <1>4, <2>1
  <2>3. ASSUME NEW j \in 1..(i + 1) PROVE y[j] <= f[i + 1]
    <3>1. CASE j = i + 1
      BY <2>1, <2>2, <3>1
    <3>2. CASE j # i + 1
      <4>1. j \in 1..i /\ j \in 1..n
        BY <2>1, <3>2
      <4>2. y[j] <= f[i] /\ y[j] \in Int
        BY <1>1, <1>4, <4>1
      <4>. QED BY <2>1, <2>2, <4>2
    <3>. QED BY <3>1, <3>2
  <2>4. f[i + 1] >= 0 /\ i + 1 \in 0..n
    BY <2>1, <2>2
  <2>. QED BY <2>3, <2>4
<1> HIDE DEF P
<1>5. \A i \in 0..n : i \in P
  BY <1>1, <1>3, <1>4, UpTo
<1>6. n \in P
  BY <1>1, <1>5
<1>7. f[n] \in Int
  BY <1>1, <1>2 DEF Partial
<1>. QED BY <1>2, <1>6, <1>7 DEF P

\* Of some numbers that are not negative, not so many are m or more.
LEMMA SumCounts ==
  ASSUME NEW y \in Seq(Int), NEW n, Len(y) = n, \A i \in 1..n : y[i] >= 0, NEW m \in Nat
  PROVE  m * Cardinality({j \in 1..n : y[j] >= m}) <= Sum(y)
<1>1. n \in Nat /\ \A i \in 1..n : y[i] \in Int
  OBVIOUS
<1>2. PICK f : Partial(f, y, n) /\ Sum(y) = f[n]
  BY SumOf
<1> DEFINE C(i) == {j \in 1..i : y[j] >= m}
           P == {i \in 0..n : m * Cardinality(C(i)) <= f[i]}
<1>3. 0 \in P
  <2>1. C(0) = {} /\ f[0] = 0 /\ m * 0 = 0
    BY <1>2 DEF Partial
  <2>. QED BY <1>1, <2>1, FS_EmptySet
<1>4. ASSUME NEW i \in 0..n, i \in P, i < n PROVE i + 1 \in P
  <2>1. i + 1 \in 1..n /\ i \in Nat /\ f[i] \in Int /\ f[i + 1] = f[i] + y[i + 1] /\ i + 1 \in 0..n
    BY <1>1, <1>2, <1>4 DEF Partial
  <2>2. y[i + 1] \in Int /\ y[i + 1] >= 0 /\ m * Cardinality(C(i)) <= f[i]
    BY <1>1, <1>4, <2>1
  <2>3. IsFiniteSet(C(i)) /\ Cardinality(C(i)) \in Nat
    <3>1. C(i) \in SUBSET (1..i)
      OBVIOUS
    <3>2. IsFiniteSet(1..i)
      BY <2>1, FS_Interval
    <3> HIDE DEF C
    <3>. QED BY <3>1, <3>2, FS_Subset, FS_CardinalityType
  <2> DEFINE c == Cardinality(C(i))
  <2>4. CASE y[i + 1] >= m
    <3>1. C(i + 1) = C(i) \cup {i + 1} /\ i + 1 \notin C(i)
      BY <2>1, <2>4
    <3> HIDE DEF C
    <3>2. Cardinality(C(i + 1)) = c + 1
      BY <2>3, <3>1, FS_AddElement
    <3>3. c \in Nat /\ m * c <= f[i]
      BY <2>2, <2>3
    <3> HIDE DEF c
    <3>4. m * (c + 1) = m * c + m /\ m * c \in Int
      BY <3>3
    <3>5. m * (c + 1) <= f[i + 1]
      BY <2>1, <2>2, <2>4, <3>3, <3>4
    <3>. QED BY <2>1, <3>2, <3>5
  <2>5. CASE ~(y[i + 1] >= m)
    <3>1. C(i + 1) = C(i)
      BY <2>1, <2>5
    <3>2. c \in Nat /\ m * c \in Int /\ m * c <= f[i]
      BY <2>2, <2>3
    <3> HIDE DEF C, c
    <3>3. m * c <= f[i + 1]
      BY <2>1, <2>2, <3>2
    <3>. QED BY <2>1, <3>1, <3>3 DEF c
  <2>. QED BY <2>4, <2>5
<1> HIDE DEF P
<1>5. \A i \in 0..n : i \in P
  BY <1>1, <1>3, <1>4, UpTo
<1>6. n \in P
  BY <1>1, <1>5
<1>. QED BY <1>2, <1>6 DEF P

\* Three standard deviations above the mean there is a number.
LEMMA EstimateIs ==
  ASSUME NEW t \in Nat, NEW w \in Int, NEW n \in Nat, n > 0, w <= (n * t) * (n * t),
         NEW e, e = Estimate(t, w, n)
  PROVE  e \in Nat /\ e * n > t /\ n * (e * n - t) * (e * n - t) > 9 * w
<1> DEFINE Above(i) == i * n > t /\ n * (i * n - t) * (i * n - t) > 9 * w
           Within(i) == i * n <= t \/ n * (i * n - t) * (i * n - t) <= 9 * w
           top == 4 * t + 5
           E == {i \in 0..top : Above(i)}
           least == Min(E)
<1>1. top \in E
  <2> DEFINE m == top * n - t
             b == n * t
  <2>1. m \in Int /\ b \in Int /\ b >= 0 /\ top \in 0..top
    OBVIOUS
  <2>2. b >= t
    <3>1. (n - 1) * t >= 0
      OBVIOUS
    <3>. QED BY <3>1
  <2>3. m = 4 * b + 5 * n - t
    OBVIOUS
  <2>4. w <= b * b
    OBVIOUS
  <2>5. top * n > t
    BY <2>1, <2>2, <2>3
  <2> HIDE DEF m, b
  <2>6. m >= 3 * b + 1
    BY <2>1, <2>2, <2>3
  <2>7. m * m >= (3 * b + 1) * (3 * b + 1)
    BY <2>1, <2>6
  <2>8. (3 * b + 1) * (3 * b + 1) = 9 * (b * b) + 6 * b + 1
    BY <2>1
  <2>9. m * m > 9 * w
    <3> DEFINE c == b * b
               d == m * m
    <3>1. c \in Int /\ d \in Int /\ d >= 9 * c + 6 * b + 1 /\ w <= c
      BY <2>1, <2>4, <2>7, <2>8
    <3> HIDE DEF c, d
    <3>2. d > 9 * w
      BY <2>1, <3>1
    <3>. QED BY <3>2 DEF d
  <2>10. n * m * m >= m * m
    <3> DEFINE d == m * m
    <3>1. d \in Int /\ d >= 0 /\ n * m * m = n * d
      BY <2>1
    <3> HIDE DEF d
    <3>2. (n - 1) * d >= 0
      BY <3>1
    <3>3. n * d >= d
      BY <3>1, <3>2
    <3>. QED BY <3>1, <3>3 DEF d
  <2>11. n * m * m > 9 * w
    BY <2>1, <2>9, <2>10
  <2>12. Above(top)
    BY <2>5, <2>11 DEF m
  <2>. QED BY <2>1, <2>12
<1>2. E \in SUBSET Nat /\ E # {}
  <2>1. E \in SUBSET Nat
    <3>1. top \in Nat
      OBVIOUS
    <3> HIDE DEF top, Above
    <3>. QED BY <3>1
  <2>. QED BY <1>1, <2>1
<1>3. least \in E /\ \A y \in E : least <= y
  <2> HIDE DEF E
  <2>. QED BY <1>2, LeastIsMin
<1> HIDE DEF least
<1>4. least \in 0..top /\ Above(least) /\ top \in Nat
  BY <1>3
<1>5. Within(least - 1)
  <2>1. CASE least = 0
    BY <2>1
  <2>2. CASE least # 0
    <3>1. least - 1 \in 0..top /\ ~(least <= least - 1)
      BY <1>4, <2>2
    <3>2. least - 1 \notin E
      BY <1>3, <3>1
    <3>3. ~Above(least - 1)
      BY <3>1, <3>2
    <3> DEFINE k == least - 1
    <3>4. k \in Int
      BY <3>1
    <3> HIDE DEF k
    <3>5. Above(k) \/ Within(k)
      BY <3>4
    <3>. QED BY <3>3, <3>5 DEF k
  <2>. QED BY <2>1, <2>2
<1>6. e = CHOOSE i \in 0..top : Within(i - 1) /\ Above(i)
  BY DEF Estimate
<1> HIDE DEF Above, Within, top
<1>7. e \in 0..top /\ Above(e)
  BY <1>4, <1>5, <1>6
<1>8. e \in Nat
  BY <1>4, <1>7
<1>. QED BY <1>7, <1>8 DEF Above

\* Cantelli's inequality: less than a tenth of some numbers is above the estimate.
LEMMA EstimateCounts ==
  ASSUME NEW s \in Seq(Int), NEW n, Len(s) = n, n > 0, \A i \in 1..n : s[i] >= 0,
         NEW e, e = Estimate(Sum(s), Variance(s), n)
  PROVE  e \in Nat /\ 10 * Cardinality({j \in 1..n : s[j] <= e}) > 9 * n
<1> DEFINE t == Sum(s)
           w == Variance(s)
           q == Squares(s)
           d == Deltas(s)
           v == Squares(d)
<1>1. /\ n \in Nat /\ DOMAIN s = 1..n /\ (\A i \in 1..n : s[i] \in Int) /\ t \in Nat
      /\ \A i \in 1..n : s[i] <= t
  BY SumBounds
<1>2. /\ q \in Seq(Int) /\ Len(q) = n /\ w \in Int /\ w = n * n * Sum(q) - n * t * t
      /\ d \in Seq(Int) /\ Len(d) = n /\ Sum(d) = 0
  BY VarianceIs
<1>3. v \in Seq(Int) /\ Len(v) = n /\ w = Sum(v)
  <2> HIDE DEF d
  <2>1. v \in Seq(Int) /\ Len(v) = n
    BY <1>2, VarianceIs
  <2>. QED BY <2>1 DEF Variance, d
<1>4. \A i \in 1..n : d[i] = n * s[i] - t /\ d[i] \in Int /\ v[i] = d[i] * d[i]
  <2>1. \A i \in 1..n : d[i] = n * s[i] - t
    BY <1>1 DEF Deltas
  <2> HIDE DEF d
  <2>2. DOMAIN d = 1..n /\ \A i \in 1..n : d[i] \in Int
    BY <1>2
  <2>. QED BY <2>1, <2>2 DEF Squares
<1>5. \A i \in 1..n : q[i] = s[i] * s[i]
  BY <1>1 DEF Squares
<1>6. t = Sum(s)
  OBVIOUS
<1>22. e = Estimate(t, w, n)
  OBVIOUS
<1> HIDE DEF t, w, q, d, v
<1>7. Sum(q) \in Int /\ Sum(q) <= t * t
  <2> DEFINE z == [i \in 1..n |-> t * s[i] - q[i]]
             m == -1
             o == 0
  <2>1. ASSUME NEW i \in 1..n PROVE z[i] = t * s[i] + m * q[i] + o /\ z[i] \in Int /\ z[i] >= 0
    <3> DEFINE b == s[i]
    <3>1. b \in Int /\ 0 <= b /\ b <= t /\ q[i] = b * b /\ z[i] = t * b - q[i]
      BY <1>1, <1>5
    <3> HIDE DEF b, z
    <3>2. b * (t - b) >= 0
      BY <1>1, <3>1
    <3>3. z[i] = b * (t - b) /\ z[i] \in Int
      BY <1>1, <3>1
    <3>4. z[i] = t * b + m * q[i] + o
      BY <1>1, <3>1
    <3>. QED BY <3>2, <3>3, <3>4 DEF b
  <2>2. z = [i \in 1..n |-> z[i]] /\ n \in Nat
    BY <1>1
  <2>3. \A i \in 1..n : z[i] \in Int
    BY <2>1
  <2> HIDE DEF z
  <2>4. z \in Seq(Int) /\ Len(z) = n
    BY <2>2, <2>3
  <2>5. m \in Int /\ o \in Int /\ t \in Int
    BY <1>1
  <2>6. \A i \in 1..n : z[i] = t * s[i] + m * q[i] + o
    BY <2>1
  <2> HIDE DEF m, o
  <2>7. Mixes(z, s, q, n, t, m, o)
    BY <1>2, <2>4, <2>5, <2>6 DEF Mixes
  <2>8. Sum(z) = t * Sum(s) + m * Sum(q) + n * o
    BY <2>7, SumLinear
  <2>9. Sum(z) \in Nat
    <3>1. \A i \in 1..n : z[i] >= 0
      BY <2>1
    <3>. QED BY <2>4, <3>1, SumBounds
  <2>10. Sum(q) \in Int
    BY <1>2, SumType
  <2>. QED BY <1>1, <1>6, <2>8, <2>9, <2>10 DEF m, o
<1>8. w <= (n * t) * (n * t)
  <2> DEFINE b == Sum(q)
             k == n * n
             c == t * t
  <2>1. b \in Int /\ b <= c /\ k \in Nat /\ c \in Int
    BY <1>1, <1>7
  <2>2. n * t * t >= 0
    BY <1>1
  <2>3. w <= k * b
    BY <1>1, <1>2, <2>1, <2>2
  <2>4. (n * t) * (n * t) = k * c
    BY <1>1
  <2> HIDE DEF b, k, c
  <2>5. k * (c - b) >= 0
    BY <2>1
  <2>6. k * b <= k * c
    BY <2>1, <2>5
  <2>7. w \in Int /\ k * b \in Int /\ k * c \in Int
    BY <1>2, <2>1
  <2>8. w <= k * c
    BY <2>3, <2>6, <2>7
  <2>. QED BY <2>4, <2>8
<1>9. e \in Nat /\ e * n > t /\ n * (e * n - t) * (e * n - t) > 9 * w
  <2>1. e = Estimate(t, w, n)
    BY <1>22
  <2>2. t \in Nat /\ w \in Int /\ n \in Nat /\ n > 0
    BY <1>1, <1>2
  <2>. QED BY <1>8, <2>1, <2>2, EstimateIs
<1> DEFINE b == e * n - t
           y == [i \in 1..n |-> (9 * d[i] + b) * (9 * d[i] + b)]
           m == 100 * (b * b)
           K == {j \in 1..n : y[j] >= m}
           J == {j \in 1..n : s[j] <= e}
<1>10. b \in Int /\ b > 0 /\ n * b * b > 9 * w
  BY <1>1, <1>9
<1>11. \A i \in 1..n : y[i] \in Int /\ y[i] >= 0 /\ y[i] = 81 * v[i] + (18 * b) * d[i] + b * b
  <2> SUFFICES ASSUME NEW i \in 1..n
               PROVE y[i] \in Int /\ y[i] >= 0 /\ y[i] = 81 * v[i] + (18 * b) * d[i] + b * b
    OBVIOUS
  <2> DEFINE a == d[i]
             c == 9 * a + b
  <2>1. b \in Int /\ a \in Int /\ c \in Int /\ y[i] = c * c /\ v[i] = a * a
    BY <1>4, <1>10
  <2> HIDE DEF a, b, y
  <2>2. c * c = 81 * (a * a) + (18 * b) * a + b * b
    BY <2>1
  <2> HIDE DEF c
  <2>3. c * c \in Int /\ c * c >= 0
    BY <2>1
  <2>. QED BY <2>1, <2>2, <2>3 DEF a
<1>12. y \in Seq(Int) /\ Len(y) = n
  <2>1. y = [i \in 1..n |-> y[i]] /\ n \in Nat
    BY <1>1
  <2>2. \A i \in 1..n : y[i] \in Int
    BY <1>11
  <2> HIDE DEF y
  <2>. QED BY <2>1, <2>2
<1> HIDE DEF y, b
<1>13. Sum(y) = 81 * w + n * (b * b)
  <2> DEFINE l == 81
             h == 18 * b
             k == b * b
  <2>1. l \in Int /\ h \in Int /\ k \in Int
    BY <1>10
  <2>2. \A i \in 1..n : y[i] = l * v[i] + h * d[i] + k
    BY <1>11
  <2> HIDE DEF l, h, k
  <2>3. Mixes(y, v, d, n, l, h, k)
    BY <1>2, <1>3, <1>12, <2>1, <2>2 DEF Mixes
  <2>4. Sum(y) = l * Sum(v) + h * Sum(d) + n * k
    BY <2>3, SumLinear
  <2>5. Sum(y) = l * w + n * k
    BY <1>2, <1>3, <2>1, <2>4
  <2>. QED BY <2>5 DEF l, k
<1>14. m \in Nat /\ b * b \in Nat /\ b * b > 0
  <2> DEFINE c == b * b
  <2>1. c \in Int /\ c > 0
    BY <1>10
  <2> HIDE DEF c
  <2>. QED BY <2>1 DEF c
<1>15. m * Cardinality(K) <= Sum(y)
  <2>1. \A i \in 1..n : y[i] >= 0
    BY <1>11
  <2> HIDE DEF m
  <2>. QED BY <1>12, <1>14, <2>1, SumCounts
<1>16. \A j \in 1..n : ~(s[j] <= e) => j \in K
  <2> SUFFICES ASSUME NEW j \in 1..n, ~(s[j] <= e) PROVE y[j] >= m
    OBVIOUS
  <2> DEFINE a == d[j]
             x == s[j]
             c == 9 * a + b
  <2>1. x \in Int /\ x > e /\ a = n * x - t /\ a \in Int /\ b \in Int /\ b > 0
    BY <1>1, <1>4, <1>9, <1>10
  <2>2. a >= b
    <3>1. n \in Nat /\ e \in Nat /\ t \in Nat /\ b = e * n - t
      BY <1>1, <1>9 DEF b
    <3> HIDE DEF a, x
    <3>2. n * (x - e) >= 0
      BY <2>1, <3>1
    <3>3. n * (x - e) = a - b
      BY <2>1, <3>1
    <3>. QED BY <2>1, <3>2, <3>3
  <2>3. c * c >= (10 * b) * (10 * b)
    <3>1. c \in Int /\ c >= 10 * b
      BY <2>1, <2>2
    <3> HIDE DEF c
    <3>. QED BY <2>1, <3>1
  <2>4. (10 * b) * (10 * b) = 100 * (b * b)
    BY <2>1
  <2>5. y[j] = c * c
    <3>1. y[j] = (9 * d[j] + b) * (9 * d[j] + b)
      BY DEF y
    <3>. QED BY <3>1
  <2>. QED BY <2>3, <2>4, <2>5
<1>17. /\ IsFiniteSet(J) /\ IsFiniteSet(K)
       /\ Cardinality(J) \in Nat /\ Cardinality(K) \in Nat
       /\ Cardinality(J) + Cardinality(K) >= n
  <2>1. J \in SUBSET (1..n) /\ K \in SUBSET (1..n) /\ J \cup K = 1..n
    BY <1>16
  <2>2. IsFiniteSet(1..n) /\ Cardinality(1..n) = n
    BY <1>1, FS_Interval
  <2> HIDE DEF J, K
  <2>3. IsFiniteSet(J) /\ IsFiniteSet(K)
    BY <2>1, <2>2, FS_Subset
  <2>4. /\ IsFiniteSet(J \cap K) /\ Cardinality(J \cap K) \in Nat
        /\ Cardinality(J) \in Nat /\ Cardinality(K) \in Nat
    BY <2>3, FS_Subset, FS_CardinalityType
  <2>5. Cardinality(J \cup K) = Cardinality(J) + Cardinality(K) - Cardinality(J \cap K)
    BY <2>3, FS_Union
  <2>6. Cardinality(J \cup K) = n
    BY <2>1, <2>2
  <2>7. Cardinality(J) + Cardinality(K) >= n
    BY <1>1, <2>4, <2>5, <2>6
  <2>. QED BY <2>3, <2>4, <2>7
<1>18. 10 * Cardinality(K) < n
  <2> DEFINE c == b * b
             k == Cardinality(K)
             l == n * b * b
  <2>1. c \in Nat /\ c > 0 /\ k \in Nat /\ w \in Int
    BY <1>2, <1>14, <1>17
  <2>2. l = n * c
    BY <1>1, <1>10
  <2>3. (100 * c) * k <= 81 * w + n * c
    BY <1>13, <1>15
  <2>4. l > 9 * w /\ l \in Int
    BY <1>1, <1>10
  <2> HIDE DEF c, k, l
  <2>5. (100 * c) * k < 10 * (n * c)
    <3> DEFINE g == (100 * c) * k
               h == n * c
    <3>1. g \in Int /\ h \in Int /\ g <= 81 * w + h /\ h > 9 * w
      BY <1>1, <2>1, <2>2, <2>3, <2>4
    <3> HIDE DEF g, h
    <3>2. g < 10 * h
      BY <2>1, <3>1
    <3>. QED BY <3>2 DEF g, h
  <2>6. c * (10 * (n - 10 * k)) > 0
    BY <1>1, <2>1, <2>5
  <2>7. 10 * k \in Int /\ n \in Int /\ n - 10 * k \in Int
    BY <1>1, <2>1
  <2>8. ASSUME n - 10 * k <= 0 PROVE FALSE
    <3> DEFINE g == 10 * (10 * k - n)
    <3>1. g \in Int /\ g >= 0
      BY <2>7, <2>8
    <3> HIDE DEF g
    <3>2. c * g >= 0
      BY <2>1, <3>1
    <3>3. c * (10 * (n - 10 * k)) = -(c * g)
      BY <2>1, <2>7 DEF g
    <3>4. c * g \in Int
      BY <2>1, <3>1
    <3> DEFINE l2 == c * g
               h == c * (10 * (n - 10 * k))
    <3>5. l2 \in Int /\ l2 >= 0 /\ h > 0 /\ h = -l2
      BY <2>6, <3>2, <3>3, <3>4
    <3> HIDE DEF l2, h
    <3>. QED BY <3>5
  <2>9. 10 * k < n
    <3>1. ~(n - 10 * k <= 0)
      BY <2>8
    <3> DEFINE g == 10 * k
    <3>2. g \in Int /\ n \in Int /\ ~(n - g <= 0)
      BY <2>7, <3>1
    <3> HIDE DEF g
    <3>3. g < n
      BY <3>2
    <3>. QED BY <3>3 DEF g
  <2>. QED BY <2>9 DEF k
<1>19. 10 * Cardinality(J) > 9 * n
  <2> HIDE DEF J, K
  <2>. QED BY <1>1, <1>17, <1>18
<1>. QED BY <1>9, <1>19
-----------------------------------------------------------------------------
(* Lists of values *)

\* c is what s has at the places J, taken in the order p.
Arranges(c, m, p, s, J) ==
  /\ p \in Bijection(1..m, J)
  /\ \A j \in 1..m : c[j] = s[p[j]]

Rising(p, m) == \A j, k \in 1..m : j < k => p[j] < p[k]

\* The places that were chosen come in their order.
Takes(c, p, s, J) ==
  /\ p \in [1..Len(c) -> J]
  /\ \A i \in J : \E j \in 1..Len(c) : p[j] = i
  /\ Rising(p, Len(c))
  /\ \A j \in 1..Len(c) : c[j] = s[p[j]]

Picked(f, s, I, m) ==
  f = [i \in 0..m |-> IF i = 0 THEN <<>>
                      ELSE IF i \in I THEN Append(f[i - 1], s[i]) ELSE f[i - 1]]

LEMMA ChoicesExist == \A s, I : \A m \in Nat : \E f : Picked(f, s, I, m)
<1> SUFFICES ASSUME NEW s, NEW I, NEW m \in Nat PROVE \E f : Picked(f, s, I, m)
  OBVIOUS
<1> DEFINE P == {i \in Nat : \E f : Picked(f, s, I, i)}
           G(f, i) == IF i \in I THEN Append(f[i - 1], s[i]) ELSE f[i - 1]
<1>1. 0 \in P
  <2> DEFINE f == [i \in 0..0 |-> <<>>]
  <2>1. \A i \in 0..0 : i = 0
    OBVIOUS
  <2>2. f = [i \in 0..0 |-> IF i = 0 THEN <<>> ELSE G(f, i)]
    BY <2>1
  <2>3. Picked(f, s, I, 0)
    BY <2>2 DEF Picked
  <2>. QED BY <2>3
<1>2. ASSUME NEW i \in 0..m, i \in P PROVE i + 1 \in P
  <2>1. PICK f : Picked(f, s, I, i)
    BY <1>2
  <2> DEFINE e == IF i + 1 \in I THEN Append(f[i], s[i + 1]) ELSE f[i]
             g == [k \in 0..(i + 1) |-> IF k = i + 1 THEN e ELSE f[k]]
  <2>2. \A k \in 0..i : f[k] = IF k = 0 THEN <<>> ELSE G(f, k)
    BY <2>1 DEF Picked
  <2>3. g[i + 1] = e /\ \A k \in 0..i : g[k] = f[k]
    OBVIOUS
  <2>4. ASSUME NEW k \in 0..(i + 1) PROVE g[k] = IF k = 0 THEN <<>> ELSE G(g, k)
    <3>1. CASE k = i + 1
      <4>1. k # 0 /\ k - 1 = i /\ i \in 0..i
        BY <3>1
      <4> HIDE DEF g
      <4>2. G(g, k) = e
        BY <2>3, <3>1, <4>1
      <4>. QED BY <2>3, <3>1, <4>1, <4>2
    <3>2. CASE k # i + 1
      <4>1. k \in 0..i /\ (k # 0 => k - 1 \in 0..i)
        BY <3>2
      <4> HIDE DEF g
      <4>2. k # 0 => G(g, k) = G(f, k)
        BY <2>3, <4>1
      <4> HIDE DEF G
      <4>. QED BY <2>2, <2>3, <4>1, <4>2
    <3>. QED BY <3>1, <3>2
  <2>5. g = [k \in 0..(i + 1) |-> g[k]]
    OBVIOUS
  <2> HIDE DEF g
  <2>6. g = [k \in 0..(i + 1) |-> IF k = 0 THEN <<>> ELSE G(g, k)]
    <3> HIDE DEF G
    <3>. QED BY <2>4, <2>5
  <2>7. Picked(g, s, I, i + 1)
    BY <2>6 DEF Picked
  <2>. QED BY <2>7
<1> HIDE DEF P
<1>3. \A i \in 0..m : i \in P
  BY <1>1, <1>2, UpTo
<1>4. m \in P
  BY <1>3
<1>. QED BY <1>4 DEF P

\* One more place is chosen.
LEMMA TakesOneMore ==
  ASSUME NEW V, NEW c \in Seq(V), NEW p, NEW s, NEW i \in Nat, NEW I,
         Takes(c, p, s, I \cap (1..i)), i + 1 \in I, s[i + 1] \in V
  PROVE  \E q : Takes(Append(c, s[i + 1]), q, s, I \cap (1..(i + 1)))
<1> DEFINE m == Len(c)
           d == Append(c, s[i + 1])
           J == I \cap (1..i)
           K == I \cap (1..(i + 1))
           q == [j \in 1..(m + 1) |-> IF j = m + 1 THEN i + 1 ELSE p[j]]
<1>1. m \in Nat /\ Len(d) = m + 1 /\ d[m + 1] = s[i + 1] /\ \A j \in 1..m : d[j] = c[j]
  OBVIOUS
<1>2. K = J \cup {i + 1} /\ J \subseteq 1..i
  OBVIOUS
<1>3. /\ p \in [1..m -> J] /\ (\A k \in J : \E j \in 1..m : p[j] = k)
      /\ (\A j, k \in 1..m : j < k => p[j] < p[k]) /\ \A j \in 1..m : c[j] = s[p[j]]
  BY DEF Takes, Rising
<1>4. /\ q = [j \in 1..(m + 1) |-> q[j]] /\ q[m + 1] = i + 1 /\ \A j \in 1..m : q[j] = p[j]
  BY <1>1
<1>5. \A j \in 1..(m + 1) : j \in 1..m \/ j = m + 1
  BY <1>1
<1> HIDE DEF m, d, J, K, q
<1>6. m + 1 \in 1..(m + 1) /\ \A j \in 1..m : j \in 1..(m + 1) /\ j < m + 1 /\ ~(m + 1 < j)
  BY <1>1
<1>7. q \in [1..(m + 1) -> K]
  BY <1>2, <1>3, <1>4, <1>5
<1>8. \A k \in K : \E j \in 1..(m + 1) : q[j] = k
  BY <1>2, <1>3, <1>4, <1>6
<1>9. ASSUME NEW j \in 1..(m + 1), NEW k \in 1..(m + 1), j < k PROVE q[j] < q[k]
  <2>1. j \in 1..m /\ q[j] = p[j]
    <3>1. j # m + 1
      BY <1>1, <1>9
    <3>. QED BY <1>4, <1>5, <3>1
  <2>2. CASE k = m + 1
    <3>1. p[j] \in 1..i
      BY <1>2, <1>3, <2>1
    <3>. QED BY <1>4, <2>1, <2>2, <3>1
  <2>3. CASE k \in 1..m
    BY <1>3, <1>4, <1>9, <2>1, <2>3
  <2>. QED BY <1>5, <2>2, <2>3
<1>10. \A j \in 1..(m + 1) : d[j] = s[q[j]]
  BY <1>1, <1>3, <1>4, <1>5
<1>11. Takes(d, q, s, K)
  BY <1>1, <1>7, <1>8, <1>9, <1>10 DEF Takes, Rising
<1>. QED BY <1>11 DEF d, K

LEMMA ChosenTakes ==
  ASSUME NEW U, NEW s \in Seq(U), NEW V, NEW I, I \subseteq DOMAIN s,
         \A i \in I : s[i] \in V, NEW c, c = Chosen(s, I)
  PROVE  c \in Seq(V) /\ \E p : Takes(c, p, s, I)
<1> DEFINE m == Len(s)
           f == CHOOSE f : Picked(f, s, I, m)
           P == {i \in Nat : f[i] \in Seq(V) /\ \E p : Takes(f[i], p, s, I \cap (1..i))}
<1>1. m \in Nat /\ DOMAIN s = 1..m
  OBVIOUS
<1>2. \A i \in I : i \in 1..m
  BY <1>1
<1>3. Picked(f, s, I, m)
  <2> HIDE DEF m
  <2>. QED BY <1>1, ChoicesExist
<1>4. c = f[m]
  BY DEF Chosen, Picked
<1> HIDE DEF f, m
<1>5. 0 \in P
  <2>1. f[0] = <<>> /\ 0 \in Nat
    BY <1>1, <1>3 DEF Picked
  <2> DEFINE J == I \cap (1..0)
  <2>2. J = {} /\ 1..Len(<<>>) = {}
    OBVIOUS
  <2>3. <<>> \in [{} -> {}]
    OBVIOUS
  <2> HIDE DEF J
  <2>4. Takes(<<>>, <<>>, s, J)
    BY <2>2, <2>3 DEF Takes, Rising
  <2>5. f[0] \in Seq(V) /\ Takes(f[0], <<>>, s, I \cap (1..0))
    BY <2>1, <2>4 DEF J
  <2>. QED BY <2>1, <2>5
<1>6. ASSUME NEW i \in 0..m, i \in P, i < m PROVE i + 1 \in P
  <2>1. i + 1 \in 0..m /\ i + 1 # 0 /\ (i + 1) - 1 = i /\ i \in Nat /\ i + 1 \in Nat
    BY <1>1, <1>6
  <2>2. f[i + 1] = IF i + 1 \in I THEN Append(f[i], s[i + 1]) ELSE f[i]
    BY <1>3, <2>1 DEF Picked
  <2>3. f[i] \in Seq(V)
    BY <1>6
  <2>4. PICK p : Takes(f[i], p, s, I \cap (1..i))
    BY <1>6
  <2>5. CASE i + 1 \in I
    <3>1. f[i + 1] = Append(f[i], s[i + 1]) /\ s[i + 1] \in V
      BY <2>2, <2>5
    <3>2. \E q : Takes(Append(f[i], s[i + 1]), q, s, I \cap (1..(i + 1)))
      BY <2>1, <2>3, <2>4, <2>5, <3>1, TakesOneMore
    <3>3. f[i + 1] \in Seq(V)
      BY <2>3, <3>1
    <3>. QED BY <2>1, <3>1, <3>2, <3>3
  <2>6. CASE i + 1 \notin I
    <3>1. I \cap (1..(i + 1)) = I \cap (1..i)
      BY <2>1, <2>6
    <3>. QED BY <2>1, <2>2, <2>3, <2>4, <2>6, <3>1
  <2>. QED BY <2>5, <2>6
<1> HIDE DEF P
<1>7. \A i \in 0..m : i \in P
  BY <1>1, <1>5, <1>6, UpTo
<1>8. m \in P
  BY <1>1, <1>7
<1>9. I \cap (1..m) = I
  BY <1>1
<1>. QED BY <1>4, <1>8, <1>9 DEF P
-----------------------------------------------------------------------------
(* The values are sorted *)

\* Sorting rearranges the values, so that none is greater than the next.
LEMMA AscendingArranges ==
  ASSUME NEW s \in Seq(Int), NEW n, Len(s) = n, NEW a, a = Ascending(s)
  PROVE  /\ a \in Seq(Int) /\ Len(a) = n
         /\ \A j, k \in 1..n : j <= k => a[j] <= a[k]
         /\ \E p : Arranges(a, n, p, s, 1..n)
<1> DEFINE Below == [i \in 1..n |-> {j \in 1..n : s[j] < s[i] \/ (s[j] = s[i] /\ j <= i)}]
           rk == [i \in 1..n |-> Cardinality(Below[i])]
           p == [k \in 1..n |-> CHOOSE i \in 1..n : rk[i] = k]
<1>1. n \in Nat /\ DOMAIN s = 1..n /\ \A i \in 1..n : s[i] \in Int /\ i \in Int
  OBVIOUS
<1>2. IsFiniteSet(1..n) /\ Cardinality(1..n) = n
  BY <1>1, FS_Interval
<1>3. \A i, j \in 1..n : j \in Below[i] <=> s[j] < s[i] \/ (s[j] = s[i] /\ j <= i)
  OBVIOUS
<1>4. \A i \in 1..n : Below[i] \subseteq 1..n
  OBVIOUS
<1>5. a = [k \in 1..n |-> s[p[k]]]
  <2> DEFINE place == [i \in 1..n |->
                         Cardinality({j \in 1..n : s[j] < s[i] \/ (s[j] = s[i] /\ j <= i)})]
  <2>1. a = [k \in 1..n |-> s[CHOOSE i \in 1..n : place[i] = k]]
    BY <1>1 DEF Ascending
  <2>2. place = rk
    OBVIOUS
  <2> HIDE DEF place, rk
  <2>. QED BY <2>1, <2>2
<1>6. rk = [i \in 1..n |-> Cardinality(Below[i])] /\ p = [k \in 1..n |-> CHOOSE i \in 1..n : rk[i] = k]
  OBVIOUS
<1> HIDE DEF Below, rk, p
<1>7. Ordered(1..n, Below)
  <2>1. \A x \in 1..n : Below[x] \subseteq 1..n /\ x \in Below[x]
    BY <1>1, <1>3, <1>4
  <2>2. \A x, y \in 1..n : x \in Below[y] \/ y \in Below[x]
    BY <1>1, <1>3
  <2>3. \A x, y \in 1..n : x \in Below[y] /\ y \in Below[x] => x = y
    BY <1>1, <1>3
  <2>4. ASSUME NEW x \in 1..n, NEW y \in 1..n, x \in Below[y], NEW z \in Below[x]
        PROVE  z \in Below[y]
    <3>1. z \in 1..n
      BY <1>4
    <3>2. s[x] < s[y] \/ (s[x] = s[y] /\ x <= y)
      BY <1>3, <2>4
    <3>3. s[z] < s[x] \/ (s[z] = s[x] /\ z <= x)
      BY <1>3, <3>1
    <3>4. s[z] < s[y] \/ (s[z] = s[y] /\ z <= y)
      BY <1>1, <3>1, <3>2, <3>3
    <3>. QED BY <1>3, <3>1, <3>4
  <2>5. \A x, y \in 1..n : x \in Below[y] => Below[x] \subseteq Below[y]
    BY <2>4
  <2>. QED BY <2>1, <2>2, <2>3, <2>5 DEF Ordered
<1>8. /\ rk \in Bijection(1..n, 1..n)
      /\ \A x, y \in 1..n : rk[x] <= rk[y] => x \in Below[y]
  BY <1>2, <1>6, <1>7, Ranks
<1>9. /\ rk \in [1..n -> 1..n]
      /\ \A x, y \in 1..n : rk[x] = rk[y] => x = y
      /\ \A k \in 1..n : \E x \in 1..n : rk[x] = k
  BY <1>8 DEF Bijection, Injection, Surjection, IsInjective
<1>10. p \in [1..n -> 1..n] /\ \A k \in 1..n : rk[p[k]] = k
  <2>1. \A k \in 1..n : p[k] \in 1..n /\ rk[p[k]] = k
    BY <1>6, <1>9
  <2>. QED BY <1>6, <2>1
<1>11. p \in Bijection(1..n, 1..n)
  <2>1. \A j, k \in 1..n : p[j] = p[k] => j = k
    BY <1>10
  <2>2. \A i \in 1..n : rk[i] \in 1..n /\ p[rk[i]] = i
    <3> SUFFICES ASSUME NEW i \in 1..n PROVE rk[i] \in 1..n /\ p[rk[i]] = i
      OBVIOUS
    <3> DEFINE k == rk[i]
    <3>1. k \in 1..n
      BY <1>9
    <3> HIDE DEF k
    <3>2. p[k] \in 1..n /\ rk[p[k]] = k
      BY <1>10, <3>1
    <3>3. rk[i] = k
      BY DEF k
    <3>. QED BY <1>9, <3>1, <3>2, <3>3
  <2>3. IsInjective(p)
    BY <1>10, <2>1 DEF IsInjective
  <2>. QED BY <1>10, <2>2, <2>3 DEF Bijection, Injection, Surjection
<1>12. \A k \in 1..n : a[k] = s[p[k]] /\ p[k] \in 1..n /\ a[k] \in Int
  BY <1>1, <1>5, <1>10
<1>13. a \in Seq(Int) /\ Len(a) = n
  BY <1>1, <1>5, <1>12
<1>14. ASSUME NEW j \in 1..n, NEW k \in 1..n, j <= k PROVE a[j] <= a[k]
  <2>1. p[j] \in Below[p[k]]
    BY <1>8, <1>10, <1>12, <1>14
  <2> DEFINE u == p[j]
             v == p[k]
  <2>2. u \in 1..n /\ v \in 1..n
    BY <1>12
  <2> HIDE DEF u, v
  <2>3. s[u] < s[v] \/ s[u] = s[v]
    BY <1>3, <2>1, <2>2 DEF u, v
  <2>4. s[u] <= s[v]
    BY <1>1, <2>2, <2>3
  <2>. QED BY <1>12, <2>4 DEF u, v
<1>15. Arranges(a, n, p, s, 1..n)
  BY <1>11, <1>12 DEF Arranges
<1>. QED BY <1>13, <1>14, <1>15
-----------------------------------------------------------------------------
(* The sample of a column *)

Heard == {i \in DOMAIN recv : recv[i] # Lost}

Received == recv \in Seq(Replies \cup {Lost})

Sample(k) == PreRtts(Ascending(Column(Answered(recv), k)))

\* s has the values in column k of the packets J, in some order.
Lists(s, J, k) ==
  \E p \in Bijection(1..Len(s), J) : \A j \in 1..Len(s) : s[j] = recv[p[j]][k]

\* s has the measured values of column k, the smaller ones first.
Ranking(s, k) ==
  /\ s \in Seq(Int) /\ Len(s) = Count(k)
  /\ \A i, j \in 1..Len(s) : i <= j => s[i] <= s[j]
  /\ \A j \in 1..Len(s) : s[j] > 0
  /\ Lists(s, Measured(k), k)

LEMMA AnsweredIs ==
  ASSUME Received, NEW k \in {1, 2}, NEW c, c = Column(Answered(recv), k)
  PROVE  /\ c \in Seq(Int) /\ Len(c) = Len(Answered(recv))
         /\ Lists(c, Heard, k)
<1> DEFINE A == Heard
           a == Answered(recv)
           m == Len(a)
<1>1. recv \in Seq(Replies \cup {Lost}) /\ A \subseteq DOMAIN recv
  BY DEF Received, Heard
<1>2. \A i \in A : recv[i] \in Replies
  BY <1>1 DEF Heard
<1>3. a = Chosen(recv, A)
  BY DEF Answered, Heard
<1>4. a \in Seq(Replies) /\ \E p : Takes(a, p, recv, A)
  BY <1>1, <1>2, <1>3, ChosenTakes
<1> HIDE DEF a, A
<1>5. PICK p : Takes(a, p, recv, A)
  BY <1>4
<1>6. m \in Nat /\ DOMAIN a = 1..m /\ \A j \in 1..m : a[j] \in Replies
  BY <1>4
<1>7. c = [j \in 1..m |-> a[j][k]]
  BY <1>6 DEF Column, a
<1>8. \A x \in Replies : x[1] \in Nat /\ x[2] \in Int
  BY RepliesAssumption
<1>9. \A j \in 1..m : a[j][k] \in Int
  <2>1. k = 1 \/ k = 2
    OBVIOUS
  <2>. QED BY <1>6, <1>8, <2>1
<1>10. c \in Seq(Int) /\ Len(c) = m
  BY <1>6, <1>7, <1>9
<1> HIDE DEF m
<1>11. /\ p \in [1..m -> A] /\ (\A i \in A : \E j \in 1..m : p[j] = i)
       /\ (\A i, j \in 1..m : i < j => p[i] < p[j])
       /\ \A j \in 1..m : a[j] = recv[p[j]]
  BY <1>5 DEF Takes, Rising, m
<1>12. \A i, j \in 1..m : p[i] = p[j] => i = j
  <2>1. A \subseteq Int
    BY <1>1 DEF Received
  <2> SUFFICES ASSUME NEW i \in 1..m, NEW j \in 1..m, p[i] = p[j] PROVE i = j
    OBVIOUS
  <2>2. p[i] \in Int /\ p[j] \in Int
    BY <1>11, <2>1
  <2>3. ~(i < j) /\ ~(j < i)
    BY <1>11, <2>2
  <2>. QED BY <1>6, <2>3 DEF m
<1>13. p \in Bijection(1..m, A)
  <2>1. IsInjective(p)
    BY <1>11, <1>12 DEF IsInjective
  <2>. QED BY <1>11, <2>1 DEF Bijection, Injection, Surjection
<1>14. \A j \in 1..m : c[j] = recv[p[j]][k]
  BY <1>7, <1>11
<1>. QED BY <1>10, <1>13, <1>14 DEF m, a, A, Lists

LEMMA SampleIs ==
  ASSUME Received, NEW k \in {1, 2}, NEW s, s = Sample(k)
  PROVE  /\ s \in Seq(Int) /\ s # <<>>
         /\ ((Count(k) = 0 /\ s = <<-1>>) \/ (Count(k) > 0 /\ Ranking(s, k)))
<1> DEFINE A == Heard
           c == Column(Answered(recv), k)
           n == Len(c)
           a == Ascending(c)
           I == {i \in DOMAIN a : a[i] > 0}
           d == Chosen(a, I)
           m == Len(d)
           M == Measured(k)
<1>1. c \in Seq(Int) /\ \E p \in Bijection(1..n, A) : \A j \in 1..n : c[j] = recv[p[j]][k]
  <2> HIDE DEF c, A
  <2>1. c = Column(Answered(recv), k)
    BY DEF c
  <2>2. c \in Seq(Int) /\ Lists(c, Heard, k)
    BY <2>1, AnsweredIs
  <2>. QED BY <2>2 DEF A, Lists
<1>2. s = IF d = <<>> THEN <<-1>> ELSE d
  BY DEF Sample, PreRtts
<1>3. M = {i \in A : recv[i][k] > 0}
  BY DEF Measured, Heard
<1> HIDE DEF A, c
<1>4. /\ a \in Seq(Int) /\ Len(a) = n
      /\ \A i, j \in 1..n : i <= j => a[i] <= a[j]
      /\ \E p : Arranges(a, n, p, c, 1..n)
  BY <1>1, AscendingArranges
<1> HIDE DEF a
<1>5. n \in Nat /\ DOMAIN a = 1..n /\ (\A i \in 1..n : a[i] \in Int)
  BY <1>1, <1>4
<1>6. I \subseteq DOMAIN a /\ I \subseteq 1..n /\ \A i \in 1..n : i \in I <=> a[i] > 0
  BY <1>5
<1>7. d \in Seq(Int) /\ \E p : Takes(d, p, a, I)
  <2>1. \A i \in I : a[i] \in Int
    BY <1>5
  <2> HIDE DEF I
  <2>. QED BY <1>4, <1>6, <2>1, ChosenTakes
<1> HIDE DEF I, d
<1>8. m \in Nat /\ DOMAIN d = 1..m
  BY <1>7
<1>9. PICK p0 \in Bijection(1..n, A) : \A j \in 1..n : c[j] = recv[p0[j]][k]
  BY <1>1
<1>10. /\ p0 \in [1..n -> A] /\ (\A i, j \in 1..n : p0[i] = p0[j] => i = j)
       /\ \A x \in A : \E j \in 1..n : p0[j] = x
  BY <1>9 DEF Bijection, Injection, Surjection, IsInjective
<1>11. PICK p1 : Arranges(a, n, p1, c, 1..n)
  BY <1>4
<1>12. /\ p1 \in [1..n -> 1..n] /\ (\A i, j \in 1..n : p1[i] = p1[j] => i = j)
       /\ (\A x \in 1..n : \E j \in 1..n : p1[j] = x)
       /\ \A j \in 1..n : a[j] = c[p1[j]]
  BY <1>11 DEF Arranges, Bijection, Injection, Surjection, IsInjective
<1>13. PICK p2 : Takes(d, p2, a, I)
  BY <1>7
<1>14. /\ p2 \in [1..m -> I] /\ (\A x \in I : \E j \in 1..m : p2[j] = x)
       /\ (\A i, j \in 1..m : i < j => p2[i] < p2[j])
       /\ \A j \in 1..m : d[j] = a[p2[j]]
  BY <1>13 DEF Takes, Rising
<1> HIDE DEF n, m
<1>15. \A j \in 1..n : a[j] = recv[p0[p1[j]]][k]
  BY <1>9, <1>12
<1>16. ASSUME NEW i \in 1..m, NEW j \in 1..m PROVE (i <= j => d[i] <= d[j]) /\ (i < j => p2[i] # p2[j])
  <2>1. p2[i] \in 1..n /\ p2[j] \in 1..n
    BY <1>6, <1>14
  <2>2. i < j => p2[i] < p2[j]
    BY <1>14
  <2>3. i <= j => i < j \/ i = j
    BY <1>8
  <2>4. i <= j => p2[i] <= p2[j]
    BY <2>1, <2>2, <2>3
  <2>. QED BY <1>4, <1>14, <2>1, <2>2, <2>4
<1> DEFINE p == [j \in 1..m |-> p0[p1[p2[j]]]]
<1>17. \A j \in 1..m : /\ p2[j] \in 1..n /\ p1[p2[j]] \in 1..n /\ p[j] = p0[p1[p2[j]]] /\ p[j] \in A
                       /\ d[j] = recv[p[j]][k] /\ d[j] > 0
  BY <1>6, <1>10, <1>12, <1>14, <1>15
<1>18. p \in [1..m -> M]
  <2>1. \A j \in 1..m : p[j] \in M
    BY <1>3, <1>17
  <2>. QED BY <2>1
<1>19. ASSUME NEW x \in M PROVE \E j \in 1..m : p[j] = x
  <2>1. x \in A /\ recv[x][k] > 0
    BY <1>3
  <2>2. PICK u \in 1..n : p0[u] = x
    BY <1>10, <2>1
  <2>3. PICK v \in 1..n : p1[v] = u
    BY <1>12
  <2>4. v \in I
    BY <1>6, <1>15, <2>1, <2>2, <2>3
  <2>5. PICK j \in 1..m : p2[j] = v
    BY <1>14, <2>4
  <2>6. p[j] = x
    BY <2>2, <2>3, <2>5
  <2>. QED BY <2>6
<1>20. p \in Bijection(1..m, M)
  <2>1. ASSUME NEW i \in 1..m, NEW j \in 1..m, p[i] = p[j] PROVE i = j
    <3>1. p2[i] = p2[j]
      <4> HIDE DEF p
      <4>1. p1[p2[i]] = p1[p2[j]]
        BY <1>10, <1>17, <2>1
      <4>. QED BY <1>12, <1>17, <4>1
    <3>2. ~(i < j) /\ ~(j < i)
      BY <1>16, <3>1
    <3>. QED BY <1>8, <3>2
  <2>2. DOMAIN p = 1..m
    OBVIOUS
  <2> HIDE DEF p, M
  <2>3. IsInjective(p)
    BY <2>1, <2>2 DEF IsInjective
  <2>. QED BY <1>18, <1>19, <2>3 DEF Bijection, Injection, Surjection
<1> HIDE DEF p, M
<1>21. Count(k) = m /\ IsFiniteSet(M)
  <2>1. IsFiniteSet(1..m) /\ Cardinality(1..m) = m
    BY <1>8, FS_Interval
  <2>2. Cardinality(M) = m /\ IsFiniteSet(M)
    BY <1>20, <2>1, FS_Bijection DEF ExistsBijection
  <2>. QED BY <2>2 DEF Count, M
<1>22. CASE d = <<>>
  <2>1. m = 0
    BY <1>22 DEF m
  <2>2. s = <<-1>>
    BY <1>2, <1>22
  <2>3. s \in Seq(Int) /\ s # <<>>
    BY <2>2
  <2>. QED BY <1>21, <2>1, <2>2, <2>3
<1>23. CASE d # <<>>
  <2>1. s = d /\ Len(s) = m
    BY <1>2, <1>23 DEF m
  <2>2. \A i, j \in 1..m : i <= j => s[i] <= s[j]
    BY <1>16, <2>1
  <2>3. \A j \in 1..m : s[j] > 0 /\ s[j] = recv[p[j]][k]
    BY <1>17, <2>1
  <2>4. Ranking(s, k)
    BY <1>7, <1>20, <1>21, <2>1, <2>2, <2>3 DEF Ranking, Lists, M
  <2>5. m \in Nat /\ m > 0
    BY <1>7, <1>23 DEF m
  <2>. QED BY <1>7, <1>21, <1>23, <2>1, <2>4, <2>5
<1>. QED BY <1>22, <1>23

\* Nothing is measured if nothing was answered.
LEMMA NoneMeasured ==
  ASSUME Received, NEW k \in {1, 2}, Answered(recv) = <<>>
  PROVE  Count(k) = 0
<1> DEFINE c == Column(Answered(recv), k)
<1>1. Len(c) = 0 /\ Lists(c, Heard, k)
  BY AnsweredIs
<1>2. Heard = {}
  <2>1. PICK p \in Bijection(1..Len(c), Heard) : TRUE
    BY <1>1 DEF Lists
  <2>2. \A i \in Heard : \E j \in 1..0 : p[j] = i
    BY <1>1, <2>1 DEF Bijection, Surjection
  <2>. QED BY <2>2
<1>3. Measured(k) = {}
  BY <1>2 DEF Measured, Heard
<1>. QED BY <1>3, FS_EmptySet DEF Count

\* As many packets have a value up to v as there are of the list.
LEMMA AtMostIs ==
  ASSUME NEW k, NEW s, Ranking(s, k), NEW v \in Int
  PROVE  AtMost(k, v) = Cardinality({j \in 1..Len(s) : s[j] <= v})
<1> DEFINE n == Len(s)
           M == Measured(k)
           J == {j \in 1..n : s[j] <= v}
           K == {i \in M : recv[i][k] <= v}
<1>1. PICK p \in Bijection(1..n, M) : \A j \in 1..n : s[j] = recv[p[j]][k]
  BY DEF Ranking, Lists
<1>2. /\ p \in [1..n -> M] /\ (\A i, j \in 1..n : p[i] = p[j] => i = j)
      /\ \A x \in M : \E j \in 1..n : p[j] = x
  BY <1>1 DEF Bijection, Injection, Surjection, IsInjective
<1>3. n \in Nat /\ \A i \in 1..n : s[i] \in Int
  BY DEF Ranking
<1> HIDE DEF n, M
<1> DEFINE q == [j \in J |-> p[j]]
<1>4. q \in Bijection(J, K)
  <2>1. q \in [J -> K]
    BY <1>1, <1>2
  <2>2. \A x \in K : \E j \in J : q[j] = x
    <3> SUFFICES ASSUME NEW x \in K PROVE \E j \in J : q[j] = x
      OBVIOUS
    <3>1. PICK j \in 1..n : p[j] = x
      BY <1>2
    <3>2. j \in J
      BY <1>1, <3>1
    <3>. QED BY <3>1, <3>2
  <2>3. \A i, j \in J : q[i] = q[j] => i = j
    BY <1>2
  <2>4. DOMAIN q = J
    OBVIOUS
  <2> HIDE DEF q, J, K
  <2>5. IsInjective(q)
    BY <2>3, <2>4 DEF IsInjective
  <2>. QED BY <2>1, <2>2, <2>5 DEF Bijection, Injection, Surjection
<1>5. J \in SUBSET (1..n) /\ IsFiniteSet(1..n)
  BY <1>3, FS_Interval
<1> HIDE DEF J, K, q
<1>7. IsFiniteSet(J) /\ Cardinality(J) \in Nat
  BY <1>5, FS_Subset, FS_CardinalityType
<1>8. Cardinality(K) = Cardinality(J)
  BY <1>4, <1>7, FS_Bijection DEF ExistsBijection
<1>. QED BY <1>8 DEF AtMost, K, M, J, n

LEMMA CountAtMost ==
  ASSUME NEW k, NEW s, Ranking(s, k), NEW r \in 1..Len(s), NEW v \in Int
  PROVE  AtMost(k, v) >= r <=> s[r] <= v
<1> DEFINE n == Len(s)
           J == {j \in 1..n : s[j] <= v}
<1>3. /\ n \in Nat /\ (\A i \in 1..n : s[i] \in Int) /\ r \in 1..n
      /\ \A i, j \in 1..n : i <= j => s[i] <= s[j]
  BY DEF Ranking
<1>8. AtMost(k, v) = Cardinality(J)
  BY AtMostIs
<1> HIDE DEF n
<1>5. J \in SUBSET (1..n) /\ IsFiniteSet(1..n)
  BY <1>3, FS_Interval
<1>6. \A j \in 1..n : j \in J <=> s[j] <= v
  OBVIOUS
<1> HIDE DEF J
<1>7. IsFiniteSet(J) /\ Cardinality(J) \in Nat
  BY <1>5, FS_Subset, FS_CardinalityType
<1>9. ASSUME s[r] <= v PROVE Cardinality(J) >= r
  <2> DEFINE I == 1..r
  <2>1. \A j \in I : j \in 1..n /\ j <= r
    BY <1>3
  <2>2. \A j \in I : s[j] <= v
    BY <1>3, <1>9, <2>1
  <2>3. I \in SUBSET J
    BY <1>6, <2>1, <2>2
  <2>4. Cardinality(I) = r
    BY <1>3, FS_Interval
  <2> HIDE DEF I
  <2>5. Cardinality(I) <= Cardinality(J)
    BY <1>7, <2>3, FS_Subset
  <2>. QED BY <1>3, <1>7, <2>4, <2>5
<1>10. ASSUME ~(s[r] <= v) PROVE ~(Cardinality(J) >= r)
  <2> DEFINE l == r - 1
             I == 1..l
  <2>1. l \in Nat /\ l + 1 = r
    BY <1>3
  <2>2. \A j \in J : j \in 1..n /\ s[j] <= v
    BY <1>5, <1>6
  <2>3. \A j \in J : j \in I
    <3> SUFFICES ASSUME NEW j \in J, ~(j \in 1..l) PROVE FALSE
      OBVIOUS
    <3>1. j \in 1..n /\ r <= j /\ s[j] <= v
      BY <1>3, <2>1, <2>2
    <3>2. s[r] <= s[j]
      BY <1>3, <3>1
    <3>. QED BY <1>3, <1>10, <3>1, <3>2
  <2>4. IsFiniteSet(I) /\ Cardinality(I) = l
    <3> HIDE DEF l
    <3>. QED BY <2>1, FS_Interval
  <2> HIDE DEF I
  <2>5. J \in SUBSET I
    BY <2>3
  <2>6. Cardinality(J) <= Cardinality(I)
    BY <2>4, <2>5, FS_Subset
  <2>. QED BY <1>7, <2>1, <2>4, <2>6
<1>. QED BY <1>8, <1>9, <1>10

\* The value of a rank is at that place of the list.
LEMMA RankedIs ==
  ASSUME NEW k, NEW s, Ranking(s, k), NEW r \in 1..Len(s)
  PROVE  Ranked(k, r) = s[r] /\ s[r] \in Int
<1> DEFINE V == {recv[i][k] : i \in Measured(k)}
           P(v) == AtMost(k, v) >= r /\ AtMost(k, v - 1) < r
<1>1. s \in Seq(Int)
  BY DEF Ranking
<1>2. s \in Seq(Int) /\ (\A j \in 1..Len(s) : s[j] \in Int) /\ r \in Int
  <2>1. Len(s) \in Nat /\ \A j \in 1..Len(s) : s[j] \in Int
    BY <1>1
  <2>2. r \in Int
    BY <2>1
  <2>. QED BY <1>1, <2>1, <2>2
<1>3. PICK p \in Bijection(1..Len(s), Measured(k)) : \A j \in 1..Len(s) : s[j] = recv[p[j]][k]
  BY DEF Ranking, Lists
<1>4. \A x \in V : \E j \in 1..Len(s) : x = s[j]
  <2> SUFFICES ASSUME NEW i \in Measured(k) PROVE \E j \in 1..Len(s) : recv[i][k] = s[j]
    OBVIOUS
  <2>1. PICK j \in 1..Len(s) : p[j] = i
    BY <1>3 DEF Bijection, Surjection
  <2>. QED BY <1>3, <2>1
<1>5. s[r] \in V
  <2>1. p[r] \in Measured(k)
    BY <1>3 DEF Bijection, Injection
  <2>. QED BY <1>3, <2>1
<1>6. \A v \in Int : AtMost(k, v) \in Nat
  <2> SUFFICES ASSUME NEW v \in Int PROVE AtMost(k, v) \in Nat
    OBVIOUS
  <2> DEFINE M == Measured(k)
             K == {i \in M : recv[i][k] <= v}
  <2>1. IsFiniteSet(M)
    <3>1. IsFiniteSet(1..Len(s))
      BY <1>2, FS_Interval
    <3>. QED BY <3>1, FS_Bijection DEF Ranking, Lists, ExistsBijection
  <2>2. K \in SUBSET M
    OBVIOUS
  <2> HIDE DEF M, K
  <2>3. Cardinality(K) \in Nat
    BY <2>1, <2>2, FS_Subset, FS_CardinalityType
  <2>. QED BY <2>3 DEF AtMost, K, M
<1>7. \A v \in Int : P(v) <=> v = s[r]
  <2> SUFFICES ASSUME NEW v \in Int PROVE P(v) <=> v = s[r]
    OBVIOUS
  <2> DEFINE u == v - 1
  <2>1. u \in Int /\ s[r] \in Int
    BY <1>2
  <2>2. AtMost(k, v) >= r <=> s[r] <= v
    BY CountAtMost
  <2> HIDE DEF u
  <2>3. AtMost(k, u) >= r <=> s[r] <= u
    BY <2>1, CountAtMost
  <2>4. AtMost(k, u) \in Nat /\ r \in Int
    BY <1>2, <1>6, <2>1
  <2>5. AtMost(k, u) < r <=> ~(s[r] <= u)
    BY <2>1, <2>3, <2>4
  <2>6. s[r] <= v /\ ~(s[r] <= u) <=> v = s[r]
    BY <2>1 DEF u
  <2>. QED BY <2>2, <2>5, <2>6 DEF u
<1>8. Ranked(k, r) = CHOOSE v \in V : P(v)
  BY DEF Ranked
<1>9. \A v \in V : P(v) <=> v = s[r]
  BY <1>2, <1>4, <1>7
<1> HIDE DEF V, P
<1>10. Ranked(k, r) = s[r]
  BY <1>5, <1>8, <1>9
<1>. QED BY <1>2, <1>10
-----------------------------------------------------------------------------
(* The list of results *)

\* A quartile is read inside the list.
QuartileFrom(s, q, below, above) ==
  Quartile(s, q) = 4 * s[below] + ((q * (Len(s) - 1)) % 4) * (s[above] - s[below])

LEMMA QuartileIs ==
  ASSUME NEW s \in Seq(Int), s # <<>>, NEW q \in 1..3, NEW n, n = Len(s),
         NEW below, below = 1 + (q * (n - 1)) \div 4, NEW above, above = IF below = n THEN n ELSE below + 1
  PROVE  /\ below \in 1..n /\ above \in 1..n
         /\ Quartile(s, q) \in Int
         /\ QuartileFrom(s, q, below, above)
<1> DEFINE x == q * (n - 1)
           lhs == x \div 4
           delta == x % 4
<1>1. n \in Nat /\ n >= 1 /\ (\A i \in 1..n : s[i] \in Int)
  OBVIOUS
<1>2. x \in Int /\ x >= 0 /\ x <= 3 * (n - 1)
  <2>1. q = 1 \/ q = 2 \/ q = 3
    OBVIOUS
  <2>. QED BY <1>1, <2>1
<1>3. Quartile(s, q) = IF lhs = n - 1 THEN 4 * s[n] ELSE (4 - delta) * s[lhs + 1] + delta * s[lhs + 2]
  BY DEF Quartile
<1>4. below = 1 + lhs
  OBVIOUS
<1> HIDE DEF x
<1>5. lhs \in Int /\ delta \in 0..3 /\ x = 4 * lhs + delta
  BY <1>2
<1> HIDE DEF lhs, delta
<1>6. lhs \in 0..(n - 1) /\ (lhs = n - 1 => delta = 0)
  BY <1>1, <1>2, <1>5
<1>7. below \in 1..n /\ above \in 1..n
  BY <1>1, <1>4, <1>6
<1>8. delta \in Int /\ s[below] \in Int /\ s[above] \in Int
  BY <1>1, <1>5, <1>7
<1>9. CASE lhs = n - 1
  <2>1. below = n /\ above = n /\ delta = 0
    BY <1>1, <1>4, <1>6, <1>9
  <2>2. Quartile(s, q) = 4 * s[n]
    BY <1>3, <1>9
  <2>3. 4 * s[n] + 0 * (s[n] - s[n]) = 4 * s[n] /\ 4 * s[n] \in Int
    BY <1>1
  <2>. QED BY <1>7, <2>1, <2>2, <2>3 DEF delta, x, QuartileFrom
<1>10. CASE lhs # n - 1
  <2>1. below = lhs + 1 /\ above = lhs + 2
    BY <1>1, <1>4, <1>6, <1>10
  <2> DEFINE a == s[below]
             b == s[above]
  <2>2. Quartile(s, q) = (4 - delta) * a + delta * b
    BY <1>3, <1>10, <2>1
  <2>3. delta \in Int /\ a \in Int /\ b \in Int
    BY <1>8
  <2> HIDE DEF a, b
  <2>4. (4 - delta) * a + delta * b = 4 * a + delta * (b - a) /\ (4 - delta) * a + delta * b \in Int
    BY <2>3
  <2>. QED BY <1>7, <2>2, <2>4 DEF a, b, delta, x, QuartileFrom
<1>. QED BY <1>9, <1>10

\* c, of n numbers, has the m of a before those of b.
Joined(c, n, a, m, b) ==
  /\ c \in Seq(Int) /\ Len(c) = n
  /\ \A i \in 1..n : c[i] = IF i <= m THEN a[i] ELSE b[i - m]

LEMMA JoinedIs ==
  ASSUME NEW a \in Seq(Int), NEW b \in Seq(Int)
  PROVE  Joined(a \o b, Len(a) + Len(b), a, Len(a), b)
  BY ConcatProperties DEF Joined

LEMMA SevenIs ==
  ASSUME NEW s \in Seq(Int), s # <<>>, NEW v, v = Seven(s)
  PROVE  /\ v \in Seq(Int) /\ Len(v) = 7
         /\ v[1] = Sum(s) /\ v[2] = Variance(s) /\ v[3] = s[1] /\ v[4] = s[Len(s)]
         /\ v[5] = Quartile(s, 1) /\ v[6] = Quartile(s, 2) /\ v[7] = Quartile(s, 3)
<1> DEFINE a == Sum(s)
           b == Variance(s)
           c == s[1]
           d == s[Len(s)]
           f == <<a, b, c, d>>
           g == Quartiles(s)
<1>1. a \in Int /\ b \in Int
  BY SumType, VarianceIs
<1>2. c \in Int /\ d \in Int
  OBVIOUS
<1>3. \A q \in 1..3 : Quartile(s, q) \in Int
  BY QuartileIs
<1>4. g \in Seq(Int) /\ Len(g) = 3 /\ \A q \in 1..3 : g[q] = Quartile(s, q)
  <2>1. g = [q \in 1..3 |-> Quartile(s, q)]
    BY DEF Quartiles
  <2> HIDE DEF g
  <2>. QED BY <1>3, <2>1
<1>5. v = f \o g
  BY DEF Seven
<1> HIDE DEF a, b, c, d, g
<1>6. f \in Seq(Int) /\ Len(f) = 4 /\ f[1] = a /\ f[2] = b /\ f[3] = c /\ f[4] = d
  BY <1>1, <1>2
<1> HIDE DEF f
<1>7. /\ v \in Seq(Int) /\ Len(v) = 7
      /\ \A i \in 1..7 : v[i] = IF i <= 4 THEN f[i] ELSE g[i - 4]
  <2>1. g \in Seq(Int) /\ Len(g) = 3
    BY <1>4
  <2>2. Joined(v, Len(f) + Len(g), f, Len(f), g)
    BY <1>5, <1>6, <2>1, JoinedIs
  <2>3. Joined(v, 7, f, 4, g)
    BY <1>6, <2>1, <2>2
  <2>. QED BY <2>3 DEF Joined
<1>8. v[1] = f[1] /\ v[2] = f[2] /\ v[3] = f[3] /\ v[4] = f[4]
  BY <1>7
<1>9. v[5] = g[1] /\ v[6] = g[2] /\ v[7] = g[3]
  BY <1>7
<1>. QED BY <1>4, <1>6, <1>7, <1>9, <1>8 DEF a, b, c, d

\* What a result is of.
Listing(r, loss, x, y) == r = RttToAllStatistics(x) \o <<loss>> \o TTLToStatistics(y)

LEMMA ListingIs ==
  ASSUME NEW x \in Seq(Int), x # <<>>, NEW y \in Seq(Int), y # <<>>, NEW loss \in Int,
         NEW r, Listing(r, loss, x, y)
  PROVE  /\ r \in Seq(Int) /\ Len(r) = 22
         /\ \A i \in 1..7 : r[i] = Seven(x)[i] /\ r[7 + i] = Seven(Jitters(x))[i] /\ r[15 + i] = Seven(y)[i]
<1> DEFINE a == Seven(x)
           b == Seven(Jitters(x))
           c == Seven(y)
<1>1. a \in Seq(Int) /\ Len(a) = 7
  BY SevenIs
<1>2. c \in Seq(Int) /\ Len(c) = 7
  BY SevenIs
<1>3. b \in Seq(Int) /\ Len(b) = 7
  <2>1. Jitters(x) \in Seq(Int) /\ Len(Jitters(x)) = Len(x)
    BY JittersAre
  <2>2. Len(x) # 0
    OBVIOUS
  <2>3. Jitters(x) # <<>>
    BY <2>1, <2>2
  <2>. QED BY <2>1, <2>3, SevenIs
<1>4. r = ((a \o b) \o <<loss>>) \o c
  BY DEF Listing, RttToAllStatistics, TTLToStatistics
<1> HIDE DEF a, b, c
<1> DEFINE d == a \o b
           l == <<loss>>
           e == d \o l
<1>5. Joined(d, 14, a, 7, b)
  <2>1. Joined(d, Len(a) + Len(b), a, Len(a), b)
    BY <1>1, <1>3, JoinedIs
  <2> HIDE DEF d
  <2>. QED BY <1>1, <1>3, <2>1
<1>6. l \in Seq(Int) /\ Len(l) = 1 /\ d \in Seq(Int) /\ Len(d) = 14
  <2> HIDE DEF d
  <2>. QED BY <1>5 DEF Joined
<1>7. r = e \o c
  BY <1>4
<1> HIDE DEF d, l
<1>8. Joined(e, 15, d, 14, l)
  <2>1. Joined(e, Len(d) + Len(l), d, Len(d), l)
    BY <1>6, JoinedIs
  <2> HIDE DEF e
  <2>. QED BY <1>6, <2>1
<1> HIDE DEF e
<1>9. Joined(r, 22, e, 15, c)
  <2>1. e \in Seq(Int) /\ Len(e) = 15
    BY <1>8 DEF Joined
  <2>2. Joined(r, Len(e) + Len(c), e, Len(e), c)
    BY <1>2, <1>7, <2>1, JoinedIs
  <2>. QED BY <1>2, <2>1, <2>2
<1>10. \A i \in 1..14 : d[i] = IF i <= 7 THEN a[i] ELSE b[i - 7]
  BY <1>5 DEF Joined
<1>11. \A i \in 1..15 : e[i] = IF i <= 14 THEN d[i] ELSE l[i - 14]
  BY <1>8 DEF Joined
<1>12. \A i \in 1..22 : r[i] = IF i <= 15 THEN e[i] ELSE c[i - 15]
  BY <1>9 DEF Joined
<1>13. ASSUME NEW i \in 1..7 PROVE r[i] = a[i] /\ r[7 + i] = b[i] /\ r[15 + i] = c[i]
  <2> DEFINE j == 7 + i
             k == 15 + i
  <2>1. i \in 1..14 /\ i \in 1..15 /\ i \in 1..22 /\ i <= 7 /\ i <= 14 /\ i <= 15
    OBVIOUS
  <2>2. j \in 1..14 /\ j \in 1..15 /\ j \in 1..22 /\ ~(j <= 7) /\ j <= 14 /\ j <= 15 /\ j - 7 = i
    OBVIOUS
  <2>3. k \in 1..22 /\ ~(k <= 15) /\ k - 15 = i
    OBVIOUS
  <2> HIDE DEF j, k
  <2>4. r[i] = e[i] /\ e[i] = d[i] /\ d[i] = a[i]
    BY <1>10, <1>11, <1>12, <2>1, Zenon
  <2>5. r[j] = e[j] /\ e[j] = d[j] /\ d[j] = b[j - 7]
    BY <1>10, <1>11, <1>12, <2>2, Zenon
  <2>6. r[k] = c[k - 15]
    BY <1>12, <2>3, Zenon
  <2>. QED BY <2>2, <2>3, <2>4, <2>5, <2>6 DEF j, k
<1>. QED BY <1>9, <1>13 DEF a, b, c, Joined
-----------------------------------------------------------------------------
(* The names *)

LEMMA SevenNamesAre ==
  /\ SevenNames[1] = "avg" /\ SevenNames[2] = "var" /\ SevenNames[3] = "min"
  /\ SevenNames[4] = "max" /\ SevenNames[5] = "quantile25" /\ SevenNames[6] = "quantile50"
  /\ SevenNames[7] = "quantile75"
  BY DEF SevenNames

LEMMA SevenNamesDiffer == \A i, j \in 1..7 : SevenNames[i] = SevenNames[j] => i = j
<1>1. \A i \in 1..7 : i \in {1, 2, 3, 4, 5, 6, 7}
  OBVIOUS
<1>. QED BY <1>1, SevenNamesAre

LEMMA NamesAre ==
  /\ \A i \in 1..7 : /\ Names[i] = <<"rtt", SevenNames[i]>>
                      /\ Names[7 + i] = <<"jitter", SevenNames[i]>>
                      /\ Names[15 + i] = <<"ttl", SevenNames[i]>>
  /\ Names[15] = <<"packet", "loss">>
<1>1. \A i \in 1..22 :
        Names[i] = IF i <= 7 THEN <<"rtt", SevenNames[i]>>
                   ELSE IF i <= 14 THEN <<"jitter", SevenNames[i - 7]>>
                   ELSE IF i = 15 THEN <<"packet", "loss">> ELSE <<"ttl", SevenNames[i - 15]>>
  BY DEF Names
<1>2. ASSUME NEW i \in 1..7
      PROVE  /\ Names[i] = <<"rtt", SevenNames[i]>>
             /\ Names[7 + i] = <<"jitter", SevenNames[i]>>
             /\ Names[15 + i] = <<"ttl", SevenNames[i]>>
  <2> DEFINE j == 7 + i
             k == 15 + i
  <2>1. i \in 1..22 /\ i <= 7
    OBVIOUS
  <2>2. j \in 1..22 /\ ~(j <= 7) /\ j <= 14 /\ j - 7 = i
    OBVIOUS
  <2>3. k \in 1..22 /\ ~(k <= 7) /\ ~(k <= 14) /\ k # 15 /\ k - 15 = i
    OBVIOUS
  <2> HIDE DEF j, k
  <2>4. Names[j] = <<"jitter", SevenNames[j - 7]>>
    BY <1>1, <2>2, Zenon
  <2>5. Names[k] = <<"ttl", SevenNames[k - 15]>>
    BY <1>1, <2>3, Zenon
  <2>6. Names[i] = <<"rtt", SevenNames[i]>>
    BY <1>1, <2>1, Zenon
  <2>. QED BY <2>2, <2>3, <2>4, <2>5, <2>6 DEF j, k
<1>3. 15 \in 1..22 /\ ~(15 <= 7) /\ ~(15 <= 14)
  OBVIOUS
<1>. QED BY <1>1, <1>2, <1>3

\* No name is given twice.
LEMMA NamesDiffer == \A i, j \in 1..22 : Names[i] = Names[j] => i = j
<1>1. ASSUME NEW i \in 1..22
      PROVE  \/ i \in 1..7 /\ Names[i] = <<"rtt", SevenNames[i]>>
             \/ i - 7 \in 1..7 /\ Names[i] = <<"jitter", SevenNames[i - 7]>>
             \/ i = 15 /\ Names[i] = <<"packet", "loss">>
             \/ i - 15 \in 1..7 /\ Names[i] = <<"ttl", SevenNames[i - 15]>>
  <2>1. \/ i \in 1..7
        \/ i - 7 \in 1..7 /\ 7 + (i - 7) = i
        \/ i = 15
        \/ i - 15 \in 1..7 /\ 15 + (i - 15) = i
    OBVIOUS
  <2>. QED BY <2>1, NamesAre, Zenon
<1>2. ASSUME NEW a, NEW b, NEW c, NEW d, <<a, b>> = <<c, d>> PROVE a = c /\ b = d
  BY <1>2
<1>3. "rtt" # "jitter" /\ "rtt" # "packet" /\ "rtt" # "ttl" /\ "jitter" # "packet"
      /\ "jitter" # "ttl" /\ "packet" # "ttl"
  OBVIOUS
<1> SUFFICES ASSUME NEW i \in 1..22, NEW j \in 1..22, Names[i] = Names[j] PROVE i = j
  OBVIOUS
<1>4. \/ i \in 1..7 /\ j \in 1..7 /\ SevenNames[i] = SevenNames[j]
      \/ i - 7 \in 1..7 /\ j - 7 \in 1..7 /\ SevenNames[i - 7] = SevenNames[j - 7]
      \/ i = 15 /\ j = 15
      \/ i - 15 \in 1..7 /\ j - 15 \in 1..7 /\ SevenNames[i - 15] = SevenNames[j - 15]
  BY <1>1, <1>3
<1>5. i = j \/ i - 7 = j - 7 \/ i - 15 = j - 15
  BY <1>4, SevenNamesDiffer
<1>. QED BY <1>5
-----------------------------------------------------------------------------
(* The cells *)

CellsOf(r) == {[metric |-> Names[i], value |-> r[i]] : i \in 1..22}

LEMMA ValueIs ==
  ASSUME NEW r, cells = CellsOf(r), NEW i \in 1..22, NEW kind, NEW metric,
         Names[i] = <<kind, metric>>
  PROVE  Value(kind, metric) = r[i]
<1> DEFINE c == CHOOSE c \in cells : c.metric = <<kind, metric>>
           d == [metric |-> Names[i], value |-> r[i]]
<1>1. d \in cells /\ d.metric = <<kind, metric>>
  BY DEF CellsOf
<1>2. c \in cells /\ c.metric = Names[i]
  <2> HIDE DEF d
  <2>. QED BY <1>1
<1>3. Value(kind, metric) = c.value
  BY DEF Value
<1> HIDE DEF c
<1>4. PICK j \in 1..22 : c = [metric |-> Names[j], value |-> r[j]]
  BY <1>2 DEF CellsOf
<1>5. c.metric = Names[j] /\ c.value = r[j]
  BY <1>4
<1>6. i = j
  BY <1>2, <1>5, NamesDiffer
<1>. QED BY <1>3, <1>5, <1>6

\* What StartPing may make of a list of results.
Estimates(r, x) == IF r[17] < 0 THEN NaNAsInt ELSE {Estimate(r[16], r[17], Len(x.ttl))}

StatsInv ==
  /\ Received /\ Len(recv) > 0
  /\ phase \in {"load", "prepare", "analyse", "convert", "estimate", "done"}
  /\ phase = "load" => samples = [rtt |-> <<>>, ttl |-> <<>>]
  /\ phase = "prepare" =>
       samples = [rtt |-> Column(Answered(recv), 1), ttl |-> Column(Answered(recv), 2)]
  /\ phase \in {"prepare", "analyse"} => Answered(recv) # <<>>
  /\ phase \notin {"load", "prepare"} =>
       samples = IF Answered(recv) = <<>> THEN [rtt |-> <<>>, ttl |-> <<>>]
                 ELSE [rtt |-> Sample(1), ttl |-> Sample(2)]
  /\ IF phase \notin {"convert", "estimate", "done"} THEN res = <<>>
     ELSE IF Answered(recv) = <<>> THEN res = [i \in 1..22 |-> -9]
     ELSE \E loss \in Int : Listing(res, loss, samples.rtt, samples.ttl)
  /\ cells = IF phase \in {"estimate", "done"} THEN CellsOf(res) ELSE {}
  /\ IF phase = "done" THEN estimate \in Estimates(res, samples) ELSE estimate = 0

LEMMA LossIsInt ==
  ASSUME Received, Len(recv) > 0
  PROVE  Losses(Len(recv), Len(Answered(recv))) \subseteq Int
<1> DEFINE n == Len(recv)
           a == Len(Answered(recv))
           l == n - a
<1>1. n \in Nat /\ n > 0
  BY DEF Received
<1>2. a \in Nat
  <2>1. Column(Answered(recv), 1) \in Seq(Int) /\ Len(Column(Answered(recv), 1)) = a
    BY AnsweredIs
  <2> HIDE DEF a
  <2>. QED BY <2>1
<1> HIDE DEF n, a
<1>3. l \in Int /\ (100 * l) \div n \in Int
  BY <1>1, <1>2
<1>4. Losses(n, a) \subseteq Int
  BY <1>3 DEF Losses, Percent
<1>. QED BY <1>4 DEF n, a

LEMMA PreparedIs ==
  ASSUME Received
  PROVE  /\ Sample(1) \in Seq(Int) /\ Sample(1) # <<>>
         /\ Sample(2) \in Seq(Int) /\ Sample(2) # <<>>
  BY SampleIs

LEMMA StatsInvariance == StatsSpec => []StatsInv
<1>1. StatsInit => StatsInv
  <2> SUFFICES ASSUME StatsInit PROVE StatsInv
    OBVIOUS
  <2>1. recv \in Seq(Replies \cup {Lost}) \ {<<>>}
    BY PeriodsAssumption DEF StatsInit
  <2>2. Received /\ Len(recv) > 0
    BY <2>1 DEF Received
  <2>. QED BY <2>2 DEF StatsInit, StatsInv
<1>2. StatsInv /\ [StatsNext]_statsVars => StatsInv'
  <2> SUFFICES ASSUME StatsInv, [StatsNext]_statsVars PROVE StatsInv'
    OBVIOUS
  <2> DEFINE a == Answered(recv)
             heard == [rtt |-> Column(a, 1), ttl |-> Column(a, 2)]
             ready == [rtt |-> Sample(1), ttl |-> Sample(2)]
             Same == recv' = recv /\ a' = a /\ heard' = heard /\ ready' = ready
  <2>0. ASSUME recv' = recv PROVE Same
    <3>1. Sample(1)' = Sample(1) /\ Sample(2)' = Sample(2) /\ a' = a
      BY <2>0 DEF Sample, Answered
    <3>2. Column(a, 1)' = Column(a, 1) /\ Column(a, 2)' = Column(a, 2)
      BY <3>1 DEF Column
    <3>. QED BY <2>0, <3>1, <3>2
  <2>1. CASE ReturnRes
    <3>1. /\ recv' = recv /\ samples' = samples /\ cells' = cells /\ estimate' = estimate
          /\ a = <<>> /\ phase = "load" /\ phase' = "convert" /\ res' = [i \in 1..22 |-> -9]
      BY <2>1 DEF ReturnRes
    <3>2. Same
      BY <2>0, <3>1
    <3>. QED BY <3>1, <3>2 DEF StatsInv, Received
  <2>2. CASE Load
    <3>1. /\ recv' = recv /\ res' = res /\ cells' = cells /\ estimate' = estimate
          /\ a # <<>> /\ phase = "load" /\ phase' = "prepare" /\ samples' = heard
      BY <2>2 DEF Load
    <3>2. Same
      BY <2>0, <3>1
    <3>. QED BY <3>1, <3>2 DEF StatsInv, Received
  <2>3. CASE Prepare
    <3>1. /\ recv' = recv /\ res' = res /\ cells' = cells /\ estimate' = estimate
          /\ phase = "prepare" /\ phase' = "analyse"
          /\ samples' = [k \in {"rtt", "ttl"} |-> PreRtts(Ascending(samples[k]))]
      BY <2>3 DEF Prepare
    <3>2. samples = heard /\ a # <<>>
      BY <3>1 DEF StatsInv
    <3>3. samples["rtt"] = Column(a, 1) /\ samples["ttl"] = Column(a, 2)
      BY <3>2
    <3>4. PreRtts(Ascending(samples["rtt"])) = Sample(1) /\ PreRtts(Ascending(samples["ttl"])) = Sample(2)
      BY <3>3 DEF Sample
    <3>5. samples' = [k \in {"rtt", "ttl"} |-> IF k = "rtt" THEN Sample(1) ELSE Sample(2)]
      BY <3>1, <3>4
    <3>6. samples' = ready
      BY <3>5
    <3>7. Same
      BY <2>0, <3>1
    <3>. QED BY <3>1, <3>2, <3>6, <3>7 DEF StatsInv, Received
  <2>4. CASE Analyse
    <3>1. /\ recv' = recv /\ samples' = samples /\ cells' = cells /\ estimate' = estimate
          /\ phase = "analyse" /\ phase' = "convert"
      BY <2>4 DEF Analyse
    <3>2. PICK loss \in Losses(Len(recv), Len(a)) :
            res' = RttToAllStatistics(samples.rtt) \o <<loss>> \o TTLToStatistics(samples.ttl)
      BY <2>4 DEF Analyse
    <3>3. loss \in Int
      <4>1. Received /\ Len(recv) > 0
        BY DEF StatsInv
      <4>. QED BY <3>2, <4>1, LossIsInt
    <3>4. Listing(res', loss, samples'.rtt, samples'.ttl)
      BY <3>1, <3>2 DEF Listing
    <3>5. Same /\ a # <<>>
      BY <2>0, <3>1 DEF StatsInv
    <3>. QED BY <3>1, <3>3, <3>4, <3>5 DEF StatsInv, Received
  <2>5. CASE ConvertResultToCells
    <3>1. /\ recv' = recv /\ samples' = samples /\ res' = res /\ estimate' = estimate
          /\ phase = "convert" /\ phase' = "estimate"
      BY <2>5 DEF ConvertResultToCells
    <3>2. DOMAIN res = 1..22
      <4>1. CASE a = <<>>
        <5>1. res = [i \in 1..22 |-> -9]
          BY <3>1, <4>1 DEF StatsInv
        <5>. QED BY <5>1
      <4>2. CASE a # <<>>
        <5>1. samples = ready
          BY <3>1, <4>2 DEF StatsInv
        <5>2. PICK loss \in Int : Listing(res, loss, Sample(1), Sample(2))
          BY <3>1, <4>2, <5>1 DEF StatsInv
        <5>3. Sample(1) \in Seq(Int) /\ Sample(1) # <<>> /\ Sample(2) \in Seq(Int) /\ Sample(2) # <<>>
          BY PreparedIs DEF StatsInv
        <5>4. res \in Seq(Int) /\ Len(res) = 22
          BY <5>2, <5>3, ListingIs
        <5>. QED BY <5>4
      <4>. QED BY <4>1, <4>2
    <3>3. cells' = CellsOf(res)
      BY <2>5, <3>2 DEF ConvertResultToCells, CellsOf
    <3>4. Same
      BY <2>0, <3>1
    <3>. QED BY <3>1, <3>3, <3>4 DEF StatsInv, Received, CellsOf
  <2>6. CASE EstimateHops
    <3>1. /\ recv' = recv /\ samples' = samples /\ res' = res /\ cells' = cells
          /\ phase = "estimate" /\ phase' = "done" /\ estimate' \in Estimates(res, samples)
      BY <2>6 DEF EstimateHops, Estimates
    <3>2. Same
      BY <2>0, <3>1
    <3>. QED BY <3>1, <3>2 DEF StatsInv, Received, CellsOf, Estimates
  <2>7. CASE UNCHANGED statsVars
    <3>1. /\ recv' = recv /\ samples' = samples /\ res' = res /\ cells' = cells
          /\ estimate' = estimate /\ phase' = phase
      BY <2>7 DEF statsVars
    <3>2. Same
      BY <2>0, <3>1
    <3>. QED BY <3>1, <3>2 DEF StatsInv, Received, CellsOf, Estimates
  <2>. QED BY <2>1, <2>2, <2>3, <2>4, <2>5, <2>6, <2>7 DEF StatsNext
<1>. QED BY <1>1, <1>2, PTL DEF StatsSpec

\* What is sent, in terms of the samples.
LEMMA SentIs ==
  ASSUME StatsInv, phase = "done", Answered(recv) # <<>>
  PROVE  /\ samples.rtt = Sample(1) /\ samples.ttl = Sample(2)
         /\ Sample(1) \in Seq(Int) /\ Sample(1) # <<>> /\ Sample(2) \in Seq(Int) /\ Sample(2) # <<>>
         /\ res \in Seq(Int) /\ Len(res) = 22
         /\ \A i \in 1..7 : /\ Value("rtt", SevenNames[i]) = Seven(Sample(1))[i]
                            /\ Value("jitter", SevenNames[i]) = Seven(Jitters(Sample(1)))[i]
                            /\ Value("ttl", SevenNames[i]) = Seven(Sample(2))[i]
                            /\ res[15 + i] = Seven(Sample(2))[i]
<1> DEFINE x == Sample(1)
           y == Sample(2)
<1>1. samples.rtt = x /\ samples.ttl = y
  BY DEF StatsInv
<1>2. x \in Seq(Int) /\ x # <<>> /\ y \in Seq(Int) /\ y # <<>>
  BY PreparedIs DEF StatsInv
<1>3. PICK loss \in Int : Listing(res, loss, x, y)
  BY <1>1 DEF StatsInv
<1>4. cells = CellsOf(res)
  BY DEF StatsInv
<1> HIDE DEF x, y
<1>5. /\ res \in Seq(Int) /\ Len(res) = 22
      /\ \A i \in 1..7 : res[i] = Seven(x)[i] /\ res[7 + i] = Seven(Jitters(x))[i] /\ res[15 + i] = Seven(y)[i]
  BY <1>2, <1>3, ListingIs
<1>6. ASSUME NEW i \in 1..7
      PROVE  /\ Value("rtt", SevenNames[i]) = res[i]
             /\ Value("jitter", SevenNames[i]) = res[7 + i]
             /\ Value("ttl", SevenNames[i]) = res[15 + i]
  <2>1. i \in 1..22 /\ 7 + i \in 1..22 /\ 15 + i \in 1..22
    OBVIOUS
  <2> DEFINE name == SevenNames[i]
             jitter == 7 + i
             ttl == 15 + i
  <2>2. Names[i] = <<"rtt", name>> /\ Names[jitter] = <<"jitter", name>> /\ Names[ttl] = <<"ttl", name>>
    BY NamesAre
  <2>3. jitter \in 1..22 /\ ttl \in 1..22
    BY <2>1
  <2> HIDE DEF name, jitter, ttl
  <2>4. Value("rtt", name) = res[i]
    BY <1>4, <2>1, <2>2, ValueIs
  <2>5. Value("jitter", name) = res[jitter]
    BY <1>4, <2>2, <2>3, ValueIs
  <2>6. Value("ttl", name) = res[ttl]
    BY <1>4, <2>2, <2>3, ValueIs
  <2>. QED BY <2>4, <2>5, <2>6 DEF name, jitter, ttl
<1>. QED BY <1>1, <1>2, <1>5, <1>6, Zenon DEF x, y

\* The variance of the RTTs is that of the jitters plus the square of their mean.
THEOREM JittersCorrect == StatsSpec => []JitterSplitsVariance
<1>1. StatsInv => JitterSplitsVariance
  <2> SUFFICES ASSUME StatsInv, phase = "done", Answered(recv) # <<>> PROVE JitterSplitsVariance
    BY DEF JitterSplitsVariance
  <2> DEFINE x == Sample(1)
             j == Jitters(x)
             n == Len(x)
  <2>1. samples.rtt = x /\ x \in Seq(Int) /\ x # <<>>
    BY SentIs
  <2>2. 1 \in 1..7 /\ 2 \in 1..7
    OBVIOUS
  <2>3. /\ Value("rtt", "var") = Seven(x)[2]
        /\ Value("jitter", "avg") = Seven(j)[1] /\ Value("jitter", "var") = Seven(j)[2]
    BY <2>2, SentIs, SevenNamesAre
  <2> HIDE DEF x
  <2>4. j \in Seq(Int) /\ Len(j) = n /\ Variance(j) + n * Sum(j) * Sum(j) = n * n * Variance(x)
    BY <2>1, JittersAre
  <2>5. j # <<>>
    BY <2>1, <2>4
  <2> HIDE DEF j
  <2>6. Seven(x)[2] = Variance(x) /\ Seven(j)[1] = Sum(j) /\ Seven(j)[2] = Variance(j)
    BY <2>1, <2>4, <2>5, SevenIs
  <2>. QED BY <2>1, <2>3, <2>4, <2>6 DEF JitterSplitsVariance
<1>. QED BY <1>1, StatsInvariance, PTL

\* A list's extremes and quartiles are at their ranks.
LEMMA RanksShown ==
  ASSUME NEW k, NEW s, Ranking(s, k), s # <<>>, NEW v, v = Seven(s)
  PROVE  /\ v[3] = Ranked(k, 1) /\ v[4] = Ranked(k, Count(k))
         /\ \A q \in 1..3 : v[4 + q] = RankedQuartile(k, q)
<1> DEFINE n == Len(s)
<1>1. s \in Seq(Int) /\ n = Count(k) /\ n \in Nat /\ n >= 1 /\ 1 \in 1..n /\ n \in 1..n
  <2>1. s \in Seq(Int) /\ n = Count(k)
    BY DEF Ranking
  <2>. QED BY <2>1
<1>2. /\ v[3] = s[1] /\ v[4] = s[n]
      /\ v[5] = Quartile(s, 1) /\ v[6] = Quartile(s, 2) /\ v[7] = Quartile(s, 3)
  BY <1>1, SevenIs
<1> HIDE DEF n
<1>3. \A r \in 1..n : Ranked(k, r) = s[r]
  BY RankedIs DEF n
<1>4. ASSUME NEW q \in 1..3 PROVE Quartile(s, q) = RankedQuartile(k, q)
  <2> DEFINE below == 1 + (q * (n - 1)) \div 4
             above == IF below = n THEN n ELSE below + 1
             delta == (q * (n - 1)) % 4
  <2>1. RankedQuartile(k, q) = 4 * Ranked(k, below) + delta * (Ranked(k, above) - Ranked(k, below))
    BY <1>1 DEF RankedQuartile
  <2>2. below = 1 + (q * (n - 1)) \div 4 /\ above = (IF below = n THEN n ELSE below + 1)
        /\ delta = (q * (n - 1)) % 4 /\ n = Len(s)
    BY DEF n
  <2> HIDE DEF below, above, delta
  <2>3. below \in 1..n /\ above \in 1..n /\ Quartile(s, q) = 4 * s[below] + delta * (s[above] - s[below])
    <3>1. below \in 1..n /\ above \in 1..n /\ QuartileFrom(s, q, below, above)
      BY <1>1, <2>2, QuartileIs
    <3>. QED BY <2>2, <3>1 DEF QuartileFrom
  <2>4. Ranked(k, below) = s[below] /\ Ranked(k, above) = s[above]
    BY <1>3, <2>3
  <2>. QED BY <2>1, <2>3, <2>4
<1>5. \A q \in 1..3 : v[4 + q] = Quartile(s, q)
  <2> SUFFICES ASSUME NEW q \in 1..3 PROVE v[4 + q] = Quartile(s, q)
    OBVIOUS
  <2>1. q = 1 \/ q = 2 \/ q = 3
    OBVIOUS
  <2>. QED BY <1>2, <2>1
<1>. QED BY <1>1, <1>2, <1>3, <1>4, <1>5

\* What is sent as the least, the greatest or a quartile of the measured values
\* is at that rank among them.
THEOREM CellsCorrect == StatsSpec => []CellsAreRanks
<1>1. StatsInv => CellsAreRanks
  <2> SUFFICES ASSUME StatsInv, phase = "done", NEW s \in {<<"rtt", 1>>, <<"ttl", 2>>}, Count(s[2]) > 0
               PROVE  /\ Value(s[1], "min") = Ranked(s[2], 1)
                      /\ Value(s[1], "max") = Ranked(s[2], Count(s[2]))
                      /\ Value(s[1], "quantile25") = RankedQuartile(s[2], 1)
                      /\ Value(s[1], "quantile50") = RankedQuartile(s[2], 2)
                      /\ Value(s[1], "quantile75") = RankedQuartile(s[2], 3)
    BY DEF CellsAreRanks
  <2> DEFINE kind == s[1]
             k == s[2]
             x == Sample(k)
             v == Seven(x)
  <2>1. (kind = "rtt" /\ k = 1) \/ (kind = "ttl" /\ k = 2)
    OBVIOUS
  <2>2. k \in {1, 2} /\ Received
    BY <2>1 DEF StatsInv
  <2> HIDE DEF kind, k
  <2>3. Ranking(x, k) /\ x # <<>> /\ Answered(recv) # <<>>
    BY <2>2, SampleIs, NoneMeasured DEF k
  <2>4. \A i \in 1..7 : Value(kind, SevenNames[i]) = v[i]
    BY <2>1, <2>3, SentIs
  <2> HIDE DEF x
  <2>5. /\ v[3] = Ranked(k, 1) /\ v[4] = Ranked(k, Count(k))
        /\ \A q \in 1..3 : v[4 + q] = RankedQuartile(k, q)
    BY <2>3, RanksShown
  <2> HIDE DEF v
  <2>6. v[5] = RankedQuartile(k, 1) /\ v[6] = RankedQuartile(k, 2) /\ v[7] = RankedQuartile(k, 3)
    BY <2>5
  <2>7. 3 \in 1..7 /\ 4 \in 1..7 /\ 5 \in 1..7 /\ 6 \in 1..7 /\ 7 \in 1..7
    OBVIOUS
  <2>8. /\ Value(kind, "min") = v[3] /\ Value(kind, "max") = v[4]
        /\ Value(kind, "quantile25") = v[5] /\ Value(kind, "quantile50") = v[6]
        /\ Value(kind, "quantile75") = v[7]
    BY <2>4, <2>7, SevenNamesAre
  <2>. QED BY <2>5, <2>6, <2>8 DEF kind, k
<1>. QED BY <1>1, StatsInvariance, PTL

\* The estimate that an answered period gives.
LEMMA EstimateShown ==
  ASSUME StatsInv, phase = "done", Answered(recv) # <<>>, NEW y, y = Sample(2)
  PROVE  /\ y \in Seq(Int) /\ y # <<>> /\ ((Count(2) = 0 /\ y = <<-1>>) \/ (Count(2) > 0 /\ Ranking(y, 2)))
         /\ estimate = Estimate(Sum(y), Variance(y), Len(y))
<1>1. /\ y \in Seq(Int) /\ y # <<>>
      /\ ((Count(2) = 0 /\ y = <<-1>>) \/ (Count(2) > 0 /\ Ranking(y, 2)))
  BY SampleIs DEF StatsInv
<1>2. samples.ttl = y /\ res[15 + 1] = Seven(y)[1] /\ res[15 + 2] = Seven(y)[2]
  <2>1. 1 \in 1..7 /\ 2 \in 1..7
    OBVIOUS
  <2>. QED BY <2>1, SentIs
<1>3. res[16] = Sum(y) /\ res[17] = Variance(y)
  <2>1. Seven(y)[1] = Sum(y) /\ Seven(y)[2] = Variance(y)
    BY <1>1, SevenIs
  <2>2. 15 + 1 = 16 /\ 15 + 2 = 17
    OBVIOUS
  <2>. QED BY <1>2, <2>1, <2>2
<1>4. Variance(y) \in Int /\ Variance(y) >= 0
  <2> DEFINE d == Deltas(y)
             v == Squares(d)
             n == Len(y)
  <2>1. d \in Seq(Int) /\ Len(d) = n
    BY <1>1, VarianceIs
  <2> HIDE DEF d, n
  <2>2. v \in Seq(Int) /\ Len(v) = n
    BY <2>1, VarianceIs
  <2>3. \A i \in 1..n : v[i] >= 0
    <3> SUFFICES ASSUME NEW i \in 1..n PROVE v[i] >= 0
      OBVIOUS
    <3> DEFINE a == d[i]
    <3>1. a \in Int /\ v[i] = a * a
      BY <2>1 DEF Squares
    <3> HIDE DEF a, v
    <3>2. a * a >= 0
      BY <3>1
    <3>. QED BY <3>1, <3>2
  <2> HIDE DEF v
  <2>4. Sum(v) \in Nat
    BY <2>2, <2>3, SumBounds
  <2>5. Variance(y) = Sum(v)
    BY DEF Variance, v, d
  <2>. QED BY <2>4, <2>5
<1>5. estimate \in Estimates(res, samples)
  BY DEF StatsInv
<1>. QED BY <1>1, <1>2, <1>3, <1>4, <1>5 DEF Estimates

\* Without a measured number of hops the estimate is zero.
LEMMA EstimateOfNone == Estimate(Sum(<<-1>>), Variance(<<-1>>), Len(<<-1>>)) = 0
<1> DEFINE s == <<-1>>
           q == Squares(s)
<1>1. s \in Seq(Int) /\ Len(s) = 1 /\ DOMAIN s = 1..1 /\ s[1] = -1
  OBVIOUS
<1>2. ASSUME NEW u \in Seq(Int), Len(u) = 1 PROVE Sum(u) = u[1]
  <2>1. PICK f : Partial(f, u, 1) /\ Sum(u) = f[1]
    BY <1>2, SumOf
  <2>2. 0 \in 0..1 /\ 0 < 1 /\ 0 + 1 = 1 /\ u[1] \in Int
    BY <1>2
  <2>3. f[1] = f[0] + u[1] /\ f[0] = 0
    BY <2>1, <2>2 DEF Partial
  <2>. QED BY <2>1, <2>2, <2>3
<1>3. q \in Seq(Int) /\ Len(q) = 1 /\ Variance(s) = 1 * 1 * Sum(q) - 1 * Sum(s) * Sum(s)
  <2> HIDE DEF s
  <2>. QED BY <1>1, VarianceIs
<1>4. q[1] = 1
  <2> HIDE DEF s
  <2>1. q[1] = s[1] * s[1]
    BY <1>1 DEF Squares
  <2>. QED BY <1>1, <2>1
<1>5. Sum(s) = -1 /\ Sum(q) = 1
  <2> HIDE DEF s, q
  <2>. QED BY <1>1, <1>2, <1>3, <1>4
<1>6. Variance(s) = 0
  BY <1>3, <1>5
<1>7. Estimate(-1, 0, 1) = 0
  BY DEF Estimate
<1>. QED BY <1>1, <1>5, <1>6, <1>7

\* More than nine in ten of the packets with a measured number of hops are within
\* StartPing's estimate, in a period of any length: less than a tenth of the
\* numbers is more than three standard deviations above their mean.
THEOREM EstimateCorrect == StatsSpec => []EstimateCovers
<1>1. StatsInv => EstimateCovers
  <2> SUFFICES ASSUME StatsInv, phase = "done" PROVE EstimateCovers
    BY DEF EstimateCovers
  <2> DEFINE y == Sample(2)
             n == Len(y)
  <2>1. CASE Answered(recv) = <<>>
    <3>1. Count(2) = 0
      BY <2>1, NoneMeasured DEF StatsInv
    <3>. QED BY <2>1, <3>1 DEF EstimateCovers
  <2>2. CASE Answered(recv) # <<>>
    <3>1. /\ y \in Seq(Int) /\ y # <<>> /\ ((Count(2) = 0 /\ y = <<-1>>) \/ (Count(2) > 0 /\ Ranking(y, 2)))
          /\ estimate = Estimate(Sum(y), Variance(y), n)
      BY <2>2, EstimateShown
    <3> HIDE DEF y
    <3>2. CASE Count(2) = 0
      <4>1. y = <<-1>>
        BY <3>1, <3>2
      <4>2. estimate = 0
        BY <3>1, <4>1, EstimateOfNone
      <4>. QED BY <3>2, <4>2 DEF EstimateCovers
    <3>3. CASE Count(2) # 0
      <4>1. Count(2) > 0 /\ Ranking(y, 2)
        BY <3>1, <3>3
      <4>2. n = Count(2) /\ n > 0 /\ \A j \in 1..n : y[j] >= 0
        BY <3>1, <4>1 DEF Ranking
      <4>3. estimate \in Nat /\ 10 * Cardinality({j \in 1..n : y[j] <= estimate}) > 9 * n
        BY <3>1, <4>2, EstimateCounts
      <4>4. AtMost(2, estimate) = Cardinality({j \in 1..n : y[j] <= estimate})
        BY <4>1, <4>3, AtMostIs
      <4>5. 10 * AtMost(2, estimate) > 9 * Count(2) /\ ~(estimate < 0)
        BY <4>2, <4>3, <4>4
      <4>. QED BY <4>5 DEF EstimateCovers
    <3>. QED BY <3>2, <3>3
  <2>. QED BY <2>1, <2>2
<1>. QED BY <1>1, StatsInvariance, PTL

\* The type of every variable.
THEOREM StatsTypeCorrect == StatsSpec => []StatsTypeOK
<1>1. StatsInv => StatsTypeOK
  <2> SUFFICES ASSUME StatsInv PROVE StatsTypeOK
    OBVIOUS
  <2>1. recv \in Seq(Replies \cup {Lost}) /\ phase \in {"load", "prepare", "analyse", "convert", "estimate", "done"}
    BY DEF StatsInv, Received
  <2>2. samples \in [{"rtt", "ttl"} -> Seq(Int)]
    <3>1. Column(Answered(recv), 1) \in Seq(Int) /\ Column(Answered(recv), 2) \in Seq(Int)
      BY AnsweredIs DEF StatsInv
    <3>2. Sample(1) \in Seq(Int) /\ Sample(2) \in Seq(Int)
      BY PreparedIs DEF StatsInv
    <3>3. PICK x \in Seq(Int), y \in Seq(Int) : samples = [rtt |-> x, ttl |-> y]
      <4>1. <<>> \in Seq(Int)
        OBVIOUS
      <4>. QED BY <2>1, <3>1, <3>2, <4>1 DEF StatsInv
    <3>. QED BY <3>3
  <2>3. /\ res \in Seq(Int) /\ Len(res) \in {0, 22}
        /\ phase \in {"convert", "estimate", "done"} => Len(res) = 22
    <3>1. CASE phase \in {"convert", "estimate", "done"} /\ Answered(recv) # <<>>
      <4>1. samples = [rtt |-> Sample(1), ttl |-> Sample(2)]
        BY <3>1 DEF StatsInv
      <4>2. PICK loss \in Int : Listing(res, loss, Sample(1), Sample(2))
        BY <3>1, <4>1 DEF StatsInv
      <4>3. Sample(1) \in Seq(Int) /\ Sample(1) # <<>> /\ Sample(2) \in Seq(Int) /\ Sample(2) # <<>>
        BY PreparedIs DEF StatsInv
      <4>. QED BY <4>2, <4>3, ListingIs
    <3>2. CASE phase \in {"convert", "estimate", "done"} /\ Answered(recv) = <<>>
      <4>1. res = [i \in 1..22 |-> -9]
        BY <3>2 DEF StatsInv
      <4>2. -9 \in Int /\ 22 \in Nat
        OBVIOUS
      <4>. QED BY <4>1, <4>2
    <3>3. CASE phase \notin {"convert", "estimate", "done"}
      <4>1. res = <<>>
        BY <3>3 DEF StatsInv
      <4>2. <<>> \in Seq(Int) /\ Len(<<>>) = 0
        OBVIOUS
      <4>. QED BY <3>3, <4>1, <4>2
    <3>. QED BY <3>1, <3>2, <3>3
  <2>4. ASSUME NEW c \in cells PROVE c.metric \in Range(Names) /\ c.value \in Int
    <3>1. phase \in {"estimate", "done"} /\ cells = CellsOf(res)
      BY <2>4 DEF StatsInv
    <3>2. PICK i \in 1..22 : c = [metric |-> Names[i], value |-> res[i]]
      BY <2>4, <3>1 DEF CellsOf
    <3>3. res \in Seq(Int) /\ Len(res) = 22
      BY <2>3, <3>1
    <3>4. DOMAIN Names = 1..22
      BY DEF Names
    <3>5. c.metric = Names[i] /\ c.value = res[i]
      BY <3>2
    <3>6. res[i] \in Int
      <4>1. DOMAIN res = 1..Len(res) /\ \A l \in DOMAIN res : res[l] \in Int
        BY <3>3, Places
      <4>2. i \in DOMAIN res
        BY <3>3, <4>1
      <4>. QED BY <4>1, <4>2
    <3>7. Names[i] \in Range(Names)
      BY <3>4 DEF Range
    <3>. QED BY <3>5, <3>6, <3>7
  <2>5. estimate \in Int
    <3>1. CASE phase # "done"
      BY <3>1 DEF StatsInv
    <3>2. CASE phase = "done" /\ Answered(recv) = <<>>
      <4>1. res[17] < 0 /\ estimate \in Estimates(res, samples)
        BY <3>2 DEF StatsInv
      <4>. QED BY <4>1 DEF Estimates, NaNAsInt
    <3>3. CASE phase = "done" /\ Answered(recv) # <<>>
      <4> DEFINE y == Sample(2)
      <4>1. /\ y \in Seq(Int) /\ y # <<>> /\ ((Count(2) = 0 /\ y = <<-1>>) \/ (Count(2) > 0 /\ Ranking(y, 2)))
            /\ estimate = Estimate(Sum(y), Variance(y), Len(y))
        BY <3>3, EstimateShown
      <4> HIDE DEF y
      <4>2. CASE y = <<-1>>
        BY <4>1, <4>2, EstimateOfNone
      <4>3. CASE Ranking(y, 2)
        <5>1. Len(y) > 0 /\ \A j \in 1..Len(y) : y[j] >= 0
          BY <4>1, <4>3 DEF Ranking
        <5>2. estimate \in Nat
          BY <4>1, <5>1, EstimateCounts
        <5>. QED BY <5>2
      <4>. QED BY <4>1, <4>2, <4>3
    <3>. QED BY <3>1, <3>2, <3>3
  <2>. QED BY <2>1, <2>2, <2>3, <2>4, <2>5 DEF StatsTypeOK
<1>. QED BY <1>1, StatsInvariance, PTL
=============================================================================
