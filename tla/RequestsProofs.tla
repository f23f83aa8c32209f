--------------------------- MODULE RequestsProofs ---------------------------
(***************************************************************************)
(* Theorems about Requests, for any callers, objects, lists of names, size *)
(* of a batch and number of calls.                                         *)
(***************************************************************************)
EXTENDS Requests, SequenceTheorems, FiniteSetTheorems, TLAPS

\* A response with a value is right; one without is, unless the device refused.
Fair(r) == /\ r.ok => r.oid \in Existing
           /\ r = Answer(r.oid) \/ r.oid \in refused

\* What the cache holds of an object was a fair response.
Truthful ==
  \A n \in Names : /\ cache[n] = "ok" => Oid(n) \in Existing
                   /\ cache[n] = "failed" => Oid(n) \notin Existing \/ Oid(n) \in refused

\* So is what is to be stored, and what was found.
Genuine == \A c \in Callers : \A r \in ToSet(batch[c]) \cup ToSet(found[c]) : Fair(r)

\* What was answered is in the cache for ever.
Remembered ==
  /\ \A k \in answered : cache[k] # "none"
  /\ \A c \in Callers : known[c] \subseteq answered

\* What a call has left to do where it stands.
Left ==
  \A c \in Callers :
    /\ pc[c] # "lookup" => todo[c] = <<>>
    /\ pc[c] \notin {"lookup", "get", "store"} => reqOIDs[c] = <<>>
    /\ pc[c] \notin {"store", "storewalk"} => batch[c] = <<>>
    /\ pc[c] \in {"walklookup", "bulk", "walk"} => found[c] = <<>>

\* Responses and names that are left are no more than the names asked for ...
NoMore(f, b, q, t, a) == Len(f) + Len(b) + Len(q) + Len(t) <= Len(a)

\* ... and of these objects; one that is not refused has its answer, or is left.
Covered(F, Q, os, S) ==
  /\ \A r \in F : r.oid \in os
  /\ Q \subseteq os
  /\ \A o \in os \ S : o \in Q \/ Answer(o) \in F

InPlace ==
  \A c \in Callers : pc[c] \in {"lookup", "get", "store"} =>
    /\ NoMore(found[c], batch[c], reqOIDs[c], todo[c], asked[c])
    /\ Covered(ToSet(found[c]) \cup ToSet(batch[c]), Oids(reqOIDs[c]) \cup Oids(todo[c]),
               Oids(asked[c]), refused)

\* The responses of a walk.
WalkOf(R, S) ==
  /\ R # {} /\ R \subseteq ToSet(Whole)
  /\ Tree \notin S => R = ToSet(Whole)

WalkInPlace ==
  /\ \A c \in Callers : pc[c] = "storewalk" => WalkOf(ToSet(found[c]) \cup ToSet(batch[c]), refused)
  /\ cache[Tree] = "ok" => WalkOf(ToSet(tree), refused)

IInv ==
  /\ TypeOK
  /\ Truthful /\ Genuine /\ Remembered /\ Left /\ InPlace /\ WalkInPlace
  /\ AnswersComplete /\ NotAskedAgain
-----------------------------------------------------------------------------
(* Sequences *)

LEMMA FunctionIsSeq ==
  ASSUME NEW S, NEW n \in Nat, NEW f \in [1..n -> S]
  PROVE  f \in Seq(S)
BY SeqDef

LEMMA HeadAndTail ==
  ASSUME NEW S, NEW s \in Seq(S), s # <<>>
  PROVE  /\ Head(s) \in S /\ Tail(s) \in Seq(S)
         /\ Len(s) = Len(Tail(s)) + 1 /\ Len(Tail(s)) \in Nat
         /\ ToSet(s) = {Head(s)} \cup ToSet(Tail(s))
<1>1. /\ Head(s) \in S /\ Tail(s) \in Seq(S) /\ Len(Tail(s)) = Len(s) - 1
      /\ \A i \in 1..Len(Tail(s)) : Tail(s)[i] = s[i + 1]
  BY HeadTailProperties
<1>2. Len(s) \in Nat /\ Len(Tail(s)) \in Nat /\ DOMAIN s = 1..Len(s) /\ DOMAIN Tail(s) = 1..Len(Tail(s))
  BY <1>1, LenProperties
<1>3. Head(s) = s[1]
  OBVIOUS
<1>4. \A x : x \in ToSet(s) <=> \E i \in 1..Len(s) : x = s[i]
  BY <1>2 DEF ToSet
<1>5. \A x : x \in ToSet(Tail(s)) <=> \E i \in 1..Len(Tail(s)) : x = s[i + 1]
  BY <1>1, <1>2 DEF ToSet
<1>6. \A x : x \in ToSet(Tail(s)) <=> \E i \in 2..Len(s) : x = s[i]
  <2>1. ASSUME NEW i \in 1..Len(Tail(s)) PROVE i + 1 \in 2..Len(s)
    BY <1>1, <1>2
  <2>2. ASSUME NEW i \in 2..Len(s) PROVE i - 1 \in 1..Len(Tail(s)) /\ s[(i - 1) + 1] = s[i]
    BY <1>1, <1>2
  <2> QED  BY <1>5, <2>1, <2>2
<1>7. 1 \in 1..Len(s) /\ 1..Len(s) = {1} \cup 2..Len(s)
  BY <1>1, <1>2
<1>8. \A x : x \in ToSet(s) <=> x = s[1] \/ x \in ToSet(Tail(s))
  BY <1>4, <1>6, <1>7
<1> QED  BY <1>1, <1>2, <1>3, <1>8

LEMMA Appended ==
  ASSUME NEW S, NEW s \in Seq(S), NEW x \in S
  PROVE  /\ Append(s, x) \in Seq(S)
         /\ Len(Append(s, x)) = Len(s) + 1 /\ Len(s) \in Nat
         /\ ToSet(Append(s, x)) = ToSet(s) \cup {x}
<1>1. /\ Append(s, x) \in Seq(S) /\ Len(Append(s, x)) = Len(s) + 1
      /\ \A i \in 1..Len(s) : Append(s, x)[i] = s[i]
      /\ Append(s, x)[Len(s) + 1] = x
  BY AppendProperties
<1>2. Len(s) \in Nat /\ DOMAIN s = 1..Len(s) /\ DOMAIN Append(s, x) = 1..(Len(s) + 1)
  BY <1>1, LenProperties
<1>3. 1..(Len(s) + 1) = 1..Len(s) \cup {Len(s) + 1}
  BY <1>2
<1>4. \A y : y \in ToSet(Append(s, x)) <=> \E i \in 1..Len(s) \cup {Len(s) + 1} : y = Append(s, x)[i]
  BY <1>2, <1>3 DEF ToSet
<1>5. \A y : y \in ToSet(s) <=> \E i \in 1..Len(s) : y = s[i]
  BY <1>2 DEF ToSet
<1> QED  BY <1>1, <1>2, <1>4, <1>5

LEMMA Empty == ToSet(<<>>) = {} /\ Len(<<>>) = 0 /\ \A S : <<>> \in Seq(S)
BY DEF ToSet

LEMMA LengthOfRest ==
  ASSUME NEW n \in Nat, NEW m \in 0..n
  PROVE  (IF m + 1 <= n THEN n - (m + 1) + 1 ELSE 0) = n - m
OBVIOUS

\* A batch and the rest make up the whole.
LEMMA BatchAndRest ==
  ASSUME NEW s \in Seq(Names)
  PROVE  /\ Batch(s) \in Seq(Names) /\ Rest(s) \in Seq(Names)
         /\ Len(Batch(s)) \in Nat /\ Len(Rest(s)) \in Nat
         /\ Len(Batch(s)) + Len(Rest(s)) = Len(s)
         /\ ToSet(s) = ToSet(Batch(s)) \cup ToSet(Rest(s))
         /\ Oids(s) = Oids(Batch(s)) \cup Oids(Rest(s))
<1>1. Len(s) \in Nat /\ DOMAIN s = 1..Len(s) /\ \A i \in 1..Len(s) : s[i] \in Names
  BY LenProperties, ElementOfSeq
<1>2. PICK m \in 0..Len(s) :
        /\ Batch(s) \in Seq(Names) /\ Len(Batch(s)) = m
        /\ \A i \in 1..m : Batch(s)[i] = s[i]
  <2>1. CASE MaxOids >= Len(s)
    <3>1. Batch(s) = s /\ Len(s) \in 0..Len(s)
      BY <1>1, <2>1 DEF Batch
    <3> QED  BY <3>1
  <2>2. CASE ~(MaxOids >= Len(s))
    <3>1. MaxOids \in 1..Len(s)
      BY <1>1, <2>2, MaxOidsAssumption
    <3>2. \A i \in 1..MaxOids : s[i] \in Names
      BY <1>1, <3>1
    <3>3. /\ SubSeq(s, 1, MaxOids) \in Seq(Names)
          /\ Len(SubSeq(s, 1, MaxOids)) = MaxOids
          /\ \A i \in 1..MaxOids : SubSeq(s, 1, MaxOids)[i] = s[i]
      <4>1. /\ SubSeq(s, 1, MaxOids) \in Seq(Names)
            /\ Len(SubSeq(s, 1, MaxOids)) = IF 1 <= MaxOids THEN MaxOids - 1 + 1 ELSE 0
            /\ \A i \in 1..(MaxOids - 1 + 1) : SubSeq(s, 1, MaxOids)[i] = s[1 + i - 1]
        BY <3>1, <3>2, SubSeqProperties
      <4> QED  BY <3>1, <4>1
    <3> QED  BY <2>2, <3>1, <3>3 DEF Batch
  <2> QED  BY <2>1, <2>2
<1>3. /\ Rest(s) \in Seq(Names) /\ Len(Rest(s)) = Len(s) - m
      /\ \A i \in 1..(Len(s) - m) : Rest(s)[i] = s[m + i]
  <2>1. Rest(s) = SubSeq(s, m + 1, Len(s))
    BY <1>2 DEF Rest
  <2>2. \A i \in (m + 1)..Len(s) : s[i] \in Names
    BY <1>1
  <2>3. /\ SubSeq(s, m + 1, Len(s)) \in Seq(Names)
        /\ Len(SubSeq(s, m + 1, Len(s))) = IF m + 1 <= Len(s) THEN Len(s) - (m + 1) + 1 ELSE 0
        /\ \A i \in 1..(Len(s) - (m + 1) + 1) : SubSeq(s, m + 1, Len(s))[i] = s[(m + 1) + i - 1]
    BY <1>1, <2>2, SubSeqProperties
  <2>4. Len(SubSeq(s, m + 1, Len(s))) = Len(s) - m
    <3> DEFINE K == IF m + 1 <= Len(s) THEN Len(s) - (m + 1) + 1 ELSE 0
    <3>1. K = Len(s) - m
      BY <1>1, LengthOfRest
    <3>2. Len(SubSeq(s, m + 1, Len(s))) = K
      BY <2>3
    <3> HIDE DEF K
    <3> QED  BY <3>1, <3>2
  <2>5. ASSUME NEW i \in 1..(Len(s) - m) PROVE SubSeq(s, m + 1, Len(s))[i] = s[m + i]
    <3>1. i \in 1..(Len(s) - (m + 1) + 1) /\ (m + 1) + i - 1 = m + i
      BY <1>1
    <3> QED  BY <2>3, <3>1
  <2> QED  BY <2>1, <2>3, <2>4, <2>5
<1>4. \A x : x \in ToSet(s) <=> \E i \in 1..Len(s) : x = s[i]
  BY <1>1 DEF ToSet
<1>5. \A x : x \in ToSet(Batch(s)) <=> \E i \in 1..m : x = s[i]
  <2>1. DOMAIN Batch(s) = 1..m
    BY <1>2, LenProperties
  <2> QED  BY <1>2, <2>1 DEF ToSet
<1>6. \A x : x \in ToSet(Rest(s)) <=> \E i \in 1..(Len(s) - m) : x = s[m + i]
  <2>1. DOMAIN Rest(s) = 1..(Len(s) - m)
    BY <1>3, LenProperties
  <2> QED  BY <1>3, <2>1 DEF ToSet
<1>7. \A x : x \in ToSet(s) <=> x \in ToSet(Batch(s)) \/ x \in ToSet(Rest(s))
  <2>1. ASSUME NEW i \in 1..m PROVE i \in 1..Len(s)
    BY <1>1
  <2>2. ASSUME NEW i \in 1..(Len(s) - m) PROVE m + i \in 1..Len(s)
    BY <1>1
  <2>3. ASSUME NEW i \in 1..Len(s) PROVE i \in 1..m \/ (i - m \in 1..(Len(s) - m) /\ m + (i - m) = i)
    BY <1>1
  <2> QED  BY <1>4, <1>5, <1>6, <2>1, <2>2, <2>3
<1>8. ToSet(s) = ToSet(Batch(s)) \cup ToSet(Rest(s))
  BY <1>7
<1>9. Oids(s) = Oids(Batch(s)) \cup Oids(Rest(s))
  BY <1>8 DEF Oids
<1> QED  BY <1>1, <1>2, <1>3, <1>8, <1>9

LEMMA AnswerType ==
  \A o \in OIDs :
    /\ Answer(o) \in Response /\ Answer(o).oid = o /\ (Answer(o).ok <=> o \in Existing)
    /\ Null(o) \in Response /\ Null(o).oid = o /\ ~Null(o).ok
<1> TAKE o \in OIDs
<1>1. Answer(o) = [oid |-> o, ok |-> o \in Existing] /\ (o \in Existing) \in BOOLEAN
  BY DEF Answer
<1>2. Answer(o) \in Response /\ Null(o) \in Response
  BY <1>1 DEF Response, Null
<1>3. Answer(o).oid = o /\ (Answer(o).ok <=> o \in Existing)
  BY DEF Answer
<1> QED  BY <1>2, <1>3 DEF Null

LEMMA NamesType == \A s \in Seq(Names) : Oids(s) \subseteq OIDs /\ \A n \in ToSet(s) : n \in Names /\ Oid(n) \in OIDs
<1> TAKE s \in Seq(Names)
<1>1. \A n \in ToSet(s) : n \in Names
  BY LenProperties, ElementOfSeq DEF ToSet
<1>2. \A n \in Names : Oid(n) \in OIDs
  BY DEF Names, Oid
<1> QED  BY <1>1, <1>2 DEF Oids

LEMMA NoNames == Oids(<<>>) = {}
BY Empty DEF Oids

LEMMA KeysType == \A o \in OIDs : Dotted(o) \in Names /\ Dotted(o) \in Keys /\ Oid(Dotted(o)) = o
BY DEF Dotted, Names, Keys, Oid

\* The device answers every name of a request, well or with null values.
LEMMA AnswersOf ==
  ASSUME NEW s \in Seq(Names)
  PROVE  /\ Answers(s) \in Seq(Response) /\ Len(Answers(s)) = Len(s) /\ Len(s) \in Nat
         /\ ToSet(Answers(s)) = {Answer(o) : o \in Oids(s)}
         /\ Nulls(s) \in Seq(Response) /\ Len(Nulls(s)) = Len(s)
         /\ ToSet(Nulls(s)) = {Null(o) : o \in Oids(s)}
<1>1. Len(s) \in Nat /\ DOMAIN s = 1..Len(s) /\ \A i \in 1..Len(s) : s[i] \in Names
  BY LenProperties, ElementOfSeq
<1>2. \A i \in 1..Len(s) : Oid(s[i]) \in OIDs
  BY <1>1 DEF Names, Oid
<1>3. /\ DOMAIN Answers(s) = 1..Len(s) /\ \A i \in 1..Len(s) : Answers(s)[i] = Answer(Oid(s[i]))
      /\ DOMAIN Nulls(s) = 1..Len(s) /\ \A i \in 1..Len(s) : Nulls(s)[i] = Null(Oid(s[i]))
  BY <1>1 DEF Answers, Nulls
<1>4. Answers(s) \in [1..Len(s) -> Response] /\ Nulls(s) \in [1..Len(s) -> Response]
  BY <1>1, <1>2, AnswerType DEF Answers, Nulls
<1>5. Answers(s) \in Seq(Response) /\ Nulls(s) \in Seq(Response)
  BY <1>1, <1>4, FunctionIsSeq
<1>6. Len(Answers(s)) = Len(s) /\ Len(Nulls(s)) = Len(s)
  BY <1>1, <1>3, <1>5, LenProperties
<1>7. Oids(s) = {Oid(s[i]) : i \in 1..Len(s)}
  BY <1>1 DEF Oids, ToSet
<1>8. ToSet(Answers(s)) = {Answer(o) : o \in Oids(s)}
  BY <1>3, <1>7 DEF ToSet
<1>9. ToSet(Nulls(s)) = {Null(o) : o \in Oids(s)}
  BY <1>3, <1>7 DEF ToSet
<1> QED  BY <1>1, <1>5, <1>6, <1>8, <1>9

\* The subtree is a sequence of answers of the device.
LEMMA WholeType ==
  /\ Whole \in Seq(Response) /\ Len(Whole) \in Nat
  /\ \A r \in ToSet(Whole) : r.oid \in Existing /\ r = Answer(r.oid)
<1> DEFINE S  == Subtree \cap Existing
           os == SetToSeq(S)
           n  == Cardinality(S)
<1>1. IsFiniteSet(S) /\ S \subseteq OIDs
  BY OIDsAssumption, FS_Subset
<1>2. n \in Nat /\ \E f : f \in Bijection(1..n, S)
  BY <1>1, FS_CardinalityType DEF ExistsBijection
<1>3. \E f \in [1..n -> S] : IsInjective(f)
  BY <1>2 DEF Bijection, Injection, Surjection, IsInjective
<1>4. os \in [1..n -> S]
  BY <1>3 DEF SetToSeq
<1>5. Whole = [i \in 1..n |-> Answer(os[i])]
  BY <1>4 DEF Whole
<1> HIDE DEF os, n
<1>6. \A i \in 1..n : os[i] \in OIDs /\ os[i] \in Existing
  BY <1>1, <1>4
<1>7. Whole \in [1..n -> Response]
  BY <1>5, <1>6, AnswerType
<1>8. Whole \in Seq(Response) /\ Len(Whole) \in Nat
  BY <1>2, <1>7, FunctionIsSeq, LenProperties
<1>9. ASSUME NEW r \in ToSet(Whole) PROVE r.oid \in Existing /\ r = Answer(r.oid)
  <2>1. PICK i \in 1..n : r = Answer(os[i])
    BY <1>5 DEF ToSet
  <2> QED  BY <1>6, <2>1, AnswerType
<1> QED  BY <1>8, <1>9

\* What a walk may bring is a part of it, or all.
LEMMA WalksType ==
  \A rs \in Walks : rs \in Seq(Response) /\ ToSet(rs) \subseteq ToSet(Whole)
<1> TAKE rs \in Walks
<1>1. PICK n \in 0..Len(Whole) : rs = SubSeq(Whole, 1, n)
  BY DEF Walks
<1>2. Whole \in Seq(Response) /\ Len(Whole) \in Nat /\ DOMAIN Whole = 1..Len(Whole)
      /\ \A i \in 1..Len(Whole) : Whole[i] \in Response
  BY WholeType, LenProperties, ElementOfSeq
<1>3. \A i \in 1..n : i \in 1..Len(Whole) /\ Whole[i] \in Response
  BY <1>2
<1>4. /\ SubSeq(Whole, 1, n) \in Seq(Response)
      /\ Len(SubSeq(Whole, 1, n)) = IF 1 <= n THEN n - 1 + 1 ELSE 0
      /\ \A i \in 1..(n - 1 + 1) : SubSeq(Whole, 1, n)[i] = Whole[1 + i - 1]
  BY <1>3, SubSeqProperties
<1>5. rs \in Seq(Response) /\ Len(rs) = n /\ \A i \in 1..n : rs[i] = Whole[i]
  BY <1>1, <1>4
<1>6. DOMAIN rs = 1..n
  BY <1>5, LenProperties
<1> QED  BY <1>2, <1>3, <1>5, <1>6 DEF ToSet

LEMMA NotEmpty == \A S : \A s \in Seq(S) : s # <<>> => ToSet(s) # {}
<1> TAKE S
<1> TAKE s \in Seq(S)
<1> HAVE s # <<>>
<1>1. ToSet(s) = {Head(s)} \cup ToSet(Tail(s))
  BY HeadAndTail
<1> QED  BY <1>1
-----------------------------------------------------------------------------
(* What a call returns *)

\* AnswersComplete, of the answer to one call.
Complete(names, kind, rs, S) ==
  /\ kind = "get" =>
       /\ Len(rs) <= Len(names)
       /\ \A o \in Oids(names) \ S : Answer(o) \in ToSet(rs)
       /\ \A r \in ToSet(rs) : r.oid \in Oids(names) /\ (r = Answer(r.oid) \/ r.oid \in S)
       /\ Oids(names) \cap Existing # {}
  /\ kind = "notfound" => Oids(names) \cap Existing \subseteq S
  /\ kind = "walk" =>
       /\ rs # <<>> /\ ToSet(rs) \subseteq ToSet(Whole)
       /\ Tree \notin S => ToSet(rs) = ToSet(Whole)

LEMMA AllComplete ==
  AnswersComplete <=> \A c \in Callers : Complete(asked[c], result[c].kind, result[c].responses, refused)
BY DEF AnswersComplete, Complete

\* It stays so when more is refused.
LEMMA CompleteGrows ==
  ASSUME NEW names, NEW kind, NEW rs, NEW S, NEW T, S \subseteq T, Complete(names, kind, rs, S)
  PROVE  Complete(names, kind, rs, T)
BY DEF Complete

LEMMA WalkGrows == ASSUME NEW R, NEW S, NEW T, S \subseteq T, WalkOf(R, S) PROVE WalkOf(R, T)
BY DEF WalkOf

LEMMA CoverGrows ==
  ASSUME NEW F, NEW Q, NEW os, NEW S, NEW T, S \subseteq T, Covered(F, Q, os, S)
  PROVE  Covered(F, Q, os, T)
BY DEF Covered

Kinds == {"none", "get", "notfound", "walk", "http", "error"}

LEMMA ResultType ==
  ASSUME NEW kind \in Kinds, NEW rs \in Seq(Response)
  PROVE  LET r == [kind |-> kind, responses |-> rs]
         IN  r \in [kind : Kinds, responses : Seq(Response)] /\ r.kind = kind /\ r.responses = rs
OBVIOUS

LEMMA NoResultType ==
  NoResult \in [kind : Kinds, responses : Seq(Response)] /\ NoResult.kind = "none"
BY Empty, ResultType DEF NoResult, Kinds

LEMMA ReturnType ==
  ASSUME TypeOK, NEW c \in Callers, NEW kind \in Kinds, NEW rs \in Seq(Response), Return(c, kind, rs)
  PROVE  /\ pc' = [pc EXCEPT ![c] = "idle"]
         /\ result' \in [Callers -> [kind : Kinds, responses : Seq(Response)]]
         /\ result'[c].kind = kind /\ result'[c].responses = rs
         /\ \A d \in Callers \ {c} : result'[d] = result[d]
<1> DEFINE r == [kind |-> kind, responses |-> rs]
<1>1. r \in [kind : Kinds, responses : Seq(Response)] /\ r.kind = kind /\ r.responses = rs
  BY ResultType
<1>2. pc' = [pc EXCEPT ![c] = "idle"] /\ result' = [result EXCEPT ![c] = r]
  BY DEF Return
<1>3. result \in [Callers -> [kind : Kinds, responses : Seq(Response)]]
  BY DEF TypeOK, Kinds
<1> HIDE DEF r
<1> QED  BY <1>1, <1>2, <1>3

\* The steps that change nothing but where the caller stands.
Moves(c) ==
  \/ LookedUp(c) \/ Stored(c) \/ WalkMissed(c) \/ BulkFails(c) \/ HTTPMissed(c)

\* The steps that return, and what.
Returns(c, kind, rs) ==
  /\ kind \in Kinds /\ rs \in Seq(Response)
  /\ Return(c, kind, rs)
  /\ Complete(asked[c], kind, rs, refused)
  /\ pc[c] # "lookup" /\ batch[c] = <<>> /\ reqOIDs'[c] = <<>>
  /\ UNCHANGED <<calls, asked, todo, batch, found, known>>
  /\ reqOIDs' \in {reqOIDs, [reqOIDs EXCEPT ![c] = <<>>]}
  /\ refused' \in {refused, refused \cup {Tree}}
  /\ \/ UNCHANGED <<cache, tree, answered>>
     \/ /\ UNCHANGED tree
        /\ \E k \in {Tree, Path}, status \in {"ok", "failed"} :
             /\ cache' = [cache EXCEPT ![k] = status] /\ answered' = answered \cup {k}
             /\ k = Tree => status = "failed"
     \/ /\ cache' = [cache EXCEPT ![Tree] = "ok"] /\ answered' = answered \cup {Tree}
        /\ tree' = rs /\ WalkOf(ToSet(rs), refused)

\* A get that has nothing left to request has all its answers.
LEMMA GetComplete ==
  ASSUME IInv, NEW c \in Callers, pc[c] = "get", reqOIDs[c] = <<>>
  PROVE  IF Successful(found[c]) THEN Complete(asked[c], "get", found[c], refused)
                                 ELSE Complete(asked[c], "notfound", <<>>, refused)
<1> DEFINE F == ToSet(found[c])
           os == Oids(asked[c])
<1>1. todo[c] = <<>> /\ batch[c] = <<>>
  BY DEF IInv, Left
<1>2. asked[c] \in Seq(Names) /\ found[c] \in Seq(Response) /\ Len(found[c]) \in Nat
  BY LenProperties DEF IInv, TypeOK
<1>3. /\ NoMore(found[c], <<>>, <<>>, <<>>, asked[c])
      /\ Covered(F \cup ToSet(<<>>), Oids(<<>>) \cup Oids(<<>>), os, refused)
  BY <1>1 DEF IInv, InPlace
<1>4. Len(found[c]) <= Len(asked[c])
  <2>1. Len(found[c]) + 0 + 0 + 0 <= Len(asked[c])
    BY <1>3, Empty DEF NoMore
  <2> QED  BY <1>2, <2>1
<1>5. Covered(F, {}, os, refused)
  <2>1. F \cup {} = F /\ {} \cup {} = {}
    OBVIOUS
  <2>2. Covered(F \cup {}, {} \cup {}, os, refused)
    BY <1>3, Empty, NoNames
  <2> QED  BY <2>1, <2>2
<1>6. \A r \in F : Fair(r)
  BY DEF IInv, Genuine
<1>7. os \subseteq OIDs
  BY <1>2, NamesType
<1>8. Successful(found[c]) <=> \E r \in F : r.ok
  BY DEF Successful, ToSet
<1>9. CASE \E r \in F : r.ok
  <2>1. os \cap Existing # {}
    BY <1>5, <1>6, <1>9 DEF Fair, Covered
  <2>2. Complete(asked[c], "get", found[c], refused)
    BY <1>4, <1>5, <1>6, <2>1 DEF Complete, Fair, Covered
  <2> QED  BY <1>8, <1>9, <2>2
<1>10. CASE ~\E r \in F : r.ok
  <2>1. os \cap Existing \subseteq refused
    BY <1>5, <1>7, <1>10, AnswerType DEF Covered
  <2> QED  BY <1>8, <1>10, <2>1 DEF Complete
<1> QED  BY <1>9, <1>10

LEMMA ReturningSteps ==
  ASSUME IInv, NEW c \in Callers,
         RequestFails(c) \/ GetReturns(c) \/ WalkCached(c) \/ WalkFails(c) \/ WalkReturns(c)
           \/ HTTPCached(c) \/ HTTPAnswer(c)
  PROVE  \E kind, rs : Returns(c, kind, rs)
<1> USE DEF Kinds, cacheVars
<1>1. <<>> \in Seq(Response) /\ found[c] \in Seq(Response) /\ tree \in Seq(Response)
      /\ reqOIDs \in [Callers -> Seq(Names)] /\ ToSet(<<>>) = {}
  BY Empty DEF IInv, TypeOK
<1>2. \A rs : Complete(asked[c], "error", rs, refused) /\ Complete(asked[c], "http", rs, refused)
  BY DEF Complete
<1>3. /\ pc[c] \notin {"store", "storewalk"} => batch[c] = <<>>
      /\ pc[c] \notin {"lookup", "get", "store"} => reqOIDs[c] = <<>>
  BY DEF IInv, Left
<1>4. CASE RequestFails(c)
  <2>1. Returns(c, "error", <<>>)
    BY <1>1, <1>2, <1>3, <1>4 DEF RequestFails, Returns
  <2> QED  BY <2>1
<1>5. CASE GetReturns(c)
  <2>1. Returns(c, "get", found[c]) \/ Returns(c, "notfound", <<>>)
    BY <1>1, <1>3, <1>5, GetComplete DEF GetReturns, Returns
  <2> QED  BY <2>1
<1>6. CASE WalkCached(c)
  <2>1. cache[Tree] = "ok" => Complete(asked[c], "walk", tree, refused)
    BY <1>1 DEF Complete, IInv, WalkInPlace, WalkOf
  <2>2. Returns(c, "walk", tree) \/ Returns(c, "error", <<>>)
    BY <1>1, <1>2, <1>3, <1>6, <2>1 DEF WalkCached, Returns
  <2> QED  BY <2>2
<1>7. CASE WalkFails(c)
  <2>1. Returns(c, "error", <<>>)
    BY <1>1, <1>2, <1>3, <1>7 DEF WalkFails, Returns
  <2> QED  BY <2>1
<1>8. CASE WalkReturns(c)
  <2>1. WalkOf(ToSet(found[c]), refused)
    <3>1. WalkOf(ToSet(found[c]) \cup ToSet(<<>>), refused)
      BY <1>8 DEF WalkReturns, IInv, WalkInPlace
    <3> QED  BY <1>1, <3>1
  <2>2. Complete(asked[c], "walk", found[c], refused)
    BY <1>1, <2>1 DEF Complete, WalkOf
  <2>3. Returns(c, "walk", found[c])
    BY <1>1, <1>3, <1>8, <2>1, <2>2 DEF WalkReturns, Returns
  <2> QED  BY <2>3
<1>9. CASE HTTPCached(c)
  <2>1. Returns(c, "http", <<>>)
    BY <1>1, <1>2, <1>3, <1>9 DEF HTTPCached, Returns
  <2> QED  BY <2>1
<1>10. ASSUME NEW status \in {"ok", "failed"}, HTTPRequest(c, status)
       PROVE  \E kind, rs : Returns(c, kind, rs)
  <2>1. Returns(c, IF status = "ok" THEN "http" ELSE "error", <<>>)
    BY <1>1, <1>2, <1>3, <1>10, KeysAssumption DEF HTTPRequest, Returns
  <2> QED  BY <2>1
<1> QED  BY <1>4, <1>5, <1>6, <1>7, <1>8, <1>9, <1>10 DEF HTTPAnswer

LEMMA InitInv == Init => IInv
<1> SUFFICES ASSUME Init PROVE IInv
  OBVIOUS
<1>1. TypeOK
  BY Empty, NoResultType, CallsAssumption DEF Init, TypeOK, Kinds
<1>2. Truthful /\ Genuine /\ Remembered /\ NotAskedAgain
  BY Empty DEF Init, Truthful, Genuine, Remembered, NotAskedAgain, Keys
<1>3. Left /\ InPlace /\ WalkInPlace
  BY DEF Init, Left, InPlace, WalkInPlace, Keys
<1>4. AnswersComplete
  BY NoResultType DEF Init, AnswersComplete
<1> QED  BY <1>1, <1>2, <1>3, <1>4 DEF IInv
-----------------------------------------------------------------------------
(* The steps *)

LEMMA BeginInv ==
  ASSUME IInv, NEW c \in Callers, NEW names \in Seq(Names), NEW at,
         \/ at = "lookup"
         \/ at \in {"walklookup", "httplookup"} /\ names = <<>>,
         Begin(c, names, at)
  PROVE  IInv'
<1> USE DEF Begin, cacheVars
<1>1. TypeOK'
  BY NoResultType, Empty, CallsAssumption DEF IInv, TypeOK, Kinds
<1>2. pc[c] = "idle" /\ reqOIDs[c] = <<>> /\ batch[c] = <<>>
  BY DEF IInv, Left
<1>3. Truthful' /\ Remembered'
  BY DEF IInv, TypeOK, Truthful, Remembered
<1>4. Genuine'
  BY <1>2, Empty DEF IInv, TypeOK, Genuine, Fair
<1>5. Left'
  BY DEF IInv, TypeOK, Left
<1>6. InPlace'
  <2>1. NoMore(<<>>, <<>>, <<>>, names, names)
    <3>1. Len(names) \in Nat
      BY LenProperties
    <3>2. 0 + 0 + 0 + Len(names) <= Len(names)
      BY <3>1
    <3> QED  BY <3>2, Empty DEF NoMore
  <2>2. Covered(ToSet(<<>>) \cup ToSet(<<>>), Oids(<<>>) \cup Oids(names), Oids(names), refused)
    BY Empty, NoNames DEF Covered
  <2> QED  BY <1>2, <2>1, <2>2 DEF IInv, TypeOK, InPlace
<1>7. WalkInPlace'
  BY DEF IInv, TypeOK, WalkInPlace
<1>8. AnswersComplete'
  BY NoResultType DEF IInv, TypeOK, AnswersComplete
<1>9. NotAskedAgain'
  BY <1>2, Empty DEF IInv, TypeOK, NotAskedAgain
<1> QED  BY <1>1, <1>3, <1>4, <1>5, <1>6, <1>7, <1>8, <1>9 DEF IInv

LEMMA MovesInv == ASSUME IInv, NEW c \in Callers, Moves(c) PROVE IInv'
<1> USE DEF Moves, LookedUp, Stored, WalkMissed, BulkFails, HTTPMissed, callVars, cacheVars
<1>1. TypeOK'
  BY DEF IInv, TypeOK
<1>2. Truthful' /\ Genuine' /\ Remembered' /\ AnswersComplete'
  BY DEF IInv, Truthful, Genuine, Fair, Remembered, AnswersComplete
<1>3. Left'
  BY DEF IInv, TypeOK, Left
<1>4. \A d \in Callers :
        /\ pc'[d] \in {"lookup", "get", "store"} => pc[d] \in {"lookup", "get", "store"}
        /\ pc'[d] = "storewalk" => pc[d] = "storewalk"
  BY DEF IInv, TypeOK
<1>5. UNCHANGED <<cache, tree, asked, todo, reqOIDs, batch, found, refused>>
  OBVIOUS
<1>6. InPlace'
  BY <1>4, <1>5 DEF IInv, InPlace
<1>7. WalkInPlace'
  BY <1>4, <1>5 DEF IInv, WalkInPlace
<1>8. NotAskedAgain'
  BY DEF IInv, TypeOK, NotAskedAgain, Remembered
<1> QED  BY <1>1, <1>2, <1>3, <1>6, <1>7, <1>8 DEF IInv

LEMMA ReturnsInv ==
  ASSUME IInv, NEW c \in Callers, NEW kind, NEW rs, Returns(c, kind, rs)
  PROVE  IInv'
<1>1. /\ pc' = [pc EXCEPT ![c] = "idle"]
      /\ result' \in [Callers -> [kind : Kinds, responses : Seq(Response)]]
      /\ result'[c].kind = kind /\ result'[c].responses = rs
      /\ \A d \in Callers \ {c} : result'[d] = result[d]
  BY ReturnType DEF IInv, Returns
<1>2. /\ reqOIDs' \in [Callers -> Seq(Names)] /\ reqOIDs'[c] = <<>>
      /\ \A d \in Callers \ {c} : reqOIDs'[d] = reqOIDs[d]
  <2>1. reqOIDs \in [Callers -> Seq(Names)] /\ <<>> \in Seq(Names)
    BY Empty DEF IInv, TypeOK
  <2>2. CASE reqOIDs' = reqOIDs
    BY <2>1, <2>2 DEF Returns
  <2>3. CASE reqOIDs' = [reqOIDs EXCEPT ![c] = <<>>]
    BY <2>1, <2>3
  <2> QED  BY <2>2, <2>3 DEF Returns
<1>3. /\ cache' \in [Keys -> {"none", "ok", "failed"}] /\ answered' \subseteq Keys
      /\ answered \subseteq answered'
      /\ \A k \in Keys : cache[k] # "none" => cache'[k] # "none"
      /\ \A k \in answered' \ answered : cache'[k] # "none"
      /\ \A n \in Names : cache'[n] = cache[n]
  BY KeysAssumption DEF Returns, IInv, TypeOK, Keys
<1>4. tree' \in Seq(Response) /\ refused \subseteq refused' /\ refused' \subseteq OIDs \cup {Tree}
  BY DEF Returns, IInv, TypeOK
<1>5. TypeOK'
  BY <1>1, <1>2, <1>3, <1>4 DEF Returns, IInv, TypeOK, Kinds
<1>6. Truthful' /\ Genuine'
  BY <1>3, <1>4 DEF Returns, IInv, Truthful, Genuine, Fair
<1>7. Remembered'
  BY <1>3 DEF Returns, IInv, Remembered, TypeOK
<1>8. Left'
  BY <1>1, <1>2 DEF Returns, IInv, TypeOK, Left
<1>9. InPlace'
  <2>1. ASSUME NEW d \in Callers, pc'[d] \in {"lookup", "get", "store"}
        PROVE  /\ NoMore(found[d], batch[d], reqOIDs'[d], todo[d], asked[d])
               /\ Covered(ToSet(found[d]) \cup ToSet(batch[d]), Oids(reqOIDs'[d]) \cup Oids(todo[d]),
                          Oids(asked[d]), refused')
    <3>1. d # c /\ pc'[d] = pc[d] /\ reqOIDs'[d] = reqOIDs[d]
      BY <1>1, <1>2, <2>1 DEF IInv, TypeOK
    <3>2. /\ NoMore(found[d], batch[d], reqOIDs[d], todo[d], asked[d])
          /\ Covered(ToSet(found[d]) \cup ToSet(batch[d]), Oids(reqOIDs[d]) \cup Oids(todo[d]),
                     Oids(asked[d]), refused)
      BY <2>1, <3>1 DEF IInv, InPlace
    <3> QED  BY <1>4, <3>1, <3>2, CoverGrows
  <2> QED  BY <2>1 DEF Returns, InPlace
<1>10. WalkInPlace'
  <2>1. ASSUME NEW d \in Callers, pc'[d] = "storewalk"
        PROVE  WalkOf(ToSet(found[d]) \cup ToSet(batch[d]), refused')
    <3>1. pc[d] = "storewalk"
      BY <1>1, <2>1 DEF IInv, TypeOK
    <3>2. WalkOf(ToSet(found[d]) \cup ToSet(batch[d]), refused)
      BY <3>1 DEF IInv, WalkInPlace
    <3> QED  BY <1>4, <3>2, WalkGrows
  <2>2. ASSUME cache'[Tree] = "ok" PROVE WalkOf(ToSet(tree'), refused')
    <3>1. WalkOf(ToSet(tree'), refused)
      BY <2>2, KeysAssumption DEF Returns, IInv, WalkInPlace, TypeOK, Keys
    <3> QED  BY <1>4, <3>1, WalkGrows
  <2> QED  BY <2>1, <2>2 DEF Returns, WalkInPlace
<1>11. AnswersComplete'
  <2>1. ASSUME NEW d \in Callers
        PROVE  Complete(asked[d], result'[d].kind, result'[d].responses, refused')
    <3>1. Complete(asked[d], result'[d].kind, result'[d].responses, refused)
      BY <1>1, AllComplete DEF Returns, IInv
    <3> QED  BY <1>4, <3>1, CompleteGrows
  <2>2. asked' = asked
    BY DEF Returns
  <2> QED  BY <2>1, <2>2 DEF AnswersComplete, Complete
<1>12. NotAskedAgain'
  BY <1>1, <1>2, Empty DEF Returns, IInv, TypeOK, NotAskedAgain
<1> QED  BY <1>5, <1>6, <1>7, <1>8, <1>9, <1>10, <1>11, <1>12 DEF IInv

\* A name goes on the list of requests, or its response to what was found.
LEMMA LookUpPlaces ==
  ASSUME NEW f \in Seq(Response), NEW b \in Seq(Response), NEW q \in Seq(Names), NEW t \in Seq(Names),
         NEW a \in Seq(Names), NEW r \in Response, NEW S,
         t # <<>>, r.oid = Oid(Head(t)), r = Answer(r.oid) \/ r.oid \in S,
         NoMore(f, b, q, t, a), Covered(ToSet(f) \cup ToSet(b), Oids(q) \cup Oids(t), Oids(a), S)
  PROVE  /\ NoMore(f, b, Append(q, Head(t)), Tail(t), a)
         /\ Covered(ToSet(f) \cup ToSet(b), Oids(Append(q, Head(t))) \cup Oids(Tail(t)), Oids(a), S)
         /\ NoMore(Append(f, r), b, q, Tail(t), a)
         /\ Covered(ToSet(Append(f, r)) \cup ToSet(b), Oids(q) \cup Oids(Tail(t)), Oids(a), S)
<1> DEFINE n == Head(t)
           fl == Len(f) bl == Len(b) ql == Len(q) tl == Len(Tail(t)) al == Len(a)
<1>1. n \in Names /\ Tail(t) \in Seq(Names) /\ Len(t) = tl + 1 /\ tl \in Nat
      /\ ToSet(t) = {n} \cup ToSet(Tail(t))
  BY HeadAndTail
<1>2. /\ Append(q, n) \in Seq(Names) /\ Len(Append(q, n)) = ql + 1 /\ ql \in Nat
      /\ ToSet(Append(q, n)) = ToSet(q) \cup {n}
  BY <1>1, Appended
<1>3. /\ Append(f, r) \in Seq(Response) /\ Len(Append(f, r)) = fl + 1 /\ fl \in Nat
      /\ ToSet(Append(f, r)) = ToSet(f) \cup {r}
  BY Appended
<1>4. bl \in Nat /\ al \in Nat
  BY LenProperties
<1>5. fl + bl + ql + (tl + 1) <= al
  BY <1>1 DEF NoMore
<1>6. Oids(t) = {Oid(n)} \cup Oids(Tail(t)) /\ Oids(Append(q, n)) = Oids(q) \cup {Oid(n)}
  BY <1>1, <1>2 DEF Oids
<1> HIDE DEF fl, bl, ql, tl, al
<1>7. fl + bl + (ql + 1) + tl <= al /\ (fl + 1) + bl + ql + tl <= al
  BY <1>1, <1>2, <1>3, <1>4, <1>5
<1>8. NoMore(f, b, Append(q, n), Tail(t), a)
  BY <1>2, <1>7 DEF NoMore, fl, bl, ql, tl, al
<1>9. NoMore(Append(f, r), b, q, Tail(t), a)
  BY <1>3, <1>7 DEF NoMore, fl, bl, ql, tl, al
<1>10. Covered(ToSet(f) \cup ToSet(b), Oids(Append(q, n)) \cup Oids(Tail(t)), Oids(a), S)
  <2>1. Oids(Append(q, n)) \cup Oids(Tail(t)) = Oids(q) \cup Oids(t)
    BY <1>6
  <2> QED  BY <2>1
<1>11. Covered(ToSet(Append(f, r)) \cup ToSet(b), Oids(q) \cup Oids(Tail(t)), Oids(a), S)
  BY <1>3, <1>6 DEF Covered
<1> QED  BY <1>8, <1>9, <1>10, <1>11

\* What is looked up was answered before or is requested.
LEMMA LookUpInv == ASSUME IInv, NEW c \in Callers, LookUp(c) PROVE IInv'
<1> DEFINE n == Head(todo[c])
           r == [oid |-> Oid(n), ok |-> cache[n] = "ok"]
<1>1. /\ pc[c] = "lookup" /\ todo[c] \in Seq(Names) /\ todo[c] # <<>>
      /\ todo' = [todo EXCEPT ![c] = Tail(@)]
      /\ UNCHANGED <<cache, tree, answered, refused, calls, pc, asked, batch, result, known>>
      /\ \/ cache[n] = "none" /\ reqOIDs' = [reqOIDs EXCEPT ![c] = Append(@, n)] /\ UNCHANGED found
         \/ cache[n] # "none" /\ found' = [found EXCEPT ![c] = Append(@, r)] /\ UNCHANGED reqOIDs
  BY DEF LookUp, cacheVars, IInv, TypeOK
<1>2. n \in Names /\ Oid(n) \in OIDs /\ Tail(todo[c]) \in Seq(Names)
  BY <1>1, HeadAndTail DEF Names, Oid
<1>3. r \in Response /\ r.oid = Oid(n) /\ (cache[n] # "none" => Fair(r))
  <2>1. r \in Response /\ r.oid = Oid(n) /\ r.ok = (cache[n] = "ok")
    BY <1>2 DEF Response
  <2>2. n \in Keys /\ cache[n] \in {"none", "ok", "failed"}
    BY <1>2 DEF IInv, TypeOK, Keys
  <2>3. CASE cache[n] = "ok"
    <3>1. Oid(n) \in Existing /\ (cache[n] = "ok") = TRUE /\ (Oid(n) \in Existing) = TRUE
      BY <1>2, <2>3 DEF IInv, Truthful
    <3>2. r = Answer(Oid(n))
      BY <3>1 DEF Answer
    <3> QED  BY <2>1, <3>1, <3>2 DEF Fair
  <2>4. CASE cache[n] = "failed"
    <3>1. (cache[n] = "ok") = FALSE /\ (Oid(n) \in refused \/ (Oid(n) \in Existing) = FALSE)
      BY <1>2, <2>4 DEF IInv, Truthful
    <3>2. r = Answer(Oid(n)) \/ Oid(n) \in refused
      BY <3>1 DEF Answer
    <3> QED  BY <2>1, <3>1, <3>2 DEF Fair
  <2> QED  BY <2>1, <2>2, <2>3, <2>4
<1> HIDE DEF r
<1>4. /\ found[c] \in Seq(Response) /\ batch[c] \in Seq(Response) /\ reqOIDs[c] \in Seq(Names)
      /\ asked[c] \in Seq(Names)
  BY DEF IInv, TypeOK
<1>5. /\ Append(reqOIDs[c], n) \in Seq(Names) /\ ToSet(Append(reqOIDs[c], n)) = ToSet(reqOIDs[c]) \cup {n}
      /\ Append(found[c], r) \in Seq(Response) /\ ToSet(Append(found[c], r)) = ToSet(found[c]) \cup {r}
  BY <1>2, <1>3, <1>4, Appended
<1>6. TypeOK'
  <2>1. todo' \in [Callers -> Seq(Names)]
    BY <1>1, <1>2 DEF IInv, TypeOK
  <2>2. reqOIDs' \in [Callers -> Seq(Names)]
    BY <1>1, <1>5 DEF IInv, TypeOK
  <2>3. found' \in [Callers -> Seq(Response)]
    BY <1>1, <1>5 DEF IInv, TypeOK
  <2> QED  BY <1>1, <2>1, <2>2, <2>3 DEF IInv, TypeOK
<1>7. Truthful' /\ Remembered' /\ AnswersComplete'
  BY <1>1 DEF IInv, Truthful, Remembered, AnswersComplete
<1>8. Genuine'
  <2>1. ASSUME NEW d \in Callers, NEW x \in ToSet(batch[d]) \cup ToSet(found'[d]) PROVE Fair(x)
    <3>1. x \in ToSet(batch[d]) \cup ToSet(found[d]) \/ (x = r /\ cache[n] # "none")
      BY <1>1, <1>5 DEF IInv, TypeOK
    <3> QED  BY <1>3, <3>1 DEF IInv, Genuine
  <2> QED  BY <1>1, <2>1 DEF Genuine, Fair
<1>9. Left'
  BY <1>1 DEF IInv, TypeOK, Left
<1>10. /\ NoMore(found'[c], batch[c], reqOIDs'[c], todo'[c], asked[c])
       /\ Covered(ToSet(found'[c]) \cup ToSet(batch[c]), Oids(reqOIDs'[c]) \cup Oids(todo'[c]),
                  Oids(asked[c]), refused)
  <2>1. /\ NoMore(found[c], batch[c], reqOIDs[c], todo[c], asked[c])
        /\ Covered(ToSet(found[c]) \cup ToSet(batch[c]), Oids(reqOIDs[c]) \cup Oids(todo[c]),
                   Oids(asked[c]), refused)
    BY <1>1 DEF IInv, InPlace
  <2>2. todo'[c] = Tail(todo[c])
    BY <1>1 DEF IInv, TypeOK
  <2>3. CASE cache[n] = "none"
    <3>1. reqOIDs'[c] = Append(reqOIDs[c], n) /\ found'[c] = found[c]
      BY <1>1, <2>3 DEF IInv, TypeOK
    <3>2. Answer(Oid(n)) \in Response /\ Answer(Oid(n)).oid = Oid(n)
      BY <1>2, AnswerType
    <3>3. /\ NoMore(found[c], batch[c], Append(reqOIDs[c], n), Tail(todo[c]), asked[c])
          /\ Covered(ToSet(found[c]) \cup ToSet(batch[c]),
                     Oids(Append(reqOIDs[c], n)) \cup Oids(Tail(todo[c])), Oids(asked[c]), refused)
      BY <1>1, <1>4, <2>1, <3>2, LookUpPlaces
    <3> QED  BY <2>2, <3>1, <3>3
  <2>4. CASE cache[n] # "none"
    <3>1. found'[c] = Append(found[c], r) /\ reqOIDs'[c] = reqOIDs[c]
      BY <1>1, <2>4 DEF IInv, TypeOK
    <3>2. r = Answer(r.oid) \/ r.oid \in refused
      BY <1>3, <2>4 DEF Fair
    <3>3. /\ NoMore(Append(found[c], r), batch[c], reqOIDs[c], Tail(todo[c]), asked[c])
          /\ Covered(ToSet(Append(found[c], r)) \cup ToSet(batch[c]),
                     Oids(reqOIDs[c]) \cup Oids(Tail(todo[c])), Oids(asked[c]), refused)
      BY <1>1, <1>3, <1>4, <2>1, <3>2, LookUpPlaces
    <3> QED  BY <2>2, <3>1, <3>3
  <2> QED  BY <2>3, <2>4
<1>11. InPlace' /\ WalkInPlace'
  <2>1. \A d \in Callers \ {c} :
          found'[d] = found[d] /\ reqOIDs'[d] = reqOIDs[d] /\ todo'[d] = todo[d]
    BY <1>1 DEF IInv, TypeOK
  <2> QED  BY <1>1, <1>10, <2>1 DEF IInv, InPlace, WalkInPlace
<1>12. NotAskedAgain'
  <2>1. cache[n] = "none" => n \notin known[c]
    BY DEF IInv, Remembered
  <2>2. \A m \in ToSet(reqOIDs'[c]) : m \in ToSet(reqOIDs[c]) \/ (m = n /\ cache[n] = "none")
    BY <1>1, <1>5 DEF IInv, TypeOK
  <2>3. \A d \in Callers \ {c} : reqOIDs'[d] = reqOIDs[d]
    BY <1>1 DEF IInv, TypeOK
  <2>4. \A o \in OIDs : Dotted(o) \in known[c] => Dotted(o) \notin ToSet(reqOIDs'[c])
    BY <2>1, <2>2 DEF IInv, NotAskedAgain
  <2> QED  BY <1>1, <2>3, <2>4 DEF IInv, NotAskedAgain
<1> QED  BY <1>6, <1>7, <1>8, <1>9, <1>11, <1>12 DEF IInv

\* A batch of names becomes the answers to it, or what an answer with an
\* error status has in their place.
LEMMA RequestPlaces ==
  ASSUME NEW f \in Seq(Response), NEW q \in Seq(Names), NEW t \in Seq(Names), NEW a \in Seq(Names),
         NEW S, NEW T, NEW b, NoMore(f, <<>>, q, t, a),
         Covered(ToSet(f) \cup ToSet(<<>>), Oids(q) \cup Oids(t), Oids(a), S),
         \/ b = Answers(Batch(q)) /\ T = S
         \/ b \in {Nulls(Batch(q)), <<>>} /\ T = S \cup Oids(Batch(q))
  PROVE  /\ b \in Seq(Response)
         /\ \A r \in ToSet(b) : \E o \in OIDs : r = Answer(o) \/ (r = Null(o) /\ o \in T)
         /\ NoMore(f, b, Rest(q), t, a)
         /\ Covered(ToSet(f) \cup ToSet(b), Oids(Rest(q)) \cup Oids(t), Oids(a), T)
<1> DEFINE x == Batch(q)
           fl == Len(f) bl == Len(b) xl == Len(x) rl == Len(Rest(q)) tl == Len(t) al == Len(a)
<1>1. /\ x \in Seq(Names) /\ Rest(q) \in Seq(Names) /\ xl \in Nat /\ rl \in Nat /\ xl + rl = Len(q)
      /\ Oids(q) = Oids(x) \cup Oids(Rest(q))
  BY BatchAndRest
<1>2. /\ Answers(x) \in Seq(Response) /\ Len(Answers(x)) = xl
      /\ ToSet(Answers(x)) = {Answer(o) : o \in Oids(x)}
      /\ Nulls(x) \in Seq(Response) /\ Len(Nulls(x)) = xl
      /\ ToSet(Nulls(x)) = {Null(o) : o \in Oids(x)}
      /\ Oids(x) \subseteq OIDs
  BY <1>1, AnswersOf, NamesType
<1>3. <<>> \in Seq(Response) /\ Len(<<>>) = 0 /\ ToSet(<<>>) = {}
  BY Empty
<1>4. fl \in Nat /\ tl \in Nat /\ al \in Nat
  BY LenProperties
<1>5. b \in Seq(Response) /\ bl \in Nat /\ bl <= xl
  <2>1. b \in Seq(Response)
    BY <1>2, <1>3
  <2>2. bl = xl \/ bl = 0
    BY <1>2, <1>3, Zenon
  <2> HIDE DEF bl, xl
  <2>3. bl \in Nat /\ bl <= xl
    BY <1>1, <2>2
  <2> QED  BY <2>1, <2>3
<1>6. \A r \in ToSet(b) : \E o \in OIDs : r = Answer(o) \/ (r = Null(o) /\ o \in T)
  BY <1>2, <1>3
<1>7. NoMore(f, b, Rest(q), t, a)
  <2>1. fl + 0 + (xl + rl) + tl <= al
    BY <1>1, <1>3 DEF NoMore
  <2> HIDE DEF fl, bl, xl, rl, tl, al
  <2>2. fl + bl + rl + tl <= al
    BY <1>1, <1>4, <1>5, <2>1
  <2> QED  BY <2>2 DEF NoMore, fl, bl, rl, tl, al
<1>8. \A r \in ToSet(b) : r.oid \in Oids(x)
  BY <1>2, <1>3, AnswerType
<1>9. \A o \in Oids(x) \ T : Answer(o) \in ToSet(b)
  BY <1>2
<1>10. Covered(ToSet(f) \cup ToSet(b), Oids(Rest(q)) \cup Oids(t), Oids(a), T)
  <2> HIDE DEF x
  <2> QED  BY <1>1, <1>3, <1>8, <1>9 DEF Covered
<1> QED  BY <1>5, <1>6, <1>7, <1>10

\* A batch is requested, and the rest remains.
LEMMA RequestInv == ASSUME IInv, NEW c \in Callers, Request(c) PROVE IInv'
<1>0. PICK b :
        /\ pc[c] = "get" /\ pc' = [pc EXCEPT ![c] = "store"]
        /\ batch' = [batch EXCEPT ![c] = b]
        /\ reqOIDs' = [reqOIDs EXCEPT ![c] = Rest(reqOIDs[c])]
        /\ UNCHANGED <<cache, tree, answered, calls, asked, todo, found, result, known>>
        /\ \/ b = Answers(Batch(reqOIDs[c])) /\ refused' = refused
           \/ b \in {Nulls(Batch(reqOIDs[c])), <<>>} /\ refused' = refused \cup Oids(Batch(reqOIDs[c]))
  BY DEF Request, cacheVars
<1>1. /\ found[c] \in Seq(Response) /\ reqOIDs[c] \in Seq(Names) /\ todo[c] \in Seq(Names)
      /\ asked[c] \in Seq(Names) /\ batch[c] = <<>>
  BY <1>0 DEF IInv, TypeOK, Left
<1>2. /\ NoMore(found[c], <<>>, reqOIDs[c], todo[c], asked[c])
      /\ Covered(ToSet(found[c]) \cup ToSet(<<>>), Oids(reqOIDs[c]) \cup Oids(todo[c]),
                 Oids(asked[c]), refused)
  BY <1>0, <1>1 DEF IInv, InPlace
<1>3. /\ b \in Seq(Response)
      /\ \A r \in ToSet(b) : \E o \in OIDs : r = Answer(o) \/ (r = Null(o) /\ o \in refused')
      /\ NoMore(found[c], b, Rest(reqOIDs[c]), todo[c], asked[c])
      /\ Covered(ToSet(found[c]) \cup ToSet(b), Oids(Rest(reqOIDs[c])) \cup Oids(todo[c]),
                 Oids(asked[c]), refused')
  BY <1>0, <1>1, <1>2, RequestPlaces
<1>4. /\ Rest(reqOIDs[c]) \in Seq(Names) /\ ToSet(Rest(reqOIDs[c])) \subseteq ToSet(reqOIDs[c])
      /\ Oids(Batch(reqOIDs[c])) \subseteq OIDs
  BY <1>1, BatchAndRest, NamesType
<1>5. refused \subseteq refused' /\ refused' \subseteq OIDs \cup {Tree}
  BY <1>0, <1>4 DEF IInv, TypeOK
<1>6. /\ batch'[c] = b /\ reqOIDs'[c] = Rest(reqOIDs[c]) /\ pc'[c] = "store"
      /\ \A d \in Callers \ {c} : batch'[d] = batch[d] /\ reqOIDs'[d] = reqOIDs[d] /\ pc'[d] = pc[d]
  BY <1>0 DEF IInv, TypeOK
<1>7. TypeOK'
  <2>1. batch' \in [Callers -> Seq(Response)]
    BY <1>0, <1>3 DEF IInv, TypeOK
  <2>2. reqOIDs' \in [Callers -> Seq(Names)]
    BY <1>0, <1>4 DEF IInv, TypeOK
  <2>3. pc' \in [Callers -> {"idle", "lookup", "get", "store", "walklookup", "bulk", "walk",
                             "storewalk", "httplookup", "http"}]
    BY <1>0 DEF IInv, TypeOK
  <2> QED  BY <1>0, <1>5, <2>1, <2>2, <2>3 DEF IInv, TypeOK
<1>8. Truthful' /\ Remembered'
  BY <1>0, <1>5 DEF IInv, Truthful, Remembered
<1>9. Genuine'
  <2>1. ASSUME NEW d \in Callers, NEW r \in ToSet(batch'[d]) \cup ToSet(found[d]) PROVE Fair(r)'
    <3>1. CASE r \in ToSet(batch[d]) \cup ToSet(found[d])
      <4>1. Fair(r)
        BY <3>1 DEF IInv, Genuine
      <4> QED  BY <1>5, <4>1 DEF Fair
    <3>2. CASE r \in ToSet(b)
      <4>1. PICK o \in OIDs : r = Answer(o) \/ (r = Null(o) /\ o \in refused')
        BY <1>3, <3>2
      <4> QED  BY <4>1, AnswerType DEF Fair
    <3> QED  BY <1>6, <2>1, <3>1, <3>2
  <2> QED  BY <1>0, <2>1 DEF Genuine
<1>10. Left'
  BY <1>0, <1>6 DEF IInv, Left
<1>11. InPlace'
  <2>1. ASSUME NEW d \in Callers, pc'[d] \in {"lookup", "get", "store"}
        PROVE  /\ NoMore(found[d], batch'[d], reqOIDs'[d], todo[d], asked[d])
               /\ Covered(ToSet(found[d]) \cup ToSet(batch'[d]), Oids(reqOIDs'[d]) \cup Oids(todo[d]),
                          Oids(asked[d]), refused')
    <3>1. CASE d = c
      BY <1>3, <1>6, <3>1
    <3>2. CASE d # c
      <4>1. pc[d] \in {"lookup", "get", "store"} /\ batch'[d] = batch[d] /\ reqOIDs'[d] = reqOIDs[d]
        BY <1>6, <2>1, <3>2
      <4>2. /\ NoMore(found[d], batch[d], reqOIDs[d], todo[d], asked[d])
            /\ Covered(ToSet(found[d]) \cup ToSet(batch[d]), Oids(reqOIDs[d]) \cup Oids(todo[d]),
                       Oids(asked[d]), refused)
        BY <4>1 DEF IInv, InPlace
      <4> QED  BY <1>5, <4>1, <4>2, CoverGrows
    <3> QED  BY <3>1, <3>2
  <2> QED  BY <1>0, <2>1 DEF InPlace
<1>12. WalkInPlace'
  <2>1. ASSUME NEW d \in Callers, pc'[d] = "storewalk"
        PROVE  WalkOf(ToSet(found[d]) \cup ToSet(batch'[d]), refused')
    <3>1. pc[d] = "storewalk" /\ batch'[d] = batch[d]
      BY <1>6, <2>1
    <3>2. WalkOf(ToSet(found[d]) \cup ToSet(batch[d]), refused)
      BY <3>1 DEF IInv, WalkInPlace
    <3> QED  BY <1>5, <3>1, <3>2, WalkGrows
  <2>2. ASSUME cache[Tree] = "ok" PROVE WalkOf(ToSet(tree), refused')
    BY <1>5, <2>2, WalkGrows DEF IInv, WalkInPlace
  <2> QED  BY <1>0, <2>1, <2>2 DEF WalkInPlace
<1>13. AnswersComplete'
  <2>1. ASSUME NEW d \in Callers
        PROVE  Complete(asked[d], result[d].kind, result[d].responses, refused')
    BY <1>5, AllComplete, CompleteGrows DEF IInv
  <2> QED  BY <1>0, <2>1 DEF AnswersComplete, Complete
<1>14. NotAskedAgain'
  BY <1>0, <1>4, <1>6 DEF IInv, NotAskedAgain
<1> QED  BY <1>7, <1>8, <1>9, <1>10, <1>11, <1>12, <1>13, <1>14 DEF IInv

\* A response is stored: in the cache, and in what was found.
LEMMA StoreInv == ASSUME IInv, NEW c \in Callers, Store(c) PROVE IInv'
<1> DEFINE r == Head(batch[c])
           k == Dotted(r.oid)
           v == Status(r)
<1>1. /\ pc[c] \in {"store", "storewalk"} /\ batch[c] \in Seq(Response) /\ batch[c] # <<>>
      /\ found[c] \in Seq(Response)
      /\ cache' = [cache EXCEPT ![k] = v]
      /\ found' = [found EXCEPT ![c] = Append(@, r)]
      /\ answered' = answered \cup {k}
      /\ batch' = [batch EXCEPT ![c] = Tail(@)]
      /\ UNCHANGED <<tree, refused, calls, pc, asked, todo, reqOIDs, result, known>>
  BY DEF Store, IInv, TypeOK
<1>2. /\ r \in Response /\ Tail(batch[c]) \in Seq(Response)
      /\ Len(batch[c]) = Len(Tail(batch[c])) + 1 /\ Len(Tail(batch[c])) \in Nat
      /\ ToSet(batch[c]) = {r} \cup ToSet(Tail(batch[c]))
  BY <1>1, HeadAndTail
<1>3. r.oid \in OIDs /\ Fair(r)
  BY <1>2 DEF IInv, Genuine, Response
<1>4. k \in Names /\ k \in Keys /\ Oid(k) = r.oid /\ k # Tree /\ Tree \in Keys
  BY <1>3, KeysType, KeysAssumption DEF Keys
<1>5. /\ v \in {"ok", "failed"}
      /\ v = "ok" => r.oid \in Existing
      /\ v = "failed" => r.oid \notin Existing \/ r.oid \in refused
  BY <1>3, AnswerType DEF Status, Fair
<1> HIDE DEF r, k, v
<1>6. /\ Append(found[c], r) \in Seq(Response) /\ Len(found[c]) \in Nat
      /\ Len(Append(found[c], r)) = Len(found[c]) + 1
      /\ ToSet(Append(found[c], r)) = ToSet(found[c]) \cup {r}
  BY <1>1, <1>2, Appended
<1>7. /\ batch'[c] = Tail(batch[c]) /\ found'[c] = Append(found[c], r)
      /\ \A d \in Callers \ {c} : batch'[d] = batch[d] /\ found'[d] = found[d]
      /\ cache'[k] = v /\ \A l \in Keys \ {k} : cache'[l] = cache[l]
  BY <1>1, <1>4 DEF IInv, TypeOK
<1>8. \A d \in Callers : ToSet(found'[d]) \cup ToSet(batch'[d]) = ToSet(found[d]) \cup ToSet(batch[d])
  BY <1>2, <1>6, <1>7
<1>9. TypeOK'
  <2>1. batch' \in [Callers -> Seq(Response)] /\ found' \in [Callers -> Seq(Response)]
    BY <1>1, <1>2, <1>6 DEF IInv, TypeOK
  <2>2. cache' \in [Keys -> {"none", "ok", "failed"}] /\ answered' \subseteq Keys
    BY <1>1, <1>4, <1>5 DEF IInv, TypeOK
  <2> QED  BY <1>1, <2>1, <2>2 DEF IInv, TypeOK
<1>10. Truthful'
  <2>1. ASSUME NEW n \in Names
        PROVE  /\ cache'[n] = "ok" => Oid(n) \in Existing
               /\ cache'[n] = "failed" => Oid(n) \notin Existing \/ Oid(n) \in refused
    <3>1. CASE n = k
      BY <1>4, <1>5, <1>7, <3>1
    <3>2. CASE n # k
      BY <1>7, <3>2 DEF IInv, Truthful, Keys
    <3> QED  BY <3>1, <3>2
  <2> QED  BY <1>1, <2>1 DEF Truthful
<1>11. Genuine'
  BY <1>1, <1>8 DEF IInv, Genuine, Fair
<1>12. Remembered'
  BY <1>1, <1>4, <1>5, <1>7 DEF IInv, TypeOK, Remembered
<1>13. Left'
  BY <1>1, <1>7 DEF IInv, Left
<1>14. AnswersComplete' /\ NotAskedAgain'
  BY <1>1 DEF IInv, AnswersComplete, NotAskedAgain
<1>15. pc[c] = "store" => NoMore(found'[c], batch'[c], reqOIDs[c], todo[c], asked[c])
  <2> SUFFICES ASSUME pc[c] = "store" PROVE NoMore(found'[c], batch'[c], reqOIDs[c], todo[c], asked[c])
    OBVIOUS
  <2> DEFINE fl == Len(found[c]) bl == Len(Tail(batch[c])) ql == Len(reqOIDs[c]) tl == Len(todo[c])
             al == Len(asked[c])
  <2>1. fl \in Nat /\ bl \in Nat /\ ql \in Nat /\ tl \in Nat /\ al \in Nat
    BY <1>2, <1>6, LenProperties DEF IInv, TypeOK
  <2>2. Len(found'[c]) = fl + 1 /\ Len(batch'[c]) = bl /\ Len(batch[c]) = bl + 1
    BY <1>2, <1>6, <1>7
  <2>3. fl + (bl + 1) + ql + tl <= al
    BY <2>2 DEF IInv, InPlace, NoMore
  <2> HIDE DEF fl, bl, ql, tl, al
  <2>4. (fl + 1) + bl + ql + tl <= al
    BY <2>1, <2>3
  <2> QED  BY <2>2, <2>4 DEF NoMore, ql, tl, al
<1>16. InPlace'
  <2>1. ASSUME NEW d \in Callers, pc[d] \in {"lookup", "get", "store"}
        PROVE  /\ NoMore(found'[d], batch'[d], reqOIDs[d], todo[d], asked[d])
               /\ Covered(ToSet(found'[d]) \cup ToSet(batch'[d]), Oids(reqOIDs[d]) \cup Oids(todo[d]),
                          Oids(asked[d]), refused)
    <3>1. NoMore(found'[d], batch'[d], reqOIDs[d], todo[d], asked[d])
      BY <1>1, <1>7, <1>15, <2>1 DEF IInv, InPlace
    <3> QED  BY <1>8, <2>1, <3>1 DEF IInv, InPlace
  <2> QED  BY <1>1, <2>1 DEF InPlace
<1>17. WalkInPlace'
  BY <1>1, <1>4, <1>7, <1>8 DEF IInv, WalkInPlace
<1> QED  BY <1>9, <1>10, <1>11, <1>12, <1>13, <1>14, <1>16, <1>17 DEF IInv

\* A walk has its responses to store.
LEMMA WalkInv == ASSUME IInv, NEW c \in Callers, Walk(c) PROVE IInv'
<1>1. PICK rs \in Walks \ {<<>>} :
        /\ pc[c] \in {"bulk", "walk"}
        /\ batch' = [batch EXCEPT ![c] = rs]
        /\ refused' = IF rs = Whole THEN refused ELSE refused \cup {Tree}
        /\ pc' = [pc EXCEPT ![c] = "storewalk"]
        /\ UNCHANGED <<cache, tree, answered, calls, asked, todo, reqOIDs, found, result, known>>
  BY DEF Walk, cacheVars
<1>2. rs \in Seq(Response) /\ ToSet(rs) \subseteq ToSet(Whole) /\ ToSet(rs) # {}
  BY WalksType, NotEmpty
<1>3. /\ batch'[c] = rs /\ pc'[c] = "storewalk" /\ found[c] = <<>>
      /\ \A d \in Callers \ {c} : batch'[d] = batch[d] /\ pc'[d] = pc[d]
  BY <1>1 DEF IInv, TypeOK, Left
<1>4. refused \subseteq refused' /\ refused' \subseteq OIDs \cup {Tree} /\ (rs = Whole \/ Tree \in refused')
  BY <1>1 DEF IInv, TypeOK
<1>5. TypeOK'
  <2>1. batch' \in [Callers -> Seq(Response)]
    BY <1>1, <1>2 DEF IInv, TypeOK
  <2> QED  BY <1>1, <1>4, <2>1 DEF IInv, TypeOK
<1>6. Truthful' /\ Remembered'
  BY <1>1, <1>4 DEF IInv, Truthful, Remembered
<1>7. Genuine'
  <2>1. ASSUME NEW d \in Callers, NEW r \in ToSet(batch'[d]) \cup ToSet(found[d]) PROVE Fair(r)'
    <3>1. CASE r \in ToSet(batch[d]) \cup ToSet(found[d])
      <4>1. Fair(r)
        BY <3>1 DEF IInv, Genuine
      <4> QED  BY <1>4, <4>1 DEF Fair
    <3>2. CASE r \in ToSet(rs)
      BY <1>2, <3>2, WholeType DEF Fair
    <3> QED  BY <1>3, <2>1, <3>1, <3>2
  <2> QED  BY <1>1, <2>1 DEF Genuine
<1>8. Left'
  BY <1>1, <1>3 DEF IInv, Left
<1>9. InPlace'
  <2>1. ASSUME NEW d \in Callers, pc'[d] \in {"lookup", "get", "store"}
        PROVE  /\ NoMore(found[d], batch'[d], reqOIDs[d], todo[d], asked[d])
               /\ Covered(ToSet(found[d]) \cup ToSet(batch'[d]), Oids(reqOIDs[d]) \cup Oids(todo[d]),
                          Oids(asked[d]), refused')
    <3>1. d # c /\ pc[d] \in {"lookup", "get", "store"} /\ batch'[d] = batch[d]
      BY <1>3, <2>1
    <3>2. /\ NoMore(found[d], batch[d], reqOIDs[d], todo[d], asked[d])
          /\ Covered(ToSet(found[d]) \cup ToSet(batch[d]), Oids(reqOIDs[d]) \cup Oids(todo[d]),
                     Oids(asked[d]), refused)
      BY <3>1 DEF IInv, InPlace
    <3> QED  BY <1>4, <3>1, <3>2, CoverGrows
  <2> QED  BY <1>1, <2>1 DEF InPlace
<1>10. WalkInPlace'
  <2>1. ASSUME NEW d \in Callers, pc'[d] = "storewalk"
        PROVE  WalkOf(ToSet(found[d]) \cup ToSet(batch'[d]), refused')
    <3>1. CASE d = c
      <4>1. WalkOf(ToSet(rs), refused')
        BY <1>2, <1>4 DEF WalkOf
      <4>2. ToSet(found[d]) \cup ToSet(batch'[d]) = ToSet(rs)
        BY <1>3, <3>1, Empty
      <4> QED  BY <4>1, <4>2
    <3>2. CASE d # c
      <4>1. pc[d] = "storewalk" /\ batch'[d] = batch[d]
        BY <1>3, <2>1, <3>2
      <4>2. WalkOf(ToSet(found[d]) \cup ToSet(batch[d]), refused)
        BY <4>1 DEF IInv, WalkInPlace
      <4> QED  BY <1>4, <4>1, <4>2, WalkGrows
    <3> QED  BY <3>1, <3>2
  <2>2. ASSUME cache[Tree] = "ok" PROVE WalkOf(ToSet(tree), refused')
    BY <1>4, <2>2, WalkGrows DEF IInv, WalkInPlace
  <2> QED  BY <1>1, <2>1, <2>2 DEF WalkInPlace
<1>11. AnswersComplete'
  <2>1. ASSUME NEW d \in Callers
        PROVE  Complete(asked[d], result[d].kind, result[d].responses, refused')
    BY <1>4, AllComplete, CompleteGrows DEF IInv
  <2> QED  BY <1>1, <2>1 DEF AnswersComplete, Complete
<1>12. NotAskedAgain'
  BY <1>1, <1>3 DEF IInv, NotAskedAgain
<1> QED  BY <1>5, <1>6, <1>7, <1>8, <1>9, <1>10, <1>11, <1>12 DEF IInv
-----------------------------------------------------------------------------
LEMMA StepInv == IInv /\ [Next]_vars => IInv'
<1> SUFFICES ASSUME IInv, [Next]_vars PROVE IInv'
  OBVIOUS
<1>1. ASSUME NEW c \in Callers, Call(c) PROVE IInv'
  <2>1. ASSUME NEW s \in Gets, Begin(c, s, "lookup") PROVE IInv'
    <3>1. s \in Seq(Names)
      BY GetsAssumption
    <3> QED  BY <2>1, <3>1, BeginInv
  <2>2. ASSUME NEW at \in {"walklookup", "httplookup"}, Begin(c, <<>>, at) PROVE IInv'
    BY <2>2, Empty, BeginInv
  <2> QED  BY <1>1, <2>1, <2>2 DEF Call
<1>2. ASSUME NEW c \in Callers, CallStep(c) \/ HTTPAnswer(c) PROVE IInv'
  <2>1. CASE Moves(c)
    BY <2>1, MovesInv
  <2>2. CASE \E kind, rs : Returns(c, kind, rs)
    BY <2>2, ReturnsInv
  <2>3. CASE LookUp(c)
    BY <2>3, LookUpInv
  <2>4. CASE Request(c)
    BY <2>4, RequestInv
  <2>5. CASE Store(c)
    BY <2>5, StoreInv
  <2>6. CASE Walk(c)
    BY <2>6, WalkInv
  <2>7. CASE RequestFails(c) \/ GetReturns(c) \/ WalkCached(c) \/ WalkFails(c) \/ WalkReturns(c)
               \/ HTTPCached(c) \/ HTTPAnswer(c)
    BY <2>2, <2>7, ReturningSteps
  <2> QED  BY <1>2, <2>1, <2>3, <2>4, <2>5, <2>6, <2>7 DEF CallStep, Moves
<1>3. CASE UNCHANGED vars
  <2>1. TypeOK' /\ Truthful' /\ Genuine' /\ Remembered'
    BY <1>3 DEF vars, callVars, cacheVars, IInv, TypeOK, Truthful, Genuine, Fair, Remembered
  <2>2. Left' /\ InPlace' /\ WalkInPlace'
    BY <1>3 DEF vars, callVars, cacheVars, IInv, Left, InPlace, WalkInPlace
  <2>3. AnswersComplete' /\ NotAskedAgain'
    BY <1>3 DEF vars, callVars, cacheVars, IInv, AnswersComplete, NotAskedAgain
  <2> QED  BY <2>1, <2>2, <2>3 DEF IInv
<1> QED  BY <1>1, <1>2, <1>3 DEF Next

LEMMA Invariance == Spec => []IInv
BY InitInv, StepInv, PTL DEF Spec

\* The variables of a call have their types.
THEOREM TypeCorrect == Spec => []TypeOK
<1>1. IInv => TypeOK
  BY DEF IInv
<1> QED  BY <1>1, Invariance, PTL

\* A get that succeeds has an answer for each object it was asked for, from the
\* cache or from the device in batches of any size, and not more answers than
\* names; a get that finds nothing was asked for nothing that exists; a walk has
\* the whole subtree.  However many calls share the cache, and except for what
\* answers with an error status left out, which the code takes for answers.
THEOREM AnswersCompleteCorrect == Spec => []AnswersComplete
<1>1. IInv => AnswersComplete
  BY DEF IInv
<1> QED  BY <1>1, Invariance, PTL

\* An OID written with its leading dot, the walk and the HTTP path are not
\* requested when they were answered, or failed for good, before the call.
THEOREM NotAskedAgainCorrect == Spec => []NotAskedAgain
<1>1. IInv => NotAskedAgain
  BY DEF IInv
<1> QED  BY <1>1, Invariance, PTL
=============================================================================
