---------------------------- MODULE TracerProofs ----------------------------
(***************************************************************************)
(* Theorems about Tracer, for every number of workers, receivers and       *)
(* destinations and every topology.                                        *)
(***************************************************************************)
EXTENDS Tracer, SequenceTheorems, FiniteSetTheorems, TLAPS

\* Values out of scope are values of the right kind.
LEMMA OutOfScope ==
  /\ SomeDest \in Dests /\ SomeWorker \in Workers
  /\ NoRequest \in Request /\ NoPacket \in Packet /\ NoReply \in Reply
<1>1. SomeDest \in Dests /\ SomeWorker \in Workers
  BY NonEmpty DEF SomeDest, SomeWorker
<1>2. 0 \in Ids
  BY IdAssumption DEF Ids
<1>3. NoRequest \in Request
  BY <1>1, <1>2, HopsAssumption DEF NoRequest, Request
<1>4. NoPacket \in Packet
  BY <1>1, <1>2 DEF NoPacket, Packet, Addr
<1>5. NoReply \in Reply
  BY HopsAssumption DEF NoReply, Reply, Addr
<1>. QED BY <1>1, <1>3, <1>4, <1>5

\* The low bits of a number are an identifier.
LEMMA IdOfType == \A u \in Nat : IdOf(u) \in Ids
  BY IdAssumption DEF IdOf, Ids

\* A packet that answers none of the tracer's requests names none, and its
\* identifier is one of the foreign ones.
LEMMA ForeignType ==
  ASSUME NEW x \in Foreign
  PROVE  x \in Packet /\ x.uid = 0 /\ x.id \in ForeignIds
<1>1. PICK d \in Dests, i \in ForeignIds :
        x \in {[from |-> d, dst |-> d, id |-> i, ttl |-> 1, uid |-> 0]}
                \cup UNION {Quoted(a, d, i, 0) : a \in Addr}
  BY DEF Foreign
<1>2. i \in Ids
  BY ForeignAssumption DEF Ids
<1>3. CASE x = [from |-> d, dst |-> d, id |-> i, ttl |-> 1, uid |-> 0]
  BY <1>2, <1>3 DEF Packet, Addr
<1>4. ASSUME NEW a \in Addr, x \in Quoted(a, d, i, 0)
      PROVE  x \in Packet /\ x.uid = 0 /\ x.id \in ForeignIds
  BY <1>2, <1>4, QuotedAssumption DEF Quoted, Packet
<1>. QED BY <1>1, <1>3, <1>4

\* What the network delivers is a packet as ServeData builds it.
LEMMA IncomingType == TypeOK => Incoming \subseteq Packet
<1> SUFFICES ASSUME TypeOK, NEW x \in Incoming PROVE x \in Packet
  OBVIOUS
<1>1. CASE x \in Foreign
  BY <1>1, ForeignType
<1>2. ASSUME NEW p \in wire, x \in Answers(p) PROVE x \in Packet
  <2>1. p \in Request
    BY DEF TypeOK
  <2>2. p.dst \in Dests /\ p.ttl \in Nat /\ p.id \in Ids /\ p.uid \in Nat /\ Dist[p.dst] \in Nat
    BY <2>1, DistAssumption, HopsAssumption DEF Request
  <2>. QED BY <1>2, <2>2, DistAssumption, QuotedAssumption DEF Answers, Quoted, Packet, Addr
<1>. QED BY <1>1, <1>2 DEF Incoming

LEMMA DrawType ==
  ASSUME TypeOK, NEW S \in SUBSET Request, Draw(S)
  PROVE  seq' \in Nat /\ wire' \subseteq Request
  BY DEF Draw, TypeOK

\* A reply that is taken goes from the channel to h and keeps max in range.
LEMMA TakeReplyType ==
  ASSUME TypeOK, NEW w \in Workers, TakeReply(w)
  PROVE  /\ ch' \in [Workers -> Seq(Reply)]
         /\ max' \in [Workers -> 1..MaxHops]
         /\ handed' \in [Workers -> Seq(Reply)]
<1> DEFINE r == Head(ch[w])
<1>1. ch[w] \in Seq(Reply) /\ ch[w] # <<>>
  BY DEF TakeReply, TypeOK
<1>2. r \in Reply /\ Tail(ch[w]) \in Seq(Reply)
  BY <1>1
<1>3. r.hops \in 1..(MaxHops + 1)
  BY <1>2 DEF Reply
<1>4. Append(handed[w], r) \in Seq(Reply)
  BY <1>2 DEF TypeOK
<1>5. (IF max[w] > r.hops /\ r.ip = dst[w] THEN r.hops ELSE max[w]) \in 1..MaxHops
  BY <1>3, HopsAssumption DEF TypeOK
<1>. QED BY <1>2, <1>4, <1>5 DEF TakeReply, TypeOK, Lowered

\* handle's hop count is positive and at most one more than the probe's TTL.
LEMMA HopsOfRange ==
  ASSUME NEW p \in Request, NEW x \in Packet
  PROVE  HopsOf(p, x) \in 1..(MaxHops + 1)
  BY HopsAssumption DEF HopsOf, Request, Packet

LEMMA WorkerStepType ==
  ASSUME TypeOK, NEW w \in Workers, WorkerStep(w)
  PROVE  TypeOK'
<1> USE OutOfScope
<1>0. /\ ttl[w] + 1 \in Nat \ {0} /\ 1 \in Nat \ {0} /\ 0 \in 0..Count
      /\ MaxHops \in Nat /\ MaxHops \in 1..MaxHops
  BY HopsAssumption, CountAssumption DEF TypeOK
<1>1. CASE SendRequest(w)
  <2> DEFINE p == [dst |-> dst[w], ttl |-> ttl[w], id |-> IdOf(seq + 1), uid |-> seq + 1]
  <2>a. dst[w] \in Dests /\ ttl[w] \in Nat \ {0} /\ max[w] \in 1..MaxHops /\ seq \in Nat
    BY DEF TypeOK
  <2>b. ttl[w] <= max[w]
    BY <1>1 DEF SendRequest, MaySend
  <2>c. ttl[w] \in 1..MaxHops
    BY <2>a, <2>b, HopsAssumption
  <2>d. seq + 1 \in Nat /\ IdOf(seq + 1) \in Ids
    BY <2>a, IdOfType
  <2>1. p \in Request
    BY <2>a, <2>c, <2>d DEF Request
  <2>2. seq' \in Nat /\ wire' \subseteq Request
    BY <1>1, <2>1, DrawType DEF SendRequest
  <2>. QED BY <1>1, <2>1, <2>2 DEF SendRequest, TypeOK, recvVars
<1>2. CASE SendFails(w)
  <2>1. seq' \in Nat /\ wire' \subseteq Request
    BY <1>2, DrawType DEF SendFails
  <2>. QED BY <1>2, <2>1 DEF SendFails, TypeOK, recvVars
<1>3. CASE AppendProbe(w)
  BY <1>3 DEF AppendProbe, TypeOK, recvVars, netVars
<1>4. CASE SelectDelay(w)
  BY <1>0, <1>4 DEF SelectDelay, TypeOK, recvVars, netVars
<1>5. CASE SelectReply(w)
  <2>1. /\ ch' \in [Workers -> Seq(Reply)] /\ max' \in [Workers -> 1..MaxHops] /\ handed' \in [Workers -> Seq(Reply)]
    BY <1>5, TakeReplyType DEF SelectReply
  <2>. QED BY <1>0, <1>5, <2>1 DEF SelectReply, TypeOK, recvVars, netVars
<1>6. CASE NextRound(w)
  <2>1. n[w] + 1 \in 0..Count
    BY <1>6, CountAssumption DEF NextRound, TypeOK
  <2>. QED BY <1>0, <1>6, <2>1 DEF NextRound, TypeOK, recvVars, netVars
<1>7. CASE CheckDone(w)
  BY <1>7 DEF CheckDone, TypeOK, recvVars, netVars
<1>8. CASE DrainReply(w)
  BY <1>8, TakeReplyType DEF DrainReply, TypeOK, recvVars, netVars
<1>9. CASE Deadline(w)
  BY <1>9 DEF Deadline, TypeOK, recvVars, netVars
<1>10. CASE Close(w)
  <2>1. /\ sess' \in [Dests -> SUBSET Workers] /\ probes' \in [Workers -> SUBSET Request]
        /\ ch' \in [Workers -> Seq(Reply)] /\ handed' \in [Workers -> Seq(Reply)]
    BY <1>10 DEF Close, Removed, TypeOK
  <2>2. /\ pc' \in [Workers -> {"idle", "loop", "append", "select", "check", "drain", "close", "lock"}]
        /\ how' \in [Workers -> {"none", "done", "deadline", "error"}]
        /\ dst' \in [Workers -> Dests] /\ want' \in [Workers -> Nat]
    BY <1>0, <1>10 DEF Close, TypeOK
  <2>3. /\ ttl' \in [Workers -> Nat \ {0}] /\ n' \in [Workers -> 0..Count]
        /\ max' \in [Workers -> 1..MaxHops]
    BY <1>0, <1>10 DEF Close, TypeOK
  <2>. QED BY <1>10, <2>1, <2>2, <2>3 DEF Close, TypeOK, recvVars, netVars
<1>11. CASE Lock(w)
  BY <1>11 DEF Lock, TypeOK, recvVars, netVars
<1>. QED
  BY <1>1, <1>2, <1>3, <1>4, <1>5, <1>6, <1>7, <1>8, <1>9, <1>10, <1>11 DEF WorkerStep

LEMMA ReceiverStepType ==
  ASSUME TypeOK, NEW r \in Receivers, (\E p \in Incoming : Receive(r, p)) \/ Serve(r)
  PROVE  TypeOK'
<1> USE OutOfScope
<1>1. ASSUME NEW p \in Incoming, Receive(r, p) PROVE TypeOK'
  <2>1. p \in Packet
    BY IncomingType
  <2>2. p.dst \in Dests
    BY <2>1 DEF Packet
  <2>. QED BY <1>1, <2>1, <2>2 DEF Receive, TypeOK, workerVars, netVars
<1>2. ASSUME NEW w \in Workers, NEW cut \in 0..(seq + 1), Handle(r, w, cut) PROVE TypeOK'
  <2> DEFINE match == {p \in {q \in probes[w] : q.uid >= cut} : Matches(p, pkt[r])}
  <2>1. /\ seq' \in Nat /\ wire' \subseteq Request /\ sess' \in [Dests -> SUBSET Workers]
        /\ probes' \in [Workers -> SUBSET Request]
        /\ todo' \in [Receivers -> SUBSET Workers]
        /\ ch' \in [Workers -> Seq(Reply)]
    BY <1>2 DEF Handle, Remaining, TypeOK, netVars
  <2>2. CASE match = {} /\ NextSession(r, todo[r] \ {w}) /\ UNCHANGED <<out, to>>
    BY <1>2, <2>1, <2>2 DEF Handle, NextSession, TypeOK, workerVars
  <2>3. ASSUME NEW p \in match,
               out' = [out EXCEPT ![r] = [ip |-> pkt[r].from, hops |-> HopsOf(p, pkt[r]),
                                          uid |-> p.uid, src |-> pkt[r].uid]],
               to' = [to EXCEPT ![r] = w],
               phase' = [phase EXCEPT ![r] = "deliver"],
               UNCHANGED pkt
        PROVE  TypeOK'
    <3>1. p \in Request /\ pkt[r] \in Packet
      BY DEF TypeOK
    <3>2. HopsOf(p, pkt[r]) \in 1..(MaxHops + 1)
      BY <3>1, HopsOfRange
    <3>3. [ip |-> pkt[r].from, hops |-> HopsOf(p, pkt[r]), uid |-> p.uid, src |-> pkt[r].uid]
            \in Reply
      BY <3>1, <3>2 DEF Reply, Request, Packet
    <3>4. out' \in [Receivers -> Reply] /\ to' \in [Receivers -> Workers]
          /\ phase' \in [Receivers -> {"read", "serve", "deliver"}]
          /\ pkt' \in [Receivers -> Packet]
      BY <2>3, <3>3 DEF TypeOK
    <3>. QED BY <1>2, <2>1, <3>4 DEF Handle, TypeOK, workerVars
  <2>. QED BY <1>2, <2>2, <2>3 DEF Handle
<1>3. CASE Deliver(r)
  <2>1. to[r] \in Workers /\ out[r] \in Reply
    BY DEF TypeOK
  <2>2. ch' \in [Workers -> Seq(Reply)]
    BY <1>3, <2>1 DEF Deliver, TypeOK
  <2>. QED BY <1>3, <2>2 DEF Deliver, NextSession, TypeOK, workerVars, netVars
<1>. QED BY <1>1, <1>2, <1>3 DEF Serve

LEMMA StepType == TypeOK /\ [Next]_vars => TypeOK'
<1> SUFFICES ASSUME TypeOK, [Next]_vars PROVE TypeOK'
  OBVIOUS
<1>1. ASSUME NEW w \in Workers, StartTrace(w) PROVE TypeOK'
  <2>1. PICK d \in Dests, m \in WantedHops : NewSession(w, d, m)
    BY <1>1 DEF StartTrace
  <2>. QED BY <2>1, WantedAssumption, TracesAssumption DEF NewSession, Added, TypeOK, recvVars, netVars
<1>2. CASE UNCHANGED vars
  BY <1>2 DEF vars, TypeOK, netVars, workerVars, recvVars
<1>. QED BY <1>1, <1>2, WorkerStepType, ReceiverStepType DEF Next

\* Every variable of the engine keeps its type; in particular the hop count of
\* every reply is between 1 and MaxHops + 1.
THEOREM TypeCorrect == Spec => []TypeOK
<1>1. Init => TypeOK
  BY OutOfScope, HopsAssumption, CountAssumption, TracesAssumption DEF Init, TypeOK
<1>. QED BY <1>1, StepType, PTL DEF Spec
-----------------------------------------------------------------------------
(***************************************************************************)
(* The locking discipline.  SessionsOpen and ServedSessionsOpen are        *)
(* inductive together: Close empties the entry of its address, and runs    *)
(* only when no receiver holds t.mu.                                       *)
(***************************************************************************)
LockInv == SessionsOpen /\ ServedSessionsOpen

\* What a step of Trace between NewSession and Close leaves alone.
LEMMA StepInSession ==
  ASSUME TypeOK, NEW w \in Workers, WorkerStep(w), ~Close(w)
  PROVE  /\ \A v \in Workers : Session(v)' <=> Session(v)
         /\ UNCHANGED <<sess, dst, phase, pkt, todo, to>>
<1>1. CASE SendRequest(w)
  BY <1>1 DEF SendRequest, TypeOK, Session, recvVars
<1>2. CASE SendFails(w)
  BY <1>2 DEF SendFails, TypeOK, Session, recvVars
<1>3. CASE AppendProbe(w)
  BY <1>3 DEF AppendProbe, TypeOK, Session, recvVars
<1>4. CASE SelectDelay(w)
  BY <1>4 DEF SelectDelay, TypeOK, Session, recvVars
<1>5. CASE SelectReply(w)
  BY <1>5 DEF SelectReply, TypeOK, Session, recvVars
<1>6. CASE NextRound(w)
  BY <1>6 DEF NextRound, TypeOK, Session, recvVars
<1>7. CASE CheckDone(w)
  BY <1>7 DEF CheckDone, TypeOK, Session, recvVars
<1>8. CASE DrainReply(w)
  BY <1>8 DEF DrainReply, TypeOK, Session, recvVars
<1>9. CASE Deadline(w)
  BY <1>9 DEF Deadline, TypeOK, Session, recvVars
<1>10. CASE Lock(w)
  BY <1>10 DEF Lock, TypeOK, Session, recvVars
<1>. QED
  BY <1>1, <1>2, <1>3, <1>4, <1>5, <1>6, <1>7, <1>8, <1>9, <1>10 DEF WorkerStep

LEMMA LockInvStep == TypeOK /\ LockInv /\ [Next]_vars => LockInv'
<1> SUFFICES ASSUME TypeOK, LockInv, [Next]_vars PROVE LockInv'
  OBVIOUS
<1> USE DEF LockInv, SessionsOpen, ServedSessionsOpen
<1>1. ASSUME NEW w \in Workers, StartTrace(w) PROVE LockInv'
  <2>1. PICK d \in Dests, m \in WantedHops : NewSession(w, d, m)
    BY <1>1 DEF StartTrace
  <2>2. \A r \in Receivers : phase'[r] = "read"
    BY <2>1 DEF NewSession, NoReaders, recvVars
  <2>3. \A e \in Dests : w \notin sess[e]
    BY <2>1 DEF NewSession, Session
  <2>4. SessionsOpen'
    BY <2>1, <2>3 DEF NewSession, Added, Session, TypeOK
  <2>. QED BY <2>2, <2>4
<1>2. ASSUME NEW w \in Workers, Close(w) PROVE LockInv'
  <2>1. \A r \in Receivers : phase'[r] = "read"
    BY <1>2 DEF Close, NoReaders, recvVars
  <2>2. \A e \in Dests : e # dst[w] => w \notin sess[e] /\ sess'[e] = sess[e]
    BY <1>2 DEF Close, TypeOK
  <2>3. sess'[dst[w]] = {}
    BY <1>2 DEF Close, Removed, TypeOK
  <2>4. SessionsOpen'
    BY <1>2, <2>2, <2>3 DEF Close, Session, TypeOK
  <2>. QED BY <2>1, <2>4
<1>3. ASSUME NEW w \in Workers, WorkerStep(w), ~Close(w) PROVE LockInv'
  <2>1. /\ \A v \in Workers : Session(v)' <=> Session(v)
        /\ UNCHANGED <<sess, dst, phase, pkt, todo, to>>
    BY <1>3, StepInSession
  <2>2. /\ \A d \in Dests : sess[d] \subseteq Workers
        /\ \A r \in Receivers : todo[r] \subseteq Workers /\ to[r] \in Workers
    BY DEF TypeOK
  <2>. QED BY <2>1, <2>2
<1>4. ASSUME NEW r \in Receivers, NEW p \in Incoming, Receive(r, p) PROVE LockInv'
  <2>1. p.dst \in Dests
    BY IncomingType DEF Packet
  <2>2. UNCHANGED <<sess, pc, dst, to>> /\ phase[r] = "read"
    BY <1>4 DEF Receive, workerVars
  <2>3. phase'[r] = "serve" /\ pkt'[r] = p /\ todo'[r] = sess[p.dst]
    BY <1>4 DEF Receive, TypeOK
  <2>4. \A q \in Receivers : q # r =>
          phase'[q] = phase[q] /\ pkt'[q] = pkt[q] /\ todo'[q] = todo[q]
    BY <1>4 DEF Receive, TypeOK
  <2>5. SessionsOpen'
    BY <2>2 DEF Session
  <2>6. ServedSessionsOpen'
    BY <2>1, <2>2, <2>3, <2>4 DEF Session
  <2>. QED BY <2>5, <2>6
<1>5. ASSUME NEW r \in Receivers, NEW w \in Workers, NEW cut \in 0..(seq + 1),
             Handle(r, w, cut)
      PROVE  LockInv'
  <2>1. /\ UNCHANGED <<sess, pc, dst>>
        /\ phase[r] = "serve" /\ w \in todo[r] /\ todo' = [todo EXCEPT ![r] = @ \ {w}]
    BY <1>5 DEF Handle, workerVars
  <2> DEFINE next == IF todo[r] \ {w} = {} THEN "read" ELSE "serve"
             held == IF todo[r] \ {w} = {} THEN NoPacket ELSE pkt[r]
  <2>a. \/ phase' = [phase EXCEPT ![r] = next] /\ pkt' = [pkt EXCEPT ![r] = held] /\ to' = to
        \/ phase' = [phase EXCEPT ![r] = "deliver"] /\ pkt' = pkt /\ to' = [to EXCEPT ![r] = w]
    BY <1>5 DEF Handle, NextSession
  <2>b. next = "read" \/ (next = "serve" /\ held = pkt[r])
    <3>1. CASE todo[r] \ {w} = {}
      BY <3>1, Zenon
    <3>2. CASE todo[r] \ {w} # {}
      BY <3>2, Zenon
    <3>. QED BY <3>1, <3>2, Zenon
  <2>c. DOMAIN phase = Receivers /\ DOMAIN pkt = Receivers /\ DOMAIN to = Receivers /\ DOMAIN todo = Receivers
    BY DEF TypeOK
  <2> HIDE DEF next, held
  <2>2. \A q \in Receivers : q # r =>
          phase'[q] = phase[q] /\ to'[q] = to[q] /\ pkt'[q] = pkt[q] /\ todo'[q] = todo[q]
    BY <2>1, <2>a, <2>c
  <2>3. \/ phase'[r] = "read"
        \/ phase'[r] \in {"serve", "deliver"} /\ pkt'[r] = pkt[r]
    BY <2>a, <2>b, <2>c
  <2>4. phase'[r] = "deliver" => to'[r] = w
    BY <2>a, <2>b, <2>c
  <2>5. todo'[r] = todo[r] \ {w} /\ todo[r] \subseteq Workers
    BY <2>1 DEF TypeOK
  <2>6. SessionsOpen'
    BY <2>1 DEF Session
  <2>7. ServedSessionsOpen'
    BY <2>1, <2>2, <2>3, <2>4, <2>5 DEF Session
  <2>. QED BY <2>6, <2>7
<1>6. ASSUME NEW r \in Receivers, Deliver(r) PROVE LockInv'
  <2>1. UNCHANGED <<sess, pc, dst, todo>> /\ phase[r] = "deliver"
    BY <1>6 DEF Deliver, workerVars
  <2>a. /\ phase' = [phase EXCEPT ![r] = IF todo[r] = {} THEN "read" ELSE "serve"]
        /\ pkt' = [pkt EXCEPT ![r] = IF todo[r] = {} THEN NoPacket ELSE @]
        /\ to' = [to EXCEPT ![r] = SomeWorker]
    BY <1>6 DEF Deliver, NextSession
  <2>b. DOMAIN phase = Receivers /\ DOMAIN pkt = Receivers /\ DOMAIN to = Receivers
    BY DEF TypeOK
  <2>2. phase'[r] = "read" \/ (phase'[r] = "serve" /\ pkt'[r] = pkt[r])
    BY <2>a, <2>b
  <2>3. \A q \in Receivers : q # r =>
          phase'[q] = phase[q] /\ pkt'[q] = pkt[q] /\ to'[q] = to[q]
    BY <2>a, <2>b
  <2>4. SessionsOpen'
    BY <2>1 DEF Session
  <2>5. ServedSessionsOpen'
    BY <2>1, <2>2, <2>3 DEF Session
  <2>. QED BY <2>4, <2>5
<1>7. CASE UNCHANGED vars
  BY <1>7 DEF vars, workerVars, recvVars, Session
<1>. QED BY <1>1, <1>2, <1>3, <1>4, <1>5, <1>6, <1>7 DEF Next, Serve

LEMMA LockInvariance == Spec => []LockInv
<1>1. Init => LockInv
  BY DEF Init, LockInv, SessionsOpen, ServedSessionsOpen
<1>. QED BY <1>1, LockInvStep, TypeCorrect, PTL DEF Spec

\* Whoever opens and closes sessions at the same time, only open sessions are
\* registered, each under its own address: Close leaves nothing in Tracer.sess.
THEOREM SessionsOpenCorrect == Spec => []SessionsOpen
<1>1. LockInv => SessionsOpen
  BY DEF LockInv
<1>. QED BY <1>1, LockInvariance, PTL

\* No receiver ever works on a session that was closed, or on one of another
\* address than its packet's.
THEOREM LockingCorrect == Spec => []ServedSessionsOpen
<1>1. LockInv => ServedSessionsOpen
  BY DEF LockInv
<1>. QED BY <1>1, LockInvariance, PTL
-----------------------------------------------------------------------------
(* Replies *)

LEMMA ElementsType ==
  ASSUME NEW s \in Seq(Reply)
  PROVE  Elements(s) \subseteq Reply
  BY DEF Elements

LEMMA CreditedType ==
  ASSUME TypeOK, NEW w \in Workers
  PROVE  Credited(w) \subseteq Reply
<1>1. ch[w] \in Seq(Reply) /\ handed[w] \in Seq(Reply) /\ \A r \in Receivers : out[r] \in Reply
  BY DEF TypeOK
<1>. QED BY <1>1, ElementsType DEF Credited

-----------------------------------------------------------------------------
(***************************************************************************)
(* To which probe a reply is credited, and how often.                      *)
(***************************************************************************)

\* A request that was drawn; its identifier has not come round.
Drawn(p)  == p.uid \in 1..seq /\ p.id = IdOf(p.uid)
Recent(p) == p.uid + IdMod > seq

\* What is under way is recent, or answers none of the tracer's requests.
Numbered ==
  /\ \A q \in wire : Drawn(q) /\ Recent(q)
  /\ \A r \in Receivers : phase[r] # "read" =>
       \/ pkt[r].uid = 0 /\ pkt[r].id \in ForeignIds
       \/ Drawn(pkt[r]) /\ Recent(pkt[r])
  /\ \A w \in Workers : \A p \in probes[w] : Drawn(p)
  /\ \A w \in Workers : pc[w] = "append" => Drawn(req[w])

\* A request that has not joined the probes is newer than all of them.
NotYetCredited ==
  \A w \in Workers :
    /\ \A x \in Credited(w) : x.uid <= seq
    /\ pc[w] = "append" =>
         /\ \A p \in probes[w] : p.uid # req[w].uid
         /\ \A x \in Credited(w) : x.uid # req[w].uid

All(w)  == handed[w] \o ch[w]
Busy(w) == {r \in Receivers : phase[r] = "deliver" /\ to[r] = w}

RInv == Numbered /\ NotYetCredited /\ ReplyGenuine /\ AnsweredOnce
-----------------------------------------------------------------------------
(* Numbers and sequences *)

\* Numbers that are close together differ in their low bits.
LEMMA CloseNumbers ==
  ASSUME NEW a \in Nat, NEW b \in Nat, NEW m \in Nat,
         a <= m, b <= m, a + IdMod > m, b + IdMod > m, IdOf(a) = IdOf(b)
  PROVE  a = b
<1>1. IdMod \in Nat /\ IdMod > 0
  BY IdAssumption
<1>2. PICK q \in Int, p \in Int, r \in Int : a = IdMod * q + r /\ b = IdMod * p + r
  <2>1. a = IdMod * (a \div IdMod) + (a % IdMod) /\ a \div IdMod \in Int /\ a % IdMod \in Int
    BY <1>1
  <2>2. b = IdMod * (b \div IdMod) + (b % IdMod) /\ b \div IdMod \in Int
    BY <1>1
  <2>. QED BY <2>1, <2>2 DEF IdOf
<1>3. CASE q >= p + 1
  <2>1. IdMod * q >= IdMod * (p + 1)
    BY <1>1, <1>2, <1>3
  <2>. QED BY <1>1, <1>2, <2>1
<1>4. CASE p >= q + 1
  <2>1. IdMod * p >= IdMod * (q + 1)
    BY <1>1, <1>2, <1>4
  <2>. QED BY <1>1, <1>2, <2>1
<1>5. CASE p = q
  BY <1>2, <1>5
<1>. QED BY <1>2, <1>3, <1>4, <1>5

LEMMA Elem ==
  ASSUME NEW s \in Seq(Reply)
  PROVE  /\ Len(s) \in Nat
         /\ \A i \in 1..Len(s) : s[i] \in Reply /\ s[i] \in Elements(s)
BY LenProperties, ElementOfSeq DEF Elements

LEMMA Joined ==
  ASSUME NEW s \in Seq(Reply), NEW t \in Seq(Reply)
  PROVE  /\ s \o t \in Seq(Reply)
         /\ Elements(s \o t) = Elements(s) \cup Elements(t)
<1>1. /\ s \o t \in Seq(Reply) /\ Len(s \o t) = Len(s) + Len(t)
      /\ Len(s) \in Nat /\ Len(t) \in Nat
      /\ \A i \in 1..(Len(s) + Len(t)) : (s \o t)[i] = IF i <= Len(s) THEN s[i] ELSE t[i - Len(s)]
  BY ConcatProperties, LenProperties
<1>2. ASSUME NEW x \in Elements(s \o t) PROVE x \in Elements(s) \cup Elements(t)
  <2>1. PICK i \in 1..(Len(s) + Len(t)) : x = (s \o t)[i]
    BY <1>1, <1>2 DEF Elements
  <2>2. i <= Len(s) \/ i - Len(s) \in 1..Len(t)
    BY <1>1
  <2>. QED BY <1>1, <2>1, <2>2 DEF Elements
<1>3. ASSUME NEW i \in 1..Len(s) PROVE s[i] \in Elements(s \o t)
  <2>1. i \in 1..(Len(s) + Len(t)) /\ (s \o t)[i] = s[i]
    BY <1>1
  <2>. QED BY <1>1, <2>1 DEF Elements
<1>4. ASSUME NEW i \in 1..Len(t) PROVE t[i] \in Elements(s \o t)
  <2>1. Len(s) + i \in 1..(Len(s) + Len(t)) /\ (s \o t)[Len(s) + i] = t[i]
    <3>1. Len(s) + i \in 1..(Len(s) + Len(t)) /\ ~(Len(s) + i <= Len(s)) /\ (Len(s) + i) - Len(s) = i
      BY <1>1
    <3>. QED BY <1>1, <3>1
  <2>. QED BY <1>1, <2>1 DEF Elements
<1>5. Elements(s) \cup Elements(t) \subseteq Elements(s \o t)
  BY <1>3, <1>4 DEF Elements
<1>. QED BY <1>1, <1>2, <1>5

\* A reply that is taken goes from one sequence to the other.
LEMMA Taken ==
  ASSUME NEW s \in Seq(Reply), NEW t \in Seq(Reply), t # <<>>
  PROVE  Append(s, Head(t)) \o Tail(t) = s \o t
<1> DEFINE h == Head(t)
           u == Tail(t)
           a == Append(s, h)
<1>1. h \in Reply /\ u \in Seq(Reply) /\ Len(u) = Len(t) - 1 /\ h = t[1]
      /\ \A i \in 1..Len(u) : u[i] = t[i + 1]
  BY HeadTailProperties
<1> HIDE DEF h, u
<1>2. /\ a \in Seq(Reply) /\ Len(a) = Len(s) + 1
      /\ \A i \in 1..Len(s) : a[i] = s[i]
      /\ a[Len(s) + 1] = h
  BY <1>1, AppendProperties
<1> HIDE DEF a
<1>3. Len(s) \in Nat /\ Len(t) \in Nat /\ Len(t) >= 1 /\ Len(u) \in Nat
  BY <1>1, EmptySeq, LenProperties
<1>4. /\ a \o u \in Seq(Reply) /\ Len(a \o u) = Len(a) + Len(u)
      /\ \A i \in 1..(Len(a) + Len(u)) :
           (a \o u)[i] = IF i <= Len(a) THEN a[i] ELSE u[i - Len(a)]
  BY <1>1, <1>2, ConcatProperties
<1>5. /\ s \o t \in Seq(Reply) /\ Len(s \o t) = Len(s) + Len(t)
      /\ \A i \in 1..(Len(s) + Len(t)) : (s \o t)[i] = IF i <= Len(s) THEN s[i] ELSE t[i - Len(s)]
  BY ConcatProperties
<1>6. Len(a \o u) = Len(s \o t)
  BY <1>1, <1>2, <1>3, <1>4, <1>5
<1>7. ASSUME NEW i \in 1..Len(s \o t) PROVE (a \o u)[i] = (s \o t)[i]
  <2>0. i \in 1..(Len(s) + Len(t)) /\ i \in 1..(Len(a) + Len(u))
    BY <1>4, <1>5, <1>6
  <2>1. CASE i <= Len(s)
    BY <1>2, <1>3, <1>4, <1>5, <2>0, <2>1
  <2>2. CASE i = Len(s) + 1
    <3>1. i - Len(s) = 1 /\ ~(i <= Len(s)) /\ i <= Len(a)
      BY <1>2, <1>3, <2>2
    <3>. QED BY <1>1, <1>2, <1>4, <1>5, <2>0, <2>2, <3>1
  <2>3. CASE i > Len(s) + 1
    <3>1. /\ ~(i <= Len(s)) /\ ~(i <= Len(a))
          /\ i - Len(a) \in 1..Len(u) /\ (i - Len(a)) + 1 = i - Len(s)
      BY <1>1, <1>2, <1>3, <2>0, <2>3
    <3>. QED BY <1>1, <1>4, <1>5, <2>0, <3>1
  <2>. QED BY <1>3, <2>0, <2>1, <2>2, <2>3
<1>. QED BY <1>4, <1>5, <1>6, <1>7, SeqEqual DEF h, u, a

\* A reply that is delivered comes behind the others.
LEMMA Delivered ==
  ASSUME NEW s \in Seq(Reply), NEW t \in Seq(Reply), NEW x \in Reply
  PROVE  s \o Append(t, x) = Append(s \o t, x)
<1>1. /\ Append(t, x) \in Seq(Reply) /\ Append(t, x) = t \o <<x>> /\ <<x>> \in Seq(Reply)
  BY AppendIsConcat, AppendProperties
<1>2. s \o t \in Seq(Reply) /\ Append(s \o t, x) = (s \o t) \o <<x>>
  BY ConcatProperties, AppendIsConcat
<1>. QED BY <1>1, <1>2, ConcatAssociative
-----------------------------------------------------------------------------
(* The steps *)

Once(w) ==
  /\ \A i, j \in 1..Len(All(w)) : All(w)[i].uid = All(w)[j].uid => i = j
  /\ \A r \in Busy(w) : \A i \in 1..Len(All(w)) : All(w)[i].uid # out[r].uid
  /\ \A r, q \in Busy(w) : out[r].uid = out[q].uid => r = q
  /\ \A p \in probes[w] : \A x \in Credited(w) : p.uid # x.uid

LEMMA OnceIsAnsweredOnce == AnsweredOnce <=> \A w \in Workers : Once(w)
BY DEF AnsweredOnce, Once, All, Busy

LEMMA CreditedIs ==
  ASSUME TypeOK, NEW w \in Workers
  PROVE  /\ All(w) \in Seq(Reply)
         /\ Credited(w) = Elements(All(w)) \cup {out[r] : r \in Busy(w)}
<1>1. handed[w] \in Seq(Reply) /\ ch[w] \in Seq(Reply)
  BY DEF TypeOK
<1>. QED BY <1>1, Joined DEF Credited, All, Busy

LEMMA CreditedIsNext ==
  ASSUME TypeOK', NEW w \in Workers
  PROVE  /\ All(w)' \in Seq(Reply)
         /\ Credited(w)' = Elements(All(w)') \cup {out'[r] : r \in Busy(w)'}
<1>1. handed'[w] \in Seq(Reply) /\ ch'[w] \in Seq(Reply)
  BY DEF TypeOK
<1>2. Elements(handed'[w] \o ch'[w]) = Elements(handed'[w]) \cup Elements(ch'[w])
  BY <1>1, Joined
<1>. QED BY <1>1, <1>2, Joined DEF Credited, All, Busy, Elements

\* Steps that neither send nor credit anything.
LEMMA SameReplies ==
  ASSUME TypeOK, TypeOK', RInv, UNCHANGED <<seq, wire, probes, req, phase, pkt, out, to>>,
         \A w \in Workers : All(w)' = All(w),
         \A w \in Workers : pc'[w] = "append" => pc[w] = "append"
  PROVE  RInv'
<1>1. \A w \in Workers : Busy(w)' = Busy(w)
  BY DEF Busy
<1>2. \A w \in Workers : Credited(w)' = Credited(w)
  <2> TAKE w \in Workers
  <2>1. Credited(w) = Elements(All(w)) \cup {out[r] : r \in Busy(w)}
    BY CreditedIs
  <2>2. Credited(w)' = Elements(All(w)') \cup {out'[r] : r \in Busy(w)'}
    BY CreditedIsNext
  <2>3. All(w)' = All(w) /\ Busy(w)' = Busy(w) /\ out' = out
    BY <1>1
  <2>. QED BY <2>1, <2>2, <2>3 DEF Elements
<1>3. Numbered'
  BY DEF RInv, Numbered, Drawn, Recent
<1>4. NotYetCredited'
  BY <1>2 DEF RInv, NotYetCredited
<1>5. ReplyGenuine'
  BY <1>2 DEF RInv, ReplyGenuine
<1>6. \A w \in Workers : Once(w)'
  BY <1>1, <1>2, OnceIsAnsweredOnce DEF RInv, Once
<1>7. AnsweredOnce'
  BY <1>6 DEF AnsweredOnce, Once, All, Busy
<1>. QED BY <1>3, <1>4, <1>5, <1>7 DEF RInv

LEMMA SameCredits ==
  ASSUME TypeOK, TypeOK', UNCHANGED <<phase, out, to>>, NEW w \in Workers, All(w)' = All(w)
  PROVE  Busy(w)' = Busy(w) /\ Credited(w)' = Credited(w)
<1>1. Busy(w)' = Busy(w)
  BY DEF Busy
<1>2. Credited(w) = Elements(All(w)) \cup {out[r] : r \in Busy(w)}
  BY CreditedIs
<1>3. Credited(w)' = Elements(All(w)') \cup {out'[r] : r \in Busy(w)'}
  BY CreditedIsNext
<1>. QED BY <1>1, <1>2, <1>3 DEF Elements

\* A reply that Trace takes is the same reply in another place.
LEMMA TakeReplyKeeps ==
  ASSUME TypeOK, NEW w \in Workers, TakeReply(w)
  PROVE  \A v \in Workers : All(v)' = All(v)
<1>1. handed[w] \in Seq(Reply) /\ ch[w] \in Seq(Reply) /\ ch[w] # <<>>
  BY DEF TakeReply, TypeOK
<1>2. handed'[w] = Append(handed[w], Head(ch[w])) /\ ch'[w] = Tail(ch[w])
  BY DEF TakeReply, TypeOK
<1>3. \A v \in Workers \ {w} : handed'[v] = handed[v] /\ ch'[v] = ch[v]
  BY DEF TakeReply, TypeOK
<1>4. handed'[w] \o ch'[w] = handed[w] \o ch[w]
  BY <1>1, <1>2, Taken
<1>. QED BY <1>3, <1>4 DEF All

LEMMA QuietStep ==
  ASSUME TypeOK, TypeOK', RInv, NEW w \in Workers,
         \/ StartTrace(w) \/ SelectDelay(w) \/ SelectReply(w) \/ NextRound(w) \/ CheckDone(w)
         \/ DrainReply(w) \/ Deadline(w) \/ Lock(w)
  PROVE  RInv'
<1> USE DEF netVars, recvVars
<1>1. ASSUME TakeReply(w) PROVE \A v \in Workers : All(v)' = All(v)
  BY <1>1, TakeReplyKeeps
<1>2. ASSUME UNCHANGED <<handed, ch>> PROVE \A v \in Workers : All(v)' = All(v)
  BY <1>2 DEF All
<1>3. CASE StartTrace(w)
  <2>1. PICK d \in Dests, m \in WantedHops : NewSession(w, d, m)
    BY <1>3 DEF StartTrace
  <2>2. /\ UNCHANGED <<seq, wire, probes, req, phase, pkt, out, to, handed, ch>>
        /\ pc' = [pc EXCEPT ![w] = "loop"]
    BY <2>1 DEF NewSession
  <2>3. \A v \in Workers : pc'[v] = "append" => pc[v] = "append"
    BY <2>2 DEF TypeOK
  <2>. QED BY <1>2, <2>2, <2>3, SameReplies
<1>4. CASE SelectReply(w)
  <2>1. /\ UNCHANGED <<seq, wire, probes, req, phase, pkt, out, to>>
        /\ \A v \in Workers : pc'[v] = "append" => pc[v] = "append"
    BY <1>4 DEF SelectReply, TypeOK
  <2>2. \A v \in Workers : All(v)' = All(v)
    BY <1>1, <1>4 DEF SelectReply
  <2>. QED BY <2>1, <2>2, SameReplies
<1>5. CASE DrainReply(w)
  <2>1. /\ UNCHANGED <<seq, wire, probes, req, phase, pkt, out, to>>
        /\ \A v \in Workers : pc'[v] = "append" => pc[v] = "append"
    BY <1>5 DEF DrainReply, TypeOK
  <2>2. \A v \in Workers : All(v)' = All(v)
    BY <1>1, <1>5 DEF DrainReply
  <2>. QED BY <2>1, <2>2, SameReplies
<1>6. CASE SelectDelay(w)
  <2>1. /\ UNCHANGED <<seq, wire, probes, req, phase, pkt, out, to>>
        /\ \A v \in Workers : pc'[v] = "append" => pc[v] = "append"
    BY <1>6 DEF SelectDelay, TypeOK
  <2>2. \A v \in Workers : All(v)' = All(v)
    BY <1>2, <1>6 DEF SelectDelay
  <2>. QED BY <2>1, <2>2, SameReplies
<1>7. CASE NextRound(w)
  <2>1. /\ UNCHANGED <<seq, wire, probes, req, phase, pkt, out, to>>
        /\ \A v \in Workers : pc'[v] = "append" => pc[v] = "append"
    BY <1>7 DEF NextRound, TypeOK
  <2>2. \A v \in Workers : All(v)' = All(v)
    BY <1>2, <1>7 DEF NextRound
  <2>. QED BY <2>1, <2>2, SameReplies
<1>8. CASE CheckDone(w)
  <2>1. /\ UNCHANGED <<seq, wire, probes, req, phase, pkt, out, to>>
        /\ \A v \in Workers : pc'[v] = "append" => pc[v] = "append"
    BY <1>8 DEF CheckDone, TypeOK
  <2>2. \A v \in Workers : All(v)' = All(v)
    BY <1>2, <1>8 DEF CheckDone
  <2>. QED BY <2>1, <2>2, SameReplies
<1>9. CASE Deadline(w) \/ Lock(w)
  BY <1>2, <1>9, SameReplies DEF Deadline, Lock, TypeOK
<1>. QED BY <1>3, <1>4, <1>5, <1>6, <1>7, <1>8, <1>9

\* Drawing an identifier makes the other ones older, and those that come round
\* are no longer under way.
LEMMA SendStep ==
  ASSUME TypeOK, TypeOK', RInv, NEW w \in Workers, SendRequest(w) \/ SendFails(w)
  PROVE  RInv'
<1> USE DEF recvVars
<1>0. seq \in Nat /\ seq' = seq + 1 /\ IdMod \in Nat \ {0}
  BY IdAssumption DEF SendRequest, SendFails, Draw, TypeOK
<1>1. UNCHANGED <<probes, ch, handed, phase, pkt, out, to>>
  BY DEF SendRequest, SendFails
<1>2. \A v \in Workers : All(v)' = All(v)
  BY <1>1 DEF All
<1>3. \A v \in Workers : Busy(v)' = Busy(v) /\ Credited(v)' = Credited(v)
  BY <1>1, <1>2, SameCredits
<1>4. \A v \in Workers : pc'[v] = "append" =>
        \/ pc[v] = "append" /\ req'[v] = req[v]
        \/ req'[v].uid = seq + 1 /\ req'[v].id = IdOf(seq + 1)
  BY DEF SendRequest, SendFails, TypeOK
<1>5. /\ \A r \in Receivers : phase[r] # "read" /\ pkt[r].uid > 0 => pkt[r].uid + IdMod > seq + 1
      /\ \A q \in wire' : \/ q \in wire /\ q.uid + IdMod > seq + 1
                          \/ q.uid = seq + 1 /\ q.id = IdOf(seq + 1)
  BY DEF SendRequest, SendFails, Draw
<1>6. Numbered'
  <2>1. \A q \in wire' : q.uid \in 1..seq' /\ q.id = IdOf(q.uid) /\ q.uid + IdMod > seq'
    BY <1>0, <1>5 DEF RInv, Numbered, Drawn, Recent
  <2>2. \A r \in Receivers : phase'[r] # "read" =>
          \/ pkt'[r].uid = 0 /\ pkt'[r].id \in ForeignIds
          \/ pkt'[r].uid \in 1..seq' /\ pkt'[r].id = IdOf(pkt'[r].uid) /\ pkt'[r].uid + IdMod > seq'
    BY <1>0, <1>1, <1>5 DEF RInv, Numbered, Drawn, Recent
  <2>3. \A v \in Workers : \A p \in probes'[v] : p.uid \in 1..seq' /\ p.id = IdOf(p.uid)
    BY <1>0, <1>1 DEF RInv, Numbered, Drawn
  <2>4. \A v \in Workers : pc'[v] = "append" => req'[v].uid \in 1..seq' /\ req'[v].id = IdOf(req'[v].uid)
    BY <1>0, <1>4 DEF RInv, Numbered, Drawn
  <2>. QED BY <2>1, <2>2, <2>3, <2>4 DEF Numbered, Drawn, Recent
<1>7. NotYetCredited'
  <2>1. \A v \in Workers : \A x \in Credited(v) : x.uid \in Nat /\ x.uid <= seq /\ x.uid <= seq'
    BY <1>0, CreditedType DEF RInv, NotYetCredited, Reply
  <2>2. ASSUME NEW v \in Workers, pc'[v] = "append"
        PROVE  /\ \A p \in probes'[v] : p.uid # req'[v].uid
               /\ \A x \in Credited(v) : x.uid # req'[v].uid
    <3>1. CASE pc[v] = "append" /\ req'[v] = req[v]
      BY <1>1, <3>1 DEF RInv, NotYetCredited
    <3>2. CASE req'[v].uid = seq + 1
      <4>1. \A p \in probes[v] : p.uid \in 1..seq
        BY DEF RInv, Numbered, Drawn
      <4>. QED BY <1>0, <1>1, <2>1, <3>2, <4>1
    <3>. QED BY <1>4, <2>2, <3>1, <3>2
  <2>. QED BY <1>3, <2>1, <2>2 DEF NotYetCredited
<1>8. ReplyGenuine'
  BY <1>3 DEF RInv, ReplyGenuine
<1>9. AnsweredOnce'
  <2>1. \A v \in Workers : Once(v)'
    BY <1>1, <1>2, <1>3, OnceIsAnsweredOnce DEF RInv, Once
  <2>. QED BY <2>1 DEF AnsweredOnce, Once, All, Busy
<1>. QED BY <1>6, <1>7, <1>8, <1>9 DEF RInv

LEMMA AppendStep ==
  ASSUME TypeOK, TypeOK', RInv, NEW w \in Workers, AppendProbe(w)
  PROVE  RInv'
<1>1. /\ pc[w] = "append" /\ pc' = [pc EXCEPT ![w] = "select"]
      /\ probes' = [probes EXCEPT ![w] = @ \cup {req[w]}]
      /\ UNCHANGED <<seq, wire, ch, handed, phase, pkt, out, to>>
      /\ \A v \in Workers \ {w} : req'[v] = req[v]
  BY DEF AppendProbe, netVars, recvVars, TypeOK
<1>2. /\ pc'[w] = "select" /\ probes'[w] = probes[w] \cup {req[w]}
      /\ \A v \in Workers \ {w} : pc'[v] = pc[v] /\ probes'[v] = probes[v]
  BY <1>1 DEF TypeOK
<1>3. \A v \in Workers : All(v)' = All(v)
  BY <1>1 DEF All
<1>4. \A v \in Workers : Busy(v)' = Busy(v) /\ Credited(v)' = Credited(v)
  BY <1>1, <1>3, SameCredits
<1>5. Numbered'
  BY <1>1, <1>2 DEF RInv, Numbered, Drawn, Recent
<1>6. NotYetCredited'
  BY <1>1, <1>2, <1>4 DEF RInv, NotYetCredited
<1>7. ReplyGenuine'
  BY <1>4 DEF RInv, ReplyGenuine
<1>8. AnsweredOnce'
  <2>1. \A v \in Workers : Once(v)'
    <3>1. \A v \in Workers : \A p \in probes'[v] : \A x \in Credited(v) : p.uid # x.uid
      BY <1>1, <1>2, OnceIsAnsweredOnce DEF RInv, NotYetCredited, Once
    <3>. QED BY <1>1, <1>3, <1>4, <3>1, OnceIsAnsweredOnce DEF RInv, Once
  <2>. QED BY <2>1 DEF AnsweredOnce, Once, All, Busy
<1>. QED BY <1>5, <1>6, <1>7, <1>8 DEF RInv

LEMMA CloseStep ==
  ASSUME TypeOK, TypeOK', RInv, NEW w \in Workers, Close(w)
  PROVE  RInv'
<1>1. /\ \A r \in Receivers : phase[r] = "read"
      /\ pc' = [pc EXCEPT ![w] = "idle"] /\ probes' = [probes EXCEPT ![w] = {}]
      /\ ch' = [ch EXCEPT ![w] = <<>>] /\ handed' = [handed EXCEPT ![w] = <<>>]
      /\ UNCHANGED <<seq, wire, req, phase, pkt, out, to>>
  BY DEF Close, NoReaders, netVars, recvVars
<1>2. /\ pc'[w] = "idle" /\ probes'[w] = {} /\ ch'[w] = <<>> /\ handed'[w] = <<>>
      /\ \A v \in Workers \ {w} : pc'[v] = pc[v] /\ probes'[v] = probes[v]
                                /\ ch'[v] = ch[v] /\ handed'[v] = handed[v]
  BY <1>1 DEF TypeOK
<1>3. \A v \in Workers \ {w} : All(v)' = All(v)
  BY <1>2 DEF All
<1>4. \A v \in Workers \ {w} : Busy(v)' = Busy(v) /\ Credited(v)' = Credited(v)
  BY <1>1, <1>3, SameCredits
<1>5. Credited(w)' = {} /\ Busy(w)' = {} /\ All(w)' = <<>> /\ Len(<<>>) = 0
  <2>1. \A r \in Receivers : phase'[r] = "read"
    BY <1>1
  <2>2. Elements(<<>>) = {}
    BY DEF Elements
  <2>3. Elements(handed'[w]) = {} /\ Elements(ch'[w]) = {}
    BY <1>2, <2>2
  <2>4. <<>> \o <<>> = <<>> /\ Len(<<>>) = 0
    BY EmptySeq, ConcatEmptySeq
  <2>5. All(w)' = <<>>
    BY <1>2, <2>4 DEF All
  <2>6. Busy(w)' = {}
    BY <2>1 DEF Busy
  <2>7. Credited(w)' = {}
    BY <2>1, <2>3 DEF Credited, Elements
  <2>. QED BY <2>4, <2>5, <2>6, <2>7
<1>6. Numbered'
  BY <1>1, <1>2 DEF RInv, Numbered, Drawn, Recent
<1>7. NotYetCredited'
  BY <1>1, <1>2, <1>4, <1>5 DEF RInv, NotYetCredited
<1>8. ReplyGenuine'
  BY <1>4, <1>5 DEF RInv, ReplyGenuine
<1>9. AnsweredOnce'
  <2>1. \A v \in Workers \ {w} : Once(v)'
    BY <1>1, <1>2, <1>3, <1>4, OnceIsAnsweredOnce DEF RInv, Once
  <2>2. Once(w)'
    <3>1. \A i \in 1..Len(All(w)') : FALSE
      BY <1>5
    <3>. QED BY <1>2, <1>5, <3>1 DEF Once
  <2>. QED BY <2>1, <2>2 DEF AnsweredOnce, Once, All, Busy
<1>. QED BY <1>6, <1>7, <1>8, <1>9 DEF RInv

\* A packet of the network has the identifier of a recent request.
LEMMA ReceiveStep ==
  ASSUME TypeOK, TypeOK', RInv, NEW r \in Receivers, NEW p \in Incoming, Receive(r, p)
  PROVE  RInv'
<1>1. /\ phase[r] = "read" /\ phase' = [phase EXCEPT ![r] = "serve"]
      /\ pkt' = [pkt EXCEPT ![r] = p]
      /\ UNCHANGED <<seq, wire, pc, probes, ch, handed, req, out, to>>
  BY DEF Receive, netVars, workerVars
<1>2. /\ phase'[r] = "serve" /\ pkt'[r] = p
      /\ \A q \in Receivers \ {r} : phase'[q] = phase[q] /\ pkt'[q] = pkt[q]
  BY <1>1 DEF TypeOK
<1>3. (p.uid = 0 /\ p.id \in ForeignIds) \/ (Drawn(p) /\ Recent(p))
  <2>1. CASE p \in Foreign
    BY <2>1, ForeignType
  <2>2. ASSUME NEW q \in wire, p \in Answers(q) PROVE p.uid = q.uid /\ p.id = q.id
    BY <2>2 DEF Answers, Quoted
  <2>3. \A q \in wire : Drawn(q) /\ Recent(q)
    BY DEF RInv, Numbered
  <2>. QED BY <2>1, <2>2, <2>3 DEF Incoming, Drawn, Recent
<1>4. \A v \in Workers : All(v)' = All(v)
  BY <1>1 DEF All
<1>5. \A v \in Workers : Busy(v)' = Busy(v)
  BY <1>1, <1>2 DEF Busy
<1>6. \A v \in Workers : Credited(v)' = Credited(v)
  <2> TAKE v \in Workers
  <2>1. Credited(v) = Elements(All(v)) \cup {out[q] : q \in Busy(v)}
    BY CreditedIs
  <2>2. Credited(v)' = Elements(All(v)') \cup {out'[q] : q \in Busy(v)'}
    BY CreditedIsNext
  <2>3. All(v)' = All(v) /\ Busy(v)' = Busy(v) /\ out' = out
    BY <1>1, <1>4, <1>5
  <2>. QED BY <2>1, <2>2, <2>3 DEF Elements
<1>7. Numbered'
  BY <1>1, <1>2, <1>3 DEF RInv, Numbered, Drawn, Recent
<1>8. NotYetCredited'
  BY <1>1, <1>6 DEF RInv, NotYetCredited
<1>9. ReplyGenuine'
  BY <1>6 DEF RInv, ReplyGenuine
<1>10. AnsweredOnce'
  <2>1. \A v \in Workers : Once(v)'
    BY <1>1, <1>4, <1>5, <1>6, OnceIsAnsweredOnce DEF RInv, Once
  <2>. QED BY <2>1 DEF AnsweredOnce, Once, All, Busy
<1>. QED BY <1>7, <1>8, <1>9, <1>10 DEF RInv

\* A call of handle finds nothing, or credits one of the probes it removes.
LEMMA HandleEnds ==
  ASSUME TypeOK, NEW r \in Receivers, NEW w \in Workers, NEW cut \in 0..(seq + 1), Handle(r, w, cut)
  PROVE  LET live  == {p \in probes[w] : p.uid >= cut}
             match == {p \in live : p.id = pkt[r].id}
         IN  /\ \A q \in Receivers \ {r} :
                  phase'[q] = phase[q] /\ pkt'[q] = pkt[q] /\ out'[q] = out[q] /\ to'[q] = to[q]
             /\ phase'[r] # "read" => pkt'[r] = pkt[r]
             /\ \/ phase'[r] # "deliver"
                \/ \E p \in match : /\ phase'[r] = "deliver" /\ to'[r] = w
                                   /\ out'[r].uid = p.uid /\ out'[r].src = pkt[r].uid
<1> DEFINE live  == {p \in probes[w] : p.uid >= cut}
           match == {p \in live : p.id = pkt[r].id}
           rest  == todo[r] \ {w}
           reply(p) == [ip |-> pkt[r].from, hops |-> HopsOf(p, pkt[r]), uid |-> p.uid, src |-> pkt[r].uid]
<1>1. \/ /\ phase' = [phase EXCEPT ![r] = IF rest = {} THEN "read" ELSE "serve"]
         /\ pkt' = [pkt EXCEPT ![r] = IF rest = {} THEN NoPacket ELSE @]
         /\ out' = out /\ to' = to
      \/ \E p \in match :
           /\ out' = [out EXCEPT ![r] = reply(p)] /\ to' = [to EXCEPT ![r] = w]
           /\ phase' = [phase EXCEPT ![r] = "deliver"] /\ pkt' = pkt
  BY DEF Handle, Matches, NextSession
<1>2. \A p : reply(p).uid = p.uid /\ reply(p).src = pkt[r].uid
  OBVIOUS
<1> HIDE DEF reply, rest, match
<1>3. CASE /\ phase' = [phase EXCEPT ![r] = IF rest = {} THEN "read" ELSE "serve"]
           /\ pkt' = [pkt EXCEPT ![r] = IF rest = {} THEN NoPacket ELSE @]
           /\ out' = out /\ to' = to
  <2>1. /\ phase'[r] # "deliver"
        /\ phase'[r] # "read" => pkt'[r] = pkt[r]
        /\ \A q \in Receivers \ {r} : phase'[q] = phase[q] /\ pkt'[q] = pkt[q]
    BY <1>3 DEF TypeOK
  <2>. QED BY <1>3, <2>1
<1>4. ASSUME NEW p \in match,
             out' = [out EXCEPT ![r] = reply(p)], to' = [to EXCEPT ![r] = w],
             phase' = [phase EXCEPT ![r] = "deliver"], pkt' = pkt
      PROVE  /\ phase'[r] = "deliver" /\ to'[r] = w /\ out'[r].uid = p.uid /\ out'[r].src = pkt[r].uid
             /\ \A q \in Receivers \ {r} : phase'[q] = phase[q] /\ out'[q] = out[q] /\ to'[q] = to[q]
  <2>1. out'[r] = reply(p) /\ to'[r] = w /\ phase'[r] = "deliver"
    BY <1>4 DEF TypeOK
  <2>2. \A q \in Receivers \ {r} : phase'[q] = phase[q] /\ out'[q] = out[q] /\ to'[q] = to[q]
    BY <1>4 DEF TypeOK
  <2>. QED BY <1>2, <2>1, <2>2
<1>. QED BY <1>1, <1>3, <1>4 DEF match

\* The probe that handle finds is the one the packet answers, and it is taken
\* away before its reply is credited.
LEMMA HandleStep ==
  ASSUME TypeOK, TypeOK', RInv, NEW r \in Receivers, NEW w \in Workers, NEW cut \in 0..(seq + 1),
         Handle(r, w, cut)
  PROVE  RInv'
<1>0. seq \in Nat /\ IdMod \in Nat /\ cut \in Nat
  BY IdAssumption DEF TypeOK
<1> DEFINE live  == {p \in probes[w] : p.uid >= cut}
           match == {p \in live : p.id = pkt[r].id}
<1>1. /\ phase[r] = "serve" /\ cut + IdMod > seq
      /\ probes' = [probes EXCEPT ![w] = live \ match]
      /\ UNCHANGED <<seq, wire, pc, req, ch, handed>>
  BY DEF Handle, Matches, Remaining, netVars, workerVars
<1>2. /\ probes'[w] = live \ match
      /\ \A v \in Workers \ {w} : probes'[v] = probes[v]
      /\ \A v \in Workers : probes'[v] \subseteq probes[v]
  BY <1>1 DEF TypeOK
<1>3. /\ \A q \in Receivers \ {r} :
           phase'[q] = phase[q] /\ pkt'[q] = pkt[q] /\ out'[q] = out[q] /\ to'[q] = to[q]
      /\ phase'[r] # "read" => pkt'[r] = pkt[r]
      /\ \/ phase'[r] # "deliver"
         \/ \E p \in match : /\ phase'[r] = "deliver" /\ to'[r] = w
                            /\ out'[r].uid = p.uid /\ out'[r].src = pkt[r].uid
  BY HandleEnds
<1>4. \A v \in Workers : All(v)' = All(v)
  BY <1>1 DEF All
<1>5. Numbered'
  BY <1>1, <1>2, <1>3 DEF RInv, Numbered, Drawn, Recent
<1>6. ASSUME NEW v \in Workers, ~(phase'[r] = "deliver" /\ v = w)
      PROVE  Busy(v)' = Busy(v) /\ Credited(v)' = Credited(v) /\ \A q \in Busy(v) : out'[q] = out[q]
  <2>1. Busy(v)' = Busy(v) /\ r \notin Busy(v) /\ \A q \in Busy(v) : out'[q] = out[q]
    BY <1>1, <1>3, <1>6 DEF Busy
  <2>2. Credited(v) = Elements(All(v)) \cup {out[q] : q \in Busy(v)}
    BY CreditedIs
  <2>3. Credited(v)' = Elements(All(v)') \cup {out'[q] : q \in Busy(v)'}
    BY CreditedIsNext
  <2>4. All(v)' = All(v)
    BY <1>4
  <2>. QED BY <2>1, <2>2, <2>3, <2>4 DEF Elements
<1>7. ASSUME phase'[r] = "deliver"
      PROVE  \E p \in match :
               /\ out'[r].uid = p.uid /\ out'[r].src = pkt[r].uid
               /\ Busy(w)' = Busy(w) \cup {r} /\ Credited(w)' = Credited(w) \cup {out'[r]}
               /\ r \notin Busy(w) /\ \A q \in Busy(w) : out'[q] = out[q]
  <2>1. PICK p \in match : to'[r] = w /\ out'[r].uid = p.uid /\ out'[r].src = pkt[r].uid
    BY <1>3, <1>7
  <2>2. /\ Busy(w)' = Busy(w) \cup {r} /\ r \notin Busy(w) /\ \A q \in Busy(w) : out'[q] = out[q]
    BY <1>1, <1>3, <1>7, <2>1 DEF Busy
  <2>3. Credited(w) = Elements(All(w)) \cup {out[q] : q \in Busy(w)}
    BY CreditedIs
  <2>4. Credited(w)' = Elements(All(w)') \cup {out'[q] : q \in Busy(w)'}
    BY CreditedIsNext
  <2>5. {out'[q] : q \in Busy(w) \cup {r}} = {out[q] : q \in Busy(w)} \cup {out'[r]}
    BY <2>2
  <2>6. Credited(w)' = Credited(w) \cup {out'[r]}
    BY <1>4, <2>2, <2>3, <2>4, <2>5 DEF Elements
  <2>. QED BY <2>1, <2>2, <2>6
<1>8. \A p \in match : p \in probes[w] /\ p.uid \in 1..seq /\ p.id = IdOf(p.uid) /\ p.id = pkt[r].id
                     /\ p.uid >= cut
  BY DEF RInv, Numbered, Drawn
<1>9. NotYetCredited'
  <2>1. ASSUME NEW v \in Workers, ~(phase'[r] = "deliver" /\ v = w)
        PROVE  /\ \A x \in Credited(v)' : x.uid <= seq
               /\ pc[v] = "append" => /\ \A p \in probes'[v] : p.uid # req[v].uid
                                      /\ \A x \in Credited(v)' : x.uid # req[v].uid
    BY <1>2, <1>6, <2>1 DEF RInv, NotYetCredited
  <2>2. ASSUME phase'[r] = "deliver"
        PROVE  /\ \A x \in Credited(w)' : x.uid <= seq
               /\ pc[w] = "append" => /\ \A p \in probes'[w] : p.uid # req[w].uid
                                      /\ \A x \in Credited(w)' : x.uid # req[w].uid
    <3>1. PICK p \in match : out'[r].uid = p.uid /\ Credited(w)' = Credited(w) \cup {out'[r]}
      BY <1>7, <2>2
    <3>2. p \in probes[w] /\ p.uid <= seq
      BY <1>8
    <3>. QED BY <1>2, <3>1, <3>2 DEF RInv, NotYetCredited
  <2>. QED BY <1>1, <2>1, <2>2 DEF NotYetCredited
<1>10. ReplyGenuine'
  <2> DEFINE Right(x) == x.src = x.uid \/ (x.src = 0 /\ IdOf(x.uid) \in ForeignIds)
  <2>1. ASSUME NEW v \in Workers, ~(phase'[r] = "deliver" /\ v = w)
        PROVE  \A x \in Credited(v)' : Right(x)
    BY <1>6, <2>1 DEF RInv, ReplyGenuine
  <2>2. ASSUME phase'[r] = "deliver"
        PROVE  \A x \in Credited(w)' : Right(x)
    <3>1. PICK p \in match : /\ out'[r].uid = p.uid /\ out'[r].src = pkt[r].uid
                             /\ Credited(w)' = Credited(w) \cup {out'[r]}
      BY <1>7, <2>2
    <3>2. p.uid \in 1..seq /\ p.id = IdOf(p.uid) /\ p.id = pkt[r].id /\ p.uid >= cut
      BY <1>8
    <3>3. pkt[r].uid = p.uid \/ (pkt[r].uid = 0 /\ IdOf(p.uid) \in ForeignIds)
      <4>1. \/ pkt[r].uid = 0 /\ pkt[r].id \in ForeignIds
            \/ Drawn(pkt[r]) /\ Recent(pkt[r])
        BY <1>1 DEF RInv, Numbered
      <4>2. CASE Drawn(pkt[r]) /\ Recent(pkt[r])
        <5>1. /\ pkt[r].uid \in Nat /\ p.uid \in Nat /\ seq \in Nat /\ IdMod \in Nat /\ cut \in Nat
              /\ pkt[r].uid <= seq /\ p.uid <= seq
          BY <1>0, <3>2, <4>2 DEF Drawn
        <5>2. pkt[r].uid + IdMod > seq /\ p.uid + IdMod > seq
          BY <1>1, <3>2, <4>2, <5>1 DEF Recent
        <5>3. IdOf(pkt[r].uid) = IdOf(p.uid)
          BY <3>2, <4>2 DEF Drawn
        <5>. QED BY <5>1, <5>2, <5>3, CloseNumbers
      <4>. QED BY <3>2, <4>1, <4>2
    <3>. QED BY <3>1, <3>3 DEF RInv, ReplyGenuine
  <2>. QED BY <2>1, <2>2 DEF ReplyGenuine
<1>11. AnsweredOnce'
  <2>0. \A v \in Workers : Once(v)
    BY OnceIsAnsweredOnce DEF RInv
  <2>1. ASSUME NEW v \in Workers, ~(phase'[r] = "deliver" /\ v = w) PROVE Once(v)'
    <3>1. Busy(v)' = Busy(v) /\ Credited(v)' = Credited(v) /\ \A q \in Busy(v) : out'[q] = out[q]
      BY <1>6, <2>1
    <3>. QED BY <1>2, <1>4, <2>0, <3>1 DEF Once
  <2>2. ASSUME phase'[r] = "deliver" PROVE Once(w)'
    <3>1. PICK p \in match :
            /\ out'[r].uid = p.uid
            /\ Busy(w)' = Busy(w) \cup {r} /\ Credited(w)' = Credited(w) \cup {out'[r]}
            /\ r \notin Busy(w) /\ \A q \in Busy(w) : out'[q] = out[q]
      BY <1>7, <2>2
    <3>2. All(w) \in Seq(Reply) /\ Credited(w) = Elements(All(w)) \cup {out[q] : q \in Busy(w)}
      BY CreditedIs
    <3>3. \A x \in Credited(w) : x.uid # p.uid
      BY <1>8, <2>0 DEF Once
    <3>4. (\A i \in 1..Len(All(w)) : All(w)[i].uid # p.uid) /\ (\A q \in Busy(w) : out[q].uid # p.uid)
      BY <3>2, <3>3, Elem
    <3>5. ASSUME NEW q \in probes'[w] PROVE q.uid # p.uid
      <4>1. q \in probes[w] /\ q \in live /\ q.id # pkt[r].id /\ q.id = IdOf(q.uid)
        BY <1>2 DEF RInv, Numbered, Drawn
      <4>. QED BY <1>8, <4>1
    <3>6. \A q \in probes'[w] : \A x \in Credited(w)' : q.uid # x.uid
      BY <1>2, <2>0, <3>1, <3>5 DEF Once
    <3>7. \A q \in Busy(w)' : \A i \in 1..Len(All(w)) : All(w)[i].uid # out'[q].uid
      BY <2>0, <3>1, <3>4 DEF Once
    <3>8. \A q, t \in Busy(w)' : out'[q].uid = out'[t].uid => q = t
      BY <2>0, <3>1, <3>4 DEF Once
    <3>9. \A i, j \in 1..Len(All(w)) : All(w)[i].uid = All(w)[j].uid => i = j
      BY <2>0 DEF Once
    <3>. QED BY <1>4, <3>6, <3>7, <3>8, <3>9 DEF Once
  <2>3. \A v \in Workers : Once(v)'
    BY <2>1, <2>2
  <2>. QED BY <2>3 DEF AnsweredOnce, Once, All, Busy
<1>. QED BY <1>5, <1>9, <1>10, <1>11 DEF RInv

\* What was credited comes into the channel or is dropped.
LEMMA DeliverStep ==
  ASSUME TypeOK, TypeOK', RInv, NEW r \in Receivers, Deliver(r)
  PROVE  RInv'
<1>a. to[r] \in Workers /\ out[r] \in Reply
  BY DEF TypeOK
<1>b. PICK w \in Workers : w = to[r]
  BY <1>a
<1>0. w \in Workers /\ out[r] \in Reply
  BY <1>a
<1>1. /\ phase[r] = "deliver"
      /\ ch' = ch \/ ch' = [ch EXCEPT ![w] = Append(@, out[r])]
      /\ UNCHANGED <<seq, wire, pc, req, probes, handed>>
  BY <1>b DEF Deliver, netVars, workerVars
<1>2. /\ phase'[r] # "deliver"
      /\ phase'[r] # "read" => pkt'[r] = pkt[r]
      /\ \A q \in Receivers \ {r} :
           phase'[q] = phase[q] /\ pkt'[q] = pkt[q] /\ out'[q] = out[q] /\ to'[q] = to[q]
  BY DEF Deliver, NextSession, TypeOK
<1>3. r \in Busy(w)
  BY <1>1, <1>b DEF Busy
<1>4. \A v \in Workers : /\ Busy(v)' = Busy(v) \ {r} /\ (v # w => Busy(v)' = Busy(v))
                         /\ \A q \in Busy(v) \ {r} : out'[q] = out[q]
  BY <1>1, <1>2, <1>b DEF Busy
<1>5. /\ \A v \in Workers \ {w} : All(v)' = All(v)
      /\ All(w)' = All(w) \/ All(w)' = Append(All(w), out[r])
  <2>1. CASE ch' = ch
    BY <1>1, <2>1 DEF All
  <2>2. CASE ch' = [ch EXCEPT ![w] = Append(@, out[r])]
    <3>1. ch'[w] = Append(ch[w], out[r]) /\ \A v \in Workers \ {w} : ch'[v] = ch[v]
      BY <1>0, <2>2 DEF TypeOK
    <3>2. handed[w] \in Seq(Reply) /\ ch[w] \in Seq(Reply)
      BY <1>0 DEF TypeOK
    <3>3. handed[w] \o Append(ch[w], out[r]) = Append(handed[w] \o ch[w], out[r])
      BY <1>0, <3>2, Delivered
    <3>4. All(w)' = Append(All(w), out[r])
      BY <1>1, <3>1, <3>3 DEF All
    <3>. QED BY <1>1, <3>1, <3>4 DEF All
  <2>. QED BY <1>1, <2>1, <2>2
<1>6. All(w) \in Seq(Reply) /\ Len(All(w)) \in Nat
  BY <1>0, CreditedIs, LenProperties
<1>7. /\ Append(All(w), out[r]) \in Seq(Reply) /\ Len(Append(All(w), out[r])) = Len(All(w)) + 1
      /\ \A i \in 1..Len(All(w)) : Append(All(w), out[r])[i] = All(w)[i]
      /\ Append(All(w), out[r])[Len(All(w)) + 1] = out[r]
  BY <1>0, <1>6, AppendProperties
<1>8. Elements(Append(All(w), out[r])) \subseteq Elements(All(w)) \cup {out[r]}
  <2>1. \A i \in 1..(Len(All(w)) + 1) : i \in 1..Len(All(w)) \/ i = Len(All(w)) + 1
    BY <1>6
  <2>. QED BY <1>7, <2>1 DEF Elements
<1>9. \A v \in Workers : Credited(v)' \subseteq Credited(v)
  <2> TAKE v \in Workers
  <2>1. Credited(v) = Elements(All(v)) \cup {out[q] : q \in Busy(v)}
    BY CreditedIs
  <2>2. Credited(v)' = Elements(All(v)') \cup {out'[q] : q \in Busy(v)'}
    BY CreditedIsNext
  <2>3. {out'[q] : q \in Busy(v)'} \subseteq {out[q] : q \in Busy(v)}
    BY <1>4
  <2>4. CASE v # w
    BY <1>5, <2>1, <2>2, <2>3, <2>4 DEF Elements
  <2>5. CASE v = w
    <3>1. out[r] \in {out[q] : q \in Busy(v)}
      BY <1>3, <2>5
    <3>2. CASE All(w)' = All(w)
      <4>1. Elements(All(v)') = Elements(All(v))
        BY <2>5, <3>2 DEF Elements
      <4>. QED BY <2>1, <2>2, <2>3, <4>1
    <3>3. CASE All(w)' = Append(All(w), out[r])
      <4>1. Elements(All(v)') = Elements(Append(All(v), out[r]))
        BY <2>5, <3>3 DEF Elements
      <4>. QED BY <1>8, <2>1, <2>2, <2>3, <2>5, <3>1, <4>1
    <3>. QED BY <1>5, <3>2, <3>3
  <2>. QED BY <2>4, <2>5
<1>10. Numbered'
  BY <1>1, <1>2 DEF RInv, Numbered, Drawn, Recent
<1>11. NotYetCredited'
  BY <1>1, <1>9 DEF RInv, NotYetCredited
<1>12. ReplyGenuine'
  BY <1>9 DEF RInv, ReplyGenuine
<1>13. AnsweredOnce'
  <2>0. \A v \in Workers : Once(v)
    BY OnceIsAnsweredOnce DEF RInv
  <2>1. \A v \in Workers : \A p \in probes'[v] : \A x \in Credited(v)' : p.uid # x.uid
    BY <1>1, <1>9, <2>0 DEF Once
  <2>2. ASSUME NEW v \in Workers, v # w PROVE Once(v)'
    <3>1. All(v)' = All(v) /\ Busy(v)' = Busy(v) /\ \A q \in Busy(v)' : out'[q] = out[q]
      BY <1>4, <1>5, <2>2
    <3>. QED BY <2>0, <2>1, <3>1 DEF Once
  <2>6. \A q, t \in Busy(w)' : out'[q].uid = out'[t].uid => q = t
    BY <1>0, <1>4, <2>0 DEF Once
  <2>3. ASSUME All(w)' = All(w) PROVE Once(w)'
    <3>1. \A q \in Busy(w)' : \A i \in 1..Len(All(w)) : All(w)[i].uid # out'[q].uid
      BY <1>0, <1>4, <2>0 DEF Once
    <3>2. \A i, j \in 1..Len(All(w)) : All(w)[i].uid = All(w)[j].uid => i = j
      BY <1>0, <2>0 DEF Once
    <3>. QED BY <1>0, <2>1, <2>3, <2>6, <3>1, <3>2 DEF Once
  <2>4. ASSUME All(w)' = Append(All(w), out[r]) PROVE Once(w)'
    <3> DEFINE a == Append(All(w), out[r])
               m == Len(All(w))
    <3>1. \A i \in 1..m : All(w)[i].uid # out[r].uid
      BY <1>0, <1>3, <2>0 DEF Once
    <3>2. m \in Nat /\ Len(a) = m + 1 /\ a[m + 1] = out[r] /\ \A i \in 1..m : a[i] = All(w)[i]
      BY <1>6, <1>7
    <3>3. \A i \in 1..(m + 1) : i \in 1..m \/ i = m + 1
      BY <3>2
    <3>4. \A i, j \in 1..m : All(w)[i].uid = All(w)[j].uid => i = j
      BY <1>0, <2>0 DEF Once
    <3>5. \A q \in Busy(w) \ {r} : /\ out[q].uid # out[r].uid
                                  /\ \A i \in 1..m : All(w)[i].uid # out[q].uid
      BY <1>0, <1>3, <2>0 DEF Once
    <3> HIDE DEF a, m
    <3>6. \A i, j \in 1..(m + 1) : a[i].uid = a[j].uid => i = j
      BY <3>1, <3>2, <3>3, <3>4
    <3>7. \A q \in Busy(w)' : \A i \in 1..(m + 1) : a[i].uid # out'[q].uid
      BY <1>0, <1>4, <3>2, <3>3, <3>5
    <3>8. 1..Len(a) = 1..(m + 1)
      BY <3>2
    <3>9. \A i, j \in 1..Len(a) : a[i].uid = a[j].uid => i = j
      BY <3>6, <3>8
    <3>10. \A q \in Busy(w)' : \A i \in 1..Len(a) : a[i].uid # out'[q].uid
      BY <3>7, <3>8
    <3>11. All(w)' = a
      BY <2>4 DEF a
    <3>. QED BY <1>0, <2>1, <2>6, <3>9, <3>10, <3>11 DEF Once
  <2>5. \A v \in Workers : Once(v)'
    BY <1>5, <2>2, <2>3, <2>4
  <2>. QED BY <2>5 DEF AnsweredOnce, Once, All, Busy
<1>. QED BY <1>10, <1>11, <1>12, <1>13 DEF RInv

LEMMA RInvInit == Init => RInv
<1> SUFFICES ASSUME Init PROVE RInv
  OBVIOUS
<1>1. Elements(<<>>) = {} /\ <<>> \o <<>> = <<>> /\ Len(<<>>) = 0
  BY EmptySeq, ConcatEmptySeq DEF Elements
<1>2. \A w \in Workers : Credited(w) = {} /\ handed[w] \o ch[w] = <<>>
  BY <1>1 DEF Init, Credited
<1>3. \A i \in 1..Len(<<>>) : FALSE
  BY <1>1
<1>4. Numbered /\ NotYetCredited /\ ReplyGenuine
  BY <1>2 DEF Init, Numbered, NotYetCredited, ReplyGenuine
<1>5. AnsweredOnce
  BY <1>2, <1>3 DEF Init, AnsweredOnce
<1>. QED BY <1>4, <1>5 DEF RInv

LEMMA RInvStep == TypeOK /\ TypeOK' /\ RInv /\ [Next]_vars => RInv'
<1> SUFFICES ASSUME TypeOK, TypeOK', RInv, [Next]_vars PROVE RInv'
  OBVIOUS
<1>1. ASSUME NEW w \in Workers, StartTrace(w) \/ WorkerStep(w) PROVE RInv'
  BY <1>1, QuietStep, SendStep, AppendStep, CloseStep DEF WorkerStep
<1>2. ASSUME NEW r \in Receivers, (\E p \in Incoming : Receive(r, p)) \/ Serve(r) PROVE RInv'
  BY <1>2, ReceiveStep, HandleStep, DeliverStep DEF Serve
<1>3. CASE UNCHANGED vars
  BY <1>3, SameReplies DEF vars, netVars, workerVars, recvVars, All
<1>. QED BY <1>1, <1>2, <1>3 DEF Next

LEMMA Invariance == Spec => []RInv
BY RInvInit, RInvStep, TypeCorrect, PTL DEF Spec

\* Session.handle compares 16 bits and answers come late, twice and out of
\* order; still no reply is credited with the answer to another request of the
\* tracer, and what answers none of its requests is credited only to one that drew
\* the same identifier.
THEOREM ReplyGenuineCorrect == Spec => []ReplyGenuine
<1>1. RInv => ReplyGenuine
  BY DEF RInv
<1>. QED BY <1>1, Invariance, PTL

\* No probe is credited with two replies, however many receivers handle the
\* copies of an answer at the same time.
THEOREM AnsweredOnceCorrect == Spec => []AnsweredOnce
<1>1. RInv => AnsweredOnce
  BY DEF RInv
<1>. QED BY <1>1, Invariance, PTL
-----------------------------------------------------------------------------
(* The bound of a trace *)

\* A session begins without replies.
Fresh == \A w \in Workers : ~Session(w) => handed[w] = <<>> /\ max[w] = MaxHops

TightInv == Fresh /\ MaxIsTight

LEMMA ElementsOfAppend ==
  ASSUME NEW s \in Seq(Reply), NEW x \in Reply
  PROVE  Elements(Append(s, x)) = Elements(s) \cup {x}
<1>1. /\ Len(Append(s, x)) = Len(s) + 1 /\ Len(s) \in Nat
      /\ \A i \in 1..Len(s) : Append(s, x)[i] = s[i]
      /\ Append(s, x)[Len(s) + 1] = x
  BY AppendProperties, LenProperties
<1>2. 1..(Len(s) + 1) = 1..Len(s) \cup {Len(s) + 1}
  BY <1>1
<1>. QED BY <1>1, <1>2 DEF Elements

LEMMA TakeReplyTight ==
  ASSUME TypeOK, TightInv, NEW w \in Workers, TakeReply(w), Session(w),
         UNCHANGED dst, \A v \in Workers : Session(v)' <=> Session(v)
  PROVE  TightInv'
<1> DEFINE r == Head(ch[w])
<1>1. r \in Reply /\ handed[w] \in Seq(Reply)
  <2>1. ch[w] \in Seq(Reply) /\ ch[w] # <<>>
    BY DEF TypeOK, TakeReply
  <2>. QED BY <2>1, HeadTailProperties DEF TypeOK
<1>2. /\ max'[w] = IF max[w] > r.hops /\ r.ip = dst[w] THEN r.hops ELSE max[w]
      /\ handed'[w] = Append(handed[w], r)
      /\ \A v \in Workers \ {w} : max'[v] = max[v] /\ handed'[v] = handed[v]
  BY DEF TakeReply, Lowered, TypeOK
<1> HIDE DEF r
<1>3. r.hops \in Nat /\ max[w] \in Nat /\ MaxHops \in Nat /\ max[w] <= MaxHops
      /\ \A x \in FromDest(w) : x.hops \in Nat
  <2>1. \A x \in Elements(handed[w]) : x \in Reply
    BY <1>1, ElementsType
  <2>. QED BY <1>1, <2>1, HopsAssumption DEF TypeOK, Reply, FromDest
<1>4. Elements(handed'[w]) = Elements(handed[w]) \cup {r}
  BY <1>1, <1>2, ElementsOfAppend DEF Elements
<1>5. FromDest(w)' = {x \in Elements(handed'[w]) : x.ip = dst[w]}
  BY DEF FromDest, Elements
<1>6. FromDest(w)' = IF r.ip = dst[w] THEN FromDest(w) \cup {r} ELSE FromDest(w)
  BY <1>4, <1>5 DEF FromDest
<1>7. (\A x \in FromDest(w) : max[w] <= x.hops) /\ (max[w] < MaxHops => \E x \in FromDest(w) : max[w] = x.hops)
  BY DEF TightInv, MaxIsTight
<1>8. /\ \A x \in FromDest(w)' : max'[w] <= x.hops
      /\ max'[w] < MaxHops => \E x \in FromDest(w)' : max'[w] = x.hops
  <2>1. CASE r.ip = dst[w] /\ max[w] > r.hops
    <3>1. max'[w] = r.hops /\ FromDest(w)' = FromDest(w) \cup {r}
      BY <1>2, <1>6, <2>1
    <3>2. \A x \in FromDest(w) : r.hops <= x.hops
      BY <1>3, <1>7, <2>1
    <3>. QED BY <1>3, <3>1, <3>2
  <2>2. CASE r.ip = dst[w] /\ ~(max[w] > r.hops)
    <3>1. max'[w] = max[w] /\ FromDest(w)' = FromDest(w) \cup {r} /\ max[w] <= r.hops
      BY <1>2, <1>3, <1>6, <2>2
    <3>. QED BY <1>7, <3>1
  <2>3. CASE r.ip # dst[w]
    <3>1. max'[w] = max[w] /\ FromDest(w)' = FromDest(w)
      BY <1>2, <1>6, <2>3
    <3>. QED BY <1>7, <3>1
  <2>. QED BY <2>1, <2>2, <2>3
<1>9. \A v \in Workers \ {w} : FromDest(v)' = FromDest(v)
  BY <1>2 DEF FromDest, Elements
<1>10. Fresh'
  BY <1>2 DEF TightInv, Fresh
<1>11. MaxIsTight'
  BY <1>2, <1>8, <1>9 DEF TightInv, MaxIsTight
<1>. QED BY <1>10, <1>11 DEF TightInv

\* Steps that leave max and what was handed over alone.
LEMMA SameTight ==
  ASSUME TightInv, UNCHANGED <<dst, max, handed>>, \A v \in Workers : Session(v)' <=> Session(v)
  PROVE  TightInv'
<1>1. \A v \in Workers : FromDest(v)' = FromDest(v)
  BY DEF FromDest, Elements
<1>. QED BY <1>1 DEF TightInv, Fresh, MaxIsTight

LEMMA TightStep == TypeOK /\ TightInv /\ [Next]_vars => TightInv'
<1> SUFFICES ASSUME TypeOK, TightInv, [Next]_vars PROVE TightInv'
  OBVIOUS
<1>1. ASSUME NEW w \in Workers, StartTrace(w) PROVE TightInv'
  <2>1. PICK d \in Dests, m \in WantedHops : NewSession(w, d, m)
    BY <1>1 DEF StartTrace
  <2>2. /\ pc[w] = "idle" /\ pc' = [pc EXCEPT ![w] = "loop"] /\ dst' = [dst EXCEPT ![w] = d]
        /\ UNCHANGED <<max, handed>>
    BY <2>1 DEF NewSession
  <2>3. handed[w] = <<>> /\ max[w] = MaxHops
    BY <2>2 DEF TightInv, Fresh, Session
  <2>4. \A v \in Workers \ {w} : FromDest(v)' = FromDest(v) /\ (Session(v)' <=> Session(v))
    BY <2>2 DEF FromDest, Elements, Session, TypeOK
  <2>5. FromDest(w)' = {}
    BY <2>2, <2>3 DEF FromDest, Elements
  <2>6. Fresh'
    BY <2>2, <2>3, <2>4 DEF TightInv, Fresh
  <2>7. MaxIsTight'
    BY <2>2, <2>3, <2>4, <2>5, HopsAssumption DEF TightInv, MaxIsTight
  <2>. QED BY <2>6, <2>7 DEF TightInv
<1>2. ASSUME NEW w \in Workers, WorkerStep(w) PROVE TightInv'
  <2>1. CASE Close(w)
    <3>1. /\ pc'[w] = "idle" /\ max'[w] = MaxHops /\ handed'[w] = <<>>
          /\ \A v \in Workers \ {w} : pc'[v] = pc[v] /\ max'[v] = max[v] /\ handed'[v] = handed[v]
                                    /\ dst'[v] = dst[v]
      BY <2>1 DEF Close, TypeOK
    <3>2. \A v \in Workers \ {w} : FromDest(v)' = FromDest(v) /\ (Session(v)' <=> Session(v))
      BY <3>1 DEF FromDest, Elements, Session
    <3>3. ~Session(w)'
      BY <3>1 DEF Session
    <3>4. Fresh'
      BY <3>1, <3>2 DEF TightInv, Fresh
    <3>5. MaxIsTight'
      BY <3>1, <3>2, <3>3 DEF TightInv, MaxIsTight
    <3>. QED BY <3>4, <3>5 DEF TightInv
  <2>2. CASE ~Close(w)
    <3>1. dst' = dst /\ \A v \in Workers : Session(v)' <=> Session(v)
      BY <1>2, <2>2, StepInSession
    <3>2. CASE SelectReply(w) \/ DrainReply(w)
      BY <3>1, <3>2, TakeReplyTight DEF SelectReply, DrainReply, Session
    <3>3. CASE ~(SelectReply(w) \/ DrainReply(w))
      <4>1. UNCHANGED <<max, handed>>
        BY <1>2, <2>2, <3>3 DEF WorkerStep, SendRequest, SendFails, AppendProbe, SelectDelay, NextRound,
                                CheckDone, Deadline, Lock
      <4>. QED BY <3>1, <4>1, SameTight
    <3>. QED BY <3>2, <3>3
  <2>. QED BY <2>1, <2>2
<1>3. ASSUME NEW r \in Receivers, (\E p \in Incoming : Receive(r, p)) \/ Serve(r) PROVE TightInv'
  <2>1. UNCHANGED <<pc, dst, max, handed>>
    BY <1>3 DEF Receive, Serve, Handle, Deliver, workerVars
  <2>. QED BY <2>1, SameTight DEF Session
<1>4. CASE UNCHANGED vars
  BY <1>4, SameTight DEF vars, workerVars, Session
<1>. QED BY <1>1, <1>2, <1>3, <1>4 DEF Next

LEMMA TightInvariance == Spec => []TightInv
<1>1. Init => TightInv
  BY DEF Init, TightInv, Fresh, MaxIsTight, Session
<1>. QED BY <1>1, TightStep, TypeCorrect, PTL DEF Spec

\* Replies of the destination arrive in any order, from any distance: max is
\* the smallest hop count among those that Trace has been told.
THEOREM MaxIsTightCorrect == Spec => []MaxIsTight
<1>1. TightInv => MaxIsTight
  BY DEF TightInv
<1>. QED BY <1>1, TightInvariance, PTL

\* Each worker has its own program counter.
LEMMA OwnStep ==
  ASSUME TypeOK, NEW v \in Workers, StartTrace(v) \/ WorkerStep(v)
  PROVE  \A u \in Workers \ {v} : pc'[u] = pc[u]
<1>1. CASE StartTrace(v)
  BY <1>1 DEF StartTrace, NewSession, TypeOK
<1>2. CASE SendRequest(v)
  BY <1>2 DEF SendRequest, TypeOK
<1>3. CASE SendFails(v)
  BY <1>3 DEF SendFails, TypeOK
<1>4. CASE AppendProbe(v)
  BY <1>4 DEF AppendProbe, TypeOK
<1>5. CASE SelectDelay(v)
  BY <1>5 DEF SelectDelay, TypeOK
<1>6. CASE SelectReply(v)
  BY <1>6 DEF SelectReply, TypeOK
<1>7. CASE NextRound(v)
  BY <1>7 DEF NextRound, TypeOK
<1>8. CASE CheckDone(v)
  BY <1>8 DEF CheckDone, TypeOK
<1>9. CASE DrainReply(v)
  BY <1>9 DEF DrainReply, TypeOK
<1>10. CASE Deadline(v)
  BY <1>10 DEF Deadline, TypeOK
<1>11. CASE Lock(v)
  BY <1>11 DEF Lock, TypeOK
<1>12. CASE Close(v)
  BY <1>12 DEF Close, TypeOK
<1>. QED BY <1>1, <1>2, <1>3, <1>4, <1>5, <1>6, <1>7, <1>8, <1>9, <1>10, <1>11, <1>12 DEF WorkerStep

\* Only sendRequest leads from the loop to append.
LEMMA OnlySends ==
  ASSUME TypeOK, NEW w \in Workers, StartTrace(w) \/ WorkerStep(w), pc[w] = "loop", pc'[w] = "append"
  PROVE  SendRequest(w)
<1>1. CASE StartTrace(w)
  BY <1>1 DEF StartTrace, NewSession
<1>2. CASE SendFails(w)
  BY <1>2 DEF SendFails, TypeOK
<1>3. CASE AppendProbe(w)
  BY <1>3 DEF AppendProbe, TypeOK
<1>4. CASE SelectDelay(w)
  BY <1>4 DEF SelectDelay, TypeOK
<1>5. CASE SelectReply(w)
  BY <1>5 DEF SelectReply, TypeOK
<1>6. CASE NextRound(w)
  BY <1>6 DEF NextRound, TypeOK
<1>7. CASE CheckDone(w)
  BY <1>7 DEF CheckDone, TypeOK
<1>8. CASE DrainReply(w)
  BY <1>8 DEF DrainReply, TypeOK
<1>9. CASE Deadline(w)
  BY <1>9 DEF Deadline, TypeOK
<1>10. CASE Lock(w)
  BY <1>10 DEF Lock, TypeOK
<1>11. CASE Close(w)
  BY <1>11 DEF Close, TypeOK
<1>. QED BY <1>1, <1>2, <1>3, <1>4, <1>5, <1>6, <1>7, <1>8, <1>9, <1>10, <1>11 DEF WorkerStep

\* Once the destination has answered at some hop count, no probe is sent with a
\* larger TTL.
THEOREM NoProbePastDestCorrect == Spec => NoProbePastDest
<1> DEFINE Good == \A w \in Workers : \A p \in wire' \ wire :
                     pc[w] = "loop" /\ pc'[w] = "append" => \A x \in FromDest(w) : p.ttl <= x.hops
<1>1. TypeOK /\ MaxIsTight /\ [Next]_vars => Good
  <2> SUFFICES ASSUME TypeOK, MaxIsTight, [Next]_vars, NEW w \in Workers, NEW p \in wire' \ wire,
                      pc[w] = "loop", pc'[w] = "append", NEW x \in FromDest(w)
               PROVE  p.ttl <= x.hops
    OBVIOUS
  <2>1. pc' # pc
    OBVIOUS
  <2>2. PICK v \in Workers : StartTrace(v) \/ WorkerStep(v)
    <3>1. \A r \in Receivers, p1 \in Incoming : ~Receive(r, p1)
      BY <2>1 DEF Receive, workerVars
    <3>2. \A r \in Receivers : ~Deliver(r) /\ \A u \in Workers, cut \in 0..(seq + 1) : ~Handle(r, u, cut)
      BY <2>1 DEF Handle, Deliver, workerVars
    <3>3. ~UNCHANGED vars
      BY <2>1 DEF vars, workerVars
    <3>. QED BY <3>1, <3>2, <3>3 DEF Next, Serve
  <2>3. SendRequest(w)
    <3>1. \A u \in Workers \ {v} : pc'[u] = pc[u]
      BY <2>2, OwnStep
    <3>2. v = w
      BY <3>1
    <3>. QED BY <2>2, <3>2, OnlySends
  <2>4. p.ttl = ttl[w] /\ ttl[w] <= max[w]
    BY <2>3 DEF SendRequest, Draw, MaySend
  <2>5. max[w] <= x.hops
    BY DEF MaxIsTight, Session
  <2>6. ttl[w] \in Nat /\ max[w] \in Nat /\ x.hops \in Nat
    <3>1. handed[w] \in Seq(Reply)
      BY DEF TypeOK
    <3>2. x \in Reply
      BY <3>1, ElementsType DEF FromDest
    <3>3. x.hops \in Nat
      BY <3>2, HopsAssumption DEF Reply
    <3>4. ttl[w] \in Nat /\ max[w] \in Nat
      BY HopsAssumption DEF TypeOK
    <3>. QED BY <3>3, <3>4
  <2>. QED BY <2>4, <2>5, <2>6
<1>2. TypeOK /\ MaxIsTight /\ [Next]_vars => [Good]_vars
  BY <1>1
<1>. QED BY <1>2, TypeCorrect, MaxIsTightCorrect, PTL DEF Spec, NoProbePastDest
-----------------------------------------------------------------------------
(***************************************************************************)
(* The room in a session's channel.  No number is used twice for a probe   *)
(* of a session, and a session has sent MaxHops * Count probes at most.    *)
(***************************************************************************)

\* The numbers of a session's probes and replies, and how many probes there were.
Used(w) == {p.uid : p \in probes[w]} \cup {x.uid : x \in Credited(w)}
Sent(w) ==
  IF pc[w] = "idle" THEN 0
  ELSE IF pc[w] \in {"loop", "append"} THEN MaxHops * n[w] + ttl[w] - 1
  ELSE IF pc[w] = "select" THEN MaxHops * n[w] + ttl[w]
  ELSE MaxHops * Count

\* Where the loops of Trace stand.
Counters(w) ==
  /\ pc[w] = "idle" => n[w] = 0 /\ ttl[w] = 1
  /\ pc[w] \in {"loop", "append", "select"} => n[w] < Count /\ ttl[w] <= MaxHops + 1
  /\ pc[w] \in {"append", "select"} => ttl[w] <= MaxHops

RoomInv ==
  \A w \in Workers :
    Counters(w) /\ IsFiniteSet(Used(w)) /\ Cardinality(Used(w)) <= Sent(w)

\* MaxHops probes to a round.
LEMMA RoundsOfProbes ==
  ASSUME NEW k \in Nat, k < Count
  PROVE  /\ MaxHops * k \in Nat /\ MaxHops * Count \in Nat
         /\ MaxHops * (k + 1) = MaxHops * k + MaxHops
         /\ MaxHops * k + MaxHops <= MaxHops * Count
<1>1. MaxHops \in Nat /\ Count \in Nat /\ k + 1 \in Nat
  BY HopsAssumption, CountAssumption
<1>2. MaxHops * k \in Nat /\ MaxHops * Count \in Nat /\ MaxHops * (k + 1) = MaxHops * k + MaxHops
  BY <1>1
<1>3. PICK d \in Nat : Count = (k + 1) + d
  <2>1. Count - (k + 1) \in Nat /\ Count = (k + 1) + (Count - (k + 1))
    BY <1>1
  <2>. QED BY <2>1
<1>4. MaxHops * Count = MaxHops * (k + 1) + MaxHops * d /\ MaxHops * d \in Nat
  BY <1>1, <1>3
<1>. QED BY <1>1, <1>2, <1>4

LEMMA SentType == ASSUME TypeOK, NEW w \in Workers, Counters(w) PROVE Sent(w) \in Nat
<1> DEFINE full == MaxHops * Count
           sofar == MaxHops * n[w]
<1>1. ttl[w] \in Nat /\ ttl[w] >= 1 /\ MaxHops \in Nat /\ n[w] \in Nat /\ Count \in Nat
  BY HopsAssumption, CountAssumption DEF TypeOK
<1>2. full \in Nat /\ sofar \in Nat
  BY <1>1
<1>3. Sent(w) = IF pc[w] = "idle" THEN 0
                ELSE IF pc[w] \in {"loop", "append"} THEN sofar + ttl[w] - 1
                ELSE IF pc[w] = "select" THEN sofar + ttl[w] ELSE full
  BY DEF Sent
<1> HIDE DEF full, sofar
<1>. QED BY <1>1, <1>2, <1>3

LEMMA SentBound == ASSUME TypeOK, NEW w \in Workers, Counters(w) PROVE Sent(w) <= MaxHops * Count
<1>1. /\ MaxHops \in Nat /\ ttl[w] \in Nat /\ n[w] \in Nat /\ MaxHops * Count \in Nat
      /\ MaxHops * n[w] \in Nat
  BY HopsAssumption, CountAssumption DEF TypeOK
<1>2. n[w] < Count => MaxHops * n[w] + MaxHops <= MaxHops * Count
  BY <1>1, RoundsOfProbes
<1> DEFINE full == MaxHops * Count
           sofar == MaxHops * n[w]
<1>3. full \in Nat /\ sofar \in Nat /\ (n[w] < Count => sofar + MaxHops <= full)
  BY <1>1, <1>2
<1>4. Sent(w) = IF pc[w] = "idle" THEN 0
                ELSE IF pc[w] \in {"loop", "append"} THEN sofar + ttl[w] - 1
                ELSE IF pc[w] = "select" THEN sofar + ttl[w] ELSE full
  BY DEF Sent
<1> HIDE DEF full, sofar
<1>5. Sent(w) <= full
  BY <1>1, <1>3, <1>4 DEF Counters
<1>. QED BY <1>5 DEF full

LEMMA SentTypeNext == ASSUME TypeOK', NEW w \in Workers, Counters(w)' PROVE Sent(w)' \in Nat
<1>1. MaxHops \in Nat /\ ttl'[w] \in Nat /\ ttl'[w] >= 1 /\ n'[w] \in Nat /\ MaxHops * Count \in Nat
  BY HopsAssumption, CountAssumption DEF TypeOK
<1>2. MaxHops * n'[w] \in Nat
  BY <1>1
<1>. QED BY <1>1, <1>2 DEF Sent

\* A step of Trace sends one probe at most, and only Close forgets them.
LEMMA SentGrows ==
  ASSUME TypeOK, NEW w \in Workers, Counters(w), WorkerStep(w), ~Close(w)
  PROVE  Counters(w)' /\ Sent(w)' >= Sent(w) + (IF AppendProbe(w) THEN 1 ELSE 0)
<1>1. MaxHops \in Nat \ {0} /\ Count \in Nat \ {0} /\ ttl[w] \in Nat \ {0} /\ n[w] \in Nat
      /\ max[w] \in Nat /\ max[w] <= MaxHops
  BY HopsAssumption, CountAssumption DEF TypeOK
<1>2. MaxHops * n[w] \in Nat /\ MaxHops * Count \in Nat
  BY <1>1
<1>3. n[w] < Count => /\ MaxHops * (n[w] + 1) = MaxHops * n[w] + MaxHops
                      /\ MaxHops * n[w] + MaxHops <= MaxHops * Count
  BY <1>1, RoundsOfProbes
<1> DEFINE full == MaxHops * Count
           sofar == MaxHops * n[w]
           next == MaxHops * (n[w] + 1)
<1>4. CASE SendRequest(w)
  <2>1. /\ pc[w] = "loop" /\ pc'[w] = "append" /\ n[w] < Count /\ ttl[w] <= MaxHops
        /\ n'[w] = n[w] /\ ttl'[w] = ttl[w]
    BY <1>1, <1>4 DEF SendRequest, MaySend, TypeOK
  <2>2. ~AppendProbe(w)
    BY <2>1 DEF AppendProbe
  <2>. QED BY <1>1, <1>2, <2>1, <2>2 DEF Counters, Sent
<1>5. CASE SendFails(w)
  <2>1. pc[w] = "loop" /\ pc'[w] = "close" /\ n[w] < Count /\ ttl[w] <= MaxHops
    BY <1>1, <1>5 DEF SendFails, MaySend, TypeOK
  <2>2. ~AppendProbe(w)
    BY <2>1 DEF AppendProbe
  <2>3. Sent(w) = sofar + ttl[w] - 1 /\ Sent(w)' = full
    BY <2>1 DEF Sent
  <2>4. Counters(w)'
    BY <2>1 DEF Counters
  <2>. QED BY <1>1, <1>2, <1>3, <2>1, <2>2, <2>3, <2>4
<1>6. CASE AppendProbe(w)
  <2>1. pc[w] = "append" /\ pc'[w] = "select" /\ n'[w] = n[w] /\ ttl'[w] = ttl[w]
    BY <1>6 DEF AppendProbe, TypeOK
  <2>. QED BY <1>1, <1>2, <1>6, <2>1 DEF Counters, Sent
<1>7. CASE SelectDelay(w) \/ SelectReply(w)
  <2>1. pc[w] = "select" /\ pc'[w] = "loop" /\ n'[w] = n[w] /\ ttl'[w] = ttl[w] + 1
    BY <1>7 DEF SelectDelay, SelectReply, TypeOK
  <2>2. ~AppendProbe(w)
    BY <2>1 DEF AppendProbe
  <2>. QED BY <1>1, <1>2, <2>1, <2>2 DEF Counters, Sent
<1>8. CASE NextRound(w)
  <2>1. /\ pc[w] = "loop" /\ n[w] < Count /\ n'[w] = n[w] + 1 /\ ttl'[w] = 1
        /\ pc'[w] = IF n[w] + 1 < Count THEN "loop" ELSE "check"
    BY <1>8 DEF NextRound, TypeOK
  <2>2. ~AppendProbe(w) /\ ttl[w] <= MaxHops + 1
    BY <2>1 DEF AppendProbe, Counters
  <2>3. Sent(w) = sofar + ttl[w] - 1 /\ Sent(w)' = IF n[w] + 1 < Count THEN next + 1 - 1 ELSE full
    BY <2>1 DEF Sent
  <2>4. Counters(w)'
    BY <1>1, <2>1 DEF Counters
  <2>. QED BY <1>1, <1>2, <1>3, <2>1, <2>2, <2>3, <2>4
<1>9. CASE CheckDone(w) \/ DrainReply(w) \/ Deadline(w) \/ Lock(w)
  <2>1. pc[w] \in {"check", "drain", "close"} /\ pc'[w] \in {"check", "drain", "close", "lock"}
    BY <1>9 DEF CheckDone, DrainReply, Deadline, Lock, TypeOK
  <2>2. ~AppendProbe(w)
    BY <2>1 DEF AppendProbe
  <2>. QED BY <1>2, <2>1, <2>2 DEF Counters, Sent
<1>. QED BY <1>4, <1>5, <1>6, <1>7, <1>8, <1>9 DEF WorkerStep

LEMMA FewerThan ==
  ASSUME NEW S, NEW T, IsFiniteSet(S), T \subseteq S, NEW m \in Int, Cardinality(S) <= m
  PROVE  IsFiniteSet(T) /\ Cardinality(T) <= m
<1>1. T \in SUBSET S
  OBVIOUS
<1>2. IsFiniteSet(T) /\ Cardinality(T) <= Cardinality(S)
  BY <1>1, FS_Subset
<1>. QED BY <1>2, FS_CardinalityType

LEMMA OneMoreThan ==
  ASSUME NEW S, NEW T, NEW x, IsFiniteSet(S), T \subseteq S \cup {x}, NEW m \in Int, Cardinality(S) <= m
  PROVE  IsFiniteSet(T) /\ Cardinality(T) <= m + 1
<1>1. Cardinality(S) \in Nat
  BY FS_CardinalityType
<1>2. /\ IsFiniteSet(S \cup {x})
      /\ Cardinality(S \cup {x}) = IF x \in S THEN Cardinality(S) ELSE Cardinality(S) + 1
  BY FS_AddElement
<1>3. IsFiniteSet(S \cup {x}) /\ Cardinality(S \cup {x}) <= m + 1 /\ m + 1 \in Int
  BY <1>1, <1>2
<1>. QED BY <1>3, FewerThan

LEMMA OwnCounters ==
  ASSUME TypeOK, NEW v \in Workers, WorkerStep(v), NEW w \in Workers, w # v
  PROVE  pc'[w] = pc[w] /\ n'[w] = n[w] /\ ttl'[w] = ttl[w]
<1>1. pc'[w] = pc[w]
  BY OwnStep
<1>2. CASE SelectDelay(v) \/ SelectReply(v)
  BY <1>1, <1>2 DEF SelectDelay, SelectReply, TypeOK
<1>3. CASE NextRound(v) \/ Close(v)
  BY <1>1, <1>3 DEF NextRound, Close, TypeOK
<1>4. CASE ~SelectDelay(v) /\ ~SelectReply(v) /\ ~NextRound(v) /\ ~Close(v)
  <2>1. UNCHANGED <<n, ttl>>
    BY <1>4 DEF WorkerStep, SendRequest, SendFails, AppendProbe, CheckDone, DrainReply, Deadline, Lock
  <2>. QED BY <1>1, <2>1
<1>. QED BY <1>2, <1>3, <1>4

\* A step of Trace uses the number of the probe that Ping appends, and no other.
LEMMA WorkerUses ==
  ASSUME TypeOK, TypeOK', NEW v \in Workers, StartTrace(v) \/ (WorkerStep(v) /\ ~Close(v)),
         NEW w \in Workers
  PROVE  Used(w)' \subseteq Used(w) \cup {p.uid : p \in {q \in {req[v]} : AppendProbe(v) /\ w = v}}
<1>1. UNCHANGED <<phase, out, to>>
  BY DEF StartTrace, NewSession, WorkerStep, SendRequest, SendFails, AppendProbe, SelectDelay,
         SelectReply, NextRound, CheckDone, DrainReply, Deadline, Lock, recvVars
<1>2. All(w)' = All(w)
  <2>1. CASE SelectReply(v) \/ DrainReply(v)
    BY <2>1, TakeReplyKeeps DEF SelectReply, DrainReply
  <2>2. CASE ~SelectReply(v) /\ ~DrainReply(v)
    BY <2>2 DEF StartTrace, NewSession, WorkerStep, SendRequest, SendFails, AppendProbe, SelectDelay,
                NextRound, CheckDone, Deadline, Lock, All
  <2>. QED BY <2>1, <2>2
<1>3. Credited(w)' = Credited(w)
  BY <1>1, <1>2, SameCredits
<1>4. CASE AppendProbe(v)
  <2>1. probes'[w] \subseteq probes[w] \cup {q \in {req[v]} : w = v}
    BY <1>4 DEF AppendProbe, TypeOK
  <2>. QED BY <1>3, <1>4, <2>1 DEF Used
<1>5. CASE ~AppendProbe(v)
  <2>1. probes' = probes
    BY <1>5 DEF StartTrace, NewSession, WorkerStep, SendRequest, SendFails, SelectDelay,
                SelectReply, NextRound, CheckDone, DrainReply, Deadline, Lock
  <2>. QED BY <1>3, <2>1 DEF Used
<1>. QED BY <1>4, <1>5

\* A receiver turns probes into replies, or forgets them.
LEMMA ReceiverUses ==
  ASSUME TypeOK, NEW r \in Receivers, (\E p \in Incoming : Receive(r, p)) \/ Serve(r),
         NEW w \in Workers
  PROVE  Used(w)' \subseteq Used(w)
<1>1. ASSUME NEW p \in Incoming, Receive(r, p) PROVE Used(w)' \subseteq Used(w)
  <2>1. UNCHANGED <<probes, ch, handed, out, to>> /\ \A q \in Receivers : phase'[q] = "deliver" => phase[q] = "deliver"
    BY <1>1 DEF Receive, workerVars, TypeOK
  <2>. QED BY <2>1 DEF Used, Credited, Elements
<1>2. ASSUME NEW v \in Workers, NEW cut \in 0..(seq + 1), Handle(r, v, cut)
      PROVE  Used(w)' \subseteq Used(w)
  <2>1. UNCHANGED <<ch, handed>> /\ probes'[w] \subseteq probes[w]
    BY <1>2 DEF Handle, Remaining, workerVars, TypeOK
  <2>2. /\ \A q \in Receivers \ {r} : phase'[q] = phase[q] /\ out'[q] = out[q] /\ to'[q] = to[q]
        /\ phase'[r] = "deliver" => \E p \in probes[v] : to'[r] = v /\ out'[r].uid = p.uid
    BY <1>2, HandleEnds
  <2>3. ASSUME NEW q \in Receivers, phase'[q] = "deliver", to'[q] = w PROVE out'[q].uid \in Used(w)
    <3>1. CASE q = r
      BY <2>2, <2>3, <3>1 DEF Used
    <3>2. CASE q # r
      <4>1. out'[q] \in Credited(w)
        BY <2>2, <2>3, <3>2 DEF Credited
      <4>. QED BY <4>1 DEF Used
    <3>. QED BY <3>1, <3>2
  <2>4. ASSUME NEW x \in Credited(w)' PROVE x.uid \in Used(w)
    <3>1. \/ x \in Elements(ch[w]) \cup Elements(handed[w])
          \/ \E q \in Receivers : phase'[q] = "deliver" /\ to'[q] = w /\ x = out'[q]
      BY <2>1 DEF Credited, Elements
    <3>2. CASE x \in Elements(ch[w]) \cup Elements(handed[w])
      BY <3>2 DEF Used, Credited
    <3>. QED BY <2>3, <3>1, <3>2
  <2>. QED BY <2>1, <2>4 DEF Used
<1>3. CASE Deliver(r)
  <2>1. /\ UNCHANGED <<handed, probes>> /\ phase[r] = "deliver" /\ phase'[r] # "deliver"
        /\ \A q \in Receivers \ {r} : phase'[q] = phase[q] /\ out'[q] = out[q] /\ to'[q] = to[q]
    BY <1>3 DEF Deliver, NextSession, workerVars, TypeOK
  <2>2. ch'[w] = ch[w] \/ (to[r] = w /\ ch'[w] = Append(ch[w], out[r]))
    BY <1>3 DEF Deliver, TypeOK
  <2>3. Elements(ch'[w]) \subseteq Credited(w)
    <3>1. CASE ch'[w] = ch[w]
      BY <3>1 DEF Credited
    <3>2. CASE to[r] = w /\ ch'[w] = Append(ch[w], out[r])
      <4>1. ch[w] \in Seq(Reply) /\ out[r] \in Reply
        BY DEF TypeOK
      <4>2. Elements(ch'[w]) = Elements(ch[w]) \cup {out[r]}
        BY <3>2, <4>1, ElementsOfAppend
      <4>. QED BY <2>1, <3>2, <4>2 DEF Credited
    <3>. QED BY <2>2, <3>1, <3>2
  <2>4. {out'[q] : q \in {t \in Receivers : phase'[t] = "deliver" /\ to'[t] = w}} \subseteq Credited(w)
    BY <2>1 DEF Credited
  <2>5. Elements(handed'[w]) \subseteq Credited(w)
    BY <2>1 DEF Credited
  <2>6. Credited(w)' \subseteq Credited(w)
    BY <2>3, <2>4, <2>5 DEF Credited, Elements
  <2>. QED BY <2>1, <2>6 DEF Used
<1>. QED BY <1>1, <1>2, <1>3 DEF Serve

LEMMA RoomStep == TypeOK /\ TypeOK' /\ RoomInv /\ [Next]_vars => RoomInv'
<1> SUFFICES ASSUME TypeOK, TypeOK', RoomInv, [Next]_vars, NEW w \in Workers
             PROVE  Counters(w)' /\ IsFiniteSet(Used(w)') /\ Cardinality(Used(w)') <= Sent(w)'
  BY DEF RoomInv
<1>0. Counters(w) /\ IsFiniteSet(Used(w)) /\ Cardinality(Used(w)) <= Sent(w) /\ Sent(w) \in Nat
  BY SentType DEF RoomInv
<1>1. ASSUME Used(w)' \subseteq Used(w), pc'[w] = pc[w], n'[w] = n[w], ttl'[w] = ttl[w]
      PROVE  Counters(w)' /\ IsFiniteSet(Used(w)') /\ Cardinality(Used(w)') <= Sent(w)'
  <2>1. Counters(w)' /\ Sent(w)' = Sent(w)
    BY <1>0, <1>1 DEF Counters, Sent
  <2>2. IsFiniteSet(Used(w)') /\ Cardinality(Used(w)') <= Sent(w)
    BY <1>0, <1>1, FewerThan
  <2>. QED BY <2>1, <2>2
<1>2. ASSUME NEW v \in Workers, StartTrace(v)
      PROVE  Counters(w)' /\ IsFiniteSet(Used(w)') /\ Cardinality(Used(w)') <= Sent(w)'
  <2>1. PICK d \in Dests, m \in WantedHops : NewSession(v, d, m)
    BY <1>2 DEF StartTrace
  <2>2. pc[v] = "idle" /\ pc' = [pc EXCEPT ![v] = "loop"] /\ n' = n /\ ttl' = ttl
    BY <2>1 DEF NewSession
  <2>3. ~AppendProbe(v)
    BY <2>2 DEF AppendProbe
  <2>4. Used(w)' \subseteq Used(w)
    BY <1>2, <2>3, WorkerUses
  <2>5. CASE v = w
    <3>1. pc'[w] = "loop" /\ n'[w] = 0 /\ ttl'[w] = 1 /\ MaxHops \in Nat /\ Count \in Nat \ {0}
      BY <1>0, <2>2, <2>5, HopsAssumption, CountAssumption DEF Counters, TypeOK
    <3>2. MaxHops * 0 = 0
      BY <3>1
    <3>3. Counters(w)' /\ Sent(w)' = 0 /\ Sent(w) = 0
      BY <2>2, <2>5, <3>1, <3>2 DEF Counters, Sent
    <3>4. IsFiniteSet(Used(w)') /\ Cardinality(Used(w)') <= 0
      BY <1>0, <2>4, <3>3, FewerThan
    <3>. QED BY <3>3, <3>4
  <2>6. CASE v # w
    <3>1. pc'[w] = pc[w] /\ n'[w] = n[w] /\ ttl'[w] = ttl[w]
      BY <2>2, <2>6 DEF TypeOK
    <3>. QED BY <1>1, <2>4, <3>1
  <2>. QED BY <2>5, <2>6
<1>3. ASSUME NEW v \in Workers, WorkerStep(v), ~Close(v)
      PROVE  Counters(w)' /\ IsFiniteSet(Used(w)') /\ Cardinality(Used(w)') <= Sent(w)'
  <2>1. Used(w)' \subseteq Used(w) \cup {p.uid : p \in {q \in {req[v]} : AppendProbe(v) /\ w = v}}
    BY <1>3, WorkerUses
  <2>2. CASE v # w
    <3>1. pc'[w] = pc[w] /\ n'[w] = n[w] /\ ttl'[w] = ttl[w]
      BY <1>3, <2>2, OwnCounters
    <3>2. Used(w)' \subseteq Used(w)
      BY <2>1, <2>2
    <3>. QED BY <1>1, <3>1, <3>2
  <2>3. CASE v = w
    <3>1. Counters(w)' /\ Sent(w)' >= Sent(w) + (IF AppendProbe(w) THEN 1 ELSE 0)
      BY <1>0, <1>3, <2>3, SentGrows
    <3>2. Sent(w)' \in Nat
      BY <3>1, SentTypeNext
    <3>3. CASE AppendProbe(w)
      <4>1. Used(w)' \subseteq Used(w) \cup {req[w].uid}
        BY <2>1, <2>3, <3>3
      <4> DEFINE u == req[w].uid
                 S == Used(w)
                 m == Sent(w)
      <4> HIDE DEF u, S, m
      <4>2. m \in Int /\ IsFiniteSet(S) /\ Cardinality(S) <= m /\ Used(w)' \subseteq S \cup {u}
        BY <1>0, <4>1 DEF u, S, m
      <4>3. IsFiniteSet(Used(w)') /\ Cardinality(Used(w)') <= m + 1
        BY <4>2, OneMoreThan
      <4>4. IsFiniteSet(Used(w)') /\ Cardinality(Used(w)') <= Sent(w) + 1
        BY <4>3 DEF m
      <4>. QED BY <1>0, <3>1, <3>2, <3>3, <4>4, FS_CardinalityType
    <3>4. CASE ~AppendProbe(w)
      <4>1. Used(w)' \subseteq Used(w)
        BY <2>1, <2>3, <3>4
      <4>2. IsFiniteSet(Used(w)') /\ Cardinality(Used(w)') <= Sent(w)
        BY <1>0, <4>1, FewerThan
      <4>. QED BY <1>0, <3>1, <3>2, <3>4, <4>2, FS_CardinalityType
    <3>. QED BY <3>3, <3>4
  <2>. QED BY <2>2, <2>3
<1>4. ASSUME NEW v \in Workers, Close(v)
      PROVE  Counters(w)' /\ IsFiniteSet(Used(w)') /\ Cardinality(Used(w)') <= Sent(w)'
  <2>1. /\ \A r \in Receivers : phase'[r] = "read"
        /\ UNCHANGED <<phase, out, to>>
    BY <1>4 DEF Close, NoReaders, recvVars
  <2>2. CASE v = w
    <3>1. pc'[w] = "idle" /\ n'[w] = 0 /\ ttl'[w] = 1 /\ probes'[w] = {} /\ ch'[w] = <<>> /\ handed'[w] = <<>>
      BY <1>4, <2>2 DEF Close, TypeOK
    <3>2. Elements(<<>>) = {}
      BY EmptySeq DEF Elements
    <3>3. Elements(ch'[w]) = {} /\ Elements(handed'[w]) = {}
      BY <3>1, <3>2
    <3>4. Used(w)' = {}
      BY <2>1, <3>1, <3>3 DEF Used, Credited, Elements
    <3>5. Counters(w)' /\ Sent(w)' = 0
      BY <3>1 DEF Counters, Sent
    <3>. QED BY <3>4, <3>5, FS_EmptySet
  <2>3. CASE v # w
    <3>1. /\ pc'[w] = pc[w] /\ n'[w] = n[w] /\ ttl'[w] = ttl[w]
          /\ probes'[w] = probes[w] /\ ch'[w] = ch[w] /\ handed'[w] = handed[w]
      BY <1>4, <2>3 DEF Close, TypeOK
    <3>2. Used(w)' \subseteq Used(w)
      BY <2>1, <3>1 DEF Used, Credited, Elements
    <3>. QED BY <1>1, <3>1, <3>2
  <2>. QED BY <2>2, <2>3
<1>5. ASSUME NEW r \in Receivers, (\E p \in Incoming : Receive(r, p)) \/ Serve(r)
      PROVE  Counters(w)' /\ IsFiniteSet(Used(w)') /\ Cardinality(Used(w)') <= Sent(w)'
  <2>1. UNCHANGED <<pc, n, ttl>>
    BY <1>5 DEF Receive, Serve, Handle, Deliver, workerVars
  <2>2. Used(w)' \subseteq Used(w)
    BY <1>5, ReceiverUses
  <2>. QED BY <1>1, <2>1, <2>2
<1>6. CASE UNCHANGED vars
  <2>1. UNCHANGED <<pc, n, ttl>> /\ Used(w)' = Used(w)
    BY <1>6 DEF vars, workerVars, recvVars, Used, Credited, Elements
  <2>. QED BY <1>1, <2>1
<1>. QED BY <1>2, <1>3, <1>4, <1>5, <1>6 DEF Next

LEMMA RoomInvariance == Spec => []RoomInv
<1>1. Init => RoomInv
  <2> SUFFICES ASSUME Init, NEW w \in Workers
               PROVE  Counters(w) /\ IsFiniteSet(Used(w)) /\ Cardinality(Used(w)) <= Sent(w)
    BY DEF RoomInv
  <2>1. Elements(<<>>) = {}
    BY EmptySeq DEF Elements
  <2>2. Used(w) = {}
    BY <2>1 DEF Init, Used, Credited
  <2>3. Counters(w) /\ Sent(w) = 0
    BY DEF Init, Counters, Sent
  <2>. QED BY <2>2, <2>3, FS_EmptySet
<1>. QED BY <1>1, RoomStep, TypeCorrect, PTL DEF Spec

\* Session.ch has 64 elements and Trace sends 64 probes: whatever is repeated,
\* late or out of order, and however many receivers serve the session, handle's
\* send, which drops a reply rather than wait, finds room, as it does whenever
\* the channel is as large as the number of probes.
THEOREM ChannelHasRoomCorrect == Spec => []ChannelHasRoom
<1>1. TypeOK /\ LockInv /\ AnsweredOnce /\ RoomInv => ChannelHasRoom
  <2> SUFFICES ASSUME TypeOK, LockInv, AnsweredOnce, RoomInv, MaxHops * Count <= ChanCap,
                      NEW r \in Receivers, phase[r] = "deliver"
               PROVE  Len(ch[to[r]]) < ChanCap
    BY DEF ChannelHasRoom
  <2>1. PICK w \in Workers : w = to[r]
    BY DEF TypeOK
  <2> DEFINE s == ch[w]
             k == Len(s)
             u == out[r].uid
             U == Used(w) \ {u}
             number == [i \in 1..k |-> s[i].uid]
  <2>2. s \in Seq(Reply) /\ k \in Nat /\ out[r] \in Reply /\ r \in Busy(w)
    BY <2>1, LenProperties DEF TypeOK, Busy
  <2>3. /\ Once(w) /\ handed[w] \in Seq(Reply) /\ Len(handed[w]) \in Nat
        /\ Len(All(w)) = Len(handed[w]) + k
        /\ \A i \in 1..k : Len(handed[w]) + i \in 1..Len(All(w)) /\ All(w)[Len(handed[w]) + i] = s[i]
    <3>1. Once(w)
      BY OnceIsAnsweredOnce
    <3>2. handed[w] \in Seq(Reply)
      BY DEF TypeOK
    <3>3. /\ Len(handed[w]) \in Nat /\ Len(All(w)) = Len(handed[w]) + k
          /\ \A i \in 1..(Len(handed[w]) + k) :
               All(w)[i] = IF i <= Len(handed[w]) THEN handed[w][i] ELSE s[i - Len(handed[w])]
      BY <2>2, <3>2, ConcatProperties, LenProperties DEF All
    <3> HIDE DEF k, s
    <3>4. ASSUME NEW i \in 1..k
          PROVE  Len(handed[w]) + i \in 1..Len(All(w)) /\ All(w)[Len(handed[w]) + i] = s[i]
      <4> DEFINE j == Len(handed[w]) + i
      <4>1. j \in 1..(Len(handed[w]) + k) /\ ~(j <= Len(handed[w])) /\ j - Len(handed[w]) = i
        BY <2>2, <3>3
      <4>2. All(w)[j] = s[j - Len(handed[w])]
        BY <3>3, <4>1
      <4>. QED BY <3>3, <4>1, <4>2
    <3>. QED BY <3>1, <3>2, <3>3, <3>4
  <2>4. ASSUME NEW i \in 1..k PROVE s[i].uid # u /\ s[i].uid \in U
    <3> DEFINE a == Len(handed[w]) + i
    <3>1. a \in 1..Len(All(w)) /\ All(w)[a] = s[i]
      BY <2>3, <2>4
    <3> HIDE DEF a, s, k
    <3>2. All(w)[a].uid # out[r].uid
      BY <2>2, <2>3, <3>1 DEF Once
    <3>3. s[i] \in Credited(w)
      <4>1. s[i] \in Elements(s)
        BY <2>2, <2>4, Elem DEF k
      <4>. QED BY <4>1 DEF Credited, s
    <3>. QED BY <3>1, <3>2, <3>3 DEF Used
  <2>5. ASSUME NEW i \in 1..k, NEW j \in 1..k, s[i].uid = s[j].uid PROVE i = j
    <3> DEFINE a == Len(handed[w]) + i
               b == Len(handed[w]) + j
    <3>1. a \in 1..Len(All(w)) /\ All(w)[a] = s[i] /\ b \in 1..Len(All(w)) /\ All(w)[b] = s[j]
      BY <2>3
    <3> HIDE DEF a, b, s
    <3>2. a = b
      BY <2>3, <2>5, <3>1 DEF Once
    <3>. QED BY <2>2, <2>3, <3>2 DEF a, b
  <2>6. number \in [1..k -> U]
    BY <2>4
  <2>7. u \in Used(w)
    BY <2>2 DEF Used, Credited, Busy
  <2>8. IsFiniteSet(Used(w)) /\ Cardinality(Used(w)) <= Sent(w) /\ Counters(w) /\ Session(w)
    BY <2>1 DEF RoomInv, LockInv, ServedSessionsOpen
  <2>9. Sent(w) <= MaxHops * Count
    BY <2>8, SentBound
  <2>10. IsFiniteSet(U) /\ Cardinality(U) = Cardinality(Used(w)) - 1
    BY <2>7, <2>8, FS_RemoveElement
  <2>11. IsFiniteSet(1..k) /\ Cardinality(1..k) = k
    BY <2>2, FS_Interval
  <2>12. k <= Cardinality(U)
    <3> HIDE DEF U, k, s
    <3>1. \A i, j \in 1..k : i # j => number[i] # number[j]
      BY <2>5
    <3> DEFINE D == 1..k
    <3> HIDE DEF number, D
    <3>2. ~(Cardinality(U) < Cardinality(D))
      <4>1. IsFiniteSet(D) /\ IsFiniteSet(U) /\ number \in [D -> U]
        BY <2>6, <2>10, <2>11 DEF D
      <4>2. ~\E i, j \in D : i # j /\ number[i] = number[j]
        BY <3>1 DEF D
      <4>. QED BY <4>1, <4>2, FS_PigeonHole
    <3>3. Cardinality(U) \in Nat
      BY <2>10, FS_CardinalityType
    <3>. QED BY <2>2, <2>11, <3>2, <3>3 DEF D
  <2>13. Cardinality(Used(w)) \in Nat /\ Sent(w) \in Nat /\ MaxHops * Count \in Nat /\ ChanCap \in Nat
    BY <2>8, FS_CardinalityType, SentType, HopsAssumption, CountAssumption, CapAssumption
  <2>. QED BY <2>1, <2>2, <2>8, <2>9, <2>10, <2>12, <2>13
<1>. QED BY <1>1, LockInvariance, TypeCorrect, AnsweredOnceCorrect, RoomInvariance, PTL
=============================================================================
