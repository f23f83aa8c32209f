------------------------------- MODULE Tracer -------------------------------
(***************************************************************************)
(* The traceroute engine of traceroute/tracer.go: one shared Tracer with a *)
(* table of sessions, the goroutines that run Tracer.Trace (measure's      *)
(* traceIP workers, or the callers of the package's tests), and the        *)
(* goroutines of protocol.RecvAllIcmpPacket that hand every ICMP packet to *)
(* ServeData.  The network is a set of requests that may be answered       *)
(* never, late, out of order or more than once.                            *)
(*                                                                         *)
(* Time is abstract.  A probe older than Timeout is one whose number is    *)
(* below a cut that each call of Session.handle chooses; the deadline of   *)
(* Trace may fire at any moment after it was armed.                        *)
(***************************************************************************)
EXTENDS Integers, Sequences, FiniteSets

CONSTANTS
  Workers,     \* goroutines that call Trace, at most one session each
  Receivers,   \* goroutines of RecvAllIcmpPacket
  Dests,       \* destination addresses
  Router,      \* stands for every address that is not a destination
  Dist,        \* Dist[d]: the number of hops to d
  MaxHops,     \* Tracer.MaxHops (64)
  Count,       \* Tracer.Count (1)
  ChanCap,     \* capacity of Session.ch (64)
  IdMod,       \* number of IP identifiers (2^16)
  QuotedTTLs,  \* TTLs found in the header quoted by a Time Exceeded
  ForeignIds,  \* identifiers in packets that answer none of the tracer's requests
  WantedHops,  \* values traceIP passes in Config.MaxHops
  MaxTraces    \* bound of the model: number of traces ever started

ASSUME DistAssumption    == Dist \in [Dests -> Nat \ {0}]
ASSUME NonEmpty          == Workers # {} /\ Dests # {}
ASSUME RouterAssumption  == Router \notin Dests
ASSUME HopsAssumption    == MaxHops \in Nat \ {0}
ASSUME CountAssumption   == Count \in Nat \ {0}
ASSUME CapAssumption     == ChanCap \in Nat \ {0}
ASSUME IdAssumption      == IdMod \in Nat \ {0}
ASSUME QuotedAssumption  == QuotedTTLs \subseteq Nat
ASSUME ForeignAssumption == ForeignIds \subseteq 0..(IdMod - 1)
ASSUME WantedAssumption  == WantedHops \subseteq Nat
ASSUME TracesAssumption  == MaxTraces \in Nat

VARIABLES
  seq,     \* Tracer.seq: number of identifiers drawn so far
  wire,    \* requests that the network may still answer
  sess,    \* Tracer.sess: the sessions registered for an address
  pc,      \* where each worker stands in Trace
  dst,     \* Session.ip
  want,    \* the MaxHops its caller asked for
  ttl, n,  \* the loop variables of Trace
  max,     \* Trace's bound on ttl, lowered by answers of the destination
  req,     \* the request that Ping sent and has not yet appended
  probes,  \* Session.probes
  ch,      \* Session.ch
  handed,  \* the replies passed to h
  how,     \* how the last Trace of the worker ended
  phase,   \* where each receiver stands in serveReply
  pkt,     \* the packet it serves
  todo,    \* the sessions it has still to serve
  out,     \* the reply that handle is about to send,
  to,      \* ... and the session it goes to
  traces   \* number of traces started

netVars    == <<seq, wire>>
workerVars == <<pc, dst, want, ttl, n, max, req, handed, how, traces>>
recvVars   == <<phase, pkt, todo, out, to>>
vars       == <<netVars, sess, workerVars, probes, ch, recvVars>>

(***************************************************************************)
(* Data.  A request carries the number `uid' under which it was drawn; the *)
(* program only knows its low 16 bits, `id'.  A packet that arrives names  *)
(* the request it answers in `uid' (0: none of ours), which the program    *)
(* does not see.  A reply names the probe it was credited to in `uid' and  *)
(* the request that the packet really answered in `src'.                   *)
(***************************************************************************)
Addr    == Dests \cup {Router}
Ids     == 0..(IdMod - 1)
Request == [dst : Dests, ttl : 1..MaxHops, id : Ids, uid : Nat]
Packet  == [from : Addr, dst : Dests, id : Ids, ttl : Nat, uid : Nat]
Reply   == [ip : Addr, hops : 1..(MaxHops + 1), uid : Nat, src : Nat]

IdOf(u) == u % IdMod

\* Values of variables that are out of scope.
SomeDest   == CHOOSE d \in Dests : TRUE
SomeWorker == CHOOSE w \in Workers : TRUE
NoRequest  == [dst |-> SomeDest, ttl |-> 1, id |-> 0, uid |-> 0]
NoPacket   == [from |-> SomeDest, dst |-> SomeDest, id |-> 0, ttl |-> 1, uid |-> 0]
NoReply    == [ip |-> Router, hops |-> 1, uid |-> 0, src |-> 0]

(***************************************************************************)
(* The packets that ServeData can make of the answers to request p: an     *)
(* Echo Reply is taken to have TTL 1; an error message carries the header  *)
(* of the request as the reporting host saw it.  Any router on the way may *)
(* report that the destination cannot be reached.                          *)
(***************************************************************************)
Quoted(from, d, i, u) ==
  {[from |-> from, dst |-> d, id |-> i, ttl |-> q, uid |-> u] : q \in QuotedTTLs}

Answers(p) ==
  Quoted(Router, p.dst, p.id, p.uid) \cup
    IF p.ttl < Dist[p.dst] THEN {}
    ELSE {[from |-> p.dst, dst |-> p.dst, id |-> p.id, ttl |-> q, uid |-> p.uid] :
            q \in {1, p.ttl - Dist[p.dst] + 1}}

(***************************************************************************)
(* The raw socket receives more than that: Echo Replies of a destination   *)
(* to other programs (the agent's own pings, whose identifier is its pid), *)
(* and errors that quote any other packet to a destination, whatever its   *)
(* protocol, with the identifier its kernel chose.  Among these are the    *)
(* errors for the request with identifier 0, if the kernel replaces it.    *)
(***************************************************************************)
Foreign ==
  UNION {{[from |-> d, dst |-> d, id |-> i, ttl |-> 1, uid |-> 0]}
           \cup UNION {Quoted(a, d, i, 0) : a \in Addr} : d \in Dests, i \in ForeignIds}

Incoming == (UNION {Answers(p) : p \in wire}) \cup Foreign

HopsOf_Unclamped(p, res) == p.ttl - res.ttl + 1
HopsOf(p, res) == IF p.ttl - res.ttl + 1 < 1 THEN 1 ELSE p.ttl - res.ttl + 1

\* What removes a probe, and what is left of the probes then.
Matches_Any(p, res) == TRUE
Matches(p, res)     == p.id = res.id
Remaining_All(live, match) == live
Remaining(live, match)     == live \ match

\* The entry of an address in Tracer.sess after addSession and removeSession.
Added(s, w)     == s \cup {w}
Removed_Not(s, w) == s
Removed(s, w)     == {}

\* Trace's max after reply r from a trace to address d.
Lowered_Always(m, r, d) == IF r.ip = d THEN r.hops ELSE m
Lowered(m, r, d)        == IF m > r.hops /\ r.ip = d THEN r.hops ELSE m

\* The condition of the sending loops.
MaySend_PastMax(w) == n[w] < Count /\ ttl[w] <= MaxHops
MaySend(w)         == n[w] < Count /\ ttl[w] <= max[w]

Session(w) == pc[w] # "idle"
IsDone(w)  == \A p \in probes[w] : p.ttl > max[w]

\* The write lock of t.mu is free.
NoReaders_Unlocked == TRUE
NoReaders          == \A r \in Receivers : phase[r] = "read"
-----------------------------------------------------------------------------
Init ==
  /\ seq = 0
  /\ wire = {}
  /\ sess = [d \in Dests |-> {}]
  /\ pc = [w \in Workers |-> "idle"]
  /\ dst = [w \in Workers |-> SomeDest]
  /\ want = [w \in Workers |-> MaxHops]
  /\ ttl = [w \in Workers |-> 1]
  /\ n = [w \in Workers |-> 0]
  /\ max = [w \in Workers |-> MaxHops]
  /\ req = [w \in Workers |-> NoRequest]
  /\ probes = [w \in Workers |-> {}]
  /\ ch = [w \in Workers |-> <<>>]
  /\ handed = [w \in Workers |-> <<>>]
  /\ how = [w \in Workers |-> "none"]
  /\ phase = [r \in Receivers |-> "read"]
  /\ pkt = [r \in Receivers |-> NoPacket]
  /\ todo = [r \in Receivers |-> {}]
  /\ out = [r \in Receivers |-> NoReply]
  /\ to = [r \in Receivers |-> SomeWorker]
  /\ traces = 0
-----------------------------------------------------------------------------
(* The workers *)

\* Trace(ip, cfg) up to the loop, whose variables have their initial values:
\* NewSession takes the write lock of t.mu.
NewSession(w, d, m) ==
  /\ pc[w] = "idle"
  /\ traces < MaxTraces
  /\ NoReaders
  /\ traces' = traces + 1
  /\ sess' = [sess EXCEPT ![d] = Added(@, w)]
  /\ pc' = [pc EXCEPT ![w] = "loop"]
  /\ dst' = [dst EXCEPT ![w] = d]
  /\ want' = [want EXCEPT ![w] = m]
  /\ UNCHANGED <<netVars, ttl, n, max, req, handed, how, probes, ch, recvVars>>

\* atomic.AddUint32(&t.seq, 1).  Drawing 65536 identifiers takes longer than a
\* packet stays in the network and longer than a receiver needs to serve it.
Draw(sent) ==
  /\ \A r \in Receivers :
       phase[r] # "read" /\ pkt[r].uid > 0 => pkt[r].uid + IdMod > seq + 1
  /\ seq' = seq + 1
  /\ wire' = {q \in wire : q.uid + IdMod > seq + 1} \cup sent

\* sendRequest: the identifier is drawn and the packet written.
SendRequest(w) ==
  LET p == [dst |-> dst[w], ttl |-> ttl[w], id |-> IdOf(seq + 1), uid |-> seq + 1]
  IN  /\ pc[w] = "loop" /\ MaySend(w)
      /\ Draw({p})
      /\ req' = [req EXCEPT ![w] = p]
      /\ pc' = [pc EXCEPT ![w] = "append"]
      /\ UNCHANGED <<sess, dst, want, ttl, n, max, handed, how, traces, probes, ch, recvVars>>

\* WriteToIP fails: Ping and Trace return the error.
SendFails(w) ==
  /\ pc[w] = "loop" /\ MaySend(w)
  /\ Draw({})
  /\ pc' = [pc EXCEPT ![w] = "close"]
  /\ how' = [how EXCEPT ![w] = "error"]
  /\ UNCHANGED <<sess, dst, want, ttl, n, max, req, handed, traces, probes, ch, recvVars>>

\* The rest of Ping: the request joins s.probes under s.mu.
AppendProbe(w) ==
  /\ pc[w] = "append"
  /\ probes' = [probes EXCEPT ![w] = @ \cup {req[w]}]
  /\ req' = [req EXCEPT ![w] = NoRequest]
  /\ pc' = [pc EXCEPT ![w] = "select"]
  /\ UNCHANGED <<netVars, sess, dst, want, ttl, n, max, handed, how, traces, ch, recvVars>>

\* Either loop receives a reply, lowers max if it is the destination's, calls h.
TakeReply(w) ==
  LET r == Head(ch[w])
  IN  /\ ch[w] # <<>>
      /\ ch' = [ch EXCEPT ![w] = Tail(@)]
      /\ max' = [max EXCEPT ![w] = Lowered(@, r, dst[w])]
      /\ handed' = [handed EXCEPT ![w] = Append(@, r)]

\* The sending loop waits for the ticker or for a reply, whichever is first.
SelectDelay(w) ==
  /\ pc[w] = "select"
  /\ ttl' = [ttl EXCEPT ![w] = @ + 1]
  /\ pc' = [pc EXCEPT ![w] = "loop"]
  /\ UNCHANGED <<netVars, sess, dst, want, n, max, req, handed, how, traces, probes, ch, recvVars>>

SelectReply(w) ==
  /\ pc[w] = "select"
  /\ TakeReply(w)
  /\ ttl' = [ttl EXCEPT ![w] = @ + 1]
  /\ pc' = [pc EXCEPT ![w] = "loop"]
  /\ UNCHANGED <<netVars, sess, dst, want, n, req, how, traces, probes, recvVars>>

\* The inner loop is over: next of the Count rounds, or the end of sending.
NextRound(w) ==
  /\ pc[w] = "loop" /\ n[w] < Count /\ ~MaySend(w)
  /\ n' = [n EXCEPT ![w] = @ + 1]
  /\ ttl' = [ttl EXCEPT ![w] = 1]
  /\ pc' = [pc EXCEPT ![w] = IF n[w] + 1 < Count THEN "loop" ELSE "check"]
  /\ UNCHANGED <<netVars, sess, dst, want, max, req, handed, how, traces, probes, ch, recvVars>>

\* isDone(max) after the sending loop and after each reply of the second loop.
CheckDone(w) ==
  /\ pc[w] = "check"
  /\ pc' = [pc EXCEPT ![w] = IF IsDone(w) THEN "close" ELSE "drain"]
  /\ how' = [how EXCEPT ![w] = IF IsDone(w) THEN "done" ELSE @]
  /\ UNCHANGED <<netVars, sess, dst, want, ttl, n, max, req, handed, traces, probes, ch, recvVars>>

DrainReply(w) ==
  /\ pc[w] = "drain"
  /\ TakeReply(w)
  /\ pc' = [pc EXCEPT ![w] = "check"]
  /\ UNCHANGED <<netVars, sess, dst, want, ttl, n, req, how, traces, probes, recvVars>>

\* The timer armed after the last probe.
Deadline_Never(w) == FALSE
Deadline(w) ==
  /\ pc[w] = "drain"
  /\ pc' = [pc EXCEPT ![w] = "close"]
  /\ how' = [how EXCEPT ![w] = "deadline"]
  /\ UNCHANGED <<netVars, sess, dst, want, ttl, n, max, req, handed, traces, probes, ch, recvVars>>

\* The deferred Close calls removeSession, which calls Lock on t.mu: from now
\* on no receiver gets a read lock.
Lock(w) ==
  /\ pc[w] = "close"
  /\ pc' = [pc EXCEPT ![w] = "lock"]
  /\ UNCHANGED <<netVars, sess, dst, want, ttl, n, max, req, handed, how, traces, probes, ch, recvVars>>

\* Under the write lock removeSession deletes every session of the address.
\* The session and Trace's variables are gone.
Close(w) ==
  /\ pc[w] = "lock"
  /\ NoReaders
  /\ sess' = [sess EXCEPT ![dst[w]] = Removed(@, w)]
  /\ probes' = [probes EXCEPT ![w] = {}]
  /\ pc' = [pc EXCEPT ![w] = "idle"]
  /\ dst' = [dst EXCEPT ![w] = SomeDest]
  /\ want' = [want EXCEPT ![w] = MaxHops]
  /\ ttl' = [ttl EXCEPT ![w] = 1]
  /\ n' = [n EXCEPT ![w] = 0]
  /\ max' = [max EXCEPT ![w] = MaxHops]
  /\ ch' = [ch EXCEPT ![w] = <<>>]
  /\ handed' = [handed EXCEPT ![w] = <<>>]
  /\ how' = [how EXCEPT ![w] = "none"]
  /\ UNCHANGED <<netVars, req, traces, recvVars>>
-----------------------------------------------------------------------------
(* The receivers *)

\* A packet is read and parsed, and serveReply takes the read lock of t.mu.
\* A packet for an address without sessions changes nothing.
Receive(r, p) ==
  /\ phase[r] = "read"
  /\ \A w \in Workers : pc[w] # "lock"
  /\ sess[p.dst] # {}
  /\ phase' = [phase EXCEPT ![r] = "serve"]
  /\ pkt' = [pkt EXCEPT ![r] = p]
  /\ todo' = [todo EXCEPT ![r] = sess[p.dst]]
  /\ UNCHANGED <<netVars, sess, workerVars, probes, ch, out, to>>

\* The loop of serveReply, which releases t.mu after the last session.
NextSession(r, rest) ==
  /\ phase' = [phase EXCEPT ![r] = IF rest = {} THEN "read" ELSE "serve"]
  /\ pkt' = [pkt EXCEPT ![r] = IF rest = {} THEN NoPacket ELSE @]

\* The first half of Session.handle, under s.mu: the probes older than Timeout
\* go (those below cut), and so does the one whose identifier matches, the last
\* if there are several.  Drawing 65536 identifiers takes longer than Timeout.
Handle(r, w, cut) ==
  LET live  == {p \in probes[w] : p.uid >= cut}
      match == {p \in live : Matches(p, pkt[r])}
      rest  == todo[r] \ {w}
  IN  /\ phase[r] = "serve"
      /\ w \in todo[r]
      /\ cut + IdMod > seq
      /\ probes' = [probes EXCEPT ![w] = Remaining(live, match)]
      /\ todo' = [todo EXCEPT ![r] = rest]
      /\ \/ /\ match = {}
            /\ NextSession(r, rest)
            /\ UNCHANGED <<out, to>>
         \/ \E p \in match :
              /\ \A q \in match : q.uid <= p.uid
              /\ out' = [out EXCEPT ![r] = [ip |-> pkt[r].from, hops |-> HopsOf(p, pkt[r]),
                                            uid |-> p.uid, src |-> pkt[r].uid]]
              /\ to' = [to EXCEPT ![r] = w]
              /\ phase' = [phase EXCEPT ![r] = "deliver"]
              /\ UNCHANGED pkt
      /\ UNCHANGED <<netVars, sess, workerVars, ch>>

\* The second half, after s.mu is released: a send that never blocks.
Deliver(r) ==
  LET w == to[r]
  IN  /\ phase[r] = "deliver"
      /\ ch' = IF Len(ch[w]) < ChanCap THEN [ch EXCEPT ![w] = Append(@, out[r])] ELSE ch
      /\ NextSession(r, todo[r])
      /\ out' = [out EXCEPT ![r] = NoReply]
      /\ to' = [to EXCEPT ![r] = SomeWorker]
      /\ UNCHANGED <<netVars, sess, workerVars, probes, todo>>
-----------------------------------------------------------------------------
WorkerStep(w) ==
  \/ SendRequest(w) \/ SendFails(w) \/ AppendProbe(w)
  \/ SelectDelay(w) \/ SelectReply(w) \/ NextRound(w)
  \/ CheckDone(w) \/ DrainReply(w) \/ Deadline(w) \/ Lock(w) \/ Close(w)

StartTrace(w) == \E d \in Dests, m \in WantedHops : NewSession(w, d, m)

Serve(r) ==
  \/ \E w \in Workers, cut \in 0..(seq + 1) : Handle(r, w, cut)
  \/ Deliver(r)

Next ==
  \/ \E w \in Workers : StartTrace(w) \/ WorkerStep(w)
  \/ \E r \in Receivers : (\E p \in Incoming : Receive(r, p)) \/ Serve(r)

Spec == Init /\ [][Next]_vars

(***************************************************************************)
(* Goroutines that can run do run; a Lock of the RWMutex t.mu waits only   *)
(* for the readers that hold it already.  A worker that waits for replies  *)
(* in vain is woken by its deadline.                                       *)
(***************************************************************************)
FairSpec ==
  /\ Spec
  /\ \A w \in Workers : WF_vars(WorkerStep(w))
  /\ \A r \in Receivers : WF_vars(Serve(r))
-----------------------------------------------------------------------------
\* The type of every variable.
TypeOK ==
  /\ seq \in Nat
  /\ wire \subseteq Request
  /\ sess \in [Dests -> SUBSET Workers]
  /\ pc \in [Workers -> {"idle", "loop", "append", "select", "check", "drain", "close", "lock"}]
  /\ dst \in [Workers -> Dests]
  /\ want \in [Workers -> Nat]
  /\ ttl \in [Workers -> Nat \ {0}]
  /\ n \in [Workers -> 0..Count]
  /\ max \in [Workers -> 1..MaxHops]
  /\ req \in [Workers -> Request]
  /\ probes \in [Workers -> SUBSET Request]
  /\ ch \in [Workers -> Seq(Reply)]
  /\ handed \in [Workers -> Seq(Reply)]
  /\ how \in [Workers -> {"none", "done", "deadline", "error"}]
  /\ phase \in [Receivers -> {"read", "serve", "deliver"}]
  /\ pkt \in [Receivers -> Packet]
  /\ todo \in [Receivers -> SUBSET Workers]
  /\ out \in [Receivers -> Reply]
  /\ to \in [Receivers -> Workers]
  /\ traces \in 0..MaxTraces

Elements(s) == {s[i] : i \in 1..Len(s)}

\* The replies credited to a probe of w's session, wherever they are by now.
Credited(w) ==
  Elements(ch[w]) \cup Elements(handed[w])
    \cup {out[r] : r \in {q \in Receivers : phase[q] = "deliver" /\ to[q] = w}}

\* A reply is never credited with the answer to another request of the tracer,
\* although the program compares 16-bit identifiers that are used again and again,
\* and late answers to earlier traces of the same address keep coming in.  What is
\* no answer to the tracer at all is taken for one if its identifier happens to fit.
ReplyGenuine ==
  \A w \in Workers : \A x \in Credited(w) :
    x.src = x.uid \/ (x.src = 0 /\ IdOf(x.uid) \in ForeignIds)

\* No probe is credited with two replies, however often the network repeats
\* one and however the receivers interleave (Session.handle removes the probe).
AnsweredOnce ==
  \A w \in Workers :
    LET all == handed[w] \o ch[w]
        busy == {r \in Receivers : phase[r] = "deliver" /\ to[r] = w}
    IN  /\ \A i, j \in 1..Len(all) : all[i].uid = all[j].uid => i = j
        /\ \A r \in busy : \A i \in 1..Len(all) : all[i].uid # out[r].uid
        /\ \A r, q \in busy : out[r].uid = out[q].uid => r = q
        /\ \A p \in probes[w] : \A x \in Credited(w) : p.uid # x.uid

\* A registered session is open and registered under its own address: Close
\* leaves nothing behind in Tracer.sess.
SessionsOpen ==
  \A d \in Dests : \A w \in sess[d] : Session(w) /\ dst[w] = d

\* serveReply holds t.mu while it works, so no receiver works on a session that
\* was closed meanwhile, and never on one of another address.
ServedSessionsOpen ==
  \A r \in Receivers :
    /\ phase[r] # "read" => \A w \in todo[r] : Session(w) /\ dst[w] = pkt[r].dst
    /\ phase[r] = "deliver" => Session(to[r]) /\ dst[to[r]] = pkt[r].dst

\* max is the smallest hop count at which the destination itself answered, as
\* far as Trace has been told, and MaxHops before that.
FromDest(w) == {x \in Elements(handed[w]) : x.ip = dst[w]}
MaxIsTight ==
  \A w \in Workers : Session(w) =>
    /\ \A x \in FromDest(w) : max[w] <= x.hops
    /\ max[w] < MaxHops => \E x \in FromDest(w) : max[w] = x.hops

\* Once h has seen the destination answer at some hop count, Trace sends no
\* probe with a larger TTL.
NoProbePastDest ==
  [][\A w \in Workers : \A p \in wire' \ wire :
       pc[w] = "loop" /\ pc'[w] = "append" =>
         \A x \in FromDest(w) : p.ttl <= x.hops]_vars

\* A channel with room for one reply per probe never drops one, so the
\* non-blocking send of handle loses nothing.
ChannelHasRoom ==
  MaxHops * Count <= ChanCap =>
    \A r \in Receivers : phase[r] = "deliver" => Len(ch[to[r]]) < ChanCap

\* A trace asked for with a smaller MaxHops (dynamic-max-ttl) sends no probe
\* beyond it.
WantedHopsRespected ==
  \A w \in Workers : pc[w] = "append" => req[w].ttl <= want[w]

\* Every Trace returns: the deadline ends the wait for lost replies.
TraceReturns == \A w \in Workers : Session(w) ~> ~Session(w)
=============================================================================
