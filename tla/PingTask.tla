------------------------------ MODULE PingTask ------------------------------
(***************************************************************************)
(* The ping of one point: the loop over its periods in measure/ping.go     *)
(* (StartPing), the task of measure/crontab.go that sends PeriodPacketNum  *)
(* echo requests, waits and collects, and the receiving goroutine of       *)
(* protocol/icmp.go that task spawns.  All of them share the connection    *)
(* and the Message with its IsFinish flag; task and its receiver share the *)
(* sync.Map recv, which is new in every period.                            *)
(*                                                                         *)
(* A receiver is named by the period that spawned it.  The network answers *)
(* a request never, late, or several times.                                *)
(***************************************************************************)
EXTENDS Integers, FiniteSets

CONSTANTS
  PeriodNum,        \* message.PeriodNum
  PeriodPacketNum,  \* message.PeriodPacketNum
  WaitMs,           \* waitLastPacketTimeMs: polls for the last reply
  StraySeqs,        \* sequence numbers of other echo replies with our identifier
  MaxReads          \* bound of the model: packets read by all receivers

ASSUME PeriodAssumption == PeriodNum \in Nat \ {0}
ASSUME PacketAssumption == PeriodPacketNum \in Nat \ {0}
ASSUME WaitAssumption   == WaitMs \in Nat \ {0}
ASSUME StrayAssumption  == StraySeqs \subseteq Nat
ASSUME ReadsAssumption  == MaxReads \in Nat

VARIABLES
  period,    \* k, from 1
  tpc,       \* where the sender stands
  packets,   \* packets sent in this period
  waited,    \* polls for the reply to its last packet
  sequence,  \* message.Sequence
  isFinish,  \* message.IsFinish
  connOpen,  \* the connection has not been closed
  recv,      \* recv[k]: the map of period k, from sequence numbers to records
  result,    \* result[k]: the sequence numbers task reports for period k
  deadline,  \* whose read deadline the connection has, 0 for none
  wire,      \* echo requests the network may answer, <<period, sequence>>
  late,      \* the receivers whose time limit has passed
  rpc,       \* where the receiver of each period stands
  rpkt,      \* the packet it has read
  rsent,     \* the send time it found in the map, 0 for none
  reads      \* packets read so far: the clock of receive times

taskVars == <<period, tpc, packets, waited, sequence, isFinish, result>>
recvVars == <<deadline, late, rpc, rpkt, rsent, reads>>
vars == <<taskVars, connOpen, recv, wire, recvVars>>

Periods == 1..PeriodNum
Seqs    == 1..PeriodPacketNum
Keys    == Seqs \cup {PeriodPacketNum + 1} \cup StraySeqs
Packets == Periods \X Seqs

\* What the map holds under a sequence number: whether a record is there, the
\* period in which its request was sent (0 if the receiver did not know),
\* whether the packet was answered, and when.  Loading an absent key yields
\* the zero record, None.
Record == [stored : BOOLEAN, sent : 0..PeriodNum, valid : BOOLEAN, at : Nat]
None   == [stored |-> FALSE, sent |-> 0, valid |-> FALSE, at |-> 0]

SentRecord(k) == [stored |-> TRUE, sent |-> k, valid |-> FALSE, at |-> 0]
RecvRecord(sent, at) == [stored |-> TRUE, sent |-> sent, valid |-> TRUE, at |-> at]

IsDuplicate_Never(m, s) == FALSE
IsDuplicate(m, s)       == m[s].valid

ValidKeys_Stored(m) == {s \in Keys : m[s].stored}
ValidKeys(m)        == {s \in Keys : m[s].valid}

WaitOver(m, w) == m[PeriodPacketNum].valid \/ w = WaitMs
Waited_Not(w)  == w
Waited(w)      == w + 1

NewDeadline_Not(k) == 0
NewDeadline(k)     == k

NextSequence_NoWrap(s) == IF s > PeriodPacketNum THEN s ELSE s + 1
NextSequence(s)        == IF s + 1 > PeriodPacketNum THEN 1 ELSE s + 1
-----------------------------------------------------------------------------
Init ==
  /\ period = 1
  /\ tpc = "start"
  /\ packets = 0
  /\ waited = 0
  /\ sequence = 1
  /\ isFinish = FALSE
  /\ connOpen = TRUE
  /\ recv = [k \in Periods |-> [s \in Keys |-> None]]
  /\ result = [k \in Periods |-> {}]
  /\ wire = {}
  /\ deadline = 0
  /\ late = {}
  /\ rpc = [k \in Periods |-> "none"]
  /\ rpkt = [k \in Periods |-> 0]
  /\ rsent = [k \in Periods |-> 0]
  /\ reads = 0
-----------------------------------------------------------------------------
(* StartPing and task *)

\* task starts: the flag is lowered and the receiver spawned.
Start ==
  /\ tpc = "start"
  /\ isFinish' = FALSE
  /\ packets' = 0
  /\ waited' = 0
  /\ rpc' = [rpc EXCEPT ![period] = "spawned"]
  /\ tpc' = "send"
  /\ UNCHANGED <<period, sequence, result, connOpen, recv, wire, deadline, late, rpkt, rsent, reads>>

\* icmp: the packet is written, which may fail ...
Write ==
  /\ tpc = "send"
  /\ \/ wire' = wire
     \/ connOpen /\ wire' = wire \cup {<<period, sequence>>}
  /\ tpc' = "store"
  /\ UNCHANGED <<period, packets, waited, sequence, isFinish, result, connOpen, recv, recvVars>>

\* ... and then its record is stored, whatever is there; SendICMPPacket counts.
Store ==
  /\ tpc = "store"
  /\ recv' = [recv EXCEPT ![period][sequence] = SentRecord(period)]
  /\ sequence' = NextSequence(sequence)
  /\ packets' = packets + 1
  /\ tpc' = IF packets + 1 = PeriodPacketNum THEN "wait" ELSE "send"
  /\ UNCHANGED <<period, waited, isFinish, result, connOpen, wire, recvVars>>

\* The wait for the reply to the last packet, every millisecond.  Without a
\* record task returns nil, which StartPing indexes.  With the flag up, Range
\* begins to collect what is valid.
Poll ==
  /\ tpc = "wait"
  /\ IF ~recv[period][PeriodPacketNum].stored
     THEN tpc' = "panic" /\ UNCHANGED <<waited, isFinish, result>>
     ELSE IF WaitOver(recv[period], waited)
     THEN /\ tpc' = "collect"
          /\ isFinish' = TRUE
          /\ result' = [result EXCEPT ![period] = ValidKeys(recv[period])]
          /\ UNCHANGED waited
     ELSE waited' = Waited(waited) /\ UNCHANGED <<tpc, isFinish, result>>
  /\ UNCHANGED <<period, packets, sequence, connOpen, recv, wire, recvVars>>

\* Range visits the keys one by one while the receiver may still store: it
\* sees those valid when it began and some of the later ones.  They go to an
\* array of PeriodPacketNum.  After a success StartPing resets the sequence.
Collect ==
  /\ tpc = "collect"
  /\ \E valid \in SUBSET ValidKeys(recv[period]) :
       /\ result[period] \subseteq valid
       /\ result' = [result EXCEPT ![period] = valid]
       /\ IF Cardinality(valid) > PeriodPacketNum
          THEN tpc' = "panic" /\ UNCHANGED <<period, sequence>>
          ELSE /\ \/ UNCHANGED sequence
                  \/ valid # {} /\ sequence' = 1
               /\ IF period = PeriodNum
                  THEN tpc' = "end" /\ UNCHANGED period
                  ELSE tpc' = "start" /\ period' = period + 1
  /\ UNCHANGED <<packets, waited, isFinish, connOpen, recv, wire, recvVars>>
-----------------------------------------------------------------------------
(* RecvICMPPacket *)

Goto(k, pc) == rpc' = [rpc EXCEPT ![k] = pc]

\* The goroutine starts: its read deadline is the connection's from now on.
Begin(k) ==
  /\ rpc[k] = "spawned"
  /\ deadline' = NewDeadline(k)
  /\ Goto(k, "check")
  /\ UNCHANGED <<taskVars, connOpen, recv, wire, late, rpkt, rsent, reads>>

\* The loop condition: the flag is down and the receiver's time is not up.
CheckFinish(k) ==
  /\ rpc[k] = "check"
  /\ Goto(k, IF isFinish \/ k \in late THEN "close" ELSE "read")
  /\ UNCHANGED <<taskVars, connOpen, recv, wire, deadline, late, rpkt, rsent, reads>>

\* An echo reply with our identifier: an answer to any request so far, or a
\* stray one.
Read(k, seq) ==
  /\ rpc[k] = "read" /\ connOpen /\ deadline \notin late
  /\ reads < MaxReads
  /\ reads' = reads + 1
  /\ rpkt' = [rpkt EXCEPT ![k] = seq]
  /\ Goto(k, "load")
  /\ UNCHANGED <<taskVars, connOpen, recv, wire, deadline, late, rsent>>

\* A packet that is not ours.
ReadForeign(k) ==
  /\ rpc[k] = "read" /\ connOpen /\ deadline \notin late
  /\ Goto(k, "check")
  /\ UNCHANGED <<taskVars, connOpen, recv, wire, deadline, late, rpkt, rsent, reads>>

\* An error: the connection is closed, and the loop goes on; or the deadline
\* has passed, and the goroutine returns and leaves the connection open.
ReadError(k) ==
  /\ rpc[k] = "read"
  /\ \/ ~connOpen /\ Goto(k, "check")
     \/ connOpen /\ deadline \in late /\ Goto(k, "gone")
  /\ UNCHANGED <<taskVars, connOpen, recv, wire, deadline, late, rpkt, rsent, reads>>

\* recv.Load: a record that is valid already makes the packet a duplicate.
LoadRecord(k) ==
  LET dup == IsDuplicate(recv[k], rpkt[k])
  IN  /\ rpc[k] = "load"
      /\ rsent' = [rsent EXCEPT ![k] = IF dup THEN 0 ELSE recv[k][rpkt[k]].sent]
      /\ rpkt' = [rpkt EXCEPT ![k] = IF dup THEN 0 ELSE @]
      /\ Goto(k, IF dup THEN "check" ELSE "record")
      /\ UNCHANGED <<taskVars, connOpen, recv, wire, deadline, late, reads>>

\* recv.Store of the valid record, under a key that may be new.
StoreReply(k) ==
  /\ rpc[k] = "record"
  /\ recv' = [recv EXCEPT ![k][rpkt[k]] = RecvRecord(rsent[k], reads)]
  /\ rpkt' = [rpkt EXCEPT ![k] = 0]
  /\ rsent' = [rsent EXCEPT ![k] = 0]
  /\ Goto(k, "check")
  /\ UNCHANGED <<taskVars, connOpen, wire, deadline, late, reads>>

CloseConn(k) ==
  /\ rpc[k] = "close"
  /\ connOpen' = FALSE
  /\ Goto(k, "gone")
  /\ UNCHANGED <<taskVars, recv, wire, deadline, late, rpkt, rsent, reads>>

\* The clock: the time limit of a receiver passes.
Expire(k) ==
  /\ rpc[k] \notin {"none", "spawned", "gone"} /\ k \notin late
  /\ late' = late \cup {k}
  /\ UNCHANGED <<taskVars, connOpen, recv, wire, deadline, rpc, rpkt, rsent, reads>>
-----------------------------------------------------------------------------
Incoming == {p[2] : p \in wire} \cup StraySeqs

TaskStep == Start \/ Write \/ Store \/ Poll \/ Collect

ReceiverStep(k) ==
  \/ Begin(k) \/ CheckFinish(k) \/ ReadError(k)
  \/ LoadRecord(k) \/ StoreReply(k) \/ CloseConn(k)

Next ==
  \/ TaskStep
  \/ \E k \in Periods :
       \/ ReceiverStep(k) \/ Expire(k) \/ ReadForeign(k)
       \/ \E s \in Incoming : Read(k, s)

Spec == Init /\ [][Next]_vars

(***************************************************************************)
(* Goroutines that can run do run, and time passes.  Nothing is asked of   *)
(* the network: it need not answer, nor send foreign packets.              *)
(***************************************************************************)
FairSpec ==
  /\ Spec
  /\ WF_vars(TaskStep)
  /\ \A k \in Periods : WF_vars(ReceiverStep(k)) /\ WF_vars(Expire(k))
-----------------------------------------------------------------------------
\* The type of every variable.
TypeOK ==
  /\ period \in Periods
  /\ tpc \in {"start", "send", "store", "wait", "collect", "end", "panic"}
  /\ packets \in 0..PeriodPacketNum
  /\ waited \in 0..WaitMs
  /\ sequence \in 1..PeriodPacketNum
  /\ isFinish \in BOOLEAN
  /\ connOpen \in BOOLEAN
  /\ recv \in [Periods -> [Keys -> Record]]
  /\ result \in [Periods -> SUBSET Keys]
  /\ wire \subseteq Packets
  /\ deadline \in Periods \cup {0}
  /\ late \subseteq Periods
  /\ rpc \in [Periods -> {"none", "spawned", "check", "read", "load", "record", "close", "gone"}]
  /\ rpkt \in [Periods -> Keys \cup {0}]
  /\ rsent \in [Periods -> 0..PeriodNum]
  /\ reads \in 0..MaxReads

\* A valid record is never replaced by another valid one: the first reply to
\* a packet gives its RTT and the network's repetitions are dropped.  (The
\* sender may replace it by an unanswered one: the record of a packet is stored
\* after the packet was written, when its reply may have been handled.)
FirstReplyKept ==
  [][\A k \in Periods : \A s \in Keys :
       recv[k][s].valid /\ recv'[k][s] # recv[k][s] => ~recv'[k][s].valid]_vars

\* task reports a sequence number only if a stray reply had it or a request with
\* it went out, in this period or, when its reply is late, in an earlier one.
ReportedWasSent ==
  \A k \in Periods : \A s \in result[k] \ StraySeqs : \E j \in 1..k : <<j, s>> \in wire

\* The cells that StartPing indexes exist, and the array of valid numbers is
\* long enough, unless stray replies fill it: the agent does not panic.
NoPanic ==
  (\A k \in Periods : result[k] \cap StraySeqs = {}) => tpc # "panic"

\* The ping of a point ends, whatever is lost.
PingEnds == <>(tpc \in {"end", "panic"})

\* Receivers do not pile up: each one that is spawned ends.
ReceiversEnd == \A k \in Periods : (rpc[k] = "spawned") ~> (rpc[k] = "gone")
=============================================================================
