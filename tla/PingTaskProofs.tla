--------------------------- MODULE PingTaskProofs ---------------------------
(***************************************************************************)
(* Theorems about PingTask, for any number of periods and packets, any     *)
(* stray replies and any patience of the sender.                           *)
(***************************************************************************)
EXTENDS PingTask, FiniteSetTheorems, TLAPS

LEMMA Positive == PeriodNum \in Nat /\ PeriodNum >= 1
                    /\ PeriodPacketNum \in Nat /\ PeriodPacketNum >= 1 /\ WaitMs \in Nat /\ WaitMs >= 1
BY PeriodAssumption, PacketAssumption, WaitAssumption

\* After its packets a period ends with the sequence number it began with.
Counted ==
  /\ tpc = "start" => sequence = 1
  /\ tpc \in {"send", "store"} => packets < PeriodPacketNum /\ sequence = packets + 1
  /\ tpc \in {"wait", "collect"} => sequence = 1

\* Records are stored in order and never taken away.
Recorded ==
  /\ tpc \in {"send", "store"} => \A s \in 1..packets : recv[period][s].stored
  /\ tpc \in {"wait", "collect"} => recv[period][PeriodPacketNum].stored

\* Requests go out in the periods so far.
OnTheWire == \A p \in wire : p[1] <= period

\* What receivers have read and stored is stray or was asked for.
Replied ==
  \A k \in Periods :
    /\ rpc[k] \in {"load", "record"} => rpkt[k] \in Incoming
    /\ \A s \in Keys : recv[k][s].valid => s \in Incoming

\* Reports are of the periods so far.
Reported == \A k \in Periods : k > period => result[k] = {}

\* A map has a single receiver, which looks before it stores.
Alone == \A k \in Periods : rpc[k] = "record" => ~recv[k][rpkt[k]].valid

IInv ==
  /\ TypeOK
  /\ Counted /\ Recorded /\ OnTheWire /\ Replied /\ Reported /\ Alone
  /\ ReportedWasSent /\ NoPanic
-----------------------------------------------------------------------------
(* Types *)

LEMMA SentType ==
  ASSUME NEW k \in Periods
  PROVE  SentRecord(k) \in Record /\ SentRecord(k).stored /\ ~SentRecord(k).valid
BY Positive DEF SentRecord, Record, Periods

LEMMA RecvType ==
  ASSUME NEW sent \in 0..PeriodNum, NEW at \in Nat
  PROVE  RecvRecord(sent, at) \in Record /\ RecvRecord(sent, at).stored /\ RecvRecord(sent, at).valid
BY DEF RecvRecord, Record

LEMMA NoneType == None \in Record /\ ~None.stored /\ ~None.valid
BY Positive DEF None, Record

LEMMA RecordFields ==
  ASSUME NEW r \in Record
  PROVE  r.sent \in 0..PeriodNum /\ r.stored \in BOOLEAN /\ r.valid \in BOOLEAN
BY DEF Record

LEMMA NextInRange ==
  ASSUME NEW s \in 1..PeriodPacketNum
  PROVE  NextSequence(s) \in 1..PeriodPacketNum
BY Positive DEF NextSequence

LEMMA IncomingType ==
  ASSUME TypeOK
  PROVE  Incoming \subseteq Seqs \cup StraySeqs /\ Incoming \subseteq Keys
<1>1. \A p \in wire : p[2] \in Seqs
  BY DEF TypeOK, Packets
<1> QED  BY <1>1 DEF Incoming, Keys

LEMMA InitInv == Init => IInv
<1> SUFFICES ASSUME Init PROVE IInv
  OBVIOUS
<1>1. TypeOK
  <2>1. recv \in [Periods -> [Keys -> Record]]
    BY NoneType DEF Init
  <2>2. period \in Periods /\ waited \in 0..WaitMs /\ sequence \in 1..PeriodPacketNum
        /\ packets \in 0..PeriodPacketNum /\ reads \in 0..MaxReads
    BY Positive, ReadsAssumption DEF Init, Periods
  <2>3. result \in [Periods -> SUBSET Keys] /\ rpkt \in [Periods -> Keys \cup {0}]
    BY DEF Init
  <2>4. rsent \in [Periods -> 0..PeriodNum]
    BY Positive DEF Init
  <2>5. isFinish \in BOOLEAN /\ connOpen \in BOOLEAN /\ wire \subseteq Packets /\ late \subseteq Periods
    BY DEF Init
  <2> QED  BY <2>1, <2>2, <2>3, <2>4, <2>5 DEF Init, TypeOK
<1>2. Counted /\ Recorded
  BY DEF Init, Counted, Recorded
<1>3. OnTheWire /\ Reported /\ ReportedWasSent /\ NoPanic
  BY DEF Init, OnTheWire, Reported, ReportedWasSent, NoPanic
<1>4. Replied /\ Alone
  BY NoneType DEF Init, Replied, Alone
<1> QED  BY <1>1, <1>2, <1>3, <1>4 DEF IInv

\* The sender keeps types.
LEMMA TaskType == TypeOK /\ Counted /\ TaskStep => TypeOK'
<1> SUFFICES ASSUME TypeOK, Counted, TaskStep PROVE TypeOK'
  OBVIOUS
<1> USE Positive
<1>1. CASE Start
  <2>1. packets' \in 0..PeriodPacketNum /\ waited' \in 0..WaitMs
    BY <1>1 DEF Start
  <2>2. isFinish' \in BOOLEAN
    BY <1>1 DEF Start
  <2> QED  BY <1>1, <2>1, <2>2 DEF Start, TypeOK
<1>2. CASE Write
  BY <1>2 DEF Write, TypeOK, Counted, Packets, Seqs, recvVars
<1>3. CASE Store
  <2>1. recv' \in [Periods -> [Keys -> Record]]
    BY <1>3, SentType DEF Store, TypeOK
  <2>2. sequence' \in 1..PeriodPacketNum
    BY <1>3, NextInRange DEF Store, TypeOK
  <2> QED  BY <1>3, <2>1, <2>2 DEF Store, TypeOK, Counted, recvVars
<1>4. CASE Poll
  <2>1. waited' \in 0..WaitMs
    BY <1>4 DEF Poll, TypeOK, WaitOver, Waited
  <2>2. isFinish' \in BOOLEAN
    BY <1>4 DEF Poll, TypeOK
  <2>3. result' \in [Periods -> SUBSET Keys]
    BY <1>4 DEF Poll, TypeOK, ValidKeys
  <2>4. tpc' \in {"wait", "collect", "panic"}
    BY <1>4 DEF Poll
  <2> QED  BY <1>4, <2>1, <2>2, <2>3, <2>4 DEF Poll, TypeOK, recvVars
<1>5. CASE Collect
  BY <1>5 DEF Collect, TypeOK, ValidKeys, Periods, recvVars
<1> QED  BY <1>1, <1>2, <1>3, <1>4, <1>5 DEF TaskStep

\* The steps of receivers, and of time and the network.
Receiving ==
  \E k \in Periods :
    ReceiverStep(k) \/ Expire(k) \/ ReadForeign(k) \/ \E s \in Incoming : Read(k, s)

LEMMA ReceivingType == TypeOK /\ Replied /\ Receiving => TypeOK'
<1> SUFFICES ASSUME TypeOK, Replied, NEW k \in Periods,
                    ReceiverStep(k) \/ Expire(k) \/ ReadForeign(k) \/ \E s \in Incoming : Read(k, s)
             PROVE  TypeOK'
  BY DEF Receiving
<1>1. CASE Begin(k)
  BY <1>1 DEF Begin, TypeOK, Goto, NewDeadline, taskVars
<1>2. CASE CheckFinish(k)
  BY <1>2 DEF CheckFinish, TypeOK, Goto, taskVars
<1>3. CASE ReadError(k)
  BY <1>3 DEF ReadError, TypeOK, Goto, taskVars
<1>4. CASE LoadRecord(k)
  <2>1. rpkt[k] \in Keys
    BY <1>4, IncomingType DEF LoadRecord, Replied
  <2>2. recv[k][rpkt[k]].sent \in 0..PeriodNum
    BY <2>1, RecordFields DEF TypeOK
  <2>3. rsent' \in [Periods -> 0..PeriodNum] /\ rpkt' \in [Periods -> Keys \cup {0}]
    BY <1>4, <2>2, Positive DEF LoadRecord, TypeOK
  <2> QED  BY <1>4, <2>3 DEF LoadRecord, TypeOK, Goto, taskVars
<1>5. CASE StoreReply(k)
  <2>1. rpkt[k] \in Keys
    BY <1>5, IncomingType DEF StoreReply, Replied
  <2>2. RecvRecord(rsent[k], reads) \in Record
    BY RecvType DEF TypeOK
  <2>3. recv' \in [Periods -> [Keys -> Record]]
    BY <1>5, <2>1, <2>2 DEF StoreReply, TypeOK
  <2> QED  BY <1>5, <2>3, Positive DEF StoreReply, TypeOK, Goto, taskVars
<1>6. CASE CloseConn(k)
  BY <1>6 DEF CloseConn, TypeOK, Goto, taskVars
<1>7. CASE Expire(k)
  BY <1>7 DEF Expire, TypeOK, taskVars
<1>8. CASE ReadForeign(k)
  BY <1>8 DEF ReadForeign, TypeOK, Goto, taskVars
<1>9. ASSUME NEW s \in Incoming, Read(k, s) PROVE TypeOK'
  <2>1. s \in Keys
    BY IncomingType
  <2> QED  BY <1>9, <2>1, ReadsAssumption DEF Read, TypeOK, Goto, taskVars
<1> QED  BY <1>1, <1>2, <1>3, <1>4, <1>5, <1>6, <1>7, <1>8, <1>9 DEF ReceiverStep
-----------------------------------------------------------------------------
(* The parts of the invariant *)

\* Sequence numbers run from 1 to PeriodPacketNum and begin again.
LEMMA TaskCounts == TypeOK /\ Counted /\ Recorded /\ TaskStep => Counted' /\ Recorded'
<1> SUFFICES ASSUME TypeOK, Counted, Recorded, TaskStep PROVE Counted' /\ Recorded'
  OBVIOUS
<1> USE Positive
<1>1. CASE Start
  BY <1>1 DEF Start, TypeOK, Counted, Recorded
<1>2. CASE Write
  BY <1>2 DEF Write, TypeOK, Counted, Recorded
<1>3. CASE Store
  <2>1. sequence = packets + 1 /\ sequence \in Keys /\ period \in Periods
    BY <1>3 DEF Store, TypeOK, Counted, Keys, Seqs
  <2>2. Counted'
    BY <1>3, <2>1 DEF Store, TypeOK, Counted, NextSequence
  <2>3. recv'[period][sequence].stored
    BY <1>3, <2>1, SentType DEF Store, TypeOK
  <2>4. \A s \in 1..packets : recv'[period][s].stored
    BY <1>3, <2>1 DEF Store, TypeOK, Recorded, Keys, Seqs
  <2>5. \A s \in 1..(packets + 1) : recv'[period][s].stored
    BY <2>1, <2>3, <2>4 DEF TypeOK
  <2> QED  BY <1>3, <2>2, <2>5 DEF Store, Recorded, TypeOK
<1>4. CASE Poll
  BY <1>4 DEF Poll, TypeOK, Counted, Recorded
<1>5. CASE Collect
  BY <1>5 DEF Collect, TypeOK, Counted, Recorded
<1> QED  BY <1>1, <1>2, <1>3, <1>4, <1>5 DEF TaskStep

LEMMA ReceivingCounts ==
  TypeOK /\ Counted /\ Recorded /\ Replied /\ Receiving => Counted' /\ Recorded'
<1> SUFFICES ASSUME TypeOK, Counted, Recorded, Replied, Receiving PROVE Counted' /\ Recorded'
  OBVIOUS
<1>1. UNCHANGED taskVars
  BY DEF Receiving, ReceiverStep, Begin, CheckFinish, ReadError, LoadRecord, StoreReply, CloseConn,
         Expire, ReadForeign, Read
<1>2. \A k \in Periods : \A s \in Keys : recv[k][s].stored => recv'[k][s].stored
  <2>1. CASE UNCHANGED recv
    BY <2>1
  <2>2. ASSUME NEW k \in Periods, StoreReply(k)
        PROVE  \A j \in Periods : \A s \in Keys : recv[j][s].stored => recv'[j][s].stored
    BY <2>2, RecvType DEF StoreReply, TypeOK
  <2>3. (UNCHANGED recv) \/ \E k \in Periods : StoreReply(k)
    BY DEF Receiving, ReceiverStep, Begin, CheckFinish, ReadError, LoadRecord, CloseConn,
           Expire, ReadForeign, Read
  <2> QED  BY <2>1, <2>2, <2>3
<1>3. Counted'
  BY <1>1 DEF Counted, taskVars
<1>4. period \in Periods /\ packets \in 0..PeriodPacketNum /\ Seqs \subseteq Keys
      /\ PeriodPacketNum \in Seqs /\ 1..packets \subseteq Seqs
  BY Positive DEF TypeOK, Keys, Seqs
<1>5. Recorded'
  BY <1>1, <1>2, <1>4 DEF Recorded, taskVars
<1> QED  BY <1>3, <1>5

\* Only the sender puts packets on the wire, in the current period.
LEMMA WireKept == TypeOK /\ OnTheWire /\ Next => OnTheWire' /\ Incoming \subseteq Incoming'
<1> SUFFICES ASSUME TypeOK, OnTheWire, Next PROVE OnTheWire' /\ Incoming \subseteq Incoming'
  OBVIOUS
<1>1. wire' = wire \/ wire' = wire \cup {<<period, sequence>>}
  BY DEF Next, TaskStep, Start, Write, Store, Poll, Collect, ReceiverStep, Begin, CheckFinish, ReadError,
         LoadRecord, StoreReply, CloseConn, Expire, ReadForeign, Read
<1>2. period' = period \/ period' = period + 1
  BY DEF Next, TaskStep, Start, Write, Store, Poll, Collect, ReceiverStep, Begin, CheckFinish, ReadError,
         LoadRecord, StoreReply, CloseConn, Expire, ReadForeign, Read, taskVars
<1>3. \A p \in wire : p[1] \in Nat
  BY DEF TypeOK, Packets, Periods
<1>4. period \in Nat /\ <<period, sequence>>[1] = period
  BY DEF TypeOK, Periods
<1> QED  BY <1>1, <1>2, <1>3, <1>4 DEF OnTheWire, Incoming

LEMMA RepliedKept == TypeOK /\ OnTheWire /\ Replied /\ Next => Replied'
<1> SUFFICES ASSUME TypeOK, OnTheWire, Replied, Next, NEW k \in Periods
             PROVE  /\ rpc'[k] \in {"load", "record"} => rpkt'[k] \in Incoming'
                    /\ \A s \in Keys : recv'[k][s].valid => s \in Incoming'
  BY DEF Replied
<1>1. Incoming \subseteq Incoming'
  BY WireKept
<1>2. rpc'[k] \in {"load", "record"} => rpkt'[k] \in Incoming
  <2>1. CASE TaskStep
    BY <2>1 DEF TaskStep, Start, Write, Store, Poll, Collect, recvVars, Replied, TypeOK
  <2>2. ASSUME NEW j \in Periods, ReceiverStep(j) \/ Expire(j) \/ ReadForeign(j)
        PROVE  rpc'[k] \in {"load", "record"} => rpkt'[k] \in Incoming
    BY <2>2 DEF ReceiverStep, Begin, CheckFinish, ReadError, LoadRecord, StoreReply, CloseConn,
                Expire, ReadForeign, Goto, Replied, TypeOK
  <2>3. ASSUME NEW j \in Periods, NEW s \in Incoming, Read(j, s)
        PROVE  rpc'[k] \in {"load", "record"} => rpkt'[k] \in Incoming
    BY <2>3 DEF Read, Goto, Replied, TypeOK
  <2> QED  BY <2>1, <2>2, <2>3 DEF Next
<1>3. \A s \in Keys : recv'[k][s].valid => s \in Incoming
  <2>1. CASE UNCHANGED recv
    BY <2>1 DEF Replied
  <2>2. CASE Store
    <3>1. period \in Periods /\ ~SentRecord(period).valid
      BY SentType DEF TypeOK
    <3> QED  BY <2>2, <3>1 DEF Store, Replied, TypeOK
  <2>3. ASSUME NEW j \in Periods, StoreReply(j)
        PROVE  \A s \in Keys : recv'[k][s].valid => s \in Incoming
    BY <2>3 DEF StoreReply, Replied, TypeOK
  <2> QED  BY <2>1, <2>2, <2>3 DEF Next, TaskStep, Start, Write, Poll, Collect, ReceiverStep, Begin, CheckFinish,
                ReadError, LoadRecord, CloseConn, Expire, ReadForeign, Read, recvVars
<1> QED  BY <1>1, <1>2, <1>3

\* A report is made at the end of its period, from what is valid then.
LEMMA ReportKept ==
  TypeOK /\ OnTheWire /\ Replied /\ Reported /\ ReportedWasSent /\ NoPanic /\ Recorded /\ Next
    => Reported' /\ ReportedWasSent' /\ NoPanic'
<1> SUFFICES ASSUME TypeOK, OnTheWire, Replied, Reported, ReportedWasSent, NoPanic, Recorded, Next
             PROVE  Reported' /\ ReportedWasSent' /\ NoPanic'
  OBVIOUS
<1> USE Positive
<1>1. wire \subseteq wire'
  BY DEF Next, TaskStep, Start, Write, Store, Poll, Collect, ReceiverStep, Begin, CheckFinish, ReadError,
         LoadRecord, StoreReply, CloseConn, Expire, ReadForeign, Read
<1>2. CASE UNCHANGED <<result, tpc, period>>
  BY <1>1, <1>2 DEF Reported, ReportedWasSent, NoPanic
<1>3. CASE Start \/ Write \/ Store
  BY <1>1, <1>3 DEF Start, Write, Store, Reported, ReportedWasSent, NoPanic
<1>4. ASSUME NEW valid \in SUBSET ValidKeys(recv[period]),
             result' = [result EXCEPT ![period] = valid],
             UNCHANGED wire, period' \in {period, period + 1}
      PROVE  Reported' /\ ReportedWasSent'
  <2>1. period \in Periods /\ period \in Nat /\ result'[period] = valid
        /\ \A k \in Periods \ {period} : result'[k] = result[k]
    BY <1>4 DEF TypeOK, Periods
  <2>2. Reported'
    BY <1>4, <2>1 DEF Reported, Periods
  <2>3. ASSUME NEW s \in valid \ StraySeqs PROVE \E j \in 1..period : <<j, s>> \in wire
    <3>1. s \in Keys /\ recv[period][s].valid
      BY DEF ValidKeys
    <3>2. s \in Incoming
      BY <3>1, <2>1 DEF Replied
    <3>3. PICK p \in wire : p[2] = s
      BY <3>2, <2>3 DEF Incoming
    <3>4. p = <<p[1], s>> /\ p[1] \in 1..period
      BY <3>3, <2>1 DEF TypeOK, Packets, Periods, OnTheWire
    <3> QED  BY <3>4, <3>3
  <2> QED  BY <1>4, <2>1, <2>2, <2>3 DEF ReportedWasSent
<1>5. CASE Poll
  <2>1. tpc' # "panic"
    BY <1>5 DEF Poll, Recorded
  <2>2. CASE UNCHANGED result
    BY <1>5, <2>1, <2>2 DEF Poll, Reported, ReportedWasSent, NoPanic
  <2>3. CASE result' = [result EXCEPT ![period] = ValidKeys(recv[period])]
    BY <1>4, <1>5, <2>1, <2>3 DEF Poll, NoPanic
  <2> QED  BY <1>5, <2>2, <2>3 DEF Poll
<1>6. CASE Collect
  <2>1. PICK valid \in SUBSET ValidKeys(recv[period]) :
          /\ result' = [result EXCEPT ![period] = valid]
          /\ tpc' = "panic" => Cardinality(valid) > PeriodPacketNum
          /\ period' \in {period, period + 1}
    BY <1>6 DEF Collect
  <2>2. Reported' /\ ReportedWasSent'
    BY <1>4, <1>6, <2>1 DEF Collect
  <2>3. ASSUME tpc' = "panic" PROVE valid \cap StraySeqs # {}
    <3>1. SUFFICES ASSUME valid \cap StraySeqs = {} PROVE FALSE
      OBVIOUS
    <3>2. valid \subseteq Seqs
      BY <3>1, IncomingType DEF ValidKeys, Replied, TypeOK
    <3>3. IsFiniteSet(Seqs) /\ Cardinality(Seqs) = PeriodPacketNum
      BY FS_Interval DEF Seqs
    <3>4. Cardinality(valid) <= PeriodPacketNum
      BY <3>2, <3>3, FS_Subset
    <3>5. Cardinality(valid) \in Nat
      BY <3>2, <3>3, FS_Subset, FS_CardinalityType
    <3> QED  BY <2>1, <2>3, <3>4, <3>5
  <2>4. result'[period] = valid /\ period \in Periods
    BY <2>1 DEF TypeOK
  <2>5. NoPanic'
    BY <2>3, <2>4 DEF NoPanic
  <2> QED  BY <2>2, <2>5
<1>7. CASE Receiving
  <2>1. UNCHANGED <<result, tpc, period>>
    BY <1>7 DEF Receiving, ReceiverStep, Begin, CheckFinish, ReadError, LoadRecord, StoreReply, CloseConn,
           Expire, ReadForeign, Read, taskVars
  <2> QED  BY <1>2, <2>1
<1>8. TaskStep \/ Receiving
  BY DEF Next, Receiving
<1> QED  BY <1>3, <1>5, <1>6, <1>7, <1>8 DEF TaskStep

LEMMA AloneKept == TypeOK /\ Replied /\ Alone /\ Next => Alone'
<1> SUFFICES ASSUME TypeOK, Replied, Alone, Next, NEW k \in Periods, rpc'[k] = "record"
             PROVE  ~recv'[k][rpkt'[k]].valid
  BY DEF Alone
<1>1. CASE TaskStep
  <2>1. rpc[k] = "record" /\ UNCHANGED rpkt /\ rpkt[k] \in Keys
    BY <1>1, IncomingType DEF TaskStep, Start, Write, Store, Poll, Collect, recvVars, Replied, TypeOK
  <2>2. CASE UNCHANGED recv
    BY <2>1, <2>2 DEF Alone
  <2>3. CASE Store
    <3>1. period \in Periods /\ ~SentRecord(period).valid
      BY SentType DEF TypeOK
    <3> QED  BY <2>1, <2>3, <3>1 DEF Store, Alone, TypeOK
  <2> QED  BY <1>1, <2>2, <2>3 DEF TaskStep, Start, Write, Poll, Collect
<1>2. CASE Receiving
  <2>1. PICK j \in Periods :
          ReceiverStep(j) \/ Expire(j) \/ ReadForeign(j) \/ \E s \in Incoming : Read(j, s)
    BY <1>2 DEF Receiving
  <2>2. CASE LoadRecord(j)
    BY <2>2 DEF LoadRecord, IsDuplicate, Goto, Alone, TypeOK
  <2>3. CASE StoreReply(j)
    BY <2>3 DEF StoreReply, Goto, Alone, TypeOK
  <2>4. CASE \E s \in Incoming : Read(j, s)
    BY <2>4 DEF Read, Goto, Alone, TypeOK
  <2>5. CASE Begin(j) \/ CheckFinish(j) \/ ReadError(j) \/ CloseConn(j) \/ Expire(j) \/ ReadForeign(j)
    BY <2>5 DEF Begin, CheckFinish, ReadError, CloseConn, Expire, ReadForeign, Goto, Alone, TypeOK
  <2> QED  BY <2>1, <2>2, <2>3, <2>4, <2>5 DEF ReceiverStep
<1> QED  BY <1>1, <1>2 DEF Next, Receiving

LEMMA StepInv == IInv /\ [Next]_vars => IInv'
<1> SUFFICES ASSUME IInv, [Next]_vars PROVE IInv'
  OBVIOUS
<1>1. CASE Next
  <2>1. TaskStep \/ Receiving
    BY <1>1 DEF Next, Receiving
  <2>2. TypeOK' /\ Counted' /\ Recorded'
    BY <2>1, TaskType, ReceivingType, TaskCounts, ReceivingCounts DEF IInv
  <2>3. OnTheWire' /\ Replied' /\ Alone'
    BY <1>1, WireKept, RepliedKept, AloneKept DEF IInv
  <2>4. Reported' /\ ReportedWasSent' /\ NoPanic'
    BY <1>1, ReportKept DEF IInv
  <2> QED  BY <2>2, <2>3, <2>4 DEF IInv
<1>2. CASE UNCHANGED vars
  BY <1>2 DEF IInv, TypeOK, Counted, Recorded, OnTheWire, Replied, Incoming, Reported, Alone,
              ReportedWasSent, NoPanic, vars, taskVars, recvVars
<1> QED  BY <1>1, <1>2

LEMMA Invariance == Spec => []IInv
BY InitInv, StepInv, PTL DEF Spec
-----------------------------------------------------------------------------
(* The theorems *)

\* Every variable of the ping of a point keeps its type.
THEOREM TypeCorrect == Spec => []TypeOK
<1>1. IInv => TypeOK
  BY DEF IInv
<1> QED  BY <1>1, Invariance, PTL

\* What task reports was asked for, in this period or an earlier one.
THEOREM ReportedWasSentCorrect == Spec => []ReportedWasSent
<1>1. IInv => ReportedWasSent
  BY DEF IInv
<1> QED  BY <1>1, Invariance, PTL

\* Neither the missing record of a last packet nor too many valid ones make
\* the agent panic, unless stray replies fill the map.
THEOREM NoPanicCorrect == Spec => []NoPanic
<1>1. IInv => NoPanic
  BY DEF IInv
<1> QED  BY <1>1, Invariance, PTL

\* The first reply to a packet that is stored is kept: repetitions are dropped, and
\* only the sender's own record may replace it.
THEOREM FirstReplyKeptCorrect == Spec => FirstReplyKept
<1>1. ASSUME IInv, [Next]_vars, NEW k \in Periods, NEW s \in Keys,
             recv[k][s].valid, recv'[k][s] # recv[k][s]
      PROVE  ~recv'[k][s].valid
  <2>1. CASE Store
    <3>1. period \in Periods /\ ~SentRecord(period).valid
      BY <1>1, SentType DEF IInv, TypeOK
    <3> QED  BY <1>1, <2>1, <3>1 DEF Store, IInv, TypeOK
  <2>2. ASSUME NEW j \in Periods, StoreReply(j) PROVE FALSE
    BY <1>1, <2>2 DEF StoreReply, IInv, Alone, TypeOK
  <2>3. (UNCHANGED recv) \/ Store \/ \E j \in Periods : StoreReply(j)
    BY <1>1 DEF Next, vars, TaskStep, Start, Write, Poll, Collect, recvVars, ReceiverStep, Begin, CheckFinish,
                ReadError, LoadRecord, CloseConn, Expire, ReadForeign, Read
  <2> QED  BY <1>1, <2>1, <2>2, <2>3
<1>2. IInv /\ [Next]_vars
        => [\A k \in Periods : \A s \in Keys :
              recv[k][s].valid /\ recv'[k][s] # recv[k][s] => ~recv'[k][s].valid]_vars
  BY <1>1
<1> QED  BY <1>2, Invariance, PTL DEF Spec, FirstReplyKept
=============================================================================
