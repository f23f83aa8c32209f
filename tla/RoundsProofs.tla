---------------------------- MODULE RoundsProofs ----------------------------
(***************************************************************************)
(* Theorems about Rounds: with one traceIP goroutine, as the agent starts  *)
(* it, every result that was found is kept, but for what faults of the     *)
(* file system and of tar cost, for every number of points, rounds, faults *)
(* and places in the queue.                                                *)
(***************************************************************************)
EXTENDS Rounds, WellFoundedInduction, TLAPS

\* StartTrace starts one traceIP.
OneTracer == \A v, w \in Tracers : v = w

\* The order in which StartTrace queues.
Before(a, b) == a[1] < b[1] \/ (a[1] = b[1] /\ a[2] < b[2])

\* A task that has been queued and not yet saved or dropped.
Working(w) == wpc[w] # "idle"

\* Tasks are queued, taken and saved in their order, and none is older than a
\* directory.
QueueInOrder ==
  /\ \A i \in DOMAIN queue : Id(queue[i]) \in Asked
  /\ \A i, j \in DOMAIN queue : i < j => Before(Id(queue[i]), Id(queue[j]))
  /\ \A w \in Tracers : Working(w) =>
       /\ Id(task[w]) \in Asked
       /\ \A i \in DOMAIN queue : Before(Id(task[w]), Id(queue[i]))

DirsInOrder ==
  /\ \A r \in dirs : r <= round
  /\ \A r \in dirs, i \in DOMAIN queue : r <= queue[i].round
  /\ \A r \in dirs, w \in Tracers : Working(w) => r <= task[w].round

\* What is packed is older than all that is to come, and is packed once.
ZipInOrder ==
  /\ zpc = "zip" =>
       /\ listed \subseteq dirs
       /\ listed # {} => maxCnt \in dirs
       /\ maxCnt <= round
       /\ \A i \in DOMAIN queue : maxCnt <= queue[i].round
       /\ \A w \in Tracers : Working(w) => maxCnt <= task[w].round
  /\ \A r \in Rounds : archives[r] # {} =>
       /\ r \notin dirs
       /\ r < round
       /\ \A i \in DOMAIN queue : r < queue[i].round
       /\ \A w \in Tracers : Working(w) => r < task[w].round

FilesOpen ==
  /\ \A w \in Tracers : wpc[w] = "write" => ~stale[w]
  /\ mpc \in {"ping", "report", "queue"} => round < MaxRounds

IInv == TypeOK /\ FilesOpen /\ QueueInOrder /\ DirsInOrder /\ ZipInOrder

USE PointsAssumption, TTLAssumption, QueueAssumption, RoundsAssumption, FaultsAssumption, OwnAssumption, NoTaskAssumption
    DEF Points, Rounds, DB, Targets
-----------------------------------------------------------------------------
(* Sequences and numbers *)

\* A finite set of rounds has a highest one.
LEMMA HighestIsMax ==
  ASSUME NEW S \in SUBSET Rounds, S # {}
  PROVE  Highest(S) \in S /\ \A q \in S : q <= Highest(S)
<1> DEFINE T == {k \in Nat : MaxRounds - k \in S}
<1>1. \A q \in S : MaxRounds - q \in Nat /\ MaxRounds - (MaxRounds - q) = q
  OBVIOUS
<1>2. T \subseteq Nat /\ T # {}
  BY <1>1
<1>3. IsWellFoundedOn(OpToRel(<, Nat), Nat)
  BY NatLessThanWellFounded
<1>4. PICK t \in T : \A y \in T : <<y, t>> \notin OpToRel(<, Nat)
  BY <1>2, <1>3, WFMin
<1>5. \A y \in T : ~(y < t)
  BY <1>4 DEF OpToRel
<1>6. \A q \in S : q <= MaxRounds - t
  <2> SUFFICES ASSUME NEW q \in S PROVE q <= MaxRounds - t
    OBVIOUS
  <2>1. MaxRounds - q \in T
    BY <1>1
  <2>2. ~(MaxRounds - q < t)
    BY <2>1, <1>5
  <2>. QED BY <2>2
<1>. QED BY <1>6 DEF Highest

LEMMA Appended ==
  ASSUME NEW q \in Seq(Task), NEW e \in Task
  PROVE  /\ Append(q, e) \in Seq(Task)
         /\ \A i \in DOMAIN Append(q, e) :
              \/ i \in DOMAIN q /\ Append(q, e)[i] = q[i]
              \/ i = Len(q) + 1 /\ Append(q, e)[i] = e
         /\ \A i \in DOMAIN q : i \in DOMAIN Append(q, e) /\ Append(q, e)[i] = q[i]
         /\ Len(q) + 1 \in DOMAIN Append(q, e) /\ Append(q, e)[Len(q) + 1] = e
         /\ \A i \in DOMAIN q : i < Len(q) + 1
  OBVIOUS

LEMMA Taken ==
  ASSUME NEW q \in Seq(Task), q # <<>>
  PROVE  /\ 1 \in DOMAIN q /\ Head(q) = q[1] /\ Head(q) \in Task
         /\ Tail(q) \in Seq(Task)
         /\ \A i \in DOMAIN Tail(q) : i + 1 \in DOMAIN q /\ Tail(q)[i] = q[i + 1]
         /\ \A i \in DOMAIN q \ {1} : i - 1 \in DOMAIN Tail(q) /\ q[i] = Tail(q)[i - 1]
  OBVIOUS
-----------------------------------------------------------------------------
(* Types *)

LEMMA TaskType ==
  /\ \A r \in Rounds, p \in Points, ttl \in Nat :
       [round |-> r, point |-> p, ttl |-> ttl] \in Task
  /\ \A t \in Task : t.round \in Rounds /\ t.point \in Points
  BY DEF Task

LEMMA MainStepType ==
  ASSUME TypeOK, FilesOpen, MainStep
  PROVE  TypeOK' /\ FilesOpen'
<1> USE DEF TypeOK, FilesOpen, traceVars, fileVars, zipVars
<1>1. CASE StartRound
  BY <1>1 DEF StartRound
<1>2. ASSUME NEW t \in Targets, Ping(t) PROVE TypeOK' /\ FilesOpen'
  <2>1. TTLInfo' \in [Points -> Nat \cup {-1}]
    <3>1. CASE UNCHANGED TTLInfo
      BY <3>1
    <3>2. ASSUME NEW e \in TTLs \cup {-1}, t # DB, TTLInfo' = [TTLInfo EXCEPT ![t] = e]
          PROVE  TTLInfo' \in [Points -> Nat \cup {-1}]
      BY <3>2
    <3>. QED BY <1>2, <3>1, <3>2 DEF Ping
  <2>2. toPing' \in [Targets -> Nat]
    BY <1>2 DEF Ping
  <2>. QED BY <1>2, <2>1, <2>2 DEF Ping
<1>3. CASE PingsDone \/ Reported \/ NotReported
  <2>1. CASE PingsDone
    BY <2>1 DEF PingsDone, Pinged
  <2>2. CASE Reported
    BY <2>2 DEF Reported
  <2>3. CASE NotReported
    BY <2>3 DEF NotReported
  <2>. QED BY <1>3, <2>1, <2>2, <2>3
<1>4. CASE Enqueue
  <2>0. round \in Rounds /\ idx \in Points
    BY <1>4 DEF Enqueue
  <2>1. TTLInfo[idx] \in Nat \cup {-1}
    BY <2>0
  <2>5. Estimate(TTLInfo[idx]) \in Nat
    BY <2>1 DEF Estimate
  <2>2. [round |-> round, point |-> idx, ttl |-> Estimate(TTLInfo[idx])] \in Task
    BY <2>0, <2>5, TaskType
  <2>3. queue' \in Seq(Task)
    BY <1>4, <2>2, Appended DEF Enqueue
  <2>4. idx' \in 1..(NumPoints + 1) /\ round < MaxRounds
    BY <1>4, <2>0 DEF Enqueue
  <2>6. UNCHANGED <<mixture, round, mpc, copies, toPing, TTLInfo, traceVars, fileVars, zipVars>>
    BY <1>4 DEF Enqueue
  <2>. QED BY <2>3, <2>4, <2>6
<1>5. CASE SkipOwn
  BY <1>5 DEF SkipOwn
<1>6. CASE EndRound
  BY <1>6 DEF EndRound
<1>. QED BY <1>1, <1>2, <1>3, <1>4, <1>5, <1>6 DEF MainStep

LEMMA TracerStepType ==
  ASSUME TypeOK, NEW w \in Tracers, TracerStep(w)
  PROVE  TypeOK'
<1> USE DEF TypeOK, mainVars, fileVars, zipVars
<1>1. CASE Take(w)
  <2>1. Head(queue) \in Task /\ Tail(queue) \in Seq(Task)
    BY <1>1, Taken DEF Take
  <2>. QED BY <1>1, <2>1 DEF Take
<1>2. CASE TraceNothing(w)
  BY <1>2 DEF TraceNothing
<1>3. CASE TraceHops(w)
  BY <1>3 DEF TraceHops
<1>4. CASE OpenFile(w)
  <2>1. RoundOf(task[w]) \in Rounds
    BY <1>4, TaskType DEF OpenFile, RoundOf
  <2>. QED BY <1>4, <2>1 DEF OpenFile
<1>5. CASE WriteFile(w)
  <2>1. task[w] \in Task
    BY <1>5 DEF WriteFile
  <2>2. task[w].round \in Rounds /\ task[w].point \in Points
    BY <2>1, TaskType
  <2>3. files' \in [Rounds -> SUBSET Points]
    <3>1. \/ files' = files
          \/ files' = [files EXCEPT ![task[w].round] = files[task[w].round] \cup {task[w].point}]
      BY <1>5 DEF WriteFile, RoundOf
    <3>2. files[task[w].round] \cup {task[w].point} \in SUBSET Points
      BY <2>2
    <3>3. ASSUME NEW f \in [Rounds -> SUBSET Points], NEW r \in Rounds, NEW S \in SUBSET Points
          PROVE  [f EXCEPT ![r] = S] \in [Rounds -> SUBSET Points]
      OBVIOUS
    <3>. QED BY <2>2, <3>1, <3>2, <3>3
  <2>. QED BY <1>5, <2>3 DEF WriteFile, Unlocked
<1>6. CASE OpenFails(w)
  <2>1. RoundOf(task[w]) \in Rounds
    BY <1>6, TaskType DEF OpenFails, RoundOf
  <2>2. dirs' \subseteq Rounds /\ faults' \in 0..MaxFaults
    BY <1>6, <2>1 DEF OpenFails
  <2>. QED BY <1>6, <2>2 DEF OpenFails
<1>7. CASE WriteFails(w)
  <2>1. faults' \in 0..MaxFaults
    BY <1>7 DEF WriteFails
  <2>. QED BY <1>7, <2>1 DEF WriteFails, Unlocked
<1>. QED BY <1>1, <1>2, <1>3, <1>4, <1>5, <1>6, <1>7 DEF TracerStep

LEMMA ZipStepType ==
  ASSUME TypeOK, ZipStep
  PROVE  TypeOK'
<1> USE DEF TypeOK, mainVars, traceVars, fileVars
<1>1. CASE GiveUp
  BY <1>1 DEF GiveUp
<1>2. CASE ListDirs
  <2>1. Highest({}) = 0
    BY DEF Highest
  <2>2. dirs # {} => Highest(dirs) \in Rounds
    BY HighestIsMax
  <2>3. Highest(dirs) \in Nat
    <3>1. CASE dirs = {}
      BY <2>1, <3>1
    <3>2. CASE dirs # {}
      BY <2>2, <3>2
    <3>. QED BY <3>1, <3>2
  <2>. QED BY <1>2, <2>3 DEF ListDirs
<1>3. CASE ZipDone
  BY <1>3 DEF ZipDone
<1>4. ASSUME NEW r \in Rounds, Skip(r) PROVE TypeOK'
  BY <1>4 DEF Skip
<1>6. ASSUME NEW r \in Rounds, PackFails(r) PROVE TypeOK'
  <2>1. faults' \in 0..MaxFaults /\ archives' \in [Rounds -> SUBSET Points]
    BY <1>6 DEF PackFails
  <2>2. files' \in [Rounds -> SUBSET Points]
    BY <1>6 DEF PackFails
  <2>. QED BY <1>6, <2>1, <2>2 DEF PackFails
<1>5. ASSUME NEW r \in Rounds, Pack(r) PROVE TypeOK'
  BY <1>5 DEF Pack
<1>. QED BY <1>1, <1>2, <1>3, <1>4, <1>5, <1>6 DEF ZipStep
-----------------------------------------------------------------------------
(* Order *)

\* A task that was asked for has a round so far, and its identity.
LEMMA AskedRound ==
  ASSUME TypeOK
  PROVE  /\ \A t \in Task : Id(t) \in Asked => t.round <= round
         /\ \A a, b \in Task : Before(Id(a), Id(b)) => a.round <= b.round
<1>1. \A t \in Task : t.round \in Nat /\ Id(t)[1] = t.round
  BY TaskType DEF Id
<1>2. \A t \in Asked : t[1] <= round
  BY DEF TypeOK, Asked
<1>. QED BY <1>1, <1>2 DEF Before

\* Steps of StartTrace that queue nothing.
LEMMA MainStepAsks ==
  ASSUME TypeOK, FilesOpen, MainStep, ~Enqueue
  PROVE  Asked' = Asked /\ round <= round' /\ queue' = queue
<1> USE DEF TypeOK, Asked
<1>1. CASE StartRound
  BY <1>1 DEF StartRound
<1>2. ASSUME NEW t \in Targets, Ping(t) PROVE Asked' = Asked /\ round <= round' /\ queue' = queue
  BY <1>2 DEF Ping
<1>3. CASE PingsDone \/ Reported \/ NotReported
  BY <1>3 DEF PingsDone, Pinged, Reported, NotReported
<1>4. CASE SkipOwn
  BY <1>4 DEF SkipOwn
<1>5. CASE EndRound
  BY <1>5 DEF EndRound
<1>. QED BY <1>1, <1>2, <1>3, <1>4, <1>5 DEF MainStep

LEMMA MainStepOrder ==
  ASSUME IInv, MainStep, ~Enqueue
  PROVE  QueueInOrder' /\ DirsInOrder' /\ ZipInOrder'
<1>1. Asked' = Asked /\ round <= round' /\ queue' = queue
  BY MainStepAsks DEF IInv
<1>2. UNCHANGED <<traceVars, fileVars, zipVars>>
  BY DEF MainStep, StartRound, Ping, PingsDone, Pinged, Reported, NotReported, SkipOwn, EndRound
<1>3. round' \in Nat /\ round \in Nat
  BY MainStepType DEF IInv, TypeOK
<1>4. QueueInOrder'
  BY <1>1, <1>2 DEF IInv, QueueInOrder, Working, traceVars
<1>5. DirsInOrder'
  <2>1. \A r \in dirs : r <= round'
    BY <1>1, <1>3 DEF IInv, DirsInOrder, TypeOK
  <2>. QED BY <1>1, <1>2, <2>1 DEF IInv, DirsInOrder, Working, traceVars, fileVars
<1>6. ZipInOrder'
  <2>1. maxCnt <= round => maxCnt <= round'
    BY <1>1, <1>3 DEF IInv, TypeOK
  <2>2. \A r \in Rounds : r < round => r < round'
    BY <1>1, <1>3
  <2>. QED BY <1>1, <1>2, <2>1, <2>2 DEF IInv, ZipInOrder, Working, traceVars, fileVars, zipVars
<1>. QED BY <1>4, <1>5, <1>6

\* The task that is queued is later than all others, and of the present round.
LEMMA EnqueueOrder ==
  ASSUME IInv, Enqueue
  PROVE  QueueInOrder' /\ DirsInOrder' /\ ZipInOrder'
<1> DEFINE e == [round |-> round, point |-> idx, ttl |-> Estimate(TTLInfo[idx])]
<1>0. /\ round \in Rounds /\ idx \in Points \ Own /\ mpc = "queue" /\ mpc' = mpc /\ round' = round
      /\ idx' = idx + 1 /\ queue' = Append(queue, e)
      /\ UNCHANGED <<traceVars, fileVars, zipVars>>
  BY DEF Enqueue, IInv, FilesOpen, TypeOK
<1>1. e \in Task /\ e.round = round /\ Id(e) = <<round, idx>>
  <2>1. TTLInfo[idx] \in Nat \cup {-1}
    BY <1>0 DEF IInv, TypeOK
  <2>2. Estimate(TTLInfo[idx]) \in Nat
    BY <2>1 DEF Estimate
  <2>. QED BY <1>0, <2>2, TaskType DEF Id
<1> HIDE DEF e
<1>2. Asked' = Asked \cup {Id(e)} /\ \A t \in Asked : Before(t, Id(e))
  BY <1>0, <1>1 DEF Asked, Before, IInv, TypeOK
<1>3. /\ \A i \in DOMAIN queue' : \/ i \in DOMAIN queue /\ queue'[i] = queue[i]
                                  \/ i = Len(queue) + 1 /\ queue'[i] = e
      /\ \A i \in DOMAIN queue : i < Len(queue) + 1
      /\ DOMAIN queue' \subseteq Nat
  BY <1>0, <1>1, Appended DEF IInv, TypeOK
<1>4. QueueInOrder'
  <2>1. \A i \in DOMAIN queue' : Id(queue'[i]) \in Asked'
    BY <1>2, <1>3 DEF IInv, QueueInOrder
  <2>2. \A i, j \in DOMAIN queue' : i < j => Before(Id(queue'[i]), Id(queue'[j]))
    <3> SUFFICES ASSUME NEW i \in DOMAIN queue', NEW j \in DOMAIN queue', i < j
                 PROVE  Before(Id(queue'[i]), Id(queue'[j]))
      OBVIOUS
    <3>1. i \in DOMAIN queue /\ queue'[i] = queue[i]
      BY <1>3
    <3>2. CASE j \in DOMAIN queue /\ queue'[j] = queue[j]
      BY <3>1, <3>2 DEF IInv, QueueInOrder
    <3>3. CASE queue'[j] = e
      BY <1>2, <3>1, <3>3 DEF IInv, QueueInOrder
    <3>. QED BY <1>3, <3>2, <3>3
  <2>3. \A w \in Tracers : Working(w) =>
          /\ Id(task[w]) \in Asked'
          /\ \A i \in DOMAIN queue' : Before(Id(task[w]), Id(queue'[i]))
    BY <1>2, <1>3 DEF IInv, QueueInOrder
  <2>. QED BY <1>0, <2>1, <2>2, <2>3 DEF QueueInOrder, Working, traceVars
<1>5. DirsInOrder'
  BY <1>0, <1>1, <1>3 DEF IInv, DirsInOrder, Working, traceVars, fileVars
<1>6. ZipInOrder'
  BY <1>0, <1>1, <1>3 DEF IInv, ZipInOrder, Working, traceVars, fileVars, zipVars
<1>. QED BY <1>4, <1>5, <1>6

\* What a traceIP takes and saves comes before all that is queued.
LEMMA TracerStepOrder ==
  ASSUME OneTracer, IInv, NEW w \in Tracers, TracerStep(w)
  PROVE  FilesOpen' /\ QueueInOrder' /\ DirsInOrder' /\ ZipInOrder'
<1>0. /\ \A v \in Tracers : v = w
      /\ UNCHANGED <<mainVars, zipVars>> /\ Asked' = Asked
  BY DEF OneTracer, TracerStep, Take, TraceNothing, TraceHops, OpenFile, WriteFile, OpenFails,
         WriteFails, Asked, mainVars
<1>1. CASE Take(w)
  <2>1. /\ queue # <<>> /\ queue' = Tail(queue) /\ task'[w] = Head(queue) /\ UNCHANGED fileVars
        /\ wpc'[w] = "trace"
    <3>1. task \in [Tracers -> Task \cup {NoTask}] /\ wpc \in [Tracers -> {"idle", "trace", "save", "write"}]
      BY DEF IInv, TypeOK
    <3>. QED BY <1>1, <3>1 DEF Take
  <2>2. /\ 1 \in DOMAIN queue /\ task'[w] = queue[1]
        /\ \A i \in DOMAIN queue' : i \in Nat /\ i + 1 \in DOMAIN queue /\ queue'[i] = queue[i + 1] /\ 1 < i + 1
    BY <2>1, Taken DEF IInv, TypeOK
  <2>3. QueueInOrder'
    <3>1. \A i, j \in DOMAIN queue' : i < j => i + 1 < j + 1
      BY <2>2
    <3>. QED BY <1>0, <2>1, <2>2, <3>1 DEF IInv, QueueInOrder, Working
  <2>4. DirsInOrder'
    BY <1>0, <2>1, <2>2 DEF IInv, DirsInOrder, Working, mainVars, fileVars
  <2>5. ZipInOrder'
    BY <1>0, <2>1, <2>2 DEF IInv, ZipInOrder, Working, mainVars, fileVars, zipVars
  <2>6. FilesOpen'
    BY <1>0, <2>1 DEF IInv, FilesOpen, mainVars
  <2>. QED BY <2>3, <2>4, <2>5, <2>6
<1>2. CASE TraceNothing(w) \/ TraceHops(w) \/ WriteFile(w) \/ WriteFails(w)
  <2>1. /\ UNCHANGED <<queue, dirs, archives, stale>>
        /\ Working(w)' => Working(w) /\ task'[w] = task[w]
        /\ wpc'[w] # "write"
    BY <1>2 DEF TraceNothing, TraceHops, WriteFile, WriteFails, Working, IInv, TypeOK, fileVars
  <2>2. QueueInOrder'
    BY <1>0, <2>1 DEF IInv, QueueInOrder, Working
  <2>3. DirsInOrder'
    BY <1>0, <2>1 DEF IInv, DirsInOrder, Working, mainVars
  <2>4. ZipInOrder'
    BY <1>0, <2>1 DEF IInv, ZipInOrder, Working, mainVars, zipVars
  <2>5. FilesOpen'
    BY <1>0, <2>1 DEF IInv, FilesOpen, mainVars
  <2>. QED BY <2>2, <2>3, <2>4, <2>5
<1>3. CASE OpenFile(w) \/ OpenFails(w)
  <2>1. /\ UNCHANGED <<queue, archives>> /\ Working(w) /\ (Working(w)' => task'[w] = task[w])
        /\ dirs \subseteq dirs' /\ dirs' \subseteq dirs \cup {task[w].round}
        /\ wpc'[w] = "write" => stale'[w] = FALSE
        /\ task[w] \in Task
    BY <1>3 DEF OpenFile, OpenFails, Working, RoundOf, IInv, TypeOK
  <2>2. /\ task[w].round <= round
        /\ \A i \in DOMAIN queue : task[w].round <= queue[i].round
        /\ task[w].round \in Rounds
        /\ task[w].round <= task[w].round
    <3>1. \A i \in DOMAIN queue : queue[i] \in Task
      BY DEF IInv, TypeOK
    <3>2. task[w].round \in Rounds
      BY <2>1, TaskType
    <3>. QED BY <2>1, <3>1, <3>2, AskedRound DEF IInv, QueueInOrder
  <2>3. QueueInOrder'
    BY <1>0, <2>1 DEF IInv, QueueInOrder, Working
  <2>4. DirsInOrder'
    BY <1>0, <2>1, <2>2 DEF IInv, DirsInOrder, Working, mainVars
  <2>5. archives[task[w].round] = {}
    BY <2>1, <2>2 DEF IInv, ZipInOrder
  <2>6. ZipInOrder'
    BY <1>0, <2>1, <2>2, <2>5 DEF IInv, ZipInOrder, Working, mainVars, zipVars
  <2>7. FilesOpen'
    BY <1>0, <2>1 DEF IInv, FilesOpen, mainVars
  <2>. QED BY <2>3, <2>4, <2>6, <2>7
<1>. QED BY <1>1, <1>2, <1>3 DEF TracerStep

\* What is packed is older than all tasks: no open file is removed.
LEMMA PackOld ==
  ASSUME IInv, NEW r \in Rounds, Pack(r)
  PROVE  /\ r \in dirs /\ archives[r] = {} /\ r < round
         /\ \A i \in DOMAIN queue : r < queue[i].round
         /\ \A w \in Tracers : Working(w) => r < task[w].round
<1>1. zpc = "zip" /\ r \in listed /\ r < maxCnt - 1
  BY DEF Pack, Expired, RemainCnt
<1>2. /\ r \in dirs /\ maxCnt <= round /\ maxCnt \in Nat /\ round \in Nat
      /\ \A i \in DOMAIN queue : maxCnt <= queue[i].round
      /\ \A w \in Tracers : Working(w) => maxCnt <= task[w].round
  BY <1>1 DEF IInv, ZipInOrder, TypeOK
<1>3. /\ \A i \in DOMAIN queue : queue[i].round \in Nat
      /\ \A w \in Tracers : Working(w) => task[w].round \in Nat
  <2>1. /\ \A i \in DOMAIN queue : queue[i] \in Task
        /\ \A w \in Tracers : Working(w) => task[w] \in Task
    BY DEF IInv, TypeOK, Working
  <2>. QED BY <2>1, TaskType
<1>4. archives[r] = {}
  BY <1>2 DEF IInv, ZipInOrder
<1>. QED BY <1>1, <1>2, <1>3, <1>4

LEMMA ZipStepOrder ==
  ASSUME IInv, ZipStep
  PROVE  FilesOpen' /\ QueueInOrder' /\ DirsInOrder' /\ ZipInOrder'
<1>0. UNCHANGED <<mainVars, queue, wpc, task>> /\ Asked' = Asked
  BY DEF ZipStep, GiveUp, ListDirs, ZipDone, Skip, Pack, PackFails, traceVars, Asked, mainVars
<1>1. QueueInOrder'
  BY <1>0 DEF IInv, QueueInOrder, Working
<1>2. CASE GiveUp \/ ZipDone \/ \E r \in Rounds : Skip(r) \/ PackFails(r)
  <2>1. /\ UNCHANGED <<stale, dirs>> /\ listed' \subseteq listed
        /\ zpc' = "zip" => zpc = "zip" /\ maxCnt' = maxCnt
        /\ \A r \in Rounds : archives'[r] # {} => archives[r] # {}
    BY <1>2 DEF GiveUp, ZipDone, Skip, PackFails, traceVars, fileVars, IInv, TypeOK
  <2>. QED BY <1>0, <1>1, <2>1 DEF IInv, FilesOpen, DirsInOrder, ZipInOrder, Working, mainVars
<1>3. CASE ListDirs
  <2>1. UNCHANGED <<stale, dirs, archives>> /\ listed' = dirs /\ maxCnt' = Highest(dirs)
    BY <1>3 DEF ListDirs, traceVars, fileVars
  <2>2. \/ Highest(dirs) = 0
        \/ Highest(dirs) \in dirs
    BY HighestIsMax DEF Highest, IInv, TypeOK
  <2>3. /\ Highest(dirs) <= round
        /\ \A i \in DOMAIN queue : Highest(dirs) <= queue[i].round
        /\ \A w \in Tracers : Working(w) => Highest(dirs) <= task[w].round
    <3>1. CASE Highest(dirs) = 0
      BY <3>1, TaskType DEF IInv, TypeOK, Working
    <3>2. CASE Highest(dirs) \in dirs
      BY <3>2 DEF IInv, DirsInOrder
    <3>. QED BY <2>2, <3>1, <3>2
  <2>4. dirs # {} => Highest(dirs) \in dirs
    BY HighestIsMax DEF IInv, TypeOK
  <2>. QED BY <1>0, <1>1, <2>1, <2>3, <2>4 DEF IInv, FilesOpen, DirsInOrder, ZipInOrder, Working, mainVars
<1>4. ASSUME NEW r \in Rounds, Pack(r)
      PROVE  FilesOpen' /\ DirsInOrder' /\ ZipInOrder'
  <2>1. /\ dirs' = dirs \ {r} /\ listed' = listed \ {r} /\ zpc' = zpc /\ maxCnt' = maxCnt
        /\ archives' = [archives EXCEPT ![r] = files[r]]
        /\ stale' = [w \in Tracers |-> stale[w] \/ (wpc[w] = "write" /\ RoundOf(task[w]) = r)]
    BY <1>4 DEF Pack
  <2>2. /\ r < round
        /\ \A i \in DOMAIN queue : r < queue[i].round
        /\ \A w \in Tracers : Working(w) => r < task[w].round
    BY <1>4, PackOld
  <2>3. FilesOpen'
    <3>1. \A w \in Tracers : wpc[w] = "write" => task[w].round # r
      <4>1. \A w \in Tracers : Working(w) => task[w].round \in Nat
        BY TaskType DEF IInv, TypeOK, Working
      <4>. QED BY <2>2, <4>1 DEF Working
    <3>. QED BY <1>0, <2>1, <3>1 DEF IInv, FilesOpen, RoundOf, mainVars
  <2>4. DirsInOrder'
    BY <1>0, <2>1 DEF IInv, DirsInOrder, Working, mainVars
  <2>5. ZipInOrder'
    <3>1. ASSUME zpc' = "zip"
          PROVE  /\ listed' \subseteq dirs' /\ maxCnt' <= round'
                 /\ listed' # {} => maxCnt' \in dirs'
                 /\ \A i \in DOMAIN queue' : maxCnt' <= queue'[i].round
                 /\ \A w \in Tracers : Working(w)' => maxCnt' <= task'[w].round
      <4>1. maxCnt # r
        BY <1>4 DEF Pack, Expired, RemainCnt, IInv, TypeOK
      <4>. QED BY <1>0, <2>1, <3>1, <4>1 DEF IInv, ZipInOrder, Working, mainVars
    <3>2. ASSUME NEW s \in Rounds, archives'[s] # {}
          PROVE  /\ s \notin dirs' /\ s < round'
                 /\ \A i \in DOMAIN queue' : s < queue'[i].round
                 /\ \A w \in Tracers : Working(w)' => s < task'[w].round
      <4>1. CASE s = r
        BY <1>0, <2>1, <2>2, <4>1 DEF Working, mainVars
      <4>2. CASE s # r
        <5>1. archives[s] # {}
          BY <2>1, <3>2, <4>2 DEF IInv, TypeOK
        <5>. QED BY <1>0, <2>1, <5>1 DEF IInv, ZipInOrder, Working, mainVars
      <4>. QED BY <4>1, <4>2
    <3>. QED BY <3>1, <3>2 DEF ZipInOrder
  <2>. QED BY <2>3, <2>4, <2>5
<1>. QED BY <1>1, <1>2, <1>3, <1>4 DEF ZipStep

LEMMA Beginning == Init => IInv
<1> SUFFICES ASSUME Init PROVE IInv
  OBVIOUS
<1> USE DEF Init
<1>1. TypeOK
  <2>1. queue \in Seq(Task) /\ TTLInfo \in [Points -> Nat \cup {-1}]
    OBVIOUS
  <2>2. round \in 0..MaxRounds /\ idx \in 1..(NumPoints + 1) /\ maxCnt \in Nat
    OBVIOUS
  <2>3. files \in [Rounds -> SUBSET Points] /\ archives \in [Rounds -> SUBSET Points]
    OBVIOUS
  <2>4. mixture \in BOOLEAN /\ faults \in 0..MaxFaults
    OBVIOUS
  <2>. QED BY <2>1, <2>2, <2>3, <2>4 DEF TypeOK
<1>2. FilesOpen /\ QueueInOrder /\ DirsInOrder /\ ZipInOrder
  BY DEF FilesOpen, QueueInOrder, DirsInOrder, ZipInOrder, Working
<1>. QED BY <1>1, <1>2 DEF IInv

LEMMA Invariance == OneTracer /\ IInv /\ [Next]_vars => IInv'
<1> SUFFICES ASSUME OneTracer, IInv, [Next]_vars PROVE IInv'
  OBVIOUS
<1>1. CASE MainStep
  <2>1. TypeOK' /\ FilesOpen'
    BY <1>1, MainStepType DEF IInv
  <2>2. QueueInOrder' /\ DirsInOrder' /\ ZipInOrder'
    BY <1>1, MainStepOrder, EnqueueOrder
  <2>. QED BY <2>1, <2>2 DEF IInv
<1>2. ASSUME NEW w \in Tracers, TracerStep(w) PROVE IInv'
  BY <1>2, TracerStepType, TracerStepOrder DEF IInv
<1>3. CASE ZipStep
  BY <1>3, ZipStepType, ZipStepOrder DEF IInv
<1>4. CASE UNCHANGED vars
  <2>1. UNCHANGED <<mainVars, queue, traceVars, fileVars, zipVars>>
    BY <1>4 DEF vars
  <2>2. TypeOK' /\ FilesOpen'
    BY <2>1 DEF mainVars, traceVars, fileVars, zipVars, IInv, TypeOK, FilesOpen
  <2>3. QueueInOrder' /\ DirsInOrder'
    BY <2>1 DEF mainVars, traceVars, fileVars, IInv, QueueInOrder, DirsInOrder, Working, Asked
  <2>4. ZipInOrder'
    BY <2>1 DEF mainVars, traceVars, fileVars, zipVars, IInv, ZipInOrder, Working
  <2>. QED BY <2>2, <2>3, <2>4 DEF IInv
<1>. QED BY <1>1, <1>2, <1>3, <1>4 DEF Next

LEMMA InOrderIsSafe == IInv => RoundsInOrder
<1> SUFFICES ASSUME IInv, NEW t \in Pending, NEW r \in dirs PROVE r <= t[1]
  BY DEF RoundsInOrder
<1>1. ASSUME NEW i \in DOMAIN queue, t = Id(queue[i]) PROVE r <= t[1]
  BY <1>1 DEF IInv, DirsInOrder, Id
<1>2. ASSUME NEW w \in Tracers, wpc[w] \in {"trace", "save", "write"}, t = Id(task[w]) PROVE r <= t[1]
  BY <1>2 DEF IInv, DirsInOrder, Id, Working
<1>. QED BY <1>1, <1>2 DEF Pending, Queued, At

\* With one traceIP goroutine the rounds are traced and saved in order: when the
\* directory of a round exists, no older task is pending.
THEOREM RoundsInOrderCorrect == ASSUME OneTracer PROVE Spec => []RoundsInOrder
<1>1. IInv /\ [Next]_vars => IInv'
  BY Invariance
<1>. QED BY Beginning, <1>1, InOrderIsSafe, PTL DEF Spec

\* Every variable keeps its type; a file that is open has not been removed.
THEOREM TypeCorrect == ASSUME OneTracer PROVE Spec => []TypeOK
<1>1. IInv /\ [Next]_vars => IInv'
  BY Invariance
<1>2. IInv => TypeOK
  BY DEF IInv
<1>. QED BY Beginning, <1>1, <1>2, PTL DEF Spec

\* A directory, or a file in it, goes only by tar, and tar is told so only of rounds
\* that are two older than a directory there is.
LEMMA StaysUnlessOld ==
  ASSUME OneTracer, IInv, [Next]_vars, NEW r \in dirs, r \notin dirs' \/ ~(files[r] \subseteq files'[r])
  PROVE  \E q \in dirs : q >= r + 2
<1>1. \E s \in Rounds : Pack(s) \/ PackFails(s)
  <2>1. CASE MainStep
    BY <2>1 DEF MainStep, StartRound, Ping, PingsDone, Pinged, Reported, NotReported, Enqueue,
                SkipOwn, EndRound, fileVars
  <2>2. ASSUME NEW w \in Tracers, TracerStep(w) PROVE FALSE
    <3>1. dirs \subseteq dirs' /\ r \in Rounds
      BY <2>2 DEF TracerStep, Take, TraceNothing, TraceHops, OpenFile, WriteFile, OpenFails, WriteFails,
                  fileVars, IInv, TypeOK
    <3>2. CASE files' = files
      BY <3>1, <3>2
    <3>3. ASSUME NEW t, NEW p, files' = [files EXCEPT ![t] = files[t] \cup {p}] PROVE FALSE
      BY <3>1, <3>3 DEF IInv, TypeOK
    <3>. QED BY <2>2, <3>2, <3>3 DEF TracerStep, Take, TraceNothing, TraceHops, OpenFile, WriteFile,
                                     OpenFails, WriteFails, fileVars
  <2>3. CASE ZipStep
    BY <2>3 DEF ZipStep, GiveUp, ListDirs, ZipDone, Skip, fileVars
  <2>4. CASE UNCHANGED vars
    BY <2>4 DEF vars, fileVars
  <2>. QED BY <2>1, <2>2, <2>3, <2>4 DEF Next
<1>2. PICK s \in Rounds : Pack(s) \/ PackFails(s)
  BY <1>1
<1>3. s = r
  BY <1>2 DEF Pack, PackFails, IInv, TypeOK
<1>4. r < maxCnt - 1 /\ maxCnt \in dirs
  BY <1>2, <1>3 DEF Pack, PackFails, Expired, RemainCnt, IInv, ZipInOrder
<1>. QED BY <1>4 DEF IInv, TypeOK

\* With one traceIP goroutine no directory goes, and no file in it, before there is
\* one that is two rounds newer.
THEOREM LastRoundsStayCorrect == ASSUME OneTracer PROVE Spec => LastRoundsStay
<1>1. IInv /\ [Next]_vars => IInv'
  BY Invariance
<1>2. IInv /\ [Next]_vars =>
        [\A r \in dirs :
           (r \notin dirs' \/ ~(files[r] \subseteq files'[r])) => \E q \in dirs : q >= r + 2]_vars
  BY StaysUnlessOld
<1>. QED BY Beginning, <1>1, <1>2, PTL DEF Spec, LastRoundsStay
-----------------------------------------------------------------------------
(* Rounds implements RoundLog *)

\* The only traceIP is at one place.
LEMMA AtOne ==
  ASSUME OneTracer, NEW w \in Tracers, NEW P
  PROVE  /\ wpc[w] \in P => At(P) = {Id(task[w])}
         /\ wpc[w] \notin P => At(P) = {}
         /\ wpc'[w] \in P => At(P)' = {Id(task'[w])}
         /\ wpc'[w] \notin P => At(P)' = {}
  BY DEF OneTracer, At, Id

LEMMA BeforeIrreflexive == ASSUME TypeOK, NEW t \in Asked PROVE ~Before(t, t)
  BY DEF Asked, Before

\* The step keeps what the log speaks of.
Kept4 == Asked' = Asked /\ (Queued \cup At({"trace"}))' = Queued \cup At({"trace"})
         /\ At({"save", "write"})' = At({"save", "write"}) /\ Kept' = Kept /\ faults' = faults

LEMMA LogState ==
  /\ Log!logVars = <<Asked, Queued \cup At({"trace"}), At({"save", "write"}), Kept, faults>>
  /\ Kept4 => UNCHANGED Log!logVars
  BY DEF Log!logVars, Kept4

LEMMA MainStepMaps ==
  ASSUME IInv, MainStep
  PROVE  [Log!Next]_(Log!logVars)
<1>0. /\ UNCHANGED <<traceVars, fileVars>>
      /\ At({"trace"})' = At({"trace"}) /\ At({"save", "write"})' = At({"save", "write"}) /\ Kept' = Kept
  <2>1. UNCHANGED <<traceVars, fileVars>>
    BY DEF MainStep, StartRound, Ping, PingsDone, Pinged, Reported, NotReported, Enqueue, SkipOwn,
         EndRound
  <2>. QED BY <2>1 DEF traceVars, fileVars, At, Id, Kept
<1>5. faults' = faults
  BY <1>0 DEF fileVars
<1>1. CASE ~Enqueue
  <2>1. Asked' = Asked /\ queue' = queue
    BY <1>1, MainStepAsks DEF IInv
  <2>2. Kept4
    BY <1>0, <1>5, <2>1 DEF Kept4, Queued, Id
  <2>. QED BY <2>2, LogState
<1>2. CASE Enqueue
  <2> DEFINE e == [round |-> round, point |-> idx, ttl |-> Estimate(TTLInfo[idx])]
  <2>0. round \in Rounds /\ idx \in Points \ Own /\ mpc = "queue" /\ mpc' = mpc /\ round' = round
        /\ idx' = idx + 1 /\ queue' = Append(queue, e)
    BY <1>2 DEF Enqueue, IInv, FilesOpen, TypeOK
  <2>1. e \in Task /\ Id(e) = <<round, idx>>
    <3>1. TTLInfo[idx] \in Nat \cup {-1}
      BY <2>0 DEF IInv, TypeOK
    <3>2. Estimate(TTLInfo[idx]) \in Nat
      BY <3>1 DEF Estimate
    <3>. QED BY <2>0, <3>2, TaskType DEF Id
  <2> HIDE DEF e
  <2>2. PICK t \in TaskIds : t = <<round, idx>>
    BY <2>0 DEF TaskIds
  <2>3. Asked' = Asked \cup {t} /\ t \notin Asked
    BY <2>0, <2>2 DEF Asked, IInv, TypeOK
  <2>4. Queued' = Queued \cup {t}
    <3>1. queue \in Seq(Task)
      BY DEF IInv, TypeOK
    <3>2. \A i \in DOMAIN queue' : Id(queue'[i]) \in Queued \cup {t}
      BY <2>0, <2>1, <2>2, <3>1, Appended DEF Queued
    <3>3. \A i \in DOMAIN queue : Id(queue[i]) \in Queued'
      BY <2>0, <2>1, <3>1, Appended DEF Queued, Id
    <3>4. t \in Queued'
      BY <2>0, <2>1, <2>2, <3>1, Appended DEF Queued, Id
    <3>. QED BY <3>2, <3>3, <3>4 DEF Queued, Id
  <2>5. Log!Ask(t)
    BY <1>0, <1>5, <2>3, <2>4 DEF Log!Ask
  <2>. QED BY <2>5 DEF Log!Next
<1>. QED BY <1>1, <1>2

LEMMA TracerStepMaps ==
  ASSUME OneTracer, IInv, NEW w \in Tracers, TracerStep(w)
  PROVE  [Log!Next]_(Log!logVars)
<1>0. Asked' = Asked
  BY DEF TracerStep, Take, TraceNothing, TraceHops, OpenFile, WriteFile, OpenFails, WriteFails,
         Asked, mainVars
<1>1. CASE Take(w)
  <2>1. /\ queue # <<>> /\ queue' = Tail(queue) /\ task'[w] = Head(queue) /\ UNCHANGED fileVars
        /\ wpc[w] = "idle" /\ wpc'[w] = "trace" /\ queue \in Seq(Task)
    BY <1>1 DEF Take, IInv, TypeOK
  <2>2. /\ At({"trace"}) = {} /\ At({"trace"})' = {Id(task'[w])}
        /\ At({"save", "write"}) = {} /\ At({"save", "write"})' = {}
    BY <2>1, AtOne
  <2>3. Queued = Queued' \cup {Id(task'[w])}
    <3>1. \A i \in DOMAIN queue : Id(queue[i]) \in Queued' \cup {Id(task'[w])}
      <4> SUFFICES ASSUME NEW i \in DOMAIN queue PROVE Id(queue[i]) \in Queued' \cup {Id(task'[w])}
        OBVIOUS
      <4>1. CASE i = 1
        BY <2>1, <4>1, Taken
      <4>2. CASE i # 1
        <5>1. i - 1 \in DOMAIN queue' /\ queue[i] = queue'[i - 1]
          BY <2>1, <4>2, Taken
        <5>. QED BY <5>1 DEF Queued, Id
      <4>. QED BY <4>1, <4>2
    <3>2. Id(task'[w]) \in Queued
      BY <2>1, Taken DEF Queued
    <3>3. \A i \in DOMAIN queue' : Id(queue'[i]) \in Queued
      BY <2>1, Taken DEF Queued
    <3>. QED BY <3>1, <3>2, <3>3 DEF Queued, Id
  <2>4. Kept' = Kept /\ faults' = faults
    BY <2>1 DEF Kept, fileVars
  <2>5. Kept4
    BY <1>0, <2>2, <2>3, <2>4 DEF Kept4
  <2>. QED BY <2>5, LogState
<1>2. CASE TraceNothing(w) \/ TraceHops(w)
  <2>1. /\ UNCHANGED <<queue, fileVars>> /\ wpc[w] = "trace" /\ task[w] \in Task
        /\ \/ wpc'[w] = "idle"
           \/ wpc'[w] = "save" /\ task'[w] = task[w]
    BY <1>2 DEF TraceNothing, TraceHops, IInv, TypeOK
  <2>2. PICK t \in TaskIds : t = Id(task[w])
    BY <2>1, TaskType DEF TaskIds, Id
  <2>3. /\ At({"trace"}) = {t} /\ At({"trace"})' = {}
        /\ At({"save", "write"}) = {} /\ At({"save", "write"})' \in {{}, {t}}
    BY <2>1, <2>2, AtOne
  <2>4. t \notin Queued
    <3>1. t \in Asked /\ \A i \in DOMAIN queue : Before(t, Id(queue[i]))
      BY <2>1, <2>2 DEF IInv, QueueInOrder, Working
    <3>2. ~Before(t, t)
      BY <3>1, BeforeIrreflexive DEF IInv
    <3>. QED BY <3>1, <3>2 DEF Queued
  <2>5. Queued' = Queued /\ Kept' = Kept /\ faults' = faults
    BY <2>1 DEF Queued, Kept, Id, fileVars
  <2>6. Log!Trace(t)
    BY <1>0, <2>3, <2>4, <2>5 DEF Log!Trace
  <2>. QED BY <2>6 DEF Log!Next
<1>3. CASE OpenFile(w)
  <2>1. /\ UNCHANGED <<queue, files, archives, faults>> /\ wpc[w] = "save" /\ wpc'[w] = "write" /\ task'[w] = task[w]
    BY <1>3 DEF OpenFile, IInv, TypeOK
  <2>2. /\ At({"trace"}) = {} /\ At({"trace"})' = {}
        /\ At({"save", "write"}) = {Id(task[w])} /\ At({"save", "write"})' = {Id(task[w])}
    BY <2>1, AtOne
  <2>3. Queued' = Queued /\ Kept' = Kept
    BY <2>1 DEF Queued, Kept, Id
  <2>4. Kept4
    BY <1>0, <2>1, <2>2, <2>3 DEF Kept4
  <2>. QED BY <2>4, LogState
<1>4. CASE WriteFile(w)
  <2>1. /\ UNCHANGED <<queue, archives, faults>> /\ wpc[w] = "write" /\ wpc'[w] = "idle" /\ task[w] \in Task
        /\ ~stale[w]
        /\ files' = [files EXCEPT ![task[w].round] = files[task[w].round] \cup {task[w].point}]
    BY <1>4 DEF WriteFile, RoundOf, fileVars, IInv, TypeOK, FilesOpen
  <2>2. PICK t \in TaskIds : t = Id(task[w])
    BY <2>1, TaskType DEF TaskIds, Id
  <2>3. /\ At({"trace"}) = {} /\ At({"trace"})' = {}
        /\ At({"save", "write"}) = {t} /\ At({"save", "write"})' = {}
    BY <2>1, <2>2, AtOne
  <2>4. t[1] = task[w].round /\ t[2] = task[w].point /\ t[1] \in Rounds
    BY <2>1, <2>2, TaskType DEF Id
  <2>5. Kept' = Kept \cup {t}
    <3>1. \A r \in Rounds : files'[r] = IF r = t[1] THEN files[r] \cup {t[2]} ELSE files[r]
      BY <2>1, <2>4 DEF IInv, TypeOK
    <3>2. \A u \in TaskIds : u[1] \in Rounds /\ (u = t <=> u[1] = t[1] /\ u[2] = t[2])
      BY DEF TaskIds
    <3>3. \A u \in TaskIds :
             u[2] \in files'[u[1]] \cup archives'[u[1]] <=> u[2] \in files[u[1]] \cup archives[u[1]] \/ u = t
      <4> SUFFICES ASSUME NEW u \in TaskIds
                   PROVE  u[2] \in files'[u[1]] \cup archives[u[1]]
                            <=> u[2] \in files[u[1]] \cup archives[u[1]] \/ u = t
        BY <2>1
      <4>1. CASE u[1] = t[1]
        BY <3>1, <3>2, <4>1
      <4>2. CASE u[1] # t[1]
        BY <3>1, <3>2, <4>2
      <4>. QED BY <4>1, <4>2
    <3>. QED BY <2>2, <3>3 DEF Kept
  <2>6. Queued' = Queued
    BY <2>1 DEF Queued, Id
  <2>7. Log!Keep(t)
    BY <1>0, <2>1, <2>3, <2>5, <2>6 DEF Log!Keep
  <2>. QED BY <2>7 DEF Log!Next
<1>5. CASE OpenFails(w) \/ WriteFails(w)
  <2>1. /\ UNCHANGED <<queue, files, archives>> /\ wpc[w] \in {"save", "write"} /\ wpc'[w] = "idle"
        /\ faults' = faults + 1
    BY <1>5 DEF OpenFails, WriteFails, IInv, TypeOK
  <2>2. /\ At({"trace"}) = {} /\ At({"trace"})' = {}
        /\ At({"save", "write"}) = {Id(task[w])} /\ At({"save", "write"})' = {}
    BY <2>1, AtOne
  <2>3. Queued' = Queued /\ Kept' = Kept
    BY <2>1 DEF Queued, Kept, Id
  <2>4. Log!Fault
    BY <1>0, <2>1, <2>2, <2>3 DEF Log!Fault
  <2>. QED BY <2>4 DEF Log!Next
<1>. QED BY <1>1, <1>2, <1>3, <1>4, <1>5 DEF TracerStep

LEMMA ZipStepMaps ==
  ASSUME IInv, ZipStep
  PROVE  [Log!Next]_(Log!logVars)
<1>1. Asked' = Asked /\ Queued' = Queued /\ \A P : At(P)' = At(P)
  BY DEF ZipStep, GiveUp, ListDirs, ZipDone, Skip, Pack, PackFails, traceVars, mainVars, Asked, Queued, At, Id
<1>0. \A u \in TaskIds : u[1] \in Rounds
  BY DEF TaskIds
<1>2. CASE UNCHANGED fileVars
  <2>1. Kept' = Kept /\ faults' = faults
    BY <1>2 DEF fileVars, Kept
  <2>2. Kept4
    BY <1>1, <2>1 DEF Kept4
  <2>. QED BY <2>2, LogState
<1>3. ASSUME NEW r \in Rounds, Pack(r) PROVE [Log!Next]_(Log!logVars)
  <2>1. archives[r] = {} /\ faults' = faults
    BY <1>3, PackOld DEF Pack
  <2>2. \A q \in Rounds : files'[q] \cup archives'[q] = files[q] \cup archives[q]
    BY <1>3, <2>1 DEF Pack, IInv, TypeOK
  <2>3. Kept' = Kept
    BY <1>0, <2>2 DEF Kept
  <2>4. Kept4
    BY <1>1, <2>1, <2>3 DEF Kept4
  <2>. QED BY <2>4, LogState
<1>4. ASSUME NEW r \in Rounds, PackFails(r) PROVE [Log!Next]_(Log!logVars)
  <2>1. PICK rest \in SUBSET files[r] :
          files' = [files EXCEPT ![r] = rest] /\ archives' = [archives EXCEPT ![r] = {}]
    BY <1>4 DEF PackFails
  <2>2. /\ \A q \in Rounds \ {r} : files'[q] = files[q] /\ archives'[q] = archives[q]
        /\ files'[r] \subseteq files[r] /\ archives'[r] = {}
    BY <2>1 DEF IInv, TypeOK
  <2>3. Kept' \subseteq Kept /\ \A t \in Kept \ Kept' : t[1] = r
    BY <1>0, <2>2 DEF Kept
  <2>4. faults' = faults + 1
    BY <1>4 DEF PackFails
  <2>5. Log!Fault
    BY <1>1, <2>3, <2>4 DEF Log!Fault
  <2>. QED BY <2>5 DEF Log!Next
<1>. QED BY <1>2, <1>3, <1>4 DEF ZipStep, GiveUp, ListDirs, ZipDone, Skip

\* With one traceIP goroutine a destination is traced once in a round, and a
\* result that was found is written to the file of its round and stays there or
\* in the archive that replaces it; each fault costs results of one round only, at
\* the moment it happens.
THEOREM LogKeptCorrect == ASSUME OneTracer PROVE Spec => LogKept
<1>1. Init => Log!Init
  BY DEF Init, Log!Init, Asked, Queued, At, Kept, TaskIds
<1>2. IInv /\ [Next]_vars => IInv'
  BY Invariance
<1>3. IInv /\ [Next]_vars => [Log!Next]_(Log!logVars)
  <2> SUFFICES ASSUME IInv, [Next]_vars PROVE [Log!Next]_(Log!logVars)
    OBVIOUS
  <2>1. CASE UNCHANGED vars
    <3>1. Kept4
      BY <2>1 DEF vars, mainVars, traceVars, fileVars, Kept4, Asked, Queued, At, Id, Kept
    <3>. QED BY <3>1, LogState
  <2>. QED BY <2>1, MainStepMaps, TracerStepMaps, ZipStepMaps DEF Next
<1>. QED BY Beginning, <1>1, <1>2, <1>3, PTL DEF Spec, LogKept, Log!Spec
=============================================================================
