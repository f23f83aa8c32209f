------------------------------- MODULE Rounds -------------------------------
(***************************************************************************)
(* The rounds of the agent: the loop of StartTrace (measure/trace.go) that *)
(* pings every point (StartPing of measure/ping.go) and then queues every  *)
(* destination for the traceIP goroutines; these goroutines, which trace   *)
(* and save one file entry per task; and the files of                      *)
(* dataStore/storeFile/storeToFile.go, one directory per round, which the  *)
(* zipExpiredData goroutine packs into archives.                           *)
(*                                                                         *)
(* A ping of a point is one step here and the subject of PingTask; a trace *)
(* is one step here and the subject of Tracer; so is what StartPing does   *)
(* with the cells at its end, of which dao.Store is the subject of         *)
(* ResultStore and TableInsert.                                            *)
(*                                                                         *)
(* The file system and tar may fail.  SaveTraceData ignores every error,   *)
(* and a tar that failed may have removed files: such a fault is a step of *)
(* its own, and is counted.                                                *)
(***************************************************************************)
EXTENDS Integers, Sequences, FiniteSets

CONSTANTS
  NumPoints,   \* len(des): the points of the configuration
  Own,         \* the points whose address is cfg.Data.Hostname
  TTLs,        \* estimates of the number of hops that a ping may give
  QueueCap,    \* capacity of traceAllIpChan
  Tracers,     \* the traceIP goroutines
  MaxRounds,   \* bound of the model: rounds
  MaxFaults,   \* bound of the model: faults of the file system and of tar
  NoTask       \* what an idle traceIP works on

ASSUME PointsAssumption == NumPoints \in Nat \ {0}
ASSUME TTLAssumption    == TTLs \subseteq Nat
ASSUME QueueAssumption  == QueueCap \in Nat \ {0}
ASSUME RoundsAssumption == MaxRounds \in Nat
ASSUME FaultsAssumption == MaxFaults \in Nat

Points == 1..NumPoints
ASSUME OwnAssumption == Own \subseteq Points

Rounds == 0..(MaxRounds - 1)
DB     == 0          \* the BJ_DB copy of a point
Targets == Points \cup {DB}

Task == [round : Rounds, point : Points, ttl : Nat]
ASSUME NoTaskAssumption == NoTask \notin Task

VARIABLES
  mixture,   \* conf.Data.Mixture
  round,     \* roundCnt
  mpc,       \* where StartTrace stands; "hung" in a call that never returns,
             \* "down" when a panic has ended the agent
  copies,    \* BJ_DB entries in conf.Points
  toPing,    \* entries of conf.Points not yet pinged in this round
  TTLInfo,   \* the estimate of each point; 0 if there is none
  idx,       \* the next element of des to queue
  queue,     \* traceAllIpChan
  wpc,       \* where each traceIP stands
  task,      \* what it works on
  stale,     \* its open file has been removed
  lock,      \* traceFileLock is held
  rooted,    \* dataRootDir has been composed
  dirs,      \* directories of rounds
  files,     \* files[r]: the points saved in the directory of r
  archives,  \* archives[r]: the points saved in the archive of r, if it is whole
  faults,    \* faults so far
  zpc,       \* where zipExpiredData stands
  listed,    \* directories it has listed and not yet handled
  maxCnt     \* the highest round among those it listed

mainVars  == <<mixture, round, mpc, copies, toPing, TTLInfo, idx>>
traceVars == <<wpc, task, stale, lock>>
fileVars  == <<rooted, dirs, files, archives, faults>>
zipVars   == <<zpc, listed, maxCnt>>
vars == <<mainVars, queue, traceVars, fileVars, zipVars>>

\* A failed measurement counts as 64 hops.
Estimate(ttl) == IF ttl < 0 THEN 64 ELSE ttl

\* The round a task is saved under is the one it was queued in.
RoundOf_Current(t) == round
RoundOf(t)         == t.round

\* SaveTraceData unlocks when it returns.
Unlocked_Not == lock
Unlocked     == FALSE

\* Directories are packed that are older than the last ones.
RemainCnt == 1
Expired_Latest(r, max) == r <= max
Expired(r, max)        == r < max - RemainCnt

Highest(S) == IF S = {} THEN 0 ELSE CHOOSE r \in S : \A q \in S : q <= r
-----------------------------------------------------------------------------
Init ==
  /\ mixture \in BOOLEAN
  /\ round = 0
  /\ mpc = "start"
  /\ copies = 0
  /\ toPing = [t \in Targets |-> 0]
  /\ TTLInfo = [p \in Points |-> 0]
  /\ idx = 1
  /\ queue = <<>>
  /\ wpc = [w \in Tracers |-> "idle"]
  /\ task = [w \in Tracers |-> NoTask]
  /\ stale = [w \in Tracers |-> FALSE]
  /\ lock = FALSE
  /\ rooted = FALSE
  /\ dirs = {}
  /\ files = [r \in Rounds |-> {}]
  /\ archives = [r \in Rounds |-> {}]
  /\ faults = 0
  /\ zpc = "tick"
  /\ listed = {}
  /\ maxCnt = 0
-----------------------------------------------------------------------------
(* StartTrace and StartPing *)

\* A round starts: with Mixture, StartPing shuffles conf.Points, adds a copy of one
\* point for the database server, and writes the longer list back.
StartRound ==
  /\ mpc = "start" /\ round < MaxRounds
  /\ copies' = IF mixture THEN copies + 1 ELSE copies
  /\ toPing' = [t \in Targets |-> IF t = DB THEN copies' ELSE 1]
  /\ mpc' = "ping"
  /\ UNCHANGED <<mixture, round, TTLInfo, idx, queue, traceVars, fileVars, zipVars>>

\* One entry, in any order: no connection leaves the estimate alone, a failed
\* measurement may make it negative, and a measurement renews it.
Ping(t) ==
  /\ mpc = "ping" /\ toPing[t] > 0
  /\ toPing' = [toPing EXCEPT ![t] = @ - 1]
  /\ \/ UNCHANGED TTLInfo
     \/ \E e \in TTLs \cup {-1} : t # DB /\ TTLInfo' = [TTLInfo EXCEPT ![t] = e]
  /\ UNCHANGED <<mixture, round, mpc, copies, idx, queue, traceVars, fileVars, zipVars>>

\* The message has an entry for the copy of the database server too; without
\* Mixture there is no such copy, and its index is out of the range of conf.Points.
Pinged == mpc = "ping" /\ \A t \in Targets : toPing[t] = 0
PingsDone ==
  /\ Pinged
  /\ mpc' = IF mixture THEN "report" ELSE "down"
  /\ UNCHANGED <<mixture, round, copies, toPing, TTLInfo, idx, queue, traceVars, fileVars, zipVars>>

\* dao.Store and PushDataV3 return, whatever they came to, ...
Reported ==
  /\ mpc = "report"
  /\ mpc' = "queue"
  /\ idx' = 1
  /\ UNCHANGED <<mixture, round, copies, toPing, TTLInfo, queue, traceVars, fileVars, zipVars>>

\* ... or Store repeats a transfer for ever, or the push, which has no timeout, is
\* never answered, or Store panics.
NotReported ==
  /\ mpc = "report"
  /\ mpc' \in {"hung", "down"}
  /\ UNCHANGED <<mixture, round, copies, toPing, TTLInfo, idx, queue, traceVars, fileVars, zipVars>>

\* The destinations go to the channel, which blocks while it is full.
Enqueue ==
  /\ mpc = "queue" /\ idx <= NumPoints /\ idx \notin Own
  /\ Len(queue) < QueueCap
  /\ queue' = Append(queue, [round |-> round, point |-> idx, ttl |-> Estimate(TTLInfo[idx])])
  /\ idx' = idx + 1
  /\ UNCHANGED <<mixture, round, mpc, copies, toPing, TTLInfo, traceVars, fileVars, zipVars>>

\* The agent does not trace itself.
SkipOwn ==
  /\ mpc = "queue" /\ idx \in Own
  /\ idx' = idx + 1
  /\ UNCHANGED <<mixture, round, mpc, copies, toPing, TTLInfo, queue, traceVars, fileVars, zipVars>>

\* The round ends, and the next one starts after a sleep.
EndRound ==
  /\ mpc = "queue" /\ idx > NumPoints
  /\ round' = round + 1
  /\ mpc' = "start"
  /\ UNCHANGED <<mixture, copies, toPing, TTLInfo, idx, queue, traceVars, fileVars, zipVars>>
-----------------------------------------------------------------------------
(* traceIP and SaveTraceData *)

Take(w) ==
  /\ wpc[w] = "idle" /\ queue # <<>>
  /\ task' = [task EXCEPT ![w] = Head(queue)]
  /\ queue' = Tail(queue)
  /\ wpc' = [wpc EXCEPT ![w] = "trace"]
  /\ UNCHANGED <<mainVars, stale, lock, fileVars, zipVars>>

\* The trace found no hop: there is nothing to save.
TraceNothing(w) ==
  /\ wpc[w] = "trace"
  /\ task' = [task EXCEPT ![w] = NoTask]
  /\ wpc' = [wpc EXCEPT ![w] = "idle"]
  /\ UNCHANGED <<mainVars, queue, stale, lock, fileVars, zipVars>>

TraceHops(w) ==
  /\ wpc[w] = "trace"
  /\ wpc' = [wpc EXCEPT ![w] = "save"]
  /\ UNCHANGED <<mainVars, queue, task, stale, lock, fileVars, zipVars>>

\* Under traceFileLock, getFile composes the root once, makes the directory
\* unless it exists and opens the file ...
OpenFile(w) ==
  /\ wpc[w] = "save" /\ ~lock
  /\ lock' = TRUE
  /\ rooted' = TRUE
  /\ dirs' = dirs \cup {RoundOf(task[w])}
  /\ stale' = [stale EXCEPT ![w] = FALSE]
  /\ wpc' = [wpc EXCEPT ![w] = "write"]
  /\ UNCHANGED <<mainVars, queue, task, files, archives, faults, zipVars>>

\* ... and the entry is appended, in vain if the file has been removed.
WriteFile(w) ==
  LET t == task[w]
  IN  /\ wpc[w] = "write"
      /\ files' = IF stale[w] THEN files ELSE [files EXCEPT ![RoundOf(t)] = @ \cup {t.point}]
      /\ lock' = Unlocked
      /\ task' = [task EXCEPT ![w] = NoTask]
      /\ wpc' = [wpc EXCEPT ![w] = "idle"]
      /\ UNCHANGED <<mainVars, queue, stale, rooted, dirs, archives, faults, zipVars>>

\* The directory cannot be made, or the file cannot be opened: all that follows
\* fails as well, under the lock, and nobody is told.
OpenFails(w) ==
  /\ wpc[w] = "save" /\ ~lock
  /\ faults < MaxFaults
  /\ faults' = faults + 1
  /\ rooted' = TRUE
  /\ dirs' \in {dirs, dirs \cup {RoundOf(task[w])}}
  /\ task' = [task EXCEPT ![w] = NoTask]
  /\ wpc' = [wpc EXCEPT ![w] = "idle"]
  /\ UNCHANGED <<mainVars, queue, stale, lock, files, archives, zipVars>>

\* The entry does not get to the disk, whole.
WriteFails(w) ==
  /\ wpc[w] = "write"
  /\ faults < MaxFaults
  /\ faults' = faults + 1
  /\ lock' = Unlocked
  /\ task' = [task EXCEPT ![w] = NoTask]
  /\ wpc' = [wpc EXCEPT ![w] = "idle"]
  /\ UNCHANGED <<mainVars, queue, stale, rooted, dirs, files, archives, zipVars>>
-----------------------------------------------------------------------------
(* zipExpiredData *)

\* A tick before the first file was saved ends the goroutine.
GiveUp ==
  /\ zpc = "tick" /\ ~rooted
  /\ zpc' = "gone"
  /\ UNCHANGED <<mainVars, queue, traceVars, fileVars, listed, maxCnt>>

ListDirs ==
  /\ zpc = "tick" /\ rooted
  /\ listed' = dirs
  /\ maxCnt' = Highest(dirs)
  /\ zpc' = "zip"
  /\ UNCHANGED <<mainVars, queue, traceVars, fileVars>>

\* Directories of the last rounds stay as they are.
Skip(r) ==
  /\ zpc = "zip" /\ r \in listed /\ ~Expired(r, maxCnt)
  /\ listed' = listed \ {r}
  /\ UNCHANGED <<mainVars, queue, traceVars, fileVars, zpc, maxCnt>>

\* tar packs a directory into a new archive of that name and removes it.
Pack(r) ==
  /\ zpc = "zip" /\ r \in listed /\ Expired(r, maxCnt)
  /\ listed' = listed \ {r}
  /\ archives' = [archives EXCEPT ![r] = files[r]]
  /\ files' = [files EXCEPT ![r] = {}]
  /\ dirs' = dirs \ {r}
  /\ stale' = [w \in Tracers |->
                 stale[w] \/ (wpc[w] = "write" /\ RoundOf(task[w]) = r)]
  /\ UNCHANGED <<mainVars, queue, wpc, task, lock, rooted, faults, zpc, maxCnt>>

\* tar fails, at once or after it has removed some of the files; the directory is
\* left for the next tick.  What the unfinished archive holds counts for nothing,
\* because the next tar overwrites it.
PackFails(r) ==
  /\ zpc = "zip" /\ r \in listed /\ Expired(r, maxCnt)
  /\ faults < MaxFaults
  /\ faults' = faults + 1
  /\ listed' = listed \ {r}
  /\ \E rest \in SUBSET files[r] : files' = [files EXCEPT ![r] = rest]
  /\ archives' = [archives EXCEPT ![r] = {}]
  /\ UNCHANGED <<mainVars, queue, traceVars, rooted, dirs, zpc, maxCnt>>

ZipDone ==
  /\ zpc = "zip" /\ listed = {}
  /\ zpc' = "tick"
  /\ UNCHANGED <<mainVars, queue, traceVars, fileVars, listed, maxCnt>>
-----------------------------------------------------------------------------
Up == mpc # "down"

MainStep ==
  \/ StartRound \/ PingsDone \/ Reported \/ NotReported \/ Enqueue \/ SkipOwn \/ EndRound
  \/ \E t \in Targets : Ping(t)

TracerStep(w) ==
  /\ Up
  /\ \/ Take(w) \/ TraceNothing(w) \/ TraceHops(w)
     \/ OpenFile(w) \/ WriteFile(w) \/ OpenFails(w) \/ WriteFails(w)

ZipStep ==
  /\ Up
  /\ \/ GiveUp \/ ListDirs \/ ZipDone
     \/ \E r \in Rounds : Skip(r) \/ Pack(r) \/ PackFails(r)

Next == MainStep \/ (\E w \in Tracers : TracerStep(w)) \/ ZipStep

Spec == Init /\ [][Next]_vars

(***************************************************************************)
(* The goroutines run as long as the agent does, traces end (TraceReturns  *)
(* of Tracer), pings end (PingEnds of PingTask), the ticker ticks, and a   *)
(* mutex is handed to whoever waits for it.  Nothing is assumed of Store   *)
(* and of the push: a call that takes long has not yet come to its step,   *)
(* and one that never ends is "hung".                                      *)
(***************************************************************************)
FairSpec ==
  /\ Spec
  /\ WF_vars(MainStep)
  /\ \A w \in Tracers : SF_vars(TracerStep(w))
  /\ WF_vars(ZipStep)
-----------------------------------------------------------------------------
\* The type of every variable.
TypeOK ==
  /\ mixture \in BOOLEAN
  /\ round \in 0..MaxRounds
  /\ mpc \in {"start", "ping", "report", "queue", "hung", "down"}
  /\ copies \in Nat
  /\ toPing \in [Targets -> Nat]
  /\ TTLInfo \in [Points -> Nat \cup {-1}]
  /\ idx \in 1..(NumPoints + 1)
  /\ queue \in Seq(Task)
  /\ wpc \in [Tracers -> {"idle", "trace", "save", "write"}]
  /\ task \in [Tracers -> Task \cup {NoTask}]
  /\ \A w \in Tracers : wpc[w] # "idle" => task[w] \in Task
  /\ stale \in [Tracers -> BOOLEAN]
  /\ lock \in BOOLEAN
  /\ rooted \in BOOLEAN
  /\ dirs \subseteq Rounds
  /\ files \in [Rounds -> SUBSET Points]
  /\ archives \in [Rounds -> SUBSET Points]
  /\ faults \in 0..MaxFaults
  /\ zpc \in {"tick", "zip", "gone"}
  /\ listed \subseteq Rounds
  /\ maxCnt \in Nat

TaskIds == Rounds \X Points
Id(t)   == <<t.round, t.point>>

Asked ==
  {t \in Rounds \X (Points \ Own) :
     t[1] < round \/ (t[1] = round /\ mpc = "queue" /\ t[2] < idx)}
At(places) == {Id(task[w]) : w \in {v \in Tracers : wpc[v] \in places}}
Queued  == {Id(queue[i]) : i \in DOMAIN queue}
Pending == Queued \cup At({"trace", "save", "write"})
Kept == {t \in TaskIds : t[2] \in files[t[1]] \cup archives[t[1]]}

Log == INSTANCE RoundLog WITH
  Tasks <- TaskIds, asked <- Asked, pending <- Queued \cup At({"trace"}),
  found <- At({"save", "write"}), kept <- Kept

\* Each destination is traced at most once in a round, and a result that was found
\* is kept for ever, except for what a fault of the file system or of tar costs at
\* the moment it happens, at most the results of one round: no entry is written to
\* a file that tar has removed, and no whole archive is overwritten by the
\* leftovers of its round.
LogKept == Log!Spec

\* The single traceIP goroutine works through the rounds in order: when the
\* directory of a round exists, no older task is pending.  This is what makes
\* it safe to pack old rounds without a lock.
RoundsInOrder ==
  \A t \in Pending : \A r \in dirs : r <= t[1]

\* The rounds go on until a call of Store or of the push never ends or a panic ends
\* the agent; a full channel delays the rounds and does not stop them.  What was
\* queued is traced and saved in the end as long as the agent is not down, even if
\* the rounds themselves are stuck.
RoundsGoOn ==
  <>[](/\ round = MaxRounds \/ mpc \in {"hung", "down"}
       /\ Pending = {} \/ mpc = "down")


\* No directory is removed, and no file in it, before there is one two rounds newer:
\* those of the present and the last round stay unpacked, whatever was listed how
\* long ago.
LastRoundsStay ==
  [][\A r \in dirs :
       (r \notin dirs' \/ ~(files[r] \subseteq files'[r])) => \E q \in dirs : q >= r + 2]_vars
=============================================================================
