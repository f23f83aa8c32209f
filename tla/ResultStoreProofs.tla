------------------------- MODULE ResultStoreProofs --------------------------
(***************************************************************************)
(* Theorems about ResultStore: no result is lost, for every number of      *)
(* servers, results, crashes and broken connections.                       *)
(***************************************************************************)
EXTENDS ResultStore, TLAPS

Sending == {"connect", "upload", "write", "sent"}

\* Files are counted as they are made; a file that was complete never becomes
\* half-written again.
LocalFiles ==
  /\ made \subseteq 1..count
  /\ pc = "generate" => cur = count /\ cur \in Results \ made
  /\ \A f \in made : local[f] # "part"

\* A file that is sent is there; what was sent is what is there.
Sent ==
  /\ pc \in Sending => cur \in Results /\ local[cur] # "none"
  /\ pc = "sent" => remote[target][cur] = local[cur]

\* While the files left behind are sent, those that have had their turn are at
\* the storage server if they are still in ./data.
Handled(f) == local[f] = "full" => remote[Main][f] = "full"

Rest ==
  /\ pc \notin Sending \cup {"next"} => rest = {}
  /\ pc \in {"rest", "next"} => target = Main
  /\ pc = "next" => rest # {} /\ Handled(cur)
  /\ rest # {} =>
       /\ home /\ target = Main /\ cur \in rest
       /\ \A f \in rest \ {cur} : local[f] # "none"
       /\ \A f \in Results \ rest : Handled(f)
  /\ home /\ pc = "report" => \A f \in Results : Handled(f)

IInv == TypeOK /\ LocalFiles /\ Sent /\ Rest /\ ResultKept

USE OtherAssumption, ResultsAssumption, BoundsAssumption DEF Main, Servers, Results, Content, Disk

Steps ==
  \/ StoreStep \/ OpenFails \/ Loaded \/ Crash \/ Restart \/ ChangeDisk
  \/ \E s \in Servers : Break(s) \/ Mend(s)

LEMMA StepType ==
  ASSUME TypeOK, LocalFiles, Sent, Steps
  PROVE  TypeOK'
<1> USE DEF TypeOK, fileVars, envVars
<1>1. CASE CreateFile
  BY <1>1 DEF CreateFile
<1>2. CASE FileWritten
  BY <1>2 DEF FileWritten, LocalFiles
<1>3. CASE Connect \/ WriteFails \/ Finish \/ Restart \/ Loaded \/ NoDirectory \/ ChangeDisk
  BY <1>3 DEF Connect, WriteFails, AfterBreak, Finish, Restart, Loaded, NoDirectory, ChangeDisk
<1>13. CASE FileNotWritten
  <2>1. local' \in [Results -> Content]
    BY <1>13 DEF FileNotWritten
  <2>. QED BY <1>13, <2>1 DEF FileNotWritten
<1>4. CASE CreateRemote
  <2>1. cur \in Results
    BY <1>4 DEF CreateRemote, Sent, Sending
  <2>2. remote' \in [Servers -> [Results -> Content]]
    BY <1>4, <2>1 DEF CreateRemote
  <2>. QED BY <1>4, <2>2 DEF CreateRemote
<1>5. CASE WriteRemote
  <2>1. cur \in Results
    BY <1>5 DEF WriteRemote, Sent, Sending
  <2>2. remote' \in [Servers -> [Results -> Content]]
    BY <1>5, <2>1 DEF WriteRemote
  <2>. QED BY <1>5, <2>2 DEF WriteRemote
<1>6. CASE NextServer
  BY <1>6 DEF NextServer, LastServer
<1>7. CASE RemoveFile
  BY <1>7 DEF RemoveFile
<1>8. CASE ListRest
  BY <1>8 DEF ListRest, Found
<1>9. CASE NextRest
  BY <1>9 DEF NextRest, Remaining
<1>10. CASE OpenFails
  BY <1>10 DEF OpenFails
<1>11. CASE Crash
  BY <1>11 DEF Crash
<1>12. ASSUME NEW s \in Servers, Break(s) \/ Mend(s) PROVE TypeOK'
  <2>1. up' \in [Servers -> BOOLEAN]
    BY <1>12 DEF Break, Mend
  <2>2. conn' \in {"none", "live", "dead"} /\ breaks' \in 0..MaxBreaks
    BY <1>12 DEF Break, Mend
  <2>. QED BY <1>12, <2>1, <2>2 DEF Break, Mend
<1>. QED BY <1>1, <1>2, <1>3, <1>4, <1>5, <1>6, <1>7, <1>8, <1>9, <1>10, <1>11, <1>12, <1>13
         DEF Steps, StoreStep

LEMMA StepInvariant ==
  ASSUME IInv, Steps
  PROVE  LocalFiles' /\ Sent' /\ Rest' /\ ResultKept'
<1> USE DEF IInv, TypeOK, Sending, fileVars, envVars
<1>0. home' = home
  BY DEF Steps, StoreStep, CreateFile, FileWritten, FileNotWritten, Connect, CreateRemote, WriteRemote,
         WriteFails, NextServer, RemoveFile, ListRest, NoDirectory, NextRest, Finish, OpenFails, Loaded,
         Crash, Restart, ChangeDisk, Break, Mend
<1>1. CASE CreateFile
  <2>1. /\ count + 1 \in Results /\ count + 1 \notin made /\ rest = {}
        /\ local' = [local EXCEPT ![count + 1] = "part"]
        /\ pc' = "generate" /\ cur' = count + 1 /\ count' = count + 1
        /\ UNCHANGED <<made, remote, rest>>
    BY <1>1 DEF CreateFile, LocalFiles, Rest
  <2>2. \A f \in made : f \in Results /\ local'[f] = local[f]
    BY <2>1
  <2>. QED BY <1>0, <2>1, <2>2 DEF LocalFiles, Sent, Rest, ResultKept
<1>2. CASE FileWritten
  <2>1. /\ cur \in Results /\ cur = count /\ rest = {}
        /\ local' = [local EXCEPT ![cur] = "full"] /\ made' = made \cup {cur}
        /\ pc' \in {"down", "connect"} /\ UNCHANGED <<count, cur, remote, rest>>
    BY <1>2 DEF FileWritten, LocalFiles, Rest
  <2>. QED BY <1>0, <2>1 DEF LocalFiles, Sent, Rest, ResultKept
<1>3. CASE Connect \/ WriteFails
  BY <1>0, <1>3 DEF Connect, WriteFails, AfterBreak, LocalFiles, Sent, Rest, Handled, ResultKept
<1>13. CASE Restart \/ NoDirectory \/ Loaded
  <2>1. /\ UNCHANGED <<made, count, cur, target, local, remote, rest>>
        /\ pc \in {"down", "rest", "database"} /\ pc' \in {"idle", "down"}
    BY <1>13 DEF Restart, NoDirectory, Loaded
  <2>. QED BY <1>0, <2>1 DEF LocalFiles, Sent, Rest, Handled, ResultKept
<1>14. CASE ChangeDisk
  BY <1>0, <1>14 DEF ChangeDisk, LocalFiles, Sent, Rest, Handled, ResultKept
<1>12. CASE FileNotWritten
  <2>1. /\ cur \in Results /\ cur \notin made /\ rest = {} /\ pc' = "idle"
        /\ local' = local \/ local' = [local EXCEPT ![cur] = "none"]
        /\ UNCHANGED <<made, count, cur, remote, rest>>
    BY <1>12 DEF FileNotWritten, LocalFiles, Rest
  <2>2. \A f \in made : f \in Results /\ local'[f] = local[f]
    BY <2>1
  <2>. QED BY <1>0, <2>1, <2>2 DEF LocalFiles, Sent, Rest, ResultKept
<1>4. CASE CreateRemote
  <2>1. /\ cur \in Results /\ local[cur] # "none" /\ pc = "upload" /\ pc' = "write"
        /\ remote' = [remote EXCEPT ![target] = [remote[target] EXCEPT ![cur] = "part"]]
        /\ UNCHANGED <<made, count, cur, target, local, rest>>
    BY <1>4 DEF CreateRemote, Sent
  <2>2. \A f \in Results \ {cur} : remote'[Main][f] = remote[Main][f]
    BY <2>1
  <2>3. cur \in made => local[cur] = "full"
    BY <2>1 DEF LocalFiles
  <2>4. Rest'
    BY <1>0, <2>1, <2>2 DEF Rest, Handled
  <2>5. ResultKept'
    BY <2>1, <2>2, <2>3 DEF ResultKept
  <2>. QED BY <2>1, <2>4, <2>5 DEF LocalFiles, Sent
<1>5. CASE WriteRemote
  <2>1. /\ cur \in Results /\ local[cur] # "none" /\ pc = "write" /\ pc' = "sent"
        /\ remote' = [remote EXCEPT ![target] = [remote[target] EXCEPT ![cur] = local[cur]]]
        /\ UNCHANGED <<made, count, cur, target, local, rest>>
    BY <1>5 DEF WriteRemote, Sent
  <2>2. \A f \in Results \ {cur} : remote'[Main][f] = remote[Main][f]
    BY <2>1
  <2>3. cur \in made => local[cur] = "full"
    BY <2>1 DEF LocalFiles
  <2>4. Rest'
    BY <1>0, <2>1, <2>2 DEF Rest, Handled
  <2>5. ResultKept'
    BY <2>1, <2>2, <2>3 DEF ResultKept
  <2>6. Sent'
    BY <2>1 DEF Sent
  <2>. QED BY <2>1, <2>4, <2>5, <2>6 DEF LocalFiles
<1>6. CASE NextServer
  BY <1>6 DEF NextServer, LastServer, LocalFiles, Sent, Rest, ResultKept
<1>7. CASE RemoveFile
  <2>1. /\ cur \in Results /\ remote[Main][cur] = local[cur] /\ target = Main
        /\ UNCHANGED <<made, count, cur, target, remote, rest>>
        /\ pc' = IF rest = {} THEN pc' ELSE "next"
        /\ pc' \in {"next", "rest", "database"} /\ (pc' = "next" => rest # {})
        /\ local' = local \/ local' = [local EXCEPT ![cur] = "none"]
    BY <1>7 DEF RemoveFile, InRest, Sent
  <2>2. \A f \in Results \ {cur} : local'[f] = local[f]
    BY <2>1
  <2>3. local'[cur] \in {local[cur], "none"}
    BY <2>1
  <2>4. Rest'
    BY <1>0, <2>1, <2>2, <2>3 DEF Rest, Handled
  <2>5. ResultKept' /\ LocalFiles'
    BY <2>1, <2>2, <2>3 DEF ResultKept, LocalFiles
  <2>. QED BY <2>1, <2>4, <2>5 DEF Sent
<1>8. CASE ListRest
  <2>1. /\ target = Main /\ UNCHANGED <<made, count, target, local, remote>>
        /\ rest' = {f \in Results : home /\ local[f] # "none"}
        /\ \/ rest' = {} /\ pc' = "report" /\ cur' = cur
           \/ rest' # {} /\ pc' = "connect" /\ cur' \in rest'
    BY <1>8 DEF ListRest, Found, Rest
  <2>2. Rest'
    BY <1>0, <2>1 DEF Rest, Handled
  <2>. QED BY <2>1, <2>2 DEF LocalFiles, Sent, ResultKept
<1>9. CASE NextRest
  <2>1. /\ target = Main /\ UNCHANGED <<made, count, target, local, remote>>
        /\ rest' = rest \ {cur} /\ rest # {} /\ Handled(cur)
        /\ \/ rest' = {} /\ pc' = "report" /\ cur' = cur
           \/ rest' # {} /\ pc' = "upload" /\ cur' \in rest'
    BY <1>9 DEF NextRest, Remaining, Rest
  <2>2. Rest'
    BY <1>0, <2>1 DEF Rest, Handled
  <2>. QED BY <1>0, <2>1, <2>2 DEF LocalFiles, Sent, Rest, ResultKept
<1>10. CASE Finish \/ OpenFails \/ Crash
  BY <1>0, <1>10 DEF Finish, OpenFails, InRest, Crash, LocalFiles, Sent, Rest, ResultKept
<1>11. ASSUME NEW s \in Servers, Break(s) \/ Mend(s)
       PROVE  LocalFiles' /\ Sent' /\ Rest' /\ ResultKept'
  BY <1>0, <1>11 DEF Break, Mend, LocalFiles, Sent, Rest, Handled, ResultKept
<1>. QED BY <1>1, <1>2, <1>3, <1>4, <1>5, <1>6, <1>7, <1>8, <1>9, <1>10, <1>11, <1>12, <1>13, <1>14
         DEF Steps, StoreStep

LEMMA Beginning == Init => IInv
  BY DEF Init, IInv, TypeOK, LocalFiles, Sent, Sending, Rest, Handled, ResultKept

LEMMA Invariance == IInv /\ [Next]_vars => IInv'
<1> SUFFICES ASSUME IInv, [Next]_vars PROVE IInv'
  OBVIOUS
<1>1. CASE Steps
  BY <1>1, StepType, StepInvariant DEF IInv
<1>2. CASE UNCHANGED vars
  BY <1>2 DEF vars, fileVars, envVars, IInv, TypeOK, LocalFiles, Sent, Rest, Handled, ResultKept
<1>. QED BY <1>1, <1>2 DEF Next, Steps

\* Every variable keeps its type, wherever the agent crashes or a server fails.
THEOREM TypeCorrect == Spec => []TypeOK
<1>1. IInv => TypeOK
  BY DEF IInv
<1>. QED BY Beginning, Invariance, <1>1, PTL DEF Spec

\* No crash and no broken connection loses a result whose file was written: the
\* file is removed only when the storage server has all of it.
THEOREM ResultKeptCorrect == Spec => []ResultKept
<1>1. IInv => ResultKept
  BY DEF IInv
<1>. QED BY Beginning, Invariance, <1>1, PTL DEF Spec

\* When TransferRestFile has come through its list, in an agent that was started in
\* the directory of the plugin, the storage server has every complete file that is
\* still in ./data.
THEOREM RestSentCorrect == Spec => []RestSent
<1>1. IInv => RestSent
  BY DEF IInv, Rest, Handled, RestSent
<1>. QED BY Beginning, Invariance, <1>1, PTL DEF Spec
=============================================================================
