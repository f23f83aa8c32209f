---------------------------- MODULE ResultStore -----------------------------
(***************************************************************************)
(* How the results of a round leave the agent: Store of                    *)
(* dataStore/dao/store.go writes them to a file in ./data (GenerateZlib),  *)
(* sends that file to the other servers (DoTransferOther) and to the       *)
(* storage server (StoreJsonResult), removes it, and then sends and        *)
(* removes what earlier rounds left behind (TransferRestFile).  When the   *)
(* storage server was not reached by that way the database is next, which  *)
(* is one step here, if it ends.  The agent may crash anywhere and is      *)
(* started again; files survive.                                           *)
(*                                                                         *)
(* A failed attempt to connect or to create the remote file changes        *)
(* nothing but counters and is repeated at once, without end: it is a      *)
(* stuttering step.                                                        *)
(***************************************************************************)
EXTENDS Integers, FiniteSets

CONSTANTS
  NumOther,    \* the servers of transferOther.txt
  MaxResults,  \* bound of the model: results stored
  MaxCrashes,  \* bound of the model: crashes
  MaxBreaks    \* bound of the model: connections broken by a server or network

ASSUME OtherAssumption   == NumOther \in Nat
ASSUME ResultsAssumption == MaxResults \in Nat
ASSUME BoundsAssumption  == MaxCrashes \in Nat /\ MaxBreaks \in Nat

Main    == NumOther + 1     \* the storage server, 106.3.133.5
Servers == 1..Main
Results == 1..MaxResults
Content == {"none", "part", "full"}
Disk    == {"writable", "full", "denied"}

VARIABLES
  pc,       \* where Store stands
  made,     \* results whose file GenerateZlib has completed
  count,    \* results so far
  cur,      \* the result whose file is being sent
  target,   \* the server it is sent to
  conn,     \* the SFTP client: none, live or dead
  home,     \* ./data is /root/falcon/plugin/net-plugin/data
  up,       \* up[s]: server s can be connected to
  disk,     \* what the server in use does with a file over a live connection
  local,    \* files in ./data
  remote,   \* remote[s]: files at server s
  rest,     \* files that TransferRestFile has found and not yet handled
  crashes, breaks

envVars  == <<home, up, disk, crashes, breaks>>
fileVars == <<local, remote>>
vars == <<pc, made, count, cur, target, conn, fileVars, rest, envVars>>

\* The files TransferRestFile finds: GenerateZlib writes to a directory that is
\* relative to where the agent was started, and it walks an absolute one.
Found_One == {f \in Results : local[f] # "none" /\ \A g \in Results : local[g] # "none" => f <= g}
Found     == {f \in Results : home /\ local[f] # "none"}

\* A client that fails is used again for the next attempt.
AfterBreak_Done == "sent"
AfterBreak      == "upload"

\* The servers are taken one after the other, and so are the files left.
LastServer == Main
Remaining_Same == rest
Remaining      == rest \ {cur}
-----------------------------------------------------------------------------
Init ==
  /\ pc = "idle"
  /\ made = {}
  /\ count = 0
  /\ cur = 0
  /\ target = Main
  /\ conn = "none"
  /\ home \in BOOLEAN
  /\ up = [s \in Servers |-> TRUE]
  /\ disk = "writable"
  /\ local = [f \in Results |-> "none"]
  /\ remote = [s \in Servers |-> [f \in Results |-> "none"]]
  /\ rest = {}
  /\ crashes = 0 /\ breaks = 0
-----------------------------------------------------------------------------
(* Store and GenerateZlib *)

CreateFile ==
  /\ pc = "idle" /\ count < MaxResults
  /\ count' = count + 1
  /\ cur' = count + 1
  /\ local' = [local EXCEPT ![count + 1] = "part"]
  /\ pc' = "generate"
  /\ UNCHANGED <<made, target, conn, remote, rest, envVars>>

\* The file is there and the servers are next.  Without other servers Store
\* panics, at failTimes[0], before the storage server has its turn.
FileWritten ==
  /\ pc = "generate"
  /\ local' = [local EXCEPT ![cur] = "full"]
  /\ made' = made \cup {cur}
  /\ target' = 1
  /\ pc' = IF NumOther = 0 THEN "down" ELSE "connect"
  /\ UNCHANGED <<count, cur, conn, remote, rest, envVars>>

\* An error while writing, or the file could not even be made: Store returns.
FileNotWritten ==
  /\ pc = "generate"
  /\ local' \in {local, [local EXCEPT ![cur] = "none"]}
  /\ pc' = "idle"
  /\ UNCHANGED <<made, count, cur, target, conn, remote, rest, envVars>>
-----------------------------------------------------------------------------
(* CreateClient and Upload, in the loops of DoTransferOther, StoreJsonResult *)
(* and TransferRestFile; rest is empty in the first two.                     *)

InRest == rest # {}

Connect ==
  /\ pc = "connect" /\ up[target]
  /\ conn' = "live"
  /\ pc' = "upload"
  /\ UNCHANGED <<made, count, cur, target, fileVars, rest, envVars>>

\* os.Open fails, status 3.  The remaining other servers are skipped; instead
\* of the storage server the database is next; the rest of the files stay.
OpenFails ==
  /\ pc = "upload"
  /\ rest' = {}
  /\ conn' = "none"
  /\ IF target < Main
     THEN target' = Main /\ pc' = "connect"
     ELSE /\ UNCHANGED target
          /\ pc' = IF InRest THEN "idle" ELSE "database"
  /\ UNCHANGED <<made, count, cur, fileVars, envVars>>

\* sftpClient.Create truncates the remote file, or makes it, even on a full disk.
CreateRemote ==
  /\ pc = "upload" /\ conn = "live" /\ disk # "denied"
  /\ remote' = [remote EXCEPT ![target][cur] = "part"]
  /\ pc' = "write"
  /\ UNCHANGED <<made, count, cur, target, conn, local, rest, envVars>>

WriteRemote ==
  /\ pc = "write" /\ conn = "live" /\ disk = "writable"
  /\ remote' = [remote EXCEPT ![target][cur] = local[cur]]
  /\ pc' = "sent"
  /\ UNCHANGED <<made, count, cur, target, conn, local, rest, envVars>>

\* dstFile.Write fails, status 2, and so it does the next time unless the server has
\* changed: the upload is tried again.
WriteFails ==
  /\ pc = "write" /\ (conn = "dead" \/ disk # "writable")
  /\ pc' = AfterBreak
  /\ UNCHANGED <<made, count, cur, target, conn, fileVars, rest, envVars>>

\* The next server, with a client of its own.
NextServer ==
  /\ pc = "sent" /\ target < LastServer
  /\ target' = target + 1
  /\ conn' = "none"
  /\ pc' = "connect"
  /\ UNCHANGED <<made, count, cur, fileVars, rest, envVars>>

\* The storage server has the file: it is removed.  StoreJsonResult returns
\* the error of os.Remove, TransferRestFile ignores it.
RemoveFile ==
  /\ pc = "sent" /\ target = Main
  /\ \/ /\ local' = [local EXCEPT ![cur] = "none"]
        /\ pc' = IF InRest THEN "next" ELSE "rest"
     \/ /\ UNCHANGED local
        /\ pc' = IF InRest THEN "next" ELSE "database"
  /\ UNCHANGED <<made, count, cur, target, conn, remote, rest, envVars>>
-----------------------------------------------------------------------------
(* TransferRestFile and what follows *)

ListRest ==
  /\ pc = "rest"
  /\ conn' = "none"
  /\ rest' = Found
  /\ IF Found = {}
     THEN pc' = "report" /\ UNCHANGED cur
     ELSE pc' = "connect" /\ cur' \in Found
  /\ UNCHANGED <<made, count, target, fileVars, envVars>>

\* The directory to be walked does not exist: the nil os.FileInfo panics.
NoDirectory ==
  /\ pc = "rest" /\ ~home
  /\ pc' = "down"
  /\ conn' = "none"
  /\ UNCHANGED <<made, count, cur, target, fileVars, rest, envVars>>

\* The next file, over the same client.
NextRest ==
  /\ pc = "next"
  /\ rest' = Remaining
  /\ IF rest' = {}
     THEN pc' = "report" /\ UNCHANGED cur
     ELSE pc' = "upload" /\ cur' \in rest'
  /\ UNCHANGED <<made, count, target, conn, fileVars, envVars>>

\* AppendFile: Store returns.
Finish ==
  /\ pc = "report"
  /\ pc' = "idle"
  /\ conn' = "none"
  /\ UNCHANGED <<made, count, cur, target, fileVars, rest, envVars>>

\* The database has been tried: Store returns, or its last part has panicked.
Loaded ==
  /\ pc = "database"
  /\ pc' \in {"idle", "down"}
  /\ conn' = "none"
  /\ UNCHANGED <<made, count, cur, target, fileVars, rest, envVars>>
-----------------------------------------------------------------------------
(* The agent, the servers and the network *)

Crash ==
  /\ crashes < MaxCrashes /\ pc # "down"
  /\ crashes' = crashes + 1
  /\ pc' = "down"
  /\ cur' = 0 /\ target' = Main /\ conn' = "none" /\ rest' = {}
  /\ UNCHANGED <<made, count, fileVars, home, up, disk, breaks>>

Restart ==
  /\ pc = "down"
  /\ pc' = "idle"
  /\ UNCHANGED <<made, count, cur, target, conn, fileVars, rest, envVars>>

\* A server or the network fails; the connection does not survive.
Break(s) ==
  /\ up[s] /\ breaks < MaxBreaks
  /\ breaks' = breaks + 1
  /\ up' = [up EXCEPT ![s] = FALSE]
  /\ conn' = IF s = target /\ conn = "live" THEN "dead" ELSE conn
  /\ UNCHANGED <<pc, made, count, cur, target, fileVars, rest, home, disk, crashes>>

Mend(s) ==
  /\ ~up[s]
  /\ up' = [up EXCEPT ![s] = TRUE]
  /\ UNCHANGED <<pc, made, count, cur, target, conn, fileVars, rest, home, disk, crashes, breaks>>

\* The disk of the server fills up, its files are protected, or it takes files again.
ChangeDisk ==
  /\ disk' \in Disk
  /\ UNCHANGED <<pc, made, count, cur, target, conn, fileVars, rest, home, up, crashes, breaks>>
-----------------------------------------------------------------------------
StoreStep ==
  \/ CreateFile \/ FileWritten \/ FileNotWritten
  \/ Connect \/ CreateRemote \/ WriteRemote \/ WriteFails \/ NextServer \/ RemoveFile
  \/ ListRest \/ NoDirectory \/ NextRest \/ Finish

Next ==
  \/ StoreStep \/ OpenFails \/ Loaded \/ Crash \/ Restart \/ ChangeDisk
  \/ \E s \in Servers : Break(s) \/ Mend(s)

Spec == Init /\ [][Next]_vars

\* The agent runs, is started again, and servers can be connected to again.  That a
\* server takes files again, or that the database answers, is not assumed.
FairSpec ==
  /\ Spec
  /\ WF_vars(StoreStep) /\ WF_vars(Restart)
  /\ \A s \in Servers : WF_vars(Mend(s))
-----------------------------------------------------------------------------
\* The type of every variable.
TypeOK ==
  /\ pc \in {"idle", "generate", "connect", "upload", "write", "sent", "rest",
             "next", "report", "database", "down"}
  /\ made \subseteq Results
  /\ count \in 0..MaxResults
  /\ cur \in Results \cup {0}
  /\ target \in Servers
  /\ conn \in {"none", "live", "dead"}
  /\ home \in BOOLEAN
  /\ up \in [Servers -> BOOLEAN]
  /\ disk \in Disk
  /\ local \in [Results -> Content]
  /\ remote \in [Servers -> [Results -> Content]]
  /\ rest \subseteq Results
  /\ crashes \in 0..MaxCrashes
  /\ breaks \in 0..MaxBreaks

\* A result is never lost: whatever crashes and breaks, once its file was
\* written the file is complete at the storage server or still in ./data.
ResultKept ==
  \A f \in made : local[f] = "full" \/ remote[Main][f] = "full"

\* When TransferRestFile reports success no file is behind that the storage
\* server lacks, those of earlier rounds and crashes included, provided that the
\* agent was started in the directory of the plugin.  (Elsewhere it reports success
\* for a directory the results are not in.)
RestSent ==
  home /\ pc = "report" => \A f \in Results : local[f] = "full" => remote[Main][f] = "full"

\* Store always comes to its end, however often servers cannot be connected to and
\* the agent crashes, unless for ever it uses a client whose connection broke
\* (nobody makes a new one), or a server refuses the file again and again, or it
\* waits for the database.
StoreReturns ==
  \/ <>[](pc = "idle")
  \/ <>[](conn = "dead" /\ pc \in {"upload", "write"})
  \/ []<>(disk # "writable")
  \/ <>[](pc = "database")
=============================================================================
