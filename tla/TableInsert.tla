---------------------------- MODULE TableInsert -----------------------------
(***************************************************************************)
(* The transfer of a round's results to the database, where Store of       *)
(* dataStore/dao/store.go goes when the storage server was not reached     *)
(* (ResultStore): it opens the engine, sees to the tables and inserts one  *)
(* table after the other.  InsertTableWithTimeout gives each insertion to  *)
(* a goroutine and waits 20 seconds for it; a goroutine that took longer   *)
(* goes on by itself beside the ones that follow.  All of them create,     *)
(* use, commit and close the session that is in the package variable       *)
(* session when they come to it, and all of them look at sN, which is      *)
(* never reset.                                                            *)
(*                                                                         *)
(* The engine and its sessions (xorm) and the database are external: any   *)
(* operation may fail, a session outside a transaction inserts at once,    *)
(* and closing a session gives up its transaction.                         *)
(***************************************************************************)
EXTENDS Integers, FiniteSets

CONSTANTS
  NumTypes,     \* len(sN): the kinds of results, one table each
  MaxTables,    \* bound of the model: tables of one transfer
  MaxStores,    \* bound of the model: transfers
  MaxEngines,   \* bound of the model: engines
  MaxLate,      \* bound of the model: goroutines that were given up and still run
  None          \* no session yet

ASSUME NumbersAssumption ==
  /\ NumTypes \in Nat \ {0} /\ MaxTables \in Nat /\ MaxTables >= NumTypes
  /\ MaxStores \in Nat /\ MaxEngines \in Nat \ {0} /\ MaxLate \in Nat

Stores  == 1..MaxStores
Tables  == 1..MaxTables
Attempt == Stores \X Tables \X {1, 2}
ASSUME NoneAssumption == None \notin Attempt

Engines == 1..MaxEngines

VARIABLES
  mpc,      \* where Store stands
  store,    \* transfers so far
  tables,   \* len(tableSlice)
  idx,      \* the table that is inserted
  try,      \* the first or the second call for it
  opened,   \* engines so far; the last one is Engine
  closed,   \* engines that DeadDB has closed
  late,     \* goroutines of BirthDBWithTimeout that were given up
  gpc,      \* where the goroutine of each call stands
  using,    \* the session that its present operation works on
  session,  \* the package variable: the call that created the session
  sess,     \* the sessions
  sN,       \* tables that count as inserted
  landed    \* how often the rows of each call have come into the database

engineVars == <<opened, closed, late>>
mainVars   == <<mpc, store, tables, idx, try>>
callVars   == <<gpc, using>>
dbVars     == <<session, sess, landed>>
vars == <<mainVars, engineVars, callVars, dbVars, sN>>

Tab(a)  == a[2]
Current == <<store, idx, try>>

\* A session: the engine it belongs to, whether it is in a transaction, the
\* calls whose rows wait in that transaction, whether it is closed.
Session == [engine : 0..MaxEngines, tx : BOOLEAN, rows : SUBSET Attempt, closed : BOOLEAN]
Fresh   == [engine |-> opened, tx |-> FALSE, rows |-> {}, closed |-> FALSE]

NoSession == [engine |-> 0, tx |-> FALSE, rows |-> {}, closed |-> FALSE]
InUse(b)  == \E a \in Attempt : using[a] = b

\* Close rolls back what was not committed, once.
Closed(s) == IF s.closed THEN s ELSE [s EXCEPT !.tx = FALSE, !.rows = {}, !.closed = TRUE]

\* The goroutines of the calls, and all that would be left alone by a time-out.
Live    == {a \in Attempt : gpc[a] \notin {"none", "end"}}
GivenUp == Cardinality(Live) + late
-----------------------------------------------------------------------------
Init ==
  /\ mpc = "idle"
  /\ store = 0 /\ tables = 0 /\ idx = 1 /\ try = 1
  /\ opened = 0 /\ closed = {} /\ late = 0
  /\ gpc = [a \in Attempt |-> "none"]
  /\ using = [a \in Attempt |-> None]
  /\ session = None
  /\ sess = [a \in Attempt |-> NoSession]
  /\ sN = [t \in 1..NumTypes |-> 0]
  /\ landed = [a \in Attempt |-> 0]
-----------------------------------------------------------------------------
(* Store *)

\* sep2MultiTable names a table by the kind of the result and the date of the
\* moment: over midnight there are more tables than kinds.
StartStore ==
  /\ mpc = "idle" /\ store < MaxStores
  /\ store' = store + 1
  /\ tables' \in NumTypes..MaxTables
  /\ idx' = 1 /\ try' = 1
  /\ mpc' = "engine"
  /\ UNCHANGED <<engineVars, callVars, dbVars, sN>>

\* BirthDBWithTimeout, as long as there is no engine.
BirthDB ==
  /\ mpc = "engine" /\ opened = 0
  /\ opened' = opened + 1
  /\ UNCHANGED <<mainVars, closed, late, callVars, dbVars, sN>>

BirthTimesOut ==
  /\ mpc = "engine" /\ opened = 0 /\ late < MaxLate
  /\ late' = late + 1
  /\ UNCHANGED <<mainVars, opened, closed, callVars, dbVars, sN>>

\* The goroutine goes on and replaces Engine, whoever uses it.
LateBirth ==
  /\ late > 0 /\ opened < MaxEngines /\ mpc # "down"
  /\ late' = late - 1
  /\ opened' = opened + 1
  /\ UNCHANGED <<mainVars, closed, callVars, dbVars, sN>>

\* The tables are looked up and created, again and again until the database
\* answers; that it could not create one is written to the log.
Prepare ==
  /\ mpc = "engine" /\ opened > 0
  /\ mpc' = "call"
  /\ UNCHANGED <<store, tables, idx, try, engineVars, callVars, dbVars, sN>>

\* InsertTableWithTimeout starts its goroutine.
CallInsert ==
  /\ mpc = "call" /\ idx <= tables
  /\ gpc' = [gpc EXCEPT ![Current] = "new"]
  /\ mpc' = "wait"
  /\ UNCHANGED <<store, tables, idx, try, engineVars, using, dbVars, sN>>

NextTable_Same == idx' = idx /\ try' = 1 /\ mpc' = "call"
NextTable      == idx' = idx + 1 /\ try' = 1 /\ mpc' = "call"

InsertDone ==
  /\ mpc = "wait" /\ gpc[Current] \in {"discard", "end"}
  /\ NextTable
  /\ UNCHANGED <<store, tables, engineVars, callVars, dbVars, sN>>

\* 20 seconds have passed.  A first call is repeated ...
InsertTimesOut ==
  /\ mpc = "wait" /\ GivenUp <= MaxLate
  /\ IF try = 1 THEN mpc' = "again" /\ UNCHANGED <<idx, try>> ELSE NextTable
  /\ UNCHANGED <<store, tables, engineVars, callVars, dbVars, sN>>

\* ... unless the table counts as inserted by now.
Inserted(t) == sN[t] = 1

Retry ==
  /\ mpc = "again" /\ idx <= NumTypes
  /\ IF Inserted(idx)
     THEN NextTable
     ELSE try' = 2 /\ mpc' = "call" /\ UNCHANGED idx
  /\ UNCHANGED <<store, tables, engineVars, callVars, dbVars, sN>>

\* DeadDB closes the engine and keeps it.
DeadDB ==
  /\ mpc = "call" /\ idx > tables
  /\ closed' = closed \cup {opened}
  /\ mpc' = "idle"
  /\ UNCHANGED <<store, tables, idx, try, opened, late, callVars, dbVars, sN>>

\* sN has no element for the tables beyond the kinds of results.
IndexPanic ==
  /\ mpc # "down"
  /\ \/ mpc = "again" /\ idx > NumTypes
     \/ \E a \in Attempt : gpc[a] = "check" /\ Tab(a) > NumTypes
  /\ mpc' = "down"
  /\ UNCHANGED <<store, tables, idx, try, engineVars, callVars, dbVars, sN>>
-----------------------------------------------------------------------------
(* The goroutine of InsertTableWithTimeout *)

Goto(a, place) == gpc' = [gpc EXCEPT ![a] = place]

\* The session so far is out of reach unless an operation works on it.
NewSession(a) ==
  /\ gpc[a] = "new"
  /\ session' = a
  /\ sess' = [b \in Attempt |-> IF b = a THEN Fresh ELSE IF InUse(b) THEN sess[b] ELSE NoSession]
  /\ Goto(a, "begin")
  /\ UNCHANGED <<using, landed, sN>>

\* Begin, which fails on a closed engine; its error is not looked at.
Begin(a) ==
  /\ gpc[a] = "begin"
  /\ \/ UNCHANGED sess
     \/ /\ sess[session].engine \notin closed
        /\ sess' = [sess EXCEPT ![session].tx = TRUE]
  /\ Goto(a, "check")
  /\ UNCHANGED <<using, session, landed, sN>>

\* A table that counts as inserted is left alone.
Check(a) ==
  /\ gpc[a] = "check" /\ Tab(a) <= NumTypes
  /\ Goto(a, IF Inserted(Tab(a)) THEN "abandon" ELSE "call")
  /\ UNCHANGED <<using, dbVars, sN>>

Abandon(a) ==
  /\ gpc[a] = "abandon"
  /\ sess' = [sess EXCEPT ![session] = Closed(@)]
  /\ Goto(a, "end")
  /\ UNCHANGED <<using, session, landed, sN>>

\* session.Insert is called ...
StartInsert(a) ==
  /\ gpc[a] = "call"
  /\ using' = [using EXCEPT ![a] = session]
  /\ Goto(a, "insert")
  /\ UNCHANGED <<dbVars, sN>>

\* A goroutine inserts once.
AfterInsert_Insert == "call"
AfterInsert        == "recheck"

\* ... and comes to its end: the rows wait in the transaction of the session,
\* or are in the database, or the insertion has failed.
Insert(a) ==
  LET s == sess[using[a]] IN
  /\ gpc[a] = "insert"
  /\ \/ /\ s.tx
        /\ sess' = [sess EXCEPT ![using[a]].rows = @ \cup {a}]
        /\ UNCHANGED landed
     \/ /\ ~s.tx /\ s.engine \notin closed
        /\ landed' = [landed EXCEPT ![a] = @ + 1]
        /\ UNCHANGED sess
     \/ UNCHANGED <<sess, landed>>
  /\ using' = [using EXCEPT ![a] = None]
  /\ Goto(a, AfterInsert)
  /\ UNCHANGED <<session, sN>>

\* Another call for the table was faster: report, then close the session.
Recheck(a) ==
  /\ gpc[a] = "recheck"
  /\ IF Inserted(Tab(a))
     THEN Goto(a, "discard")
     ELSE Goto(a, "commit?")
  /\ UNCHANGED <<using, dbVars, sN>>

Discard(a) ==
  /\ gpc[a] = "discard"
  /\ sess' = [sess EXCEPT ![session] = Closed(@)]
  /\ Goto(a, "end")
  /\ UNCHANGED <<using, session, landed, sN>>

\* session.Commit is called ...
StartCommit(a) ==
  /\ gpc[a] = "commit?"
  /\ using' = [using EXCEPT ![a] = session]
  /\ Goto(a, "commit")
  /\ UNCHANGED <<dbVars, sN>>

\* ... and comes to its end: what waits in the session is in the database, or
\* is lost.  Nobody looks at the error.
Commit(a) ==
  LET s == sess[using[a]] IN
  /\ gpc[a] = "commit"
  /\ sess' = [sess EXCEPT ![using[a]].tx = FALSE, ![using[a]].rows = {}]
  /\ \/ landed' = [b \in Attempt |-> IF b \in s.rows THEN landed[b] + 1 ELSE landed[b]]
     \/ UNCHANGED landed
  /\ using' = [using EXCEPT ![a] = None]
  /\ Goto(a, "close")
  /\ UNCHANGED <<session, sN>>

Close(a) ==
  /\ gpc[a] = "close"
  /\ sess' = [sess EXCEPT ![session] = Closed(@)]
  /\ Goto(a, "mark")
  /\ UNCHANGED <<using, session, landed, sN>>

\* The table counts as inserted, whatever became of its rows.
Mark(a) ==
  /\ gpc[a] = "mark"
  /\ sN' = [sN EXCEPT ![Tab(a)] = 1]
  /\ Goto(a, "end")
  /\ UNCHANGED <<using, dbVars>>
-----------------------------------------------------------------------------
MainStep ==
  \/ StartStore \/ BirthDB \/ Prepare \/ CallInsert
  \/ InsertDone \/ InsertTimesOut \/ Retry \/ DeadDB

InsertStep(a) ==
  /\ mpc # "down"
  /\ \/ NewSession(a) \/ Begin(a) \/ Check(a) \/ Abandon(a)
     \/ StartInsert(a) \/ Insert(a) \/ Recheck(a) \/ Discard(a)
     \/ StartCommit(a) \/ Commit(a) \/ Close(a) \/ Mark(a)
  /\ UNCHANGED <<mainVars, engineVars>>

Next ==
  \/ MainStep \/ BirthTimesOut \/ LateBirth \/ IndexPanic
  \/ \E a \in Attempt : InsertStep(a)

Spec == Init /\ [][Next]_vars

\* Store goes on, and the database ends the operations of the call that Store
\* waits for, well or not.  It owes nothing to calls that were given up.
AwaitedStep == mpc = "wait" /\ InsertStep(Current)

FairSpec == Spec /\ WF_vars(MainStep) /\ WF_vars(IndexPanic) /\ WF_vars(AwaitedStep)
-----------------------------------------------------------------------------
Places == {"none", "new", "begin", "check", "abandon", "call", "insert", "recheck",
           "discard", "commit?", "commit", "close", "mark", "end"}

\* The type of every variable.
TypeOK ==
  /\ mpc \in {"idle", "engine", "call", "wait", "again", "down"}
  /\ store \in 0..MaxStores
  /\ tables \in 0..MaxTables
  /\ idx \in 1..(MaxTables + 1)
  /\ try \in {1, 2}
  /\ opened \in 0..MaxEngines
  /\ closed \subseteq 0..MaxEngines
  /\ late \in Nat
  /\ gpc \in [Attempt -> Places]
  /\ using \in [Attempt -> Attempt \cup {None}]
  /\ session \in Attempt \cup {None}
  /\ sess \in [Attempt -> Session]
  /\ sN \in [1..NumTypes -> {0, 1}]
  /\ landed \in [Attempt -> Nat]

Load == INSTANCE TableLoad WITH asked <- {a \in Attempt : gpc[a] # "none"}

\* Whoever commits or closes whose session, and however late: the rows of one
\* call come into the database together, after the call and at most once, so
\* that no table is there more than twice.
RowsOnce == Load!Spec

\* The agent as InsertTableWithTimeout leaves it when a table has no sN.
BeyondKinds == mpc = "down" /\ \E a \in Attempt : gpc[a] # "none" /\ Tab(a) > NumTypes

\* However many operations fail, hang or come late, Store gets through its
\* tables: as long as there is one for each kind of result, it returns, unless a
\* goroutine that an earlier transfer gave up ends the agent; a transfer with
\* more tables than kinds, one over midnight, ends the agent each time.
LoadEnds ==
  /\ (mpc = "call" /\ tables = NumTypes) ~> (mpc = "idle" \/ BeyondKinds)
  /\ (mpc = "call" /\ tables > NumTypes) ~> BeyondKinds
=============================================================================
