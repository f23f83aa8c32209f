------------------------- MODULE TableInsertProofs --------------------------
(***************************************************************************)
(* Theorems about TableInsert: it implements TableLoad, for every number   *)
(* of tables, transfers, engines and goroutines, whatever fails.           *)
(***************************************************************************)
EXTENDS TableInsert, TLAPS

Asked == {a \in Attempt : gpc[a] # "none"}

\* Before a goroutine gets to its insertion its rows are nowhere.
Before == {"none", "new", "begin", "check", "abandon", "call", "insert"}

\* A goroutine past NewSession finds a session in the variable; an operation
\* that is under way has its session.
SessionsThere ==
  \A a \in Attempt :
    /\ gpc[a] \notin {"none", "new"} => session \in Attempt
    /\ gpc[a] \in {"insert", "commit"} => using[a] \in Attempt

\* The rows of a call are at one place at most: a transaction or the database.
OnePlace ==
  \A a \in Attempt :
    /\ landed[a] \in {0, 1}
    /\ gpc[a] \in Before => landed[a] = 0 /\ \A s \in Attempt : a \notin sess[s].rows
    /\ \A s \in Attempt : a \in sess[s].rows =>
         /\ landed[a] = 0
         /\ \A r \in Attempt : a \in sess[r].rows => r = s

\* Store asks in order.
InOrder ==
  /\ mpc \in {"engine", "call", "wait", "again"} => store \in Stores
  /\ mpc \in {"wait", "again"} =>
       /\ idx <= tables
       /\ Current \in Asked
       /\ \A b \in Asked : b = Current \/ Load!After(Current, b)
  /\ mpc \in {"engine", "call"} => \A b \in Asked : Load!After(Current, b)
  /\ mpc = "idle" => \A b \in Asked : b[1] <= store
  /\ mpc = "engine" => idx = 1 /\ try = 1
  /\ mpc = "again" => try = 1
  /\ mpc = "call" /\ try = 2 => idx <= tables /\ <<store, idx, 1>> \in Asked

IInv == TypeOK /\ SessionsThere /\ OnePlace /\ InOrder

USE NumbersAssumption, NoneAssumption DEF Stores, Tables, Engines

Steps == MainStep \/ BirthTimesOut \/ LateBirth \/ IndexPanic

LEMMA NoSessionType == NoSession \in Session /\ (TypeOK => Fresh \in Session)
  BY DEF NoSession, Fresh, Session, TypeOK

LEMMA ClosedType == \A s \in Session : Closed(s) \in Session /\ Closed(s).rows \subseteq s.rows
  BY DEF Closed, Session

\* What becomes of a session in a transaction.
LEMMA SessionUpdate ==
  ASSUME NEW s \in Session, NEW R \in SUBSET Attempt
  PROVE  /\ [s EXCEPT !.tx = TRUE] \in Session
         /\ [s EXCEPT !.rows = R] \in Session
         /\ [s EXCEPT !.tx = FALSE, !.rows = R] \in Session
         /\ [s EXCEPT !.tx = TRUE].rows = s.rows
         /\ [s EXCEPT !.rows = R].rows = R
         /\ [s EXCEPT !.tx = FALSE, !.rows = R].rows = R
  BY DEF Session

\* The call that Store is about to make or waits for.
LEMMA CurrentCall ==
  ASSUME TypeOK, store \in Stores, idx <= tables
  PROVE  Current \in Attempt /\ idx \in Tables
  BY DEF Current, Attempt, TypeOK

LEMMA MainStepType ==
  ASSUME TypeOK, InOrder, Steps
  PROVE  TypeOK'
<1>1. CASE StartStore
  BY <1>1 DEF StartStore, TypeOK, engineVars, callVars, dbVars
<1>2. CASE BirthDB
  BY <1>2 DEF BirthDB, TypeOK, mainVars, callVars, dbVars
<1>3. CASE Prepare
  BY <1>3 DEF Prepare, TypeOK, engineVars, callVars, dbVars
<1>4. CASE CallInsert
  <2>1. Current \in Attempt
    BY <1>4, CurrentCall DEF CallInsert, InOrder
  <2>. QED BY <1>4, <2>1 DEF CallInsert, TypeOK, engineVars, dbVars, Places
<1>5. CASE InsertDone
  BY <1>5 DEF InsertDone, NextTable, InOrder, TypeOK, engineVars, callVars, dbVars
<1>6. CASE InsertTimesOut
  BY <1>6 DEF InsertTimesOut, NextTable, InOrder, TypeOK, engineVars, callVars, dbVars
<1>7. CASE Retry
  BY <1>7 DEF Retry, NextTable, InOrder, TypeOK, engineVars, callVars, dbVars
<1>8. CASE DeadDB
  BY <1>8 DEF DeadDB, TypeOK, callVars, dbVars
<1>9. CASE BirthTimesOut
  BY <1>9 DEF BirthTimesOut, TypeOK, mainVars, callVars, dbVars
<1>10. CASE LateBirth
  BY <1>10 DEF LateBirth, TypeOK, mainVars, callVars, dbVars
<1>11. CASE IndexPanic
  BY <1>11 DEF IndexPanic, TypeOK, engineVars, callVars, dbVars
<1>. QED BY <1>1, <1>2, <1>3, <1>4, <1>5, <1>6, <1>7, <1>8, <1>9, <1>10, <1>11 DEF Steps, MainStep

\* The three ends of an insertion: the rows wait, are there, or are not.
LEMMA InsertEnds ==
  ASSUME NEW a \in Attempt, Insert(a)
  PROVE  \/ /\ sess' = [sess EXCEPT ![using[a]] = [sess[using[a]] EXCEPT !.rows = sess[using[a]].rows \cup {a}]]
            /\ landed' = landed
         \/ /\ landed' = [landed EXCEPT ![a] = landed[a] + 1]
            /\ sess' = sess
         \/ /\ landed' = landed
            /\ sess' = sess
  BY DEF Insert

\* The two ends of a commit: in both, nothing waits any more.
LEMMA CommitEnds ==
  ASSUME NEW a \in Attempt, Commit(a)
  PROVE  /\ sess' = [sess EXCEPT ![using[a]] = [sess[using[a]] EXCEPT !.tx = FALSE, !.rows = {}]]
         /\ \/ landed' = [b \in Attempt |-> IF b \in sess[using[a]].rows THEN landed[b] + 1 ELSE landed[b]]
            \/ landed' = landed
  BY DEF Commit

LEMMA InsertStepType ==
  ASSUME TypeOK, SessionsThere, NEW a \in Attempt, InsertStep(a)
  PROVE  TypeOK'
<1> USE DEF Goto, Places
<1>0. /\ gpc[a] \notin {"none", "new"} => session \in Attempt
      /\ gpc[a] \in {"insert", "commit"} => using[a] \in Attempt
  BY DEF SessionsThere
<1>1. CASE NewSession(a)
  BY <1>1, NoSessionType DEF NewSession, TypeOK, InsertStep, mainVars, engineVars
<1>2. CASE Begin(a)
  <2>1. sess' \in [Attempt -> Session]
    <3>1. CASE UNCHANGED sess
      BY <3>1 DEF TypeOK
    <3>2. CASE sess' = [sess EXCEPT ![session] = [sess[session] EXCEPT !.tx = TRUE]]
      BY <1>0, <1>2, <3>2, SessionUpdate DEF Begin, TypeOK
    <3>. QED BY <1>2, <3>1, <3>2 DEF Begin
  <2>. QED BY <1>2, <2>1 DEF Begin, TypeOK, InsertStep, mainVars, engineVars
<1>3. CASE Check(a)
  BY <1>3 DEF Check, TypeOK, InsertStep, mainVars, engineVars, dbVars
<1>4. CASE Abandon(a)
  <2>1. sess' \in [Attempt -> Session]
    BY <1>0, <1>4, ClosedType DEF Abandon, TypeOK
  <2>. QED BY <1>4, <2>1 DEF Abandon, TypeOK, InsertStep, mainVars, engineVars
<1>5. CASE StartInsert(a)
  BY <1>5 DEF StartInsert, TypeOK, InsertStep, mainVars, engineVars, dbVars
<1>6. CASE Insert(a)
  <2>1. sess' \in [Attempt -> Session]
    <3>1. using[a] \in Attempt
      BY <1>0, <1>6 DEF Insert
    <3>2. sess[using[a]] \in Session /\ sess[using[a]].rows \cup {a} \in SUBSET Attempt
      BY <3>1 DEF TypeOK, Session
    <3>3. [sess[using[a]] EXCEPT !.rows = sess[using[a]].rows \cup {a}] \in Session
      BY <3>2, SessionUpdate
    <3>4. \/ sess' = sess
          \/ sess' = [sess EXCEPT ![using[a]] = [sess[using[a]] EXCEPT !.rows = sess[using[a]].rows \cup {a}]]
      BY <1>6, InsertEnds
    <3>. QED BY <3>1, <3>3, <3>4 DEF TypeOK
  <2>2. landed' \in [Attempt -> Nat]
    <3>1. landed' = landed \/ landed' = [landed EXCEPT ![a] = landed[a] + 1]
      BY <1>6, InsertEnds
    <3>. QED BY <3>1 DEF TypeOK
  <2>. QED BY <1>6, <2>1, <2>2 DEF Insert, AfterInsert, TypeOK, InsertStep, mainVars, engineVars
<1>7. CASE Recheck(a)
  BY <1>7 DEF Recheck, TypeOK, InsertStep, mainVars, engineVars, dbVars
<1>8. CASE Discard(a)
  <2>1. sess' \in [Attempt -> Session]
    BY <1>0, <1>8, ClosedType DEF Discard, TypeOK
  <2>. QED BY <1>8, <2>1 DEF Discard, TypeOK, InsertStep, mainVars, engineVars
<1>9. CASE StartCommit(a)
  BY <1>9 DEF StartCommit, TypeOK, InsertStep, mainVars, engineVars, dbVars
<1>10. CASE Commit(a)
  <2>1. sess' \in [Attempt -> Session]
    <3>1. using[a] \in Attempt
      BY <1>0, <1>10 DEF Commit
    <3>2. [sess[using[a]] EXCEPT !.tx = FALSE, !.rows = {}] \in Session
      BY <3>1, SessionUpdate DEF TypeOK
    <3>3. sess' = [sess EXCEPT ![using[a]] = [sess[using[a]] EXCEPT !.tx = FALSE, !.rows = {}]]
      BY <1>10, CommitEnds
    <3>. QED BY <3>1, <3>2, <3>3 DEF TypeOK
  <2>2. landed' \in [Attempt -> Nat]
    <3>1. \/ landed' = landed
          \/ landed' = [b \in Attempt |-> IF b \in sess[using[a]].rows THEN landed[b] + 1 ELSE landed[b]]
      BY <1>10, CommitEnds
    <3>. QED BY <3>1 DEF TypeOK
  <2>. QED BY <1>10, <2>1, <2>2 DEF Commit, TypeOK, InsertStep, mainVars, engineVars
<1>11. CASE Close(a)
  <2>1. sess' \in [Attempt -> Session]
    BY <1>0, <1>11, ClosedType DEF Close, TypeOK
  <2>. QED BY <1>11, <2>1 DEF Close, TypeOK, InsertStep, mainVars, engineVars
<1>12. CASE Mark(a)
  BY <1>12 DEF Mark, TypeOK, InsertStep, mainVars, engineVars, dbVars
<1>. QED BY <1>1, <1>2, <1>3, <1>4, <1>5, <1>6, <1>7, <1>8, <1>9, <1>10, <1>11, <1>12 DEF InsertStep

LEMMA InsertStepSessions ==
  ASSUME TypeOK, SessionsThere, NEW a \in Attempt, InsertStep(a)
  PROVE  SessionsThere'
<1> USE DEF Goto, SessionsThere, TypeOK
<1>1. CASE NewSession(a)
  BY <1>1 DEF NewSession
<1>2. CASE Begin(a) \/ Check(a)
  BY <1>2 DEF Begin, Check, dbVars
<1>8. CASE Abandon(a) \/ Mark(a)
  BY <1>8 DEF Abandon, Mark, dbVars
<1>5. CASE Recheck(a) \/ Discard(a)
  BY <1>5 DEF Recheck, Discard, dbVars
<1>6. CASE Close(a)
  BY <1>6 DEF Close, dbVars
<1>3. CASE StartInsert(a) \/ StartCommit(a)
  BY <1>3 DEF StartInsert, StartCommit, dbVars
<1>4. CASE Insert(a)
  BY <1>4 DEF Insert, AfterInsert
<1>7. CASE Commit(a)
  BY <1>7 DEF Commit
<1>. QED BY <1>1, <1>2, <1>3, <1>4, <1>5, <1>6, <1>7, <1>8 DEF InsertStep

\* One session becomes v, the others stay.
LEMMA SessionAssigned ==
  ASSUME TypeOK, NEW u \in Attempt, NEW v, sess' = [sess EXCEPT ![u] = v]
  PROVE  \A s \in Attempt : sess'[s] = IF s = u THEN v ELSE sess[s]
  BY DEF TypeOK

LEMMA SessionRows == TypeOK => \A s \in Attempt : sess[s] \in Session /\ sess[s].rows \in SUBSET Attempt
<1>1. \A s \in Session : s.rows \in SUBSET Attempt
  BY DEF Session
<1>. QED BY <1>1 DEF TypeOK

\* Rows that go from sessions, or stay, do no harm.
LEMMA RowsShrink ==
  ASSUME TypeOK, OnePlace, landed' = landed,
         \A s \in Attempt : sess'[s].rows \subseteq sess[s].rows,
         \A b \in Attempt : gpc'[b] \in Before => gpc[b] \in Before
  PROVE  OnePlace'
  BY DEF OnePlace

LEMMA InsertStepPlaces ==
  ASSUME TypeOK, SessionsThere, OnePlace, NEW a \in Attempt, InsertStep(a)
  PROVE  OnePlace'
<1> USE DEF Goto
<1>0. /\ gpc[a] \notin {"none", "new"} => session \in Attempt
      /\ gpc[a] \in {"insert", "commit"} => using[a] \in Attempt
  BY DEF SessionsThere
<1>1. CASE NewSession(a) \/ Begin(a) \/ Check(a) \/ Abandon(a) \/ StartInsert(a) \/ Recheck(a)
           \/ Discard(a) \/ StartCommit(a) \/ Close(a) \/ Mark(a)
  <2>1. landed' = landed
    BY <1>1 DEF NewSession, Begin, Check, Abandon, StartInsert, Recheck, Discard, StartCommit,
                Close, Mark, dbVars
  <2>2. \A b \in Attempt : gpc'[b] \in Before => gpc[b] \in Before
    BY <1>1 DEF NewSession, Begin, Check, Abandon, StartInsert, Recheck, Discard, StartCommit,
                Close, Mark, Before, TypeOK
  <2>3. \A s \in Attempt : sess'[s].rows \subseteq sess[s].rows
    <3>1. CASE NewSession(a)
      BY <3>1 DEF NewSession, NoSession, Fresh, TypeOK, Session
    <3>2. CASE Begin(a) /\ sess' = [sess EXCEPT ![session] = [sess[session] EXCEPT !.tx = TRUE]]
      <4>1. session \in Attempt
        BY <1>0, <3>2 DEF Begin
      <4>2. [sess[session] EXCEPT !.tx = TRUE].rows = sess[session].rows
        BY <4>1, SessionRows, SessionUpdate
      <4>. QED BY <3>2, <4>1, <4>2, SessionAssigned
    <3>3. CASE Abandon(a) \/ Discard(a) \/ Close(a)
      <4>1. session \in Attempt /\ sess' = [sess EXCEPT ![session] = Closed(sess[session])]
        BY <1>0, <3>3 DEF Abandon, Discard, Close
      <4>2. Closed(sess[session]).rows \subseteq sess[session].rows
        BY <4>1, SessionRows, ClosedType
      <4>. QED BY <4>1, <4>2, SessionAssigned
    <3>4. CASE UNCHANGED sess
      BY <3>4
    <3>. QED BY <1>1, <3>1, <3>2, <3>3, <3>4 DEF Begin, Check, StartInsert, Recheck, StartCommit, Mark, dbVars
  <2>. QED BY <2>1, <2>2, <2>3, RowsShrink
<1>2. CASE Insert(a)
  <2> DEFINE u == using[a]
  <2>0. gpc[a] = "insert" /\ u \in Attempt /\ gpc' = [gpc EXCEPT ![a] = "recheck"]
    BY <1>0, <1>2 DEF Insert, AfterInsert
  <2>1. landed[a] = 0 /\ \A s \in Attempt : a \notin sess[s].rows
    BY <2>0 DEF OnePlace, Before
  <2>2. \A b \in Attempt : gpc'[b] \in Before => b # a /\ gpc[b] \in Before
    BY <2>0 DEF TypeOK, Before
  <2>3. CASE sess' = [sess EXCEPT ![u] = [sess[u] EXCEPT !.rows = sess[u].rows \cup {a}]] /\ landed' = landed
    <3>1. \A s \in Attempt : sess'[s].rows = IF s = u THEN sess[s].rows \cup {a} ELSE sess[s].rows
      <4>1. sess[u] \in Session /\ sess[u].rows \cup {a} \in SUBSET Attempt
        BY <2>0, SessionRows
      <4> DEFINE more == [sess[u] EXCEPT !.rows = sess[u].rows \cup {a}]
      <4>2. more.rows = sess[u].rows \cup {a}
        BY <4>1, SessionUpdate
      <4>6. sess' = [sess EXCEPT ![u] = more] /\ u \in Attempt
        BY <2>0, <2>3
      <4> HIDE DEF more, u
      <4>3. \A s \in Attempt : sess'[s] = IF s = u THEN more ELSE sess[s]
        BY <4>6, SessionAssigned
      <4>4. ASSUME NEW s \in Attempt, s = u PROVE sess'[s].rows = sess[s].rows \cup {a}
        BY <4>2, <4>3, <4>4
      <4>5. ASSUME NEW s \in Attempt, s # u PROVE sess'[s].rows = sess[s].rows
        BY <4>3, <4>5
      <4>. QED BY <4>4, <4>5
    <3>2. \A b, s \in Attempt : b \in sess'[s].rows <=> b \in sess[s].rows \/ (b = a /\ s = u)
      BY <2>0, <3>1
    <3>3. \A b \in Attempt : b # a =>
             \A s \in Attempt : b \in sess'[s].rows <=> b \in sess[s].rows
      BY <3>2
    <3>4. \A s \in Attempt : a \in sess'[s].rows <=> s = u
      BY <2>1, <3>2
    <3>5. \A b \in Attempt : b # a =>
            /\ landed'[b] \in {0, 1}
            /\ gpc'[b] \in Before => landed'[b] = 0 /\ \A s \in Attempt : b \notin sess'[s].rows
            /\ \A s \in Attempt : b \in sess'[s].rows =>
                 /\ landed'[b] = 0
                 /\ \A r \in Attempt : b \in sess'[r].rows => r = s
      BY <2>2, <2>3, <3>3 DEF OnePlace
    <3>6. /\ landed'[a] \in {0, 1}
          /\ gpc'[a] \notin Before
          /\ \A s \in Attempt : a \in sess'[s].rows =>
               /\ landed'[a] = 0
               /\ \A r \in Attempt : a \in sess'[r].rows => r = s
      BY <2>1, <2>2, <2>3, <3>4
    <3>. QED BY <3>5, <3>6 DEF OnePlace
  <2>4. CASE landed' = [landed EXCEPT ![a] = landed[a] + 1] /\ sess' = sess
    BY <2>1, <2>2, <2>4 DEF OnePlace, TypeOK
  <2>5. CASE landed' = landed /\ sess' = sess
    BY <2>2, <2>5 DEF OnePlace
  <2>. QED BY <1>2, <2>3, <2>4, <2>5, InsertEnds
<1>3. CASE Commit(a)
  <2> DEFINE u == using[a]
  <2>0. u \in Attempt /\ \A b \in Attempt : gpc'[b] \in Before => gpc[b] \in Before
    BY <1>0, <1>3 DEF Commit, Before, TypeOK
  <2>1. \A s \in Attempt : sess'[s].rows = IF s = u THEN {} ELSE sess[s].rows
    <3>1. [sess[u] EXCEPT !.tx = FALSE, !.rows = {}].rows = {}
      BY <2>0, SessionRows, SessionUpdate
    <3>2. sess' = [sess EXCEPT ![u] = [sess[u] EXCEPT !.tx = FALSE, !.rows = {}]]
      BY <1>3, CommitEnds
    <3>3. \A s \in Attempt : sess'[s] = IF s = u THEN [sess[u] EXCEPT !.tx = FALSE, !.rows = {}] ELSE sess[s]
      BY <2>0, <3>2, SessionAssigned
    <3>. QED BY <3>1, <3>3
  <2>2. CASE landed' = [b \in Attempt |-> IF b \in sess[u].rows THEN landed[b] + 1 ELSE landed[b]]
    <3>1. \A b \in Attempt : landed'[b] = IF b \in sess[u].rows THEN 1 ELSE landed[b]
      BY <2>0, <2>2 DEF OnePlace
    <3>2. \A b, s \in Attempt : b \in sess'[s].rows <=> s # u /\ b \in sess[s].rows
      BY <2>1
    <3>3. \A b \in Attempt : landed'[b] \in {0, 1}
      BY <3>1 DEF OnePlace
    <3>4. \A b \in Attempt : gpc'[b] \in Before =>
             landed'[b] = 0 /\ \A s \in Attempt : b \notin sess'[s].rows
      BY <2>0, <3>1, <3>2 DEF OnePlace
    <3>5. \A b, s \in Attempt : b \in sess'[s].rows =>
             /\ landed'[b] = 0
             /\ \A r \in Attempt : b \in sess'[r].rows => r = s
      BY <2>0, <3>1, <3>2 DEF OnePlace
    <3>. QED BY <3>3, <3>4, <3>5 DEF OnePlace
  <2>3. CASE landed' = landed
    BY <2>0, <2>1, <2>3, RowsShrink
  <2>. QED BY <1>3, <2>2, <2>3, CommitEnds
<1>. QED BY <1>1, <1>2, <1>3 DEF InsertStep

\* Store and its timers touch neither sessions nor rows.
LEMMA StepsPlaces ==
  ASSUME IInv, Steps
  PROVE  SessionsThere' /\ OnePlace'
<1>1. session' = session /\ sess' = sess /\ landed' = landed /\ using' = using
  BY DEF Steps, MainStep, StartStore, BirthDB, Prepare, CallInsert, InsertDone, InsertTimesOut,
         Retry, DeadDB, BirthTimesOut, LateBirth, IndexPanic, callVars, dbVars
<1>2. gpc' = gpc \/ (CallInsert /\ gpc' = [gpc EXCEPT ![Current] = "new"])
  BY DEF Steps, MainStep, StartStore, BirthDB, Prepare, CallInsert, InsertDone, InsertTimesOut,
         Retry, DeadDB, BirthTimesOut, LateBirth, IndexPanic, callVars, dbVars
<1>3. CASE gpc' = gpc
  BY <1>1, <1>3 DEF IInv, SessionsThere, OnePlace
<1>4. CASE CallInsert /\ gpc' = [gpc EXCEPT ![Current] = "new"]
  <2>1. Current \in Attempt
    BY <1>4, CurrentCall DEF IInv, CallInsert, InOrder
  <2>2. Current \notin Asked
    <3>1. ~Load!After(Current, Current)
      BY DEF Load!After, Current, IInv, TypeOK
    <3>. QED BY <1>4, <3>1 DEF IInv, CallInsert, InOrder
  <2>3. \A b \in Attempt : /\ gpc'[b] \in Before => gpc[b] \in Before
                           /\ gpc'[b] \notin {"none", "new"} => gpc'[b] = gpc[b]
    BY <1>4, <2>1, <2>2 DEF IInv, TypeOK, Asked, Before
  <2>4. SessionsThere'
    BY <1>1, <2>3 DEF IInv, SessionsThere
  <2>. QED BY <1>1, <2>3, <2>4, RowsShrink DEF IInv
<1>. QED BY <1>2, <1>3, <1>4

\* A step of a goroutine asks for nothing.
LEMMA InsertStepAsks ==
  ASSUME TypeOK, NEW a \in Attempt, InsertStep(a)
  PROVE  Asked' = Asked
<1> USE DEF Goto
<1>1. gpc[a] # "none" /\ \E p \in Places \ {"none"} : gpc' = [gpc EXCEPT ![a] = p]
  <2>1. CASE Insert(a) \/ Recheck(a) \/ Check(a)
    BY <2>1 DEF Insert, AfterInsert, Recheck, Check, Places
  <2>2. CASE NewSession(a) \/ Begin(a) \/ Abandon(a) \/ StartInsert(a) \/ Discard(a)
    BY <2>2 DEF NewSession, Begin, Abandon, StartInsert, Discard, Places
  <2>3. CASE StartCommit(a) \/ Commit(a) \/ Close(a) \/ Mark(a)
    BY <2>3 DEF StartCommit, Commit, Close, Mark, Places
  <2>. QED BY <2>1, <2>2, <2>3 DEF InsertStep
<1>. QED BY <1>1 DEF Asked, TypeOK

LEMMA InsertStepOrder ==
  ASSUME TypeOK, InOrder, NEW a \in Attempt, InsertStep(a)
  PROVE  InOrder'
<1>1. Asked' = Asked
  BY InsertStepAsks
<1>2. /\ mpc' = mpc /\ store' = store /\ tables' = tables /\ idx' = idx /\ try' = try
      /\ Current' = Current
  BY DEF InsertStep, mainVars, Current
<1>. QED BY <1>1, <1>2 DEF InOrder

\* What Store asks for next is later than all it has asked for.
LEMMA NextIsLater ==
  ASSUME TypeOK, store \in Stores, NEW b \in Attempt,
         b = Current \/ Load!After(Current, b)
  PROVE  /\ Load!After(<<store, idx + 1, 1>>, b)
         /\ try = 1 => Load!After(<<store, idx, 2>>, b)
         /\ b[1] <= store
  BY DEF TypeOK, Current, Load!After, Attempt

LEMMA StepsAsk ==
  ASSUME IInv, Steps
  PROVE  \/ Asked' = Asked /\ ~CallInsert
         \/ CallInsert /\ Current \in Attempt /\ Asked' = Asked \cup {Current}
<1>1. CASE CallInsert
  <2>1. Current \in Attempt
    BY <1>1, CurrentCall DEF IInv, CallInsert, InOrder
  <2>. QED BY <1>1, <2>1 DEF IInv, TypeOK, CallInsert, Asked
<1>2. CASE ~CallInsert
  <2>1. gpc' = gpc
    BY <1>2 DEF Steps, MainStep, StartStore, BirthDB, Prepare, InsertDone, InsertTimesOut,
                Retry, DeadDB, BirthTimesOut, LateBirth, IndexPanic, callVars
  <2>. QED BY <1>2, <2>1 DEF Asked
<1>. QED BY <1>1, <1>2

LEMMA StepsOrder ==
  ASSUME IInv, Steps
  PROVE  InOrder'
<1> USE DEF IInv
<1>0. \A b \in Asked : b \in Attempt
  BY DEF Asked
<1>1. CASE StartStore
  <2>1. Asked' = Asked
    BY <1>1 DEF StartStore, Asked, callVars
  <2>2. Current' = <<store + 1, 1, 1>> /\ store' = store + 1 /\ store \in Nat /\ store + 1 \in Stores
    BY <1>1 DEF StartStore, Current, TypeOK
  <2>3. \A b \in Asked : Load!After(<<store + 1, 1, 1>>, b)
    BY <1>0, <1>1, <2>2 DEF StartStore, InOrder, Load!After, Attempt
  <2>. QED BY <1>1, <2>1, <2>2, <2>3 DEF StartStore, InOrder
<1>2. CASE BirthDB \/ BirthTimesOut \/ LateBirth
  <2>1. Asked' = Asked /\ Current' = Current
    BY <1>2 DEF BirthDB, BirthTimesOut, LateBirth, Asked, Current, mainVars, callVars
  <2>. QED BY <1>2, <2>1 DEF BirthDB, BirthTimesOut, LateBirth, mainVars, InOrder
<1>3. CASE Prepare
  <2>1. Asked' = Asked /\ Current' = Current
    BY <1>3 DEF Prepare, Asked, Current, callVars
  <2>. QED BY <1>3, <2>1 DEF Prepare, InOrder
<1>4. CASE CallInsert
  <2>1. Asked' = Asked \cup {Current} /\ Current' = Current
    BY <1>4, StepsAsk DEF CallInsert, Current
  <2>. QED BY <1>4, <2>1 DEF CallInsert, InOrder
<1>5. CASE (InsertDone \/ InsertTimesOut \/ Retry) /\ NextTable
  <2>1. Asked' = Asked /\ Current' = <<store, idx + 1, 1>> /\ store' = store /\ try' = 1
        /\ mpc' = "call" /\ mpc \in {"wait", "again"}
    BY <1>5 DEF InsertDone, InsertTimesOut, Retry, NextTable, Asked, Current, callVars
  <2>2. store \in Stores /\ \A b \in Asked : b = Current \/ Load!After(Current, b)
    BY <2>1 DEF InOrder
  <2>3. \A b \in Asked : Load!After(<<store, idx + 1, 1>>, b)
    BY <1>0, <2>2, NextIsLater
  <2>. QED BY <2>1, <2>2, <2>3 DEF InOrder
<1>6. CASE InsertTimesOut /\ ~NextTable
  <2>1. Asked' = Asked /\ Current' = Current /\ mpc' = "again" /\ mpc = "wait" /\ try = 1
        /\ store' = store /\ idx' = idx /\ tables' = tables /\ try' = try
    BY <1>6 DEF InsertTimesOut, Asked, Current, callVars, TypeOK
  <2>. QED BY <2>1 DEF InOrder
<1>7. CASE Retry /\ ~NextTable
  <2>1. Asked' = Asked /\ Current' = <<store, idx, 2>> /\ mpc' = "call" /\ mpc = "again" /\ try = 1
        /\ store' = store /\ idx' = idx /\ tables' = tables /\ try' = 2
    BY <1>7 DEF Retry, Asked, Current, callVars, InOrder
  <2>2. store \in Stores /\ \A b \in Asked : b = Current \/ Load!After(Current, b)
    BY <2>1 DEF InOrder
  <2>3. \A b \in Asked : Load!After(<<store, idx, 2>>, b)
    BY <1>0, <2>1, <2>2, NextIsLater
  <2>4. Current = <<store, idx, 1>>
    BY <2>1 DEF Current
  <2>. QED BY <2>1, <2>2, <2>3, <2>4 DEF InOrder
<1>8. CASE DeadDB
  <2>1. Asked' = Asked /\ mpc' = "idle" /\ mpc = "call" /\ store' = store
    BY <1>8 DEF DeadDB, Asked, callVars
  <2>2. store \in Stores /\ \A b \in Asked : Load!After(Current, b)
    BY <2>1 DEF InOrder
  <2>3. \A b \in Asked : b[1] <= store
    BY <1>0, <2>2, NextIsLater
  <2>. QED BY <2>1, <2>3 DEF InOrder
<1>9. CASE IndexPanic
  BY <1>9 DEF IndexPanic, InOrder
<1>. QED BY <1>1, <1>2, <1>3, <1>4, <1>5, <1>6, <1>7, <1>8, <1>9
         DEF Steps, MainStep, InsertDone

LEMMA Beginning == Init => IInv
<1> SUFFICES ASSUME Init PROVE IInv
  OBVIOUS
<1>1. TypeOK
  BY NoSessionType DEF Init, TypeOK, Places
<1>2. SessionsThere
  BY DEF Init, SessionsThere
<1>3. OnePlace
  BY DEF Init, OnePlace, NoSession
<1>4. InOrder
  BY DEF Init, InOrder, Asked
<1>. QED BY <1>1, <1>2, <1>3, <1>4 DEF IInv

LEMMA Invariance == IInv /\ [Next]_vars => IInv'
<1> SUFFICES ASSUME IInv, [Next]_vars PROVE IInv'
  OBVIOUS
<1>1. CASE Steps
  BY <1>1, MainStepType, StepsPlaces, StepsOrder DEF IInv
<1>2. ASSUME NEW a \in Attempt, InsertStep(a) PROVE IInv'
  BY <1>2, InsertStepType, InsertStepSessions, InsertStepPlaces, InsertStepOrder DEF IInv
<1>3. CASE UNCHANGED vars
  BY <1>3 DEF vars, mainVars, engineVars, callVars, dbVars, IInv, TypeOK, SessionsThere, OnePlace,
              InOrder, Asked, Current
<1>. QED BY <1>1, <1>2, <1>3 DEF Next, Steps

\* Every variable keeps its type, whatever overtakes what: the session that a
\* goroutine of InsertTableWithTimeout finds in the package variable exists.
THEOREM TypeCorrect == Spec => []TypeOK
<1>1. IInv => TypeOK
  BY DEF IInv
<1>. QED BY Beginning, Invariance, <1>1, PTL DEF Spec

\* Rows that are in a session are not in the database; those that come are new.
LEMMA InsertStepLands ==
  ASSUME IInv, NEW a \in Attempt, InsertStep(a)
  PROVE  \A b \in Attempt : landed'[b] # landed[b] => b \in Asked /\ landed[b] = 0
<1>1. CASE Insert(a)
  <2>1. gpc[a] = "insert"
    BY <1>1 DEF Insert
  <2>2. landed' = landed \/ landed' = [landed EXCEPT ![a] = landed[a] + 1]
    BY <1>1, InsertEnds
  <2>. QED BY <2>1, <2>2 DEF IInv, TypeOK, OnePlace, Asked, Before
<1>2. CASE Commit(a)
  <2>1. using[a] \in Attempt
    BY <1>2 DEF IInv, SessionsThere, Commit
  <2>2. \/ landed' = landed
        \/ landed' = [b \in Attempt |-> IF b \in sess[using[a]].rows THEN landed[b] + 1 ELSE landed[b]]
    BY <1>2, CommitEnds
  <2>. QED BY <2>1, <2>2 DEF IInv, OnePlace, Asked, Before
<1>3. CASE ~Insert(a) /\ ~Commit(a)
  <2>1. landed' = landed
    BY <1>3 DEF InsertStep, NewSession, Begin, Check, Abandon, StartInsert, Recheck, Discard,
                StartCommit, Close, Mark, dbVars
  <2>. QED BY <2>1
<1>. QED BY <1>1, <1>2, <1>3

\* A step of Store asks or does nothing that the promise speaks of; a step of a
\* goroutine lands rows or does nothing.
LEMMA StepMaps == IInv /\ [Next]_vars => [Load!Next]_(Load!vars)
<1> SUFFICES ASSUME IInv, [Next]_vars PROVE [Load!Next]_(Load!vars)
  OBVIOUS
<1>0. /\ Load!vars = <<Asked, landed>> /\ Load!vars' = <<Asked', landed'>>
      /\ Load!Attempt = Attempt
  BY DEF Load!vars, Load!Attempt, Asked, Attempt
<1>1. CASE Steps
  <2>1. landed' = landed
    BY <1>1 DEF Steps, MainStep, StartStore, BirthDB, Prepare, CallInsert, InsertDone, InsertTimesOut,
                Retry, DeadDB, BirthTimesOut, LateBirth, IndexPanic, dbVars
  <2>2. CASE Asked' = Asked
    BY <1>0, <2>1, <2>2
  <2>3. CASE CallInsert /\ Current \in Attempt /\ Asked' = Asked \cup {Current}
    <3>1. mpc = "call" /\ \A b \in Asked : Load!After(Current, b)
      BY <2>3 DEF CallInsert, IInv, InOrder
    <3>2. ~Load!After(Current, Current)
      BY DEF Load!After, Current, IInv, TypeOK
    <3>3. Current[3] = 2 => <<Current[1], Current[2], 1>> \in Asked
      BY <3>1 DEF IInv, InOrder, Current
    <3>4. PICK a \in Attempt : a = Current
      BY <2>3
    <3>5. Load!Ask(a)
      BY <2>1, <2>3, <3>1, <3>2, <3>3, <3>4 DEF Load!Ask, Asked
    <3>. QED BY <1>0, <3>5 DEF Load!Next
  <2>. QED BY <1>1, <2>2, <2>3, StepsAsk
<1>2. ASSUME NEW a \in Attempt, InsertStep(a) PROVE [Load!Next]_(Load!vars)
  <2>1. Asked' = Asked
    BY <1>2, InsertStepAsks DEF IInv
  <2>2. landed' \in [Attempt -> {0, 1}]
    <3>1. TypeOK' /\ OnePlace'
      BY <1>2, InsertStepType, InsertStepPlaces DEF IInv
    <3>. QED BY <3>1 DEF TypeOK, OnePlace
  <2>3. \A b \in Attempt : landed'[b] # landed[b] => b \in Asked /\ landed[b] = 0
    BY <1>2, InsertStepLands
  <2>4. Load!Land
    BY <1>0, <2>1, <2>2, <2>3 DEF Load!Land, Asked
  <2>. QED BY <2>4 DEF Load!Next
<1>3. CASE UNCHANGED vars
  BY <1>0, <1>3 DEF vars, callVars, dbVars, Asked
<1>. QED BY <1>1, <1>2, <1>3 DEF Next, Steps

\* Whatever fails, is late or overtakes what: Store asks for its tables in their
\* order, and the rows of a call come into the database together and once at
\* most, whichever goroutine of InsertTableWithTimeout commits them.
THEOREM RowsOnceCorrect == Spec => RowsOnce
<1>1. Init => Load!Init
  BY DEF Init, Load!Init, Load!Attempt, Attempt
<1>. QED BY Beginning, Invariance, StepMaps, <1>1, PTL DEF Spec, RowsOnce, Load!Spec
=============================================================================
