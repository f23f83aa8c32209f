-------------------------- MODULE DiscoveryProofs ---------------------------
(***************************************************************************)
(* Theorems about Discovery, for all ports, versions and communities, any  *)
(* number of goroutines, every order of the results, and a caller that may *)
(* cancel the search.                                                      *)
(*                                                                         *)
(* The argument: a job is in one place only (channel in, one goroutine,    *)
(* channel out, or taken by the search), so that the number of results     *)
(* counts the jobs taken; when it reaches the number of jobs, all have     *)
(* been taken and the search knows how each of them went.                  *)
(***************************************************************************)
EXTENDS Discovery, FiniteSetTheorems, TLAPS

\* The jobs whose results the search has seen.
Taken == {j \in Jobs : j \notin in /\ j \notin out /\ \A w \in Workers : j \notin job[w]}

\* No job is in two places, and only a goroutine that works has one.
Placed ==
  /\ in \cap out = {}
  /\ \A w \in Workers : job[w] \cap in = {} /\ job[w] \cap out = {}
  /\ \A w, v \in Workers : w # v => job[w] \cap job[v] = {}
  /\ \A w \in Workers : \A i, j \in job[w] : i = j
  /\ \A w \in Workers : wpc[w] \in {"none", "select", "gone"} => job[w] = {}

\* A result is known from the moment it is sent.
Tried ==
  /\ \A w \in Workers : wpc[w] = "send" => \A j \in job[w] : outcome[j] \in Outcomes
  /\ \A j \in out : outcome[j] \in Outcomes
  /\ pc # "fill" => \A j \in Taken : outcome[j] \in Outcomes

\* The counters count jobs.
Counted ==
  /\ pc = "fill" =>
       /\ amount = Cardinality(in) /\ received = 0 /\ out = {}
       /\ client = 0 /\ ~critical
       /\ \A w \in Workers : wpc[w] = "none"
  /\ pc # "fill" => amount = Cardinality(Jobs) /\ received = Cardinality(Taken)

\* What the search knows is right for the jobs it has taken.
Known ==
  /\ pc # "fill" =>
       /\ client # 0 => \E j \in Taken : j.version = client /\ outcome[j] = "ok"
       /\ critical <=> \E j \in Taken : outcome[j] = "critical"
  /\ pc = "collect" => \A j \in Taken : outcome[j] = "ok" => j.version <= client
  /\ pc = "returned" =>
       \A j \in Jobs : j.version > client => j \in Taken /\ outcome[j] # "ok"

IInv == TypeOK /\ Placed /\ Tried /\ Counted /\ Known
-----------------------------------------------------------------------------
\* What the caller asks for is among the constants, and stays.
DataOK == versions \subseteq Versions /\ communities \subseteq Communities

LEMMA JobsSame == UNCHANGED dataVars => Jobs' = Jobs
  BY DEF dataVars, Jobs

LEMMA JobVersions ==
  ASSUME DataOK
  PROVE  \A j \in Jobs : j.version \in versions /\ j.version \in 1..3
  BY VersionsAssumption DEF Jobs, DataOK

\* The jobs are finitely many, like the combinations they stand for.
LEMMA JobsFinite ==
  ASSUME DataOK
  PROVE  IsFiniteSet(Jobs) /\ Cardinality(Jobs) \in Nat
<1> DEFINE C == communities \cup {"none"}
           P == (Ports \X versions) \X C
           f == [j \in Jobs |-> <<<<j.port, j.version>>, j.community>>]
<1>0. IsFiniteSet(versions) /\ IsFiniteSet(communities)
  BY FiniteAssumption, FS_Subset DEF DataOK
<1>1. IsFiniteSet(C)
  BY <1>0, FS_AddElement, Zenon
<1>2. IsFiniteSet(Ports \X versions)
  BY <1>0, FiniteAssumption, FS_Product
<1>3. IsFiniteSet(P)
  BY <1>1, <1>2, FS_Product
<1>4. f \in Injection(Jobs, P)
  <2>1. f \in [Jobs -> P]
    BY DEF Jobs
  <2>2. \A i, j \in Jobs : f[i] = f[j] => i = j
    BY DEF Jobs
  <2>. QED BY <2>1, <2>2 DEF Injection, IsInjective
<1>5. IsFiniteSet(Jobs)
  BY <1>3, <1>4, FS_Injection
<1>. QED BY <1>5, FS_CardinalityType

\* A set of jobs is finite, and it is all of them when it counts as many.
LEMMA SubsetCount ==
  ASSUME DataOK, NEW S \in SUBSET Jobs
  PROVE  /\ IsFiniteSet(S)
         /\ Cardinality(S) \in 0..Cardinality(Jobs)
         /\ Cardinality(S) = Cardinality(Jobs) => S = Jobs
<1>1. IsFiniteSet(S) /\ Cardinality(S) <= Cardinality(Jobs)
  BY JobsFinite, FS_Subset
<1>2. Cardinality(S) = Cardinality(Jobs) => S = Jobs
  BY JobsFinite, FS_Subset
<1>3. Cardinality(S) \in Nat
  BY <1>1, FS_CardinalityType
<1>. QED BY <1>1, <1>2, <1>3, JobsFinite
-----------------------------------------------------------------------------
LEMMA InitInv == Init => IInv
<1> SUFFICES ASSUME Init PROVE IInv
  OBVIOUS
<1>1. Cardinality({}) = 0
  BY FS_EmptySet
<1>0. DataOK
  BY DEF Init, DataOK
<1>2. TypeOK
  <2>1. 0 \in 0..Cardinality(Jobs) /\ 0 \in 0..0
    BY <1>0, JobsFinite
  <2>2. amount \in 0..Cardinality(Jobs) /\ received \in 0..amount
    BY <2>1 DEF Init, NoJobs
  <2>3. in \subseteq Jobs /\ out \subseteq Jobs /\ job \in [Workers -> SUBSET Jobs]
    BY DEF Init
  <2>4. wpc \in [Workers -> {"none", "select", "try", "send", "gone"}]
    BY DEF Init
  <2>5. outcome \in [Jobs -> Outcomes \cup {"none"}]
    BY DEF Init
  <2>6. pc \in {"fill", "collect", "returned"} /\ client \in 0..3
    BY DEF Init
  <2>7. cancelled \in BOOLEAN /\ critical \in BOOLEAN
    BY Zenon DEF Init
  <2>. QED BY <2>2, <2>3, <2>4, <2>5, <2>6, <2>7, <1>0, Zenon DEF TypeOK, DataOK
<1>3. Placed /\ Tried /\ Known
  BY DEF Init, Placed, Tried, Known
<1>4. Counted
  BY <1>1 DEF Init, Counted, NoJobs
<1>. QED BY <1>2, <1>3, <1>4 DEF IInv

LEMMA FillInv ==
  ASSUME IInv, NEW j \in Jobs, Fill(j)
  PROVE  IInv'
<1> USE DEF IInv, Fill
<1>0. DataOK /\ versions' = versions /\ communities' = communities /\ Jobs' = Jobs
  BY JobsSame DEF IInv, TypeOK, DataOK, mainVars, dataVars
<1>1. in \in SUBSET Jobs /\ in' \in SUBSET Jobs /\ j \notin in /\ in' = in \cup {j}
  BY <1>0 DEF TypeOK
<1>2. IsFiniteSet(in)
  BY <1>0, <1>1, SubsetCount
<1>3. Cardinality(in') = Cardinality(in) + 1
  BY <1>0, <1>1, <1>2, FS_AddElement
<1>4. amount' = Cardinality(in') /\ amount' \in 0..Cardinality(Jobs)
  BY <1>0, <1>1, <1>3, SubsetCount DEF Counted
<1>5. TypeOK'
  BY <1>0, <1>1, <1>4, JobsFinite DEF TypeOK, mainVars, workerVars, Counted
<1>6. Placed'
  BY <1>0 DEF Placed, Counted, workerVars
<1>7. Tried' /\ Known'
  BY <1>0 DEF Tried, Known, Counted, workerVars
<1>8. Counted'
  BY <1>0, <1>4 DEF Counted, workerVars
<1>. QED BY <1>5, <1>6, <1>7, <1>8

LEMMA StartWorkersInv ==
  ASSUME IInv, StartWorkers
  PROVE  IInv'
<1> USE DEF IInv, StartWorkers
<1>0. DataOK /\ versions' = versions /\ communities' = communities /\ Jobs' = Jobs
  BY JobsSame DEF IInv, TypeOK, DataOK, mainVars, dataVars
<1>1. TypeOK'
  BY <1>0 DEF TypeOK
<1>2. Placed'
  BY <1>0 DEF Placed, Counted
<1>3. Taken' = {}
  BY <1>0 DEF Taken
<1>4. Tried' /\ Known'
  BY <1>0, <1>3 DEF Tried, Known, Counted
<1>5. Counted'
  BY <1>0, <1>3, FS_EmptySet DEF Counted
<1>. QED BY <1>1, <1>2, <1>4, <1>5

\* A job that is taken from out is one more in Taken.
LEMMA OneMoreTaken ==
  ASSUME IInv, pc = "collect", NEW j \in out,
         out' = out \ {j}, received' = received + 1, UNCHANGED <<dataVars, in, job, amount>>
  PROVE  /\ j \in Jobs /\ j \notin Taken /\ Taken' = Taken \cup {j}
         /\ received' = Cardinality(Taken')
         /\ received' \in 0..amount'
         /\ outcome[j] \in Outcomes
<1>0. DataOK /\ versions' = versions /\ communities' = communities /\ Jobs' = Jobs
  BY JobsSame DEF IInv, TypeOK, DataOK, mainVars, dataVars
<1>1. j \in Jobs /\ j \notin Taken /\ outcome[j] \in Outcomes
  BY <1>0 DEF IInv, TypeOK, Taken, Tried
<1>2. Taken' = Taken \cup {j}
  BY <1>0, <1>1 DEF IInv, Placed, Taken
<1>3. Taken \in SUBSET Jobs /\ Taken' \in SUBSET Jobs
  BY <1>0 DEF Taken
<1>4. IsFiniteSet(Taken)
  BY <1>0, <1>3, SubsetCount
<1>5. Cardinality(Taken') = Cardinality(Taken) + 1
  BY <1>0, <1>1, <1>2, <1>4, FS_AddElement
<1>6. received' = Cardinality(Taken')
  BY <1>0, <1>5 DEF IInv, Counted
<1>7. received' \in 0..amount'
  BY <1>0, <1>3, <1>6, SubsetCount DEF IInv, Counted
<1>. QED BY <1>1, <1>2, <1>6, <1>7

LEMMA TakeErrorInv ==
  ASSUME IInv, NEW j \in Jobs, TakeError(j)
  PROVE  IInv'
<1> USE DEF IInv, TakeError
<1>0. DataOK /\ versions' = versions /\ communities' = communities /\ Jobs' = Jobs
  BY JobsSame DEF IInv, TypeOK, DataOK, mainVars, dataVars
<1>1. /\ j \notin Taken /\ Taken' = Taken \cup {j}
      /\ received' = Cardinality(Taken') /\ received' \in 0..amount'
      /\ outcome[j] \in Outcomes
  BY <1>0, OneMoreTaken DEF workerVars
<1>2. outcome[j] # "ok"
  BY <1>0 DEF Usable
<1>3. critical' \in BOOLEAN /\ (critical' <=> critical \/ outcome[j] = "critical")
  BY <1>0, Zenon DEF IsCritical
<1>4. TypeOK'
  BY <1>0, <1>1, <1>3 DEF TypeOK, workerVars
<1>5. Placed'
  BY <1>0 DEF Placed, workerVars
<1>6. Tried'
  BY <1>0, <1>1 DEF Tried, workerVars
<1>7. Counted'
  BY <1>0, <1>1 DEF Counted, workerVars
<1>8. Known'
  <2>1. client' # 0 => \E i \in Taken' : i.version = client' /\ outcome'[i] = "ok"
    BY <1>0, <1>1 DEF Known
  <2>2. critical <=> \E i \in Taken : outcome[i] = "critical"
    BY <1>0 DEF Known
  <2>3. critical' <=> \E i \in Taken' : outcome'[i] = "critical"
    BY <1>0, <1>1, <1>3, <2>2
  <2>4. \A i \in Taken' : outcome'[i] = "ok" => i.version <= client'
    BY <1>0, <1>1, <1>2 DEF Known
  <2>. QED BY <1>0, <2>1, <2>3, <2>4 DEF Known
<1>. QED BY <1>4, <1>5, <1>6, <1>7, <1>8

\* The search ends early only with a version that cannot be bettered.
LEMMA DecidesBest ==
  ASSUME DataOK, NEW v \in 1..3, Decides(v)
  PROVE  \A i \in Jobs : i.version <= v
<1> SUFFICES ASSUME NEW i \in Jobs PROVE i.version <= v
  OBVIOUS
<1>1. i.version \in versions /\ i.version \in 1..3
  BY JobVersions
<1>2. v = 2 => i.version # 3
  BY <1>1 DEF Decides
<1>3. v = 1 => i.version \notin {2, 3}
  BY <1>1 DEF Decides
<1>. QED BY <1>1, <1>2, <1>3

\* The client that is kept is one of the two, and no worse than either.
LEMMA BetterIsBetter ==
  ASSUME NEW v \in 1..3, NEW c \in 0..3
  PROVE  Better(v, c) \in {v, c} /\ v <= Better(v, c) /\ c <= Better(v, c)
  BY DEF Better

LEMMA TakeClientInv ==
  ASSUME IInv, NEW j \in Jobs, TakeClient(j)
  PROVE  IInv'
<1> USE DEF IInv, TakeClient
<1>0. DataOK /\ versions' = versions /\ communities' = communities /\ Jobs' = Jobs
  BY JobsSame DEF IInv, TypeOK, DataOK, mainVars, dataVars
<1>1. /\ j \notin Taken /\ Taken' = Taken \cup {j}
      /\ received' = Cardinality(Taken') /\ received' \in 0..amount'
      /\ outcome[j] \in Outcomes
  BY <1>0, OneMoreTaken DEF workerVars
<1>2. outcome[j] = "ok"
  BY <1>0 DEF Usable
<1>3. j.version \in 1..3 /\ client \in 0..3
  BY <1>0, JobVersions DEF TypeOK
<1>4. \/ /\ Decides(j.version) /\ pc' = "returned" /\ cancelled' = TRUE /\ client' = j.version
      \/ /\ ~Decides(j.version) /\ pc' = pc /\ cancelled' = cancelled
         /\ client' = Better(j.version, client)
  BY <1>0 DEF Return
<1>5. client' \in {j.version, client} /\ j.version <= client'
  BY <1>0, <1>3, <1>4, BetterIsBetter
<1>6. pc' = "collect" => client <= client'
  BY <1>0, <1>3, <1>4, BetterIsBetter
<1>7. client' \in 0..3 /\ pc' \in {"collect", "returned"}
  BY <1>0, <1>3, <1>4, <1>5
<1>8. cancelled' \in BOOLEAN
  BY <1>0, <1>4 DEF TypeOK
<1>9. TypeOK'
  BY <1>0, <1>1, <1>7, <1>8 DEF TypeOK, workerVars
<1>10. Placed'
  BY <1>0 DEF Placed, workerVars
<1>11. Tried'
  BY <1>0, <1>1 DEF Tried, workerVars
<1>12. Counted'
  BY <1>0, <1>1, <1>7 DEF Counted, workerVars
<1>13. Known'
  <2>1. \E i \in Taken' : i.version = client' /\ outcome'[i] = "ok"
    BY <1>0, <1>1, <1>2, <1>3, <1>5 DEF Known
  <2>2. critical' <=> \E i \in Taken' : outcome'[i] = "critical"
    BY <1>0, <1>1, <1>2 DEF Known
  <2>3. pc' = "collect" => \A i \in Taken' : outcome'[i] = "ok" => i.version <= client'
    <3> SUFFICES ASSUME pc' = "collect", NEW i \in Taken', outcome'[i] = "ok"
                 PROVE  i.version <= client'
      OBVIOUS
    <3>1. CASE i = j
      BY <1>0, <3>1, <1>5
    <3>2. CASE i \in Taken
      <4>1. i.version <= client
        BY <1>0, <3>2 DEF Known
      <4>2. i.version \in 1..3
        BY <1>0, <3>2, JobVersions DEF Taken
      <4>. QED BY <1>0, <4>1, <4>2, <1>3, <1>6, <1>7
    <3>. QED BY <1>0, <3>1, <3>2, <1>1
  <2>4. pc' = "returned" => \A i \in Jobs : ~(i.version > client')
    <3> SUFFICES ASSUME pc' = "returned", NEW i \in Jobs PROVE ~(i.version > client')
      OBVIOUS
    <3>1. Decides(j.version) /\ client' = j.version
      BY <1>0, <1>4
    <3>. QED BY <1>0, <3>1, <1>3, DecidesBest, JobVersions
  <2>. QED BY <1>0, <2>1, <2>2, <2>3, <2>4, <1>7 DEF Known
<1>. QED BY <1>9, <1>10, <1>11, <1>12, <1>13

\* All results are in: the search knows how every job went.
LEMMA AllTaken == IInv /\ pc = "collect" /\ received = amount => Taken = Jobs
<1> SUFFICES ASSUME IInv, pc = "collect", received = amount PROVE Taken = Jobs
  OBVIOUS
<1>0. DataOK
  BY DEF IInv, TypeOK, DataOK
<1>1. Taken \in SUBSET Jobs
  BY <1>0 DEF Taken
<1>2. Cardinality(Taken) = Cardinality(Jobs)
  BY <1>0 DEF IInv, Counted
<1>. QED BY <1>0, <1>1, <1>2, SubsetCount

LEMMA FinishInv ==
  ASSUME IInv, Finish
  PROVE  IInv'
<1> USE DEF IInv, Finish, Return
<1>0. DataOK /\ versions' = versions /\ communities' = communities /\ Jobs' = Jobs
  BY JobsSame DEF IInv, TypeOK, DataOK, mainVars, dataVars
<1>1. Taken = Jobs
  BY <1>0, AllTaken DEF Expected
<1>2. Taken' = Taken
  BY <1>0 DEF Taken, workerVars
<1>3. TypeOK'
  BY <1>0 DEF TypeOK, workerVars
<1>4. Placed'
  BY <1>0 DEF Placed, workerVars
<1>5. Tried'
  BY <1>0, <1>2 DEF Tried, workerVars
<1>6. Counted'
  BY <1>0, <1>2 DEF Counted, workerVars
<1>7. Known'
  <2>1. client # 0 => \E i \in Taken : i.version = client /\ outcome[i] = "ok"
    BY <1>0 DEF Known
  <2>2. critical <=> \E i \in Taken : outcome[i] = "critical"
    BY <1>0 DEF Known
  <2>3. \A i \in Jobs : i.version > client => i \in Taken /\ outcome[i] # "ok"
    <3> SUFFICES ASSUME NEW i \in Jobs, i.version > client PROVE outcome[i] # "ok"
      BY <1>0, <1>1
    <3>1. i.version \in 1..3 /\ client \in 0..3
      BY <1>0, JobVersions DEF TypeOK
    <3>. QED BY <1>0, <3>1, <1>1 DEF Known
  <2>. QED BY <1>0, <2>1, <2>2, <2>3, <1>2 DEF Known
<1>. QED BY <1>3, <1>4, <1>5, <1>6, <1>7

\* What the search knows is left alone by a step that takes no result from
\* it and tries no job that it has seen.
LEMMA SearchUnchanged ==
  ASSUME IInv, pc # "fill", Taken' = Taken, UNCHANGED mainVars,
         \A i \in Taken : outcome'[i] = outcome[i]
  PROVE  Counted' /\ Known' /\ (\A i \in Taken' : outcome'[i] \in Outcomes)
<1> USE DEF IInv, mainVars
<1>0. DataOK /\ versions' = versions /\ communities' = communities /\ Jobs' = Jobs
  BY JobsSame DEF IInv, TypeOK, DataOK, mainVars, dataVars
<1>1. Counted'
  BY <1>0 DEF Counted
<1>2. \A i \in Taken' : outcome'[i] \in Outcomes
  BY <1>0 DEF Tried
<1>3. Known'
  BY <1>0 DEF Known
<1>. QED BY <1>1, <1>2, <1>3

LEMMA QuitInv ==
  ASSUME IInv, NEW w \in Workers, Quit(w)
  PROVE  IInv'
<1> USE DEF IInv, Quit, mainVars
<1>0. DataOK /\ versions' = versions /\ communities' = communities /\ Jobs' = Jobs
  BY JobsSame DEF IInv, TypeOK, DataOK, mainVars, dataVars
<1>1. TypeOK'
  BY <1>0 DEF TypeOK
<1>2. pc # "fill"
  BY <1>0 DEF Counted
<1>3. Taken' = Taken
  BY <1>0 DEF Taken
<1>4. Counted' /\ Known' /\ (\A i \in Taken' : outcome'[i] \in Outcomes)
  BY <1>0, <1>2, <1>3, SearchUnchanged
<1>5. Placed'
  BY <1>0 DEF Placed, TypeOK
<1>6. Tried'
  BY <1>0, <1>4 DEF Tried, TypeOK
<1>. QED BY <1>1, <1>4, <1>5, <1>6

LEMMA TakeJobInv ==
  ASSUME IInv, NEW w \in Workers, NEW j \in Jobs, TakeJob(w, j)
  PROVE  IInv'
<1> USE DEF IInv, TakeJob, mainVars
<1>0. DataOK /\ versions' = versions /\ communities' = communities /\ Jobs' = Jobs
  BY JobsSame DEF IInv, TypeOK, DataOK, mainVars, dataVars
<1>1. TypeOK'
  BY <1>0 DEF TypeOK
<1>2. pc # "fill"
  BY <1>0 DEF Counted
<1>3. job[w] = {} /\ job'[w] = {j} /\ \A v \in Workers \ {w} : job'[v] = job[v]
  BY <1>0 DEF Placed, TypeOK
<1>4. Taken' = Taken
  BY <1>0, <1>3 DEF Taken
<1>5. Counted' /\ Known' /\ (\A i \in Taken' : outcome'[i] \in Outcomes)
  BY <1>0, <1>2, <1>4, SearchUnchanged
<1>6. Placed'
  BY <1>0, <1>3 DEF Placed, TypeOK
<1>7. Tried'
  BY <1>0, <1>3, <1>5 DEF Tried, TypeOK
<1>. QED BY <1>1, <1>5, <1>6, <1>7

LEMMA TryInv ==
  ASSUME IInv, NEW w \in Workers, NEW j \in Jobs, NEW o \in Outcomes, Try(w, j, o)
  PROVE  IInv'
<1> USE DEF IInv, Try, mainVars
<1>0. DataOK /\ versions' = versions /\ communities' = communities /\ Jobs' = Jobs
  BY JobsSame DEF IInv, TypeOK, DataOK, mainVars, dataVars
<1>1. TypeOK'
  BY <1>0 DEF TypeOK
<1>2. pc # "fill"
  BY <1>0 DEF Counted
<1>3. Taken' = Taken /\ j \notin Taken
  BY <1>0 DEF Taken
<1>4. outcome'[j] = o /\ \A i \in Jobs \ {j} : outcome'[i] = outcome[i]
  BY <1>0 DEF TypeOK
<1>5. Counted' /\ Known' /\ (\A i \in Taken' : outcome'[i] \in Outcomes)
  BY <1>0, <1>2, <1>3, <1>4, SearchUnchanged DEF Taken
<1>6. Placed'
  BY <1>0 DEF Placed, TypeOK
<1>7. Tried'
  <2>1. \A i \in out' : outcome'[i] \in Outcomes
    BY <1>0, <1>4 DEF Tried, TypeOK
  <2>2. \A v \in Workers : wpc'[v] = "send" => \A i \in job'[v] : outcome'[i] \in Outcomes
    BY <1>0, <1>4 DEF Tried, TypeOK, Placed
  <2>. QED BY <1>0, <2>1, <2>2, <1>5 DEF Tried
<1>. QED BY <1>1, <1>5, <1>6, <1>7

LEMMA SendResultInv ==
  ASSUME IInv, NEW w \in Workers, NEW j \in Jobs, SendResult(w, j)
  PROVE  IInv'
<1> USE DEF IInv, SendResult, mainVars
<1>0. DataOK /\ versions' = versions /\ communities' = communities /\ Jobs' = Jobs
  BY JobsSame DEF IInv, TypeOK, DataOK, mainVars, dataVars
<1>1. TypeOK'
  BY <1>0 DEF TypeOK
<1>2. pc # "fill"
  BY <1>0 DEF Counted
<1>3. job[w] = {j} /\ job'[w] = {} /\ \A v \in Workers \ {w} : job'[v] = job[v]
  BY <1>0 DEF Placed, TypeOK
<1>4. Taken' = Taken
  BY <1>0, <1>3 DEF Taken
<1>5. Counted' /\ Known' /\ (\A i \in Taken' : outcome'[i] \in Outcomes)
  BY <1>0, <1>2, <1>4, SearchUnchanged
<1>6. Placed'
  BY <1>0, <1>3 DEF Placed, TypeOK
<1>7. Tried'
  BY <1>0, <1>3, <1>5 DEF Tried, TypeOK
<1>. QED BY <1>1, <1>5, <1>6, <1>7

LEMMA CallerCancelsInv ==
  ASSUME IInv, CallerCancels
  PROVE  IInv'
<1> USE DEF IInv, CallerCancels, workerVars
<1>0. versions' = versions /\ communities' = communities /\ Jobs' = Jobs
  BY JobsSame DEF dataVars
<1>1. TypeOK'
  BY <1>0 DEF TypeOK
<1>2. Taken' = Taken
  BY <1>0 DEF Taken
<1>3. Placed' /\ Tried' /\ Counted'
  BY <1>0, <1>2 DEF Placed, Tried, Counted
<1>4. Known'
  BY <1>0, <1>2 DEF Known
<1>. QED BY <1>1, <1>3, <1>4
-----------------------------------------------------------------------------
LEMMA StepInv == IInv /\ [Next]_vars => IInv'
<1> SUFFICES ASSUME IInv, [Next]_vars PROVE IInv'
  OBVIOUS
<1>1. CASE MainStep
  BY <1>1, StartWorkersInv, FinishInv, FillInv, TakeErrorInv, TakeClientInv DEF MainStep
<1>2. ASSUME NEW w \in Workers, WorkerStep(w) PROVE IInv'
  BY <1>2, QuitInv, TakeJobInv, TryInv, SendResultInv DEF WorkerStep
<1>4. CASE CallerCancels
  BY <1>4, CallerCancelsInv
<1>3. CASE UNCHANGED vars
  <2>1. UNCHANGED <<versions, communities, pc, amount, received, cancelled, client, critical, in, out,
                    outcome, wpc, job>> /\ Jobs' = Jobs
    BY <1>3, JobsSame DEF vars, mainVars, workerVars, dataVars
  <2>2. TypeOK' /\ Placed' /\ Taken' = Taken
    BY <2>1 DEF IInv, TypeOK, Placed, Taken
  <2>. QED BY <2>1, <2>2 DEF IInv, Tried, Counted, Known
<1>. QED BY <1>1, <1>2, <1>3, <1>4 DEF Next

LEMMA Invariance == Spec => []IInv
<1>. QED BY InitInv, StepInv, PTL DEF Spec

\* Every variable keeps its type, with any number of goroutines.
THEOREM TypeCorrect == Spec => []TypeOK
<1>1. IInv => TypeOK
  BY DEF IInv
<1>. QED BY <1>1, Invariance, PTL

\* The search returns a client of the best version that the device answers,
\* in whatever order the results come: the early ends of the loop of
\* NewSNMPClientByConnectionData lose nothing.
THEOREM BestVersionCorrect == Spec => []BestVersion
<1>1. IInv => BestVersion
  <2> SUFFICES ASSUME IInv, pc = "returned", client # 0
               PROVE  /\ \E j \in Jobs : j.version = client /\ outcome[j] = "ok"
                      /\ \A j \in Jobs : j.version > client => outcome[j] \in {"network", "critical"}
    BY DEF BestVersion
  <2>1. \E j \in Jobs : j.version = client /\ outcome[j] = "ok"
    BY DEF IInv, Known, Taken
  <2>2. \A j \in Jobs : j.version > client => outcome[j] \in {"network", "critical"}
    BY DEF IInv, Known, Tried, Outcomes
  <2>. QED BY <2>1, <2>2
<1>. QED BY <1>1, Invariance, PTL

\* The search fails only when every combination has been tried and failed.
THEOREM ErrorCorrect == Spec => []ErrorIsHonest
<1>1. IInv => ErrorIsHonest
  <2> SUFFICES ASSUME IInv, pc = "returned", client = 0
               PROVE  \A j \in Jobs : outcome[j] \in {"network", "critical"}
    BY DEF ErrorIsHonest
  <2>1. \A j \in Jobs : j \in Taken /\ outcome[j] # "ok"
    BY JobVersions DEF IInv, Known, TypeOK, DataOK
  <2>. QED BY <2>1 DEF IInv, Tried, Outcomes
<1>. QED BY <1>1, Invariance, PTL

\* Its error is the critical one exactly when some attempt failed for a reason
\* other than the network, whichever worker met it and whenever.
THEOREM CriticalKeptCorrect == Spec => []CriticalKept
<1>1. IInv => CriticalKept
  <2> SUFFICES ASSUME IInv, pc = "returned", client = 0
               PROVE  critical <=> \E j \in Jobs : outcome[j] = "critical"
    BY DEF CriticalKept
  <2>1. critical <=> \E j \in Taken : outcome[j] = "critical"
    BY DEF IInv, Known
  <2>2. Taken = Jobs
    BY JobVersions DEF IInv, Known, Taken, TypeOK, DataOK
  <2>. QED BY <2>1, <2>2
<1>. QED BY <1>1, Invariance, PTL
=============================================================================
