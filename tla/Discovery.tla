----------------------------- MODULE Discovery ------------------------------
(***************************************************************************)
(* How the agent finds the SNMP version, port and community by which a     *)
(* device answers: NewSNMPClientByConnectionData of network/snmp_client.go *)
(* fills a channel with one job per combination, starts goroutines that    *)
(* try them, and takes their results from a second channel until it has a  *)
(* client it cannot better.                                                *)
(*                                                                         *)
(* Which versions and communities are to be tried is the caller's choice,  *)
(* and so is their order: jobs are put into the channel and taken from it  *)
(* in any order.  The caller may also cancel the context of the search.    *)
(***************************************************************************)
EXTENDS Integers, FiniteSets

CONSTANTS
  Ports,        \* data.Ports
  Versions,     \* versions that data.Versions may list
  Communities,  \* communities that data.Communities may list
  Workers       \* the DiscoverParallelRequests goroutines

ASSUME VersionsAssumption == Versions \subseteq 1..3   \* "1", "2c", "3"
ASSUME WorkersAssumption  == Workers # {}
ASSUME FiniteAssumption   ==
  IsFiniteSet(Ports) /\ IsFiniteSet(Communities) /\ IsFiniteSet(Versions)

Outcomes == {"ok", "network", "critical"}

VARIABLES
  versions, communities,  \* data.Versions, data.Communities
  pc,         \* where NewSNMPClientByConnectionData stands
  in,         \* the jobs in channel in
  out,        \* the jobs whose results are in channel out
  amount,     \* amount: the jobs put into in
  received,   \* i: the results taken from out
  outcome,    \* how each job went; "none" before it was tried
  wpc,        \* where each goroutine stands
  job,        \* the jobs it works on: one, or none
  cancelled,  \* ctx is done
  client,     \* successfulClient: its version, 0 for nil
  critical    \* criticalError # nil

dataVars   == <<versions, communities>>
mainVars   == <<dataVars, pc, amount, received, cancelled, client, critical>>
workerVars == <<wpc, job>>
vars == <<mainVars, in, out, outcome, workerVars>>

\* Version 3 has no community; the others are tried with each.
Jobs ==
  [port : Ports, version : versions \cap {3}, community : {"none"}]
    \cup [port : Ports, version : versions \ {3}, community : communities]

\* The capacity of both channels: every version times every community.
Combinations == Cardinality(Ports) * Cardinality(versions) * Cardinality(communities)
InCapacity   == Combinations
OutCapacity_One == 1
OutCapacity     == Combinations

\* The count starts again before the jobs are added.
NoJobs == 0

\* The version of the client after the result of a job of version v, and
\* whether it ends the search.
Better(v, c) ==
  IF v = 3 \/ c = 0 THEN v ELSE IF v = 2 /\ c = 1 THEN v ELSE c

Decides_AnyTwo(v) == v >= 2 \/ versions \cap {2, 3} = {}
Decides(v) ==
  \/ v = 3
  \/ v = 2 /\ 3 \notin versions
  \/ v = 1 /\ versions \cap {2, 3} = {}

\* How a result is told from an error, and a network error from another one.
Usable_Any(o) == o \in Outcomes
Usable(o)     == o = "ok"
IsCritical_Any(o) == o # "ok"
IsCritical(o)     == o = "critical"

\* The results the search waits for.
Expected_Less == amount - 1
Expected      == amount
-----------------------------------------------------------------------------
Init ==
  /\ versions \in SUBSET Versions /\ communities \in SUBSET Communities
  /\ pc = "fill"
  /\ in = {} /\ out = {}
  /\ amount = NoJobs /\ received = 0
  /\ outcome = [j \in Jobs |-> "none"]
  /\ wpc = [w \in Workers |-> "none"]
  /\ job = [w \in Workers |-> {}]
  /\ cancelled = FALSE
  /\ client = 0
  /\ critical = FALSE
-----------------------------------------------------------------------------
(* NewSNMPClientByConnectionData *)

\* in <- job: blocks while the channel is full, and nobody receives yet.  It has no
\* place at all for version 3 when there is no community.
Fill(j) ==
  /\ pc = "fill" /\ j \notin in
  /\ Cardinality(in) < InCapacity
  /\ in' = in \cup {j}
  /\ amount' = amount + 1
  /\ UNCHANGED <<dataVars, pc, received, cancelled, client, critical, out, outcome, workerVars>>

StartWorkers ==
  /\ pc = "fill" /\ in = Jobs
  /\ wpc' = [w \in Workers |-> "select"]
  /\ pc' = "collect"
  /\ UNCHANGED <<dataVars, amount, received, cancelled, client, critical, in, out, outcome, job>>

\* The deferred cancel runs when the search has returned.
Return(c) ==
  /\ pc' = "returned"
  /\ cancelled' = TRUE
  /\ client' = c

\* A result that is an error: only one that is no network error is kept.
TakeError(j) ==
  /\ pc = "collect" /\ received < Expected /\ j \in out /\ ~Usable(outcome[j])
  /\ out' = out \ {j}
  /\ received' = received + 1
  /\ critical' = (critical \/ IsCritical(outcome[j]))
  /\ UNCHANGED <<dataVars, pc, amount, cancelled, client, in, outcome, workerVars>>

TakeClient(j) ==
  /\ pc = "collect" /\ received < Expected /\ j \in out /\ Usable(outcome[j])
  /\ out' = out \ {j}
  /\ received' = received + 1
  /\ IF Decides(j.version)
     THEN Return(j.version)
     ELSE client' = Better(j.version, client) /\ UNCHANGED <<pc, cancelled>>
  /\ UNCHANGED <<dataVars, amount, critical, in, outcome, workerVars>>

\* All results are in: the best client, or an error if there is none.
Finish ==
  /\ pc = "collect" /\ received = Expected
  /\ Return(client)
  /\ UNCHANGED <<dataVars, amount, received, critical, in, out, outcome, workerVars>>
-----------------------------------------------------------------------------
\* The context of the caller is done.  The search does not look at it; what it
\* waits for may never come.
CallerCancels ==
  /\ pc # "returned" /\ ~cancelled
  /\ cancelled' = TRUE
  /\ UNCHANGED <<dataVars, pc, amount, received, client, critical, in, out, outcome, workerVars>>
-----------------------------------------------------------------------------
(* createNewSNMPClientConcurrent *)

\* A goroutine ends when the context is done or the channel is empty.
Quit(w) ==
  /\ wpc[w] = "select" /\ (cancelled \/ in = {})
  /\ wpc' = [wpc EXCEPT ![w] = "gone"]
  /\ UNCHANGED <<mainVars, in, out, outcome, job>>

TakeJob(w, j) ==
  /\ wpc[w] = "select" /\ ~cancelled /\ j \in in
  /\ in' = in \ {j}
  /\ job' = [job EXCEPT ![w] = {j}]
  /\ wpc' = [wpc EXCEPT ![w] = "try"]
  /\ UNCHANGED <<mainVars, out, outcome>>

\* The attempt to connect: a client, a network error or another error.
Try(w, j, o) ==
  /\ wpc[w] = "try" /\ j \in job[w]
  /\ outcome' = [outcome EXCEPT ![j] = o]
  /\ wpc' = [wpc EXCEPT ![w] = "send"]
  /\ UNCHANGED <<mainVars, in, out, job>>

\* out <- result, which blocks while that channel is full.
SendResult(w, j) ==
  /\ wpc[w] = "send" /\ j \in job[w]
  /\ Cardinality(out) < OutCapacity
  /\ out' = out \cup {j}
  /\ job' = [job EXCEPT ![w] = {}]
  /\ wpc' = [wpc EXCEPT ![w] = "select"]
  /\ UNCHANGED <<mainVars, in, outcome>>
-----------------------------------------------------------------------------
MainStep ==
  \/ StartWorkers \/ Finish
  \/ \E j \in Jobs : Fill(j) \/ TakeError(j) \/ TakeClient(j)

WorkerStep(w) ==
  \/ Quit(w)
  \/ \E j \in Jobs :
       TakeJob(w, j) \/ SendResult(w, j) \/ (\E o \in Outcomes : Try(w, j, o))

Next == MainStep \/ CallerCancels \/ \E w \in Workers : WorkerStep(w)

Spec == Init /\ [][Next]_vars

\* Every attempt ends by its own timeout and retries; the goroutines run.  The
\* caller need not cancel.
FairSpec == Spec /\ WF_vars(MainStep) /\ \A w \in Workers : WF_vars(WorkerStep(w))
-----------------------------------------------------------------------------
\* The type of every variable.
TypeOK ==
  /\ versions \subseteq Versions /\ communities \subseteq Communities
  /\ pc \in {"fill", "collect", "returned"}
  /\ in \subseteq Jobs
  /\ out \subseteq Jobs
  /\ amount \in 0..Cardinality(Jobs)
  /\ received \in 0..amount
  /\ outcome \in [Jobs -> Outcomes \cup {"none"}]
  /\ wpc \in [Workers -> {"none", "select", "try", "send", "gone"}]
  /\ job \in [Workers -> SUBSET Jobs]
  /\ cancelled \in BOOLEAN
  /\ client \in 0..3
  /\ critical \in BOOLEAN

\* The search returns a client of the best version the device answers: some
\* combination of its version was answered, and every combination of a better
\* one has been tried and failed.  Results come in any order and the search
\* ends as soon as it can.
BestVersion ==
  pc = "returned" /\ client # 0 =>
    /\ \E j \in Jobs : j.version = client /\ outcome[j] = "ok"
    /\ \A j \in Jobs : j.version > client => outcome[j] \in {"network", "critical"}

\* It returns an error only when every combination has been tried and failed.
ErrorIsHonest ==
  pc = "returned" /\ client = 0 =>
    \A j \in Jobs : outcome[j] \in {"network", "critical"}

\* The error says that no combination works unless some attempt failed for a
\* reason other than the network: that reason is not lost.
CriticalKept ==
  pc = "returned" /\ client = 0 =>
    (critical <=> \E j \in Jobs : outcome[j] = "critical")

\* The search returns, unless the caller's context ends before all jobs are taken or
\* the first channel is too small for them; in every case no goroutine of it is
\* left behind.  (With the context done the goroutines leave jobs in the channel, and
\* the search waits for their results for ever.)
TooManyJobs == Cardinality(Jobs) > InCapacity
SearchEnds ==
  <>[](/\ \/ pc = "returned"
          \/ pc = "collect" /\ cancelled
          \/ pc = "fill" /\ TooManyJobs
       /\ \A w \in Workers : wpc[w] \in {"none", "gone"})
=============================================================================
