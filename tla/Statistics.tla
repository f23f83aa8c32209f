----------------------------- MODULE Statistics -----------------------------
(***************************************************************************)
(* What the agent reports of one period: GetResult (statisticsAnalyse)     *)
(* loads the RTTs of the packets that were answered, sorts them, drops     *)
(* those it takes for unmeasured, and computes mean, variance, extremes    *)
(* and quartiles of RTTs, jitters and TTLs, and the loss; task sends the   *)
(* list of results under 22 names (measure/crontab.go).  Of a period of     *)
(* which nothing came back it sends a list of -9.  StartPing estimates from *)
(* the list how far a trace to the point has to go (measure/ping.go).       *)
(*                                                                         *)
(* RTTs are whole hundredths of a millisecond (GetResult rounds them       *)
(* down), and every result is scaled to an integer: with n values, a mean  *)
(* is n times, a variance n^3 times and a quartile 4 times as large; a     *)
(* jitter is itself n times as large.                                      *)
(***************************************************************************)
EXTENDS Integers, Sequences, FiniteSets, SequencesExt

CONSTANTS
  Replies,   \* <<RTT, hops>> of the packets that may be answered
  Periods    \* what the periods may come to: their records, in the order of
             \* sequence numbers

Lost == <<>>   \* a record that is not valid

ASSUME RepliesAssumption == Replies \subseteq Nat \X Int
ASSUME PeriodsAssumption == Periods \subseteq Seq(Replies \cup {Lost}) \ {<<>>}

VARIABLES
  recv,      \* the records
  samples,   \* the RTTs and the TTLs that the statistics are computed from
  res,       \* the list of results
  cells,     \* what the agent sends: metrics with their values
  estimate,  \* TTLInfo: the estimate of the hops to the point
  phase      \* "load", "prepare", "analyse", "convert", "estimate", "done"

statsVars == <<recv, samples, res, cells, estimate, phase>>
-----------------------------------------------------------------------------
(* basicComputer.go *)

Sum(s) ==
  LET sum[i \in 0..Len(s)] == IF i = 0 THEN 0 ELSE sum[i - 1] + s[i]
  IN  sum[Len(s)]

Squares(s) == [i \in DOMAIN s |-> s[i] * s[i]]

\* Distances from the mean.
Deltas(s)   == [i \in DOMAIN s |-> Len(s) * s[i] - Sum(s)]
Variance(s) == Sum(Squares(Deltas(s)))

Jitters_Successive(s) == [i \in DOMAIN s |-> Len(s) * (IF i = 1 THEN 0 ELSE s[i] - s[i - 1])]
Jitters(s) == [i \in DOMAIN s |-> IF Deltas(s)[i] < 0 THEN -Deltas(s)[i] ELSE Deltas(s)[i]]

\* The k-th quartile: between two neighbours, in proportion.
Quartile(s, k) ==
  LET n     == Len(s)
      lhs   == (k * (n - 1)) \div 4
      delta == (k * (n - 1)) % 4
  IN  IF lhs = n - 1 THEN 4 * s[n] ELSE (4 - delta) * s[lhs + 1] + delta * s[lhs + 2]

Quartiles(s) == [k \in 1..3 |-> Quartile(s, k)]
-----------------------------------------------------------------------------
(* calculate.go *)

\* What s has at the places in I, in its order.
Chosen(s, I) ==
  LET taken[i \in 0..Len(s)] ==
        IF i = 0 THEN <<>>
        ELSE IF i \in I THEN Append(taken[i - 1], s[i]) ELSE taken[i - 1]
  IN  taken[Len(s)]

\* A zero counts as unmeasured; without any measured value there is a single -1.
PreRtts(s) ==
  LET measured == Chosen(s, {i \in DOMAIN s : s[i] > 0})
  IN  IF measured = <<>> THEN <<-1>> ELSE measured

\* An element's place is that of the smaller ones and of its equals before it.
Ascending(s) ==
  LET place == [i \in DOMAIN s |->
                  Cardinality({j \in DOMAIN s : s[j] < s[i] \/ (s[j] = s[i] /\ j <= i)})]
  IN  [k \in DOMAIN s |-> s[CHOOSE i \in DOMAIN s : place[i] = k]]

\* The list of results of a sample; jitter is measured for RTTs only.
Seven(s) == <<Sum(s), Variance(s), s[1], s[Len(s)]>> \o Quartiles(s)

RttToAllStatistics(rtts) == Seven(rtts) \o Seven(Jitters(rtts))
TTLToStatistics(ttls)    == Seven(ttls)

\* The loss in whole percent, rounded down.  The program computes it with
\* floating point, so that an exact percentage may come out one lower.
Percent(part, all) == (100 * part) \div all
Losses(sent, answered) ==
  LET lost == sent - answered
  IN  {Percent(lost, sent)} \cup
      {p - 1 : p \in {q \in {Percent(lost, sent)} : 0 < lost /\ (100 * lost) % sent = 0}}

-----------------------------------------------------------------------------
(* crontab.go and ping.go *)

\* initDataType: the metric at each place of the list of results.
SevenNames == <<"avg", "var", "min", "max", "quantile25", "quantile50", "quantile75">>
Names_LossLast ==
  [i \in 1..22 |-> IF i <= 7 THEN <<"rtt", SevenNames[i]>>
                   ELSE IF i <= 14 THEN <<"jitter", SevenNames[i - 7]>>
                   ELSE IF i <= 21 THEN <<"ttl", SevenNames[i - 14]>> ELSE <<"packet", "loss">>]
Names ==
  [i \in 1..22 |-> IF i <= 7 THEN <<"rtt", SevenNames[i]>>
                   ELSE IF i <= 14 THEN <<"jitter", SevenNames[i - 7]>>
                   ELSE IF i = 15 THEN <<"packet", "loss">> ELSE <<"ttl", SevenNames[i - 15]>>]

\* StartPing's estimate of the hops to a point, floor(avg + 3 std + 1): the least
\* whole number above avg + 3 std.
Estimate_OneStd(avg, var, n) ==
  CHOOSE e \in 0..(4 * avg + 5) :
    /\ (e - 1) * n <= avg \/ n * ((e - 1) * n - avg) * ((e - 1) * n - avg) <= var
    /\ e * n > avg /\ n * (e * n - avg) * (e * n - avg) > var
Estimate(avg, var, n) ==
  CHOOSE e \in 0..(4 * avg + 5) :
    /\ (e - 1) * n <= avg \/ n * ((e - 1) * n - avg) * ((e - 1) * n - avg) <= 9 * var
    /\ e * n > avg /\ n * (e * n - avg) * (e * n - avg) > 9 * var

\* A variance of -9 has no root, and what int makes of a NaN depends on the
\* processor: the least integer on amd64, zero on arm64.
NaNAsInt == {-1, 0}
-----------------------------------------------------------------------------
Answered(r) == Chosen(r, {i \in DOMAIN r : r[i] # Lost})
Column(r, k) == [i \in DOMAIN r |-> r[i][k]]

StatsInit ==
  /\ recv \in Periods
  /\ samples = [rtt |-> <<>>, ttl |-> <<>>]
  /\ res = <<>>
  /\ cells = {}
  /\ estimate = 0
  /\ phase = "load"

\* task calls GetResult only if some packet was answered.
ReturnRes ==
  /\ phase = "load"
  /\ Answered(recv) = <<>>
  /\ res' = [i \in 1..22 |-> -9]
  /\ phase' = "convert"
  /\ UNCHANGED <<recv, samples, cells, estimate>>

Load ==
  /\ phase = "load"
  /\ Answered(recv) # <<>>
  /\ samples' = [rtt |-> Column(Answered(recv), 1), ttl |-> Column(Answered(recv), 2)]
  /\ phase' = "prepare"
  /\ UNCHANGED <<recv, res, cells, estimate>>

Prepare ==
  /\ phase = "prepare"
  /\ samples' = [k \in {"rtt", "ttl"} |-> PreRtts(Ascending(samples[k]))]
  /\ phase' = "analyse"
  /\ UNCHANGED <<recv, res, cells, estimate>>

\* GetResult: RTTs, then the loss, then TTLs.
Analyse ==
  /\ phase = "analyse"
  /\ \E loss \in Losses(Len(recv), Len(Answered(recv))) :
       res' = RttToAllStatistics(samples.rtt) \o <<loss>> \o TTLToStatistics(samples.ttl)
  /\ phase' = "convert"
  /\ UNCHANGED <<recv, samples, cells, estimate>>

ConvertResultToCells ==
  /\ phase = "convert"
  /\ cells' = {[metric |-> Names[i], value |-> res[i]] : i \in DOMAIN res}
  /\ phase' = "estimate"
  /\ UNCHANGED <<recv, samples, res, estimate>>

\* StartPing, from the mean and the variance at their places in the list.
EstimateHops ==
  /\ phase = "estimate"
  /\ estimate' \in IF res[17] < 0 THEN NaNAsInt
                    ELSE {Estimate(res[16], res[17], Len(samples.ttl))}
  /\ phase' = "done"
  /\ UNCHANGED <<recv, samples, res, cells>>

StatsNext ==
  ReturnRes \/ Load \/ Prepare \/ Analyse \/ ConvertResultToCells \/ EstimateHops

StatsSpec == StatsInit /\ [][StatsNext]_statsVars
-----------------------------------------------------------------------------
(***************************************************************************)
(* The sample, without lists: the packets with a measured value in column  *)
(* k, how many of them are at most v, and the value of rank r among them.  *)
(***************************************************************************)
Measured(k)  == {i \in DOMAIN recv : recv[i] # Lost /\ recv[i][k] > 0}
Count(k)     == Cardinality(Measured(k))
AtMost(k, v) == Cardinality({i \in Measured(k) : recv[i][k] <= v})
Ranked(k, r) ==
  CHOOSE v \in {recv[i][k] : i \in Measured(k)} : AtMost(k, v) >= r /\ AtMost(k, v - 1) < r

\* A quartile is at the fractional rank 1 + q(n-1)/4, between two whole ranks.
RankedQuartile(k, q) ==
  LET n     == Count(k)
      below == 1 + (q * (n - 1)) \div 4
      above == IF below = n THEN n ELSE below + 1
  IN  4 * Ranked(k, below) + ((q * (n - 1)) % 4) * (Ranked(k, above) - Ranked(k, below))

Value(kind, metric) == (CHOOSE c \in cells : c.metric = <<kind, metric>>).value

\* The type of every variable.
StatsTypeOK ==
  /\ recv \in Seq(Replies \cup {Lost})
  /\ samples \in [{"rtt", "ttl"} -> Seq(Int)]
  /\ res \in Seq(Int) /\ Len(res) \in {0, 22}
  /\ \A c \in cells : c.metric \in Range(Names) /\ c.value \in Int
  /\ estimate \in Int
  /\ phase \in {"load", "prepare", "analyse", "convert", "estimate", "done"}

\* What is sent under the name of an extreme or a quartile is that of the
\* packets with a measured value, for every number of them down to one: nothing
\* is read past the end, no zero of a lost packet counts, and the list of
\* results and the list of names, kept in two files, agree.
CellsAreRanks ==
  phase = "done" =>
    \A s \in {<<"rtt", 1>>, <<"ttl", 2>>} :
      Count(s[2]) > 0 =>
        /\ Value(s[1], "min") = Ranked(s[2], 1)
        /\ Value(s[1], "max") = Ranked(s[2], Count(s[2]))
        /\ Value(s[1], "quantile25") = RankedQuartile(s[2], 1)
        /\ Value(s[1], "quantile50") = RankedQuartile(s[2], 2)
        /\ Value(s[1], "quantile75") = RankedQuartile(s[2], 3)

\* The jitter is the distance from the mean: the variance of the RTTs is the
\* variance of the jitters plus the square of their mean.
JitterSplitsVariance ==
  phase = "done" /\ Answered(recv) # <<>> =>
    LET n == Len(samples.rtt)
    IN  Value("jitter", "var") + n * Value("jitter", "avg") * Value("jitter", "avg")
          = n * n * Value("rtt", "var")

\* More than nine in ten of the packets with a measured number of hops are within
\* the estimate that a trace is started with, whatever the period, and there is no
\* estimate, a number below zero, only if nothing at all was answered.
EstimateCovers ==
  phase = "done" =>
    /\ Count(2) > 0 => 10 * AtMost(2, estimate) > 9 * Count(2)
    /\ estimate < 0 => Answered(recv) = <<>>

\* The least and the greatest jitter are what their names say.
JitterExtremes ==
  phase = "done" =>
    \A i \in DOMAIN samples.rtt :
      Jitters(samples.rtt)[i] \in Value("jitter", "min") .. Value("jitter", "max")
=============================================================================
