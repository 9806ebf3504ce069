---------------------------- MODULE PrefixSchedule ----------------------------
(***************************************************************************)
(* DSpark's verification-length schedulers (dspark.py), as                 *)
(* DSparkProposer._schedule_from_confidence chooses between them: how many *)
(* of its drafts each request should have verified, given the confidence   *)
(* of each draft and a profiled table of engine steps per second.          *)
(*                                                                         *)
(* hardware_aware_prefix_schedule is a loop over the drafts in descending  *)
(* order of survival: one action Visit is one iteration.                   *)
(*                                                                         *)
(* Probabilities are exact here: a confidence is a number of Unit-ths, a   *)
(* survival rate a number of (Unit ^ SpecTokens)-ths.                      *)
(***************************************************************************)
EXTENDS Integers, FiniteSetsExt

CONSTANTS
  Requests,     \* number of requests in the batch
  SpecTokens,   \* num_speculative_tokens
  Unit,         \* a confidence of 1.0
  Confidences,  \* the confidences a draft can have
  Rates,        \* the steps per second a table can hold
  NoRate        \* no entry of the table for a number of tokens

ASSUME PrefixScheduleAssumption ==
  /\ {Requests, SpecTokens, Unit} \subseteq Nat \ {0}
  /\ Confidences \subseteq 0 .. Unit
  /\ Rates \subseteq Nat /\ NoRate \notin Nat

VARIABLES
  rows,       \* confidence_rows
  table,      \* self._sps_curve
  scheduler,  \* the scheduler in force, and its parameter
  lengths,    \* the prefix of each request admitted so far
  todo,       \* candidates not visited yet
  tokens,     \* batch_tokens
  expected,   \* expected_accepted_tokens
  result,     \* the best schedule so far: DSparkScheduleResult
  returned    \* has the scheduler returned it?

vars == <<rows, table, scheduler, lengths, todo, tokens, expected, result, returned>>

Reqs == 1 .. Requests
Positions == 1 .. SpecTokens
BatchTokens == Requests .. Requests * (1 + SpecTokens)

Schedulers ==
  [kind : {"hardware"}, earlyStop : BOOLEAN]
    \cup [kind : {"threshold"}, threshold : 1 .. Unit]
    \cup [kind : {"forced"}, length : 0 .. SpecTokens] \cup [kind : {"off"}]

-----------------------------------------------------------------------------
Power[n \in Nat] == IF n = 0 THEN 1 ELSE Unit * Power[n - 1]

(* cumulative_survival of a row, at position p.                             *)
Survival(row, p) ==
  LET product[i \in 0 .. p] == IF i = 0 THEN 1 ELSE product[i - 1] * row[i]
  IN  product[p] * Power[SpecTokens - p]

(* _steps_per_second: the rate of the last entry that does not exceed t,    *)
(* the first entry's below all of them, 1 without a table.                  *)
StepsPerSecond(t) ==
  LET profiled == { n \in BatchTokens : table[n] # NoRate }
      below    == { n \in profiled : n <= t }
  IN  IF profiled = {} THEN 1
      ELSE IF below = {} THEN table[CHOOSE n \in profiled : \A m \in profiled : n <= m]
      ELSE table[CHOOSE n \in below : \A m \in below : m <= n]

(* tokens_per_second of an expected number of tokens in a step of t.        *)
Throughput(accepted, t) == accepted * StepsPerSecond(t)

(* score_prefix_lengths: the result of a fixed schedule.                    *)
Score(lens) ==
  LET gain(r) == MapThenSumSet(LAMBDA p : Survival(rows[r], p), 1 .. lens[r])
      accepted == Requests * Power[SpecTokens] + MapThenSumSet(gain, Reqs)
      t == Requests + MapThenSumSet(LAMBDA r : lens[r], Reqs)
  IN  [lengths |-> lens, expected |-> accepted, tokens |-> t]

ThresholdAllOrNothing(row, threshold) ==
  IF Survival(row, SpecTokens) >= threshold * Power[SpecTokens - 1] THEN SpecTokens ELSE 0

(* confidence_threshold_prefix_length: up to the first draft whose survival *)
(* is below the threshold.                                                  *)
ThresholdLength(row, threshold) ==
  CHOOSE n \in 0 .. SpecTokens :
    /\ \A p \in 1 .. n : Survival(row, p) >= threshold * Power[SpecTokens - 1]
    /\ n < SpecTokens => Survival(row, n + 1) < threshold * Power[SpecTokens - 1]

(* The lengths of the schedulers that look at each request by itself.       *)
FixedLengths ==
  [r \in Reqs |->
     CASE scheduler.kind = "forced"    -> scheduler.length
       [] scheduler.kind = "threshold" -> ThresholdLength(rows[r], scheduler.threshold)
       [] OTHER                        -> SpecTokens]

-----------------------------------------------------------------------------
(* hardware_aware_prefix_schedule.                                          *)

SurvivalOf(c) == Survival(rows[c[1]], c[2])

CandidatesFromZero == { c \in Reqs \X (0 .. SpecTokens - 1) : SurvivalOf(c) > 0 }

(* candidates: every draft that can survive at all.                         *)
Candidates == { c \in Reqs \X Positions : SurvivalOf(c) > 0 }

(* The sort key (-survival, request_index, position).                       *)
Before(c, d) ==
  \/ SurvivalOf(c) > SurvivalOf(d)
  \/ SurvivalOf(c) = SurvivalOf(d) /\ c[1] < d[1]
  \/ SurvivalOf(c) = SurvivalOf(d) /\ c[1] = d[1] /\ c[2] < d[2]

NextCandidate == CHOOSE c \in todo : \A d \in todo \ {c} : Before(c, d)

Skips(c) == c[2] # lengths[c[1]] + 1

Init ==
  /\ rows \in [Reqs -> [Positions -> Confidences]]
  /\ table \in [BatchTokens -> Rates \cup {NoRate}]
  /\ scheduler \in Schedulers
  /\ lengths = [r \in Reqs |-> 0]
  /\ todo = Candidates
  /\ tokens = Requests
  /\ expected = Requests * Power[SpecTokens]
  /\ result = Score(lengths)
  /\ returned = FALSE

ImprovesAccepted(accepted, t) == accepted > result.expected

Improves(accepted, t) ==
  Throughput(accepted, t) > Throughput(result.expected, result.tokens)

Best(lens, accepted, t) == [lengths |-> lens, expected |-> accepted, tokens |-> t]

(* The draft is admitted, and the point reached is kept if it is the best;  *)
(* the first point that is not ends an early-stop search.                   *)
Admit(c) ==
  /\ lengths' = [lengths EXCEPT ![c[1]] = c[2]]
  /\ tokens' = tokens + 1
  /\ expected' = expected + SurvivalOf(c)
  /\ IF Improves(expected', tokens')
     THEN result' = Best(lengths', expected', tokens') /\ UNCHANGED returned
     ELSE UNCHANGED result /\ returned' = scheduler.earlyStop

(* One iteration.  A draft whose predecessor was not admitted is passed     *)
(* over.                                                                    *)
Visit ==
  /\ scheduler.kind = "hardware" /\ ~returned /\ todo # {}
  /\ todo' = todo \ {NextCandidate}
  /\ IF Skips(NextCandidate)
     THEN UNCHANGED <<lengths, tokens, expected, result, returned>>
     ELSE Admit(NextCandidate)
  /\ UNCHANGED <<rows, table, scheduler>>

(* The end of the loop.                                                     *)
Return ==
  /\ scheduler.kind = "hardware" /\ ~returned /\ todo = {}
  /\ returned' = TRUE
  /\ UNCHANGED <<rows, table, scheduler, lengths, todo, tokens, expected, result>>

(* The other schedulers score the lengths they have chosen.                 *)
ScoreFixed ==
  /\ scheduler.kind # "hardware" /\ ~returned
  /\ result' = Score(FixedLengths)
  /\ returned' = TRUE
  /\ UNCHANGED <<rows, table, scheduler, lengths, todo, tokens, expected>>

Next == Visit \/ Return \/ ScoreFixed

Spec == Init /\ [][Next]_vars

-----------------------------------------------------------------------------
TypeOK ==
  /\ lengths \in [Reqs -> 0 .. SpecTokens]
  /\ todo \subseteq Reqs \X Positions
  /\ tokens \in BatchTokens
  /\ expected \in Nat
  /\ returned \in BOOLEAN
  /\ result \in [lengths : [Reqs -> 0 .. SpecTokens], expected : Nat, tokens : BatchTokens]

(* The schedules that verify only drafts that can survive.                  *)
Schedules ==
  { lens \in [Reqs -> 0 .. SpecTokens] :
      \A r \in Reqs : \A p \in 1 .. lens[r] : Survival(rows[r], p) > 0 }

ThroughputOf(lens) == Throughput(Score(lens).expected, Score(lens).tokens)

Optimal == \A lens \in Schedules : ThroughputOf(lens) <= ThroughputOf(result.lengths)

(* "Smooth capacity curves where adding more verification tokens cannot     *)
(* recover from the first throughput drop": positive and log-concave.       *)
Smooth ==
  /\ \A t \in BatchTokens : StepsPerSecond(t) > 0
  /\ \A t \in BatchTokens : {t - 1, t + 1} \subseteq BatchTokens =>
       StepsPerSecond(t) * StepsPerSecond(t) >= StepsPerSecond(t - 1) * StepsPerSecond(t + 1)

(* "Exhaustive traversal of the greedy prefix path": with early stop off    *)
(* the result is the best of all schedules, whatever the table looks like,  *)
(* although the loop looks at one schedule of each size only; and on a      *)
(* smooth curve early stop loses nothing.  The expected tokens reported for *)
(* it, sums kept by the loop, are those score_prefix_lengths gives it.      *)
SchedulersOptimal ==
  scheduler.kind = "hardware" /\ returned =>
    /\ result = Score(result.lengths)
    /\ (scheduler.earlyStop => Smooth) => Optimal

(* "Position n is admitted using only confidences from positions <= n": two *)
(* rows that agree up to n are cut alike up to n.                           *)
NonAnticipating ==
  scheduler.kind = "threshold" /\ returned =>
    \A r, q \in Reqs : \A n \in Positions :
      (\A p \in 1 .. n : rows[r][p] = rows[q][p]) =>
        (result.lengths[r] >= n <=> result.lengths[q] >= n)
==============================================================================
