----------------------------- MODULE AsyncRunner -----------------------------
(***************************************************************************)
(* GPUModelRunner under asynchronous scheduling with speculative decoding  *)
(* (gpu_model_runner.py).                                                  *)
(*                                                                         *)
(* The scheduler plans step N + 1 before it has seen the outcome of step   *)
(* N: it assumes that every draft of step N is accepted.  The runner       *)
(* corrects the token counts on the GPU from tensors that step N left      *)
(* there, indexed by the rows of step N, while the rows of step N + 1 may  *)
(* be different ones; on the CPU it corrects them only after step N + 1    *)
(* has been launched.                                                      *)
(*                                                                         *)
(* The scheduler and InputBatch are not part of the overlay: they appear   *)
(* as the runner uses them.  A batch may come in any row order.            *)
(***************************************************************************)
EXTENDS Integers, Sequences, FiniteSets

CONSTANTS
  Reqs,         \* the request ids
  MaxRows,      \* rows of the persistent batch
  SpecTokens,   \* num_spec_tokens
  PromptLen,    \* prompt tokens of each request
  MaxChunk,     \* the most prompt tokens of one request in a step
  MaxModelLen,  \* no request grows beyond it
  None          \* Python's None

ASSUME AsyncRunnerAssumption ==
  /\ MaxRows \in Nat \ {0} /\ SpecTokens \in Nat \ {0}
  /\ PromptLen \in [Reqs -> 1 .. MaxModelLen - 1]
  /\ MaxChunk \in Nat \ {0} /\ MaxModelLen \in Nat
  /\ None \notin Int

VARIABLES
  \* the scheduler
  status,        \* of each request
  sched,         \* num_computed_tokens it counts, drafts in flight included
  expected,      \* tokens it expects the request to have, likewise
  outputs,       \* results it has not processed yet
  \* the runner, on the CPU
  batch,         \* input_batch.req_ids: the request of each row
  cpuComputed,   \* req_state.num_computed_tokens and its row's copy
  prevDraftLen,  \* req_state.prev_num_draft_len
  prevRow,       \* input_batch.prev_req_id_to_index, None if absent
  running,       \* execute_model_state: the step launched but not sampled
  \* the runner, on the GPU
  gpuComputed,   \* num_computed_tokens, by row
  validCount,    \* valid_sampled_token_count, by row of the last sampled step
  prevSampled,   \* prev_sampled_token_ids, by row: <<request, position>>
  drafts,        \* _draft_token_ids, by row: whose they are
  \* history
  done,          \* positions of each request whose accepted KV is computed
  tokens         \* prompt and accepted tokens of each request

schedVars == <<status, sched, expected, outputs>>
runnerVars == <<batch, cpuComputed, prevDraftLen, prevRow, running>>
gpuVars == <<gpuComputed, validCount, prevSampled, drafts>>
vars == <<schedVars, runnerVars, gpuVars, done, tokens>>

Rows == 1 .. MaxRows
Statuses == {"waiting", "running", "preempted", "finished"}

(* execute_model_state without a step: None.                                *)
Idle == [plan |-> <<>>, input |-> <<>>, samples |-> <<>>]

Init ==
  /\ status = [r \in Reqs |-> "waiting"]
  /\ sched = [r \in Reqs |-> 0]
  /\ expected = PromptLen
  /\ outputs = <<>>
  /\ batch = <<>>
  /\ cpuComputed = [r \in Reqs |-> 0]
  /\ prevDraftLen = [r \in Reqs |-> 0]
  /\ prevRow = [r \in Reqs |-> None]
  /\ running = Idle
  /\ gpuComputed = [i \in Rows |-> 0]
  /\ validCount = [i \in Rows |-> 0]
  /\ prevSampled = [i \in Rows |-> None]
  /\ drafts = [i \in Rows |-> None]
  /\ done = [r \in Reqs |-> 0]
  /\ tokens = PromptLen

InBatch(b) == { b[i] : i \in DOMAIN b }

InFlight(r) == \E k \in DOMAIN outputs : r \in InBatch(outputs[k].batch)

(* The scheduler is one result behind: when it plans step N + 1 it has      *)
(* processed every step before N, and N's result only once N + 1 is planned.*)
CanPlan == running = Idle /\ Len(outputs) <= 1

CanProcess == outputs # <<>> /\ (running # Idle \/ Len(outputs) = 2)

-----------------------------------------------------------------------------
(* What the scheduler can ask for: n rows for r, the last d of them drafts. *)

(* A prefill (or resumed) chunk.                                            *)
Chunks(r) ==
  { [n |-> n, d |-> 0] : n \in { n \in 1 .. MaxChunk : n <= expected[r] - sched[r] } }

(* One token and drafts for it, when the last step drafted for r.           *)
Decodes(r) ==
  { [n |-> 1 + d, d |-> d] :
      d \in { d \in 1 .. SpecTokens : /\ status[r] = "running" /\ prevRow[r] # None
                                      /\ r \in InBatch(batch)
                                      /\ expected[r] = sched[r] + 1
                                      /\ expected[r] + d < MaxModelLen } }

(* r can be in the next step.  A preempted request comes back once its      *)
(* results have arrived and a step without it has been sampled.             *)
Eligible(r) ==
  /\ expected[r] < MaxModelLen
  /\ CASE status[r] = "finished" -> FALSE
       [] status[r] = "preempted" -> ~InFlight(r) /\ prevRow[r] = None
       [] OTHER -> TRUE

Batches ==
  UNION { { b \in [1 .. n -> { r \in Reqs : Eligible(r) }] :
              \A i, j \in 1 .. n : b[i] = b[j] => i = j } : n \in 1 .. MaxRows }

Plans(b) ==
  { plan \in [DOMAIN b -> UNION { Chunks(r) \cup Decodes(r) : r \in InBatch(b) }] :
      \A i \in DOMAIN b : plan[i] \in Chunks(b[i]) \cup Decodes(b[i]) }

(* The row samples: its chunk reaches the last token the scheduler expects. *)
Samples(r, p) == sched[r] + p.n >= expected[r]

-----------------------------------------------------------------------------
(* _update_states.                                                          *)

OptimisticDraftsKept(r) == prevDraftLen[r]

(* prev_num_draft_len of a request that is still in the persistent batch;   *)
(* for one that is not, it is reset.                                        *)
OptimisticDrafts(r) == IF r \in InBatch(batch) THEN prevDraftLen[r] ELSE 0

(* self.prev_num_draft_tokens, by row of the previous step.                 *)
PrevNumDraftTokens(b) ==
  [i \in Rows |->
     IF \E r \in InBatch(b) : prevRow[r] = i
     THEN OptimisticDrafts(CHOOSE r \in InBatch(b) : prevRow[r] = i)
     ELSE 0]

(* _compute_prev_positions: the row a row's request had in the last step.   *)
PrevPosition(r) == prevRow[r]

NumComputedTokensCurrentRow(b) ==
  [i \in Rows |->
     IF i \notin DOMAIN b THEN gpuComputed[i]
     ELSE LET q == PrevPosition(b[i])
          IN  IF q # None /\ PrevNumDraftTokens(b)[q] > 0
              THEN gpuComputed[i] + validCount[i]
              ELSE sched[b[i]]]

(* update_num_computed_tokens_for_batch_change: a row with drafts in flight *)
(* gets the last step's count plus what was valid of it, any other row the  *)
(* scheduler's count.                                                       *)
NumComputedTokens(b) ==
  [i \in Rows |->
     IF i \notin DOMAIN b THEN gpuComputed[i]
     ELSE LET q == PrevPosition(b[i])
          IN  IF q # None /\ PrevNumDraftTokens(b)[q] > 0
              THEN gpuComputed[q] + validCount[q]
              ELSE sched[b[i]]]

(* _prepare_input_ids: the last token before the drafts of row i, and whose *)
(* drafts follow it.  Rows of the previous step take both from its tensors, *)
(* any other row takes the token the CPU has at the scheduler's position.   *)
InputOf(b, plan, i) ==
  LET q == PrevPosition(b[i])
  IN  IF q # None
      THEN [last |-> prevSampled[q], drafts |-> IF plan[i].d = 0 THEN None ELSE drafts[q]]
      ELSE [last |-> <<b[i], sched[b[i]] + plan[i].n - plan[i].d - 1>>, drafts |-> None]

CorrectedByRow(b, r) ==
  LET i == CHOOSE i \in DOMAIN b : b[i] = r
  IN  sched[r] - (OptimisticDrafts(r) - (validCount[i] - 1))

(* correct_spec_decode_token_counts, after the launch: the scheduler's      *)
(* count less the drafts that the previous step rejected.                   *)
Corrected(b, r) ==
  IF OptimisticDrafts(r) = 0 \/ prevRow[r] = None
  THEN sched[r]
  ELSE sched[r] - (OptimisticDrafts(r) - (validCount[prevRow[r]] - 1))

(* schedule(), and execute_model of what was scheduled.                     *)
Execute(b, plan) ==
  LET planOf == [r \in InBatch(b) |-> plan[CHOOSE i \in DOMAIN b : b[i] = r]]
  IN  /\ CanPlan
      /\ batch' = b
      /\ prevDraftLen' = [r \in Reqs |->
           IF r \in InBatch(b) THEN planOf[r].d ELSE prevDraftLen[r]]
      /\ gpuComputed' = NumComputedTokens(b)
      /\ cpuComputed' = [r \in Reqs |-> IF r \in InBatch(b) THEN Corrected(b, r) ELSE cpuComputed[r]]
      /\ running' = [plan |-> plan,
                     input |-> [i \in DOMAIN b |-> InputOf(b, plan, i)],
                     samples |-> [i \in DOMAIN b |-> Samples(b[i], plan[i])]]
      /\ status' = [r \in Reqs |-> IF r \in InBatch(b) THEN "running" ELSE status[r]]
      /\ sched' = [r \in Reqs |->
           IF r \in InBatch(b) THEN sched[r] + planOf[r].n ELSE sched[r]]
      /\ expected' = [r \in Reqs |->
           IF r \in InBatch(b) /\ Samples(r, planOf[r])
           THEN expected[r] + 1 + planOf[r].d ELSE expected[r]]
      /\ UNCHANGED <<outputs, prevRow, validCount, prevSampled, drafts, done, tokens>>

(* execute_model with nothing scheduled: the persistent batch empties, and  *)
(* the step's result is empty.  What the last sampled step left stays.      *)
ExecuteEmpty ==
  /\ CanPlan /\ batch # <<>>
  /\ batch' = <<>>
  /\ outputs' = Append(outputs, [batch |-> <<>>, rejected |-> <<>>])
  /\ UNCHANGED <<status, sched, expected, cpuComputed, prevDraftLen, prevRow, running,
                 gpuVars, done, tokens>>

-----------------------------------------------------------------------------
PrevRowsAll == [r \in Reqs |-> IF r \in InBatch(batch) THEN CHOOSE i \in DOMAIN batch : batch[i] = r ELSE None]

(* prev_req_id_to_index: the rows that were not discarded.                  *)
PrevRows ==
  [r \in Reqs |->
     IF \E i \in DOMAIN batch : batch[i] = r /\ running.samples[i]
     THEN CHOOSE i \in DOMAIN batch : batch[i] = r
     ELSE None]

(* sample_tokens: accepted[i] drafts of row i are accepted and one token is *)
(* sampled, unless the row is discarded; then drafts are proposed - or not, *)
(* and zeros stand in for them.                                             *)
SampleTokens(accepted, fits) ==
  LET plan == running.plan
      RowOf(r) == CHOOSE i \in DOMAIN batch : batch[i] = r
      Start(i) == gpuComputed[i]
      Valid(i) == IF running.samples[i] THEN 1 + accepted[i] ELSE 0
      On(a, new) == [i \in Rows |-> IF i \in DOMAIN batch THEN new[i] ELSE a[i]]
  IN  /\ validCount' = On(validCount, [i \in DOMAIN batch |-> Valid(i)])
      /\ prevSampled' = On(prevSampled,
           [i \in DOMAIN batch |->
              <<batch[i], Start(i) + plan[i].n - plan[i].d + accepted[i]>>])
      /\ drafts' = On(drafts, [i \in DOMAIN batch |-> IF fits THEN batch[i] ELSE None])
      /\ prevRow' = PrevRows
      /\ done' = [r \in Reqs |->
           IF r \in InBatch(batch)
           THEN Start(RowOf(r)) + plan[RowOf(r)].n - plan[RowOf(r)].d + accepted[RowOf(r)]
           ELSE done[r]]
      /\ tokens' = [r \in Reqs |->
           IF r \in InBatch(batch) THEN tokens[r] + Valid(RowOf(r)) ELSE tokens[r]]
      /\ outputs' = Append(outputs, [batch |-> batch,
           rejected |-> [i \in DOMAIN batch |-> plan[i].d - accepted[i]]])
      /\ running' = Idle
      /\ UNCHANGED <<status, sched, expected, batch, cpuComputed, prevDraftLen, gpuComputed>>

(* The scheduler processes the oldest result: rejected drafts come off its  *)
(* counts, unless the request is gone or has been preempted meanwhile.      *)
ProcessOutput ==
  LET out == Head(outputs)
      Rejected(r) == out.rejected[CHOOSE i \in DOMAIN out.batch : out.batch[i] = r]
      Counts(r) == r \in InBatch(out.batch) /\ status[r] # "finished"
  IN  /\ CanProcess
      /\ outputs' = Tail(outputs)
      /\ sched' = [r \in Reqs |->
           IF Counts(r) /\ status[r] = "running" THEN sched[r] - Rejected(r) ELSE sched[r]]
      /\ expected' = [r \in Reqs |-> IF Counts(r) THEN expected[r] - Rejected(r) ELSE expected[r]]
      /\ UNCHANGED <<status, runnerVars, gpuVars, done, tokens>>

(* The scheduler preempts or finishes r between two steps.                  *)
Preempt(r) ==
  /\ CanPlan /\ status[r] = "running"
  /\ status' = [status EXCEPT ![r] = "preempted"]
  /\ sched' = [sched EXCEPT ![r] = 0]
  /\ done' = [done EXCEPT ![r] = 0]
  /\ UNCHANGED <<expected, outputs, runnerVars, gpuVars, tokens>>

Finish(r) ==
  /\ status[r] = "running"
  /\ status' = [status EXCEPT ![r] = "finished"]
  /\ UNCHANGED <<sched, expected, outputs, runnerVars, gpuVars, done, tokens>>

Accepts ==
  { a \in [DOMAIN batch -> 0 .. SpecTokens] : \A i \in DOMAIN batch : a[i] <= running.plan[i].d }

Next ==
  \/ \E b \in Batches : \E plan \in Plans(b) : Execute(b, plan)
  \/ ExecuteEmpty
  \/ running # Idle /\ \E a \in Accepts : \E fits \in BOOLEAN : SampleTokens(a, fits)
  \/ ProcessOutput
  \/ \E r \in Reqs : Preempt(r) \/ Finish(r)

Spec == Init /\ [][Next]_vars

-----------------------------------------------------------------------------
Token == Reqs \X (0 .. MaxModelLen)

TypeOK ==
  /\ status \in [Reqs -> Statuses]
  /\ sched \in [Reqs -> 0 .. MaxModelLen]
  /\ expected \in [Reqs -> 1 .. MaxModelLen]
  /\ Len(outputs) <= 2
  /\ Len(batch) <= MaxRows /\ InBatch(batch) \subseteq Reqs
  /\ cpuComputed \in [Reqs -> 0 .. MaxModelLen]
  /\ prevDraftLen \in [Reqs -> 0 .. SpecTokens]
  /\ prevRow \in [Reqs -> Rows \cup {None}]
  /\ gpuComputed \in [Rows -> 0 .. MaxModelLen]
  /\ validCount \in [Rows -> 0 .. SpecTokens + 1]
  /\ prevSampled \in [Rows -> Token \cup {None}]
  /\ drafts \in [Rows -> Reqs \cup {None}]
  /\ done \in [Reqs -> 0 .. MaxModelLen] /\ tokens \in [Reqs -> 1 .. MaxModelLen]

(* Every launched row computes the positions that follow its request's      *)
(* accepted ones, although the scheduler guessed and the rows have moved.   *)
PositionsExact ==
  running # Idle => \A i \in DOMAIN batch : gpuComputed[i] = done[batch[i]]

(* Once the launch returns, the CPU's counts are the GPU's.                 *)
CpuAgreesWithGpu ==
  running # Idle => \A i \in DOMAIN batch : cpuComputed[batch[i]] = gpuComputed[i]

(* The tokens a row is launched with are its own request's: the last known  *)
(* token at its position, and its own drafts (or the zeros that stand in).  *)
InputsAreOwn ==
  running # Idle =>
    \A i \in DOMAIN batch :
      LET r == batch[i]
          p == running.plan[i]
      IN  /\ running.input[i].last = <<r, done[r] + p.n - p.d - 1>>
          /\ running.input[i].drafts \in {r, None}
==============================================================================
