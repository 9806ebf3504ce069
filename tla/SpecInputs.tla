------------------------------ MODULE SpecInputs ------------------------------
(***************************************************************************)
(* How GPUModelRunner lays the rows of a step out in flat tensors under    *)
(* speculative decoding (gpu_model_runner.py, llm_base_proposer.py):       *)
(*                                                                         *)
(*   - _prepare_input_ids takes the last sampled token and the drafts of   *)
(*     the requests of the previous step from that step's GPU tensors and  *)
(*     the other tokens from the CPU, with two shortcuts;                  *)
(*   - _calc_spec_decode_metadata says which rows' logits judge which      *)
(*     draft;                                                              *)
(*   - prepare_inputs (the unpadded drafter batch) drops the rows of the   *)
(*     rejected drafts.                                                    *)
(*                                                                         *)
(* Rows and tensors are indexed from 0, as in the code.  A token is named  *)
(* by where it was written: <<"cpu", r, j>>, <<"sampled", r>> or           *)
(* <<"draft", r, k>>; Stale is what the buffer held before the step.       *)
(***************************************************************************)
EXTENDS Integers, FiniteSets

CONSTANTS
  Reqs,        \* the request ids
  MaxRows,     \* rows of the persistent batch
  SpecTokens,  \* num_spec_tokens
  MaxChunk,    \* the most prompt tokens of a row in a step
  None         \* prev_positions -1

ASSUME SpecInputsAssumption ==
  /\ IsFiniteSet(Reqs) /\ None \notin Int
  /\ {MaxRows, SpecTokens, MaxChunk} \subseteq Nat \ {0}

VARIABLES
  batch,        \* input_batch.req_ids of the step
  sampled,      \* the rows of the step that are not discarded
  plan,         \* tokens n and drafts d scheduled for each row
  prevRow,      \* prev_positions
  inputIds,     \* self.input_ids.gpu after _prepare_input_ids
  metadata,     \* SpecDecodeMetadata, << >> without one
  accepted,     \* drafts of each row that the target accepts
  tokenIndices  \* prepare_inputs: the rows kept for the drafter

vars == <<batch, sampled, plan, prevRow, inputIds, metadata, accepted, tokenIndices>>

Stale == <<"stale">>

Init ==
  /\ batch = << >> /\ sampled = {} /\ plan = << >> /\ prevRow = << >>
  /\ inputIds = << >> /\ metadata = << >> /\ accepted = << >> /\ tokenIndices = << >>

-----------------------------------------------------------------------------
(* Flat layouts.                                                            *)

Rows(counts) == DOMAIN counts

(* np.cumsum.                                                               *)
Cumsum(counts) ==
  LET cu[i \in Rows(counts)] == IF i = 0 THEN counts[0] ELSE cu[i - 1] + counts[i]
  IN  cu

Total(counts) == Cumsum(counts)[Cardinality(Rows(counts)) - 1]

StartOf(counts, i) == Cumsum(counts)[i] - counts[i]

(* np.repeat(values, counts): the row that flat index g belongs to.         *)
RowAt(counts, g) ==
  CHOOSE i \in Rows(counts) : StartOf(counts, i) <= g /\ g < StartOf(counts, i) + counts[i]

(* _get_cumsum_and_arange: the batched arange.                              *)
OffsetAt(counts, g) == g - StartOf(counts, RowAt(counts, g))

Scheduled(p) == [i \in DOMAIN p |-> p[i].n]
Drafts(p) == [i \in DOMAIN p |-> p[i].d]
SampledTokens(p) == [i \in DOMAIN p |-> p[i].d + 1]

-----------------------------------------------------------------------------
(* _prepare_input_ids.                                                      *)

(* The rows that were in the previous step.                                 *)
Common(prev) == { i \in DOMAIN prev : prev[i] # None }

(* Last flat index of a row.                                                *)
LastIndex(p, i) == Cumsum(Scheduled(p))[i] - 1

(* The CPU's tokens are uploaded unless every token that is not a draft     *)
(* comes from the previous step.                                            *)
CopiesCpu(p, prev) ==
  Cardinality(Common(prev)) < Total(Scheduled(p)) - Total([i \in DOMAIN p |->
                                 IF i \in Common(prev) THEN p[i].d ELSE 0])

SameRowsAnyCount(p, prev) ==
  Common(prev) # {} /\ \A i \in Common(prev) : prev[i] = LastIndex(p, i)

(* "The batch is unchanged and no reordering happened": one slice copy.     *)
SameRows(p, prev) ==
  /\ Common(prev) # {}
  /\ \A i \in Common(prev) : prev[i] = LastIndex(p, i)
  /\ \A i \in Common(prev) : LastIndex(p, i) <= Cardinality(Common(prev)) - 1

(* Where draft k of previous row i is in draft_token_ids.flatten().         *)
DraftIndex(i, k) == i * SpecTokens + k

(* The previous step's tensors, by previous row and by flat draft index.    *)
PrevSampledToken(q) == <<"sampled", batch[q]>>
PrevDraftToken(x) == <<"draft", batch[x \div SpecTokens], x % SpecTokens>>

InputIds(b, p, prev) ==
  LET lens == Scheduled(p)
      base == [g \in 0 .. Total(lens) - 1 |->
                 IF CopiesCpu(p, prev)
                 THEN <<"cpu", b[RowAt(lens, g)], OffsetAt(lens, g)>> ELSE Stale]
      SampleIndex(i) == LastIndex(p, i) - p[i].d
      sliced == [g \in DOMAIN base |->
                   IF g < Cardinality(Common(prev)) THEN PrevSampledToken(g) ELSE base[g]]
      scattered == [g \in DOMAIN base |->
                   LET i == RowAt(lens, g)
                   IN  IF i \notin Common(prev) \/ g < SampleIndex(i) THEN base[g]
                       ELSE IF g = SampleIndex(i) THEN PrevSampledToken(prev[i])
                       ELSE PrevDraftToken(DraftIndex(prev[i], g - SampleIndex(i) - 1))]
  IN  IF SameRows(p, prev) THEN sliced ELSE scattered

-----------------------------------------------------------------------------
(* _calc_spec_decode_metadata.                                              *)

LogitsIndices(p) ==
  LET s == SampledTokens(p)
  IN  [g \in 0 .. Total(s) - 1 |->
         Cumsum(Scheduled(p))[RowAt(s, g)] - s[RowAt(s, g)] + OffsetAt(s, g)]

BonusOneEarly(p) == [i \in DOMAIN p |-> Cumsum(SampledTokens(p))[i] - 2]

BonusLogitsIndices(p) == [i \in DOMAIN p |-> Cumsum(SampledTokens(p))[i] - 1]

TargetByDraftOffset(p) == [g \in 0 .. Total(Drafts(p)) - 1 |-> g]

TargetLogitsIndices(p) ==
  LET d == Drafts(p)
  IN  [g \in 0 .. Total(d) - 1 |->
         StartOf(SampledTokens(p), RowAt(d, g)) + OffsetAt(d, g)]

(* input_ids[logits_indices][target_logits_indices + 1].                    *)
DraftTokenIds(p, ids) ==
  [g \in DOMAIN TargetLogitsIndices(p) |->
     ids[LogitsIndices(p)[TargetLogitsIndices(p)[g] + 1]]]

(* use_spec_decode: some row has drafts.                                    *)
Metadata(p, ids) ==
  IF \A i \in DOMAIN p : p[i].d = 0
  THEN << >>
  ELSE [logits |-> LogitsIndices(p), target |-> TargetLogitsIndices(p),
        bonus |-> BonusLogitsIndices(p), drafts |-> DraftTokenIds(p, ids)]

-----------------------------------------------------------------------------
(* num_rejected_tokens: drafts plus one, less the tokens that came out.     *)
Rejected(p, acc) ==
  [i \in DOMAIN p |-> IF p[i].d > 0 THEN p[i].d + 1 - (acc[i] + 1) ELSE 0]

(* prepare_inputs: token_indices.                                           *)
TokenIndices(p, acc) ==
  LET kept == [i \in DOMAIN p |-> p[i].n - Rejected(p, acc)[i]]
  IN  [g \in 0 .. Total(kept) - 1 |->
         OffsetAt(kept, g) + StartOf(Scheduled(p), RowAt(kept, g))]

-----------------------------------------------------------------------------
Batches ==
  UNION { { b \in [0 .. n - 1 -> Reqs] : \A i, j \in 0 .. n - 1 : b[i] = b[j] => i = j }
          : n \in 1 .. MaxRows }

(* A request that the previous step sampled decodes: one token and drafts.  *)
(* Any other request gets a prompt chunk, or its last token, without them.  *)
RowPlans(prev) ==
  IF prev # None
  THEN { [n |-> 1 + d, d |-> d] : d \in 0 .. SpecTokens }
  ELSE { [n |-> n, d |-> 0] : n \in 1 .. MaxChunk }

PrevPositions(b) ==
  [i \in DOMAIN b |->
     IF \E q \in sampled : batch[q] = b[i] THEN CHOOSE q \in sampled : batch[q] = b[i] ELSE None]

(* execute_model: any batch after any batch, in any row order, with any     *)
(* rows without drafts discarded.                                           *)
Launch(b, p, discarded) ==
  LET prev == PrevPositions(b)
  IN  /\ plan = << >>
      /\ batch' = b
      /\ sampled' = DOMAIN b \ discarded
      /\ plan' = p
      /\ prevRow' = prev
      /\ inputIds' = InputIds(b, p, prev)
      /\ metadata' = Metadata(p, inputIds')
      /\ UNCHANGED <<accepted, tokenIndices>>

(* sample_tokens: the target accepts some drafts, and the drafter's inputs  *)
(* are cut accordingly.                                                     *)
Verify(acc) ==
  /\ plan # << >> /\ accepted = << >>
  /\ accepted' = acc
  /\ tokenIndices' = TokenIndices(plan, acc)
  /\ UNCHANGED <<batch, sampled, plan, prevRow, inputIds, metadata>>

(* The step is over; the next one sees its tensors and its rows.            *)
Return ==
  /\ accepted # << >>
  /\ plan' = << >> /\ prevRow' = << >> /\ inputIds' = << >> /\ metadata' = << >>
  /\ accepted' = << >> /\ tokenIndices' = << >>
  /\ UNCHANGED <<batch, sampled>>

Plans(b) ==
  { p \in [DOMAIN b -> UNION { RowPlans(q) : q \in {None, 0} }] :
      \A i \in DOMAIN b : p[i] \in RowPlans(PrevPositions(b)[i]) }

Accepts(p) == { acc \in [DOMAIN p -> 0 .. SpecTokens] : \A i \in DOMAIN p : acc[i] <= p[i].d }

LaunchAny ==
  /\ plan = << >>
  /\ \E b \in Batches : \E p \in Plans(b) :
       \E discarded \in SUBSET { i \in DOMAIN b : PrevPositions(b)[i] = None } :
         Launch(b, p, discarded)

VerifyAny ==
  /\ accepted = << >>
  /\ \E acc \in Accepts(plan) : Verify(acc)

Next == LaunchAny \/ VerifyAny \/ Return

Spec == Init /\ [][Next]_vars

-----------------------------------------------------------------------------
FlatRows == 0 .. Total(Scheduled(plan)) - 1

Tokens ==
  ({"cpu"} \X Reqs \X (0 .. MaxChunk)) \cup ({"sampled"} \X Reqs)
    \cup ({"draft"} \X Reqs \X (0 .. SpecTokens - 1))

TypeOK ==
  plan # << >> =>
    /\ batch \in Batches /\ sampled \subseteq DOMAIN batch
    /\ inputIds \in [FlatRows -> Tokens \cup {Stale}]
    /\ tokenIndices \in [DOMAIN tokenIndices -> FlatRows]
    /\ metadata # << >> =>
         /\ metadata.logits \in [DOMAIN metadata.logits -> FlatRows]
         /\ metadata.target \in [DOMAIN metadata.target -> DOMAIN metadata.logits]
         /\ metadata.bonus \in [DOMAIN batch -> DOMAIN metadata.logits]

(* The token that row i of the batch must be launched with, at offset j.    *)
OwnToken(i, j) ==
  IF prevRow[i] = None THEN <<"cpu", batch[i], j>>
  ELSE IF j = 0 THEN <<"sampled", batch[i]>>
  ELSE <<"draft", batch[i], j - 1>>

(* Whatever shortcut is taken and however the rows have moved, each flat    *)
(* row holds its own request's token: the sampled one, then its drafts in   *)
(* order, or the CPU's; nothing is left from an earlier step.               *)
InputIdsExact ==
  \A i \in DOMAIN plan : \A j \in 0 .. plan[i].n - 1 :
    inputIds[StartOf(Scheduled(plan), i) + j] = OwnToken(i, j)

(* Draft k of a row is judged by the logits of the row just before it, and  *)
(* is compared with that draft itself; the bonus token is sampled after the *)
(* last draft.                                                              *)
DraftsJudgedInPlace ==
  metadata # << >> =>
    \A i \in DOMAIN plan :
      LET end == StartOf(Scheduled(plan), i) + plan[i].n
      IN  /\ metadata.logits[metadata.bonus[i]] = end - 1
          /\ \A k \in 0 .. plan[i].d - 1 :
               LET g == StartOf(Drafts(plan), i) + k
                   row == end - plan[i].d + k
               IN  /\ metadata.logits[metadata.target[g]] = row - 1
                   /\ metadata.drafts[g] = inputIds[row]
                   /\ metadata.drafts[g] = <<"draft", batch[i], k>>
==============================================================================
