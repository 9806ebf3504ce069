------------------------------ MODULE EagleDraft ------------------------------
(***************************************************************************)
(* The drafter of the base proposer (llm_base_proposer.py) under the flat  *)
(* layout of SpecInputs: EAGLE and MTP heads, which take the target's      *)
(* hidden states and read each token shifted by one row, and separate or   *)
(* parallel draft models, which need extra rows.  A drafter batch is       *)
(* either cut (prepare_inputs) or left with its rejected rows and told     *)
(* where to sample (prepare_inputs_padded).                                *)
(*                                                                         *)
(* propose() runs one pass over those rows, then one row per request for   *)
(* each further draft, moving the positions itself.  Nothing of a drafter  *)
(* but its KV outlives a step, so its kind is chosen at each step.  A slot *)
(* is named by the request and the position its KV belongs to.             *)
(***************************************************************************)
EXTENDS SpecInputs

CONSTANTS
  MaxModelLen,  \* effective_drafter_max_model_len
  Starts        \* the positions a step may start from

ASSUME EagleDraftAssumption == MaxModelLen \in Nat /\ Starts \subseteq Nat

VARIABLE draft  \* the inputs of the drafter's current pass, None outside propose()

eagleVars == <<vars, draft>>

Padding == <<"padding">>   \* PADDING_SLOT_ID
MaskToken == <<"mask">>    \* parallel_drafting_token_id and its hidden state

EagleInit == Init /\ draft = None

-----------------------------------------------------------------------------
(* Kinds of drafter.                                                        *)

ExtraSlots(d) == IF d.parallel THEN SpecTokens ELSE 1

NetNewSlots(d) == ExtraSlots(d) - (IF d.passHidden THEN 1 ELSE 0)

NeedsExtraSlots(d) == NetNewSlots(d) > 0

(* _raise_if_padded_drafter_batch_disabled.                                 *)
Drafters ==
  { d \in [passHidden : BOOLEAN, parallel : BOOLEAN, padded : BOOLEAN] :
      NeedsExtraSlots(d) => d.padded }

-----------------------------------------------------------------------------
(* _input_fits_in_drafter.                                                  *)
InputFits(start, p) == \A i \in DOMAIN p : start[i] + p[i].n + SpecTokens <= MaxModelLen

(* prepare_next_token_ids_cpu and _padded: a request whose token is         *)
(* discarded takes the next one of its prompt, of which "left" tokens are   *)
(* still to come, or in a padded batch the last one.                        *)
NextTokens(d, left) ==
  [i \in DOMAIN plan |->
     IF i \in sampled THEN <<"next", batch[i]>>
     ELSE <<"cpu", batch[i], IF d.padded THEN plan[i].n + left - 1 ELSE plan[i].n>>]

(* Rows that the drafter gets for each request.                             *)
PassLens(d) ==
  IF d.padded \/ metadata = << >> THEN Scheduled(plan)
  ELSE [i \in DOMAIN plan |-> plan[i].n - Rejected(plan, accepted)[i]]

(* The target's row behind each of them.                                    *)
TargetRows(d) ==
  IF d.padded \/ metadata = << >> THEN [g \in 0 .. Total(Scheduled(plan)) - 1 |-> g]
  ELSE tokenIndices

(* num_rejected_tokens_gpu of prepare_inputs_padded: nothing is left to     *)
(* reject in a cut batch.                                                   *)
RejectedOnGpu(d) ==
  IF d.padded /\ metadata # << >> THEN Rejected(plan, accepted)
  ELSE [i \in DOMAIN plan |-> 0]

LastRow(d, i) == Cumsum(PassLens(d))[i] - 1

LastValidRow(d, i) == Cumsum(PassLens(d))[i] - 1 - RejectedOnGpu(d)[i]

(* set_inputs_first_pass without extra rows: the tokens move up by one row  *)
(* and the next token of each request goes where it is sampled; what is     *)
(* left in the last row is not.                                             *)
ShiftedPass(d, start, next) ==
  LET lens == PassLens(d)
      target == TargetRows(d)
      last == [i \in DOMAIN lens |-> LastValidRow(d, i)]
      Row(g) ==
        LET i == RowAt(lens, g)
            p == start[i] + OffsetAt(lens, g)
        IN  [id   |-> IF g = last[i] THEN next[i]
                      ELSE IF g + 1 \in DOMAIN target THEN inputIds[target[g + 1]] ELSE Stale,
             pos  |-> p, hidden |-> target[g], slot |-> <<batch[i], p>>]
  IN  [rows |-> [g \in DOMAIN target |-> Row(g)],
       sample |-> [i \in DOMAIN lens |-> [k \in {0} |-> last[i]]]]

(* copy_and_expand_eagle_inputs_kernel: the valid tokens of a request, its  *)
(* next token, the masked rows of a parallel drafter, the rejected rows.    *)
ExpandedLens(d) == [i \in DOMAIN plan |-> plan[i].n + NetNewSlots(d)]

SlotOf(i, p, isRejected) ==
  IF isRejected \/ p >= MaxModelLen THEN Padding ELSE <<batch[i], p>>

(* compute_new_slot_mapping without its mask.                               *)
SlotOfAnyRow(i, p, isRejected) == IF p >= MaxModelLen THEN Padding ELSE <<batch[i], p>>

NewSlot(i, p, isRejected) == SlotOf(i, p, isRejected)

ExpandedPass(d, start, next) ==
  LET lens == ExpandedLens(d)
      shift == IF d.passHidden THEN 1 ELSE 0
      valid == [i \in DOMAIN plan |-> plan[i].n - RejectedOnGpu(d)[i] - shift]
      Row(g) ==
        LET i == RowAt(lens, g)
            j == OffsetAt(lens, g)
            isRejected == j >= valid[i] + ExtraSlots(d)
            p == IF isRejected THEN 0 ELSE start[i] + j
        IN  [id   |-> IF j < valid[i] THEN inputIds[StartOf(Scheduled(plan), i) + shift + j]
                      ELSE IF j = valid[i] THEN next[i]
                      ELSE IF isRejected THEN Stale ELSE MaskToken,
             pos  |-> p,
             hidden |-> IF j > valid[i] /\ ~isRejected THEN MaskToken
                        ELSE IF j < plan[i].n THEN StartOf(Scheduled(plan), i) + j ELSE Stale,
             slot |-> NewSlot(i, p, isRejected)]
  IN  [rows |-> [g \in 0 .. Total(lens) - 1 |-> Row(g)],
       sample |-> [i \in DOMAIN plan |->
                     [k \in 0 .. ExtraSlots(d) - 1 |-> StartOf(lens, i) + valid[i] + k]]]

FirstPass(d, start, next) ==
  IF NeedsExtraSlots(d) THEN ExpandedPass(d, start, next) ELSE ShiftedPass(d, start, next)

(* seq_lens of the pass, then less the rejected rows.                       *)
SeqLensKeepRejected(d, start) ==
  [i \in DOMAIN plan |-> start[i] + PassLens(d)[i] + NetNewSlots(d)]

SeqLens(d, start) ==
  [i \in DOMAIN plan |-> start[i] + PassLens(d)[i] + NetNewSlots(d) - RejectedOnGpu(d)[i]]

-----------------------------------------------------------------------------
(* propose() up to its first pass; a parallel drafter needs no other.       *)
FirstStep(d, start, left) ==
  LET first == FirstPass(d, start, NextTokens(d, left))
      At(i) == first.rows[first.sample[i][0]]
  IN  [step   |-> IF d.parallel THEN SpecTokens ELSE 1, skipped |-> FALSE,
       drafter |-> d, start |-> start, rows |-> first.rows, sample |-> first.sample,
       pos    |-> [i \in DOMAIN plan |-> At(i).pos],
       seq    |-> SeqLens(d, start),
       slot   |-> [i \in DOMAIN plan |-> At(i).slot]]

(* propose_draft_token_ids: the drafter is left out when the longest        *)
(* request could outgrow it.                                                *)
Propose(d, start, left) ==
  /\ accepted # << >> /\ draft = None
  /\ draft' = IF InputFits(start, plan) THEN FirstStep(d, start, left)
                                        ELSE [step |-> SpecTokens, skipped |-> TRUE]
  /\ UNCHANGED vars

(* _update_positions_dependent_metadata of a request.                       *)
Advanced(i) ==
  LET p == draft.pos[i] + 1
  IN  IF p >= MaxModelLen THEN [pos |-> 0, slot |-> Padding, seq |-> 1]
      ELSE [pos |-> p, slot |-> <<batch[i], p>>, seq |-> draft.seq[i] + 1]

(* One more pass, of one row each.                                          *)
DraftStep ==
  /\ draft # None /\ draft.step < SpecTokens
  /\ draft' = [draft EXCEPT
       !.step = @ + 1,
       !.pos  = [i \in DOMAIN plan |-> Advanced(i).pos],
       !.slot = [i \in DOMAIN plan |-> Advanced(i).slot],
       !.seq  = [i \in DOMAIN plan |-> Advanced(i).seq]]
  /\ UNCHANGED vars

ReturnDrafts ==
  /\ draft # None /\ draft.step = SpecTokens
  /\ Return
  /\ draft' = None

(* One start position for the step, apart for each row.                     *)
StartOptions == { [i \in DOMAIN plan |-> s + i] : s \in Starts }

EagleNext ==
  \/ LaunchAny /\ UNCHANGED draft
  \/ VerifyAny /\ UNCHANGED draft
  \/ /\ accepted # << >> /\ draft = None
     /\ \E d \in Drafters, start \in StartOptions, left \in 1 .. 2 : Propose(d, start, left)
  \/ DraftStep
  \/ ReturnDrafts

EagleSpec == EagleInit /\ [][EagleNext]_eagleVars

-----------------------------------------------------------------------------
Drafting == IF draft = None THEN FALSE ELSE ~draft.skipped

(* A request keeps its rows up to the last accepted draft.                  *)
Kept(i) == plan[i].n - (plan[i].d - accepted[i])

Shift == IF draft.drafter.passHidden THEN 1 ELSE 0

(* The token after the last kept row of a request.                          *)
TrueNext(i) == IF i \in sampled THEN <<"next", batch[i]>> ELSE <<"cpu", batch[i], plan[i].n>>

(* Whatever its kind and batch, the drafter samples each request from a row *)
(* that holds the token just sampled, after all the request's kept tokens   *)
(* in order, each at its own position, in its own slot and, for a head on   *)
(* the target, beside the hidden state of the token before it.  The next    *)
(* token of a discarded request in a padded batch is left out.              *)
DrafterInputsShifted ==
  Drafting =>
    \A i \in DOMAIN plan :
      LET at == draft.sample[i][0]
          base == StartOf(Scheduled(plan), i)
          first == at - (Kept(i) - Shift)
      IN  /\ \A j \in 0 .. Kept(i) - Shift :
               LET row == draft.rows[first + j]
               IN  /\ row.pos = draft.start[i] + j
                   /\ row.slot = <<batch[i], row.pos>>
                   /\ Shift = 1 => row.hidden = base + j
                   /\ j < Kept(i) - Shift => row.id = inputIds[base + j + Shift]
          /\ i \in sampled \/ ~draft.drafter.padded => draft.rows[at].id = TrueNext(i)

(* No slot is written twice in a pass, and what is written past the row     *)
(* that is sampled, by rejected or masked rows, is past its position.       *)
SlotsWrittenOnce ==
  Drafting =>
    /\ \A g, h \in DOMAIN draft.rows :
         g # h /\ draft.rows[g].slot = draft.rows[h].slot => draft.rows[g].slot = Padding
    /\ \A i \in DOMAIN plan : \A g \in DOMAIN draft.rows :
         LET at == draft.sample[i][0]
         IN  g > at /\ draft.rows[g].slot # Padding /\ draft.rows[g].slot[1] = batch[i]
               => draft.rows[g].slot[2] > draft.rows[at].pos

(* Each further draft is one position after the one before, sees all that   *)
(* came before it and nothing after, and writes its own slot: padded and    *)
(* cut batches agree, and the length check keeps every draft within bounds. *)
DraftStepsContiguous ==
  Drafting =>
    \A i \in DOMAIN plan :
      LET last == draft.start[i] + Kept(i) - Shift
      IN  IF draft.drafter.parallel
          THEN \A k \in DOMAIN draft.sample[i] :
                 /\ draft.rows[draft.sample[i][k]].pos = last + k
                 /\ draft.rows[draft.sample[i][k]].slot = <<batch[i], last + k>>
          ELSE /\ draft.pos[i] = last + draft.step - 1
               /\ draft.seq[i] = draft.pos[i] + 1
               /\ draft.slot[i] = <<batch[i], draft.pos[i]>>
==============================================================================
