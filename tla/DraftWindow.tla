----------------------------- MODULE DraftWindow -----------------------------
(***************************************************************************)
(* The persistent draft KV window of DSpark under continuous batching:     *)
(* DSparkProposer.propose() (dspark_proposer.py), the ring store and the   *)
(* window read of the draft attention (nvidia/dspark.py), and the engine   *)
(* steps that feed them (gpu_model_runner.py).                             *)
(*                                                                         *)
(* One action Step is one engine step: the scheduler picks the requests    *)
(* and their rows, the runner rebuilds the persistent batch, the target    *)
(* model verifies, and the drafter is called.  All GPU work of a step is   *)
(* queued on one stream, so a later step never overtakes it.               *)
(*                                                                         *)
(* KV is abstracted to its identity: the pair <<r, p>> stands for the KV   *)
(* projected from the target's hidden state of token p of request r.       *)
(***************************************************************************)
EXTENDS SlotMap

CONSTANTS
  WindowSize,     \* rows of a request's ring in main_kv_cache
  SpecTokens,     \* num_speculative_tokens
  Configs         \* the engine configurations and workloads considered: records of
                  \*   promptLen      prompt tokens of each request
                  \*   maxChunk       the most prompt tokens of one request in a step
                  \*   maxModelLen    the scheduler's max_model_len
                  \*   drafterMaxLen  effective_drafter_max_model_len
                  \*   maskOn         VLLM_DSPARK_GPU_REJECTED_CONTEXT_MASK
                  \*   prefixHits     lengths of prefix-cache hits; {0} without the cache
                  \*   maxRunning     the most requests in flight at once
                  \*   leavesOut      may a running request be left out of a step?
                  \*   preempts       may the scheduler preempt?

ASSUME DraftWindowAssumption ==
  /\ WindowSize \in Nat \ {0}
  /\ SpecTokens \in 1 .. WindowSize - 1    \* a verified block fits in the ring
  /\ None \notin Batches               \* neither ids nor a slot index are None
  /\ \A n \in 1 .. MaxBatchSize : None \notin [1 .. n -> Slots]
  /\ \E c \in Configs : \A d \in Configs : d.maxChunk <= c.maxChunk
  /\ \A c \in Configs :
       /\ c.maxModelLen \in Nat /\ c.drafterMaxLen \in Nat
       /\ c.promptLen \in 1 .. c.maxModelLen - 1
       /\ c.maxChunk \in Nat \ {0}
       /\ c.prefixHits \subseteq Nat /\ 0 \in c.prefixHits
       /\ c.maxRunning \in 1 .. MaxBatchSize
       /\ {c.maskOn, c.leavesOut, c.preempts} \subseteq BOOLEAN

VARIABLES
  config,      \* the configuration this engine was started with
  phase,       \* the scheduler's view of each request
  computed,    \* num_computed_tokens, accepted tokens only
  known,       \* prompt and sampled tokens
  cache,       \* main_kv_cache: slot -> ring cell -> KV, None if never written
  prefilled,   \* self._prefilled
  raised,      \* propose() raised ValueError: the engine core has died
  attended,    \* what the last step's draft read, per request; {} if no draft
  draftsAt,    \* the position its first draft row was encoded at; 0 if no draft
  since,       \* history: first position of the unbroken run of stores ...
  upto         \* history: ... into the request's slot, and the position after it

engineVars == <<phase, computed, known>>
drafted == <<attended, draftsAt>>
vars == <<config, slotVars, engineVars, cache, prefilled, raised, drafted, since, upto>>

MaxModelLen == config.maxModelLen
MaskOn == config.maskOn

Phases == {"waiting", "running", "preempted", "finished"}

Init ==
  /\ config \in Configs
  /\ SlotMapInit
  /\ phase = [r \in Reqs |-> "waiting"]
  /\ computed = [r \in Reqs |-> 0]
  /\ known = [r \in Reqs |-> config.promptLen]
  /\ cache = [s \in Slots |-> [k \in 0 .. WindowSize - 1 |-> None]]
  /\ prefilled = FALSE
  /\ raised = FALSE
  /\ attended = [r \in Reqs |-> {}]
  /\ draftsAt = [r \in Reqs |-> 0]
  /\ since = [r \in Reqs |-> 0]
  /\ upto = [r \in Reqs |-> 0]

Least(a, b) == IF a < b THEN a ELSE b
Most(a, b) == IF a < b THEN b ELSE a

-----------------------------------------------------------------------------
(* The scheduler and the verification of the step (outside the overlay; as  *)
(* the runner's _update_states and sampling use them).                      *)

Running == { r \in Reqs : phase[r] = "running" }

(* Where a scheduled request starts: where it is, or at a prefix-cache hit  *)
(* when it is admitted or resumed (never the whole of its tokens).          *)
Starts(r) ==
  IF phase[r] = "running" THEN {computed[r]} ELSE { h \in config.prefixHits : h < known[r] }

(* The rows a request can get: a prefill chunk, which samples one token if  *)
(* it reaches the last known token ...                                      *)
Chunk(r, n, c) ==
  [start |-> n, rows |-> c, rejected |-> 0, sampled |-> IF n + c = known[r] THEN 1 ELSE 0]

Prefills(r) ==
  UNION { { Chunk(r, n, c) : c \in { c \in 1 .. config.maxChunk : n + c <= known[r] } } : n \in Starts(r) }

(* ... or, decoding, the last known token and d drafts, a of them accepted. *)
Block(r, d, a) ==
  [start |-> known[r] - 1, rows |-> 1 + d, rejected |-> d - a, sampled |-> 1 + a]

Decodes(r) ==
  IF phase[r] = "running" /\ computed[r] = known[r] - 1 /\ known[r] > config.promptLen
  THEN UNION { { Block(r, d, a) : a \in 0 .. d } :
                 d \in { d \in 1 .. SpecTokens : known[r] + d < MaxModelLen } }
  ELSE {}

Options(r) == Prefills(r) \cup Decodes(r)

(* What each row of the batch does in a step.                               *)
Plans(b) ==
  { plan \in [DOMAIN b -> UNION { Options(r) : r \in RowsOf(b) }] :
      \A i \in DOMAIN b : plan[i] \in Options(b[i]) }

(* The batches the scheduler may form.  A preempted or unscheduled request  *)
(* leaves the persistent batch but stays alive.                             *)
Schedulable(b) ==
  /\ ~raised
  /\ \A r \in RowsOf(b) : phase[r] # "finished"
  /\ Cardinality(Running \cup RowsOf(b)) <= config.maxRunning
  /\ config.leavesOut \/ Running \subseteq RowsOf(b)

-----------------------------------------------------------------------------
(* The flattened rows of the step, and how propose() cuts them per request. *)

AnyRejected(plan) == \E i \in DOMAIN plan : plan[i].rejected > 0

(* Rows per request in the tensors that prepare_context works on: with the  *)
(* mask off, _trim_rejected_target_context has cut the rejected suffixes.   *)
ContextRows(plan) ==
  [i \in DOMAIN plan |-> IF MaskOn THEN plan[i].rows ELSE plan[i].rows - plan[i].rejected]

Uniform(lens) == \A i, j \in DOMAIN lens : lens[i] = lens[j]

(* The <<request, position>> of the rows of batch row i.                    *)
OwnRows(b, plan, i) ==
  [j \in 1 .. ContextRows(plan)[i] |-> <<b[i], plan[i].start + j - 1>>]

(* Prefix sums: query_start_loc.                                            *)
QueryStartLoc(lens) ==
  LET n == Cardinality(DOMAIN lens)
      loc[i \in 0 .. n] == IF i = 0 THEN 0 ELSE loc[i - 1] + lens[i]
  IN  loc

TotalRows(lens) == QueryStartLoc(lens)[Cardinality(DOMAIN lens)]

(* All rows of the step, flattened in batch order and counted from 1.       *)
FlatRows(b, plan) ==
  LET loc  == QueryStartLoc(ContextRows(plan))
      n    == Cardinality(DOMAIN b)
      Seg(g) == CHOOSE i \in 1 .. n : loc[i - 1] < g /\ g <= loc[i]
  IN  [g \in 1 .. loc[n] |-> OwnRows(b, plan, Seg(g))[g - loc[Seg(g) - 1]]]

EqualShares(b, plan) ==
  LET flat  == FlatRows(b, plan)
      share == Cardinality(DOMAIN flat) \div Cardinality(DOMAIN b)
  IN  [i \in DOMAIN b |-> [j \in 1 .. share |-> flat[(i - 1) * share + j]]]

-----------------------------------------------------------------------------
(* query_start_loc, which says where each request's rows start, and the     *)
(* shapes propose() refuses.                                                *)

BatchStarts(plan) == QueryStartLoc([i \in DOMAIN plan |-> plan[i].rows])

(* _prepare_inputs, for a batch padded to m requests, the size of a         *)
(* captured graph: the padding repeats the last entry.                      *)
PaddedStarts(starts, m) ==
  LET n == Cardinality(DOMAIN starts) - 1
  IN  [i \in 0 .. m |-> starts[Least(i, n)]]

UnpaddedForgotten(starts, n) == starts

(* _build_attention_metadata: the drafter gets the entries of the n         *)
(* requests of the step, whatever it was padded to.                         *)
Unpadded(starts, n) == [i \in 0 .. n |-> starts[i]]

HandedStarts(plan) ==
  LET loc == BatchStarts(plan)
      n   == Cardinality(DOMAIN plan)
  IN  { Unpadded(PaddedStarts(loc, m), n) : m \in n .. MaxBatchSize }

(* _maybe_ragged_query_start_loc: one start per request and one more, the   *)
(* last of them the number of hidden rows, and segments of several lengths. *)
TakesRaggedPath(plan, starts) ==
  LET n == Cardinality(DOMAIN plan)
  IN  /\ MaskOn
      /\ Cardinality(DOMAIN starts) = n + 1
      /\ starts[n] = TotalRows(ContextRows(plan))
      /\ ~Uniform([i \in DOMAIN plan |-> starts[i] - starts[i - 1]])

(* _trim_rejected_target_context: refuses another number of starts, a       *)
(* segment of which nothing is left, and trimmed segments of several        *)
(* lengths.  Where nothing is rejected it looks at nothing.                 *)
TrimRaises(plan, starts) ==
  LET End(i) == starts[i] - plan[i].rejected
  IN  /\ ~MaskOn /\ AnyRejected(plan)
      /\ \/ Cardinality(DOMAIN starts) # Cardinality(DOMAIN plan) + 1
         \/ \E i \in DOMAIN plan : End(i) <= starts[i - 1]
         \/ ~Uniform([i \in DOMAIN plan |-> End(i) - starts[i - 1]])

(* _view_by_request, _positions_by_request: off the ragged path, the rows   *)
(* must divide by the batch size, and that is all that is looked at.        *)
ViewRaises(plan, starts) ==
  /\ TotalRows(ContextRows(plan)) % Cardinality(DOMAIN plan) # 0
  /\ ~TakesRaggedPath(plan, starts)

ShapeError(plan, starts) == TrimRaises(plan, starts) \/ ViewRaises(plan, starts)

(* The rows propose() attributes to each batch row.  The ragged path gives  *)
(* each row its own segment of the flat rows.  The rectangular path gives   *)
(* it an equal share of them: its own segment if the lengths are equal.     *)
Contexts(b, plan, starts) ==
  IF Uniform(ContextRows(plan)) \/ TakesRaggedPath(plan, starts)
  THEN [i \in DOMAIN b |-> OwnRows(b, plan, i)]
  ELSE EqualShares(b, plan)

(* The rejected counts prefill_main and the anchor selection see.           *)
MaskedRejects(plan) == [i \in DOMAIN plan |-> IF MaskOn THEN plan[i].rejected ELSE 0]

(* last_positions: the row before the rejected suffix.                      *)
AnchorOf(ctx, rejected) == ctx[Most(Cardinality(DOMAIN ctx) - rejected, 1)]

-----------------------------------------------------------------------------
(* The cache row of batch row i, for the store and for the read.            *)
CacheRow(slotIndex, i) == IF slotIndex = None THEN i - 1 ELSE slotIndex[i]

(* store_main_kv for one row: of the last WindowSize rows, those before the *)
(* rejected suffix (never fewer than one) are scattered to their ring cell, *)
(* position % WindowSize; the others keep the old value of their cell.      *)
StoredRows(ctx, rejected) ==
  LET m    == Cardinality(DOMAIN ctx)
      kept == Least(m, WindowSize)
  IN  { ctx[j] : j \in (m - kept + 1) .. (m - kept + Most(kept - rejected, 1)) }

Cell(t) == t[2] % WindowSize

(* Two rows scattered to one cell leave either of them (the order of        *)
(* scatter_ is undefined): per batch row, the writes that last.             *)
OnePerCell(written) == \A t, u \in written : Cell(t) = Cell(u) => t = u

LastingWrites(writes) ==
  IF \A i \in DOMAIN writes : OnePerCell(writes[i])
  THEN {writes}
  ELSE { won \in [DOMAIN writes -> SUBSET UNION { writes[i] : i \in DOMAIN writes }] :
           \A i \in DOMAIN writes : /\ won[i] \subseteq writes[i]
                                    /\ OnePerCell(won[i])
                                    /\ \A t \in writes[i] : \E u \in won[i] : Cell(u) = Cell(t) }

(* prefill_main for the batch: the lasting writes land in the rings of the  *)
(* rows' slots.                                                             *)
StoreMainKv(rowOfSlot, writes) ==
  \E won \in LastingWrites(writes) :
    cache' = [s \in Slots |->
      IF s \notin DOMAIN rowOfSlot THEN cache[s]
      ELSE [k \in DOMAIN cache[s] |->
              LET new == { t \in won[rowOfSlot[s]] : Cell(t) = k }
              IN  IF new = {} THEN cache[s][k] ELSE CHOOSE t \in new : TRUE]]

WindowReadWhole(ring, position) == { ring[k] : k \in 0 .. WindowSize - 1 }

(* forward_dspark reads valid_main_lengths cells of the row: the first      *)
(* min(current_position + 1, WindowSize) cells of the ring.                 *)
WindowRead(ring, position) == { ring[k] : k \in 0 .. Least(position + 1, WindowSize) - 1 }

DraftStartAtAnchor(anchor) == anchor[2]

(* draft(): the block is encoded from one past the anchor row, which is the *)
(* position of its first token, the one just sampled.                       *)
DraftStart(anchor) == anchor[2] + 1

(* History: the unbroken run of positions stored into the slot r holds.     *)
TrackRuns(b, plan) ==
  LET RowOf(r) == CHOOSE i \in DOMAIN b : b[i] = r
  IN  /\ since' = [r \in Reqs |->
           IF r \in RowsOf(b)
           THEN IF reqIdToSlot[r] # None /\ upto[r] = plan[RowOf(r)].start
                THEN since[r] ELSE plan[RowOf(r)].start
           ELSE since[r]]
      /\ upto' = [r \in Reqs |->
           IF r \in RowsOf(b)
           THEN plan[RowOf(r)].start + plan[RowOf(r)].rows - plan[RowOf(r)].rejected
           ELSE upto[r]]

-----------------------------------------------------------------------------
(* _input_fits_in_drafter: the longest sequence decides for the whole batch.*)
InputFits(plan) ==
  \A i \in DOMAIN plan : plan[i].start + plan[i].rows + SpecTokens <= config.drafterMaxLen

NoDraft == attended' = [r \in Reqs |-> {}] /\ draftsAt' = [r \in Reqs |-> 0]

(* propose(): resolve the slots, cut and store the context, and - except on *)
(* the very first call, which returns noise drafts - read the windows.      *)
Propose(b, plan, starts) ==
  LET ctx  == Contexts(b, plan, starts)
      rej  == MaskedRejects(plan)
      Row(r) == CHOOSE i \in DOMAIN b : b[i] = r
      rows == [i \in DOMAIN b |-> CacheRow(activeSlotIndex', i)]
  IN  /\ ResolveSlots(b, Cardinality(DOMAIN b))
      /\ IF ShapeError(plan, starts)
         THEN /\ raised' = TRUE
              /\ NoDraft
              /\ UNCHANGED <<cache, prefilled, since, upto>>
         ELSE /\ StoreMainKv([s \in { rows[i] : i \in DOMAIN b } |->
                                CHOOSE i \in DOMAIN b : rows[i] = s],
                             [i \in DOMAIN b |-> StoredRows(ctx[i], rej[i])])
              /\ prefilled' = TRUE
              /\ attended' = [r \in Reqs |->
                   IF prefilled /\ r \in RowsOf(b)
                   THEN WindowRead(cache'[rows[Row(r)]], AnchorOf(ctx[Row(r)], rej[Row(r)])[2])
                   ELSE {}]
              /\ draftsAt' = [r \in Reqs |->
                   IF prefilled /\ r \in RowsOf(b)
                   THEN DraftStart(AnchorOf(ctx[Row(r)], rej[Row(r)])) ELSE 0]
              /\ TrackRuns(b, plan)
              /\ UNCHANGED raised

(* The runner's other choice: no draft for anyone, zeros as draft tokens.   *)
SkipDraft ==
  /\ NoDraft
  /\ UNCHANGED <<slotVars, cache, prefilled, raised, since, upto>>

(* execute_model and sample_tokens for the batch b.  A request that reaches *)
(* max_model_len is stopped by the scheduler on the step's output.          *)
Step(b, plan) ==
  LET planOf == [r \in RowsOf(b) |-> plan[CHOOSE i \in DOMAIN b : b[i] = r]]
  IN  /\ UNCHANGED config
      /\ phase' = [r \in Reqs |->
           IF r \notin RowsOf(b) THEN phase[r]
           ELSE IF known[r] + planOf[r].sampled >= MaxModelLen THEN "finished" ELSE "running"]
      /\ computed' = [r \in Reqs |->
           IF r \in RowsOf(b) THEN planOf[r].start + planOf[r].rows - planOf[r].rejected
           ELSE computed[r]]
      /\ known' = [r \in Reqs |->
           IF r \in RowsOf(b) THEN known[r] + planOf[r].sampled ELSE known[r]]
      /\ IF InputFits(plan)
         THEN \E starts \in HandedStarts(plan) : Propose(b, plan, starts)
         ELSE SkipDraft

(* The scheduler evicts r: its blocks are gone and it starts over.          *)
Preempt(r) ==
  /\ config.preempts /\ ~raised
  /\ phase[r] = "running"
  /\ phase' = [phase EXCEPT ![r] = "preempted"]
  /\ computed' = [computed EXCEPT ![r] = 0]
  /\ UNCHANGED <<config, slotVars, known, cache, prefilled, raised, drafted, since, upto>>

(* r stops - end of sequence or abort - and is gone from the next batch;    *)
(* the drafter is not told.                                                 *)
Finish(r) ==
  /\ ~raised
  /\ phase[r] = "running"
  /\ phase' = [phase EXCEPT ![r] = "finished"]
  /\ UNCHANGED <<config, slotVars, computed, known, cache, prefilled, raised, drafted, since, upto>>

Next ==
  \/ \E b \in { b \in Batches : Schedulable(b) } : \E plan \in Plans(b) : Step(b, plan)
  \/ \E r \in Reqs : Preempt(r) \/ Finish(r)

Spec == Init /\ [][Next]_vars

-----------------------------------------------------------------------------
Position == 0 .. MaxModelLen - 1
KV == Reqs \X Position

TypeOK ==
  /\ SlotTypeOK
  /\ phase \in [Reqs -> Phases]
  /\ computed \in [Reqs -> 0 .. MaxModelLen]
  /\ known \in [Reqs -> 0 .. MaxModelLen]
  /\ cache \in [Slots -> [0 .. WindowSize - 1 -> KV \cup {None}]]
  /\ {prefilled, raised} \subseteq BOOLEAN
  /\ attended \in [Reqs -> SUBSET (KV \cup {None})]
  /\ draftsAt \in [Reqs -> 0 .. MaxModelLen]
  /\ since \in [Reqs -> 0 .. MaxModelLen]
  /\ upto \in [Reqs -> 0 .. MaxModelLen]

(* The last WindowSize positions of r that were stored without a break.     *)
OwnRun(r) == Most(since[r], upto[r] - WindowSize) .. upto[r] - 1

(* Whatever the scheduler leaves out, resumes at a cache hit or finds too   *)
(* long to draft for: the draft of r attends to every position of that run, *)
(* so that no other request's store, no condense and no rejected suffix has *)
(* touched one, and starts at the position after it.                        *)
DraftSeesOwnRun ==
  \A r \in Reqs : attended[r] # {} =>
    /\ { <<r, p>> : p \in OwnRun(r) } \subseteq attended[r]
    /\ draftsAt[r] = upto[r]

(* No draft reads KV of another request.                                    *)
DraftReadsOwnWindow ==
  \A r \in Reqs : \A kv \in attended[r] \ {None} : kv[1] = r

(* In this step r gets n > 0 accepted tokens further.                       *)
Advances(r, n) == phase[r] # "finished" /\ n > 0 /\ \E s \in Starts(r) : computed'[r] = s + n

(* propose() kills the engine core over the shape of a step only where the  *)
(* mask is off and two requests of the step get ahead by different numbers  *)
(* of tokens: never under the mask, however prefill chunks, verified blocks *)
(* and rejections are mixed, never with one request in the step, and never  *)
(* because the runner padded the step to a captured graph.                  *)
RaisesOnlyUneven ==
  [][~raised /\ raised' =>
       /\ ~MaskOn
       /\ \E r, q \in Reqs : \E m, n \in 1 .. MaxModelLen :
            r # q /\ m # n /\ Advances(r, m) /\ Advances(q, n)]_vars

(* Is every request's history stored?  No cache hit, nobody left out, no    *)
(* draft skipped for length, and, with the mask off, one request at a time. *)
Exact ==
  /\ config.prefixHits = {0} /\ ~config.leavesOut
  /\ config.drafterMaxLen >= MaxModelLen + SpecTokens
  /\ MaskOn \/ config.maxRunning = 1

MaxAdvance ==
  CHOOSE n \in { Most(c.maxChunk, SpecTokens + 1) : c \in Configs } :
    \A c \in Configs : c.maxChunk <= n

(* There the drafter refines one private history per request, its length    *)
(* being the runner's num_computed_tokens: batching, slot reuse, condense   *)
(* and rejected suffixes are invisible in what a draft attends to, which is *)
(* the last WindowSize accepted positions of its own request and nothing    *)
(* foreign, stale, rejected or unset, and in where it starts.               *)
History == INSTANCE PrivateHistory
  WITH seen     <- IF Exact THEN computed ELSE [r \in Reqs |-> 0],
       attended <- IF Exact THEN attended ELSE [r \in Reqs |-> {}],
       draftsAt <- IF Exact THEN draftsAt ELSE [r \in Reqs |-> 0],
       warm     <- Exact /\ prefilled

RefinesPrivateHistory == History!Spec
==============================================================================
