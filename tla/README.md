# TLA+ verification of DSpark on vLLM

The repository is an overlay over vLLM that adds DSpark, a speculative
drafter with its own KV window per request, to the DeepSeek V4 target model.
This directory holds TLA+ models of the parts where requests, steps, streams
and ranks interact, TLC runs on small instances, and TLAPS proofs of the
results that should not depend on the size of the instance.

Paths below are relative to `src/overlay/vllm/` unless they start with `src/`.

## 1. Inventory

| component | source | state it keeps | operations | interacts with |
|---|---|---|---|---|
| Request-to-slot map | `v1/spec_decode/dspark_proposer.py` 79-96, 516-557 | `_req_id_to_slot`, `_free_slots`, `_active_slot_index` | `_resolve_slots` | called once by every `propose()`; the index is read by the store, the draft and the graph choice |
| Draft KV window | `dspark_proposer.py` 571-742, 870-1080; `models/deepseek_v4/nvidia/dspark.py` 305-420, 834-912 | `main_kv_cache[slot, position % window]`, `_prefilled` | context preparation (rectangular, ragged, trimmed), `prefill_main`, `store_main_kv`, `forward_dspark` | fed by the target's hidden states of the step, through the runner |
| Draft dispatch and collectives | `dspark_proposer.py` 384-514, 559-566; runner 3824-3955, 5682-6073 | the graph batch size, the draft buffers, the slot index left by the last call | `_determine_graph_batch`, `dummy_run`, `_run_draft_for_current_context` | an all-reduce with the other data-parallel ranks |
| Draft block and argmax | `nvidia/dspark.py` 88-139, 914-1154; `nvidia/dspark_kernels.py` | weights | `draft`, three argmaxes over a split vocabulary | tensor-parallel all-gather |
| Asynchronous runner state | `v1/worker/gpu_model_runner.py` 1143-1511, 1890-2207, 4077-4716 | `prev_num_draft_len`, `prev_req_id_to_index`, `prev_sampled_token_ids`, `_draft_token_ids`, `valid_sampled_token_count_gpu`, `num_computed_tokens` | `execute_model`, `sample_tokens`, the deferred corrections | scheduler (one step ahead), InputBatch, drafter |
| Copy streams, the drafts' way back | runner 3740-3790, 4077-4900 | pinned buffers, `draft_token_ids_cpu`, `valid_sampled_token_count_cpu`, `_draft_token_req_ids`, `_draft_probs` | `synchronize_input_prep`, the copies and their events, `take_draft_token_ids`, `get_output` | engine thread, main stream, two copy streams |
| Flat input layout | runner 1677-1843, 2154-2192, 2777-2855 | flat `input_ids`, `SpecDecodeMetadata` | `_prepare_input_ids`, `_calc_spec_decode_metadata` | sampler and drafter read rows through these indices |
| Base proposer for other drafters | `v1/spec_decode/llm_base_proposer.py` | buffers of EAGLE-like drafters, draft models and parallel drafters | `prepare_inputs`, `prepare_inputs_padded`, `propose` | runner; DSparkProposer inherits it |
| Verification-length schedulers | `v1/spec_decode/dspark.py` 540-683; `dspark_proposer.py` 759-804 | none between steps | threshold, hardware-aware and forced schedules | the confidence head, and a table from the environment |
| Sparse indexer metadata | `v1/attention/backends/mla/indexer.py` | persistent buffers for decode expansion and block tables | `build`, chunk splitting, page-table cap | the runner's choice between graphs and eager |
| Sparse attention indexer layer | `model_executor/layers/sparse_attn_indexer.py` | the shared workspace, locked after capture | profile reservations, prefill chunk loop, decode | reads the builder's metadata, or under a replay the captured buffers |
| KV cache layout and start-up | runner 4900-7800 (in parts) | raw tensors, views, attention groups, graphs, dispatcher keys | `profile_cudagraph_memory`, `initialize_kv_cache`, `capture_model`, `reload_weights`, `shutdown` | worker, drafter's `initialize_cudagraph_keys` |
| Speculative configuration | `config/speculative.py`, `dspark.py` 95-159 | the configuration | validation and derivation at start-up | every other component |
| Kernels, target model, registry | `dspark_kernels.py`, `model.py`, `fp8_einsum.py`, `registry.py` | weights | numeric code, lookup tables | - |
| Deployment and benchmarks | `src/docker-compose.dspark-b12x.yaml`, `src/bench.py`, `src/benchmarks/` | - | scripts | fixes the deployed configuration: asynchronous scheduling, chunked prefill, prefix caching, the rejected-context mask on, four sequences |

How they interact in one step.  The scheduler (in vLLM, not in the overlay)
picks requests and token counts.  `execute_model` rebuilds the persistent
batch, in which a request's row can change from step to step, lays the step's
tokens out in flat tensors, partly from the previous step's GPU tensors,
builds the attention metadata, and launches the target, eagerly or as a graph
captured at start-up.  `sample_tokens` verifies the drafts and calls
`propose()`, or skips it for the whole batch if one sequence is too long for
the drafter.  `propose()` resolves each request's slot, cuts the flat hidden
states per request, stores their KV in the slot's ring without the rejected
suffix, and drafts from the window.  Counts and drafts travel back to the CPU
on streams of their own while the next step is being prepared.

What is hard here:

* **Identity under movement.** Rows, slots, ring cells and flat indices are
  four different coordinates of one request; each is recomputed per step, and
  tensors of an earlier step are indexed by an earlier step's rows.
* **Holes.** The window is only right if every accepted position was stored.
  Prefix-cache hits, skipped drafts and steps without the request all leave
  holes that nothing records.
* **Optimism.** Under asynchronous scheduling the counts that arrive from the
  scheduler are guesses; GPU and CPU correct them separately and at different
  times.
* **Streams.** Three GPU streams and the engine's thread share pinned buffers
  that are overwritten every step; only events say when which may be touched.
* **Two halves of one decision.** Runner and indexer builder, profile run and
  chunk splitter, capture loop and drafter's dispatcher each compute the same
  bound from formulas of their own.
* **Collectives without a tag.** Data-parallel ranks pair their all-reduces by
  count; every early return on one rank is felt on the others.
* **Index arithmetic** on ragged batches: cumulative sums with different
  strides, sometimes combined with shortcuts that skip the work.

What makes each component correct: the slot map must be one-to-one, lose
nothing and keep a running request where it is; a draft must see exactly its
own request's last positions; all ranks must enter the same collective, with a
size all of them have a graph for; each draft must be the best token, however
the vocabulary is split; every launched row must carry its own request's next
position and tokens; every draft must be judged by the row before it, and with
the probabilities it was drawn from; other drafters' passes must run on
contiguous positions and write each KV slot once; a schedule must be the best of
those it stands for, and must not look ahead; each query row must be scored
against exactly its own context; layers that share memory must keep out of each
other's blocks, and every graph a step can ask for must have been captured on
the KV cache in use.

## 2. Modules

| module | what it is | depends on |
|---|---|---|
| `SlotMap` | the slot map, its input being any sequence of batches | - |
| `PrivateHistory` | abstract specification: one private draft history per request | - |
| `DraftWindow` | scheduler, runner and `propose()` around the slot map and the rings | EXTENDS `SlotMap`, INSTANCE `PrivateHistory` |
| `DraftRanks` | draft dispatch and collectives of the data-parallel ranks | - |
| `DraftBlock` | the draft loop and the three argmaxes over a split vocabulary | - |
| `AsyncRunner` | the runner's state under asynchronous scheduling | - |
| `DraftStreams` | the engine's thread against the GPU streams | - |
| `SpecInputs` | flat layout of a step, and the indices into it | - |
| `EagleDraft` | the base proposer's passes over that layout | EXTENDS `SpecInputs` |
| `PrefixSchedule` | the verification-length schedulers | - |
| `IndexerMeta` | the sparse indexer's builder and layer | - |
| `KvLayout` | views of the layers' KV caches, as operators | - |
| `Startup` | loading, probing, capture, reloading, shutdown | EXTENDS `KvLayout` |
| `DraftWindowProofs` | theorems about the slot map, the windows and the refinement of `PrivateHistory` | EXTENDS `DraftWindow` |
| `DraftScheduleProofs` | theorems about the draft block and the schedulers | EXTENDS `DraftBlock`, `PrefixSchedule` |
| `EagleDraftProofs` | theorems about the flat layout and the base proposer | EXTENDS `EagleDraft` |
| `IndexerMetaProofs` | theorems about the sparse indexer | EXTENDS `IndexerMeta` |
| `DraftRanksProofs`, `AsyncRunnerProofs`, `DraftStreamsProofs`, `StartupProofs` | theorems | the module they are named for |
| `MC...` | TLC instances: constants, configurations, symmetry | the module they are named for; `MCSpecInputs` EXTENDS `EagleDraft`, `MCPrefixSchedule` EXTENDS `PrefixSchedule` and `DraftBlock` |

Several modules take a set of configurations as a constant and choose one in
`Init` (`Configs`, `Deployments`, `Engines`): one run then covers all of them.

### SlotMap
`reqIdToSlot`, `freeSlots` and `activeSlotIndex` are the three fields of the
proposer.  `ResolveSlots` is the whole of `_resolve_slots` plus the assignment
`propose()` makes of its result: the early returns for missing or mismatched
request ids, the reclaiming of slots of absent requests (`Stale`), the sorted
free list, and `pop(0)` in row order.  The loop is written as the assignment it
computes (`PopLowestFirst`): increasing with the row, and leaving no free slot
below a used one.  The module makes no assumption about batches except that a
request has one row and a batch has at most `MaxBatchSize` rows.

### PrivateHistory and DraftWindow
KV is abstracted to its identity, `<<request, position>>`: what was projected
from that token's hidden state.  `Step` is one engine step.  The scheduler's
part is enumerated (`Options`): a prefill chunk, or a decode of one token and
`d` drafts of which `a` are accepted.  The rest is translated: `Contexts` and
`ContextRows` for the rectangular, ragged and trimmed paths, `StoredRows` for
the masked suffix and the cut to the window, `StoreMainKv` for the scatter
(where two rows hit one cell, either may remain), `WindowRead` for the cells
the attention reads, `DraftStart` for the position the block is encoded at,
`InputFits` for the skipped draft.  The `ValueError`s are `TrimRaises` (the wrong
number of starts, a segment with nothing left, trimmed segments of several lengths)
and `ViewRaises` (rows that do not divide).  They look at `query_start_loc` as it
reaches the drafter: the running sums of the step's rows, filled up to the size of
whatever graph the step was padded to (`PaddedStarts`), and cut back by the runner
(`Unpadded`).  A call that raises has resolved its slots and stored nothing.  All GPU
work of a step is queued on one stream, so a step is atomic here.  `since` and
`upto` are history variables: the unbroken run of positions stored into the
slot a request holds.  `DraftSeesOwnRun` says what is left of the promise when
histories have gaps.

`PrivateHistory` says what DSpark promises without any of that: each request
has a history of its own, and a draft attends to its last `WindowSize`
positions and starts one past them.  The refinement maps `seen` to the runner's
`num_computed_tokens`, `warm` to `_prefilled`, and what was attended to and
where the draft started to themselves.  It applies where every position is
stored (`Exact`: no cache hit, nobody left out, no draft skipped, and without
the mask one request at a time); elsewhere the mapping is constant, and
`DraftSeesOwnRun` is the property that speaks.

### DraftRanks
Each rank is `ready`, waits in the `target` all-reduce, has `verified`, waits
in the `draft` all-reduce, or is about to `run` its draft.  A collective
completes when all ranks wait in the same one; ranks waiting in different ones
would be paired by the transport, which `CollectivesAligned` forbids.
`Dispatch` is the captured size that holds a batch, or none.  A deployment says
which ranks there are (`group`), whether their drafters are warm (`prefilled`),
whether batches may not fit in the drafter (`maySkip`) and whether a rank
without requests runs dummy batches (`mayIdle`).

### DraftBlock
`DraftPosition` is one iteration of the loop over the block: arbitrary base
logits, the Markov bias of the token before, and the choice by one of three
ways: over the gathered logits, over each rank's best
(`_vocab_parallel_argmax_from_local`), and over the best of each kernel block of
each rank (`dspark_markov_argmax`).  Padding columns and blocks that reach past
the shard are masked as the code masks them.

### AsyncRunner
The scheduler side keeps what it believes (`sched`, `expected`) and the
results it has not processed; the runner side what the code keeps, by request
on the CPU and by row on the GPU.  `Execute` is `_update_states`,
`_prepare_inputs`, the launch and the deferred corrections;  `SampleTokens` is
`sample_tokens` with the drafter's outcome; `ExecuteEmpty` a step with nothing
scheduled; `ProcessOutput` the scheduler's rollback of rejected drafts.  `done`
is a history variable: the accepted positions.  The scheduler, InputBatch and
`update_num_computed_tokens_for_batch_change` are not in the overlay and are
modelled from how the runner uses them.

### DraftStreams
The same steps seen by time instead of by value.  A stream is the queue of the
operations still to run on it (`RunMain`, `RunCounts`, `RunDrafts`); a value is
the step that computed it.  The thread's actions are `Execute`, `Correct` (the
deferred corrections), `Deferred` (sampling is put off, and the drafts are
taken, when a grammar needs tokens in flight), `SampleTokens` and
`ProcessOutput`.  Each wait of the code on an event is a guard.  Steps are
numbered modulo `Ids`, and at most `Lag` copies are outstanding on a stream.

### SpecInputs and EagleDraft
Flat tensors are functions from 0, tokens are named by where they came from,
and the index computations are translated one by one.  `Launch` takes any batch
in any row order after any other, including both shortcuts of
`_prepare_input_ids` and the case where nothing is uploaded from the CPU
(`Stale` tokens then stand for what the buffer held).

`EagleDraft` runs the base proposer on that layout, for every kind of drafter
(`passHidden`, `parallel`, `padded`): batches cut by `prepare_inputs` or left
with their rejected rows by `prepare_inputs_padded`, the first pass shifted by
one or expanded by extra rows, the further steps that move positions
themselves, and the slots that each pass writes.  In a padded batch the backup
token of a request whose prompt goes on is the last prompt token, not the next
one; no draft of such a request is scheduled, and
`DrafterInputsShifted` leaves that row out.

### PrefixSchedule
`Visit` is one iteration of `hardware_aware_prefix_schedule`.  Probabilities
are exact: a confidence is a number of `Unit`-ths and a survival a number of
`Unit ^ SpecTokens`-ths.  The code computes with floats, so ties that rounding
creates or breaks are outside the model.  The alternatives are the forced,
threshold and off schedules scored by `score_prefix_lengths`.

### IndexerMeta
`Build` is the metadata builder with its kernels: the split into decodes and
prefills, the three expansions of decodes to rows (`UniformRows`,
`VariableRows`, `NativeRows`), the trimmed copies of block tables, the page-table
cap (`Narrowed` is the builder's half of the decision, `Eligible` the runner's),
chunk splitting and the chunks' extents.  `Profile` reserves the scratch,
`RunChunk` and `RunDecode` are the layer, and `topk` is not a selection but the
set of K rows each query row was scored against.  A replayed graph reads the
buffers it was captured with.

### KvLayout and Startup
`KvLayout` computes each layer's view (sizes and strides) of a raw tensor that it
may share with other layers: the order agreed on per tensor (`SharedOrder`), the
block-major rewrite beside Mamba layers (`Interleaved`), padded pages and
kernel blocks.  `Startup` is the worker's sequence of calls.  The probe
(`StartProbe`, `CaptureOne`, `FinishProbe`, `FailProbe`) sets up a small KV cache,
attention groups, dispatcher keys and graphs and throws them away; then the
same code runs again for real.  The drafter's graphs are captured as a side
effect of the target's, in sizes computed from the target's.

## 3. Runs

Every run finishes within five minutes on two workers.

| run | question | bounds | states |
|---|---|---|---|
| `MCWindow` | is the slot map consistent, does a draft see its own unbroken run in every configuration, exactly its own window where histories have no gaps, and over which shapes does `propose()` raise? | 3 requests, 2 slots, window 2, 1 draft; with preemption; with cache hits, left-out requests and a short drafter; alone with chunks of 3 over a ring of 2, with and without the mask; two at a time without the mask | 248 k |
| `MCRanks` | do warm ranks stay in step, does every size hold its batch, does a permuted slot index fit its draft, and does every step end? | 2 warm ranks, and 1 rank from its cold start with skipped drafts; batches up to 4, graphs for 1 and 3 | 94 k |
| `MCAsyncRunner` | are positions, counts and inputs right under asynchronous scheduling? | 2 requests, 2 rows, 1 draft, length 5 | 2.7 M |
| `MCSpecInputs` | do the flat indices hit the right rows, and do other drafters run on shifted tokens, contiguous positions and slots written once? | 3 requests, 3 rows, 2 drafts, chunks of 2, length 9, starts 0 and 3 | 100 k |
| `MCPrefixSchedule` | are the schedules optimal and non-anticipating; are the drafts greedy? | 2 requests, 2 drafts, confidences 0, 1/2, 1, every table over three rates; vocabulary 4 on 2 ranks of 3 columns, kernel blocks of 2, blocks of 2 | 1.7 M |
| `MCIndexer` | is each query row scored against its own context, within the budgets and the reserved scratch? | 2 requests, length 8, 2 tokens to a page, 6 deployments, 44 logits, gather workspace 9, supertile 13 | 29 k |
| `MCStreams` | does every forward run on its own inputs, does every reader get the step it wants, and does every output come back? | a plain and a structured request, both engines, 3 step numbers, 2 outstanding copies | 436 k |
| `MCStartup` | do shared tensors keep blocks apart, is every graph captured, does nothing of the probe survive? | 3 layers of 12 kinds over 1 or 2 tensors, every graph mode and drafter, pages of 8, 2 heads, sizes 2, 4, 6, 8, 3 requests, 2 blocks, probe of 1, 1 reload | 164 k |

Why the bounds are enough for the cases they are meant for.  In `MCWindow`
there is one request more than there are slots, so that slots are inherited
with their previous owner's cells in them; the window is shorter than the
prompt plus two blocks, so that the ring wraps; prompts are longer than one, so
that they can be chunked and mixed with decodes, which makes a batch ragged; and
one configuration has chunks longer than the ring.  A step of one request may be padded
to two.  In the configuration with two requests and no mask the engine does raise, over a
chunk of one row beside one of two and over rejections in one of two blocks; any two
row counts that differ there are 1 and 2, so that the rows never divide and
`DraftSeesOwnRun` holds.  In `MCRanks` sizes 2 and 4
have no graph of their own: 2 is padded to 3, and 4 runs eagerly.  In
`MCAsyncRunner` the length bound of 5 leaves room for three rounds of drafting
after a prompt of one, so that a correction follows a correction, and two
requests can swap rows; a draft of one is accepted or not, and blocks accepted in
part are covered by the theorems alone.  In `MCSpecInputs` three rows give every relative order
of a moved, a new and a resumed request, two drafts let a block be accepted in
part, and length 9 lets a step from 3 end just below and just at the limit.
`MCPrefixSchedule` has tables with gaps, plateaus and cliffs, and shards of which
one ends inside a kernel block and holds more padding than tokens.  In
`MCIndexer` a prompt can exceed either budget alone, two can exceed them only
together, and the cap of 6 lies between the shortest and the longest context.
In `MCStreams` two copies can be outstanding while a third step is prepared, which
is as far ahead as the engine runs; three step numbers tell those apart.  In
`MCStartup` each pair of kinds meets on one tensor beside a third layer, and the
sizes include one above the largest draft batch.

Deadlock is not checked in `MCWindow`, `MCPrefixHit`, `MCAsyncRunner`,
`MCPrefixSchedule` and `MCStartup`: there the system stops when all requests
have finished, an error was raised, the schedule or block was returned, or the
runner is shut down or failed.

Every property of a passing run has a mutant in `PROJECT.json`: a plausible
slip in a definition which that run then catches.  The slipped
definitions stand in the modules, next to the one they vary, under a name that
says how (`SubChunksEmptyLast`, `CountsArrivedButLast`, `WindowReadWhole`, ...); no
specification uses them.

### Where the code does not do what it says

Four runs end in a counterexample, each against a statement of the
repository's own.

* `MCPrefixHit`: reads are said to hit the right request's window; after a
  prefix-cache hit they cover cells the request never stored.  The compose
  file turns the prefix cache on.
* `MCRanksWarmUp`: a rank whose first `propose()` returns before the draft's
  collective is one all-reduce behind ranks that run dummy batches.
* `MCPageCap`: a step over the page-table cap is said to be "never truncated".
  The runner forces a step to run eagerly when its tokens exceed the cap
  (`gpu_model_runner.py` 3884); the builder also wants one page of slack
  (`indexer.py` 997-1001).  A step between the two replays a graph captured on
  the capped buffer, while the builder fills the full one.
* `MCStreamsZero`: the drafts are zeroed "so the scheduler doesn't schedule stale
  drafts" (`gpu_model_runner.py` 4596-4597).  The zeros are written by the host at
  once (4801); the copy of the previous step's drafts may still be queued, and
  overwrites them.

The same modules show other cases under other configurations, for which no run
is kept.  They are the reason for the fields that the passing runs fix:

* `SlotsSticky` is about requests in consecutive batches: a running request
  that misses one batch loses its slot (`dspark_proposer.py` 537-538,
  `gpu_model_runner.py` 1179-1182), and with it `DraftReadsOwnWindow` fails
  (`leavesOut`).
* `DraftReadsOwnWindow` fails with a `drafterMaxLen` that one request exceeds:
  its length suppresses the draft, and with it the store, of the whole batch
  (`gpu_model_runner.py` 4451).
* `DraftReadsOwnWindow` and `DraftSeesOwnRun` fail with `maskOn = FALSE`, two rows
  and chunks of 3 (rows 1 and 3 divide): the check for
  "uniform flattened per-request inputs" only tests divisibility
  (`dspark_proposer.py` 576).  The mask is off by default in the code, but on in
  the compose file.
* `CollectivesAligned` fails with `maySkip = TRUE` and two ranks: a rank that
  skips its draft makes one all-reduce fewer.
* The dummy draft of an idle rank uses the slot index of its last real batch,
  which can be shorter than the dummy batch; `RealDraftsFitSlotIndex` is
  therefore about drafts of real requests.

None of the window findings affects what is generated: a wrong draft is
rejected by the target.  They cost acceptance, which is what the README's
section on concurrency is about.  The rank findings need data parallelism,
which the compose file does not use.

Noticed while modelling, without a property: a replayed decode batch that is
padded and not flattened sets `requires_padding`, for which the builder does not
refresh the schedule metadata of the paged logits kernel; the docstring of
`prepare_inputs` gives the new sequence lengths one larger than the code
computes them; and the clamp of positions in the fused draft step restarts them
at 0 past the length limit, which the runner's length check keeps from
happening.

## 4. Fairness

Two runs check liveness.

`StepsEnd` (`MCRanks`): `FairSpec` assumes weak fairness of the two collectives,
which complete once all ranks have entered; of the work of a rank that has
started a step, which is straight-line code; and of the start of a dummy batch,
since the engine loop of a rank without requests keeps running dummy batches as
long as any rank has work.  No fairness is assumed of the arrival of requests.

`StepsReturn` (`MCStreams`): `Spec` assumes weak fairness of the three GPU
streams, which run what was launched, and of the thread's own actions after a
launch (`Correct`, `Deferred`, `SampleTokens`, `ProcessOutput`), since the engine's
loop does not stop while an output is outstanding.  None is assumed of
`Execute`: no new work need ever come.

All other specifications are checked for safety only.

## 5. Proofs

Nothing is assumed beyond the named assumptions of the modules.

**The slot map** (`DraftWindowProofs`).  The inductive invariant is
`SlotTypeOK /\ SlotsPartition`.  Neither half is inductive alone: that the new
requests get distinct slots needs the free list to be disjoint from the slots
in use, and that this still holds afterwards needs that they were taken from
it and were distinct.  `SlotsPartition` is the conjunction of
`SlotsInjective` and `SlotsConserved`; a step is proved to preserve each on its
own.  From the invariant follow

* `SlotsStickyAlways`: a request mapped before and after a step keeps its slot;
* `NeverExhausted`: by counting.  The slots used by requests of the next batch
  are at most as many as those requests, the batch has at most `MaxBatchSize`
  rows, and the reclaimed list has all other slots;
* `FreshBatchAlwaysIdentity`: if no request of the batch had a slot, all slots
  are free after reclaiming, and lowest-first assignment gives row `i` slot
  `i - 1`, by induction over the rows in the form of a least counterexample.

**The engine** (`DraftWindowProofs`).  `EngineImplementsSlotMap`: each step of
`DraftWindow` is one `ResolveSlots` or leaves the map's variables alone.  The
slot map's theorems therefore hold in the engine whatever the scheduler, the
prefix cache, preemption and the mask do; `EnginePartition` and
`EngineNeverExhausted` state two of them.

**The windows** (`DraftWindowProofs`).
`DraftAlwaysSeesOwnRun`, for any `WindowSize`, requests,
batch, chunk and block sizes, any of the scheduler's choices, and every
configuration in which `propose()` can tell the rows of a step apart: under the
mask, or with one request in flight (`AlwaysSeparable`).  `DraftSeesOwnRun` is not
inductive: what a draft sees was stored by earlier steps.  `WindowInv` adds that
the run of every mapped request is in the ring of its slot (`RunStored`).  A step
keeps it for this reason.  Of the positions the new window covers, some are
written in the step: a run of rows leaves exactly its last `WindowSize` ones
before the rejected suffix (`SegmentFacts`), no two of them in one cell
(`StoredApart`), and into a slot nobody else has (`ResolvedFacts`, from the slot
map's invariant).  Any other was in the previous window of the same slot, since
the slot is sticky and the run did not break, and no position written now has
its cell, because two positions less than a window apart never share one
(`RunCovered`, `CellsDistinct`).  That blocks with rejections fit in the ring is the
assumption `SpecTokens < WindowSize`.

`EngineRaisesOnlyUneven` holds in every configuration.  The starts the drafter is
handed are those of the step's requests, whatever graph it was padded to
(`HandedAreBatchStarts`), and they cut the rows into the segments that were scheduled
(`StartsFacts`).  So under the mask rows of several lengths are always recognized as
ragged (`OwnSegments`), and equal ones divide, being a sum of equal terms
(`EqualLengthsDivide`).  Without the mask no segment is trimmed to nothing, because a
block keeps at least the token that was sampled before it; what is left to raise over
is two segments that keep different numbers of rows (`NoShapeError`), and those are two
requests that get ahead by different numbers of tokens (`RowAdvances`).

`WindowTypeOK` holds in every configuration, also where the mask is off and
`propose()` cannot tell the rows apart.  `RangeInv` adds to the types that a request
that can still be scheduled has room for one more token; an unfinished request at the
length limit would be given rows beyond it.  A batch that the views do not refuse
is cut into equal shares of the flat rows: each has at least one row, none lies
beyond the last (`ContextInRange`), and each flat row is some request's, its segment found in
`query_start_loc` as the least one that reaches it (`StartLocIs`, `SegmentExists`).  Such a
share may still be another request's, which is what `DraftReadsOwnWindow` is about.

**The refinement** (`DraftWindowProofs`).  `EngineRefinesHistories`:
`Spec => RefinesPrivateHistory` for every value of the constants.  `ExactInv` adds,
where every history is stored (`Exact`), that runs start at 0, that the run of
a running request ends at `num_computed_tokens` and is mapped, that whoever is not
running starts over, and that no unfinished request has reached the length
limit, so that the drafter is called in every step.  Then a window read is the
abstract `Recent` exactly: every cell it selects holds one of the last positions
(`CellCovered`).  The theorem needs a largest `maxChunk` among `Configs`, which
`MaxAdvance` is built from.

**The ranks** (`DraftRanksProofs`).  `CollectivesAlwaysAligned`, for any number
of ranks and any sizes, assumes `AlwaysDrafting`: warm drafters and no skipped
draft.  Without the first `MCRanksWarmUp` is a counterexample, and without the
second there is one as well (section 3).  `CollectivesAligned` is not inductive:
two ranks waiting in different collectives while a third is still on its way
violate nothing yet.  `StepInv` adds that all ranks are on the same side of the
last collective, and that every rank will make a collective for its draft.

`RealDraftsAlwaysFit` needs no such assumption.  A rank whose slot index is
permuted offers no graph, and one such offer makes the mode all ranks agree on
`NONE`, so that nobody is padded; `FitInv` carries that through the collective
to the draft.

Nor does `DraftsAlwaysCover`.  A dispatch returns a size that holds its rows and
that it returns again for itself (`Holds`); the largest of such sizes is one
too, because it is a captured one if all ranks are on graphs.  The `CHOOSE`s are
discharged by a smallest and a largest element of a bounded set of sizes.

**The draft block** (`DraftScheduleProofs`).  `DraftsAlwaysGreedy`, for any
vocabulary, sharding, padding, kernel block and logits.  A finite row has a first
best element (`FirstBestExists`, by a least element of the set of best columns).
The heart is `TwoLevels`: when a range is cut into consecutive parts, the first
best of the parts' first bests is the first best of the range, ties included,
since an earlier part has the smaller indices.  It is used twice, for kernel
blocks in a shard and for shards in the vocabulary.  That a masked column never
wins needs `NegInf` below every corrected logit, and a rank with nothing but
padding to lose against one that has tokens.

**The runner's state** (`AsyncRunnerProofs`).  `PositionsAlwaysExact`,
`CpuAlwaysAgrees` and `InputsAlwaysOwn`, for any requests, rows, drafts per
request, prompts, chunk sizes and row orders.  None of the three says anything
between two steps, which is where the information is.  `AsyncInv` adds it:

* `CountsInv`: the scheduler's count of a running request is its accepted
  positions, plus what the results it has not processed reject, plus the step in
  flight.  This is why the scheduler's count alone is right for a row without
  drafts in flight;
* `LastInv`, `RowsInv`, `SampledInv`, while no step is in flight: the newest result is
  that of the last sampled step and its rejections are the drafts planned less
  the valid count kept on the GPU; that step's GPU count plus its valid count is
  the accepted position of the request in that row; and a row that
  `prev_req_id_to_index` names holds its request's last token and drafts.

A launch turns the second group into the properties (`KnownBeforeLaunch`,
`LaunchExact`: `CHOOSE` in `PrevNumDraftTokens` finds the right request because no two
requests have one previous row).  Sampling turns the properties back into the
second group (`SampleStep`), and processing a result moves what it rejects from
what is pending into the count (`ProcessStep`).

The types (`RunnerTypeOK`) need more than they seem to: that no count passes
`MaxModelLen` while the scheduler may be ahead of the accepted tokens follows from
`BoundsInv`, by which a request's accepted tokens, what was granted to it and what
its unprocessed results still take back add up to what the scheduler expects.

**The streams** (`DraftStreamsProofs`).  `AlwaysForwardOnOwnInputs`,
`AlwaysCountsArePrevious`, `AlwaysDraftsReadAreOwn` and `AlwaysProbsMatchDrafts`, for
any requests, batches, lag and step numbers, asynchronous or not.  Each says what
a reader finds when it reads; the invariant says what is on its way.  `Fed`: a
queued forward pass has its own step's inputs, in the pinned buffers if an upload
is queued before it and in the GPU's otherwise; the thread overwrites the pinned
buffers only once the upload has run, which is what the event is for.
`LastCount`: the last count queued, or the one that arrived if none is, is that
of the step before.  `Copied`: the last copy of drafts queued, or the ones on
the CPU, are those the recorded request ids were recorded for, unless they are
the zeros of a skipped draft (`MCStreamsZero` shows why these are excepted).
`ProbsInv`: the probabilities kept are of the step whose drafts a plan may use.

**The flat layout and other drafters** (`EagleDraftProofs`).  `AlwaysInputIdsExact`
and `AlwaysDraftsJudgedInPlace` for the layout, for any row order and either shortcut;
`EagleRefinesInputs`: every pass of the base proposer leaves the layout alone, so
that both hold in the composition, and then `AlwaysDrafterInputsShifted`,
`AlwaysSlotsWrittenOnce` and `AlwaysDraftStepsContiguous`.  A cumulative sum cuts the flat
indices into one interval per row, and everything is read off at an index that is
known by its row and its offset in it (`RowOf`).  `PassShape` states a pass that way once, for
the rows that are shifted in place (`ShiftedShape`) and for those expanded by extra
slots (`ExpandedShape`), and `DraftInv` keeps it through the passes that follow.

**The schedulers** (`DraftScheduleProofs`).  `AlwaysSchedulersOptimal`, for any
requests, drafts, confidences and tables, and `AlwaysNonAnticipating`.  The invariant
`OptimalInv` says what the loop knows at each turn (`Searching`): it has admitted
exactly what it has visited, nothing visited survives less often than what is left,
its running sums are the scores of its lengths, and no schedule of a size it has
passed beats its result.  That no schedule of the same size is better is an
exchange: replacing a draft by one that was admitted instead does not lower the
sum of survivals (`SumExchange`, `BestOfItsSize`).  That stopping early loses nothing is
arithmetic on a log-concave table: once a further draft does not raise the
throughput, none after it does (`PastThePeak`).  The module extends both
`DraftBlock` and `PrefixSchedule` and uses the assumptions of each only for its own theorems.

**The indexer** (`IndexerMetaProofs`).  `ChunksAlwaysWithinBudgets` and
`ScratchAlwaysSuffices`, for any batch, page size, budgets and deployment.  The invariant
`MetaInv` says of each chunk that is still to be run that it is a non-empty part of
the batch's query rows that fits its budgets (`FittingChunk`).  Two lists are cut by
two recursions over the same requests, one from the CPU's bounds on their lengths
and one, on the GPU, from the exact lengths; an extent stays inside what was gathered
because sums of smaller lengths are smaller (`SumToDominated`) and division is
monotone.  That the scratch suffices compares two roundings of the same
quotient (`ProfileWidthSuffices`).
`RowsScoreOwnContextAlways` says that the logits of a row are those of its own
request's pages, up to its own length, and of no other.  Its invariant `ScoreInv` says that what remains to be run covers what
remains to be scored: the chunks to come are cut from the batch's requests in order
(`ChunksBuilt`), a chunk that skips the gather finds its K rows in the workspace
(`GatheredFirst`), and every row is a decode's, is scored already, or is in a
chunk to come (`RowsCovered`).  The prefill chunks tile the prefill rows
(`ChunksCover`), and the expansion of the decodes gives each of their rows its own
length and pages (`DecodesOwn`).  The theorem has a hypothesis, `CapNeverReplayed`: no deployment both caps the page table
of the b12x kernel and replays graphs.  Under it a replay's cap would be that of
the step that was captured; the six deployments of `MCIndexer` satisfy it, and
`MCPageCap` shows the counterexample in one that does not.

**Start-up** (`StartupProofs`).  `AlwaysServesOnLiveState`.  The invariant
`LiveInv` says by phase what exists: nothing before the probe and after it
(`Empty`), and only things of the real KV cache from its allocation on
(`OnReal`).  It is what makes the theorem inductive: serving itself says nothing
of the probe's leftovers at the time they are made.  `StepsAlwaysCaptured` adds
`KeysInv`: the keys are those of the resolved mode from the allocation on, and a key that
is no longer to be captured has its graphs, the drafter's included.
`BlocksAlwaysDisjoint` is about the views: what a layer reaches of a block is what
it reaches of block 0, moved (`CellsShifted`), and block 0 is built up dimension
by dimension (`Spread`), each spread out by at least the width of what is inside, so
that no element is counted twice (`SpreadCounts`).  The order a tensor's layers share
(`SharedOrderIs`) decides whether a block lies in one page or in two halves; layers
with different kernel blocks then have it in the same span (`CellsInSpan`).

**How recursion is proved about.**  The models use recursive functions, never
recursive operators.  `LeastExists` (every non-empty set of naturals has a least
element) takes the place of induction: the function is shown to exist by a least length for
which it does not, and a property of its values by a least argument at which it fails.

**Assumptions on constants.**  Those of the modules, and nothing else; in
particular batches name each request once, `Layers` is not empty, a page holds whole
compressed rows (`BlockSize % ratio = 0`), the gather workspace holds one request of
the longest length, and every engine's layers are laid out as the code expects
(`EnginesAssumption`: pages hold whole kernel blocks, as the `view` of the raw tensor
demands, and no K/V-first layer shares a tensor with an MLA layer).

**Only model-checked**: the two liveness properties, `StepsEnd` and `StepsReturn`,
because liveness under fairness is outside what the installed provers can do.
Where a theorem has a hypothesis on the deployment (`AlwaysDrafting`, `AlwaysSeparable`,
`CapNeverReplayed`), the run's instances satisfy it, or a run shows the
counterexample without it.

## 6. What the models leave out

* Numbers: hidden states, KV values, probabilities as floats, kernels.  In
  particular `DraftBlock` is exact: that the ways to an argmax round in
  different types (bf16 and float32) and may then break near-ties differently
  is not modelled.  Token ids travel as float32 between ranks, which is exact
  below 2^24 and so for this vocabulary.  Confidences are uninterpreted.
* The scheduler, InputBatch, the sampler, the dispatcher and the worker live in
  vLLM outside the overlay; they are modelled from their use and are marked
  external in the map.  Two assumptions on them matter.  In `AsyncRunner` a
  preempted request is resumed only after its results have arrived and a step
  without it has been sampled: otherwise `prev_req_id_to_index` would still name
  a row for it.  And drafts are scheduled only for requests of the previous step
  that are still in the batch.
* `DraftWindow` runs one step at a time.  Under asynchronous scheduling the
  GPU executes steps in the same order on one stream, so windows see the same
  sequence; what differs, the counts, is the subject of `AsyncRunner`, and when
  they arrive that of `DraftStreams`.
* `DraftStreams` folds the copy of the sampled tokens into the draft operation
  that precedes it, lets the prompts of a batch all end or none, and counts
  rows past a copy as zero.
* `EagleDraft`: tree drafting, M-RoPE, multimodal inputs, sampling drafts with a
  temperature.
* `IndexerMeta`: decode context parallelism, FP4 caches, XPU, top-k selection, and
  the packing of padded batches.
* `Startup`: layers that share another's KV cache, cross-layer caches,
  runner-only layers, LoRA, EPLB, encoder graphs; a reload of weights that fails
  midway.  A layer with K/V first on a tensor with an MLA layer is excluded
  (`LayersFit`): nothing in the code prevents it, but no model has it.  `Resolved`
  keeps full graphs to decodes, as the sparse indexer's backend demands; with a
  backend that takes any batch, the drafter's piecewise sizes would be left
  uncaptured.
* Ngram, pipeline parallelism, LoRA, pooling, multimodal inputs and Mamba states
  in the runner's steps.

Not modelled at all:

* Speculative configuration: straight-line validation and derivation at
  start-up with no later state; its results are constants of the models.
* Attention, mixing and quantisation kernels, the target model and the FP8
  einsum: numeric code.  The masks of the attention kernels are the window read
  of `DraftWindow`.
* The registry: a lookup table.
* Diagnostics: accumulators that feed log lines only.
* Benchmarks and deployment: scripts around the server.

## 7. Plan

Done: the modules above.  What would come next, in order of importance:

1. **More proofs.**  `RefinesPrivateHistory` where a prefix is found in the cache,
   from an abstract history with a gap at its start; `RowsScoreOwnContext` of
   replayed graphs under the page-table cap, for steps no longer than the captured one.
2. **More composition.**
   a. `AsyncRunner` composed with the slot map.
   b. `DraftStreams` with the output copy as a stream of its own.
3. **More of the system.**  Tree drafting in `EagleDraft`, decode context
   parallelism in `IndexerMeta`, KV-sharing layers in `KvLayout`.
