------------------------------- MODULE Startup -------------------------------
(***************************************************************************)
(* The life of a GPUModelRunner around serving (gpu_model_runner.py): the  *)
(* model is loaded and profiled; the memory of CUDA graphs is probed with  *)
(* a minimal KV cache, on which a few graphs are captured and then thrown  *)
(* away; the real KV cache is laid out and bound to the layers; all graphs *)
(* are captured and capturing is switched off.  A graph replays the        *)
(* addresses that it was captured with.                                    *)
(*                                                                         *)
(* The drafter has a dispatcher and graphs of its own, captured while the  *)
(* target's are: DSpark by requests (dspark_proposer.py), other drafters   *)
(* by tokens (llm_base_proposer.py).  The worker, which calls the runner's *)
(* methods in this order, is external; it may skip the probe.              *)
(***************************************************************************)
EXTENDS KvLayout

CONSTANTS
  Engines,      \* the engines to start: kinds, tensor, mode, drafter, draftEager
  CaptureSizes, \* cudagraph_capture_sizes
  MaxBatch,     \* max_num_seqs
  MaxTokens,    \* max_num_batched_tokens
  QueryLen,     \* uniform_decode_query_len: one token and its drafts
  Blocks,       \* blocks of the real KV cache
  ProbeBlocks,  \* blocks of the probe's: max_cudagraph_capture_size
  Reloads,      \* bound: how often the weights are reloaded
  None

ASSUME StartupAssumption ==
  /\ Layers # {} /\ None \notin {"probe", "real"}
  /\ CaptureSizes \subseteq 1 .. MaxTokens
  /\ {MaxBatch, MaxTokens, QueryLen, Blocks, ProbeBlocks} \subseteq Nat \ {0} /\ Reloads \in Nat

ASSUME EnginesAssumption == \A e \in Engines : LayersFit(e.kinds, e.tensor)

VARIABLES
  engine,      \* the configuration
  phase,       \* where the worker is
  kv,          \* the KV cache that is allocated: None, "probe" or "real"
  views,       \* how each layer sees it
  bound,       \* the KV cache each layer's kv_cache is of
  attnGroups,  \* attn_groups: the layers that share a metadata builder
  draftGroups, \* draft_attn_groups: the KV cache that they were made for
  blockRatios, \* kernel block sizes of the input batch's block tables
  keys,        \* target graphs the dispatcher may ask for
  draftKeys,   \* sizes the drafter's dispatcher may ask for
  graphs,      \* the graphs captured
  todo,        \* what is still to be captured
  capturing,   \* set_cudagraph_capturing_enabled
  locked,      \* lock_workspace
  weights,     \* how often the weights were replaced
  encoded      \* encoder_cache: the weights its outputs were computed with

caches == <<kv, views, bound, attnGroups, draftGroups, blockRatios, keys, draftKeys>>

vars == <<engine, phase, caches, graphs, todo, capturing, locked, weights, encoded>>

Init ==
  /\ engine \in Engines
  /\ phase = "new" /\ kv = None /\ views = << >> /\ bound = [l \in Layers |-> None]
  /\ attnGroups = {} /\ draftGroups = None /\ blockRatios = [l \in Layers |-> 1]
  /\ keys = {} /\ draftKeys = {} /\ graphs = {} /\ todo = {}
  /\ capturing = FALSE /\ locked = FALSE /\ weights = 0 /\ encoded = {}

-----------------------------------------------------------------------------
(* Graph modes and sizes.                                                   *)

(* resolve_cudagraph_mode_and_sizes: a backend that only supports uniform   *)
(* batches, as the sparse indexer's, keeps full graphs to decodes.          *)
Resolved(mode) == IF mode = "FULL" THEN "FULL_AND_PIECEWISE" ELSE mode

PiecewiseMixed(mode) == mode \in {"PIECEWISE", "FULL_AND_PIECEWISE"}

FullDecode(mode) == mode \in {"FULL_DECODE_ONLY", "FULL_AND_PIECEWISE"}

DecodeSizes == { s \in CaptureSizes : s % QueryLen = 0 /\ s <= MaxBatch * QueryLen }

Graph(mode, size) == [mode |-> mode, size |-> size]

TargetKeys(mode) ==
  (IF PiecewiseMixed(mode) THEN { Graph("PIECEWISE", s) : s \in CaptureSizes } ELSE {})
    \cup (IF FullDecode(mode) THEN { Graph("FULL", s) : s \in DecodeSizes } ELSE {})

(* initialize_cudagraph_keys of the drafter.                                *)
DraftKeys(mode) == IF PiecewiseMixed(mode) /\ ~engine.draftEager THEN CaptureSizes ELSE {}

(* dispatch: the smallest size that holds n, if there is one.               *)
Dispatched(sizes, n) ==
  LET fits == { s \in sizes : s >= n }
  IN  IF fits = {} THEN None ELSE CHOOSE s \in fits : \A t \in fits : s <= t

(* get_capture_descs: mode by mode, the largest first.                      *)
NextDesc(descs) ==
  LET mode == IF \E d \in descs : d.mode = "PIECEWISE" THEN "PIECEWISE" ELSE "FULL"
  IN  CHOOSE d \in descs : /\ d.mode = mode
                           /\ \A e \in descs : e.mode = mode => d.size >= e.size

(* The two largest of each mode.                                            *)
ProbedDescs(descs) ==
  { d \in descs : Cardinality({ e \in descs : e.mode = d.mode /\ e.size > d.size }) < 2 }

-----------------------------------------------------------------------------
(* The KV cache.                                                            *)

(* initialize_attn_backend: layers of one backend, spec and head count.     *)
AttnGroups == { { l \in Layers : engine.kinds[l] = engine.kinds[k] } : k \in Layers }

(* The drafter's groups: DSpark keeps its own windows and has none.         *)
DraftGroups(which) == IF engine.drafter = "dspark" THEN None ELSE which

(* may_reinitialize_input_batch: the kernel block sizes of each group.      *)
BlockRatios == [l \in Layers |-> engine.kinds[l].ratio]

(* Each layer is bound to a view of the tensors just allocated.             *)
Bound(which) == [l \in Layers |-> which]

(* initialize_kv_cache: groups and graph keys, metadata builders, the       *)
(* drafter's groups, the input batch if its block sizes change, the tensors *)
(* and their views, bound to the layers.                                    *)
InitializeKvCache(which, blocks) ==
  /\ kv' = which
  /\ attnGroups' = AttnGroups
  /\ keys' = keys \cup TargetKeys(Resolved(engine.mode))
  /\ draftKeys' = draftKeys \cup DraftKeys(Resolved(engine.mode))
  /\ draftGroups' = DraftGroups(which)
  /\ blockRatios' = BlockRatios
  /\ views' = Views(engine.kinds, engine.tensor, blocks)
  /\ bound' = Bound(which)

(* _cleanup_profiling_kv_cache.                                             *)
CleanupKvCache ==
  /\ kv' = None /\ views' = << >> /\ bound' = [l \in Layers |-> None]
  /\ attnGroups' = {}
  /\ UNCHANGED <<draftGroups, blockRatios, draftKeys>>

(* The end of profile_cudagraph_memory, reached by an error too.            *)
KeepGraphs == graphs' = graphs

ClearGraphs == graphs' = {}

CleanupProbe ==
  /\ CleanupKvCache
  /\ ClearGraphs
  /\ keys' = {} /\ todo' = {} /\ capturing' = FALSE

-----------------------------------------------------------------------------
(* load_model.                                                              *)
Load ==
  /\ phase = "new"
  /\ phase' = "loaded"
  /\ UNCHANGED <<engine, caches, graphs, todo, capturing, locked, weights, encoded>>

(* profile_run: an eager run of the model; what the encoder leaves in its   *)
(* cache is dropped.                                                        *)
ProfileRun ==
  /\ phase = "loaded"
  /\ phase' = "profiled"
  /\ encoded' = {}
  /\ UNCHANGED <<engine, caches, graphs, todo, capturing, locked, weights>>

(* profile_cudagraph_memory, up to the first capture.                       *)
StartProbe ==
  /\ phase = "profiled" /\ attnGroups = {}
  /\ InitializeKvCache("probe", ProbeBlocks)
  /\ phase' = "probing"
  /\ todo' = ProbedDescs(keys')
  /\ capturing' = (keys' # {})
  /\ UNCHANGED <<engine, graphs, locked, weights, encoded>>

(* _dummy_run of the drafter beside the target's: it uses graphs only while *)
(* piecewise ones are captured.                                             *)
DraftRows(tokens) ==
  IF engine.drafter # "dspark" THEN tokens
  ELSE IF tokens < 1 THEN 1 ELSE IF tokens < MaxBatch THEN tokens ELSE MaxBatch

UsesDraftGraphsIfFull(desc) == desc.mode = "FULL"

UsesDraftGraphs(desc) == desc.mode = "PIECEWISE"

DraftSize(desc) ==
  IF UsesDraftGraphs(desc) /\ ~engine.draftEager THEN Dispatched(draftKeys, DraftRows(desc.size))
                                                 ELSE None

(* _warmup_and_capture of one graph.                                        *)
Captured(desc) ==
  { [of |-> "target", mode |-> desc.mode, size |-> desc.size, on |-> kv] }
    \cup (IF DraftSize(desc) = None THEN {}
          ELSE { [of |-> "draft", mode |-> "PIECEWISE", size |-> DraftSize(desc), on |-> kv] })

CaptureOne ==
  /\ capturing /\ todo # {}
  /\ graphs' = graphs \cup Captured(NextDesc(todo))
  /\ todo' = todo \ {NextDesc(todo)}
  /\ UNCHANGED <<engine, phase, caches, capturing, locked, weights, encoded>>

(* The probe ends, or fails on the way; without any graph to capture only   *)
(* the KV cache is dropped.                                                 *)
FinishProbe ==
  /\ phase = "probing" /\ todo = {}
  /\ phase' = "probed"
  /\ IF capturing THEN CleanupProbe
     ELSE CleanupKvCache /\ UNCHANGED <<keys, graphs, todo, capturing>>
  /\ UNCHANGED <<engine, locked, weights, encoded>>

FailProbe ==
  /\ phase = "probing" /\ capturing
  /\ phase' = "failed"
  /\ CleanupProbe
  /\ UNCHANGED <<engine, locked, weights, encoded>>

(* initialize_kv_cache with the blocks that fit: "Attention backends are    *)
(* already initialized" if any group is left.                               *)
InitKvCache ==
  /\ phase \in {"profiled", "probed"}
  /\ IF attnGroups # {}
     THEN phase' = "failed" /\ UNCHANGED caches
     ELSE phase' = "allocated" /\ InitializeKvCache("real", Blocks)
  /\ UNCHANGED <<engine, graphs, todo, capturing, locked, weights, encoded>>

(* capture_model: nothing to do without graphs.                             *)
StartCapture ==
  /\ phase = "allocated"
  /\ IF engine.mode = "NONE"
     THEN phase' = "serving" /\ UNCHANGED <<todo, capturing>>
     ELSE phase' = "capturing" /\ todo' = keys /\ capturing' = TRUE
  /\ UNCHANGED <<engine, caches, graphs, locked, weights, encoded>>

FinishCapture ==
  /\ phase = "capturing" /\ todo = {}
  /\ phase' = "serving"
  /\ capturing' = FALSE /\ locked' = TRUE
  /\ UNCHANGED <<engine, caches, graphs, todo, weights, encoded>>

(* A request's images are encoded and cached.                               *)
Encode ==
  /\ phase = "serving"
  /\ encoded' = encoded \cup {weights}
  /\ UNCHANGED <<engine, phase, caches, graphs, todo, capturing, locked, weights>>

(* reload_weights, in place: reset_encoder_cache comes last.                *)
EncodedKept == encoded' = encoded

EncodedReset == encoded' = {}

ReloadWeights ==
  /\ phase = "serving" /\ weights < Reloads
  /\ weights' = weights + 1
  /\ EncodedReset
  /\ UNCHANGED <<engine, phase, caches, graphs, todo, capturing, locked>>

(* shutdown: the model and the KV cache go, and the workspace with its lock.*)
Shutdown ==
  /\ phase \notin {"new", "probing", "capturing", "down"}
  /\ phase' = "down"
  /\ CleanupKvCache
  /\ locked' = FALSE
  /\ UNCHANGED <<engine, keys, graphs, todo, capturing, weights, encoded>>

Next ==
  \/ Load \/ ProfileRun \/ StartProbe \/ CaptureOne \/ FinishProbe \/ FailProbe
  \/ InitKvCache \/ StartCapture \/ FinishCapture
  \/ Encode \/ ReloadWeights \/ Shutdown

Spec == Init /\ [][Next]_vars

-----------------------------------------------------------------------------
Phases ==
  {"new", "loaded", "profiled", "probing", "probed", "allocated", "capturing", "serving",
   "failed", "down"}

TypeOK ==
  /\ phase \in Phases /\ kv \in {None, "probe", "real"}
  /\ kv = None <=> views = << >>
  /\ \A g \in graphs : g.of = "target" => Graph(g.mode, g.size) \in keys
  /\ \A g \in graphs : g.of = "draft" => g.size \in draftKeys
  /\ todo # {} => capturing

(* Layers that share a tensor never reach into each other's blocks: an      *)
(* element of a block belongs to no other block of any layer on the tensor, *)
(* every layer has room for all its elements, and none is past the tensor's *)
(* end, whatever order and kernel block size each backend has.              *)
BlocksDisjoint ==
  kv # None =>
    LET blocks == 0 .. (IF kv = "probe" THEN ProbeBlocks ELSE Blocks) - 1
        At(l, b) == Cells(views[l], engine.kinds[l].ratio, b)
    IN  /\ \A l \in Layers, b \in blocks :
             /\ Cardinality(At(l, b)) = CellCount(views[l], engine.kinds[l].ratio)
             /\ At(l, b) \subseteq 0 .. Page * Cardinality(blocks) - 1
        /\ \A l, m \in Layers : engine.tensor[l] = engine.tensor[m] =>
             \A b, c \in blocks : b # c => At(l, b) \cap At(m, c) = {}

(* Once the engine serves, every graph that a step of the target or of the  *)
(* drafter can ask for has been captured: capturing is off for good, and a  *)
(* step that met a missing graph would fail.                                *)
StepsAreCaptured ==
  phase = "serving" =>
    /\ ~capturing
    /\ \A k \in keys : \E g \in graphs : g.of = "target" /\ g.mode = k.mode /\ g.size = k.size
    /\ \A rows \in 1 .. (IF engine.drafter = "dspark" THEN MaxBatch ELSE MaxTokens) :
         LET size == Dispatched(draftKeys, rows)
         IN  size # None => \E g \in graphs : g.of = "draft" /\ g.size = size

(* Nothing that was set up while probing, or computed with weights that     *)
(* were since replaced, is left when the engine serves: graphs, layers and  *)
(* groups are all on the KV cache in use.                                   *)
ServesOnLiveState ==
  phase = "serving" =>
    /\ kv = "real" /\ \A g \in graphs : g.on = kv
    /\ \A l \in Layers : bound[l] = kv /\ blockRatios[l] = engine.kinds[l].ratio
    /\ attnGroups = AttnGroups /\ draftGroups \in {None, kv}
    /\ encoded \subseteq {weights}
==============================================================================
