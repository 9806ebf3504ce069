------------------------------- MODULE KvLayout -------------------------------
(***************************************************************************)
(* How the runner lays the KV cache of each layer out in memory            *)
(* (gpu_model_runner.py, _reshape_kv_cache_tensors and its helpers).       *)
(*                                                                         *)
(* A raw tensor is a run of pages, one per block, and may be shared by a   *)
(* layer of each KV cache group: the block ids of the groups come from one *)
(* pool, so a page belongs to one layer at a time.  Every layer sees the   *)
(* tensor through a view, a size and a stride per dimension: standard      *)
(* attention backends put K/V or the block first, and may swap tokens and  *)
(* heads in memory; MLA backends and Mamba states have no K/V dimension.   *)
(* A backend may use smaller blocks than the cache (kernel blocks).        *)
(*                                                                         *)
(* Sizes are counted in elements of one size.                              *)
(***************************************************************************)
EXTENDS Integers, Sequences, FiniteSets

CONSTANTS
  Layers,  \* the attention layers, each with a KV cache of its own
  Page,    \* elements of a block
  Heads    \* KV heads of a standard layer

ASSUME KvLayoutAssumption == IsFiniteSet(Layers) /\ {Page, Heads} \subseteq Nat \ {0}

Dims == {"kv", "block", "token", "head"}

(* The layers' kinds: what the backend exposes, how it orders tokens and    *)
(* heads, and kernel blocks per cache block.                                *)
Standard(kind) == kind.shape \in {"kvFirst", "blockFirst"}

Mamba(kind) == kind.shape = "mamba"

Swapped(order) == <<order[1], order[2], order[4], order[3]>>

(* The dimensions of a standard shape from the outermost in, as the backend *)
(* exposes them and as it stores them.                                      *)
PublicOrder(kind) ==
  IF kind.shape = "kvFirst" THEN <<"kv", "block", "token", "head">>
                            ELSE <<"block", "kv", "token", "head">>

PhysicalOrder(kind) ==
  IF kind.order = "HND" THEN Swapped(PublicOrder(kind)) ELSE PublicOrder(kind)

(* get_kv_cache_shape, with 1 for a dimension the shape has not: a padded   *)
(* page has elements no layer uses.                                         *)
Sizes(kind, blocks) ==
  LET tokens == IF Standard(kind) THEN Page \div (2 * Heads * kind.ratio)
                ELSE IF kind.padded \/ Mamba(kind) THEN Page - 1 ELSE Page \div kind.ratio
  IN  [d \in Dims |->
         CASE d = "kv"    -> IF Standard(kind) THEN 2 ELSE 1
           [] d = "block" -> blocks * kind.ratio
           [] d = "token" -> tokens
           [] d = "head"  -> IF Standard(kind) THEN Heads ELSE 1]

(* What the code expects of a backend: pages hold whole kernel blocks,      *)
(* padded ones and Mamba's a single one.                                    *)
PageFits(kind) ==
  /\ kind.ratio \in Nat \ {0}
  /\ Standard(kind) => Page % (2 * Heads * kind.ratio) = 0
  /\ ~Standard(kind) =>
       IF kind.padded \/ Mamba(kind) THEN kind.ratio = 1 ELSE Page % kind.ratio = 0

(* And of the layers of a tensor: none has K/V first beside an MLA layer.   *)
LayersFit(kinds, tensor) ==
  \A l \in Layers :
    /\ kinds[l].shape \in {"kvFirst", "blockFirst", "mla", "mamba"} /\ PageFits(kinds[l])
    /\ kinds[l].shape = "mla" =>
         \A m \in Layers : tensor[m] = tensor[l] => kinds[m].shape # "kvFirst"

(* Strides of a contiguous tensor stored in this order.                     *)
ContiguousStrides(order, sizes) ==
  LET after[i \in 0 .. 4] == IF i = 4 THEN 1 ELSE after[i + 1] * sizes[order[i + 1]]
      At(d) == CHOOSE i \in 1 .. 4 : order[i] = d
  IN  [d \in Dims |-> after[At(d)]]

(* _get_raw_tensor_physical_orders.                                         *)
PhysicalOrders(kinds, tensor, t) ==
  { PhysicalOrder(kinds[l]) : l \in { k \in Layers : tensor[k] = t /\ Standard(kinds[k]) } }

(* Block-major orders come before the others, then in sorted order.         *)
Preference ==
  << <<"block", "kv", "head", "token">>, <<"block", "kv", "token", "head">>,
     <<"kv", "block", "head", "token">>, <<"kv", "block", "token", "head">> >>

OwnOrder(kinds, tensor, l) == PhysicalOrder(kinds[l])

SharedOrder(kinds, tensor, l) ==
  LET orders == PhysicalOrders(kinds, tensor, tensor[l])
      first == CHOOSE i \in DOMAIN Preference :
                 /\ Preference[i] \in orders
                 /\ \A j \in 1 .. i - 1 : Preference[j] \notin orders
  IN  Preference[first]

(* The view of a layer: a contiguous one in the order its tensor shares, or *)
(* one whose blocks are a page apart.                                       *)
PagedStrides(sizes, kind) ==
  [d \in Dims |-> CASE d = "block" -> Page \div kind.ratio
                    [] d = "kv" -> 0
                    [] d = "token" -> sizes["head"]
                    [] d = "head" -> 1]

View(kinds, tensor, l, blocks) ==
  LET sizes == Sizes(kinds[l], blocks)
  IN  [size   |-> sizes,
       stride |-> IF Standard(kinds[l])
                  THEN ContiguousStrides(SharedOrder(kinds, tensor, l), sizes)
                  ELSE PagedStrides(sizes, kinds[l])]

(* _update_hybrid_attention_mamba_layout: with Mamba layers anywhere, a     *)
(* layer that has K/V first is made block-major in place.                   *)
Interleaved(view) ==
  LET hidden == view.size["token"] * view.size["head"]
  IN  [view EXCEPT !.stride["kv"] = hidden, !.stride["block"] = 2 * hidden]

Views(kinds, tensor, blocks) ==
  LET hybrid == \E l \in Layers : Mamba(kinds[l])
  IN  [l \in Layers |->
         IF hybrid /\ kinds[l].shape = "kvFirst"
         THEN Interleaved(View(kinds, tensor, l, blocks))
         ELSE View(kinds, tensor, l, blocks)]

-----------------------------------------------------------------------------
Address(view, v, b, t, h) ==
  v * view.stride["kv"] + b * view.stride["block"]
    + t * view.stride["token"] + h * view.stride["head"]

Indices(size) == 0 .. size - 1

(* What a layer's view reaches of block b of the cache.                     *)
Cells(view, ratio, b) ==
  { Address(view, v, k, t, h) :
      v \in Indices(view.size["kv"]), k \in b * ratio .. b * ratio + ratio - 1,
      t \in Indices(view.size["token"]), h \in Indices(view.size["head"]) }

(* Each view has a cell for every element of a block.                       *)
CellCount(view, ratio) == view.size["kv"] * ratio * view.size["token"] * view.size["head"]
==============================================================================
