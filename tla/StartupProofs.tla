---------------------------- MODULE StartupProofs ----------------------------
(***************************************************************************)
(* Whatever the engines, the capture sizes and the blocks: an engine that  *)
(* serves has nothing of the probe's KV cache left, whether the probe was  *)
(* skipped, ran or captured no graph; every graph that a step asks for is  *)
(* there; and no two blocks of the layers on a tensor share an element.    *)
(***************************************************************************)
EXTENDS Startup, WellFoundedInduction, FiniteSetTheorems, FunctionTheorems, TLAPS

(* Before the first KV cache, and after the probe's is gone.                *)
Empty == graphs = {} /\ ~capturing

(* The real KV cache and what was made for it.                              *)
OnReal ==
  /\ kv = "real" /\ \A g \in graphs : g.on = "real"
  /\ \A l \in Layers : bound[l] = "real" /\ blockRatios[l] = engine.kinds[l].ratio
  /\ attnGroups = AttnGroups /\ draftGroups \in {None, "real"}

LiveInv ==
  /\ phase \in {"new", "loaded", "profiled", "probed"} => Empty
  /\ phase = "probing" => (~capturing => graphs = {})
  /\ phase \in {"allocated", "capturing", "serving"} => OnReal
  /\ capturing => phase \in {"probing", "capturing"}
  /\ encoded \subseteq {weights}

(* What the allocation of the real KV cache leaves is on that cache.        *)
LEMMA RealCacheIsLive ==
  ASSUME InitializeKvCache("real", Blocks), UNCHANGED <<engine, graphs>>, graphs = {}
  PROVE  OnReal'
<1>1. /\ kv' = "real" /\ attnGroups' = AttnGroups /\ draftGroups' = DraftGroups("real")
      /\ blockRatios' = BlockRatios /\ bound' = Bound("real") /\ engine' = engine
      /\ graphs' = {}
  BY DEF InitializeKvCache
<1>2. AttnGroups' = AttnGroups BY <1>1 DEF AttnGroups
<1>3. draftGroups' \in {None, "real"} BY <1>1 DEF DraftGroups
<1>4. \A l \in Layers : bound'[l] = "real" /\ blockRatios'[l] = engine'.kinds[l].ratio
  BY <1>1 DEF Bound, BlockRatios
<1> QED BY <1>1, <1>2, <1>3, <1>4 DEF OnReal

(* A graph is captured on the KV cache of the moment.                       *)
LEMMA CapturedOnKv ==
  ASSUME NEW desc, NEW g \in Captured(desc) PROVE g.on = kv
  BY DEF Captured

(* A step that leaves the caches alone keeps what is on the real one.       *)
LEMMA OnRealKept ==
  ASSUME OnReal, UNCHANGED <<engine, caches>>, \A g \in graphs' : g.on = "real"
  PROVE  OnReal'
<1>1. AttnGroups' = AttnGroups BY DEF AttnGroups
<1> QED BY <1>1 DEF OnReal, caches

(* Every step keeps what exists in its phase.                               *)
LEMMA LiveInvInductive ==
  ASSUME LiveInv, [Next]_vars
  PROVE  LiveInv'
<1> USE DEF LiveInv, Empty
<1>1. CASE Load BY <1>1 DEF Load
<1>2. CASE ProfileRun BY <1>2 DEF ProfileRun
<1>3. CASE StartProbe BY <1>3 DEF StartProbe
<1>4. CASE CaptureOne
  <2>1. /\ capturing /\ phase' = phase /\ capturing' = capturing
        /\ graphs' = graphs \cup Captured(NextDesc(todo))
        /\ UNCHANGED <<engine, caches, weights, encoded>>
    BY <1>4 DEF CaptureOne
  <2>2. CASE phase = "probing" BY <2>1, <2>2
  <2>3. CASE phase = "capturing"
    <3>1. \A g \in graphs' : g.on = "real" BY <2>1, <2>3, CapturedOnKv DEF OnReal
    <3> QED BY <2>1, <2>3, <3>1, OnRealKept
  <2> QED BY <2>1, <2>2, <2>3
<1>5. CASE FinishProbe BY <1>5 DEF FinishProbe, CleanupProbe, ClearGraphs
<1>6. CASE FailProbe BY <1>6 DEF FailProbe, CleanupProbe
<1>7. CASE InitKvCache
  <2>1. CASE attnGroups # {} BY <1>7, <2>1 DEF InitKvCache
  <2>2. CASE attnGroups = {} BY <1>7, <2>2, RealCacheIsLive DEF InitKvCache
  <2> QED BY <2>1, <2>2
<1>8. CASE StartCapture
  <2>1. phase = "allocated" /\ phase' \in {"serving", "capturing"}
        /\ UNCHANGED <<engine, caches, graphs, weights, encoded>>
    BY <1>8 DEF StartCapture
  <2>2. OnReal' BY <2>1, OnRealKept DEF OnReal
  <2>3. capturing' => phase' = "capturing" BY <1>8 DEF StartCapture
  <2> QED BY <2>1, <2>2, <2>3
<1>9. CASE FinishCapture
  <2>1. OnReal' BY <1>9, OnRealKept DEF FinishCapture, OnReal
  <2> QED BY <1>9, <2>1 DEF FinishCapture
<1>10. CASE Encode
  <2>1. OnReal' BY <1>10, OnRealKept DEF Encode, OnReal
  <2> QED BY <1>10, <2>1 DEF Encode
<1>11. CASE ReloadWeights
  <2>1. OnReal' BY <1>11, OnRealKept DEF ReloadWeights, OnReal
  <2> QED BY <1>11, <2>1 DEF ReloadWeights, EncodedReset
<1>12. CASE Shutdown BY <1>12 DEF Shutdown
<1>13. CASE UNCHANGED vars
  <2>1. OnReal => OnReal' BY <1>13, OnRealKept DEF vars, OnReal
  <2> QED BY <1>13, <2>1 DEF vars
<1> QED BY <1>1, <1>2, <1>3, <1>4, <1>5, <1>6, <1>7, <1>8, <1>9, <1>10, <1>11, <1>12, <1>13 DEF Next

(* An engine that serves uses only its real KV cache: graphs, bindings,     *)
(* groups and block sizes; and no encoder output outlives its weights.      *)
THEOREM AlwaysServesOnLiveState == Spec => []ServesOnLiveState
<1>1. Init => LiveInv BY DEF Init, LiveInv, Empty
<1>2. LiveInv => ServesOnLiveState BY DEF LiveInv, OnReal, ServesOnLiveState
<1> QED BY <1>1, <1>2, LiveInvInductive, PTL DEF Spec
-----------------------------------------------------------------------------
(* Sizes: the smallest that holds a batch, and the next graph to capture.   *)

(* The sizes and the limits are numbers.                                    *)
LEMMA StartupSizes ==
  /\ MaxBatch \in Nat \ {0} /\ MaxTokens \in Nat \ {0}
  /\ CaptureSizes \subseteq 1 .. MaxTokens /\ CaptureSizes \in SUBSET Nat
<1>1. MaxBatch \in Nat \ {0} /\ MaxTokens \in Nat \ {0} BY StartupAssumption
<1>2. CaptureSizes \subseteq 1 .. MaxTokens BY StartupAssumption
<1>3. \A s \in CaptureSizes : s \in Nat BY <1>1, <1>2
<1> QED BY <1>1, <1>2, <1>3

(* Every set of natural numbers that is not empty has a least element.      *)
LEMMA LeastSize ==
  ASSUME NEW S \in SUBSET Nat, S # {}
  PROVE  \E n \in S : \A m \in S : n <= m
<1> DEFINE Below == OpToRel(<, Nat)
<1>1. IsWellFoundedOn(Below, Nat) BY NatLessThanWellFounded
<1>2. \A m, n \in Nat : m < n => <<m, n>> \in Below BY DEF OpToRel
<1> HIDE DEF Below
<1>3. PICK n \in S : \A m \in S : ~(<<m, n>> \in Below) BY <1>1, WFMin
<1>4. ASSUME NEW m \in S PROVE n <= m
  <2>1. m \in Nat /\ n \in Nat /\ ~(m < n) BY <1>2, <1>3
  <2> QED BY <2>1
<1> QED BY <1>4

(* A set of captured sizes that is not empty has a greatest element.        *)
LEMMA GreatestSize ==
  ASSUME NEW S \in SUBSET CaptureSizes, S # {}
  PROVE  \E n \in S : \A m \in S : n >= m
<1> DEFINE F == { k \in Nat : \E n \in S : k = MaxTokens - n }
<1>0. MaxTokens \in Nat /\ CaptureSizes \subseteq 1 .. MaxTokens BY StartupSizes
<1>1. \A n \in S : n \in Nat /\ MaxTokens - n \in Nat BY <1>0
<1>2. F # {} BY <1>1
<1>3. F \in SUBSET Nat OBVIOUS
<1>4. PICK k \in F : \A m \in F : k <= m
  <2> HIDE DEF F
  <2> QED BY <1>2, <1>3, LeastSize
<1>5. PICK n \in S : k = MaxTokens - n BY <1>4
<1>6. ASSUME NEW m \in S PROVE n >= m
  <2>1. MaxTokens - m \in F BY <1>1
  <2>2. MaxTokens - n <= MaxTokens - m BY <1>4, <1>5, <2>1
  <2> QED BY <1>0, <1>1, <2>2
<1> QED BY <1>6

(* dispatch returns the smallest size that holds the batch, or none.        *)
LEMMA DispatchedSize ==
  ASSUME NEW sizes \in SUBSET CaptureSizes, NEW n \in Nat, Dispatched(sizes, n) # None
  PROVE  /\ Dispatched(sizes, n) \in sizes /\ Dispatched(sizes, n) >= n
         /\ \A t \in sizes : t >= n => Dispatched(sizes, n) <= t
<1> DEFINE fits == { s \in sizes : s >= n }
<1>1. Dispatched(sizes, n) = IF fits = {} THEN None ELSE CHOOSE s \in fits : \A t \in fits : s <= t
  BY DEF Dispatched
<1>2. fits # {} BY <1>1
<1>3. fits \in SUBSET Nat BY StartupSizes
<1> HIDE DEF fits
<1>4. \E s \in fits : \A t \in fits : s <= t BY <1>2, <1>3, LeastSize
<1>5. Dispatched(sizes, n) \in fits /\ \A t \in fits : Dispatched(sizes, n) <= t BY <1>1, <1>2, <1>4
<1> QED BY <1>5 DEF fits

(* A size that holds a batch and is the smallest to do so is dispatched.    *)
LEMMA DispatchedIs ==
  ASSUME NEW sizes \in SUBSET CaptureSizes, NEW n \in Nat, NEW s \in sizes, s >= n,
         \A t \in sizes : t >= n => s <= t
  PROVE  Dispatched(sizes, n) = s
<1> DEFINE fits == { x \in sizes : x >= n }
<1>1. Dispatched(sizes, n) = IF fits = {} THEN None ELSE CHOOSE x \in fits : \A t \in fits : x <= t
  BY DEF Dispatched
<1>2. s \in fits /\ \A t \in fits : s <= t OBVIOUS
<1>3. fits \in SUBSET Nat BY StartupSizes
<1> HIDE DEF fits
<1>4. ASSUME NEW x \in fits, \A t \in fits : x <= t PROVE x = s
  <2>1. x <= s /\ s <= x /\ x \in Nat /\ s \in Nat BY <1>2, <1>3, <1>4
  <2> QED BY <2>1
<1> QED BY <1>1, <1>2, <1>4

Graphs == [mode : {"PIECEWISE", "FULL"}, size : CaptureSizes]

(* get_capture_descs: the next graph to capture is one of those left.       *)
LEMMA NextDescIn ==
  ASSUME NEW descs \in SUBSET Graphs, descs # {}
  PROVE  NextDesc(descs) \in descs
<1> DEFINE mode == IF \E d \in descs : d.mode = "PIECEWISE" THEN "PIECEWISE" ELSE "FULL"
           sizes == { s \in CaptureSizes : \E d \in descs : d.mode = mode /\ d.size = s }
<1>1. \A d \in descs : d.mode \in {"PIECEWISE", "FULL"} /\ d.size \in CaptureSizes BY DEF Graphs
<1>2. \E d \in descs : d.mode = mode BY <1>1
<1> HIDE DEF mode
<1>3. sizes # {} BY <1>1, <1>2
<1>4. PICK n \in sizes : \A m \in sizes : n >= m
  <2>1. sizes \in SUBSET CaptureSizes OBVIOUS
  <2> HIDE DEF sizes
  <2> QED BY <1>3, <2>1, GreatestSize
<1>5. PICK d \in descs : d.mode = mode /\ d.size = n BY <1>4
<1>6. \A e \in descs : e.mode = mode => d.size >= e.size BY <1>1, <1>4, <1>5
<1>7. NextDesc(descs) = CHOOSE x \in descs : /\ x.mode = mode
                                             /\ \A e \in descs : e.mode = mode => x.size >= e.size
  BY DEF NextDesc, mode
<1> QED BY <1>5, <1>6, <1>7

-----------------------------------------------------------------------------
(* What is asked for, and what has been captured for it.                    *)

ModeKeys == TargetKeys(Resolved(engine.mode))
ModeDraftKeys == DraftKeys(Resolved(engine.mode))

KeysInv ==
  /\ keys \subseteq ModeKeys /\ draftKeys \subseteq ModeDraftKeys
  /\ todo \subseteq keys
  /\ phase \in {"allocated", "capturing", "serving"} => keys = ModeKeys /\ draftKeys = ModeDraftKeys
  /\ phase = "capturing" => \A d \in keys \ todo : Captured(d) \subseteq graphs
  /\ phase = "serving" => \A d \in keys : Captured(d) \subseteq graphs

CacheInv ==
  /\ phase \in Phases /\ kv \in {None, "probe", "real"}
  /\ kv = None <=> views = << >>
  /\ todo # {} => capturing
  /\ graphs \subseteq [of : {"target", "draft"}, mode : {"PIECEWISE", "FULL"},
                       size : CaptureSizes, on : {None, "probe", "real"}]
  /\ \A g \in graphs : g.of = "target" => Graph(g.mode, g.size) \in keys
  /\ \A g \in graphs : g.of = "draft" => g.size \in draftKeys

StartupInv == LiveInv /\ KeysInv /\ CacheInv

(* The keys of a mode are graphs of captured sizes.                         *)
LEMMA ModeKeysAreGraphs ==
  ModeKeys \subseteq Graphs /\ ModeDraftKeys \subseteq CaptureSizes
  BY DEF ModeKeys, ModeDraftKeys, TargetKeys, DraftKeys, Graphs, Graph, DecodeSizes

(* What the capture of a graph yields.                                      *)
LEMMA CapturedIs ==
  ASSUME KeysInv, CacheInv, NEW d \in keys, NEW g \in Captured(d)
  PROVE  /\ g \in [of : {"target", "draft"}, mode : {"PIECEWISE", "FULL"},
                   size : CaptureSizes, on : {None, "probe", "real"}]
         /\ g.of = "target" => Graph(g.mode, g.size) \in keys
         /\ g.of = "draft" => g.size \in draftKeys
<1>1. d \in Graphs BY ModeKeysAreGraphs DEF KeysInv
<1>2. d = Graph(d.mode, d.size) /\ d.size \in CaptureSizes /\ d.mode \in {"PIECEWISE", "FULL"}
  BY <1>1 DEF Graphs, Graph
<1>3. CASE g = [of |-> "target", mode |-> d.mode, size |-> d.size, on |-> kv]
  <2>1. g.of = "target" /\ g.mode = d.mode /\ g.size = d.size BY <1>3
  <2>2. Graph(g.mode, g.size) = d BY <1>2, <2>1
  <2> QED BY <1>2, <1>3, <2>1, <2>2 DEF CacheInv
<1>4. CASE DraftSize(d) # None
           /\ g = [of |-> "draft", mode |-> "PIECEWISE", size |-> DraftSize(d), on |-> kv]
  <2>1. DraftSize(d) = Dispatched(draftKeys, DraftRows(d.size)) BY <1>4 DEF DraftSize
  <2>2. DraftRows(d.size) \in Nat BY <1>2, StartupSizes DEF DraftRows
  <2>3. draftKeys \in SUBSET CaptureSizes BY ModeKeysAreGraphs DEF KeysInv
  <2>4. DraftSize(d) \in draftKeys BY <1>4, <2>1, <2>2, <2>3, DispatchedSize
  <2>5. g.of = "draft" /\ g.size = DraftSize(d) BY <1>4
  <2> QED BY <1>4, <2>3, <2>4, <2>5 DEF CacheInv
<1> QED BY <1>3, <1>4 DEF Captured

(* What initialize_kv_cache leaves is a KV cache with its views.            *)
LEMMA InitializedViews ==
  ASSUME NEW which \in {"probe", "real"}, NEW blocks, InitializeKvCache(which, blocks)
  PROVE  kv' = which /\ kv' # None /\ views' # << >>
<1>1. PICK l : l \in Layers BY StartupAssumption
<1>2. DOMAIN Views(engine.kinds, engine.tensor, blocks) = Layers BY DEF Views
<1>3. views' = Views(engine.kinds, engine.tensor, blocks) BY DEF InitializeKvCache
<1>4. l \in DOMAIN views' /\ DOMAIN << >> = {} BY <1>1, <1>2, <1>3
<1>5. kv' = which BY DEF InitializeKvCache
<1> QED BY <1>4, <1>5, StartupAssumption

(* A graph's capture depends on the configuration and the KV cache alone.   *)
LEMMA CapturedKept ==
  ASSUME NEW d, UNCHANGED <<engine, caches>>
  PROVE  Captured(d)' = Captured(d)
<1>1. engine' = engine /\ kv' = kv /\ draftKeys' = draftKeys BY DEF caches
<1>2. DraftRows(d.size)' = DraftRows(d.size) BY <1>1 DEF DraftRows
<1>3. DraftSize(d)' = DraftSize(d) BY <1>1, <1>2 DEF DraftSize, UsesDraftGraphs
<1> QED BY <1>1, <1>3 DEF Captured

(* The keys of a mode depend on the engine alone.                           *)
LEMMA ModeKeysKept ==
  ASSUME engine' = engine
  PROVE  ModeKeys' = ModeKeys /\ ModeDraftKeys' = ModeDraftKeys
  BY DEF ModeKeys, ModeDraftKeys, TargetKeys, DraftKeys, DecodeSizes

(* Steps that leave the graphs and what they are captured for alone.        *)
LEMMA GraphsKept ==
  ASSUME KeysInv, CacheInv, UNCHANGED <<engine, caches, graphs, todo>>, phase' \in Phases,
         phase' \in {"allocated", "capturing", "serving"} => phase' = phase,
         capturing' = capturing
  PROVE  KeysInv' /\ CacheInv'
<1>1. keys' = keys /\ draftKeys' = draftKeys /\ kv' = kv /\ views' = views BY DEF caches
<1>2. \A d : Captured(d)' = Captured(d) BY CapturedKept
<1>3. KeysInv' BY <1>1, <1>2, ModeKeysKept DEF KeysInv
<1>4. CacheInv' BY <1>1 DEF CacheInv
<1> QED BY <1>3, <1>4

(* What initialize_kv_cache leaves before any graph is captured on it.      *)
LEMMA InitializedKeys ==
  ASSUME KeysInv, engine' = engine, graphs' = {}, NEW which \in {"probe", "real"}, NEW blocks,
         InitializeKvCache(which, blocks)
  PROVE  /\ keys' = ModeKeys' /\ draftKeys' = ModeDraftKeys'
         /\ \A g \in graphs' : FALSE
<1>1. keys' = keys \cup ModeKeys /\ draftKeys' = draftKeys \cup ModeDraftKeys
  BY DEF InitializeKvCache, ModeKeys, ModeDraftKeys
<1> QED BY <1>1, ModeKeysKept DEF KeysInv

(* Every step keeps the keys, the captures and the caches in order.         *)
LEMMA StartupInvInductive ==
  ASSUME StartupInv, [Next]_vars
  PROVE  StartupInv'
<1>0. LiveInv /\ KeysInv /\ CacheInv /\ LiveInv' BY LiveInvInductive DEF StartupInv
<1> SUFFICES KeysInv' /\ CacheInv' BY <1>0 DEF StartupInv
<1>1. CASE Load BY <1>0, <1>1, GraphsKept DEF Load, Phases
<1>2. CASE ProfileRun BY <1>0, <1>2, GraphsKept DEF ProfileRun, Phases
<1>3. CASE StartProbe
  <2>1. /\ InitializeKvCache("probe", ProbeBlocks) /\ engine' = engine /\ phase' = "probing"
        /\ todo' = ProbedDescs(keys') /\ capturing' = (keys' # {}) /\ graphs' = {}
    BY <1>0, <1>3 DEF StartProbe, LiveInv, Empty
  <2>2. keys' = ModeKeys' /\ draftKeys' = ModeDraftKeys' BY <1>0, <2>1, InitializedKeys
  <2>3. todo' \subseteq keys' BY <2>1 DEF ProbedDescs
  <2>4. KeysInv' BY <2>1, <2>2, <2>3 DEF KeysInv
  <2>5. kv' = "probe" /\ kv' # None /\ views' # << >> BY <2>1, InitializedViews
  <2>6. todo' # {} => capturing' BY <2>1, <2>3
  <2>7. CacheInv' BY <2>1, <2>5, <2>6 DEF CacheInv, Phases
  <2> QED BY <2>4, <2>7
<1>4. CASE CaptureOne
  <2> DEFINE d == NextDesc(todo)
  <2>1. /\ capturing /\ todo # {} /\ capturing' /\ phase' = phase
        /\ graphs' = graphs \cup Captured(d) /\ todo' = todo \ {d}
        /\ UNCHANGED <<engine, caches>>
    BY <1>4 DEF CaptureOne
  <2>2. keys' = keys /\ draftKeys' = draftKeys /\ kv' = kv /\ views' = views
    BY <2>1 DEF caches
  <2>3. todo \in SUBSET Graphs BY <1>0, ModeKeysAreGraphs DEF KeysInv
  <2>4. d \in todo /\ d \in keys BY <1>0, <2>1, <2>3, NextDescIn DEF KeysInv
  <2> HIDE DEF d
  <2>5. \A e : Captured(e)' = Captured(e) BY <2>1, CapturedKept
  <2>6. phase \in {"probing", "capturing"} BY <1>0, <2>1 DEF LiveInv
  <2>7. phase = "capturing" => \A e \in keys \ (todo \ {d}) : Captured(e) \subseteq graphs \cup Captured(d)
    BY <1>0 DEF KeysInv
  <2>8. KeysInv' BY <1>0, <2>1, <2>2, <2>5, <2>6, <2>7, ModeKeysKept DEF KeysInv
  <2>9. \A g \in graphs' :
          /\ g \in [of : {"target", "draft"}, mode : {"PIECEWISE", "FULL"},
                    size : CaptureSizes, on : {None, "probe", "real"}]
          /\ g.of = "target" => Graph(g.mode, g.size) \in keys
          /\ g.of = "draft" => g.size \in draftKeys
    BY <1>0, <2>1, <2>4, CapturedIs DEF CacheInv
  <2>10. CacheInv' BY <1>0, <2>1, <2>2, <2>9 DEF CacheInv
  <2> QED BY <2>8, <2>10
<1>5. CASE FinishProbe
  <2>1. phase' = "probed" /\ todo = {} /\ engine' = engine /\ CleanupKvCache /\ todo' = {}
        /\ graphs' = {} /\ (keys' = {} \/ keys' = keys)
    BY <1>0, <1>5 DEF FinishProbe, CleanupProbe, ClearGraphs, LiveInv
  <2>2. kv' = None /\ views' = << >> /\ draftKeys' = draftKeys BY <2>1 DEF CleanupKvCache
  <2>3. KeysInv' BY <1>0, <2>1, <2>2, ModeKeysKept DEF KeysInv
  <2>4. CacheInv' BY <2>1, <2>2 DEF CacheInv, Phases
  <2> QED BY <2>3, <2>4
<1>6. CASE FailProbe
  <2>1. phase' = "failed" /\ engine' = engine /\ CleanupKvCache /\ todo' = {}
        /\ graphs' = {} /\ keys' = {}
    BY <1>6 DEF FailProbe, CleanupProbe, ClearGraphs
  <2>2. kv' = None /\ views' = << >> /\ draftKeys' = draftKeys BY <2>1 DEF CleanupKvCache
  <2>3. KeysInv' BY <1>0, <2>1, <2>2, ModeKeysKept DEF KeysInv
  <2>4. CacheInv' BY <2>1, <2>2 DEF CacheInv, Phases
  <2> QED BY <2>3, <2>4
<1>7. CASE InitKvCache
  <2>1. CASE attnGroups # {}
    <3>1. phase' = "failed" /\ UNCHANGED <<engine, caches, graphs, todo>> /\ capturing' = capturing
      BY <1>7, <2>1 DEF InitKvCache
    <3> QED BY <1>0, <3>1, GraphsKept DEF Phases
  <2>2. CASE attnGroups = {}
    <3>1. /\ InitializeKvCache("real", Blocks) /\ engine' = engine /\ phase' = "allocated"
          /\ todo' = {} /\ graphs' = {}
      BY <1>0, <1>7, <2>2 DEF InitKvCache, LiveInv, Empty, CacheInv
    <3>2. keys' = ModeKeys' /\ draftKeys' = ModeDraftKeys' BY <1>0, <3>1, InitializedKeys
    <3>3. KeysInv' BY <3>1, <3>2 DEF KeysInv
    <3>4. kv' = "real" /\ kv' # None /\ views' # << >> BY <3>1, InitializedViews
    <3>5. CacheInv' BY <3>1, <3>4 DEF CacheInv, Phases
    <3> QED BY <3>3, <3>5
  <2> QED BY <2>1, <2>2
<1>8. CASE StartCapture
  <2>1. phase = "allocated" /\ UNCHANGED <<engine, caches, graphs>>
    BY <1>8 DEF StartCapture
  <2>2. keys' = keys /\ draftKeys' = draftKeys /\ kv' = kv /\ views' = views
        /\ keys = ModeKeys /\ draftKeys = ModeDraftKeys
    BY <1>0, <2>1 DEF caches, KeysInv
  <2>3. CASE engine.mode = "NONE"
    <3>1. phase' = "serving" /\ todo' = todo /\ capturing' = capturing
      BY <1>8, <2>3 DEF StartCapture
    <3>2. keys = {}
      BY <2>2, <2>3 DEF ModeKeys, TargetKeys, Resolved, PiecewiseMixed, FullDecode
    <3>3. KeysInv' BY <1>0, <2>1, <2>2, <3>1, <3>2, ModeKeysKept DEF KeysInv
    <3>4. CacheInv' BY <1>0, <2>1, <2>2, <3>1 DEF CacheInv, Phases
    <3> QED BY <3>3, <3>4
  <2>4. CASE engine.mode # "NONE"
    <3>1. phase' = "capturing" /\ todo' = keys /\ capturing'
      BY <1>8, <2>4 DEF StartCapture
    <3>2. KeysInv' BY <1>0, <2>1, <2>2, <3>1, ModeKeysKept DEF KeysInv
    <3>3. CacheInv' BY <1>0, <2>1, <2>2, <3>1 DEF CacheInv, Phases
    <3> QED BY <3>2, <3>3
  <2> QED BY <2>3, <2>4
<1>9. CASE FinishCapture
  <2>1. phase = "capturing" /\ phase' = "serving" /\ todo = {} /\ todo' = {}
        /\ UNCHANGED <<engine, caches, graphs>>
    BY <1>9 DEF FinishCapture
  <2>2. keys' = keys /\ draftKeys' = draftKeys /\ kv' = kv /\ views' = views
    BY <2>1 DEF caches
  <2>3. \A d : Captured(d)' = Captured(d) BY <2>1, CapturedKept
  <2>4. KeysInv' BY <1>0, <2>1, <2>2, <2>3, ModeKeysKept DEF KeysInv
  <2>5. CacheInv' BY <1>0, <2>1, <2>2 DEF CacheInv, Phases
  <2> QED BY <2>4, <2>5
<1>10. CASE Encode BY <1>0, <1>10, GraphsKept DEF Encode, Phases
<1>11. CASE ReloadWeights BY <1>0, <1>11, GraphsKept DEF ReloadWeights, Phases
<1>12. CASE Shutdown
  <2>1. /\ phase \notin {"probing", "capturing"} /\ phase' = "down" /\ CleanupKvCache
        /\ UNCHANGED <<engine, keys, graphs, todo>>
    BY <1>12 DEF Shutdown
  <2>2. kv' = None /\ views' = << >> /\ draftKeys' = draftKeys BY <2>1 DEF CleanupKvCache
  <2>3. todo = {} BY <1>0, <2>1 DEF LiveInv, CacheInv
  <2>4. KeysInv' BY <1>0, <2>1, <2>2, ModeKeysKept DEF KeysInv
  <2>5. CacheInv' BY <1>0, <2>1, <2>2, <2>3 DEF CacheInv, Phases
  <2> QED BY <2>4, <2>5
<1>13. CASE UNCHANGED vars
  <2>1. UNCHANGED <<engine, caches, graphs, todo>> /\ phase' = phase /\ capturing' = capturing
    BY <1>13 DEF vars
  <2> QED BY <1>0, <2>1, GraphsKept DEF CacheInv
<1> QED BY <1>1, <1>2, <1>3, <1>4, <1>5, <1>6, <1>7, <1>8, <1>9, <1>10, <1>11, <1>12, <1>13 DEF Next

(* Before loading nothing is captured and nothing is allocated.             *)
LEMMA StartupInit == ASSUME Init PROVE StartupInv
<1>1. LiveInv BY DEF Init, LiveInv, Empty
<1>2. KeysInv BY DEF Init, KeysInv
<1>3. CacheInv BY DEF Init, CacheInv, Phases
<1> QED BY <1>1, <1>2, <1>3 DEF StartupInv

(* The phases, the KV cache and its views; no graph is kept that neither    *)
(* the target nor the drafter can ask for.                                  *)
THEOREM StartupTypeOK == Spec => []TypeOK
<1>1. StartupInv => TypeOK BY DEF StartupInv, CacheInv, TypeOK
<1> QED BY <1>1, StartupInit, StartupInvInductive, PTL DEF Spec

(* DSpark dispatches by requests, at most MaxBatch of them, and captures    *)
(* while graphs of up to MaxTokens tokens are: the size it dispatches to is *)
(* that of a piecewise graph, and the drafter ran beside its capture with   *)
(* as many requests as fit, which are dispatched to the same size.          *)
LEMMA DraftSizeOfDispatched ==
  ASSUME KeysInv, NEW rows \in Nat, rows >= 1, engine.drafter = "dspark" => rows <= MaxBatch,
         Dispatched(draftKeys, rows) # None, Graph("PIECEWISE", Dispatched(draftKeys, rows)) \in keys,
         ~engine.draftEager
  PROVE  DraftSize(Graph("PIECEWISE", Dispatched(draftKeys, rows))) = Dispatched(draftKeys, rows)
<1> DEFINE size == Dispatched(draftKeys, rows)
           n == DraftRows(size)
<1>1. draftKeys \in SUBSET CaptureSizes BY ModeKeysAreGraphs DEF KeysInv
<1>2. size \in draftKeys /\ size >= rows /\ \A t \in draftKeys : t >= rows => size <= t
  BY <1>1, DispatchedSize
<1>3. size \in Nat /\ MaxBatch \in Nat BY <1>1, <1>2, StartupSizes
<1> HIDE DEF size
<1>4. n \in Nat /\ n <= size /\ n >= rows
  BY <1>2, <1>3 DEF DraftRows
<1> HIDE DEF n
<1>5. \A t \in draftKeys : t >= n => size <= t
  <2> SUFFICES ASSUME NEW t \in draftKeys, t >= n PROVE size <= t OBVIOUS
  <2>1. t \in Nat BY <1>1, StartupSizes
  <2> QED BY <1>2, <1>4, <2>1
<1>6. Dispatched(draftKeys, n) = size BY <1>1, <1>2, <1>4, <1>5, DispatchedIs
<1> QED BY <1>6 DEF DraftSize, UsesDraftGraphs, Graph, size, n

(* Once the engine serves, every graph that a step of the target or of the  *)
(* drafter can ask for has been captured, and capturing is off.             *)
THEOREM StepsAlwaysCaptured == Spec => []StepsAreCaptured
<1>1. ASSUME StartupInv PROVE StepsAreCaptured
  <2> SUFFICES ASSUME phase = "serving" PROVE StepsAreCaptured BY DEF StepsAreCaptured
  <2>1. /\ ~capturing /\ keys = ModeKeys /\ draftKeys = ModeDraftKeys
        /\ \A d \in keys : Captured(d) \subseteq graphs
    BY <1>1 DEF StartupInv, LiveInv, KeysInv
  <2>2. ASSUME NEW k \in keys
        PROVE  \E g \in graphs : g.of = "target" /\ g.mode = k.mode /\ g.size = k.size
    <3>1. [of |-> "target", mode |-> k.mode, size |-> k.size, on |-> kv] \in graphs
      BY <2>1 DEF Captured
    <3> QED BY <3>1
  <2>3. ASSUME NEW rows \in 1 .. (IF engine.drafter = "dspark" THEN MaxBatch ELSE MaxTokens),
               Dispatched(draftKeys, rows) # None
        PROVE  \E g \in graphs : g.of = "draft" /\ g.size = Dispatched(draftKeys, rows)
    <3> DEFINE size == Dispatched(draftKeys, rows)
    <3>1. rows \in Nat /\ rows >= 1 /\ (engine.drafter = "dspark" => rows <= MaxBatch)
      BY StartupSizes
    <3>2. draftKeys \in SUBSET CaptureSizes BY <1>1, ModeKeysAreGraphs DEF StartupInv, KeysInv
    <3>3. size \in draftKeys BY <2>3, <3>1, <3>2, DispatchedSize
    <3> HIDE DEF size
    <3>4. PiecewiseMixed(Resolved(engine.mode)) /\ ~engine.draftEager
      BY <2>1, <3>3 DEF ModeDraftKeys, DraftKeys
    <3>5. Graph("PIECEWISE", size) \in keys
      BY <2>1, <3>2, <3>3, <3>4 DEF ModeKeys, TargetKeys
    <3>6. DraftSize(Graph("PIECEWISE", size)) = size
      BY <1>1, <2>3, <3>1, <3>4, <3>5, DraftSizeOfDispatched DEF StartupInv, size
    <3>7. size # None BY <2>3 DEF size
    <3>8. [of |-> "draft", mode |-> "PIECEWISE", size |-> size, on |-> kv] \in graphs
      BY <2>1, <3>5, <3>6, <3>7 DEF Captured
    <3> QED BY <3>8 DEF size
  <2> QED BY <2>1, <2>2, <2>3 DEF StepsAreCaptured
<1> QED BY <1>1, StartupInit, StartupInvInductive, PTL DEF Spec

-----------------------------------------------------------------------------
(* The blocks of layers that share a tensor.                                *)

(* Sets of elements built up dimension by dimension.                        *)
Spread(n, w, S) == { i * w + x : i \in 0 .. n - 1, x \in S }

Shifted(a, S) == { a + x : x \in S }

(* Two elements of rows that do not overlap are in the same place only if   *)
(* they are the same.                                                       *)
LEMMA RowAndRest ==
  ASSUME NEW w \in Nat, NEW i \in Nat, NEW j \in Nat, NEW x \in 0 .. w - 1, NEW y \in 0 .. w - 1,
         i * w + x = j * w + y
  PROVE  i = j /\ x = y
<1>1. ASSUME NEW p \in Nat, NEW q \in Nat, NEW u \in 0 .. w - 1, NEW v \in 0 .. w - 1,
             p * w + u = q * w + v
      PROVE  ~(p < q)
  <2> SUFFICES ASSUME p < q PROVE FALSE OBVIOUS
  <2>1. PICK e \in Nat : q = p + 1 + e
    <3>1. q - p - 1 \in Nat /\ q = p + 1 + (q - p - 1) BY <1>1
    <3> QED BY <3>1
  <2>2. q * w = p * w + w + e * w BY <2>1
  <2>3. p * w \in Nat /\ e * w \in Nat BY <2>1
  <2> DEFINE pw == p * w
             ew == e * w
  <2>4. pw + u = pw + w + ew + v /\ pw \in Nat /\ ew \in Nat BY <1>1, <2>2, <2>3
  <2> HIDE DEF pw, ew
  <2>5. u \in Nat /\ u < w /\ v \in Nat BY <1>1
  <2> QED BY <2>4, <2>5
<1>2. ~(i < j) BY <1>1
<1>3. ~(j < i) BY <1>1
<1>4. i = j BY <1>2, <1>3
<1>5. i * w \in Nat /\ j * w = i * w BY <1>4
<1> DEFINE iw == i * w
<1>6. iw + x = iw + y /\ iw \in Nat BY <1>5
<1> HIDE DEF iw
<1>7. x = y BY <1>6
<1> QED BY <1>4, <1>7

(* The elements of a spread set.                                            *)
LEMMA SpreadHas ==
  ASSUME NEW n, NEW w, NEW S, NEW i \in 0 .. n - 1, NEW x \in S
  PROVE  i * w + x \in Spread(n, w, S)
<1>1. \E j \in 0 .. n - 1, y \in S : i * w + x = j * w + y BY Zenon
<1> QED BY <1>1, SMT DEF Spread

(* Each element is in some row.                                             *)
LEMMA SpreadFrom ==
  ASSUME NEW n, NEW w, NEW S, NEW c \in Spread(n, w, S)
  PROVE  \E i \in 0 .. n - 1, x \in S : c = i * w + x
  BY DEF Spread

(* A spread set of numbers is one.                                          *)
LEMMA SpreadNat ==
  ASSUME NEW n \in Nat, NEW w \in Nat, NEW S \in SUBSET Nat
  PROVE  Spread(n, w, S) \in SUBSET Nat
<1>1. ASSUME NEW c \in Spread(n, w, S) PROVE c \in Nat
  <2>1. PICK i \in 0 .. n - 1, x \in S : c = i * w + x BY DEF Spread
  <2>2. i \in Nat /\ x \in Nat OBVIOUS
  <2>3. i * w \in Nat BY <2>2
  <2> QED BY <2>1, <2>2, <2>3
<1> QED BY <1>1

(* Spread out by at least its width, a set is repeated without overlap.     *)
LEMMA SpreadCounts ==
  ASSUME NEW n \in Nat, NEW w \in Nat, NEW S \in SUBSET (0 .. w - 1), IsFiniteSet(S)
  PROVE  /\ IsFiniteSet(Spread(n, w, S))
         /\ Cardinality(Spread(n, w, S)) = n * Cardinality(S)
         /\ Spread(n, w, S) \subseteq 0 .. n * w - 1
<1> DEFINE I == 0 .. n - 1
           T == Spread(n, w, S)
           f == [p \in I \X S |-> p[1] * w + p[2]]
<1>1. \A i \in I : i \in Nat /\ i < n OBVIOUS
<1>2. \A x \in S : x \in Nat /\ x < w /\ x \in 0 .. w - 1 OBVIOUS
<1>3. \A p \in I \X S : p[1] \in I /\ p[2] \in S /\ p = <<p[1], p[2]>> OBVIOUS
<1>4. f \in [I \X S -> T]
  <2>1. ASSUME NEW p \in I \X S PROVE p[1] * w + p[2] \in T
    BY <1>3, SpreadHas
  <2> QED BY <2>1
<1>5. ASSUME NEW p \in I \X S, NEW q \in I \X S, f[p] = f[q] PROVE p = q
  <2>1. p[1] * w + p[2] = q[1] * w + q[2] BY <1>5
  <2>2. p[1] \in Nat /\ q[1] \in Nat /\ p[2] \in 0 .. w - 1 /\ q[2] \in 0 .. w - 1
    BY <1>1, <1>2, <1>3
  <2>3. p[1] = q[1] /\ p[2] = q[2] BY <2>1, <2>2, RowAndRest
  <2> QED BY <1>3, <2>3
<1>6. ASSUME NEW t \in T PROVE \E p \in I \X S : f[p] = t
  <2>1. PICK i \in I, x \in S : t = i * w + x BY <1>6 DEF Spread
  <2>2. <<i, x>> \in I \X S /\ f[<<i, x>>] = t BY <2>1
  <2> QED BY <2>2
<1>7. f \in Bijection(I \X S, T) BY <1>4, <1>5, <1>6 DEF Bijection, Injection, Surjection, IsInjective
<1>8. ExistsBijection(I \X S, T) BY <1>7 DEF ExistsBijection
<1>9. IsFiniteSet(I) /\ Cardinality(I) = n
  <2>1. IsFiniteSet(I) /\ Cardinality(I) = IF 0 > n - 1 THEN 0 ELSE (n - 1) - 0 + 1
    BY FS_Interval
  <2> QED BY <2>1
<1>10. IsFiniteSet(I \X S) /\ Cardinality(I \X S) = Cardinality(I) * Cardinality(S)
  BY <1>9, FS_Product
<1>11. IsFiniteSet(T) /\ Cardinality(T) = Cardinality(I \X S) BY <1>8, <1>10, FS_Bijection
<1>12. ASSUME NEW t \in T PROVE t \in 0 .. n * w - 1
  <2>1. PICK i \in I, x \in S : t = i * w + x BY <1>12 DEF Spread
  <2>2. i \in Nat /\ x \in Nat /\ x < w BY <1>1, <1>2
  <2>3. PICK e \in Nat : n = i + 1 + e
    <3>1. n - i - 1 \in Nat /\ n = i + 1 + (n - i - 1) BY <1>1, <2>2
    <3> QED BY <3>1
  <2>4. n * w = i * w + w + e * w BY <2>2, <2>3
  <2> DEFINE iw == i * w
             ew == e * w
             nw == n * w
  <2>5. iw \in Nat /\ ew \in Nat /\ nw = iw + w + ew /\ t = iw + x BY <2>1, <2>2, <2>3, <2>4
  <2> HIDE DEF iw, ew, nw
  <2>6. t \in 0 .. nw - 1 BY <2>2, <2>5
  <2> QED BY <2>6 DEF nw
<1> QED BY <1>9, <1>10, <1>11, <1>12

(* Moved as a whole, a set keeps its size.                                  *)
LEMMA ShiftedCounts ==
  ASSUME NEW a \in Nat, NEW S \in SUBSET Nat, IsFiniteSet(S)
  PROVE  IsFiniteSet(Shifted(a, S)) /\ Cardinality(Shifted(a, S)) = Cardinality(S)
<1> DEFINE T == Shifted(a, S)
           f == [x \in S |-> a + x]
<1>1. f \in [S -> T] BY DEF Shifted
<1>2. \A x \in S : x \in Nat OBVIOUS
<1>3. \A x, y \in S : f[x] = f[y] => x = y BY <1>2
<1>4. \A t \in T : \E x \in S : f[x] = t BY DEF Shifted
<1>5. f \in Bijection(S, T) BY <1>1, <1>3, <1>4 DEF Bijection, Injection, Surjection, IsInjective
<1>6. ExistsBijection(S, T) BY <1>5 DEF ExistsBijection
<1> QED BY <1>6, FS_Bijection

(* The whole of an interval.                                                *)
LEMMA WholeCounts ==
  ASSUME NEW n \in Nat
  PROVE  IsFiniteSet(0 .. n - 1) /\ Cardinality(0 .. n - 1) = n
<1>1. IsFiniteSet(0 .. n - 1) /\ Cardinality(0 .. n - 1) = IF 0 > n - 1 THEN 0 ELSE (n - 1) - 0 + 1
  BY FS_Interval
<1> QED BY <1>1

(* A view whose sizes and strides are numbers.                              *)
IsView(view) ==
  \A d \in Dims : view.size[d] \in Nat /\ view.stride[d] \in Nat

(* What a view reaches of one row of tokens and heads, and of block 0.      *)
InnerCells(view) ==
  { t * view.stride["token"] + h * view.stride["head"] :
      t \in Indices(view.size["token"]), h \in Indices(view.size["head"]) }

FirstCells(view, ratio) ==
  Spread(view.size["kv"], view.stride["kv"], Spread(ratio, view.stride["block"], InnerCells(view)))

(* An element of a set that is spread twice.                                *)
LEMMA SpreadTwice ==
  ASSUME NEW n, NEW w, NEW m, NEW u, NEW S, NEW c \in Spread(n, w, Spread(m, u, S))
  PROVE  \E i \in 0 .. n - 1, j \in 0 .. m - 1, x \in S : c = i * w + (j * u + x)
<1>1. PICK i \in 0 .. n - 1, y \in Spread(m, u, S) : c = i * w + y BY SpreadFrom
<1>2. PICK j \in 0 .. m - 1, x \in S : y = j * u + x BY SpreadFrom
<1>3. c = i * w + (j * u + x) BY <1>1, <1>2
<1> QED BY <1>3

(* And the other way.                                                       *)
LEMMA SpreadTwiceHas ==
  ASSUME NEW n, NEW w, NEW m, NEW u, NEW S, NEW i \in 0 .. n - 1, NEW j \in 0 .. m - 1, NEW x \in S
  PROVE  i * w + (j * u + x) \in Spread(n, w, Spread(m, u, S))
<1>1. j * u + x \in Spread(m, u, S) BY SpreadHas
<1> QED BY <1>1, SpreadHas

(* The order of two dimensions does not matter to what they reach.          *)
LEMMA SpreadSwapsOnce ==
  ASSUME NEW n \in Nat, NEW w \in Nat, NEW m \in Nat, NEW u \in Nat, NEW S \in SUBSET Nat,
         NEW c \in Spread(n, w, Spread(m, u, S))
  PROVE  c \in Spread(m, u, Spread(n, w, S))
<1>1. PICK i \in 0 .. n - 1, j \in 0 .. m - 1, x \in S : c = i * w + (j * u + x)
  <2> DEFINE R == Spread(m, u, S)
  <2>0. c \in Spread(n, w, R) /\ R \in SUBSET Nat BY SpreadNat
  <2> HIDE DEF R
  <2>1. PICK i \in 0 .. n - 1, y \in R : c = i * w + y BY <2>0 DEF Spread
  <2>2. PICK j \in 0 .. m - 1, x \in S : y = j * u + x BY <2>1 DEF R, Spread
  <2> QED BY <2>1, <2>2
<1>2. j * u + (i * w + x) \in Spread(m, u, Spread(n, w, S)) BY SpreadTwiceHas
<1>3. i \in Nat /\ j \in Nat /\ x \in Nat OBVIOUS
<1>4. i * w \in Nat /\ j * u \in Nat BY <1>3
<1> DEFINE a == i * w
           b == j * u
<1>5. a + (b + x) = b + (a + x)
  <2>1. a \in Nat /\ b \in Nat BY <1>4
  <2> HIDE DEF a, b
  <2> QED BY <2>1, <1>3
<1> QED BY <1>1, <1>2, <1>5

(* As sets.                                                                 *)
LEMMA SpreadSwaps ==
  ASSUME NEW n \in Nat, NEW w \in Nat, NEW m \in Nat, NEW u \in Nat, NEW S \in SUBSET Nat
  PROVE  Spread(n, w, Spread(m, u, S)) = Spread(m, u, Spread(n, w, S))
  BY SpreadSwapsOnce

(* A single row is not moved.                                               *)
LEMMA SpreadOnce ==
  ASSUME NEW w \in Nat, NEW S \in SUBSET Nat
  PROVE  Spread(1, w, S) = S
<1>1. \A x \in S : x \in Nat /\ 0 * w + x = x OBVIOUS
<1>2. 0 .. 1 - 1 = {0} OBVIOUS
<1>3. ASSUME NEW c \in Spread(1, w, S) PROVE c \in S
  <2>1. PICK i \in 0 .. 1 - 1, x \in S : c = i * w + x BY DEF Spread
  <2>2. i = 0 BY <1>2
  <2>3. c = 0 * w + x BY <2>1, <2>2
  <2> QED BY <1>1, <2>3
<1>4. ASSUME NEW c \in S PROVE c \in Spread(1, w, S)
  <2>1. 0 \in 0 .. 1 - 1 OBVIOUS
  <2>2. 0 * w + c \in Spread(1, w, S) BY <2>1, SpreadHas
  <2> QED BY <1>1, <2>2
<1> QED BY <1>3, <1>4

(* The cells of a block are those of block 0, moved as a whole.             *)
LEMMA CellsShifted ==
  ASSUME NEW view, IsView(view), NEW ratio \in Nat, NEW b \in Nat
  PROVE  Cells(view, ratio, b) = Shifted(b * (ratio * view.stride["block"]), FirstCells(view, ratio))
<1> DEFINE K == view.stride["kv"]
           B == view.stride["block"]
           st == view.stride["token"]
           sh == view.stride["head"]
           nk == view.size["kv"]
           nt == view.size["token"]
           nh == view.size["head"]
           S == InnerCells(view)
           at == b * (ratio * B)
<1>1. K \in Nat /\ B \in Nat /\ st \in Nat /\ sh \in Nat /\ nk \in Nat /\ nt \in Nat /\ nh \in Nat
  BY DEF IsView, Dims
<1>2. S \in SUBSET Nat
  <2>1. ASSUME NEW c \in S PROVE c \in Nat
    <3>1. PICK t \in 0 .. nt - 1, h \in 0 .. nh - 1 : c = t * st + h * sh
      BY DEF InnerCells, Indices
    <3>2. t \in Nat /\ h \in Nat BY <1>1
    <3>3. t * st \in Nat /\ h * sh \in Nat BY <1>1, <3>2
    <3> QED BY <3>1, <3>3
  <2> QED BY <2>1
<1>3. ASSUME NEW v \in 0 .. nk - 1, NEW i \in 0 .. ratio - 1, NEW k \in Nat, k = b * ratio + i,
             NEW t \in 0 .. nt - 1, NEW h \in 0 .. nh - 1
      PROVE  Address(view, v, k, t, h) = at + (v * K + (i * B + (t * st + h * sh)))
  <2>1. v \in Nat /\ i \in Nat /\ t \in Nat /\ h \in Nat BY <1>1
  <2>2. Address(view, v, k, t, h) = v * K + k * B + t * st + h * sh BY DEF Address
  <2>3. k * B = at + i * B BY <1>1, <1>3, <2>1
  <2>4. at \in Nat /\ v * K \in Nat /\ i * B \in Nat /\ t * st \in Nat /\ h * sh \in Nat
    BY <1>1, <2>1
  <2> DEFINE vK == v * K
             iB == i * B
             ts == t * st
             hs == h * sh
             kB == k * B
  <2>5. /\ Address(view, v, k, t, h) = vK + kB + ts + hs /\ kB = at + iB
        /\ at \in Nat /\ vK \in Nat /\ iB \in Nat /\ ts \in Nat /\ hs \in Nat
    BY <2>2, <2>3, <2>4
  <2> HIDE DEF vK, iB, ts, hs, kB, at
  <2>6. Address(view, v, k, t, h) = at + (vK + (iB + (ts + hs))) BY <2>5
  <2> QED BY <2>6 DEF vK, iB, ts, hs
<1>4. FirstCells(view, ratio) = Spread(nk, K, Spread(ratio, B, S)) BY DEF FirstCells
<1>5. ASSUME NEW c \in Cells(view, ratio, b) PROVE c \in Shifted(at, FirstCells(view, ratio))
  <2>1. PICK v \in 0 .. nk - 1, k \in b * ratio .. b * ratio + ratio - 1,
             t \in 0 .. nt - 1, h \in 0 .. nh - 1 : c = Address(view, v, k, t, h)
    BY <1>5 DEF Cells, Indices
  <2>2. PICK i \in 0 .. ratio - 1 : k = b * ratio + i
    <3> DEFINE br == b * ratio
    <3>1. br \in Nat /\ k \in br .. br + ratio - 1 OBVIOUS
    <3> HIDE DEF br
    <3>2. k - br \in 0 .. ratio - 1 /\ k = br + (k - br) BY <3>1
    <3> QED BY <3>2 DEF br
  <2>3. k \in Nat
    <3>1. i \in Nat /\ b * ratio \in Nat OBVIOUS
    <3> QED BY <2>2, <3>1
  <2>4. c = at + (v * K + (i * B + (t * st + h * sh))) BY <1>3, <2>1, <2>2, <2>3
  <2>5. t * st + h * sh \in S BY DEF InnerCells, Indices
  <2>6. v * K + (i * B + (t * st + h * sh)) \in FirstCells(view, ratio)
    BY <1>4, <2>5, SpreadTwiceHas
  <2> QED BY <2>4, <2>6 DEF Shifted
<1>6. ASSUME NEW c \in Shifted(at, FirstCells(view, ratio)) PROVE c \in Cells(view, ratio, b)
  <2>1. PICK y \in FirstCells(view, ratio) : c = at + y BY <1>6 DEF Shifted
  <2>2. PICK v \in 0 .. nk - 1, i \in 0 .. ratio - 1, x \in S : y = v * K + (i * B + x)
    BY <1>4, SpreadTwice
  <2>3. PICK t \in 0 .. nt - 1, h \in 0 .. nh - 1 : x = t * st + h * sh
    BY DEF InnerCells, Indices
  <2> DEFINE k == b * ratio + i
  <2>4. k \in Nat /\ k \in b * ratio .. b * ratio + ratio - 1
    <3> DEFINE br == b * ratio
    <3>1. br \in Nat /\ i \in Nat /\ i <= ratio - 1 OBVIOUS
    <3> HIDE DEF br
    <3>2. br + i \in Nat /\ br + i \in br .. br + ratio - 1 BY <3>1
    <3> QED BY <3>2 DEF br
  <2>5. c = Address(view, v, k, t, h) BY <1>3, <2>1, <2>2, <2>3, <2>4
  <2> HIDE DEF k
  <2>6. \E v1 \in Indices(nk), k1 \in b * ratio .. b * ratio + ratio - 1,
           t1 \in Indices(nt), h1 \in Indices(nh) : c = Address(view, v1, k1, t1, h1)
    BY <2>4, <2>5 DEF Indices
  <2> QED BY <2>6 DEF Cells
<1> QED BY <1>5, <1>6

(* The products of the sizes from a position inwards.                       *)
Products(order, sizes) ==
  CHOOSE f : f = [i \in 0 .. 4 |-> IF i = 4 THEN 1 ELSE f[i + 1] * sizes[order[i + 1]]]

(* The strides are those products.                                          *)
LEMMA StridesAre ==
  ASSUME NEW order, NEW sizes
  PROVE  ContiguousStrides(order, sizes)
           = [d \in Dims |-> Products(order, sizes)[CHOOSE i \in 1 .. 4 : order[i] = d]]
  BY Zenon DEF ContiguousStrides, Products

(* Their values.                                                            *)
LEMMA ProductsUnfold ==
  ASSUME NEW order, NEW sizes, \A i \in 1 .. 4 : sizes[order[i]] \in Nat
  PROVE  /\ Products(order, sizes)[4] = 1
         /\ Products(order, sizes)[3] = sizes[order[4]]
         /\ Products(order, sizes)[2] = sizes[order[4]] * sizes[order[3]]
         /\ Products(order, sizes)[1] = sizes[order[4]] * sizes[order[3]] * sizes[order[2]]
<1> DEFINE a == sizes[order[4]]
           b == sizes[order[3]]
           c == sizes[order[2]]
           e == sizes[order[1]]
           Body(f) == [i \in 0 .. 4 |-> IF i = 4 THEN 1 ELSE f[i + 1] * sizes[order[i + 1]]]
           g == [i \in 0 .. 4 |-> CASE i = 4 -> 1 [] i = 3 -> 1 * a [] i = 2 -> 1 * a * b
                                    [] i = 1 -> 1 * a * b * c [] OTHER -> 1 * a * b * c * e]
<1>1. \A i \in 0 .. 4 : i = 0 \/ i = 1 \/ i = 2 \/ i = 3 \/ i = 4 OBVIOUS
<1>2. ASSUME NEW i \in 0 .. 4 PROVE g[i] = IF i = 4 THEN 1 ELSE g[i + 1] * sizes[order[i + 1]]
  BY <1>1
<1>3. g = Body(g) BY <1>2
<1>4. \E f : f = Body(f) BY <1>3
<1>5. Products(order, sizes) = Body(Products(order, sizes)) BY <1>4, Zenon DEF Products
<1>6. a \in Nat /\ b \in Nat /\ c \in Nat OBVIOUS
<1> DEFINE f == Products(order, sizes)
<1>7. \A i \in 0 .. 4 : f[i] = IF i = 4 THEN 1 ELSE f[i + 1] * sizes[order[i + 1]] BY <1>5
<1> HIDE DEF f
<1>8. f[4] = 1 BY <1>7
<1>9. f[3] = a
  <2>1. f[3] = f[4] * a BY <1>7
  <2> HIDE DEF a
  <2> QED BY <1>6, <1>8, <2>1
<1>10. f[2] = a * b BY <1>7, <1>9
<1>11. f[1] = a * b * c BY <1>7, <1>10
<1> QED BY <1>8, <1>9, <1>10, <1>11 DEF f

(* A standard view's strides follow from its order: tokens and heads are    *)
(* the innermost, and the K/V halves or the blocks are the outermost.       *)
BlockMajorOrders == {Preference[1], Preference[2]}

KvMajorOrders == {Preference[3], Preference[4]}

InnerStrides(view) ==
  \/ view.stride["token"] = view.size["head"] /\ view.stride["head"] = 1
  \/ view.stride["token"] = 1 /\ view.stride["head"] = view.size["token"]

RowCells(view) == view.size["token"] * view.size["head"]

BlockMajor(view) ==
  /\ view.size["kv"] = 2 /\ InnerStrides(view)
  /\ view.stride["kv"] = RowCells(view) /\ view.stride["block"] = 2 * RowCells(view)

KvMajor(view) ==
  /\ view.size["kv"] = 2 /\ InnerStrides(view)
  /\ view.stride["block"] = RowCells(view)
  /\ view.stride["kv"] = view.size["block"] * RowCells(view)

(* Each of the four orders gives one of these forms.                        *)
LEMMA OrderedStrides ==
  ASSUME NEW sizes, \A d \in Dims : sizes[d] \in Nat, sizes["kv"] = 2,
         NEW order \in BlockMajorOrders \cup KvMajorOrders,
         NEW view, view.size = sizes, view.stride = ContiguousStrides(order, sizes)
  PROVE  /\ order \in BlockMajorOrders => BlockMajor(view)
         /\ order \in KvMajorOrders => KvMajor(view)
<1> DEFINE P == Products(order, sizes)
           t == sizes["token"]
           h == sizes["head"]
           n == sizes["block"]
           At(d) == CHOOSE i \in 1 .. 4 : order[i] = d
<1>1. /\ Preference[1] = <<"block", "kv", "head", "token">>
      /\ Preference[2] = <<"block", "kv", "token", "head">>
      /\ Preference[3] = <<"kv", "block", "head", "token">>
      /\ Preference[4] = <<"kv", "block", "token", "head">>
  BY DEF Preference
<1>2. \A i \in 1 .. 4 : i = 1 \/ i = 2 \/ i = 3 \/ i = 4 OBVIOUS
<1>3. \A i \in 1 .. 4 : order[i] \in Dims BY <1>1, <1>2 DEF BlockMajorOrders, KvMajorOrders, Dims
<1>4. \A d \in Dims : view.stride[d] = P[At(d)] BY StridesAre
<1>5. t \in Nat /\ h \in Nat /\ n \in Nat BY DEF Dims
<1>6. /\ P[4] = 1 /\ P[3] = sizes[order[4]] /\ P[2] = sizes[order[4]] * sizes[order[3]]
      /\ P[1] = sizes[order[4]] * sizes[order[3]] * sizes[order[2]]
  BY <1>3, ProductsUnfold
<1>7. ASSUME NEW i \in 1 .. 4, \A j \in 1 .. 4 : order[j] = order[i] => j = i
      PROVE  At(order[i]) = i
  BY <1>7
<1>8. \A i, j \in 1 .. 4 : order[j] = order[i] => j = i
  BY <1>1, <1>2 DEF BlockMajorOrders, KvMajorOrders
<1>9. \A i \in 1 .. 4 : view.stride[order[i]] = P[i] BY <1>3, <1>4, <1>7, <1>8
<1> HIDE DEF P, At
<1>10. /\ view.stride[order[1]] = sizes[order[4]] * sizes[order[3]] * sizes[order[2]]
       /\ view.stride[order[2]] = sizes[order[4]] * sizes[order[3]]
       /\ view.stride[order[3]] = sizes[order[4]] /\ view.stride[order[4]] = 1
  BY <1>6, <1>9
<1>11. CASE order = Preference[1]
  <2>1. /\ view.stride["block"] = t * h * 2 /\ view.stride["kv"] = t * h
        /\ view.stride["head"] = t /\ view.stride["token"] = 1
    BY <1>1, <1>10, <1>11
  <2>2. view.stride["block"] = 2 * (t * h) BY <1>5, <2>1
  <2>3. order \notin KvMajorOrders BY <1>1, <1>11 DEF KvMajorOrders
  <2> QED BY <2>1, <2>2, <2>3 DEF BlockMajor, InnerStrides, RowCells
<1>12. CASE order = Preference[2]
  <2>1. /\ view.stride["block"] = h * t * 2 /\ view.stride["kv"] = h * t
        /\ view.stride["token"] = h /\ view.stride["head"] = 1
    BY <1>1, <1>10, <1>12
  <2>2. view.stride["block"] = 2 * (t * h) /\ view.stride["kv"] = t * h BY <1>5, <2>1
  <2>3. order \notin KvMajorOrders BY <1>1, <1>12 DEF KvMajorOrders
  <2> QED BY <2>1, <2>2, <2>3 DEF BlockMajor, InnerStrides, RowCells
<1>13. CASE order = Preference[3]
  <2>1. /\ view.stride["kv"] = t * h * n /\ view.stride["block"] = t * h
        /\ view.stride["head"] = t /\ view.stride["token"] = 1
    BY <1>1, <1>10, <1>13
  <2>2. view.stride["kv"] = n * (t * h) BY <1>5, <2>1
  <2>3. order \notin BlockMajorOrders BY <1>1, <1>13 DEF BlockMajorOrders
  <2> QED BY <2>1, <2>2, <2>3 DEF KvMajor, InnerStrides, RowCells
<1>14. CASE order = Preference[4]
  <2>1. /\ view.stride["kv"] = h * t * n /\ view.stride["block"] = h * t
        /\ view.stride["token"] = h /\ view.stride["head"] = 1
    BY <1>1, <1>10, <1>14
  <2>2. view.stride["kv"] = n * (t * h) /\ view.stride["block"] = t * h BY <1>5, <2>1
  <2>3. order \notin BlockMajorOrders BY <1>1, <1>14 DEF BlockMajorOrders
  <2> QED BY <2>1, <2>2, <2>3 DEF KvMajor, InnerStrides, RowCells
<1> QED BY <1>11, <1>12, <1>13, <1>14 DEF BlockMajorOrders, KvMajorOrders

(* A row's cells, whichever of tokens and heads is innermost.               *)
LEMMA InnerCount ==
  ASSUME NEW view, IsView(view), InnerStrides(view)
  PROVE  /\ InnerCells(view) \in SUBSET (0 .. RowCells(view) - 1) /\ IsFiniteSet(InnerCells(view))
         /\ Cardinality(InnerCells(view)) = RowCells(view)
         /\ RowCells(view) \in Nat
<1> DEFINE T == view.size["token"]
           H == view.size["head"]
           st == view.stride["token"]
           sh == view.stride["head"]
<1>1. T \in Nat /\ H \in Nat /\ st \in Nat /\ sh \in Nat BY DEF IsView, Dims
<1>2. RowCells(view) = T * H /\ T * H = H * T /\ T * H \in Nat BY <1>1 DEF RowCells
<1>3. IsFiniteSet(0 .. H - 1) /\ Cardinality(0 .. H - 1) = H BY <1>1, WholeCounts
<1>4. IsFiniteSet(0 .. T - 1) /\ Cardinality(0 .. T - 1) = T BY <1>1, WholeCounts
<1>5. InnerCells(view) = { t * st + h * sh : t \in 0 .. T - 1, h \in 0 .. H - 1 }
  BY DEF InnerCells, Indices
<1>6. CASE st = H /\ sh = 1
  <2>1. ASSUME NEW t \in 0 .. T - 1, NEW h \in 0 .. H - 1 PROVE t * st + h * sh = t * H + h
    <3>1. h * sh = h BY <1>6
    <3>2. t * st = t * H BY <1>6
    <3> QED BY <3>1, <3>2
  <2>2. InnerCells(view) = Spread(T, H, 0 .. H - 1)
    <3>1. ASSUME NEW c \in InnerCells(view) PROVE c \in Spread(T, H, 0 .. H - 1)
      <4>1. PICK t \in 0 .. T - 1, h \in 0 .. H - 1 : c = t * st + h * sh BY <1>5
      <4>2. c = t * H + h BY <2>1, <4>1
      <4> QED BY <4>2, SpreadHas
    <3>2. ASSUME NEW c \in Spread(T, H, 0 .. H - 1) PROVE c \in InnerCells(view)
      <4>1. PICK t \in 0 .. T - 1, h \in 0 .. H - 1 : c = t * H + h BY <1>1 DEF Spread
      <4>2. c = t * st + h * sh BY <2>1, <4>1
      <4> QED BY <1>5, <4>2
    <3> QED BY <3>1, <3>2
  <2>3. (0 .. H - 1) \in SUBSET (0 .. H - 1) OBVIOUS
  <2>4. /\ IsFiniteSet(Spread(T, H, 0 .. H - 1))
        /\ Cardinality(Spread(T, H, 0 .. H - 1)) = T * Cardinality(0 .. H - 1)
        /\ Spread(T, H, 0 .. H - 1) \subseteq 0 .. T * H - 1
    BY <1>1, <1>3, <2>3, SpreadCounts
  <2> QED BY <1>2, <1>3, <2>2, <2>4
<1>7. CASE st = 1 /\ sh = T
  <2>1. ASSUME NEW t \in 0 .. T - 1, NEW h \in 0 .. H - 1 PROVE t * st + h * sh = h * T + t
    <3>1. t * st = t /\ t \in Nat BY <1>7
    <3>2. h * sh = h * T /\ h \in Nat BY <1>7
    <3>3. h * T \in Nat BY <1>1, <3>2
    <3> DEFINE hT == h * T
    <3>4. t * st + h * sh = t + hT /\ hT \in Nat BY <3>1, <3>2, <3>3
    <3> HIDE DEF hT
    <3>5. t * st + h * sh = hT + t BY <3>1, <3>4
    <3> QED BY <3>5 DEF hT
  <2>2. InnerCells(view) = Spread(H, T, 0 .. T - 1)
    <3>1. ASSUME NEW c \in InnerCells(view) PROVE c \in Spread(H, T, 0 .. T - 1)
      <4>1. PICK t \in 0 .. T - 1, h \in 0 .. H - 1 : c = t * st + h * sh BY <1>5
      <4>2. c = h * T + t BY <2>1, <4>1
      <4> QED BY <4>2, SpreadHas
    <3>2. ASSUME NEW c \in Spread(H, T, 0 .. T - 1) PROVE c \in InnerCells(view)
      <4>1. PICK h \in 0 .. H - 1, t \in 0 .. T - 1 : c = h * T + t BY <1>1 DEF Spread
      <4>2. c = t * st + h * sh BY <2>1, <4>1
      <4> QED BY <1>5, <4>2
    <3> QED BY <3>1, <3>2
  <2>3. (0 .. T - 1) \in SUBSET (0 .. T - 1) OBVIOUS
  <2>4. /\ IsFiniteSet(Spread(H, T, 0 .. T - 1))
        /\ Cardinality(Spread(H, T, 0 .. T - 1)) = H * Cardinality(0 .. T - 1)
        /\ Spread(H, T, 0 .. T - 1) \subseteq 0 .. H * T - 1
    BY <1>1, <1>4, <2>3, SpreadCounts
  <2> QED BY <1>2, <1>4, <2>2, <2>4
<1> QED BY <1>6, <1>7 DEF InnerStrides

(* A view of blocks that are a page each.                                   *)
Counted(view, ratio) ==
  /\ IsFiniteSet(FirstCells(view, ratio))
  /\ Cardinality(FirstCells(view, ratio)) = CellCount(view, ratio)

MajorBlocks(view, ratio) ==
  /\ ratio * view.stride["block"] = Page
  /\ FirstCells(view, ratio) \subseteq 0 .. Page - 1
  /\ Counted(view, ratio)

(* One of blocks of which a half is in either half of the tensor.           *)
SplitBlocks(view, ratio, blocks) ==
  \E half \in Nat :
    /\ Page = 2 * half /\ ratio * view.stride["block"] = half
    /\ FirstCells(view, ratio) \subseteq (0 .. half - 1) \cup (blocks * half .. blocks * half + half - 1)
    /\ Counted(view, ratio)

(* A block-major view keeps each block in a page.                           *)
LEMMA BlockMajorBlocks ==
  ASSUME NEW view, IsView(view), BlockMajor(view), NEW ratio \in Nat,
         Page = 2 * (ratio * RowCells(view))
  PROVE  MajorBlocks(view, ratio)
<1> DEFINE W == RowCells(view)
           S == InnerCells(view)
           R == Spread(2, W, S)
           C == Spread(ratio, 2 * W, R)
<1>1. /\ S \in SUBSET (0 .. W - 1) /\ IsFiniteSet(S) /\ Cardinality(S) = W /\ W \in Nat
  BY InnerCount DEF BlockMajor
<1>2. S \in SUBSET Nat BY <1>1
<1>3. /\ IsFiniteSet(R) /\ Cardinality(R) = 2 * Cardinality(S) /\ R \subseteq 0 .. 2 * W - 1
  BY <1>1, SpreadCounts
<1>4. R \in SUBSET (0 .. 2 * W - 1) /\ 2 * W \in Nat BY <1>1, <1>3
<1>5. /\ IsFiniteSet(C) /\ Cardinality(C) = ratio * Cardinality(R) /\ C \subseteq 0 .. ratio * (2 * W) - 1
  BY <1>3, <1>4, SpreadCounts
<1>6. FirstCells(view, ratio) = C
  <2>1. FirstCells(view, ratio) = Spread(2, W, Spread(ratio, 2 * W, S)) BY DEF FirstCells, BlockMajor
  <2> DEFINE V == 2 * W
  <2>2. V \in Nat /\ W \in Nat /\ S \in SUBSET Nat /\ 2 \in Nat BY <1>1, <1>2
  <2> HIDE DEF V, W, S
  <2>3. Spread(2, W, Spread(ratio, V, S)) = Spread(ratio, V, Spread(2, W, S)) BY <2>2, SpreadSwaps
  <2> QED BY <2>1, <2>3 DEF V
<1>7. ratio * (2 * W) = 2 * (ratio * W) BY <1>1
<1>8. CellCount(view, ratio) = 2 * ratio * view.size["token"] * view.size["head"]
  BY DEF CellCount, BlockMajor
<1>9. CellCount(view, ratio) = 2 * (ratio * W)
  <2>1. view.size["token"] \in Nat /\ view.size["head"] \in Nat BY DEF IsView, Dims
  <2> QED BY <1>8, <2>1 DEF RowCells
<1>10. Cardinality(C) = ratio * (2 * W) BY <1>1, <1>3, <1>5
<1> QED BY <1>5, <1>6, <1>7, <1>9, <1>10 DEF MajorBlocks, Counted, BlockMajor

(* A view with K/V first keeps a half of each block in either half.         *)
LEMMA KvMajorBlocks ==
  ASSUME NEW view, IsView(view), KvMajor(view), NEW ratio \in Nat, NEW blocks \in Nat \ {0},
         Page = 2 * (ratio * RowCells(view)), view.size["block"] = blocks * ratio
  PROVE  SplitBlocks(view, ratio, blocks)
<1> DEFINE W == RowCells(view)
           S == InnerCells(view)
           half == ratio * W
           R == Spread(ratio, W, S)
           C == Spread(2, blocks * half, R)
<1>1. /\ S \in SUBSET (0 .. W - 1) /\ IsFiniteSet(S) /\ Cardinality(S) = W /\ W \in Nat
  BY InnerCount DEF KvMajor
<1>2. half \in Nat BY <1>1
<1>3. /\ IsFiniteSet(R) /\ Cardinality(R) = ratio * Cardinality(S) /\ R \subseteq 0 .. half - 1
  BY <1>1, SpreadCounts
<1>4. blocks * half \in Nat /\ half <= blocks * half
  <2>1. PICK e \in Nat : blocks = 1 + e
    <3>1. blocks - 1 \in Nat /\ blocks = 1 + (blocks - 1) OBVIOUS
    <3> QED BY <3>1
  <2> HIDE DEF half
  <2>2. blocks * half = half + e * half /\ e * half \in Nat BY <1>2, <2>1
  <2> QED BY <1>2, <2>2
<1>5. R \in SUBSET (0 .. blocks * half - 1)
  <2> DEFINE m == blocks * half
  <2>1. m \in Nat /\ half <= m BY <1>4
  <2> HIDE DEF half, R, m
  <2>2. 0 .. half - 1 \subseteq 0 .. m - 1 BY <1>2, <2>1
  <2> QED BY <1>3, <2>2 DEF m
<1>6. IsFiniteSet(C) /\ Cardinality(C) = 2 * Cardinality(R)
  BY <1>3, <1>4, <1>5, SpreadCounts
<1>7. FirstCells(view, ratio) = C
  <2>1. FirstCells(view, ratio) = Spread(2, view.stride["kv"], Spread(ratio, W, S))
    BY DEF FirstCells, KvMajor
  <2>2. view.stride["kv"] = blocks * half
    <3>1. view.stride["kv"] = (blocks * ratio) * W BY DEF KvMajor
    <3> QED BY <1>1, <3>1
  <2> QED BY <2>1, <2>2
<1>8. CellCount(view, ratio) = 2 * half
  <2>1. view.size["token"] \in Nat /\ view.size["head"] \in Nat BY DEF IsView, Dims
  <2>2. CellCount(view, ratio) = 2 * ratio * view.size["token"] * view.size["head"]
    BY DEF CellCount, KvMajor
  <2> QED BY <2>1, <2>2 DEF RowCells
<1>9. Counted(view, ratio) BY <1>1, <1>3, <1>6, <1>7, <1>8 DEF Counted
<1>10. ASSUME NEW c \in C
       PROVE  c \in (0 .. half - 1) \cup (blocks * half .. blocks * half + half - 1)
  <2> DEFINE m == blocks * half
  <2>1. m \in Nat BY <1>4
  <2>2. c \in Spread(2, m, R) OBVIOUS
  <2>3. R \in SUBSET Nat BY <1>2, <1>3
  <2> HIDE DEF m, R, half
  <2>4. PICK i \in 0 .. 2 - 1, x \in R : c = i * m + x BY <2>1, <2>2, <2>3 DEF Spread
  <2>5. i = 0 \/ i = 1 OBVIOUS
  <2>6. x \in 0 .. half - 1 BY <1>3
  <2>7. CASE i = 0
    <3>1. c = x BY <2>1, <2>4, <2>6, <2>7
    <3> QED BY <2>6, <3>1
  <2>8. CASE i = 1
    <3>1. c = m + x BY <2>1, <2>4, <2>6, <2>8
    <3>2. c \in m .. m + half - 1 BY <1>2, <2>1, <2>6, <3>1
    <3> QED BY <3>2 DEF m
  <2> QED BY <2>5, <2>7, <2>8
<1>11. view.stride["block"] = W BY DEF KvMajor
<1> QED BY <1>2, <1>7, <1>9, <1>10, <1>11 DEF SplitBlocks

(* A view without K/V halves whose kernel blocks tile the pages.            *)
Paged(view, ratio) ==
  /\ view.size["kv"] = 1 /\ view.size["head"] = 1
  /\ view.stride["token"] = 1 /\ view.stride["head"] = 1
  /\ ratio * view.stride["block"] = Page
  /\ view.size["token"] <= view.stride["block"]

(* It keeps each block in a page as well.                                   *)
LEMMA PagedBlocks ==
  ASSUME NEW view, IsView(view), NEW ratio \in Nat, Paged(view, ratio)
  PROVE  MajorBlocks(view, ratio)
<1> DEFINE T == view.size["token"]
           B == view.stride["block"]
           S == InnerCells(view)
           R == Spread(ratio, B, S)
<1>1. T \in Nat /\ B \in Nat /\ view.stride["kv"] \in Nat BY DEF IsView, Dims
<1>2. InnerStrides(view) /\ RowCells(view) = T BY <1>1 DEF Paged, InnerStrides, RowCells
<1>3. S \in SUBSET (0 .. T - 1) /\ IsFiniteSet(S) /\ Cardinality(S) = T BY <1>2, InnerCount
<1>4. S \in SUBSET (0 .. B - 1) /\ S \in SUBSET Nat
  <2>1. 0 .. T - 1 \subseteq 0 .. B - 1 BY <1>1 DEF Paged
  <2>2. 0 .. T - 1 \subseteq Nat BY <1>1
  <2> QED BY <1>3, <2>1, <2>2
<1>5. /\ IsFiniteSet(R) /\ Cardinality(R) = ratio * Cardinality(S) /\ R \subseteq 0 .. ratio * B - 1
  BY <1>1, <1>3, <1>4, SpreadCounts
<1>6. FirstCells(view, ratio) = R
  <2>1. FirstCells(view, ratio) = Spread(1, view.stride["kv"], R) BY DEF FirstCells, Paged
  <2>2. R \in SUBSET Nat BY <1>1, <1>4, SpreadNat
  <2> QED BY <1>1, <2>1, <2>2, SpreadOnce
<1>7. CellCount(view, ratio) = ratio * T
  <2>1. CellCount(view, ratio) = 1 * ratio * T * 1 BY DEF CellCount, Paged
  <2> QED BY <1>1, <2>1
<1> QED BY <1>3, <1>5, <1>6, <1>7 DEF MajorBlocks, Counted, Paged

(* A tensor of which every layer keeps its blocks a page apart: one with a  *)
(* layer that has no K/V first, or any if there are Mamba layers.           *)
Hybrid(kinds) == \E l \in Layers : Mamba(kinds[l])

PagedTensor(kinds, tensor, t) ==
  Hybrid(kinds) \/ \E l \in Layers : tensor[l] = t /\ kinds[l].shape # "kvFirst"

(* A standard layer's own order.                                            *)
LEMMA StandardOrder ==
  ASSUME NEW kind, Standard(kind)
  PROVE  IF kind.shape = "blockFirst" THEN PhysicalOrder(kind) \in BlockMajorOrders
                                      ELSE PhysicalOrder(kind) \in KvMajorOrders
<1>1. /\ Preference[1] = <<"block", "kv", "head", "token">>
      /\ Preference[2] = <<"block", "kv", "token", "head">>
      /\ Preference[3] = <<"kv", "block", "head", "token">>
      /\ Preference[4] = <<"kv", "block", "token", "head">>
  BY DEF Preference
<1>2. CASE kind.shape = "blockFirst"
  <2>1. PublicOrder(kind) = <<"block", "kv", "token", "head">> BY <1>2 DEF PublicOrder
  <2>2. Swapped(PublicOrder(kind)) = <<"block", "kv", "head", "token">> BY <2>1 DEF Swapped
  <2> QED BY <1>1, <1>2, <2>1, <2>2 DEF PhysicalOrder, BlockMajorOrders
<1>3. CASE kind.shape = "kvFirst"
  <2>1. PublicOrder(kind) = <<"kv", "block", "token", "head">> BY <1>3 DEF PublicOrder
  <2>2. Swapped(PublicOrder(kind)) = <<"kv", "block", "head", "token">> BY <2>1 DEF Swapped
  <2> QED BY <1>1, <1>3, <2>1, <2>2 DEF PhysicalOrder, KvMajorOrders
<1> QED BY <1>2, <1>3 DEF Standard

(* The layers of a tensor take a block-major order as soon as one has it.   *)
LEMMA SharedOrderIs ==
  ASSUME NEW kinds, NEW tensor, NEW l \in Layers, Standard(kinds[l])
  PROVE  IF \E k \in Layers : tensor[k] = tensor[l] /\ kinds[k].shape = "blockFirst"
         THEN SharedOrder(kinds, tensor, l) \in BlockMajorOrders
         ELSE SharedOrder(kinds, tensor, l) \in KvMajorOrders
<1> DEFINE orders == PhysicalOrders(kinds, tensor, tensor[l])
           First(i) == /\ Preference[i] \in orders
                       /\ \A j \in 1 .. i - 1 : Preference[j] \notin orders
           first == CHOOSE i \in DOMAIN Preference : First(i)
           some == \E k \in Layers : tensor[k] = tensor[l] /\ kinds[k].shape = "blockFirst"
<1>1. DOMAIN Preference = 1 .. 4 BY DEF Preference
<1>2. \A o : o \in orders <=> \E k \in Layers : tensor[k] = tensor[l] /\ Standard(kinds[k])
                                                 /\ o = PhysicalOrder(kinds[k])
  BY DEF PhysicalOrders
<1>3. PhysicalOrder(kinds[l]) \in orders BY <1>2
<1>4. \A o \in orders : o \in BlockMajorOrders \cup KvMajorOrders BY <1>2, StandardOrder
<1>5. BlockMajorOrders = {Preference[1], Preference[2]} /\ KvMajorOrders = {Preference[3], Preference[4]}
  BY DEF BlockMajorOrders, KvMajorOrders
<1>6. SharedOrder(kinds, tensor, l) = Preference[first] BY DEF SharedOrder
<1>7. \A i \in 1 .. 4 : i = 1 \/ i = 2 \/ i = 3 \/ i = 4 OBVIOUS
<1>8. \E i \in 1 .. 4 : First(i)
  <2>1. \E i \in 1 .. 4 : Preference[i] \in orders BY <1>3, <1>4, <1>5
  <2>2. 1 .. 1 - 1 = {} /\ 1 .. 2 - 1 = {1} /\ 1 .. 3 - 1 = {1, 2} /\ 1 .. 4 - 1 = {1, 2, 3} OBVIOUS
  <2> HIDE DEF orders
  <2>3. CASE Preference[1] \in orders
    <3>1. First(1) BY <2>2, <2>3
    <3> QED BY <3>1
  <2>4. CASE Preference[1] \notin orders /\ Preference[2] \in orders
    <3>1. First(2) BY <2>2, <2>4
    <3> QED BY <3>1
  <2>5. CASE Preference[1] \notin orders /\ Preference[2] \notin orders /\ Preference[3] \in orders
    <3>1. First(3) BY <2>2, <2>5
    <3> QED BY <3>1
  <2>6. CASE /\ Preference[1] \notin orders /\ Preference[2] \notin orders
             /\ Preference[3] \notin orders /\ Preference[4] \in orders
    <3>1. First(4) BY <2>2, <2>6
    <3> QED BY <3>1
  <2> QED BY <1>7, <2>1, <2>3, <2>4, <2>5, <2>6
<1>9. first \in 1 .. 4 /\ First(first)
  <2> HIDE DEF First
  <2> QED BY <1>1, <1>8, Zenon
<1> HIDE DEF first
<1>10. CASE some
  <2>1. PICK k \in Layers : tensor[k] = tensor[l] /\ kinds[k].shape = "blockFirst" BY <1>10
  <2>2. Standard(kinds[k]) BY <2>1 DEF Standard
  <2>3. PhysicalOrder(kinds[k]) \in orders BY <1>2, <2>1, <2>2
  <2>4. PhysicalOrder(kinds[k]) \in BlockMajorOrders BY <2>1, <2>2, StandardOrder
  <2>5. Preference[1] \in orders \/ Preference[2] \in orders BY <1>5, <2>3, <2>4
  <2> HIDE DEF orders
  <2>6. ~(first >= 3)
    <3> SUFFICES ASSUME first >= 3 PROVE FALSE OBVIOUS
    <3>1. 1 \in 1 .. first - 1 /\ 2 \in 1 .. first - 1 BY <1>9
    <3> QED BY <1>9, <2>5, <3>1
  <2>7. first = 1 \/ first = 2 BY <1>7, <1>9, <2>6
  <2> QED BY <1>5, <1>6, <1>10, <2>7
<1>11. CASE ~some
  <2>1. Preference[first] \in orders BY <1>9
  <2>2. PICK k \in Layers : tensor[k] = tensor[l] /\ Standard(kinds[k])
                            /\ Preference[first] = PhysicalOrder(kinds[k])
    BY <1>2, <2>1
  <2>3. kinds[k].shape # "blockFirst" BY <1>11, <2>2
  <2>4. PhysicalOrder(kinds[k]) \in KvMajorOrders BY <2>2, <2>3, StandardOrder
  <2> QED BY <1>6, <1>11, <2>2, <2>4
<1> QED BY <1>10, <1>11

(* A division without remainder.                                            *)
LEMMA DivExact ==
  ASSUME NEW a \in Nat, NEW b \in Nat \ {0}, a % b = 0
  PROVE  a \div b \in Nat /\ a = b * (a \div b)
<1>1. a = b * (a \div b) + (a % b) /\ a \div b \in Nat OBVIOUS
<1> DEFINE d == a \div b
           bd == b * d
<1>2. d \in Nat /\ a = bd + 0 /\ bd \in Nat BY <1>1
<1> HIDE DEF bd, d
<1>3. a = bd BY <1>2
<1> QED BY <1>2, <1>3 DEF bd, d

(* The sizes of a view: what it has in a page is what a page holds.         *)
LEMMA SizesAre ==
  ASSUME NEW kind, PageFits(kind), NEW blocks \in Nat \ {0}
  PROVE  /\ \A d \in Dims : Sizes(kind, blocks)[d] \in Nat
         /\ Sizes(kind, blocks)["block"] = blocks * kind.ratio
         /\ Standard(kind) =>
              /\ Sizes(kind, blocks)["kv"] = 2
              /\ Page = 2 * (kind.ratio * (Sizes(kind, blocks)["token"] * Sizes(kind, blocks)["head"]))
         /\ ~Standard(kind) =>
              /\ Sizes(kind, blocks)["kv"] = 1 /\ Sizes(kind, blocks)["head"] = 1
              /\ Page \div kind.ratio \in Nat /\ kind.ratio * (Page \div kind.ratio) = Page
              /\ Sizes(kind, blocks)["token"] <= Page \div kind.ratio
<1> DEFINE z == Sizes(kind, blocks)
           r == kind.ratio
<1>1. Page \in Nat \ {0} /\ Heads \in Nat \ {0} BY KvLayoutAssumption
<1>2. r \in Nat \ {0} BY DEF PageFits
<1>3. /\ z["kv"] = (IF Standard(kind) THEN 2 ELSE 1)
      /\ z["block"] = blocks * r
      /\ z["head"] = (IF Standard(kind) THEN Heads ELSE 1)
      /\ z["token"] = IF Standard(kind) THEN Page \div (2 * Heads * r)
                      ELSE IF kind.padded \/ Mamba(kind) THEN Page - 1 ELSE Page \div r
  BY DEF Sizes, Dims
<1>4. blocks * r \in Nat BY <1>2
<1>5. \A d \in Dims : d = "kv" \/ d = "block" \/ d = "head" \/ d = "token" BY DEF Dims
<1> HIDE DEF z
<1>6. CASE Standard(kind)
  <2> DEFINE b == 2 * Heads * r
             T == Page \div b
  <2>1. b \in Nat \ {0} BY <1>1, <1>2
  <2>2. Page % b = 0 BY <1>6 DEF PageFits
  <2>3. T \in Nat /\ Page = b * T BY <1>1, <2>1, <2>2, DivExact
  <2> HIDE DEF T
  <2>4. b * T = 2 * (r * (T * Heads)) BY <1>1, <1>2, <2>3
  <2>5. z["token"] = T /\ z["head"] = Heads /\ z["kv"] = 2 BY <1>3, <1>6 DEF T
  <2>6. \A d \in Dims : z[d] \in Nat BY <1>1, <1>3, <1>4, <1>5, <2>3, <2>5
  <2> QED BY <1>3, <1>6, <2>3, <2>4, <2>5, <2>6 DEF z
<1>7. CASE ~Standard(kind) /\ (kind.padded \/ Mamba(kind))
  <2>1. r = 1 BY <1>7 DEF PageFits
  <2>2. Page \div 1 = Page BY <1>1
  <2>3. z["token"] = Page - 1 /\ z["head"] = 1 /\ z["kv"] = 1 BY <1>3, <1>7
  <2>4. r * (Page \div r) = Page BY <1>1, <2>1, <2>2
  <2>5. \A d \in Dims : z[d] \in Nat BY <1>1, <1>3, <1>4, <1>5, <2>3
  <2> QED BY <1>1, <1>3, <1>7, <2>1, <2>2, <2>3, <2>4, <2>5 DEF z
<1>8. CASE ~Standard(kind) /\ ~(kind.padded \/ Mamba(kind))
  <2>1. Page % r = 0 BY <1>8 DEF PageFits
  <2>2. Page \div r \in Nat /\ Page = r * (Page \div r) BY <1>1, <1>2, <2>1, DivExact
  <2>3. z["token"] = Page \div r /\ z["head"] = 1 /\ z["kv"] = 1 BY <1>3, <1>8
  <2>4. \A d \in Dims : z[d] \in Nat BY <1>3, <1>4, <1>5, <2>2, <2>3
  <2> QED BY <1>3, <1>8, <2>2, <2>3, <2>4 DEF z
<1> QED BY <1>6, <1>7, <1>8

(* How the layers of a tensor see it.                                       *)
BlockForm(kinds, tensor, l, blocks, view) ==
  /\ IsView(view)
  /\ IF PagedTensor(kinds, tensor, tensor[l]) THEN MajorBlocks(view, kinds[l].ratio)
                                              ELSE SplitBlocks(view, kinds[l].ratio, blocks)

(* A standard layer's view.                                                 *)
LEMMA StandardViews ==
  ASSUME NEW kinds, NEW tensor, LayersFit(kinds, tensor), NEW blocks \in Nat \ {0},
         NEW l \in Layers, Standard(kinds[l]), NEW view, view = Views(kinds, tensor, blocks)[l]
  PROVE  BlockForm(kinds, tensor, l, blocks, view)
<1> DEFINE kind == kinds[l]
           z == Sizes(kind, blocks)
           order == SharedOrder(kinds, tensor, l)
           base == View(kinds, tensor, l, blocks)
           W == z["token"] * z["head"]
           t == tensor[l]
<1>0. PageFits(kind) /\ kind.shape \in {"kvFirst", "blockFirst", "mla", "mamba"} BY DEF LayersFit
<1>1. /\ \A d \in Dims : z[d] \in Nat
      /\ z["block"] = blocks * kind.ratio /\ z["kv"] = 2 /\ Page = 2 * (kind.ratio * W)
  BY <1>0, SizesAre
<1>2. base.size = z /\ base.stride = ContiguousStrides(order, z)
  BY DEF View
<1>3. order \in BlockMajorOrders \cup KvMajorOrders BY SharedOrderIs
<1>4. /\ order \in BlockMajorOrders => BlockMajor(base)
      /\ order \in KvMajorOrders => KvMajor(base)
  BY <1>1, <1>2, <1>3, OrderedStrides
<1>5. kind.ratio \in Nat BY <1>0 DEF PageFits
<1>6. "token" \in Dims /\ "head" \in Dims /\ "block" \in Dims /\ "kv" \in Dims BY DEF Dims
<1>7. z["token"] \in Nat /\ z["head"] \in Nat /\ z["block"] \in Nat BY <1>1, <1>6
<1>8. W \in Nat /\ 2 * W \in Nat /\ z["block"] * W \in Nat BY <1>7
<1>9. RowCells(base) = W BY <1>2 DEF RowCells
<1>10. \A d \in Dims : d = "kv" \/ d = "block" \/ d = "head" \/ d = "token" BY DEF Dims
<1>11. InnerStrides(base) BY <1>3, <1>4 DEF BlockMajor, KvMajor
<1>12. base.stride["token"] \in Nat /\ base.stride["head"] \in Nat
  BY <1>2, <1>7, <1>11 DEF InnerStrides
<1>13. Views(kinds, tensor, blocks)[l]
         = IF Hybrid(kinds) /\ kind.shape = "kvFirst" THEN Interleaved(base) ELSE base
  BY DEF Views, Hybrid
<1> HIDE DEF z, base, order, W
<1>14. CASE Hybrid(kinds) /\ kind.shape = "kvFirst"
  <2>1. view = [base EXCEPT !.stride["kv"] = base.size["token"] * base.size["head"],
                            !.stride["block"] = 2 * (base.size["token"] * base.size["head"])]
    BY <1>13, <1>14 DEF Interleaved
  <2>2. base.size["token"] * base.size["head"] = W BY <1>2 DEF W
  <2>3. /\ DOMAIN base = {"size", "stride"} /\ DOMAIN base.stride = Dims
    BY StridesAre DEF base, View
  <2>4. view.size = z /\ view.stride["kv"] = W /\ view.stride["block"] = 2 * W
        /\ view.stride["token"] = base.stride["token"] /\ view.stride["head"] = base.stride["head"]
    BY <1>2, <1>6, <2>1, <2>2, <2>3
  <2>5. RowCells(view) = W BY <2>4 DEF RowCells, W
  <2>6. BlockMajor(view) BY <1>1, <1>2, <1>11, <2>4, <2>5 DEF BlockMajor, InnerStrides
  <2>7. IsView(view)
    <3>1. \A d \in Dims : view.size[d] \in Nat BY <1>1, <2>4
    <3>2. \A d \in Dims : view.stride[d] \in Nat BY <1>8, <1>10, <1>12, <2>4
    <3> QED BY <3>1, <3>2 DEF IsView
  <2>8. MajorBlocks(view, kind.ratio) BY <1>1, <1>5, <2>5, <2>6, <2>7, BlockMajorBlocks
  <2>9. PagedTensor(kinds, tensor, t) BY <1>14 DEF PagedTensor
  <2> QED BY <2>7, <2>8, <2>9 DEF BlockForm
<1>15. CASE ~(Hybrid(kinds) /\ kind.shape = "kvFirst")
  <2>1. view = base BY <1>13, <1>15
  <2>2. CASE order \in BlockMajorOrders
    <3>1. BlockMajor(base) BY <1>4, <2>2
    <3>2. IsView(base)
      <4>1. base.stride["kv"] = W /\ base.stride["block"] = 2 * W BY <1>9, <3>1 DEF BlockMajor
      <4>2. \A d \in Dims : base.stride[d] \in Nat BY <1>8, <1>10, <1>12, <4>1
      <4> QED BY <1>1, <1>2, <4>2 DEF IsView
    <3>3. MajorBlocks(base, kind.ratio) BY <1>1, <1>5, <1>9, <3>1, <3>2, BlockMajorBlocks
    <3>4. order \notin KvMajorOrders BY <2>2 DEF BlockMajorOrders, KvMajorOrders, Preference
    <3>5. \E k \in Layers : tensor[k] = t /\ kinds[k].shape = "blockFirst"
      BY <3>4, SharedOrderIs DEF order
    <3>6. PagedTensor(kinds, tensor, t) BY <3>5 DEF PagedTensor
    <3> QED BY <2>1, <3>2, <3>3, <3>6 DEF BlockForm
  <2>3. CASE order \in KvMajorOrders
    <3>1. KvMajor(base) BY <1>4, <2>3
    <3>2. IsView(base)
      <4>1. base.stride["kv"] = z["block"] * W /\ base.stride["block"] = W
        BY <1>2, <1>9, <3>1 DEF KvMajor
      <4>2. \A d \in Dims : base.stride[d] \in Nat BY <1>8, <1>10, <1>12, <4>1
      <4> QED BY <1>1, <1>2, <4>2 DEF IsView
    <3>3. SplitBlocks(base, kind.ratio, blocks) BY <1>1, <1>2, <1>5, <1>9, <3>1, <3>2, KvMajorBlocks
    <3>4. order \notin BlockMajorOrders BY <2>3 DEF BlockMajorOrders, KvMajorOrders, Preference
    <3>5. \A k \in Layers : tensor[k] = t => kinds[k].shape # "blockFirst"
      BY <3>4, SharedOrderIs DEF order
    <3>6. kind.shape = "kvFirst" /\ ~Hybrid(kinds) BY <1>15, <3>5 DEF Standard
    <3>7. \A k \in Layers : tensor[k] = t => kinds[k].shape = "kvFirst"
      BY <3>5, <3>6 DEF LayersFit, Hybrid, Mamba
    <3>8. ~PagedTensor(kinds, tensor, t) BY <3>6, <3>7 DEF PagedTensor
    <3> QED BY <2>1, <3>2, <3>3, <3>8 DEF BlockForm
  <2> QED BY <1>3, <2>2, <2>3
<1> QED BY <1>14, <1>15

(* The view of a layer without a K/V dimension.                             *)
LEMMA PagedViews ==
  ASSUME NEW kinds, NEW tensor, LayersFit(kinds, tensor), NEW blocks \in Nat \ {0},
         NEW l \in Layers, ~Standard(kinds[l]), NEW view, view = Views(kinds, tensor, blocks)[l]
  PROVE  BlockForm(kinds, tensor, l, blocks, view)
<1> DEFINE kind == kinds[l]
           z == Sizes(kind, blocks)
<1>0. PageFits(kind) /\ kind.shape # "kvFirst" BY DEF LayersFit, Standard
<1>1. /\ \A d \in Dims : z[d] \in Nat
      /\ z["kv"] = 1 /\ z["head"] = 1
      /\ Page \div kind.ratio \in Nat /\ kind.ratio * (Page \div kind.ratio) = Page
      /\ z["token"] <= Page \div kind.ratio
  BY <1>0, SizesAre
<1>2. kind.ratio \in Nat BY <1>0 DEF PageFits
<1>3. view = View(kinds, tensor, l, blocks) BY <1>0 DEF Views
<1>4. view.size = z /\ view.stride = PagedStrides(z, kind) BY <1>3 DEF View
<1>5. \A d \in Dims : d = "kv" \/ d = "block" \/ d = "head" \/ d = "token" BY DEF Dims
<1> HIDE DEF z
<1>6. /\ view.stride["block"] = Page \div kind.ratio /\ view.stride["kv"] = 0
      /\ view.stride["token"] = 1 /\ view.stride["head"] = 1
  BY <1>1, <1>4 DEF PagedStrides, Dims
<1>7. IsView(view) BY <1>1, <1>4, <1>5, <1>6 DEF IsView
<1>8. Paged(view, kind.ratio) BY <1>1, <1>4, <1>6 DEF Paged
<1>9. MajorBlocks(view, kind.ratio) BY <1>2, <1>7, <1>8, PagedBlocks
<1>10. PagedTensor(kinds, tensor, tensor[l]) BY <1>0 DEF PagedTensor
<1> QED BY <1>7, <1>9, <1>10 DEF BlockForm

(* Where the blocks of a tensor's layers are.                               *)
BlockSpan(kinds, tensor, t, blocks, b) ==
  IF PagedTensor(kinds, tensor, t) THEN b * Page .. b * Page + Page - 1
  ELSE LET half == Page \div 2
       IN  (b * half .. b * half + half - 1)
             \cup (blocks * half + b * half .. blocks * half + b * half + half - 1)

(* The spans of two blocks are apart, and in the tensor.                    *)
LEMMA Multiples ==
  ASSUME NEW w \in Nat, NEW b \in Nat, NEW c \in Nat, b < c
  PROVE  b * w \in Nat /\ c * w \in Nat /\ b * w + w <= c * w
<1>1. PICK e \in Nat : c = b + 1 + e
  <2>1. c - b - 1 \in Nat /\ c = b + 1 + (c - b - 1) OBVIOUS
  <2> QED BY <2>1
<1>2. c * w = b * w + w + e * w BY <1>1
<1>3. b * w \in Nat /\ e * w \in Nat OBVIOUS
<1> DEFINE bw == b * w
           ew == e * w
<1>4. c * w = bw + w + ew /\ bw \in Nat /\ ew \in Nat BY <1>2, <1>3
<1> HIDE DEF bw, ew
<1>5. c * w \in Nat /\ bw + w <= c * w BY <1>4
<1> QED BY <1>4, <1>5 DEF bw

(* Blocks of a tensor have spans apart from each other.                     *)
LEMMA SpansApart ==
  ASSUME NEW kinds, NEW tensor, NEW t, NEW blocks \in Nat,
         NEW b \in 0 .. blocks - 1, NEW c \in 0 .. blocks - 1, b < c
  PROVE  BlockSpan(kinds, tensor, t, blocks, b) \cap BlockSpan(kinds, tensor, t, blocks, c) = {}
<1>1. Page \in Nat BY KvLayoutAssumption
<1>2. b \in Nat /\ c \in Nat OBVIOUS
<1>3. CASE PagedTensor(kinds, tensor, t)
  <2> DEFINE x == b * Page
             y == c * Page
  <2>1. x \in Nat /\ y \in Nat /\ x + Page <= y BY <1>1, <1>2, Multiples
  <2>2. /\ BlockSpan(kinds, tensor, t, blocks, b) = x .. x + Page - 1
        /\ BlockSpan(kinds, tensor, t, blocks, c) = y .. y + Page - 1
    BY <1>3 DEF BlockSpan
  <2> HIDE DEF x, y
  <2>3. (x .. x + Page - 1) \cap (y .. y + Page - 1) = {} BY <1>1, <2>1
  <2> QED BY <2>2, <2>3
<1>4. CASE ~PagedTensor(kinds, tensor, t)
  <2> DEFINE half == Page \div 2
             x == b * half
             y == c * half
             m == blocks * half
  <2>1. half \in Nat BY <1>1
  <2>2. /\ BlockSpan(kinds, tensor, t, blocks, b) = (x .. x + half - 1) \cup (m + x .. m + x + half - 1)
        /\ BlockSpan(kinds, tensor, t, blocks, c) = (y .. y + half - 1) \cup (m + y .. m + y + half - 1)
    BY <1>4 DEF BlockSpan
  <2> HIDE DEF half
  <2>3. x \in Nat /\ y \in Nat /\ x + half <= y BY <1>2, <2>1, Multiples
  <2>4. c < blocks OBVIOUS
  <2>5. m \in Nat /\ y + half <= m BY <1>2, <2>1, <2>4, Multiples
  <2> HIDE DEF x, y, m
  <2>6. ((x .. x + half - 1) \cup (m + x .. m + x + half - 1))
          \cap ((y .. y + half - 1) \cup (m + y .. m + y + half - 1)) = {}
    BY <2>1, <2>3, <2>5
  <2> QED BY <2>2, <2>6
<1> QED BY <1>3, <1>4

(* None is past the tensor's end.                                           *)
LEMMA SpansInTensor ==
  ASSUME NEW kinds, NEW tensor, NEW t, NEW blocks \in Nat, NEW b \in 0 .. blocks - 1,
         ~PagedTensor(kinds, tensor, t) => Page % 2 = 0
  PROVE  BlockSpan(kinds, tensor, t, blocks, b) \subseteq 0 .. Page * blocks - 1
<1>1. Page \in Nat BY KvLayoutAssumption
<1>2. b \in Nat /\ b < blocks OBVIOUS
<1>3. CASE PagedTensor(kinds, tensor, t)
  <2> DEFINE x == b * Page
             y == blocks * Page
  <2>1. x \in Nat /\ y \in Nat /\ x + Page <= y BY <1>1, <1>2, Multiples
  <2>2. BlockSpan(kinds, tensor, t, blocks, b) = x .. x + Page - 1 BY <1>3 DEF BlockSpan
  <2>3. Page * blocks = y BY <1>1
  <2> HIDE DEF x, y
  <2>4. x .. x + Page - 1 \subseteq 0 .. y - 1 BY <1>1, <2>1
  <2> QED BY <2>2, <2>3, <2>4
<1>4. CASE ~PagedTensor(kinds, tensor, t)
  <2> DEFINE half == Page \div 2
             x == b * half
             m == blocks * half
  <2>1. half \in Nat /\ Page = 2 * half BY <1>1, <1>4
  <2>2. BlockSpan(kinds, tensor, t, blocks, b) = (x .. x + half - 1) \cup (m + x .. m + x + half - 1)
    BY <1>4 DEF BlockSpan
  <2> HIDE DEF half
  <2>3. x \in Nat /\ m \in Nat /\ x + half <= m BY <1>2, <2>1, Multiples
  <2>4. Page * blocks = 2 * m BY <2>1
  <2> HIDE DEF x, m
  <2>5. (x .. x + half - 1) \cup (m + x .. m + x + half - 1) \subseteq 0 .. 2 * m - 1
    BY <2>1, <2>3
  <2> QED BY <2>2, <2>4, <2>5
<1> QED BY <1>3, <1>4

(* Every layer of a tensor has its blocks within those spans.               *)
InSpan(kinds, tensor, l, blocks, view, b) ==
  /\ Cells(view, kinds[l].ratio, b) \subseteq BlockSpan(kinds, tensor, tensor[l], blocks, b)
  /\ Cardinality(Cells(view, kinds[l].ratio, b)) = CellCount(view, kinds[l].ratio)
  /\ ~PagedTensor(kinds, tensor, tensor[l]) => Page % 2 = 0

(* In both forms.                                                           *)
LEMMA CellsInSpan ==
  ASSUME NEW kinds, NEW tensor, LayersFit(kinds, tensor), NEW blocks \in Nat \ {0},
         NEW l \in Layers, NEW b \in 0 .. blocks - 1
  PROVE  InSpan(kinds, tensor, l, blocks, Views(kinds, tensor, blocks)[l], b)
<1> DEFINE view == Views(kinds, tensor, blocks)[l]
<1> SUFFICES InSpan(kinds, tensor, l, blocks, view, b) OBVIOUS
<1>0. view = Views(kinds, tensor, blocks)[l] OBVIOUS
<1> HIDE DEF view
<1> DEFINE r == kinds[l].ratio
           C == FirstCells(view, r)
           at == b * (r * view.stride["block"])
           paged == PagedTensor(kinds, tensor, tensor[l])
<1>1. BlockForm(kinds, tensor, l, blocks, view) BY <1>0, StandardViews, PagedViews
<1>2. Page \in Nat /\ b \in Nat BY KvLayoutAssumption
<1>3. r \in Nat BY DEF LayersFit, PageFits
<1>4. IsView(view) BY <1>1 DEF BlockForm
<1>5. Cells(view, r, b) = Shifted(at, C) BY <1>2, <1>3, <1>4, CellsShifted
<1>6. CASE paged
  <2>1. r * view.stride["block"] = Page /\ C \subseteq 0 .. Page - 1 /\ Counted(view, r)
    BY <1>1, <1>6 DEF BlockForm, MajorBlocks
  <2> DEFINE x == b * Page
  <2>2. at = x /\ x \in Nat BY <1>2, <2>1
  <2>3. C \in SUBSET Nat BY <1>2, <2>1
  <2>4. BlockSpan(kinds, tensor, tensor[l], blocks, b) = x .. x + Page - 1
    BY <1>6 DEF BlockSpan
  <2> HIDE DEF x, at, C
  <2>5. Shifted(x, C) \subseteq x .. x + Page - 1
    <3>1. ASSUME NEW c \in Shifted(x, C) PROVE c \in x .. x + Page - 1
      <4>1. PICK y \in C : c = x + y BY <3>1 DEF Shifted
      <4>2. y \in 0 .. Page - 1 BY <2>1 DEF C
      <4> QED BY <1>2, <2>2, <4>1, <4>2
    <3> QED BY <3>1
  <2>6. Cardinality(Shifted(x, C)) = Cardinality(C)
    BY <2>1, <2>2, <2>3, ShiftedCounts DEF Counted, C
  <2> QED BY <1>5, <1>6, <2>1, <2>2, <2>4, <2>5, <2>6 DEF Counted, C, InSpan
<1>7. CASE ~paged
  <2>1. PICK half \in Nat :
          /\ Page = 2 * half /\ r * view.stride["block"] = half
          /\ C \subseteq (0 .. half - 1) \cup (blocks * half .. blocks * half + half - 1)
          /\ Counted(view, r)
    BY <1>1, <1>7 DEF BlockForm, SplitBlocks
  <2> DEFINE x == b * half
             m == blocks * half
  <2>2. at = x /\ x \in Nat /\ m \in Nat BY <1>2, <2>1
  <2>3. Page \div 2 = half /\ Page % 2 = 0 BY <2>1
  <2>4. BlockSpan(kinds, tensor, tensor[l], blocks, b) = (x .. x + half - 1) \cup (m + x .. m + x + half - 1)
    BY <1>7, <2>3 DEF BlockSpan
  <2>5. C \subseteq (0 .. half - 1) \cup (m .. m + half - 1) BY <2>1
  <2> HIDE DEF x, at, C, m
  <2>6. \A y \in C : y \in Nat BY <2>1, <2>2, <2>5
  <2>7. C \in SUBSET Nat BY <2>6
  <2>8. Shifted(x, C) \subseteq (x .. x + half - 1) \cup (m + x .. m + x + half - 1)
    <3>1. ASSUME NEW c \in Shifted(x, C)
          PROVE  c \in (x .. x + half - 1) \cup (m + x .. m + x + half - 1)
      <4>1. PICK y \in C : c = x + y BY <3>1 DEF Shifted
      <4>2. y \in 0 .. half - 1 \/ y \in m .. m + half - 1 BY <2>5
      <4> QED BY <2>1, <2>2, <4>1, <4>2
    <3> QED BY <3>1
  <2>9. Cardinality(Shifted(x, C)) = Cardinality(C)
    BY <2>1, <2>2, <2>7, ShiftedCounts DEF Counted, C
  <2> QED BY <1>5, <1>7, <2>1, <2>2, <2>3, <2>4, <2>8, <2>9 DEF Counted, C, InSpan
<1> QED BY <1>6, <1>7

(* The views of the KV cache in use are those of its blocks.                *)
BlocksOf(which) == IF which = "probe" THEN ProbeBlocks ELSE Blocks

ViewsInv ==
  /\ engine \in Engines
  /\ kv \in {None, "probe", "real"}
  /\ kv # None => views = Views(engine.kinds, engine.tensor, BlocksOf(kv))

(* Every step keeps the views of the KV cache in use.                       *)
LEMMA ViewsInvInductive ==
  ASSUME ViewsInv, [Next]_vars
  PROVE  ViewsInv'
<1> USE DEF ViewsInv, caches
<1>1. CASE Load BY <1>1 DEF Load
<1>2. CASE ProfileRun BY <1>2 DEF ProfileRun
<1>3. CASE StartProbe
  BY <1>3, StartupAssumption DEF StartProbe, InitializeKvCache, BlocksOf
<1>4. CASE CaptureOne BY <1>4 DEF CaptureOne
<1>5. CASE FinishProbe BY <1>5 DEF FinishProbe, CleanupProbe, CleanupKvCache
<1>6. CASE FailProbe BY <1>6 DEF FailProbe, CleanupProbe, CleanupKvCache
<1>7. CASE InitKvCache
  BY <1>7, StartupAssumption DEF InitKvCache, InitializeKvCache, BlocksOf
<1>8. CASE StartCapture BY <1>8 DEF StartCapture
<1>9. CASE FinishCapture BY <1>9 DEF FinishCapture
<1>10. CASE Encode BY <1>10 DEF Encode
<1>11. CASE ReloadWeights BY <1>11 DEF ReloadWeights
<1>12. CASE Shutdown BY <1>12 DEF Shutdown, CleanupKvCache
<1>13. CASE UNCHANGED vars BY <1>13 DEF vars
<1> QED
  BY <1>1, <1>2, <1>3, <1>4, <1>5, <1>6, <1>7, <1>8, <1>9, <1>10, <1>11, <1>12, <1>13 DEF Next

(* And they keep its blocks apart.                                          *)
LEMMA ViewsInvDisjoint ==
  ASSUME ViewsInv
  PROVE  BlocksDisjoint
<1> SUFFICES ASSUME kv # None PROVE BlocksDisjoint BY DEF BlocksDisjoint
<1> DEFINE n == BlocksOf(kv)
           blocks == 0 .. n - 1
           kinds == engine.kinds
           tensor == engine.tensor
           At(l, b) == Cells(views[l], kinds[l].ratio, b)
           Span(l, b) == BlockSpan(kinds, tensor, tensor[l], n, b)
<1>1. n \in Nat \ {0} BY StartupAssumption DEF BlocksOf
<1>2. LayersFit(kinds, tensor) BY EnginesAssumption DEF ViewsInv
<1>3. views = Views(kinds, tensor, n) BY DEF ViewsInv
<1>4. Cardinality(blocks) = n BY <1>1, WholeCounts
<1>5. ASSUME NEW l \in Layers, NEW b \in blocks
      PROVE  /\ At(l, b) \subseteq Span(l, b)
             /\ Cardinality(At(l, b)) = CellCount(views[l], kinds[l].ratio)
             /\ Span(l, b) \subseteq 0 .. Page * Cardinality(blocks) - 1
  <2>1. InSpan(kinds, tensor, l, n, Views(kinds, tensor, n)[l], b) BY <1>1, <1>2, CellsInSpan
  <2>2. InSpan(kinds, tensor, l, n, views[l], b) BY <1>3, <2>1
  <2> HIDE DEF n, kinds, tensor
  <2>3. At(l, b) \subseteq Span(l, b) /\ Cardinality(At(l, b)) = CellCount(views[l], kinds[l].ratio)
    BY <2>2 DEF InSpan
  <2>4. ~PagedTensor(kinds, tensor, tensor[l]) => Page % 2 = 0 BY <2>2 DEF InSpan
  <2>5. Span(l, b) \subseteq 0 .. Page * n - 1 BY <1>1, <2>4, SpansInTensor
  <2> QED BY <1>4, <2>3, <2>5
<1>6. ASSUME NEW l \in Layers, NEW m \in Layers, tensor[l] = tensor[m],
             NEW b \in blocks, NEW c \in blocks, b # c
      PROVE  At(l, b) \cap At(m, c) = {}
  <2>1. At(l, b) \subseteq Span(l, b) /\ At(m, c) \subseteq Span(m, c) BY <1>5
  <2>2. Span(m, c) = Span(l, c) BY <1>6
  <2> HIDE DEF n
  <2>3. b < c \/ c < b BY <1>1, <1>6
  <2>4. n \in Nat BY <1>1
  <2>5. Span(l, b) \cap Span(l, c) = {}
    <3>1. CASE b < c BY <2>4, <3>1, SpansApart
    <3>2. CASE c < b
      <4>1. Span(l, c) \cap Span(l, b) = {} BY <2>4, <3>2, SpansApart
      <4> QED BY <4>1
    <3> QED BY <2>3, <3>1, <3>2
  <2> QED BY <2>1, <2>2, <2>5
<1>7. \A l \in Layers, b \in blocks :
        /\ Cardinality(At(l, b)) = CellCount(views[l], kinds[l].ratio)
        /\ At(l, b) \subseteq 0 .. Page * Cardinality(blocks) - 1
  BY <1>5
<1>8. \A l, m \in Layers : tensor[l] = tensor[m] =>
        \A b, c \in blocks : b # c => At(l, b) \cap At(m, c) = {}
  BY <1>6
<1> QED BY <1>7, <1>8 DEF BlocksDisjoint, BlocksOf

(* Whatever the layers, their number, page, heads, orders and kernel blocks *)
(* (as long as pages hold whole ones): an element of a block, the probe's   *)
(* or a real one's, is never another block's in any layer on the tensor     *)
(* (_reshape_kv_cache_tensors).                                             *)
THEOREM BlocksAlwaysDisjoint == Spec => []BlocksDisjoint
<1>1. Init => ViewsInv BY DEF Init, ViewsInv
<1>2. ViewsInv /\ [Next]_vars => ViewsInv' BY ViewsInvInductive
<1>3. ViewsInv => BlocksDisjoint BY ViewsInvDisjoint
<1> QED BY <1>1, <1>2, <1>3, PTL DEF Spec
==============================================================================
