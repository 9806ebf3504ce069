-------------------------- MODULE DraftWindowProofs --------------------------
(***************************************************************************)
(* Theorems about the request-to-slot map and about DraftWindow.           *)
(*                                                                         *)
(* For the map alone the inductive invariant is SlotInv: types, and the    *)
(* free list and the map partition the slots.  Neither half is inductive   *)
(* alone: a slot can be handed out safely only because the free list holds *)
(* none that is mapped.                                                    *)
(*                                                                         *)
(* The engine uses the slot map only through _resolve_slots, so that what  *)
(* is established of the map alone holds under every scheduler, prefix     *)
(* cache and masking; and on top of it the windows hold what the drafts    *)
(* need, for every window size, number of requests, chunk size and block   *)
(* size.  The engine therefore implements PrivateHistory, the refinement   *)
(* that MCWindow checks on its instance.                                   *)
(*                                                                         *)
(* Apart from that, nothing leaves its range, not even where a batch is    *)
(* cut into shares that are not its requests' own rows.                    *)
(***************************************************************************)
EXTENDS DraftWindow, FiniteSetTheorems, FunctionTheorems,
        WellFoundedInduction, TLAPS

SlotInv == SlotTypeOK /\ SlotsPartition

-----------------------------------------------------------------------------
(* What _resolve_slots computes in one call, in terms of its parts.         *)

(* "No slot" can be told from every slot.                                   *)
LEMMA NoneIsNoSlot == None \notin Slots
  BY SlotMapAssumption DEF Slots

(* The rows of a batch are 1..n, its requests are distinct.                 *)
LEMMA BatchFacts ==
  ASSUME NEW b \in Batches
  PROVE  \E n \in 1 .. MaxBatchSize :
           /\ DOMAIN b = 1 .. n
           /\ b \in [1 .. n -> Reqs]
           /\ \A i, j \in 1 .. n : b[i] = b[j] => i = j
  BY DEF Batches

(* The row of a request of the batch.                                       *)
LEMMA RowOfRequest ==
  ASSUME NEW b \in Batches, NEW i \in DOMAIN b
  PROVE  (CHOOSE j \in DOMAIN b : b[j] = b[i]) = i
  BY BatchFacts

(* The reclaimed free list is what the requests that stay do not hold.      *)
LEMMA ReclaimedFacts ==
  ASSUME SlotInv, NEW b \in Batches
  PROVE  ReclaimedFree(b) = Slots \ { reqIdToSlot[r] : r \in Mapped \cap RowsOf(b) }
  <1>1. \A r \in Mapped : reqIdToSlot[r] \in Slots
    BY DEF SlotInv, SlotTypeOK, Mapped
  <1>2. ASSUME NEW s \in ReclaimedFree(b)
        PROVE  s \in Slots \ { reqIdToSlot[r] : r \in Mapped \cap RowsOf(b) }
    BY <1>1, <1>2 DEF ReclaimedFree, Stale, SlotInv, SlotsPartition, SlotsConserved, SlotsInjective
  <1>3. ASSUME NEW s \in Slots \ { reqIdToSlot[r] : r \in Mapped \cap RowsOf(b) }
        PROVE  s \in ReclaimedFree(b)
    BY <1>3 DEF ReclaimedFree, Stale, SlotInv, SlotsPartition, SlotsConserved
  <1> QED BY <1>2, <1>3

(* Ascending slots are distinct slots.                                      *)
LEMMA PopFacts ==
  ASSUME SlotInv, NEW b \in Batches,
         NEW pop \in PopLowestFirst(NewRows(b), ReclaimedFree(b))
  PROVE  /\ \A i \in NewRows(b) : pop[i] \in ReclaimedFree(b) /\ pop[i] \in Slots
         /\ \A i, j \in NewRows(b) : pop[i] = pop[j] => i = j
  <1>1. PICK n \in 1 .. MaxBatchSize : DOMAIN b = 1 .. n
    BY BatchFacts
  <1>2. NewRows(b) \subseteq Nat
    BY <1>1, SlotMapAssumption DEF NewRows
  <1>3. ReclaimedFree(b) \subseteq Int
    BY ReclaimedFacts, SlotMapAssumption DEF Slots
  <1>4. \A i \in NewRows(b) : pop[i] \in ReclaimedFree(b) /\ pop[i] \in Slots
    BY ReclaimedFacts DEF PopLowestFirst
  <1>5. ASSUME NEW i \in NewRows(b), NEW j \in NewRows(b), pop[i] = pop[j]
        PROVE  i = j
    <2>1. /\ i < j => pop[i] < pop[j]
          /\ j < i => pop[j] < pop[i]
      BY DEF PopLowestFirst
    <2> QED BY <1>2, <1>3, <1>4, <1>5, <2>1
  <1> QED BY <1>4, <1>5

(* The map after the call: stale requests have lost their slot, mapped ones *)
(* have kept it, and the new rows have the popped slots.                    *)
LEMMA SlotAfterFacts ==
  ASSUME SlotInv, NEW b \in Batches,
         NEW pop \in PopLowestFirst(NewRows(b), ReclaimedFree(b))
  PROVE  /\ SlotAfter(b, pop) \in [Reqs -> Slots \cup {None}]
         /\ \A r \in Reqs \ RowsOf(b) : SlotAfter(b, pop)[r] = None
         /\ \A r \in Mapped \cap RowsOf(b) : SlotAfter(b, pop)[r] = reqIdToSlot[r]
         /\ \A i \in DOMAIN b \ NewRows(b) :
              b[i] \in Mapped /\ SlotAfter(b, pop)[b[i]] = reqIdToSlot[b[i]]
         /\ \A i \in NewRows(b) : SlotAfter(b, pop)[b[i]] = pop[i]
  <1>1. \A i \in DOMAIN b : b[i] \in Reqs /\ b[i] \in RowsOf(b)
    BY BatchFacts DEF RowsOf
  <1>2. \A i \in NewRows(b) : SlotAfter(b, pop)[b[i]] = pop[i]
    BY <1>1, RowOfRequest DEF SlotAfter, NewRows
  <1>3. \A i \in DOMAIN b \ NewRows(b) : b[i] \in Mapped
    BY <1>1 DEF NewRows, Mapped
  <1>4. \A r \in Mapped \cap RowsOf(b) : SlotAfter(b, pop)[r] = reqIdToSlot[r]
    BY DEF SlotAfter, Mapped
  <1>5. \A r \in Reqs \ RowsOf(b) : SlotAfter(b, pop)[r] = None
    BY DEF SlotAfter
  <1>6. ASSUME NEW r \in Reqs
        PROVE  SlotAfter(b, pop)[r] \in Slots \cup {None}
    <2>1. CASE r \notin RowsOf(b)
      BY <1>5, <2>1
    <2>2. CASE r \in Mapped \cap RowsOf(b)
      BY <1>4, <2>2 DEF SlotInv, SlotTypeOK
    <2>3. CASE r \in RowsOf(b) \ Mapped
      <3>1. PICK i \in NewRows(b) : r = b[i]
        BY <2>3 DEF RowsOf, NewRows, Mapped
      <3> QED BY <1>2, <3>1, PopFacts
    <2> QED BY <2>1, <2>2, <2>3
  <1>7. SlotAfter(b, pop) \in [Reqs -> Slots \cup {None}]
    BY <1>6 DEF SlotAfter
  <1> QED BY <1>1, <1>2, <1>3, <1>4, <1>5, <1>7

(* One call that resolves a batch: the facts the proofs below use.          *)
LEMMA ResolveFacts ==
  ASSUME NEW b \in Batches, ResolveSlots(b, Cardinality(DOMAIN b))
  PROVE  \/ UNCHANGED <<reqIdToSlot, freeSlots>> /\ activeSlotIndex' = None
         \/ \E pop \in PopLowestFirst(NewRows(b), ReclaimedFree(b)) :
              /\ reqIdToSlot' = SlotAfter(b, pop)
              /\ freeSlots' = ReclaimedFree(b) \ { pop[i] : i \in NewRows(b) }
              /\ activeSlotIndex' = SlotIndexOf(b, SlotAfter(b, pop))
  BY Zenon DEF ResolveSlots

-----------------------------------------------------------------------------
(* The inductive step.                                                      *)

(* A call of _resolve_slots keeps the types of the three fields.            *)
LEMMA ResolvePreservesType ==
  ASSUME SlotInv, NEW b \in Batches, ResolveSlots(b, Cardinality(DOMAIN b))
  PROVE  SlotTypeOK'
  <1>1. CASE UNCHANGED <<reqIdToSlot, freeSlots>> /\ activeSlotIndex' = None
    BY <1>1 DEF SlotInv, SlotTypeOK
  <1>2. ASSUME NEW pop \in PopLowestFirst(NewRows(b), ReclaimedFree(b)),
               reqIdToSlot' = SlotAfter(b, pop),
               freeSlots' = ReclaimedFree(b) \ { pop[i] : i \in NewRows(b) },
               activeSlotIndex' = SlotIndexOf(b, SlotAfter(b, pop))
        PROVE  SlotTypeOK'
    <2>1. reqIdToSlot' \in [Reqs -> Slots \cup {None}]
      BY <1>2, SlotAfterFacts
    <2>2. freeSlots' \in SUBSET Slots
      BY <1>2, ReclaimedFacts
    <2>3. PICK n \in 1 .. MaxBatchSize : DOMAIN b = 1 .. n
      BY BatchFacts
    <2>4. \A i \in DOMAIN b : SlotAfter(b, pop)[b[i]] \in Slots
      <3>1. \A i \in NewRows(b) : SlotAfter(b, pop)[b[i]] \in Slots
        BY SlotAfterFacts, PopFacts
      <3>2. \A i \in DOMAIN b \ NewRows(b) : SlotAfter(b, pop)[b[i]] \in Slots
        BY SlotAfterFacts DEF Mapped, SlotInv, SlotTypeOK
      <3> QED BY <3>1, <3>2
    <2>5. activeSlotIndex' = None \/ activeSlotIndex' \in [1 .. n -> Slots]
      BY <1>2, <2>3, <2>4 DEF SlotIndexOf
    <2> QED BY <2>1, <2>2, <2>5 DEF SlotTypeOK
  <1> QED BY <1>1, <1>2, ResolveFacts

(* A call keeps the map one-to-one and loses no slot: what it pops it has   *)
(* reclaimed or found free.                                                 *)
LEMMA ResolvePreservesPartition ==
  ASSUME SlotInv, NEW b \in Batches, ResolveSlots(b, Cardinality(DOMAIN b))
  PROVE  SlotsPartition'
  <1>1. CASE UNCHANGED <<reqIdToSlot, freeSlots>> /\ activeSlotIndex' = None
    BY <1>1 DEF SlotInv, SlotsPartition, SlotsInjective, SlotsConserved, Mapped
  <1>2. ASSUME NEW pop \in PopLowestFirst(NewRows(b), ReclaimedFree(b)),
               reqIdToSlot' = SlotAfter(b, pop),
               freeSlots' = ReclaimedFree(b) \ { pop[i] : i \in NewRows(b) }
        PROVE  SlotsPartition'
    <2> DEFINE kept == { reqIdToSlot[r] : r \in Mapped \cap RowsOf(b) }
               popped == { pop[i] : i \in NewRows(b) }
    <2>1. \A r \in Mapped' : \/ r \in Mapped \cap RowsOf(b) /\ reqIdToSlot'[r] = reqIdToSlot[r]
                            \/ \E i \in NewRows(b) : r = b[i] /\ reqIdToSlot'[r] = pop[i]
      <3> SUFFICES ASSUME NEW r \in Reqs, reqIdToSlot'[r] # None
                   PROVE  \/ r \in Mapped \cap RowsOf(b) /\ reqIdToSlot'[r] = reqIdToSlot[r]
                          \/ \E i \in NewRows(b) : r = b[i] /\ reqIdToSlot'[r] = pop[i]
        BY DEF Mapped
      <3>1. r \in RowsOf(b)
        BY <1>2, SlotAfterFacts
      <3>2. PICK i \in DOMAIN b : r = b[i]
        BY <3>1 DEF RowsOf
      <3>3. CASE i \in NewRows(b)
        BY <1>2, <3>2, <3>3, SlotAfterFacts
      <3>4. CASE i \notin NewRows(b)
        BY <1>2, <3>1, <3>2, <3>4, SlotAfterFacts
      <3> QED BY <3>3, <3>4
    <2>2. kept \cup popped \subseteq { reqIdToSlot'[r] : r \in Mapped' }
      <3>1. \A r \in Mapped \cap RowsOf(b) : r \in Mapped' /\ reqIdToSlot'[r] = reqIdToSlot[r]
        BY <1>2, SlotAfterFacts DEF Mapped
      <3>2. \A i \in NewRows(b) : b[i] \in Mapped' /\ reqIdToSlot'[b[i]] = pop[i]
        <4>1. \A i \in NewRows(b) : b[i] \in Reqs
          BY BatchFacts DEF NewRows
        <4> QED BY <1>2, <4>1, SlotAfterFacts, PopFacts, NoneIsNoSlot DEF Mapped
      <3> QED BY <3>1, <3>2
    <2>3. { reqIdToSlot'[r] : r \in Mapped' } = kept \cup popped
      BY <2>1, <2>2
    <2>4. freeSlots' = Slots \ (kept \cup popped)
      BY <1>2, ReclaimedFacts
    <2>5. kept \cap popped = {}
      BY ReclaimedFacts, PopFacts
    <2>6. SlotsInjective'
      <3> SUFFICES ASSUME NEW r \in Mapped', NEW q \in Mapped', reqIdToSlot'[r] = reqIdToSlot'[q]
                   PROVE  r = q
        BY DEF SlotsInjective
      <3>1. CASE r \in Mapped \cap RowsOf(b) /\ reqIdToSlot'[r] = reqIdToSlot[r]
        <4>1. reqIdToSlot'[q] \in kept
          BY <3>1
        <4>2. q \in Mapped \cap RowsOf(b) /\ reqIdToSlot'[q] = reqIdToSlot[q]
          BY <2>1, <2>5, <4>1
        <4>3. r \in Mapped /\ q \in Mapped /\ reqIdToSlot[r] = reqIdToSlot[q]
          BY <3>1, <4>2
        <4> QED BY <4>3 DEF SlotInv, SlotsPartition, SlotsInjective
      <3>2. CASE \E i \in NewRows(b) : r = b[i] /\ reqIdToSlot'[r] = pop[i]
        BY <2>1, <2>5, <3>2, PopFacts
      <3> QED BY <2>1, <3>1, <3>2
    <2> QED BY <2>3, <2>4, <2>6 DEF SlotsPartition, SlotsConserved
  <1> QED BY <1>1, <1>2, ResolveFacts

(* Every step keeps the invariant.                                          *)
LEMMA SlotInvInductive ==
  ASSUME SlotInv, [SlotMapNext]_slotVars
  PROVE  SlotInv'
  <1>1. CASE SlotMapNext
    BY <1>1, ResolvePreservesType, ResolvePreservesPartition DEF SlotMapNext, SlotInv
  <1>2. CASE UNCHANGED slotVars
    BY <1>2 DEF slotVars, SlotInv, SlotTypeOK, SlotsPartition, SlotsInjective, SlotsConserved, Mapped
  <1> QED BY <1>1, <1>2

(* At construction every slot is free and no request is mapped.             *)
LEMMA SlotInvInitially ==
  ASSUME SlotMapInit
  PROVE  SlotInv
  BY DEF SlotMapInit, SlotInv, SlotTypeOK, SlotsPartition, SlotsInjective, SlotsConserved, Mapped

(* The fields keep their types, and the free list and the map partition the *)
(* rows of main_kv_cache: no slot leaks, none is shared.                    *)
THEOREM SlotMapInvariant == SlotMapSpec => [](SlotTypeOK /\ SlotsPartition)
  <1>1. SlotMapInit => SlotInv
    BY SlotInvInitially
  <1>2. SlotInv /\ [SlotMapNext]_slotVars => SlotInv'
    BY SlotInvInductive
  <1> QED BY <1>1, <1>2, PTL DEF SlotMapSpec, SlotInv

(* No two requests ever share a slot and no slot leaks.                     *)
COROLLARY PartitionAlways == SlotMapSpec => []SlotsPartition
  BY SlotMapInvariant, PTL

-----------------------------------------------------------------------------
(* A request that two successive calls map keeps its slot.                  *)
THEOREM SlotsStickyAlways == SlotMapSpec => SlotsSticky
  <1> DEFINE Sticky ==
        \A r \in Reqs : {reqIdToSlot[r], reqIdToSlot'[r]} \subseteq Slots
                         => reqIdToSlot'[r] = reqIdToSlot[r]
  <1>1. ASSUME SlotInv, SlotMapNext
        PROVE  Sticky
    <2>1. PICK b \in Batches : ResolveSlots(b, Cardinality(DOMAIN b))
      BY <1>1 DEF SlotMapNext
    <2>2. CASE UNCHANGED <<reqIdToSlot, freeSlots>>
      BY <2>2
    <2>3. ASSUME NEW pop \in PopLowestFirst(NewRows(b), ReclaimedFree(b)),
                 reqIdToSlot' = SlotAfter(b, pop)
          PROVE  Sticky
      <3> SUFFICES ASSUME NEW r \in Reqs, reqIdToSlot[r] \in Slots, reqIdToSlot'[r] \in Slots
                   PROVE  reqIdToSlot'[r] = reqIdToSlot[r]
        OBVIOUS
      <3>1. r \in Mapped
        BY NoneIsNoSlot DEF Mapped
      <3>2. r \in RowsOf(b)
        BY <1>1, <2>3, SlotAfterFacts, NoneIsNoSlot
      <3> QED BY <1>1, <2>3, <3>1, <3>2, SlotAfterFacts
    <2> QED BY <2>1, <2>2, <2>3, ResolveFacts
  <1>2. SlotInv /\ [SlotMapNext]_slotVars => [Sticky]_slotVars
    BY <1>1
  <1>3. SlotMapInit => SlotInv
    BY SlotInvInitially
  <1>4. SlotInv /\ [SlotMapNext]_slotVars => SlotInv'
    BY SlotInvInductive
  <1> QED BY <1>2, <1>3, <1>4, PTL DEF SlotMapSpec, SlotsSticky

-----------------------------------------------------------------------------
(* As many slots are left as the held ones leave.                           *)
LEMMA CardinalityOfRest ==
  ASSUME NEW S, IsFiniteSet(S), NEW T \in SUBSET S
  PROVE  IsFiniteSet(S \ T) /\ Cardinality(S \ T) = Cardinality(S) - Cardinality(T)
  <1>1. S \cap T = T
    OBVIOUS
  <1> QED BY <1>1, FS_Difference

(* pop(0) is total: the slots not held by the requests that stay are at     *)
(* least as many as the rows that need one, because there are as many slots *)
(* as rows.                                                                 *)
LEMMA EnoughSlots ==
  ASSUME SlotInv
  PROVE  NoSlotExhaustion
  <1> SUFFICES ASSUME NEW b \in Batches
               PROVE  Cardinality(NewRows(b)) <= Cardinality(ReclaimedFree(b))
    BY DEF NoSlotExhaustion
  <1> DEFINE kept == { reqIdToSlot[r] : r \in Mapped \cap RowsOf(b) }
             old  == DOMAIN b \ NewRows(b)
             slotOfRow == [i \in old |-> reqIdToSlot[b[i]]]
  <1>1. PICK n \in 1 .. MaxBatchSize : DOMAIN b = 1 .. n /\ b \in [1 .. n -> Reqs]
    BY BatchFacts
  <1>2. n \in Nat /\ IsFiniteSet(1 .. n) /\ Cardinality(1 .. n) = n
    BY <1>1, SlotMapAssumption, FS_Interval
  <1>3. IsFiniteSet(Slots) /\ Cardinality(Slots) = MaxBatchSize
    BY SlotMapAssumption, FS_Interval DEF Slots
  <1>4. /\ IsFiniteSet(NewRows(b)) /\ IsFiniteSet(old)
        /\ Cardinality(old) = n - Cardinality(NewRows(b))
    <2>1. NewRows(b) \subseteq 1 .. n /\ old = (1 .. n) \ NewRows(b)
      BY <1>1 DEF NewRows
    <2>2. IsFiniteSet(NewRows(b))
      BY <1>2, <2>1, FS_Subset
    <2>3. /\ IsFiniteSet((1 .. n) \ NewRows(b))
          /\ Cardinality((1 .. n) \ NewRows(b)) = n - Cardinality(NewRows(b))
      BY <1>2, <2>1, CardinalityOfRest
    <2> QED BY <2>1, <2>2, <2>3
  <1>5. IsFiniteSet(kept) /\ Cardinality(kept) <= Cardinality(old)
    <2>1. slotOfRow \in Surjection(old, kept)
      <3>1. \A i \in old : b[i] \in Mapped \cap RowsOf(b)
        BY <1>1 DEF NewRows, Mapped, RowsOf
      <3>2. \A r \in Mapped \cap RowsOf(b) : \E i \in old : b[i] = r
        BY <1>1 DEF NewRows, Mapped, RowsOf
      <3> QED BY <3>1, <3>2 DEF Surjection
    <2> HIDE DEF slotOfRow, kept, old
    <2> QED BY <1>4, <2>1, FS_Surjection
  <1>6. Cardinality(ReclaimedFree(b)) = MaxBatchSize - Cardinality(kept)
    <2>1. kept \subseteq Slots
      BY DEF Mapped, SlotInv, SlotTypeOK
    <2>2. ReclaimedFree(b) = Slots \ kept
      BY ReclaimedFacts
    <2> HIDE DEF kept
    <2> QED BY <1>3, <2>1, <2>2, CardinalityOfRest
  <1>7. Cardinality(NewRows(b)) \in Nat /\ Cardinality(kept) \in Nat
    <2> HIDE DEF kept
    <2> QED BY <1>4, <1>5, FS_CardinalityType
  <1> HIDE DEF kept, old
  <1> QED BY <1>1, <1>2, <1>4, <1>5, <1>6, <1>7, SlotMapAssumption

(* The free list is never empty when a row needs a slot.                    *)
THEOREM NeverExhausted == SlotMapSpec => []NoSlotExhaustion
  <1>1. SlotTypeOK /\ SlotsPartition => NoSlotExhaustion
    BY EnoughSlots DEF SlotInv
  <1> QED BY <1>1, SlotMapInvariant, PTL

-----------------------------------------------------------------------------
(* With every slot free, the rows are served 0, 1, 2, ...: the slots below  *)
(* the one of row i are exactly those of the rows before i.                 *)
LEMMA PopAllFreeIsIdentity ==
  ASSUME NEW n \in 1 .. MaxBatchSize, NEW pop \in PopLowestFirst(1 .. n, Slots),
         NEW i \in 1 .. n
  PROVE  pop[i] = i - 1
  <1> DEFINE below == 0 .. pop[i] - 1
             before == 1 .. i - 1
             popBefore == [j \in before |-> pop[j]]
  <1>1. n \in Nat /\ i \in Nat /\ i >= 1 /\ i <= n
    BY SlotMapAssumption
  <1>2. \A j \in 1 .. n : pop[j] \in Slots /\ pop[j] \in Nat
    BY SlotMapAssumption DEF PopLowestFirst, Slots
  <1>3. \A j, k \in 1 .. n : j < k => pop[j] < pop[k]
    BY DEF PopLowestFirst
  <1>4. popBefore \in Bijection(before, below)
    <2>1. \A j \in before : popBefore[j] \in below
      BY <1>1, <1>2, <1>3
    <2>2. \A j, k \in before : popBefore[j] = popBefore[k] => j = k
      <3> SUFFICES ASSUME NEW j \in before, NEW k \in before, pop[j] = pop[k]
                   PROVE  j = k
        OBVIOUS
      <3>1. (j < k => pop[j] < pop[k]) /\ (k < j => pop[k] < pop[j])
        BY <1>1, <1>3
      <3> QED BY <1>1, <1>2, <3>1
    <2>3. \A s \in below : \E j \in before : popBefore[j] = s
      <3> SUFFICES ASSUME NEW s \in below
                   PROVE  \E j \in before : pop[j] = s
        OBVIOUS
      <3>1. s \in Slots /\ s < pop[i]
        BY <1>1, <1>2, SlotMapAssumption DEF Slots
      <3>2. PICK j \in 1 .. n : pop[j] = s
        BY <1>1, <3>1 DEF PopLowestFirst
      <3>3. ~ (j = i) /\ ~ (i < j)
        BY <1>2, <1>3, <3>1, <3>2
      <3> QED BY <1>1, <3>2, <3>3
    <2> QED BY <2>1, <2>2, <2>3 DEF Bijection, Injection, Surjection, IsInjective
  <1>5. IsFiniteSet(before) /\ Cardinality(before) = i - 1
    BY <1>1, FS_Interval
  <1>6. Cardinality(below) = pop[i]
    <2>1. pop[i] - 1 \in Int /\ 0 \in Int /\ pop[i] \in Nat
      BY <1>2
    <2>2. Cardinality(below) = IF 0 > pop[i] - 1 THEN 0 ELSE (pop[i] - 1) - 0 + 1
      BY <2>1, FS_Interval
    <2> QED BY <2>1, <2>2
  <1>7. Cardinality(below) = Cardinality(before)
    <2>1. ExistsBijection(before, below)
      BY <1>4 DEF ExistsBijection
    <2> HIDE DEF below, before
    <2> QED BY <1>5, <2>1, FS_Bijection
  <1> QED BY <1>5, <1>6, <1>7

(* A batch of requests none of which held a slot takes the fast path.       *)
THEOREM FreshBatchAlwaysIdentity == SlotMapSpec => FreshBatchIsIdentity
  <1> DEFINE Fresh == \A r \in Reqs : reqIdToSlot'[r] # None => reqIdToSlot[r] = None
  <1>1. ASSUME SlotInv, SlotMapNext, Fresh
        PROVE  activeSlotIndex' = None
    <2>1. PICK b \in Batches : ResolveSlots(b, Cardinality(DOMAIN b))
      BY <1>1 DEF SlotMapNext
    <2>2. ASSUME NEW pop \in PopLowestFirst(NewRows(b), ReclaimedFree(b)),
                 reqIdToSlot' = SlotAfter(b, pop),
                 activeSlotIndex' = SlotIndexOf(b, SlotAfter(b, pop))
          PROVE  activeSlotIndex' = None
      <3>1. Mapped \cap RowsOf(b) = {}
        BY <1>1, <2>2, SlotAfterFacts DEF Mapped
      <3>2. PICK n \in 1 .. MaxBatchSize : DOMAIN b = 1 .. n
        BY BatchFacts
      <3>3. NewRows(b) = 1 .. n
        BY <1>1, <2>2, <3>1, <3>2, SlotAfterFacts DEF NewRows, RowsOf
      <3>4. ReclaimedFree(b) = Slots
        BY <1>1, <3>1, ReclaimedFacts
      <3>5. \A i \in 1 .. n : pop[i] = i - 1
        BY <3>3, <3>4, PopAllFreeIsIdentity
      <3>6. \A i \in DOMAIN b : SlotAfter(b, pop)[b[i]] = i - 1
        BY <1>1, <2>2, <3>2, <3>3, <3>5, SlotAfterFacts
      <3> QED BY <2>2, <3>6 DEF SlotIndexOf
    <2> QED BY <2>1, <2>2, ResolveFacts
  <1>2. SlotInv /\ [SlotMapNext]_slotVars => [Fresh => activeSlotIndex' = None]_slotVars
    BY <1>1
  <1>3. SlotMapInit => SlotInv
    BY SlotInvInitially
  <1>4. SlotInv /\ [SlotMapNext]_slotVars => SlotInv'
    BY SlotInvInductive
  <1> QED BY <1>2, <1>3, <1>4, PTL DEF SlotMapSpec, FreshBatchIsIdentity

-----------------------------------------------------------------------------
(* The ring: which cell a position has, what a run of context rows leaves   *)
(* in it, and which positions a window read finds.                          *)

(* Two positions less than a window apart have different cells.             *)
LEMMA CellsDistinct ==
  ASSUME NEW p \in Nat, NEW q \in Nat, p < q + WindowSize, q < p + WindowSize,
         p % WindowSize = q % WindowSize
  PROVE  p = q
<1>1. WindowSize \in Nat /\ WindowSize > 0
  BY DraftWindowAssumption
<1>2. p = WindowSize * (p \div WindowSize) + (p % WindowSize)
  BY <1>1
<1>3. q = WindowSize * (q \div WindowSize) + (q % WindowSize)
  BY <1>1
<1> DEFINE a == p \div WindowSize
           c == q \div WindowSize
<1>4. a \in Int /\ c \in Int /\ p % WindowSize \in Int
  BY <1>1
<1> HIDE DEF a, c
<1>5. WindowSize * (a - c) < WindowSize /\ WindowSize * (c - a) < WindowSize
  BY <1>1, <1>2, <1>3, <1>4 DEF a, c
<1>6. a = c
  BY <1>1, <1>4, <1>5
<1> QED BY <1>2, <1>3, <1>6 DEF a, c

(* The cell of a position is a cell of the ring, and never beyond the       *)
(* position itself: a ring filled from position 0 is filled from cell 0.    *)
LEMMA CellOfPosition ==
  ASSUME NEW p \in Nat
  PROVE  p % WindowSize \in 0 .. WindowSize - 1 /\ p % WindowSize <= p
<1>1. WindowSize \in Nat /\ WindowSize > 0
  BY DraftWindowAssumption
<1>2. p % WindowSize \in 0 .. WindowSize - 1 /\ p \div WindowSize \in Nat
  BY <1>1
<1>3. p = WindowSize * (p \div WindowSize) + (p % WindowSize)
  BY <1>1
<1> DEFINE below == WindowSize * (p \div WindowSize)
           cell == p % WindowSize
<1>4. below \in Nat
  BY <1>1, <1>2
<1>5. cell \in 0 .. WindowSize - 1 /\ p = below + cell
  BY <1>2, <1>3
<1> HIDE DEF below, cell
<1>6. cell \in 0 .. WindowSize - 1 /\ cell <= p
  BY <1>1, <1>4, <1>5
<1> QED BY <1>6 DEF cell

-----------------------------------------------------------------------------
(* What the scheduler can ask of a request: at least one row is accepted,   *)
(* and rows are rejected only in blocks that fit in the ring.               *)
RowFacts(o) ==
  /\ o.start \in Nat /\ o.rows \in Nat \ {0} /\ o.rejected \in Nat /\ o.sampled \in Nat
  /\ o.rejected < o.rows
  /\ o.rejected > 0 => o.rows <= WindowSize

(* Every chunk and every verified block the scheduler can choose is such.   *)
LEMMA OptionFacts ==
  ASSUME config \in Configs, computed \in [Reqs -> Nat], known \in [Reqs -> Nat],
         NEW r \in Reqs, NEW o \in Options(r)
  PROVE  RowFacts(o)
<1>1. /\ config.promptLen \in Nat \ {0} /\ config.maxChunk \in Nat \ {0}
      /\ config.prefixHits \subseteq Nat
      /\ WindowSize \in Nat \ {0} /\ SpecTokens \in 1 .. WindowSize - 1
  BY DraftWindowAssumption
<1>2. CASE o \in Prefills(r)
  <2>1. PICK n \in Starts(r), c \in 1 .. config.maxChunk : o = Chunk(r, n, c)
    BY <1>2 DEF Prefills
  <2>2. n \in Nat
    BY <1>1 DEF Starts
  <2> QED BY <1>1, <2>1, <2>2 DEF Chunk, RowFacts
<1>3. CASE o \in Decodes(r)
  <2>1. PICK d \in 1 .. SpecTokens :
             \E a \in 0 .. d : o = Block(r, d, a) /\ known[r] > config.promptLen
    BY <1>3 DEF Decodes
  <2> QED BY <1>1, <2>1 DEF Block, RowFacts
<1> QED BY <1>2, <1>3 DEF Options

(* The positions that m rows from n on leave in the ring, the last x of     *)
(* them rejected: those of the last WindowSize rows that are not.           *)
StoredPositions(n, m, x) == n + m - Least(m, WindowSize) .. n + m - x - 1

(* The KV of positions P of request r.                                      *)
OwnKV(r, P) == { <<r, p>> : p \in P }

(* ctx is a run of m rows of request r from position n on.                  *)
Segment(ctx, r, n, m) == DOMAIN ctx = 1 .. m /\ \A j \in 1 .. m : ctx[j] = <<r, n + j - 1>>

(* Such a run with its last x rows rejected.                                *)
Keeps(n, m, x) ==
  n \in Nat /\ m \in Nat \ {0} /\ x \in Nat /\ x < m /\ (x > 0 => m <= WindowSize)

(* What store_main_kv and the anchor selection make of such a run: exactly  *)
(* its last WindowSize rows before the rejected suffix are stored, and the  *)
(* last of them is the anchor.                                              *)
LEMMA SegmentFacts ==
  ASSUME NEW ctx, NEW r, NEW n, NEW m, NEW x, Segment(ctx, r, n, m), Keeps(n, m, x)
  PROVE  /\ StoredRows(ctx, x) = OwnKV(r, StoredPositions(n, m, x))
         /\ AnchorOf(ctx, x) = <<r, n + m - x - 1>>
<1>0. /\ n \in Nat /\ m \in Nat \ {0} /\ x \in Nat /\ x < m /\ (x > 0 => m <= WindowSize)
      /\ DOMAIN ctx = 1 .. m /\ \A j \in 1 .. m : ctx[j] = <<r, n + j - 1>>
  BY DEF Segment, Keeps
<1>1. WindowSize \in Nat \ {0}
  BY DraftWindowAssumption
<1>2. Cardinality(1 .. m) = m
  BY <1>0, FS_Interval
<1>3. DOMAIN ctx = 1 .. m
  BY <1>0
<1>4. PICK kept \in Nat \ {0} :
        kept = Least(m, WindowSize) /\ kept <= m /\ x < kept /\ Most(kept - x, 1) = kept - x
  BY <1>0, <1>1 DEF Least, Most
<1>5. Most(m - x, 1) = m - x
  BY <1>0 DEF Most
<1>6. AnchorOf(ctx, x) = <<r, n + m - x - 1>>
  BY <1>0, <1>2, <1>3, <1>5 DEF AnchorOf
<1>7. StoredRows(ctx, x) = { ctx[j] : j \in (m - kept + 1) .. (m - kept + (kept - x)) }
  BY <1>0, <1>2, <1>3, <1>4 DEF StoredRows
<1>a. kept \in Nat \ {0} /\ kept <= m /\ x < kept
  BY <1>4
<1>8. StoredPositions(n, m, x) = n + m - kept .. n + m - x - 1
  BY <1>0, <1>4 DEF StoredPositions
<1>9. ASSUME NEW j \in (m - kept + 1) .. (m - kept + (kept - x))
      PROVE  ctx[j] = <<r, n + j - 1>> /\ n + j - 1 \in StoredPositions(n, m, x)
  <2>1. j \in 1 .. m
    BY <1>0, <1>a, <1>9
  <2>2. n + j - 1 \in n + m - kept .. n + m - x - 1
    BY <1>0, <1>a, <1>9
  <2> QED BY <1>0, <1>8, <2>1, <2>2
<1>10. ASSUME NEW p \in StoredPositions(n, m, x)
       PROVE  /\ p - n + 1 \in (m - kept + 1) .. (m - kept + (kept - x))
              /\ ctx[p - n + 1] = <<r, p>>
  <2>1. p \in Int /\ p - n + 1 \in (m - kept + 1) .. (m - kept + (kept - x))
    BY <1>0, <1>a, <1>8, <1>10
  <2>2. p - n + 1 \in 1 .. m /\ n + (p - n + 1) - 1 = p
    BY <1>0, <2>1, <1>a
  <2> QED BY <1>0, <2>1, <2>2
<1>11. StoredRows(ctx, x) = OwnKV(r, StoredPositions(n, m, x))
  <2> DEFINE J == (m - kept + 1) .. (m - kept + (kept - x))
             P == StoredPositions(n, m, x)
  <2>1. \A j \in J : ctx[j] = <<r, n + j - 1>> /\ n + j - 1 \in P
    BY <1>9
  <2>2. \A p \in P : p - n + 1 \in J /\ ctx[p - n + 1] = <<r, p>>
    BY <1>10
  <2>3. StoredRows(ctx, x) = { ctx[j] : j \in J }
    BY <1>7
  <2> HIDE DEF J, P
  <2>4. { ctx[j] : j \in J } \subseteq { <<r, p>> : p \in P }
    BY <2>1
  <2>5. { <<r, p>> : p \in P } \subseteq { ctx[j] : j \in J }
    BY <2>2
  <2> QED BY <2>3, <2>4, <2>5 DEF P, OwnKV
<1> QED BY <1>6, <1>11

(* Rows of one store never share a cell, so that the scatter is determined. *)
LEMMA StoredApart ==
  ASSUME NEW n \in Nat, NEW m \in Nat \ {0}, NEW x \in Nat
  PROVE  /\ StoredPositions(n, m, x) \subseteq Nat
         /\ \A p, q \in StoredPositions(n, m, x) : p % WindowSize = q % WindowSize => p = q
<1>1. WindowSize \in Nat \ {0}
  BY DraftWindowAssumption
<1>2. Least(m, WindowSize) \in Nat /\ Least(m, WindowSize) <= m /\ Least(m, WindowSize) <= WindowSize
  BY <1>1 DEF Least
<1>3. \A p, q \in StoredPositions(n, m, x) : p \in Nat /\ q \in Nat /\ p < q + WindowSize
  BY <1>1, <1>2 DEF StoredPositions
<1> QED BY <1>3, CellsDistinct

(* Each cell that the window read selects holds one of the last positions.  *)
LEMMA CellCovered ==
  ASSUME NEW e \in Nat, NEW k \in 0 .. Least(e, WindowSize) - 1
  PROVE  \E p \in Most(0, e - WindowSize) .. e - 1 : p % WindowSize = k
<1>1. WindowSize \in Nat \ {0} /\ k \in Nat /\ k < e /\ k < WindowSize
  BY DraftWindowAssumption DEF Least
<1>2. PICK d \in 0 .. WindowSize - 1, q \in Nat : e - 1 - k = WindowSize * q + d
  <2>1. e - 1 - k \in Nat
    BY <1>1
  <2> DEFINE g == e - 1 - k
  <2>2. /\ g % WindowSize \in 0 .. WindowSize - 1 /\ g \div WindowSize \in Nat
        /\ g = WindowSize * (g \div WindowSize) + (g % WindowSize)
    <3> HIDE DEF g
    <3> QED BY <1>1, <2>1 DEF g
  <2> QED BY <2>2
<1> DEFINE p == k + WindowSize * q
<1>3. WindowSize * q \in Nat
  BY <1>1, <1>2
<1>4. p \in Nat /\ p = e - 1 - d
  BY <1>1, <1>2, <1>3
<1>5. p % WindowSize = k
  <2> DEFINE a == p \div WindowSize
             c == p % WindowSize
  <2>1. a \in Int /\ c \in 0 .. WindowSize - 1 /\ p = WindowSize * a + c
    <3> HIDE DEF p
    <3> QED BY <1>1, <1>4
  <2> HIDE DEF a, c
  <2>2. WindowSize * (a - q) = k - c
    BY <1>1, <1>2, <2>1
  <2>3. WindowSize * (a - q) < WindowSize /\ WindowSize * (q - a) < WindowSize
    BY <1>1, <1>2, <2>1, <2>2
  <2>4. a = q
    BY <1>1, <1>2, <2>1, <2>3
  <2> QED BY <1>1, <2>1, <2>2, <2>4 DEF c
<1>6. p \in Most(0, e - WindowSize) .. e - 1
  <2> HIDE DEF p
  <2> QED BY <1>1, <1>2, <1>4 DEF Most
<1> QED BY <1>5, <1>6

-----------------------------------------------------------------------------
(* The engine and its slot map.                                             *)

(* A step of the engine is one call of _resolve_slots, or leaves the map    *)
(* alone.                                                                   *)
LEMMA EngineStepIsSlotMapStep ==
  ASSUME [Next]_vars PROVE [SlotMapNext]_slotVars
<1>1. ASSUME NEW b \in { b \in Batches : Schedulable(b) }, NEW plan \in Plans(b), Step(b, plan)
      PROVE  [SlotMapNext]_slotVars
  <2>1. CASE InputFits(plan)
    <3>1. PICK starts \in HandedStarts(plan) : Propose(b, plan, starts) BY <1>1, <2>1 DEF Step
    <3>2. ResolveSlots(b, Cardinality(DOMAIN b)) BY <3>1 DEF Propose
    <3> QED BY <1>1, <3>2 DEF SlotMapNext
  <2>2. CASE ~InputFits(plan)
    <3>1. SkipDraft BY <1>1, <2>2 DEF Step
    <3> QED BY <3>1 DEF SkipDraft
  <2> QED BY <2>1, <2>2
<1>2. ASSUME NEW r \in Reqs, Preempt(r) PROVE [SlotMapNext]_slotVars
  BY <1>2 DEF Preempt
<1>3. ASSUME NEW r \in Reqs, Finish(r) PROVE [SlotMapNext]_slotVars
  BY <1>3 DEF Finish
<1>4. CASE UNCHANGED vars
  BY <1>4 DEF vars
<1> QED BY <1>1, <1>2, <1>3, <1>4 DEF Next

(* The engine implements the slot map's specification.                      *)
THEOREM EngineImplementsSlotMap == Spec => SlotMapSpec
<1>1. Init => SlotMapInit BY DEF Init
<1> QED BY <1>1, EngineStepIsSlotMapStep, PTL DEF Spec, SlotMapSpec

(* No two requests ever share a window of main_kv_cache and no window is    *)
(* lost, whatever the scheduler does with the batch.                        *)
THEOREM EnginePartition == Spec => []SlotsPartition
  BY EngineImplementsSlotMap, PartitionAlways, PTL

(* The engine core never meets an empty free list in propose().             *)
THEOREM EngineNeverExhausted == Spec => []NoSlotExhaustion
  BY EngineImplementsSlotMap, NeverExhausted, PTL

-----------------------------------------------------------------------------
(* What propose() knows after _resolve_slots: the batch's requests, and     *)
(* they alone, have slots, distinct ones, which they keep; and the cache    *)
(* row of each batch row is its request's slot.                             *)
LEMMA ResolvedFacts ==
  ASSUME SlotInv, NEW b \in Batches, ResolveSlots(b, Cardinality(DOMAIN b))
  PROVE  /\ Mapped' = RowsOf(b)
         /\ \A i \in DOMAIN b : reqIdToSlot'[b[i]] \in Slots
         /\ \A i, j \in DOMAIN b : reqIdToSlot'[b[i]] = reqIdToSlot'[b[j]] => i = j
         /\ \A r \in Mapped \cap RowsOf(b) : reqIdToSlot'[r] = reqIdToSlot[r]
         /\ \A i \in DOMAIN b : CacheRow(activeSlotIndex', i) = reqIdToSlot'[b[i]]
<1>1. PICK n \in 1 .. MaxBatchSize :
         DOMAIN b = 1 .. n /\ b \in [1 .. n -> Reqs] /\ \A i, j \in 1 .. n : b[i] = b[j] => i = j
  BY BatchFacts
<1>2. b # None /\ None \notin [1 .. n -> Slots]
  BY <1>1, DraftWindowAssumption
<1>3. PICK pop \in PopLowestFirst(NewRows(b), ReclaimedFree(b)) :
         /\ reqIdToSlot' = SlotAfter(b, pop)
         /\ activeSlotIndex' = SlotIndexOf(b, SlotAfter(b, pop))
  BY <1>2, Zenon DEF ResolveSlots
<1>4. \A i \in DOMAIN b : b[i] \in Reqs /\ b[i] \in RowsOf(b)
  BY <1>1 DEF RowsOf
<1>5. \A i \in DOMAIN b : reqIdToSlot'[b[i]] \in Slots
  <2> SUFFICES ASSUME NEW i \in DOMAIN b PROVE reqIdToSlot'[b[i]] \in Slots
    OBVIOUS
  <2>1. CASE i \in NewRows(b)
    BY <1>3, <2>1, SlotAfterFacts, PopFacts
  <2>2. CASE i \notin NewRows(b)
    BY <1>3, <2>2, SlotAfterFacts DEF Mapped, SlotInv, SlotTypeOK
  <2> QED BY <2>1, <2>2
<1>6. Mapped' = RowsOf(b)
  <2>1. \A r \in Reqs \ RowsOf(b) : reqIdToSlot'[r] = None
    BY <1>3, SlotAfterFacts
  <2>2. \A r \in RowsOf(b) : r \in Reqs /\ reqIdToSlot'[r] \in Slots
    BY <1>4, <1>5 DEF RowsOf
  <2> QED BY <2>1, <2>2, NoneIsNoSlot DEF Mapped
<1>7. \A i, j \in DOMAIN b : reqIdToSlot'[b[i]] = reqIdToSlot'[b[j]] => i = j
  <2>1. SlotsInjective'
    BY ResolvePreservesPartition DEF SlotsPartition
  <2>2. \A i, j \in DOMAIN b : reqIdToSlot'[b[i]] = reqIdToSlot'[b[j]] => b[i] = b[j]
    BY <1>4, <1>6, <2>1 DEF SlotsInjective
  <2> QED BY <1>1, <2>2
<1>8. \A i \in DOMAIN b : CacheRow(activeSlotIndex', i) = reqIdToSlot'[b[i]]
  <2>1. CASE \A i \in DOMAIN b : reqIdToSlot'[b[i]] = i - 1
    BY <1>3, <2>1 DEF SlotIndexOf, CacheRow
  <2>2. CASE ~ \A i \in DOMAIN b : reqIdToSlot'[b[i]] = i - 1
    <3>1. activeSlotIndex' = [i \in DOMAIN b |-> reqIdToSlot'[b[i]]]
      BY <1>3, <2>2 DEF SlotIndexOf
    <3>2. activeSlotIndex' # None
      BY <1>1, <1>2, <1>5, <3>1
    <3> QED BY <3>1, <3>2 DEF CacheRow
  <2> QED BY <2>1, <2>2
<1>9. \A r \in Mapped \cap RowsOf(b) : reqIdToSlot'[r] = reqIdToSlot[r]
  BY <1>3, SlotAfterFacts
<1> QED BY <1>5, <1>6, <1>7, <1>8, <1>9

-----------------------------------------------------------------------------
(* Running sums of row counts.                                              *)

(* A non-empty set of natural numbers has a least one.                      *)
LEMMA LeastExists ==
  ASSUME NEW S \in SUBSET Nat, S # {}
  PROVE  \E n \in S : \A m \in S : n <= m
<1> DEFINE Below == OpToRel(<, Nat)
<1>1. IsWellFoundedOn(Below, Nat)
  BY NatLessThanWellFounded
<1>2. \A m, n \in Nat : m < n => <<m, n>> \in Below
  BY DEF OpToRel
<1> HIDE DEF Below
<1>3. PICK n \in S : \A m \in S : ~(<<m, n>> \in Below)
  BY <1>1, WFMin
<1>4. ASSUME NEW m \in S PROVE n <= m
  <2>1. m \in Nat /\ n \in Nat /\ ~(m < n)
    BY <1>2, <1>3
  <2> QED BY <2>1
<1> QED BY <1>4

(* The running sums of positive lengths, up to the length m.                *)
SumsUpTo(m, lens, g) ==
  /\ g \in [0 .. m -> Nat]
  /\ g[0] = 0
  /\ \A i \in 1 .. m : g[i] = g[i - 1] + lens[i]

(* Such sums exist.                                                         *)
LEMMA SumsExist ==
  ASSUME NEW n \in Nat, NEW lens, \A i \in 1 .. n : lens[i] \in Nat
  PROVE  \E g : SumsUpTo(n, lens, g)
<1> DEFINE Good(m) == \E g : SumsUpTo(m, lens, g)
           Bad == { m \in 0 .. n : ~Good(m) }
<1>1. SUFFICES ASSUME Bad # {} PROVE FALSE
  <2>1. n \in 0 .. n
    OBVIOUS
  <2> QED BY <2>1
<1>2. Bad \in SUBSET Nat
  OBVIOUS
<1>3. PICK m \in Bad : \A k \in Bad : m <= k
  <2> HIDE DEF Bad
  <2> QED BY <1>1, <1>2, LeastExists
<1>4. m \in Nat /\ m <= n /\ ~Good(m)
  OBVIOUS
<1>5. m # 0
  <2>1. SumsUpTo(0, lens, [i \in 0 .. 0 |-> 0])
    BY DEF SumsUpTo
  <2>2. Good(0)
    BY <2>1
  <2> HIDE DEF Good
  <2> QED BY <1>4, <2>2
<1>6. m - 1 \in 0 .. n /\ m - 1 < m
  BY <1>4, <1>5
<1>7. Good(m - 1)
  <2>1. m - 1 \notin Bad
    BY <1>3, <1>6
  <2> QED BY <1>6, <2>1
<1>8. PICK g : SumsUpTo(m - 1, lens, g)
  BY <1>7
<1> DEFINE h == [i \in 0 .. m |-> IF i = m THEN g[m - 1] + lens[m] ELSE g[i]]
<1>9. \A i \in 0 .. m - 1 : g[i] \in Nat
  BY <1>8 DEF SumsUpTo
<1>10. h \in [0 .. m -> Nat]
  <2>1. g[m - 1] + lens[m] \in Nat
    BY <1>4, <1>5, <1>6, <1>9
  <2>2. \A i \in 0 .. m : i # m => g[i] \in Nat
    BY <1>4, <1>9
  <2> QED BY <2>1, <2>2
<1>11. h[0] = 0
  BY <1>4, <1>5, <1>8 DEF SumsUpTo
<1>12. ASSUME NEW i \in 1 .. m PROVE h[i] = h[i - 1] + lens[i]
  <2>1. CASE i = m
    <3>1. h[m - 1] = g[m - 1] /\ h[m] = g[m - 1] + lens[m]
      BY <1>4, <1>5
    <3> QED BY <2>1, <3>1
  <2>2. CASE i # m
    <3>1. i \in 1 .. m - 1 /\ i - 1 \in 0 .. m /\ i - 1 # m
      BY <1>4, <2>2
    <3>2. h[i - 1] = g[i - 1] /\ h[i] = g[i]
      BY <3>1
    <3>3. g[i] = g[i - 1] + lens[i]
      BY <1>8, <3>1 DEF SumsUpTo
    <3> QED BY <3>2, <3>3
  <2> QED BY <2>1, <2>2
<1>13. SumsUpTo(m, lens, h)
  <2> HIDE DEF h
  <2> QED BY <1>10, <1>11, <1>12 DEF SumsUpTo
<1> QED BY <1>4, <1>13

(* query_start_loc is these sums.                                           *)
LEMMA StartLocIs ==
  ASSUME NEW n \in Nat, NEW lens, DOMAIN lens = 1 .. n, \A i \in 1 .. n : lens[i] \in Nat
  PROVE  SumsUpTo(n, lens, QueryStartLoc(lens))
<1>1. Cardinality(DOMAIN lens) = n
  BY FS_Interval
<1> DEFINE Body(t) == [i \in 0 .. n |-> IF i = 0 THEN 0 ELSE t[i - 1] + lens[i]]
           loc == CHOOSE t : t = Body(t)
<1>2. PICK g : SumsUpTo(n, lens, g)
  BY SumsExist
<1>3. g = Body(g)
  <2> DEFINE k == Body(g)
  <2>1. \A i \in 0 .. n : g[i] = k[i]
    BY <1>2 DEF SumsUpTo
  <2>2. DOMAIN g = 0 .. n /\ DOMAIN k = 0 .. n /\ g = [i \in 0 .. n |-> g[i]]
    BY <1>2 DEF SumsUpTo
  <2> QED BY <2>1, <2>2
<1>4. loc = Body(loc)
  <2>1. \E t : t = Body(t)
    BY <1>3
  <2> HIDE DEF Body
  <2> QED BY <2>1, Zenon
<1>5. QueryStartLoc(lens) = loc
  BY <1>1 DEF QueryStartLoc
<1> HIDE DEF loc
<1>6. DOMAIN loc = 0 .. n /\ loc[0] = 0 /\ \A i \in 1 .. n : loc[i] = loc[i - 1] + lens[i]
  <2>1. DOMAIN loc = 0 .. n
    BY <1>4
  <2>2. \A i \in 0 .. n : loc[i] = IF i = 0 THEN 0 ELSE loc[i - 1] + lens[i]
    BY <1>4
  <2> QED BY <2>1, <2>2
<1>7. \A i \in 0 .. n : loc[i] \in Nat
  <2> DEFINE Bad == { i \in 0 .. n : loc[i] \notin Nat }
  <2>1. SUFFICES ASSUME Bad # {} PROVE FALSE
    OBVIOUS
  <2>2. Bad \in SUBSET Nat
    OBVIOUS
  <2>3. PICK m \in Bad : \A k \in Bad : m <= k
    <3> HIDE DEF Bad
    <3> QED BY <2>1, <2>2, LeastExists
  <2>4. m \in 1 .. n /\ m - 1 \in 0 .. n /\ ~(m <= m - 1)
    BY <1>6
  <2>5. loc[m - 1] \in Nat
    <3>1. m - 1 \notin Bad
      BY <2>3, <2>4
    <3> QED BY <2>4, <3>1
  <2>6. loc[m] \in Nat
    BY <1>6, <2>4, <2>5
  <2> QED BY <2>6
<1>8. loc \in [0 .. n -> Nat]
  <2>1. loc = [i \in 0 .. n |-> loc[i]]
    BY <1>4, <1>6
  <2> QED BY <1>7, <2>1
<1> QED BY <1>5, <1>6, <1>8 DEF SumsUpTo

-----------------------------------------------------------------------------
(* propose() can tell the rows of the requests of a step apart.             *)
Separable(plan) == MaskOn \/ Uniform(ContextRows(plan))

(* The configurations where it always can.                                  *)
AlwaysSeparable == MaskOn \/ config.maxRunning = 1

(* The unbroken run of r is in the ring of its slot.                        *)
RunStored(r) ==
  \A p \in OwnRun(r) : cache[reqIdToSlot[r]][p % WindowSize] = <<r, p>>

(* The cells of a ring.                                                     *)
Ring == 0 .. WindowSize - 1

(* The inductive invariant of the windows. That the draft sees the run is   *)
(* not inductive by itself: what a draft will see was stored by earlier     *)
(* steps, and stays only because slots are sticky and not shared and        *)
(* because a new position never lands on a cell that is still in the        *)
(* window.                                                                  *)
WindowInv ==
  /\ config \in Configs
  /\ computed \in [Reqs -> Nat] /\ known \in [Reqs -> Nat]
  /\ since \in [Reqs -> Nat] /\ upto \in [Reqs -> Nat]
  /\ DOMAIN cache = Slots /\ \A s \in Slots : DOMAIN cache[s] = Ring
  /\ \A r \in Mapped : RunStored(r)
  /\ DraftSeesOwnRun
  /\ ~raised

(* The positions that a step leaves in the ring of batch row i.             *)
Written(plan, i) == StoredPositions(plan[i].start, plan[i].rows, plan[i].rejected)

(* The rows of a batch are chunks and blocks of its requests.               *)
LEMMA PlanFacts ==
  ASSUME WindowInv, NEW b \in Batches, NEW plan \in Plans(b), NEW i \in DOMAIN b
  PROVE  b[i] \in Reqs /\ plan[i] \in Options(b[i]) /\ RowFacts(plan[i])
<1>1. b[i] \in Reqs BY BatchFacts
<1>2. plan[i] \in Options(b[i]) BY DEF Plans
<1> QED BY <1>1, <1>2, OptionFacts DEF WindowInv

(* The rows of a step, one after the other.                                 *)
PlanShape(plan, n) == DOMAIN plan = 1 .. n /\ \A i \in 1 .. n : RowFacts(plan[i])

(* Every plan of a batch has this shape.                                    *)
LEMMA PlanIsShaped ==
  ASSUME config \in Configs, computed \in [Reqs -> Nat], known \in [Reqs -> Nat],
         NEW b \in Batches, NEW plan \in Plans(b)
  PROVE  \E n \in 1 .. MaxBatchSize : DOMAIN b = 1 .. n /\ PlanShape(plan, n)
<1>1. PICK n \in 1 .. MaxBatchSize : DOMAIN b = 1 .. n /\ b \in [1 .. n -> Reqs]
  BY BatchFacts
<1>2. DOMAIN plan = 1 .. n /\ \A i \in 1 .. n : plan[i] \in Options(b[i])
  BY <1>1 DEF Plans
<1>3. \A i \in 1 .. n : RowFacts(plan[i])
  BY <1>1, <1>2, OptionFacts
<1> QED BY <1>1, <1>2, <1>3 DEF PlanShape

(* The starts of its rows are running sums, one more than there are         *)
(* requests.                                                                *)
LEMMA StartsFacts ==
  ASSUME NEW n \in Nat, NEW plan, PlanShape(plan, n)
  PROVE  /\ Cardinality(DOMAIN plan) = n
         /\ BatchStarts(plan) \in [0 .. n -> Nat]
         /\ Cardinality(DOMAIN BatchStarts(plan)) = n + 1
         /\ \A i \in 1 .. n : BatchStarts(plan)[i] = BatchStarts(plan)[i - 1] + plan[i].rows
<1> DEFINE lens == [i \in DOMAIN plan |-> plan[i].rows]
<1>1. DOMAIN lens = 1 .. n /\ \A i \in 1 .. n : lens[i] = plan[i].rows /\ lens[i] \in Nat
  BY DEF PlanShape, RowFacts
<1>2. Cardinality(DOMAIN plan) = n
  BY FS_Interval DEF PlanShape
<1>3. BatchStarts(plan) = QueryStartLoc(lens)
  BY DEF BatchStarts
<1> HIDE DEF lens
<1>4. SumsUpTo(n, lens, BatchStarts(plan))
  BY <1>1, <1>3, StartLocIs
<1>5. BatchStarts(plan) \in [0 .. n -> Nat]
  BY <1>4 DEF SumsUpTo
<1>6. \A i \in 1 .. n : BatchStarts(plan)[i] = BatchStarts(plan)[i - 1] + plan[i].rows
  BY <1>1, <1>4 DEF SumsUpTo
<1>7. Cardinality(0 .. n) = n + 1
  BY FS_Interval
<1>8. DOMAIN BatchStarts(plan) = 0 .. n
  BY <1>5
<1> QED BY <1>2, <1>5, <1>6, <1>7, <1>8

(* Whatever the step is padded to, the drafter is handed these starts.      *)
LEMMA HandedAreBatchStarts ==
  ASSUME NEW n \in 1 .. MaxBatchSize, NEW plan, PlanShape(plan, n),
         NEW starts \in HandedStarts(plan)
  PROVE  starts = BatchStarts(plan)
<1> DEFINE loc == BatchStarts(plan)
<1>0. n \in Nat /\ MaxBatchSize \in Nat
  BY SlotMapAssumption
<1>1. /\ Cardinality(DOMAIN plan) = n /\ loc \in [0 .. n -> Nat]
      /\ Cardinality(DOMAIN loc) = n + 1
  BY <1>0, StartsFacts
<1>2. PICK m \in n .. MaxBatchSize : starts = Unpadded(PaddedStarts(loc, m), n)
  BY <1>1 DEF HandedStarts
<1> HIDE DEF loc
<1>3. PaddedStarts(loc, m) = [i \in 0 .. m |-> loc[Least(i, n)]]
  <2>1. Cardinality(DOMAIN loc) - 1 = n
    BY <1>0, <1>1
  <2> QED BY <2>1 DEF PaddedStarts
<1>4. \A i \in 0 .. n : i \in 0 .. m /\ Least(i, n) = i
  BY <1>0 DEF Least
<1>5. starts = [i \in 0 .. n |-> loc[i]]
  BY <1>2, <1>3, <1>4 DEF Unpadded
<1>6. loc = [i \in 0 .. n |-> loc[i]]
  BY <1>1
<1> QED BY <1>5, <1>6 DEF loc

(* So this is what propose() works with in a step.                          *)
LEMMA StepProposes ==
  ASSUME config \in Configs, computed \in [Reqs -> Nat], known \in [Reqs -> Nat],
         NEW b \in Batches, NEW plan \in Plans(b), Step(b, plan), InputFits(plan)
  PROVE  Propose(b, plan, BatchStarts(plan))
<1>1. PICK starts \in HandedStarts(plan) : Propose(b, plan, starts)
  BY DEF Step
<1>2. starts = BatchStarts(plan)
  BY PlanIsShaped, HandedAreBatchStarts
<1> QED BY <1>1, <1>2

(* Equal lengths divide by their number.                                    *)
LEMMA EqualLengthsDivide ==
  ASSUME NEW n \in Nat \ {0}, NEW lens, DOMAIN lens = 1 .. n,
         \A i \in 1 .. n : lens[i] \in Nat, Uniform(lens)
  PROVE  TotalRows(lens) % n = 0
<1> DEFINE l == lens[1]
           g == QueryStartLoc(lens)
<1>1. l \in Nat /\ \A i \in 1 .. n : lens[i] = l
  BY DEF Uniform
<1>2. g \in [0 .. n -> Nat] /\ g[0] = 0 /\ \A i \in 1 .. n : g[i] = g[i - 1] + lens[i]
  BY StartLocIs DEF SumsUpTo
<1>3. TotalRows(lens) = g[n]
  <2>1. Cardinality(1 .. n) = n
    BY FS_Interval
  <2> QED BY <2>1 DEF TotalRows
<1> HIDE DEF l, g
<1>4. \A i \in 0 .. n : g[i] = i * l
  <2> DEFINE Bad == { i \in 0 .. n : g[i] # i * l }
  <2>1. SUFFICES ASSUME Bad # {} PROVE FALSE
    OBVIOUS
  <2>2. PICK m \in Bad : \A k \in Bad : m <= k
    <3>1. Bad \in SUBSET Nat
      OBVIOUS
    <3> HIDE DEF Bad
    <3> QED BY <2>1, <3>1, LeastExists
  <2>3. m \in 0 .. n /\ g[m] # m * l /\ m # 0
    BY <1>1, <1>2
  <2>4. m \in 1 .. n /\ m - 1 \in 0 .. n /\ ~(m <= m - 1)
    BY <2>3
  <2>5. m - 1 \notin Bad
    BY <2>2, <2>4
  <2>6. g[m - 1] = (m - 1) * l
    BY <2>4, <2>5
  <2>7. (m - 1) * l + l = m * l
    BY <1>1, <2>4
  <2>8. g[m] = g[m - 1] + l
    BY <1>1, <1>2, <2>4
  <2> QED BY <2>3, <2>6, <2>7, <2>8
<1>5. g[n] = n * l
  BY <1>4
<1>6. (n * l) % n = 0
  <2> DEFINE t == n * l
             q == t \div n
             x == t % n
  <2>1. t \in Nat
    BY <1>1
  <2>2. x \in 0 .. n - 1 /\ q \in Nat /\ t = n * q + x
    <3> HIDE DEF t
    <3> QED BY <2>1
  <2>3. x = n * (l - q)
    <3> HIDE DEF q, x
    <3> QED BY <1>1, <2>2
  <2> HIDE DEF t, q, x
  <2>4. l - q = 0
    BY <1>1, <2>2, <2>3
  <2>5. x = 0
    BY <1>1, <2>2, <2>3, <2>4
  <2> QED BY <2>5 DEF x, t
<1> QED BY <1>3, <1>5, <1>6

(* The row counts of the context are positive, those of the segments that   *)
(* query_start_loc cuts, less what is trimmed.                              *)
LEMMA ContextRowsFacts ==
  ASSUME NEW n \in Nat, NEW plan, PlanShape(plan, n)
  PROVE  /\ DOMAIN ContextRows(plan) = 1 .. n
         /\ \A i \in 1 .. n :
              LET loc == BatchStarts(plan)
              IN  /\ ContextRows(plan)[i] \in Nat \ {0}
                  /\ MaskOn => ContextRows(plan)[i] = loc[i] - loc[i - 1]
                  /\ ~MaskOn => ContextRows(plan)[i] = loc[i] - plan[i].rejected - loc[i - 1]
<1> DEFINE loc == BatchStarts(plan)
<1>1. DOMAIN ContextRows(plan) = 1 .. n
  BY DEF PlanShape, ContextRows
<1>2. ASSUME NEW i \in 1 .. n
      PROVE  /\ ContextRows(plan)[i] \in Nat \ {0}
             /\ MaskOn => ContextRows(plan)[i] = loc[i] - loc[i - 1]
             /\ ~MaskOn => ContextRows(plan)[i] = loc[i] - plan[i].rejected - loc[i - 1]
  <2> DEFINE rows == plan[i].rows
             gone == plan[i].rejected
             from == loc[i - 1]
             upTo == loc[i]
  <2>1. rows \in Nat \ {0} /\ gone \in Nat /\ gone < rows
    BY DEF PlanShape, RowFacts
  <2>2. from \in Nat /\ upTo = from + rows
    <3>1. i - 1 \in 0 .. n
      OBVIOUS
    <3> QED BY <3>1, StartsFacts
  <2>3. ContextRows(plan)[i] = IF MaskOn THEN rows ELSE rows - gone
    BY DEF PlanShape, ContextRows
  <2> HIDE DEF rows, gone, from, upTo
  <2>4. /\ ContextRows(plan)[i] \in Nat \ {0}
        /\ MaskOn => ContextRows(plan)[i] = upTo - from
        /\ ~MaskOn => ContextRows(plan)[i] = upTo - gone - from
    BY <2>1, <2>2, <2>3
  <2> QED BY <2>4 DEF gone, from, upTo
<1> QED BY <1>1, <1>2

(* Under the mask, every step with rows of several lengths is recognized as *)
(* ragged by the starts it is handed with.                                  *)
LEMMA OwnSegments ==
  ASSUME NEW n \in Nat \ {0}, NEW plan, PlanShape(plan, n), Separable(plan)
  PROVE  Uniform(ContextRows(plan)) \/ TakesRaggedPath(plan, BatchStarts(plan))
<1> DEFINE loc == BatchStarts(plan)
           lens == ContextRows(plan)
           cut == [i \in DOMAIN plan |-> loc[i] - loc[i - 1]]
<1> SUFFICES ASSUME MaskOn PROVE Uniform(lens) \/ TakesRaggedPath(plan, loc)
  BY DEF Separable
<1>1. Cardinality(DOMAIN plan) = n /\ Cardinality(DOMAIN loc) = n + 1
  BY StartsFacts
<1>2. \A i \in DOMAIN plan : lens[i] = cut[i]
  BY ContextRowsFacts DEF PlanShape
<1>3. DOMAIN lens = DOMAIN cut
  BY ContextRowsFacts DEF PlanShape
<1>4. loc[n] = TotalRows(lens)
  <2>1. lens = [i \in DOMAIN plan |-> plan[i].rows]
    BY DEF ContextRows
  <2>2. DOMAIN lens = DOMAIN plan
    BY <2>1
  <2> QED BY <1>1, <2>1, <2>2 DEF BatchStarts, TotalRows
<1>5. ~Uniform(lens) => ~Uniform(cut)
  <2> HIDE DEF lens
  <2>1. DOMAIN cut = DOMAIN plan
    OBVIOUS
  <2> HIDE DEF cut
  <2> QED BY <1>2, <1>3, <2>1 DEF Uniform
<1> QED BY <1>1, <1>4, <1>5 DEF TakesRaggedPath

(* Where the rows can be told apart, none of the checks fails: no segment   *)
(* is trimmed to nothing, trimmed segments have one length, and what is not *)
(* taken for ragged divides by the batch size.                              *)
LEMMA NoShapeError ==
  ASSUME NEW n \in Nat \ {0}, NEW plan, PlanShape(plan, n), Separable(plan)
  PROVE  ~ShapeError(plan, BatchStarts(plan))
<1> DEFINE loc == BatchStarts(plan)
           lens == ContextRows(plan)
<1>1. Cardinality(DOMAIN plan) = n /\ Cardinality(DOMAIN loc) = n + 1 /\ DOMAIN plan = 1 .. n
  BY StartsFacts DEF PlanShape
<1>2. DOMAIN lens = 1 .. n /\ \A i \in 1 .. n : lens[i] \in Nat \ {0}
  BY ContextRowsFacts
<1>3. ~ViewRaises(plan, loc)
  <2>1. CASE Uniform(lens)
    <3>1. TotalRows(lens) % n = 0
      <4> HIDE DEF lens
      <4> QED BY <1>2, <2>1, EqualLengthsDivide
    <3> QED BY <1>1, <3>1 DEF ViewRaises
  <2>2. CASE TakesRaggedPath(plan, loc)
    BY <2>2 DEF ViewRaises
  <2> QED BY <2>1, <2>2, OwnSegments
<1>4. ~TrimRaises(plan, loc)
  <2> SUFFICES ASSUME ~MaskOn PROVE ~TrimRaises(plan, loc)
    BY DEF TrimRaises
  <2> DEFINE End(i) == loc[i] - plan[i].rejected
             kept == [i \in DOMAIN plan |-> End(i) - loc[i - 1]]
  <2>1. \A i \in 1 .. n : lens[i] = End(i) - loc[i - 1]
    BY ContextRowsFacts
  <2>2. ASSUME NEW i \in 1 .. n PROVE ~(End(i) <= loc[i - 1])
    <3>1. i - 1 \in 0 .. n /\ loc[i] \in Nat /\ loc[i - 1] \in Nat /\ plan[i].rejected \in Nat
      <4>1. plan[i].rejected \in Nat
        BY DEF PlanShape, RowFacts
      <4>2. i - 1 \in 0 .. n /\ i \in 0 .. n
        OBVIOUS
      <4>3. loc \in [0 .. n -> Nat]
        BY StartsFacts
      <4> HIDE DEF loc
      <4> QED BY <4>1, <4>2, <4>3
    <3>2. lens[i] \in Nat \ {0} /\ lens[i] = loc[i] - plan[i].rejected - loc[i - 1]
      BY <1>2, <2>1
    <3> HIDE DEF lens, loc
    <3> QED BY <3>1, <3>2
  <2>3. Uniform(kept)
    <3>1. Uniform(lens)
      BY DEF Separable
    <3>2. \A i \in 1 .. n : kept[i] = lens[i]
      BY <1>1, <2>1
    <3>3. DOMAIN kept = 1 .. n
      BY <1>1
    <3> HIDE DEF kept, lens
    <3> QED BY <1>2, <3>1, <3>2, <3>3 DEF Uniform
  <2> QED BY <1>1, <2>2, <2>3 DEF TrimRaises
<1> QED BY <1>3, <1>4 DEF ShapeError

(* The rows that propose() stores for batch row i: all of them and the      *)
(* count of the rejected ones, or, trimmed, those that are not rejected.    *)
LEMMA OwnContext ==
  ASSUME WindowInv, NEW b \in Batches, NEW plan \in Plans(b), Separable(plan), NEW i \in DOMAIN b
  PROVE  \E m, x :
           /\ Keeps(plan[i].start, m, x)
           /\ Segment(Contexts(b, plan, BatchStarts(plan))[i], b[i], plan[i].start, m)
           /\ MaskedRejects(plan)[i] = x
           /\ StoredPositions(plan[i].start, m, x) = Written(plan, i)
           /\ plan[i].start + m - x - 1 = plan[i].start + plan[i].rows - plan[i].rejected - 1
<1> DEFINE o == plan[i]
<1>1. /\ o.start \in Nat /\ o.rows \in Nat \ {0} /\ o.rejected \in Nat /\ o.rejected < o.rows
      /\ o.rejected > 0 => o.rows <= WindowSize
  BY PlanFacts DEF RowFacts
<1>2. DOMAIN plan = DOMAIN b
  BY DEF Plans
<1>3. Contexts(b, plan, BatchStarts(plan))[i] = OwnRows(b, plan, i)
  <2>1. Uniform(ContextRows(plan)) \/ TakesRaggedPath(plan, BatchStarts(plan))
    BY PlanIsShaped, OwnSegments DEF WindowInv
  <2> QED BY <2>1 DEF Contexts
<1>4. Segment(OwnRows(b, plan, i), b[i], o.start, ContextRows(plan)[i])
  BY DEF OwnRows, Segment
<1>5. CASE MaskOn
  <2>1. ContextRows(plan)[i] = o.rows /\ MaskedRejects(plan)[i] = o.rejected
    BY <1>2, <1>5 DEF ContextRows, MaskedRejects
  <2> QED BY <1>1, <1>3, <1>4, <2>1 DEF Keeps, Written
<1>6. CASE ~MaskOn
  <2>1. ContextRows(plan)[i] = o.rows - o.rejected /\ MaskedRejects(plan)[i] = 0
    BY <1>2, <1>6 DEF ContextRows, MaskedRejects
  <2>2. Keeps(o.start, o.rows - o.rejected, 0)
    BY <1>1 DEF Keeps
  <2>3. StoredPositions(o.start, o.rows - o.rejected, 0) = Written(plan, i)
    BY <1>1, DraftWindowAssumption DEF StoredPositions, Written, Least
  <2>4. o.start + (o.rows - o.rejected) - 0 - 1 = o.start + o.rows - o.rejected - 1
    BY <1>1
  <2> HIDE DEF o
  <2>5. Segment(Contexts(b, plan, BatchStarts(plan))[i], b[i], o.start, o.rows - o.rejected)
    BY <1>3, <1>4, <2>1
  <2> QED BY <2>1, <2>2, <2>3, <2>4, <2>5 DEF o
<1> QED BY <1>5, <1>6

(* What prefill_main is given for batch row i, and its anchor.              *)
LEMMA WrittenFacts ==
  ASSUME WindowInv, NEW b \in Batches, NEW plan \in Plans(b), Separable(plan), NEW i \in DOMAIN b
  PROVE  LET ctx == Contexts(b, plan, BatchStarts(plan))[i]
             rej == MaskedRejects(plan)[i]
         IN  /\ StoredRows(ctx, rej) = OwnKV(b[i], Written(plan, i))
             /\ AnchorOf(ctx, rej) = <<b[i], plan[i].start + plan[i].rows - plan[i].rejected - 1>>
<1>1. PICK m, x :
           /\ Keeps(plan[i].start, m, x)
           /\ Segment(Contexts(b, plan, BatchStarts(plan))[i], b[i], plan[i].start, m)
           /\ MaskedRejects(plan)[i] = x
           /\ StoredPositions(plan[i].start, m, x) = Written(plan, i)
           /\ plan[i].start + m - x - 1 = plan[i].start + plan[i].rows - plan[i].rejected - 1
  BY OwnContext
<1>2. /\ StoredRows(Contexts(b, plan, BatchStarts(plan))[i], x) = OwnKV(b[i], StoredPositions(plan[i].start, m, x))
      /\ AnchorOf(Contexts(b, plan, BatchStarts(plan))[i], x) = <<b[i], plan[i].start + m - x - 1>>
  BY <1>1, SegmentFacts
<1> QED BY <1>1, <1>2

(* The scatter, where no two rows of a request hit one cell.                *)
LEMMA ScatterFacts ==
  ASSUME WindowInv, NEW rowOfSlot, NEW writes,
         \A i \in DOMAIN writes : OnePerCell(writes[i]), StoreMainKv(rowOfSlot, writes)
  PROVE  /\ DOMAIN cache' = Slots /\ \A s \in Slots : DOMAIN cache'[s] = Ring
         /\ \A s \in Slots : s \in DOMAIN rowOfSlot =>
              \A k \in Ring :
                LET new == { t \in writes[rowOfSlot[s]] : Cell(t) = k }
                IN  cache'[s][k] = IF new = {} THEN cache[s][k] ELSE CHOOSE t \in new : TRUE
<1>1. LastingWrites(writes) = {writes}
  BY DEF LastingWrites
<1>2. cache' = [s \in Slots |->
        IF s \notin DOMAIN rowOfSlot THEN cache[s]
        ELSE [k \in DOMAIN cache[s] |->
                LET new == { t \in writes[rowOfSlot[s]] : Cell(t) = k }
                IN  IF new = {} THEN cache[s][k] ELSE CHOOSE t \in new : TRUE]]
  BY <1>1 DEF StoreMainKv
<1>3. \A s \in Slots : DOMAIN cache[s] = Ring
  BY DEF WindowInv
<1>4. ASSUME NEW s \in Slots, s \in DOMAIN rowOfSlot
      PROVE  cache'[s] = [k \in Ring |->
                LET new == { t \in writes[rowOfSlot[s]] : Cell(t) = k }
                IN  IF new = {} THEN cache[s][k] ELSE CHOOSE t \in new : TRUE]
  BY <1>2, <1>3, <1>4
<1>5. \A s \in Slots : s \notin DOMAIN rowOfSlot => cache'[s] = cache[s]
  BY <1>2
<1>6. DOMAIN cache' = Slots
  BY <1>2
<1>7. \A s \in Slots : DOMAIN cache'[s] = Ring
  BY <1>3, <1>4, <1>5
<1>8. ASSUME NEW s \in Slots, s \in DOMAIN rowOfSlot, NEW k \in Ring
      PROVE  LET new == { t \in writes[rowOfSlot[s]] : Cell(t) = k }
             IN  cache'[s][k] = IF new = {} THEN cache[s][k] ELSE CHOOSE t \in new : TRUE
  BY <1>4, <1>8
<1> QED BY <1>6, <1>7, <1>8

(* propose() writes the positions of each request of the batch into its own *)
(* ring, and nothing else there.                                            *)
LEMMA ProposeStores ==
  ASSUME WindowInv, SlotInv, NEW b \in Batches, NEW plan \in Plans(b), Separable(plan),
         Propose(b, plan, BatchStarts(plan))
  PROVE  /\ DOMAIN cache' = Slots /\ \A s \in Slots : DOMAIN cache'[s] = Ring
         /\ \A i \in DOMAIN b :
              LET ring == cache'[reqIdToSlot'[b[i]]]
              IN  /\ \A p \in Written(plan, i) : ring[p % WindowSize] = <<b[i], p>>
                  /\ \A k \in Ring :
                       (\A p \in Written(plan, i) : p % WindowSize # k)
                         => ring[k] = cache[reqIdToSlot'[b[i]]][k]
<1> DEFINE ctx == Contexts(b, plan, BatchStarts(plan))
           rej == MaskedRejects(plan)
           rows == [i \in DOMAIN b |-> CacheRow(activeSlotIndex', i)]
           rowOfSlot == [s \in { rows[i] : i \in DOMAIN b } |-> CHOOSE i \in DOMAIN b : rows[i] = s]
           writes == [i \in DOMAIN b |-> StoredRows(ctx[i], rej[i])]
<1>0. ~ShapeError(plan, BatchStarts(plan))
  BY PlanIsShaped, NoShapeError DEF WindowInv
<1>1. ResolveSlots(b, Cardinality(DOMAIN b)) /\ StoreMainKv(rowOfSlot, writes)
  BY <1>0 DEF Propose
<1>2. \A i \in DOMAIN b : writes[i] = OwnKV(b[i], Written(plan, i))
  BY WrittenFacts
<1>3. \A i \in DOMAIN b :
         /\ Written(plan, i) \subseteq Nat
         /\ \A p, q \in Written(plan, i) : p % WindowSize = q % WindowSize => p = q
  BY PlanFacts, StoredApart DEF RowFacts, Written
<1>4. \A i \in DOMAIN writes : OnePerCell(writes[i])
  BY <1>2, <1>3 DEF OnePerCell, Cell, OwnKV
<1>5. /\ DOMAIN cache' = Slots /\ \A s \in Slots : DOMAIN cache'[s] = Ring
      /\ \A s \in Slots : s \in DOMAIN rowOfSlot =>
           \A k \in Ring :
             LET new == { t \in writes[rowOfSlot[s]] : Cell(t) = k }
             IN  cache'[s][k] = IF new = {} THEN cache[s][k] ELSE CHOOSE t \in new : TRUE
  <2> HIDE DEF rowOfSlot, writes
  <2> QED BY <1>1, <1>4, ScatterFacts
<1>9. ASSUME NEW i \in DOMAIN b
      PROVE  /\ \A p \in Written(plan, i) : cache'[reqIdToSlot'[b[i]]][p % WindowSize] = <<b[i], p>>
             /\ \A k \in Ring :
                  (\A p \in Written(plan, i) : p % WindowSize # k)
                    => cache'[reqIdToSlot'[b[i]]][k] = cache[reqIdToSlot'[b[i]]][k]
  <2> DEFINE s == reqIdToSlot'[b[i]]
             New(k) == { t \in writes[i] : Cell(t) = k }
  <2>1. s \in Slots /\ \A j \in DOMAIN b : rows[j] = reqIdToSlot'[b[j]]
    BY <1>1, <1>9, ResolvedFacts
  <2>2. s \in DOMAIN rowOfSlot /\ rowOfSlot[s] = i
    BY <1>1, <1>9, <2>1, ResolvedFacts
  <2>a. \A k \in Ring :
          LET new == { t \in writes[rowOfSlot[s]] : Cell(t) = k }
          IN  cache'[s][k] = IF new = {} THEN cache[s][k] ELSE CHOOSE t \in new : TRUE
    <3> HIDE DEF s, rowOfSlot, writes
    <3> QED BY <1>5, <2>1, <2>2
  <2>3. \A k \in Ring : cache'[s][k] = IF New(k) = {} THEN cache[s][k] ELSE CHOOSE t \in New(k) : TRUE
    <3> HIDE DEF s, rowOfSlot, writes
    <3> QED BY <2>a, <2>2 DEF New
  <2>4. ASSUME NEW p \in Written(plan, i) PROVE cache'[s][p % WindowSize] = <<b[i], p>>
    <3>1. p % WindowSize \in Ring
      BY <1>3, <1>9, <2>4, CellOfPosition DEF Ring
    <3>2. New(p % WindowSize) = {<<b[i], p>>}
      BY <1>2, <1>3, <1>9, <2>4 DEF Cell, OwnKV
    <3> QED BY <2>3, <3>1, <3>2
  <2>5. ASSUME NEW k \in Ring, \A p \in Written(plan, i) : p % WindowSize # k
        PROVE  cache'[s][k] = cache[s][k]
    <3>1. New(k) = {}
      BY <1>2, <1>9, <2>5 DEF Cell, OwnKV
    <3> QED BY <2>3, <2>5, <3>1
  <2> QED BY <2>4, <2>5
<1> QED BY <1>5, <1>9

(* Each request of a batch is in one row of it.                             *)
LEMMA BatchRows ==
  ASSUME NEW b \in Batches
  PROVE  /\ \A i \in DOMAIN b : b[i] \in RowsOf(b) /\ (CHOOSE j \in DOMAIN b : b[j] = b[i]) = i
         /\ \A r \in RowsOf(b) : \E i \in DOMAIN b : b[i] = r
<1>1. \A i, j \in DOMAIN b : b[i] = b[j] => i = j
  BY BatchFacts
<1>2. \A i \in DOMAIN b : (CHOOSE j \in DOMAIN b : b[j] = b[i]) = i
  BY <1>1
<1> QED BY <1>2 DEF RowsOf

(* A position of the new run was written in this step, or its cell is none  *)
(* of those the step writes.                                                *)
LEMMA RunCovered ==
  ASSUME NEW n, NEW m, NEW x, Keeps(n, m, x), NEW f \in Nat, NEW e, e = n + m - x,
         NEW p \in Most(f, e - WindowSize) .. e - 1, p \notin StoredPositions(n, m, x)
  PROVE  /\ p \in Nat /\ f <= p /\ p < n /\ n - WindowSize <= p
         /\ \A q \in StoredPositions(n, m, x) : q % WindowSize # p % WindowSize
<1>1. WindowSize \in Nat \ {0}
  BY DraftWindowAssumption
<1>2. /\ n \in Nat /\ m \in Nat \ {0} /\ x \in Nat /\ x < m /\ (x > 0 => m <= WindowSize)
  BY DEF Keeps
<1>3. p \in Nat /\ f <= p /\ n + m - x - WindowSize <= p /\ p < n + m - x
  <2>1. e \in Nat
    BY <1>2
  <2>2. p \in Nat /\ f <= p /\ e - WindowSize <= p /\ p < e
    BY <1>1, <2>1 DEF Most
  <2>3. e = n + m - x
    OBVIOUS
  <2> HIDE DEF Most
  <2> QED BY <2>2, <2>3, <1>1, <1>2
<1>4. m <= WindowSize /\ StoredPositions(n, m, x) = n .. n + m - x - 1
  BY <1>1, <1>2, <1>3 DEF StoredPositions, Least
<1>5. p < n /\ n - WindowSize <= p
  BY <1>1, <1>2, <1>3, <1>4
<1>6. ASSUME NEW q \in n .. n + m - x - 1 PROVE q \in Nat /\ p < q + WindowSize /\ q < p + WindowSize /\ q # p
  BY <1>1, <1>2, <1>3, <1>5, <1>6
<1>7. \A q \in n .. n + m - x - 1 : q % WindowSize # p % WindowSize
  BY <1>3, <1>6, CellsDistinct
<1> QED BY <1>3, <1>4, <1>5, <1>7

(* What the histories and the draft of a request say after propose().       *)
LEMMA ProposeTracks ==
  ASSUME WindowInv, SlotInv, NEW b \in Batches, NEW plan \in Plans(b), Separable(plan),
         Propose(b, plan, BatchStarts(plan))
  PROVE  /\ raised' = raised
         /\ prefilled' = TRUE
         /\ \A r \in Reqs \ RowsOf(b) : since'[r] = since[r] /\ upto'[r] = upto[r]
         /\ since' \in [Reqs -> Nat] /\ upto' \in [Reqs -> Nat]
         /\ \A i \in DOMAIN b :
              /\ since'[b[i]] = (IF reqIdToSlot[b[i]] # None /\ upto[b[i]] = plan[i].start
                                 THEN since[b[i]] ELSE plan[i].start)
              /\ upto'[b[i]] = plan[i].start + plan[i].rows - plan[i].rejected
         /\ attended' = [r \in Reqs |->
              IF prefilled /\ r \in RowsOf(b)
              THEN WindowRead(cache'[reqIdToSlot'[r]], upto'[r] - 1) ELSE {}]
         /\ draftsAt' = [r \in Reqs |-> IF prefilled /\ r \in RowsOf(b) THEN upto'[r] ELSE 0]
<1> DEFINE ctx == Contexts(b, plan, BatchStarts(plan))
           rej == MaskedRejects(plan)
           Row(r) == CHOOSE i \in DOMAIN b : b[i] = r
           rows == [i \in DOMAIN b |-> CacheRow(activeSlotIndex', i)]
           End(i) == plan[i].start + plan[i].rows - plan[i].rejected
<1>0. ~ShapeError(plan, BatchStarts(plan))
  BY PlanIsShaped, NoShapeError DEF WindowInv
<1>1. /\ ResolveSlots(b, Cardinality(DOMAIN b))
      /\ attended' = [r \in Reqs |->
           IF prefilled /\ r \in RowsOf(b)
           THEN WindowRead(cache'[rows[Row(r)]], AnchorOf(ctx[Row(r)], rej[Row(r)])[2]) ELSE {}]
      /\ draftsAt' = [r \in Reqs |->
           IF prefilled /\ r \in RowsOf(b)
           THEN DraftStart(AnchorOf(ctx[Row(r)], rej[Row(r)])) ELSE 0]
      /\ TrackRuns(b, plan)
      /\ UNCHANGED raised /\ prefilled' = TRUE
  BY <1>0 DEF Propose
<1>2. /\ since' = [r \in Reqs |->
           IF r \in RowsOf(b)
           THEN IF reqIdToSlot[r] # None /\ upto[r] = plan[Row(r)].start
                THEN since[r] ELSE plan[Row(r)].start
           ELSE since[r]]
      /\ upto' = [r \in Reqs |->
           IF r \in RowsOf(b)
           THEN End(Row(r)) ELSE upto[r]]
  BY <1>1 DEF TrackRuns
<1>3. \A i \in DOMAIN b : b[i] \in Reqs /\ b[i] \in RowsOf(b) /\ Row(b[i]) = i
  BY PlanFacts, BatchRows
<1>4. \A r \in RowsOf(b) : Row(r) \in DOMAIN b
  BY BatchRows
<1>5. \A i \in DOMAIN b : rows[i] = reqIdToSlot'[b[i]]
  BY <1>1, ResolvedFacts
<1>6. \A i \in DOMAIN b : AnchorOf(ctx[i], rej[i]) = <<b[i], End(i) - 1>>
  <2> TAKE i \in DOMAIN b
  <2>1. AnchorOf(ctx[i], rej[i]) = <<b[i], plan[i].start + plan[i].rows - plan[i].rejected - 1>>
    BY WrittenFacts
  <2>2. plan[i].start \in Nat /\ plan[i].rows \in Nat /\ plan[i].rejected \in Nat
    BY PlanFacts DEF RowFacts
  <2>3. plan[i].start + plan[i].rows - plan[i].rejected - 1 = End(i) - 1
    BY <2>2
  <2> HIDE DEF ctx, rej, End
  <2> QED BY <2>1, <2>3
<1>7. \A i \in DOMAIN b : plan[i].start \in Nat /\ End(i) \in Nat
  <2> TAKE i \in DOMAIN b
  <2>1. RowFacts(plan[i]) BY PlanFacts
  <2>2. /\ plan[i].start \in Nat /\ plan[i].rows \in Nat
        /\ plan[i].rejected \in Nat /\ plan[i].rejected < plan[i].rows
    BY <2>1 DEF RowFacts
  <2> QED BY <2>2
<1> HIDE DEF ctx, rej, Row, rows, End
<1>8. \A r \in Reqs \ RowsOf(b) : since'[r] = since[r] /\ upto'[r] = upto[r]
  BY <1>2
<1>9. since' \in [Reqs -> Nat] /\ upto' \in [Reqs -> Nat]
  <2>1. since \in [Reqs -> Nat] /\ upto \in [Reqs -> Nat]
    BY DEF WindowInv
  <2>2. \A r \in RowsOf(b) : plan[Row(r)].start \in Nat /\ End(Row(r)) \in Nat
    BY <1>4, <1>7
  <2> QED BY <1>2, <2>1, <2>2
<1>10. ASSUME NEW i \in DOMAIN b
       PROVE  /\ since'[b[i]] = (IF reqIdToSlot[b[i]] # None /\ upto[b[i]] = plan[i].start
                                 THEN since[b[i]] ELSE plan[i].start)
              /\ upto'[b[i]] = End(i)
  BY <1>2, <1>3, <1>10
<1>11. ASSUME NEW r \in RowsOf(b)
       PROVE  /\ WindowRead(cache'[rows[Row(r)]], AnchorOf(ctx[Row(r)], rej[Row(r)])[2])
                   = WindowRead(cache'[reqIdToSlot'[r]], upto'[r] - 1)
              /\ DraftStart(AnchorOf(ctx[Row(r)], rej[Row(r)])) = upto'[r]
  <2>1. PICK i \in DOMAIN b : b[i] = r
    BY <1>11, BatchRows
  <2>2. Row(r) = i /\ rows[i] = reqIdToSlot'[r]
    BY <1>3, <1>5, <2>1
  <2>3. AnchorOf(ctx[i], rej[i])[2] = End(i) - 1 /\ End(i) \in Nat /\ upto'[r] = End(i)
    BY <1>6, <1>7, <1>10, <2>1
  <2> QED BY <2>2, <2>3 DEF DraftStart
<1>12. raised' = raised /\ prefilled' = TRUE
  BY <1>1
<1>13. /\ attended' = [r \in Reqs |->
              IF prefilled /\ r \in RowsOf(b)
              THEN WindowRead(cache'[reqIdToSlot'[r]], upto'[r] - 1) ELSE {}]
       /\ draftsAt' = [r \in Reqs |-> IF prefilled /\ r \in RowsOf(b) THEN upto'[r] ELSE 0]
  BY <1>1, <1>11
<1>14. \A i \in DOMAIN b :
         /\ since'[b[i]] = (IF reqIdToSlot[b[i]] # None /\ upto[b[i]] = plan[i].start
                            THEN since[b[i]] ELSE plan[i].start)
         /\ upto'[b[i]] = plan[i].start + plan[i].rows - plan[i].rejected
  BY <1>10 DEF End
<1> QED BY <1>8, <1>9, <1>12, <1>13, <1>14

-----------------------------------------------------------------------------
(* After propose() the unbroken run of each request of the batch is in the  *)
(* ring of its slot.                                                        *)
LEMMA ProposeKeepsRun ==
  ASSUME WindowInv, SlotInv, NEW b \in Batches, NEW plan \in Plans(b), Separable(plan),
         Propose(b, plan, BatchStarts(plan)),
         NEW i \in DOMAIN b, NEW p \in Most(since'[b[i]], upto'[b[i]] - WindowSize) .. upto'[b[i]] - 1
  PROVE  p \in Nat /\ cache'[reqIdToSlot'[b[i]]][p % WindowSize] = <<b[i], p>>
<1> DEFINE r == b[i]
           n == plan[i].start
           m == plan[i].rows
           x == plan[i].rejected
           e == upto'[r]
<1>1. r \in Reqs /\ Keeps(n, m, x)
  BY PlanFacts DEF RowFacts, Keeps
<1>2. /\ since'[r] = (IF reqIdToSlot[r] # None /\ upto[r] = n THEN since[r] ELSE n)
      /\ upto'[r] = n + m - x
      /\ since'[r] \in Nat
  BY <1>1, ProposeTracks
<1>3. /\ \A q \in StoredPositions(n, m, x) : cache'[reqIdToSlot'[r]][q % WindowSize] = <<r, q>>
      /\ \A k \in Ring : (\A q \in StoredPositions(n, m, x) : q % WindowSize # k)
                           => cache'[reqIdToSlot'[r]][k] = cache[reqIdToSlot'[r]][k]
  BY ProposeStores DEF Written
<1>4. CASE p \in StoredPositions(n, m, x)
  <2>1. StoredPositions(n, m, x) \subseteq Nat
    BY <1>1, StoredApart DEF Keeps
  <2> QED BY <1>3, <1>4, <2>1
<1>5. CASE p \notin StoredPositions(n, m, x)
  <2> HIDE DEF n, m, x
  <2>1. /\ p \in Nat /\ since'[r] <= p /\ p < n /\ n - WindowSize <= p
        /\ \A q \in StoredPositions(n, m, x) : q % WindowSize # (p % WindowSize)
    <3>1. p \in Most(since'[r], e - WindowSize) .. e - 1
      OBVIOUS
    <3>2. e = n + m - x
      BY <1>2
    <3> HIDE DEF e, r
    <3>3. since'[r] \in Nat
      BY <1>2
    <3> QED BY <1>1, <1>5, <3>1, <3>2, <3>3, RunCovered
  <2>2. n \in Nat /\ WindowSize \in Nat \ {0}
    BY <1>1, DraftWindowAssumption DEF Keeps
  <2>3. reqIdToSlot[r] # None /\ upto[r] = n /\ since'[r] = since[r]
    BY <1>2, <2>1, <2>2
  <2>4. p \in OwnRun(r)
    BY <1>2, <2>1, <2>2, <2>3 DEF OwnRun, Most
  <2>5. r \in Mapped /\ r \in RowsOf(b)
    BY <1>1, <2>3, BatchRows DEF Mapped, r
  <2>6. cache[reqIdToSlot[r]][p % WindowSize] = <<r, p>>
    BY <2>4, <2>5 DEF WindowInv, RunStored
  <2>7. reqIdToSlot'[r] = reqIdToSlot[r]
    <3>1. ResolveSlots(b, Cardinality(DOMAIN b))
      BY DEF Propose
    <3> QED BY <2>5, <3>1, ResolvedFacts
  <2>8. p % WindowSize \in Ring
    BY <2>1, CellOfPosition DEF Ring
  <2> QED BY <1>3, <2>1, <2>6, <2>7, <2>8 DEF r
<1> QED BY <1>4, <1>5

(* propose() keeps the invariant of the windows and drafts from them.       *)
LEMMA ProposeKeepsWindows ==
  ASSUME WindowInv, SlotInv, NEW b \in Batches, NEW plan \in Plans(b), Separable(plan),
         Propose(b, plan, BatchStarts(plan))
  PROVE  /\ since' \in [Reqs -> Nat] /\ upto' \in [Reqs -> Nat]
         /\ DOMAIN cache' = Slots /\ \A s \in Slots : DOMAIN cache'[s] = Ring
         /\ \A r \in Mapped' : RunStored(r)'
         /\ DraftSeesOwnRun'
         /\ ~raised'
<1>1. Mapped' = RowsOf(b)
  <2>1. ResolveSlots(b, Cardinality(DOMAIN b))
    BY DEF Propose
  <2> QED BY <2>1, ResolvedFacts
<1>2. \A r \in RowsOf(b) : \E i \in DOMAIN b : b[i] = r
  BY BatchRows
<1>3. ASSUME NEW r \in RowsOf(b), NEW p \in Most(since'[r], upto'[r] - WindowSize) .. upto'[r] - 1
      PROVE  p \in Nat /\ cache'[reqIdToSlot'[r]][p % WindowSize] = <<r, p>>
  <2>1. PICK i \in DOMAIN b : b[i] = r
    BY <1>2, <1>3
  <2>2. \A q \in Most(since'[b[i]], upto'[b[i]] - WindowSize) .. upto'[b[i]] - 1 :
           q \in Nat /\ cache'[reqIdToSlot'[b[i]]][q % WindowSize] = <<b[i], q>>
    BY ProposeKeepsRun
  <2> QED BY <1>3, <2>1, <2>2
<1>4. \A r \in Mapped' : RunStored(r)'
  BY <1>1, <1>3 DEF RunStored, OwnRun
<1>5. ASSUME NEW r \in Reqs, attended'[r] # {}
      PROVE  /\ OwnKV(r, Most(since'[r], upto'[r] - WindowSize) .. upto'[r] - 1) \subseteq attended'[r]
             /\ draftsAt'[r] = upto'[r]
  <2>1. r \in RowsOf(b)
    BY <1>5, ProposeTracks
  <2>2. PICK i \in DOMAIN b : b[i] = r
    BY <1>2, <2>1
  <2>3. /\ attended'[r] = WindowRead(cache'[reqIdToSlot'[r]], upto'[r] - 1)
        /\ draftsAt'[r] = upto'[r] /\ upto'[r] \in Nat
    BY <1>5, <2>2, ProposeTracks
  <2>4. ASSUME NEW p \in Most(since'[r], upto'[r] - WindowSize) .. upto'[r] - 1
        PROVE  <<r, p>> \in attended'[r]
    <3>1. p \in Nat /\ cache'[reqIdToSlot'[r]][p % WindowSize] = <<r, p>>
      BY <1>3, <2>1, <2>4
    <3>2. p % WindowSize \in 0 .. WindowSize - 1 /\ p % WindowSize <= p
      BY <3>1, CellOfPosition
    <3>3. p < upto'[r]
      BY <2>3, <2>4, <3>1
    <3>4. p % WindowSize \in 0 .. Least(upto'[r] - 1 + 1, WindowSize) - 1
      BY <2>3, <3>1, <3>2, <3>3, DraftWindowAssumption DEF Least
    <3> QED BY <2>3, <3>1, <3>4 DEF WindowRead
  <2> QED BY <2>3, <2>4 DEF OwnKV
<1>6. DraftSeesOwnRun'
  BY <1>5 DEF DraftSeesOwnRun, OwnRun, OwnKV
<1>7. ~raised'
  BY ProposeTracks DEF WindowInv
<1> QED BY <1>4, <1>6, <1>7, ProposeTracks, ProposeStores

-----------------------------------------------------------------------------
(* The windows at construction.                                             *)
LEMMA WindowInvInitially == Init => WindowInv
<1> SUFFICES ASSUME Init PROVE WindowInv
  OBVIOUS
<1>1. config \in Configs /\ config.promptLen \in Nat
  BY DraftWindowAssumption DEF Init
<1>2. /\ computed \in [Reqs -> Nat] /\ known \in [Reqs -> Nat]
      /\ since \in [Reqs -> Nat] /\ upto \in [Reqs -> Nat]
  BY <1>1 DEF Init
<1>3. DOMAIN cache = Slots /\ \A s \in Slots : DOMAIN cache[s] = Ring
  BY DEF Init, Ring
<1>4. Mapped = {}
  BY DEF Init, SlotMapInit, Mapped
<1>5. DraftSeesOwnRun
  BY DEF Init, DraftSeesOwnRun
<1>6. ~raised
  BY DEF Init
<1> QED BY <1>1, <1>2, <1>3, <1>4, <1>5, <1>6 DEF WindowInv

(* Where no draft is made, or none of the fields of the invariant but the   *)
(* scheduler's changes, the windows stay as they were.                      *)
LEMMA WindowsUntouched ==
  ASSUME WindowInv, UNCHANGED <<slotVars, cache, raised, since, upto>>,
         UNCHANGED drafted \/ NoDraft
  PROVE  /\ since' \in [Reqs -> Nat] /\ upto' \in [Reqs -> Nat]
         /\ DOMAIN cache' = Slots /\ \A s \in Slots : DOMAIN cache'[s] = Ring
         /\ \A r \in Mapped' : RunStored(r)'
         /\ DraftSeesOwnRun'
         /\ ~raised'
<1>1. \A r \in Mapped' : RunStored(r)'
  BY DEF WindowInv, RunStored, OwnRun, Mapped, slotVars
<1>2. CASE NoDraft
  BY <1>1, <1>2 DEF WindowInv, NoDraft, DraftSeesOwnRun
<1>3. CASE UNCHANGED drafted
  BY <1>1, <1>3 DEF WindowInv, drafted, DraftSeesOwnRun, OwnRun
<1> QED BY <1>2, <1>3

(* The configuration stays.                                                 *)
LEMMA ConfigStays ==
  ASSUME [Next]_vars PROVE config' = config
  BY DEF Next, Step, Preempt, Finish, vars

(* With one request in flight, or under the mask, every step is separable.  *)
LEMMA StepsSeparable ==
  ASSUME AlwaysSeparable, NEW b \in Batches, Schedulable(b), NEW plan \in Plans(b)
  PROVE  Separable(plan)
<1>1. CASE MaskOn
  BY <1>1 DEF Separable
<1>2. CASE config.maxRunning = 1
  <2>1. \A i, j \in DOMAIN b : i = j
    <3> SUFFICES ASSUME NEW i \in DOMAIN b, NEW j \in DOMAIN b, i # j PROVE FALSE
      OBVIOUS
    <3>1. b[i] # b[j] /\ b[i] \in RowsOf(b) /\ b[j] \in RowsOf(b) /\ RowsOf(b) \subseteq Reqs
      BY BatchFacts DEF RowsOf
    <3>2. IsFiniteSet(Running \cup RowsOf(b))
      BY <3>1, SlotMapAssumption, FS_Subset DEF Running
    <3>3. Cardinality({b[i], b[j]}) = 2
      <4> DEFINE one == {b[i]}
      <4>1. IsFiniteSet(one) /\ Cardinality(one) = 1 /\ b[j] \notin one
        BY <3>1, FS_Singleton
      <4>2. one \cup {b[j]} = {b[i], b[j]}
        OBVIOUS
      <4> HIDE DEF one
      <4>3. Cardinality(one \cup {b[j]}) = Cardinality(one) + 1
        BY <4>1, FS_AddElement
      <4> QED BY <4>1, <4>2, <4>3
    <3>4. {b[i], b[j]} \subseteq Running \cup RowsOf(b)
      BY <3>1
    <3>5. Cardinality({b[i], b[j]}) <= Cardinality(Running \cup RowsOf(b))
      BY <3>2, <3>4, FS_Subset
    <3>6. Cardinality(Running \cup RowsOf(b)) <= 1 /\ Cardinality(Running \cup RowsOf(b)) \in Nat
      BY <1>2, <3>2, FS_CardinalityType DEF Schedulable
    <3> DEFINE low == Cardinality({b[i], b[j]})
               all == Cardinality(Running \cup RowsOf(b))
    <3>7. low = 2 /\ low <= all /\ all <= 1 /\ all \in Nat
      BY <3>3, <3>5, <3>6
    <3> HIDE DEF low, all
    <3> QED BY <3>7
  <2>2. DOMAIN ContextRows(plan) = DOMAIN b
    BY DEF Plans, ContextRows
  <2> QED BY <2>1, <2>2 DEF Uniform, Separable
<1> QED BY <1>1, <1>2 DEF AlwaysSeparable

(* Every step of the engine keeps the invariant of the windows.             *)
LEMMA WindowInvInductive ==
  ASSUME AlwaysSeparable, SlotInv, WindowInv, [Next]_vars
  PROVE  WindowInv'
<1>1. ASSUME NEW b \in { b \in Batches : Schedulable(b) }, NEW plan \in Plans(b), Step(b, plan)
      PROVE  WindowInv'
  <2> DEFINE planOf == [r \in RowsOf(b) |-> plan[CHOOSE i \in DOMAIN b : b[i] = r]]
  <2>0. b \in Batches
    BY <1>1
  <2>1. \A r \in RowsOf(b) : RowFacts(planOf[r])
    <3>1. \A r \in RowsOf(b) : (CHOOSE i \in DOMAIN b : b[i] = r) \in DOMAIN b
      BY <2>0, BatchRows
    <3> QED BY <2>0, <3>1, <1>1, PlanFacts
  <2>2. /\ config' = config
        /\ computed' = [r \in Reqs |->
             IF r \in RowsOf(b) THEN planOf[r].start + planOf[r].rows - planOf[r].rejected
             ELSE computed[r]]
        /\ known' = [r \in Reqs |->
             IF r \in RowsOf(b) THEN known[r] + planOf[r].sampled ELSE known[r]]
    BY <1>1 DEF Step
  <2> HIDE DEF planOf
  <2>3. config' \in Configs /\ computed' \in [Reqs -> Nat] /\ known' \in [Reqs -> Nat]
    <3>1. \A r \in RowsOf(b) : /\ planOf[r].start + planOf[r].rows - planOf[r].rejected \in Nat
                               /\ planOf[r].sampled \in Nat
      <4> TAKE r \in RowsOf(b)
      <4>1. RowFacts(planOf[r])
        BY <2>1
      <4> QED BY <4>1 DEF RowFacts
    <3>2. config \in Configs /\ computed \in [Reqs -> Nat] /\ known \in [Reqs -> Nat]
      BY DEF WindowInv
    <3> QED BY <2>2, <3>1, <3>2
  <2>4. /\ since' \in [Reqs -> Nat] /\ upto' \in [Reqs -> Nat]
        /\ DOMAIN cache' = Slots /\ \A s \in Slots : DOMAIN cache'[s] = Ring
        /\ \A r \in Mapped' : RunStored(r)'
        /\ DraftSeesOwnRun'
        /\ ~raised'
    <3>1. CASE InputFits(plan)
      <4>1. Propose(b, plan, BatchStarts(plan))
        BY <1>1, <2>0, <3>1, StepProposes DEF WindowInv
      <4>2. Separable(plan)
        BY <1>1, <2>0, StepsSeparable
      <4> QED BY <1>1, <2>0, <4>1, <4>2, ProposeKeepsWindows
    <3>2. CASE ~InputFits(plan)
      <4>1. SkipDraft
        BY <1>1, <3>2 DEF Step
      <4> QED BY <4>1, WindowsUntouched DEF SkipDraft
    <3> QED BY <3>1, <3>2
  <2> QED BY <2>3, <2>4 DEF WindowInv
<1>2. ASSUME NEW r \in Reqs, Preempt(r) \/ Finish(r)
      PROVE  WindowInv'
  <2>1. config' \in Configs /\ computed' \in [Reqs -> Nat] /\ known' \in [Reqs -> Nat]
    BY <1>2 DEF WindowInv, Preempt, Finish
  <2>2. UNCHANGED <<slotVars, cache, raised, since, upto>> /\ UNCHANGED drafted
    BY <1>2 DEF Preempt, Finish
  <2> QED BY <2>1, <2>2, WindowsUntouched DEF WindowInv
<1>3. CASE UNCHANGED vars
  <2>1. config' \in Configs /\ computed' \in [Reqs -> Nat] /\ known' \in [Reqs -> Nat]
    BY <1>3 DEF WindowInv, vars, engineVars
  <2>2. UNCHANGED <<slotVars, cache, raised, since, upto>> /\ UNCHANGED drafted
    BY <1>3 DEF vars
  <2> QED BY <2>1, <2>2, WindowsUntouched DEF WindowInv
<1> QED BY <1>1, <1>2, <1>3 DEF Next

(* The invariant of the engine, in every configuration.                     *)
EngineInv == SlotInv /\ config \in Configs /\ (AlwaysSeparable => WindowInv)

(* It holds at the start,                                                   *)
LEMMA EngineInvInitially == Init => EngineInv
  BY WindowInvInitially, SlotInvInitially DEF Init, EngineInv

(* and in every step.                                                       *)
LEMMA EngineInvInductive ==
  ASSUME EngineInv, [Next]_vars PROVE EngineInv'
<1>1. config' = config /\ AlwaysSeparable' = AlwaysSeparable
  BY ConfigStays DEF AlwaysSeparable, MaskOn
<1>2. SlotInv'
  BY SlotInvInductive, EngineStepIsSlotMapStep DEF EngineInv
<1> QED BY <1>1, <1>2, WindowInvInductive DEF EngineInv

(* Under the mask, or with one request in flight, a draft attends to every  *)
(* position of its request's unbroken run that the window still covers, and *)
(* starts at the position after it: no store of another request, no slot    *)
(* reuse, no condense, no wrap of the ring and no rejected suffix costs it  *)
(* one.                                                                     *)
THEOREM DraftAlwaysSeesOwnRun ==
  Spec => [](AlwaysSeparable => DraftSeesOwnRun)
<1>1. EngineInv => (AlwaysSeparable => DraftSeesOwnRun)
  BY DEF EngineInv, WindowInv
<1>2. EngineInv /\ [Next]_vars => EngineInv'
  BY EngineInvInductive
<1> QED BY <1>1, <1>2, EngineInvInitially, PTL DEF Spec

-----------------------------------------------------------------------------
(* The ranges of the fields, in every configuration: also where the mask is *)
(* off and a batch whose rows cannot be told apart is cut into equal shares.*)

(* A position among g running sums lies in the segment of some row.         *)
LEMMA SegmentExists ==
  ASSUME NEW n \in Nat, NEW lens, NEW loc, SumsUpTo(n, lens, loc), NEW g \in 1 .. loc[n]
  PROVE  \E i \in 1 .. n : loc[i - 1] < g /\ g <= loc[i]
<1>1. loc \in [0 .. n -> Nat] /\ loc[0] = 0
  BY DEF SumsUpTo
<1>2. n \in 1 .. n /\ loc[n] \in Nat /\ g \in Nat /\ 1 <= g /\ g <= loc[n]
  BY <1>1
<1> DEFINE Reached == { i \in 1 .. n : g <= loc[i] }
<1>3. Reached \in SUBSET Nat /\ Reached # {}
  BY <1>2
<1>4. PICK i \in Reached : \A k \in Reached : i <= k
  <2> HIDE DEF Reached
  <2> QED BY <1>3, LeastExists
<1>5. i \in 1 .. n /\ g <= loc[i] /\ i - 1 \in 0 .. n /\ ~(i <= i - 1)
  OBVIOUS
<1>6. CASE i = 1
  BY <1>1, <1>2, <1>5, <1>6
<1>7. CASE i # 1
  <2>1. i - 1 \in 1 .. n /\ loc[i - 1] \in Nat
    BY <1>1, <1>5, <1>7
  <2>2. i - 1 \notin Reached
    BY <1>4, <1>5
  <2>3. ~(g <= loc[i - 1])
    BY <2>1, <2>2
  <2> QED BY <1>2, <1>5, <2>1, <2>3
<1> QED BY <1>6, <1>7

(* What is in range besides the types: a request that can still be          *)
(* scheduled has room for one more token.                                   *)
RangeInv ==
  /\ TypeOK
  /\ SlotsPartition
  /\ config \in Configs
  /\ \A r \in Reqs : phase[r] # "finished" => known[r] < MaxModelLen

(* The configured lengths are numbers.                                      *)
LEMMA ConfigFacts ==
  ASSUME RangeInv
  PROVE  /\ MaxModelLen \in Nat /\ config.promptLen \in 1 .. MaxModelLen - 1
         /\ config.maxChunk \in Nat \ {0} /\ config.prefixHits \subseteq Nat
         /\ SpecTokens \in Nat \ {0} /\ WindowSize \in Nat \ {0}
  BY DraftWindowAssumption DEF RangeInv, MaxModelLen

(* What the scheduler asks of a request stays below its longest sequence,   *)
(* and so do the tokens it samples.                                         *)
InRange(r, o) ==
  /\ RowFacts(o)
  /\ o.start + o.rows <= MaxModelLen
  /\ known[r] + o.sampled <= MaxModelLen

(* Every chunk and every verified block is in range.                        *)
LEMMA OptionInRange ==
  ASSUME RangeInv, NEW r \in Reqs, phase[r] # "finished", NEW o \in Options(r)
  PROVE  InRange(r, o)
<1>1. /\ MaxModelLen \in Nat /\ SpecTokens \in Nat \ {0} /\ config.maxChunk \in Nat \ {0}
      /\ known[r] \in Nat /\ known[r] < MaxModelLen
  BY ConfigFacts DEF RangeInv, TypeOK
<1>2. /\ config \in Configs /\ computed \in [Reqs -> Nat] /\ known \in [Reqs -> Nat]
  BY <1>1 DEF RangeInv, TypeOK
<1>3. RowFacts(o)
  BY <1>2, OptionFacts
<1>4. CASE o \in Prefills(r)
  <2>1. PICK n \in Starts(r), c \in 1 .. config.maxChunk : n + c <= known[r] /\ o = Chunk(r, n, c)
    BY <1>4 DEF Prefills
  <2>2. o.start = n /\ o.rows = c /\ o.sampled \in {0, 1}
    BY <2>1 DEF Chunk
  <2>3. o.start + o.rows <= known[r]
    BY <2>1, <2>2
  <2>4. o.start \in Nat /\ o.rows \in Nat
    BY <1>3 DEF RowFacts
  <2> QED BY <1>1, <1>3, <2>2, <2>3, <2>4 DEF InRange
<1>5. CASE o \in Decodes(r)
  <2>1. PICK d \in 1 .. SpecTokens :
             known[r] + d < MaxModelLen /\ \E a \in 0 .. d : o = Block(r, d, a)
    BY <1>5 DEF Decodes
  <2>2. PICK a \in 0 .. d : o = Block(r, d, a)
    BY <2>1
  <2>3. d \in Nat /\ a \in Nat /\ a <= d
    BY <1>1, <2>1, <2>2
  <2>4. o.start = known[r] - 1 /\ o.rows = 1 + d /\ o.sampled = 1 + a
    BY <2>2 DEF Block
  <2> QED BY <1>1, <1>3, <2>1, <2>3, <2>4 DEF InRange
<1> QED BY <1>4, <1>5 DEF Options

(* The counters are numbers.                                                *)
LEMMA RangeTypes ==
  ASSUME RangeInv
  PROVE  config \in Configs /\ computed \in [Reqs -> Nat] /\ known \in [Reqs -> Nat]
<1>1. MaxModelLen \in Nat
  BY ConfigFacts
<1> QED BY <1>1 DEF RangeInv, TypeOK

(* The rows of a scheduled batch are in range.                              *)
LEMMA PlanInRange ==
  ASSUME RangeInv, NEW b \in Batches, Schedulable(b), NEW plan \in Plans(b), NEW i \in DOMAIN b
  PROVE  b[i] \in Reqs /\ InRange(b[i], plan[i])
<1>1. b[i] \in Reqs /\ b[i] \in RowsOf(b)
  BY BatchFacts DEF RowsOf
<1>2. plan[i] \in Options(b[i]) /\ phase[b[i]] # "finished"
  BY <1>1 DEF Plans, Schedulable
<1> QED BY <1>1, <1>2, OptionInRange

-----------------------------------------------------------------------------
(* A row's context is a non-empty list of positions of some requests, none  *)
(* of them beyond the longest sequence.                                     *)
InKV(ctx) == \E m \in Nat \ {0} : DOMAIN ctx = 1 .. m /\ \A j \in 1 .. m : ctx[j] \in KV

(* What is stored of such a list and its anchor are of it.                  *)
LEMMA CutInRange ==
  ASSUME NEW ctx, InKV(ctx), NEW x \in Nat
  PROVE  StoredRows(ctx, x) \subseteq KV /\ AnchorOf(ctx, x) \in KV
<1>1. PICK m \in Nat \ {0} : DOMAIN ctx = 1 .. m /\ \A j \in 1 .. m : ctx[j] \in KV
  BY DEF InKV
<1>2. Cardinality(DOMAIN ctx) = m
  BY <1>1, FS_Interval
<1>3. WindowSize \in Nat \ {0}
  BY DraftWindowAssumption
<1> DEFINE kept == Least(m, WindowSize)
           top == Most(kept - x, 1)
<1>4. kept \in 1 .. m
  BY <1>3 DEF Least
<1>5. top \in 1 .. kept
  <2> HIDE DEF kept
  <2> QED BY <1>4 DEF Most
<1>6. StoredRows(ctx, x) = { ctx[j] : j \in (m - kept + 1) .. (m - kept + top) }
  BY <1>2 DEF StoredRows
<1>7. (m - kept + 1) .. (m - kept + top) \subseteq 1 .. m
  <2> HIDE DEF kept, top
  <2> QED BY <1>4, <1>5
<1>8. StoredRows(ctx, x) \subseteq KV
  <2> HIDE DEF kept, top
  <2> QED BY <1>1, <1>6, <1>7
<1>9. Most(m - x, 1) \in 1 .. m
  BY DEF Most
<1> QED BY <1>1, <1>2, <1>8, <1>9 DEF AnchorOf

(* A request's own rows are such a list.                                    *)
LEMMA OwnRowsInRange ==
  ASSUME RangeInv, NEW b \in Batches, Schedulable(b), NEW plan \in Plans(b), NEW i \in DOMAIN b
  PROVE  /\ ContextRows(plan)[i] \in Nat \ {0}
         /\ DOMAIN OwnRows(b, plan, i) = 1 .. ContextRows(plan)[i]
         /\ \A j \in 1 .. ContextRows(plan)[i] : OwnRows(b, plan, i)[j] \in KV
<1> DEFINE o == plan[i]
           m == ContextRows(plan)[i]
<1>1. b[i] \in Reqs /\ InRange(b[i], o)
  BY PlanInRange
<1>2. /\ o.start \in Nat /\ o.rows \in Nat \ {0} /\ o.rejected \in Nat /\ o.rejected < o.rows
      /\ o.start + o.rows <= MaxModelLen
  BY <1>1 DEF InRange, RowFacts
<1>3. MaxModelLen \in Nat
  BY ConfigFacts
<1>4. m = IF MaskOn THEN o.rows ELSE o.rows - o.rejected
  BY DEF Plans, ContextRows
<1>5. m \in Nat \ {0} /\ m <= o.rows
  <2> HIDE DEF m, o
  <2> QED BY <1>2, <1>4
<1>6. OwnRows(b, plan, i) = [j \in 1 .. m |-> <<b[i], o.start + j - 1>>]
  BY DEF OwnRows
<1>7. ASSUME NEW j \in 1 .. m PROVE <<b[i], o.start + j - 1>> \in KV
  <2>1. o.start + j - 1 \in 0 .. MaxModelLen - 1
    <3> HIDE DEF m, o
    <3> QED BY <1>2, <1>3, <1>5
  <2> QED BY <1>1, <2>1 DEF KV, Position
<1> HIDE DEF m, o
<1>8. DOMAIN OwnRows(b, plan, i) = 1 .. m /\ \A j \in 1 .. m : OwnRows(b, plan, i)[j] \in KV
  BY <1>6, <1>7
<1> QED BY <1>5, <1>8 DEF m

(* The flat rows of a step are rows of its requests, at least one in all.   *)
LEMMA FlatRowsInRange ==
  ASSUME RangeInv, NEW b \in Batches, Schedulable(b), NEW plan \in Plans(b)
  PROVE  /\ TotalRows(ContextRows(plan)) \in Nat \ {0}
         /\ DOMAIN FlatRows(b, plan) = 1 .. TotalRows(ContextRows(plan))
         /\ \A g \in 1 .. TotalRows(ContextRows(plan)) : FlatRows(b, plan)[g] \in KV
<1> DEFINE lens == ContextRows(plan)
           loc == QueryStartLoc(lens)
<1>1. PICK n \in Nat \ {0} : DOMAIN b = 1 .. n
  BY BatchFacts, SlotMapAssumption
<1>2. DOMAIN lens = 1 .. n
  BY <1>1 DEF Plans, ContextRows
<1>3. \A i \in 1 .. n : lens[i] \in Nat \ {0}
  BY <1>1, OwnRowsInRange
<1>4. Cardinality(DOMAIN b) = n /\ Cardinality(DOMAIN lens) = n
  BY <1>1, <1>2, FS_Interval
<1>5. TotalRows(lens) = loc[n]
  BY <1>4 DEF TotalRows
<1> DEFINE card == Cardinality(DOMAIN b)
           Seg(g) == CHOOSE i \in 1 .. card : loc[i - 1] < g /\ g <= loc[i]
<1>6. FlatRows(b, plan) = [g \in 1 .. loc[card] |-> OwnRows(b, plan, Seg(g))[g - loc[Seg(g) - 1]]]
  BY DEF FlatRows
<1> HIDE DEF card
<1>7. SumsUpTo(n, lens, loc)
  <2> HIDE DEF lens
  <2> QED BY <1>2, <1>3, StartLocIs
<1>8. loc \in [0 .. n -> Nat] /\ \A i \in 1 .. n : loc[i] = loc[i - 1] + lens[i]
  <2> HIDE DEF loc, lens
  <2> QED BY <1>7 DEF SumsUpTo
<1>9. \A i \in 1 .. n :
         /\ DOMAIN OwnRows(b, plan, i) = 1 .. lens[i]
         /\ \A j \in 1 .. lens[i] : OwnRows(b, plan, i)[j] \in KV
  BY <1>1, OwnRowsInRange
<1> HIDE DEF lens, loc
<1>10. loc[n] \in Nat \ {0}
  <2>1. n \in 1 .. n /\ n - 1 \in 0 .. n
    BY <1>1
  <2>2. loc[n] = loc[n - 1] + lens[n] /\ loc[n - 1] \in Nat /\ lens[n] \in Nat \ {0}
    BY <1>3, <1>8, <2>1
  <2> QED BY <2>2
<1>11. ASSUME NEW g \in 1 .. loc[n]
       PROVE  OwnRows(b, plan, Seg(g))[g - loc[Seg(g) - 1]] \in KV
  <2>1. \E i \in 1 .. card : loc[i - 1] < g /\ g <= loc[i]
    <3>1. \E i \in 1 .. n : loc[i - 1] < g /\ g <= loc[i]
      BY <1>7, SegmentExists
    <3> QED BY <1>4, <3>1 DEF card
  <2> DEFINE i == Seg(g)
  <2>2. i \in 1 .. n /\ loc[i - 1] < g /\ g <= loc[i]
    <3>1. i \in 1 .. card /\ loc[i - 1] < g /\ g <= loc[i]
      BY <2>1
    <3> QED BY <1>4, <3>1 DEF card
  <2> HIDE DEF i
  <2>3. i - 1 \in 0 .. n /\ loc[i] = loc[i - 1] + lens[i]
    BY <1>8, <2>2
  <2>4. loc[i - 1] \in Nat /\ lens[i] \in Nat /\ g \in Nat
    BY <1>3, <1>8, <1>10, <2>2, <2>3
  <2>5. g - loc[i - 1] \in 1 .. lens[i]
    BY <2>2, <2>3, <2>4
  <2>6. OwnRows(b, plan, i)[g - loc[i - 1]] \in KV
    BY <1>9, <2>2, <2>5
  <2> QED BY <2>6 DEF i
<1> HIDE DEF Seg
<1>12. DOMAIN FlatRows(b, plan) = 1 .. loc[n] /\ \A g \in 1 .. loc[n] : FlatRows(b, plan)[g] \in KV
  <2>1. card = n
    BY <1>4 DEF card
  <2> QED BY <1>6, <1>11, <2>1
<1> QED BY <1>5, <1>10, <1>12 DEF lens

(* Whatever propose() does not refuse, it cuts into such lists: own rows,   *)
(* or equal shares of the flat rows.                                        *)
LEMMA ContextInRange ==
  ASSUME RangeInv, NEW b \in Batches, Schedulable(b), NEW plan \in Plans(b),
         ~ShapeError(plan, BatchStarts(plan)), NEW i \in DOMAIN b
  PROVE  InKV(Contexts(b, plan, BatchStarts(plan))[i])
<1> DEFINE Apart == Uniform(ContextRows(plan)) \/ TakesRaggedPath(plan, BatchStarts(plan))
<1>1. CASE Apart
  <2>1. Contexts(b, plan, BatchStarts(plan))[i] = OwnRows(b, plan, i)
    BY <1>1 DEF Contexts
  <2> QED BY <2>1, OwnRowsInRange DEF InKV
<1>2. CASE ~Apart
  <2> DEFINE total == TotalRows(ContextRows(plan))
             flat == FlatRows(b, plan)
  <2>1. PICK n \in Nat \ {0} : DOMAIN b = 1 .. n
    BY BatchFacts, SlotMapAssumption
  <2>2. Cardinality(DOMAIN b) = n /\ DOMAIN plan = DOMAIN b
    BY <2>1, FS_Interval DEF Plans
  <2>3. total % n = 0
    BY <1>2, <2>1, <2>2 DEF ShapeError, ViewRaises
  <2>4. total \in Nat \ {0} /\ DOMAIN flat = 1 .. total /\ \A g \in 1 .. total : flat[g] \in KV
    BY FlatRowsInRange
  <2>5. Cardinality(DOMAIN flat) = total
    <3> HIDE DEF total, flat
    <3> QED BY <2>4, FS_Interval
  <2>6. Contexts(b, plan, BatchStarts(plan))[i] = [j \in 1 .. (total \div n) |-> flat[(i - 1) * (total \div n) + j]]
    <3>1. Contexts(b, plan, BatchStarts(plan)) = EqualShares(b, plan)
      BY <1>2 DEF Contexts
    <3> HIDE DEF total
    <3> QED BY <2>2, <2>5, <3>1 DEF EqualShares
  <2> DEFINE share == total \div n
  <2>7. share \in Nat /\ total = n * share
    <3> HIDE DEF total
    <3>1. total \in Nat /\ n \in Nat /\ n > 0
      BY <2>4
    <3>2. total \div n \in Nat /\ total = n * (total \div n) + (total % n)
      BY <3>1
    <3> QED BY <2>3, <3>1, <3>2
  <2> HIDE DEF total, flat, share
  <2>8. share # 0
    BY <2>4, <2>7
  <2>9. ASSUME NEW j \in 1 .. share PROVE (i - 1) * share + j \in 1 .. total
    <3>1. i \in Nat /\ 1 <= i /\ i <= n /\ j \in Nat /\ 1 <= j /\ j <= share
      BY <2>1, <2>7
    <3> DEFINE before == (i - 1) * share
               after == (n - i) * share
    <3>2. before \in Nat /\ after \in Nat
      BY <2>7, <3>1
    <3>3. total = before + share + after
      BY <2>7, <3>1
    <3> HIDE DEF before, after
    <3>4. before + j \in 1 .. total
      BY <2>7, <3>1, <3>2, <3>3
    <3> QED BY <3>4 DEF before
  <2>10. Contexts(b, plan, BatchStarts(plan))[i] = [j \in 1 .. share |-> flat[(i - 1) * share + j]]
    BY <2>6 DEF share
  <2>11. \A j \in 1 .. share : flat[(i - 1) * share + j] \in KV
    BY <2>4, <2>9
  <2> QED BY <2>7, <2>8, <2>10, <2>11 DEF InKV
<1> QED BY <1>1, <1>2

-----------------------------------------------------------------------------
(* The lasting writes of a row are among its writes.                        *)
LEMMA LastingWritesFacts ==
  ASSUME NEW writes, NEW won \in LastingWrites(writes), NEW i \in DOMAIN writes
  PROVE  won[i] \subseteq writes[i]
  BY DEF LastingWrites

(* The ring cells hold KV of the requests, or nothing.                      *)
Rings == [Slots -> [Ring -> KV \cup {None}]]

(* A store of such lists leaves such rings.                                 *)
LEMMA StoreInRange ==
  ASSUME RangeInv, NEW rowOfSlot, NEW writes, StoreMainKv(rowOfSlot, writes),
         \A s \in DOMAIN rowOfSlot : rowOfSlot[s] \in DOMAIN writes,
         \A i \in DOMAIN writes : writes[i] \subseteq KV
  PROVE  cache' \in Rings
<1> DEFINE Cells(won, s, k) == { t \in won[rowOfSlot[s]] : Cell(t) = k }
           After(won, s, k) == IF Cells(won, s, k) = {} THEN cache[s][k]
                               ELSE CHOOSE t \in Cells(won, s, k) : TRUE
<1>1. PICK won \in LastingWrites(writes) :
        cache' = [s \in Slots |-> IF s \notin DOMAIN rowOfSlot THEN cache[s]
                                  ELSE [k \in DOMAIN cache[s] |-> After(won, s, k)]]
  BY Zenon DEF StoreMainKv
<1>2. cache \in [Slots -> [Ring -> KV \cup {None}]]
  BY DEF RangeInv, TypeOK, Ring
<1>3. ASSUME NEW s \in Slots, s \in DOMAIN rowOfSlot, NEW k \in Ring
      PROVE  After(won, s, k) \in KV \cup {None}
  <2> DEFINE new == Cells(won, s, k)
  <2>1. new \subseteq KV
    <3>1. won[rowOfSlot[s]] \subseteq writes[rowOfSlot[s]] /\ writes[rowOfSlot[s]] \subseteq KV
      BY <1>1, <1>3, LastingWritesFacts
    <3> QED BY <3>1
  <2>2. cache[s][k] \in KV \cup {None}
    BY <1>2, <1>3
  <2>3. new # {} => (CHOOSE t \in new : TRUE) \in new
    <3> HIDE DEF new
    <3> QED BY Zenon
  <2> HIDE DEF new
  <2>4. (IF new = {} THEN cache[s][k] ELSE CHOOSE t \in new : TRUE) \in KV \cup {None}
    BY <2>1, <2>2, <2>3
  <2> QED BY <2>4 DEF new
<1> HIDE DEF After
<1>4. ASSUME NEW s \in Slots PROVE cache'[s] \in [Ring -> KV \cup {None}]
  <2>1. CASE s \notin DOMAIN rowOfSlot
    BY <1>1, <1>2, <2>1
  <2>2. CASE s \in DOMAIN rowOfSlot
    <3>1. cache'[s] = [k \in Ring |-> After(won, s, k)]
      BY <1>1, <1>2, <2>2
    <3> QED BY <1>3, <2>2, <3>1
  <2> QED BY <2>1, <2>2
<1>5. DOMAIN cache' = Slots /\ cache' = [s \in Slots |-> cache'[s]]
  BY <1>1
<1> QED BY <1>4, <1>5 DEF Rings

(* What a window read selects is in the ring.                               *)
LEMMA ReadInRange ==
  ASSUME NEW ring, NEW S, \A k \in Ring : ring[k] \in S, NEW p \in Nat
  PROVE  WindowRead(ring, p) \subseteq S
<1>1. WindowSize \in Nat \ {0}
  BY DraftWindowAssumption
<1>2. 0 .. Least(p + 1, WindowSize) - 1 \subseteq Ring
  BY <1>1 DEF Least, Ring
<1> QED BY <1>2 DEF WindowRead

(* No draft is in range.                                                    *)
LEMMA NoDraftInRange ==
  ASSUME RangeInv, NoDraft
  PROVE  attended' \in [Reqs -> SUBSET (KV \cup {None})] /\ draftsAt' \in [Reqs -> 0 .. MaxModelLen]
<1>1. 0 \in 0 .. MaxModelLen
  BY ConfigFacts
<1> QED BY <1>1 DEF NoDraft

(* The fields that propose() changes.                                       *)
DraftFieldsOK ==
  /\ cache \in Rings
  /\ {prefilled, raised} \subseteq BOOLEAN
  /\ attended \in [Reqs -> SUBSET (KV \cup {None})]
  /\ draftsAt \in [Reqs -> 0 .. MaxModelLen]
  /\ since \in [Reqs -> 0 .. MaxModelLen]
  /\ upto \in [Reqs -> 0 .. MaxModelLen]

(* propose() leaves them in range, whichever way it cuts the rows.          *)
LEMMA ProposeInRange ==
  ASSUME RangeInv, NEW b \in Batches, Schedulable(b), NEW plan \in Plans(b), Propose(b, plan, BatchStarts(plan)),
         config' = config
  PROVE  DraftFieldsOK'
<1> DEFINE ctx == Contexts(b, plan, BatchStarts(plan))
           rej == MaskedRejects(plan)
           Row(r) == CHOOSE i \in DOMAIN b : b[i] = r
           rows == [i \in DOMAIN b |-> CacheRow(activeSlotIndex', i)]
           rowOfSlot == [s \in { rows[i] : i \in DOMAIN b } |-> CHOOSE i \in DOMAIN b : rows[i] = s]
           writes == [i \in DOMAIN b |-> StoredRows(ctx[i], rej[i])]
           Anchor(i) == AnchorOf(ctx[i], rej[i])
<1>1. MaxModelLen' = MaxModelLen /\ KV' = KV /\ Rings' = Rings
  BY DEF MaxModelLen, KV, Position, Rings
<1>2. /\ cache \in Rings /\ {prefilled, raised} \subseteq BOOLEAN
      /\ since \in [Reqs -> 0 .. MaxModelLen] /\ upto \in [Reqs -> 0 .. MaxModelLen]
  BY DEF RangeInv, TypeOK, Rings, Ring
<1>3. CASE ShapeError(plan, BatchStarts(plan))
  <2>1. raised' = TRUE /\ NoDraft /\ UNCHANGED <<cache, prefilled, since, upto>>
    BY <1>3 DEF Propose
  <2>2. attended' \in [Reqs -> SUBSET (KV \cup {None})] /\ draftsAt' \in [Reqs -> 0 .. MaxModelLen]
    BY <2>1, NoDraftInRange
  <2> QED BY <1>1, <1>2, <2>1, <2>2 DEF DraftFieldsOK
<1>4. CASE ~ShapeError(plan, BatchStarts(plan))
  <2>1. /\ ResolveSlots(b, Cardinality(DOMAIN b))
        /\ StoreMainKv(rowOfSlot, writes)
        /\ prefilled' = TRUE /\ raised' = raised
        /\ attended' = [r \in Reqs |->
             IF prefilled /\ r \in RowsOf(b)
             THEN WindowRead(cache'[rows[Row(r)]], Anchor(Row(r))[2]) ELSE {}]
        /\ draftsAt' = [r \in Reqs |->
             IF prefilled /\ r \in RowsOf(b) THEN DraftStart(Anchor(Row(r))) ELSE 0]
        /\ TrackRuns(b, plan)
    BY <1>4 DEF Propose
  <2>2. \A i \in DOMAIN b : b[i] \in Reqs /\ InRange(b[i], plan[i])
    BY PlanInRange
  <2>3. \A i \in DOMAIN b : rej[i] \in Nat
    <3> TAKE i \in DOMAIN b
    <3>1. plan[i].rejected \in Nat /\ i \in DOMAIN plan
      BY <2>2 DEF InRange, RowFacts, Plans
    <3> QED BY <3>1 DEF MaskedRejects
  <2>4. \A i \in DOMAIN b : StoredRows(ctx[i], rej[i]) \subseteq KV /\ Anchor(i) \in KV
    <3> TAKE i \in DOMAIN b
    <3>1. InKV(ctx[i])
      BY <1>4, ContextInRange
    <3>2. rej[i] \in Nat
      BY <2>3
    <3> HIDE DEF ctx, rej
    <3> QED BY <3>1, <3>2, CutInRange
  <2>5. \A r \in RowsOf(b) : Row(r) \in DOMAIN b
    BY BatchRows
  <2>6. \A i \in DOMAIN b : rows[i] \in Slots
    <3>1. SlotInv
      BY DEF RangeInv, TypeOK, SlotInv
    <3> QED BY <2>1, <3>1, ResolvedFacts
  <2> HIDE DEF ctx, rej, Row, Anchor
  <2>7. cache' \in Rings
    <3>1. \A s \in DOMAIN rowOfSlot : rowOfSlot[s] \in DOMAIN writes
      OBVIOUS
    <3>2. \A i \in DOMAIN writes : writes[i] \subseteq KV
      BY <2>4
    <3> HIDE DEF rowOfSlot, writes
    <3> QED BY <2>1, <3>1, <3>2, StoreInRange
  <2> HIDE DEF rows
  <2>8. \A i \in DOMAIN b : Anchor(i)[2] \in 0 .. MaxModelLen - 1
    BY <2>4 DEF KV, Position
  <2>9. attended' \in [Reqs -> SUBSET (KV \cup {None})]
    <3>1. ASSUME NEW r \in RowsOf(b)
          PROVE  WindowRead(cache'[rows[Row(r)]], Anchor(Row(r))[2]) \subseteq KV \cup {None}
      <4> DEFINE ring == cache'[rows[Row(r)]]
                 p == Anchor(Row(r))[2]
                 S == KV \cup {None}
      <4>1. \A k \in Ring : ring[k] \in S
        BY <2>5, <2>6, <2>7 DEF Rings
      <4>2. p \in Nat
        BY <2>5, <2>8
      <4> HIDE DEF ring, p, S
      <4>3. WindowRead(ring, p) \subseteq S
        BY <4>1, <4>2, ReadInRange
      <4> QED BY <4>3 DEF ring, p, S
    <3> QED BY <2>1, <3>1
  <2>10. draftsAt' \in [Reqs -> 0 .. MaxModelLen]
    <3>1. MaxModelLen \in Nat
      BY ConfigFacts
    <3>2. ASSUME NEW r \in RowsOf(b) PROVE DraftStart(Anchor(Row(r))) \in 0 .. MaxModelLen
      <4>1. Anchor(Row(r))[2] \in 0 .. MaxModelLen - 1
        BY <2>5, <2>8
      <4> QED BY <3>1, <4>1 DEF DraftStart
    <3> QED BY <2>1, <3>1, <3>2
  <2>11. since' \in [Reqs -> 0 .. MaxModelLen] /\ upto' \in [Reqs -> 0 .. MaxModelLen]
    <3> DEFINE End(i) == plan[i].start + plan[i].rows - plan[i].rejected
    <3>1. /\ since' = [r \in Reqs |->
               IF r \in RowsOf(b)
               THEN IF reqIdToSlot[r] # None /\ upto[r] = plan[Row(r)].start
                    THEN since[r] ELSE plan[Row(r)].start
               ELSE since[r]]
          /\ upto' = [r \in Reqs |-> IF r \in RowsOf(b) THEN End(Row(r)) ELSE upto[r]]
      BY <2>1 DEF TrackRuns, Row
    <3>2. \A i \in DOMAIN b : plan[i].start \in 0 .. MaxModelLen /\ End(i) \in 0 .. MaxModelLen
      <4> TAKE i \in DOMAIN b
      <4>1. /\ plan[i].start \in Nat /\ plan[i].rows \in Nat /\ plan[i].rejected \in Nat
            /\ plan[i].rejected < plan[i].rows /\ plan[i].start + plan[i].rows <= MaxModelLen
        BY <2>2 DEF InRange, RowFacts
      <4>2. MaxModelLen \in Nat
        BY ConfigFacts
      <4> QED BY <4>1, <4>2
    <3> HIDE DEF End
    <3> QED BY <1>2, <2>5, <3>1, <3>2
  <2> QED BY <1>1, <1>2, <2>1, <2>7, <2>9, <2>10, <2>11 DEF DraftFieldsOK
<1> QED BY <1>3, <1>4

-----------------------------------------------------------------------------
(* A step of a batch keeps everything in range.                             *)
LEMMA StepInRange ==
  ASSUME RangeInv, NEW b \in Batches, Schedulable(b), NEW plan \in Plans(b), Step(b, plan)
  PROVE  /\ phase' \in [Reqs -> Phases]
         /\ computed' \in [Reqs -> 0 .. MaxModelLen]
         /\ known' \in [Reqs -> 0 .. MaxModelLen]
         /\ \A r \in Reqs : phase'[r] # "finished" => known'[r] < MaxModelLen
         /\ DraftFieldsOK'
<1> DEFINE planOf == [r \in RowsOf(b) |-> plan[CHOOSE i \in DOMAIN b : b[i] = r]]
<1>1. \A r \in RowsOf(b) : r \in Reqs /\ InRange(r, planOf[r])
  <2> TAKE r \in RowsOf(b)
  <2>1. PICK i \in DOMAIN b : b[i] = r
    BY BatchRows
  <2>2. planOf[r] = plan[i]
    <3>1. (CHOOSE j \in DOMAIN b : b[j] = r) = i
      BY <2>1, RowOfRequest
    <3> QED BY <3>1
  <2> HIDE DEF planOf
  <2> QED BY <2>1, <2>2, PlanInRange
<1>2. /\ config' = config
      /\ phase' = [r \in Reqs |->
           IF r \notin RowsOf(b) THEN phase[r]
           ELSE IF known[r] + planOf[r].sampled >= MaxModelLen THEN "finished" ELSE "running"]
      /\ computed' = [r \in Reqs |->
           IF r \in RowsOf(b) THEN planOf[r].start + planOf[r].rows - planOf[r].rejected
           ELSE computed[r]]
      /\ known' = [r \in Reqs |->
           IF r \in RowsOf(b) THEN known[r] + planOf[r].sampled ELSE known[r]]
  BY DEF Step
<1> HIDE DEF planOf
<1>3. /\ phase \in [Reqs -> Phases]
      /\ computed \in [Reqs -> 0 .. MaxModelLen] /\ known \in [Reqs -> 0 .. MaxModelLen]
      /\ \A r \in Reqs : phase[r] # "finished" => known[r] < MaxModelLen
      /\ MaxModelLen \in Nat
  BY ConfigFacts DEF RangeInv, TypeOK
<1>4. ASSUME NEW r \in RowsOf(b)
      PROVE  /\ planOf[r].start + planOf[r].rows - planOf[r].rejected \in 0 .. MaxModelLen
             /\ known[r] + planOf[r].sampled \in 0 .. MaxModelLen
  <2>1. /\ planOf[r].start \in Nat /\ planOf[r].rows \in Nat /\ planOf[r].rejected \in Nat
        /\ planOf[r].rejected < planOf[r].rows /\ planOf[r].sampled \in Nat
        /\ planOf[r].start + planOf[r].rows <= MaxModelLen
        /\ known[r] + planOf[r].sampled <= MaxModelLen
    BY <1>1, <1>4 DEF InRange, RowFacts
  <2>2. known[r] \in Nat
    BY <1>1, <1>3, <1>4
  <2> QED BY <1>3, <2>1, <2>2
<1>5. phase' \in [Reqs -> Phases]
  BY <1>2, <1>3 DEF Phases
<1>6. computed' \in [Reqs -> 0 .. MaxModelLen] /\ known' \in [Reqs -> 0 .. MaxModelLen]
  BY <1>2, <1>3, <1>4
<1>7. ASSUME NEW r \in Reqs, phase'[r] # "finished" PROVE known'[r] < MaxModelLen
  <2>1. CASE r \notin RowsOf(b)
    BY <1>2, <1>3, <1>7, <2>1
  <2>2. CASE r \in RowsOf(b)
    <3>1. known'[r] = known[r] + planOf[r].sampled /\ ~(known[r] + planOf[r].sampled >= MaxModelLen)
      BY <1>2, <1>7, <2>2
    <3>2. known'[r] \in Nat
      BY <1>3, <1>6
    <3> QED BY <1>3, <3>1, <3>2
  <2> QED BY <2>1, <2>2
<1>8. DraftFieldsOK'
  <2>1. CASE InputFits(plan)
    <3>1. Propose(b, plan, BatchStarts(plan))
      BY <2>1, RangeTypes, StepProposes
    <3> QED BY <1>2, <3>1, ProposeInRange
  <2>2. CASE ~InputFits(plan)
    <3>1. NoDraft /\ UNCHANGED <<cache, prefilled, raised, since, upto>>
      BY <2>2 DEF Step, SkipDraft
    <3>2. attended' \in [Reqs -> SUBSET (KV \cup {None})] /\ draftsAt' \in [Reqs -> 0 .. MaxModelLen]
      BY <3>1, NoDraftInRange
    <3>3. MaxModelLen' = MaxModelLen /\ KV' = KV /\ Rings' = Rings
      BY <1>2 DEF MaxModelLen, KV, Position, Rings
    <3> QED BY <3>1, <3>2, <3>3 DEF DraftFieldsOK, RangeInv, TypeOK, Rings, Ring
  <2> QED BY <2>1, <2>2
<1> QED BY <1>5, <1>6, <1>7, <1>8

(* The ranges at construction,                                              *)
LEMMA RangeInvInitially == Init => RangeInv
<1> SUFFICES ASSUME Init PROVE RangeInv
  OBVIOUS
<1>1. SlotInv /\ config \in Configs
  BY SlotInvInitially DEF Init
<1>2. MaxModelLen \in Nat /\ config.promptLen \in 1 .. MaxModelLen - 1
  BY <1>1, DraftWindowAssumption DEF MaxModelLen
<1>3. config.promptLen \in 0 .. MaxModelLen /\ config.promptLen < MaxModelLen /\ 0 \in 0 .. MaxModelLen
  BY <1>2
<1>4. TypeOK
  BY <1>1, <1>3 DEF Init, TypeOK, SlotInv, Phases
<1>5. \A r \in Reqs : known[r] < MaxModelLen
  BY <1>3 DEF Init
<1> QED BY <1>1, <1>4, <1>5 DEF RangeInv, SlotInv

(* and in every step.                                                       *)
LEMMA RangeInvInductive ==
  ASSUME RangeInv, [Next]_vars PROVE RangeInv'
<1>1. config' = config /\ MaxModelLen' = MaxModelLen /\ KV' = KV
  BY ConfigStays DEF MaxModelLen, KV, Position
<1>2. SlotInv'
  BY SlotInvInductive, EngineStepIsSlotMapStep DEF RangeInv, TypeOK, SlotInv
<1>3. ASSUME NEW b \in { b \in Batches : Schedulable(b) }, NEW plan \in Plans(b), Step(b, plan)
      PROVE  RangeInv'
  <2>1. /\ phase' \in [Reqs -> Phases]
        /\ computed' \in [Reqs -> 0 .. MaxModelLen]
        /\ known' \in [Reqs -> 0 .. MaxModelLen]
        /\ \A r \in Reqs : phase'[r] # "finished" => known'[r] < MaxModelLen
        /\ DraftFieldsOK'
    BY <1>3, StepInRange
  <2>2. TypeOK'
    BY <1>1, <1>2, <2>1 DEF TypeOK, SlotInv, DraftFieldsOK, Rings, Ring
  <2> QED BY <1>1, <1>2, <2>1, <2>2 DEF RangeInv, SlotInv
<1>4. ASSUME NEW r \in Reqs, Preempt(r) PROVE RangeInv'
  <2>1. /\ phase' = [phase EXCEPT ![r] = "preempted"] /\ computed' = [computed EXCEPT ![r] = 0]
        /\ phase[r] = "running"
        /\ UNCHANGED <<config, slotVars, known, cache, prefilled, raised, drafted, since, upto>>
    BY <1>4 DEF Preempt
  <2>2. 0 \in 0 .. MaxModelLen
    BY ConfigFacts
  <2>3. phase' \in [Reqs -> Phases] /\ computed' \in [Reqs -> 0 .. MaxModelLen]
    BY <2>1, <2>2 DEF RangeInv, TypeOK, Phases
  <2>4. \A q \in Reqs : phase'[q] # "finished" => known'[q] < MaxModelLen
    BY <2>1 DEF RangeInv, TypeOK
  <2>5. TypeOK'
    BY <1>1, <1>2, <2>1, <2>3 DEF RangeInv, TypeOK, SlotInv, drafted
  <2> QED BY <1>1, <1>2, <2>4, <2>5 DEF RangeInv, SlotInv
<1>5. ASSUME NEW r \in Reqs, Finish(r) PROVE RangeInv'
  <2>1. /\ phase' = [phase EXCEPT ![r] = "finished"]
        /\ UNCHANGED <<config, slotVars, computed, known, cache, prefilled, raised, drafted, since, upto>>
    BY <1>5 DEF Finish
  <2>2. phase' \in [Reqs -> Phases]
    BY <2>1 DEF RangeInv, TypeOK, Phases
  <2>3. \A q \in Reqs : phase'[q] # "finished" => known'[q] < MaxModelLen
    BY <2>1 DEF RangeInv, TypeOK
  <2>4. TypeOK'
    BY <1>1, <1>2, <2>1, <2>2 DEF RangeInv, TypeOK, SlotInv, drafted
  <2> QED BY <1>1, <1>2, <2>3, <2>4 DEF RangeInv, SlotInv
<1>6. CASE UNCHANGED vars
  <2>1. TypeOK'
    BY <1>1, <1>2, <1>6 DEF RangeInv, TypeOK, SlotInv, vars, engineVars, drafted
  <2> QED BY <1>1, <1>2, <1>6, <2>1 DEF RangeInv, SlotInv, vars, engineVars
<1> QED BY <1>3, <1>4, <1>5, <1>6 DEF Next

(* In every configuration, whatever the scheduler does: no counter leaves   *)
(* 0 .. MaxModelLen, no ring holds, and no draft reads, a row of a position *)
(* beyond the longest sequence, and no index into a ring, a slot or a view  *)
(* of the step's rows is out of range.                                      *)
THEOREM WindowTypeOK == Spec => []TypeOK
<1>1. RangeInv => TypeOK
  BY DEF RangeInv
<1>2. RangeInv /\ [Next]_vars => RangeInv'
  BY RangeInvInductive
<1> QED BY <1>1, <1>2, RangeInvInitially, PTL DEF Spec

-----------------------------------------------------------------------------
(* What propose() refuses.                                                  *)

(* What a step does for the request in batch row i: it advances by the rows *)
(* that are not rejected, which without the mask are its context rows.      *)
LEMMA RowAdvances ==
  ASSUME config \in Configs, computed \in [Reqs -> Nat], known \in [Reqs -> Nat], ~MaskOn,
         NEW b \in Batches, Schedulable(b), NEW plan \in Plans(b), Step(b, plan),
         InputFits(plan), computed' \in [Reqs -> 0 .. MaxModelLen], NEW i \in DOMAIN b
  PROVE  /\ b[i] \in Reqs
         /\ ContextRows(plan)[i] \in 1 .. MaxModelLen
         /\ Advances(b[i], ContextRows(plan)[i])
<1> DEFINE o == plan[i]
           r == b[i]
           m == o.rows - o.rejected
<1>1. r \in Reqs /\ r \in RowsOf(b) /\ (CHOOSE j \in DOMAIN b : b[j] = r) = i
  <2>1. r \in Reqs
    BY BatchFacts
  <2>2. r \in RowsOf(b) /\ (CHOOSE j \in DOMAIN b : b[j] = r) = i
    BY BatchRows
  <2> QED BY <2>1, <2>2
<1>2. plan[i] \in Options(r) /\ i \in DOMAIN plan
  BY DEF Plans
<1>3. /\ o.start \in Nat /\ o.rows \in Nat \ {0} /\ o.rejected \in Nat /\ o.rejected < o.rows
  BY <1>1, <1>2, OptionFacts DEF RowFacts
<1>4. o.start \in Starts(r)
  <2>1. CASE o \in Prefills(r)
    BY <2>1 DEF Prefills, Chunk
  <2>2. CASE o \in Decodes(r)
    <3>1. phase[r] = "running" /\ computed[r] = known[r] - 1 /\ o.start = known[r] - 1
      BY <2>2 DEF Decodes, Block
    <3> QED BY <3>1 DEF Starts
  <2> QED BY <1>2, <2>1, <2>2 DEF Options
<1>5. phase[r] # "finished"
  BY <1>1 DEF Schedulable
<1>6. ContextRows(plan)[i] = m
  BY <1>2 DEF ContextRows
<1>7. computed'[r] = o.start + o.rows - o.rejected
  BY <1>1 DEF Step
<1>8. computed'[r] = o.start + m /\ m \in Nat /\ m > 0
  <2> HIDE DEF r, o
  <2> QED BY <1>3, <1>7
<1>9. m \in 1 .. MaxModelLen
  <2>1. computed'[r] \in 0 .. MaxModelLen
    BY <1>1
  <2>2. config.maxModelLen \in Nat
    BY DraftWindowAssumption
  <2>3. MaxModelLen \in Nat
    BY <2>2 DEF MaxModelLen
  <2> HIDE DEF m, r, o
  <2> QED BY <1>3, <1>8, <2>1, <2>3 DEF o
<1> HIDE DEF m, r, o
<1>10. Advances(r, m)
  BY <1>4, <1>5, <1>8 DEF Advances
<1> QED BY <1>1, <1>6, <1>9, <1>10 DEF r

(* In every configuration the engine core dies of the shape of a batch in   *)
(* propose() only where the mask is off and two requests of the step get    *)
(* ahead by different numbers of tokens.                                    *)
THEOREM EngineRaisesOnlyUneven == Spec => RaisesOnlyUneven
<1> DEFINE Uneven ==
      /\ ~MaskOn
      /\ \E r, q \in Reqs : \E m, n \in 1 .. MaxModelLen :
           r # q /\ m # n /\ Advances(r, m) /\ Advances(q, n)
<1>1. ASSUME RangeInv, [Next]_vars, ~raised, raised' PROVE Uneven
  <2>1. ~(UNCHANGED raised)
    BY <1>1
  <2>a. PICK b \in Batches : Schedulable(b) /\ \E plan \in Plans(b) : Step(b, plan)
    <3>1. ~(UNCHANGED vars) /\ \A r \in Reqs : ~Preempt(r) /\ ~Finish(r)
      BY <2>1 DEF vars, Preempt, Finish
    <3> QED BY <1>1, <3>1 DEF Next
  <2>2. PICK plan \in Plans(b) : Step(b, plan)
    BY <2>a
  <2>3. InputFits(plan)
    BY <2>1, <2>2 DEF Step, SkipDraft
  <2>4. config \in Configs /\ computed \in [Reqs -> Nat] /\ known \in [Reqs -> Nat]
    BY <1>1, RangeTypes
  <2>5. Propose(b, plan, BatchStarts(plan))
    BY <2>2, <2>3, <2>4, StepProposes
  <2>6. ShapeError(plan, BatchStarts(plan))
    BY <2>1, <2>5 DEF Propose
  <2>7. PICK n \in 1 .. MaxBatchSize : DOMAIN b = 1 .. n /\ PlanShape(plan, n)
    BY <2>4, PlanIsShaped
  <2>8. ~Separable(plan)
    BY <2>6, <2>7, NoShapeError
  <2>9. ~MaskOn /\ DOMAIN ContextRows(plan) = DOMAIN b
    BY <2>8 DEF Separable, Plans, ContextRows
  <2>10. PICK i \in DOMAIN b, j \in DOMAIN b : ContextRows(plan)[i] # ContextRows(plan)[j]
    BY <2>8, <2>9 DEF Separable, Uniform
  <2>11. b[i] # b[j]
    BY <2>10, BatchFacts
  <2>12. computed' \in [Reqs -> 0 .. MaxModelLen]
    <3>1. TypeOK' /\ config' = config
      BY <1>1, <2>2, RangeInvInductive DEF RangeInv, Step
    <3> QED BY <3>1 DEF TypeOK, MaxModelLen
  <2>13. \A k \in {i, j} : /\ b[k] \in Reqs
                           /\ ContextRows(plan)[k] \in 1 .. MaxModelLen
                           /\ Advances(b[k], ContextRows(plan)[k])
    BY <2>a, <2>2, <2>3, <2>4, <2>9, <2>12, RowAdvances
  <2> QED BY <2>9, <2>10, <2>11, <2>13
<1>2. RangeInv /\ [Next]_vars => [~raised /\ raised' => Uneven]_vars
  BY <1>1
<1>3. RangeInv /\ [Next]_vars => RangeInv'
  BY RangeInvInductive
<1> QED BY <1>2, <1>3, RangeInvInitially, PTL DEF Spec, RaisesOnlyUneven

-----------------------------------------------------------------------------
(* The refinement.                                                          *)

(* A ring that holds the last positions of r reads as the recent history.   *)
LEMMA ReadIsRecent ==
  ASSUME NEW r, NEW e \in Nat, NEW ring,
         \A p \in Most(0, e - WindowSize) .. e - 1 : ring[p % WindowSize] = <<r, p>>
  PROVE  WindowRead(ring, e - 1) = History!Recent(r, e)
<1> DEFINE P == Most(0, e - WindowSize) .. e - 1
           K == 0 .. Least(e, WindowSize) - 1
<1>1. WindowSize \in Nat \ {0}
  BY DraftWindowAssumption
<1>2. { p \in 0 .. e - 1 : p >= e - WindowSize } = P
  BY <1>1 DEF Most
<1>3. WindowRead(ring, e - 1) = { ring[k] : k \in K }
  <2>1. e - 1 + 1 = e
    OBVIOUS
  <2> QED BY <2>1, Zenon DEF WindowRead
<1>4. \A p \in P : p % WindowSize \in K /\ ring[p % WindowSize] = <<r, p>>
  <2> TAKE p \in P
  <2>1. p \in Nat /\ p < e
    BY <1>1 DEF Most
  <2>2. p % WindowSize \in 0 .. WindowSize - 1 /\ p % WindowSize <= p
    BY <2>1, CellOfPosition
  <2>3. p % WindowSize \in K
    BY <1>1, <2>1, <2>2 DEF Least
  <2>4. ring[p % WindowSize] = <<r, p>>
    OBVIOUS
  <2> HIDE DEF K, P
  <2> QED BY <2>3, <2>4
<1>5. \A k \in K : \E p \in P : p % WindowSize = k
  BY CellCovered
<1>6. { ring[k] : k \in K } = { <<r, p>> : p \in P }
  <2> HIDE DEF P, K
  <2>1. ASSUME NEW k \in K PROVE \E p \in P : ring[k] = <<r, p>>
    <3>1. PICK p \in P : p % WindowSize = k
      BY <1>5, <2>1
    <3> QED BY <1>4, <3>1
  <2>2. \A p \in P : \E k \in K : ring[k] = <<r, p>>
    BY <1>4
  <2>3. { ring[k] : k \in K } \subseteq { <<r, p>> : p \in P }
    BY <2>1
  <2>4. { <<r, p>> : p \in P } \subseteq { ring[k] : k \in K }
    BY <2>2
  <2> QED BY <2>3, <2>4
<1>7. History!Recent(r, e) = { <<r, p>> : p \in P }
  BY <1>2 DEF History!Recent
<1> QED BY <1>3, <1>6, <1>7

(* What ties the histories to the runner's counters where none is missed:   *)
(* the run of a running request starts at 0, ends at num_computed_tokens    *)
(* and is in its slot, and whoever is not running starts over.              *)
ExactInv ==
  /\ DOMAIN phase = Reqs
  /\ Exact =>
       /\ \A r \in Reqs : since[r] = 0
       /\ \A r \in Reqs : phase[r] = "running" => r \in Mapped /\ upto[r] = computed[r]
       /\ \A r \in Reqs : phase[r] \notin {"running", "finished"} => computed[r] = 0
       /\ \A r \in Reqs : phase[r] # "finished" => known[r] < MaxModelLen

(* The most one step advances a request.                                    *)
LEMMA AdvanceBound ==
  ASSUME config \in Configs
  PROVE  MaxAdvance \in Nat /\ config.maxChunk <= MaxAdvance /\ SpecTokens + 1 <= MaxAdvance
<1> DEFINE Bounds == { Most(c.maxChunk, SpecTokens + 1) : c \in Configs }
<1>1. SpecTokens \in Nat /\ \A c \in Configs : c.maxChunk \in Nat
  BY DraftWindowAssumption
<1>2. \E n \in Bounds : \A c \in Configs : c.maxChunk <= n
  <2>1. PICK top \in Configs : \A d \in Configs : d.maxChunk <= top.maxChunk
    BY DraftWindowAssumption
  <2>2. Most(top.maxChunk, SpecTokens + 1) \in Bounds
    BY <2>1
  <2>3. Most(top.maxChunk, SpecTokens + 1) \in Nat
        /\ top.maxChunk <= Most(top.maxChunk, SpecTokens + 1)
    BY <1>1 DEF Most
  <2>4. \A c \in Configs : c.maxChunk <= Most(top.maxChunk, SpecTokens + 1)
    BY <1>1, <2>1, <2>3
  <2> QED BY <2>2, <2>4
<1>3. MaxAdvance \in Bounds /\ \A c \in Configs : c.maxChunk <= MaxAdvance
  BY <1>2 DEF MaxAdvance
<1>4. \A n \in Bounds : n \in Nat /\ SpecTokens + 1 <= n
  BY <1>1 DEF Most
<1> QED BY <1>3, <1>4

-----------------------------------------------------------------------------
(* Where every history is stored, a request starts where its history ends,  *)
(* advances by what is not rejected, and is never too long to draft for.    *)
LEMMA ExactOptions ==
  ASSUME Exact, WindowInv, ExactInv,
         NEW r \in Reqs, phase[r] # "finished", NEW o \in Options(r)
  PROVE  /\ o.start = computed[r]
         /\ o.rows - o.rejected \in 1 .. MaxAdvance
         /\ o.start + o.rows <= MaxModelLen
<1>1. /\ config \in Configs /\ config.maxChunk \in Nat /\ SpecTokens \in Nat /\ MaxModelLen \in Nat
      /\ known[r] \in Nat /\ computed[r] \in Nat /\ known[r] < MaxModelLen
      /\ phase[r] # "running" => computed[r] = 0
      /\ config.prefixHits = {0}
  BY DraftWindowAssumption DEF WindowInv, ExactInv, MaxModelLen, Exact
<1>2. MaxAdvance \in Nat /\ config.maxChunk <= MaxAdvance /\ SpecTokens + 1 <= MaxAdvance
  BY <1>1, AdvanceBound
<1>3. Starts(r) \subseteq {computed[r]}
  BY <1>1 DEF Starts
<1>4. CASE o \in Prefills(r)
  <2>1. PICK c \in 1 .. config.maxChunk :
          o = Chunk(r, computed[r], c) /\ computed[r] + c <= known[r]
    BY <1>3, <1>4 DEF Prefills
  <2>2. o.start = computed[r] /\ o.rows = c /\ o.rejected = 0
    BY <2>1 DEF Chunk
  <2>3. c \in Nat /\ 1 <= c /\ c <= MaxAdvance /\ computed[r] + c <= known[r]
    BY <1>1, <1>2, <2>1
  <2> QED BY <1>1, <1>2, <2>2, <2>3
<1>5. CASE o \in Decodes(r)
  <2>1. PICK d \in 1 .. SpecTokens, a \in Nat :
          /\ a <= d /\ o = Block(r, d, a) /\ known[r] + d < MaxModelLen
          /\ computed[r] = known[r] - 1
    <3>1. PICK d \in 1 .. SpecTokens :
            /\ known[r] + d < MaxModelLen /\ computed[r] = known[r] - 1
            /\ \E a \in 0 .. d : o = Block(r, d, a)
      BY <1>5 DEF Decodes
    <3>2. PICK a \in 0 .. d : o = Block(r, d, a)
      BY <3>1
    <3>3. a \in Nat /\ a <= d
      BY <1>1, <3>2
    <3> QED BY <3>1, <3>2, <3>3
  <2>2. o.start = computed[r] /\ o.rows = 1 + d /\ o.rejected = d - a
    BY <2>1 DEF Block
  <2>3. d \in Nat /\ d <= SpecTokens
    BY <1>1, <2>1
  <2>4. 1 + d - (d - a) = 1 + a
    BY <2>1, <2>3
  <2> QED BY <1>1, <1>2, <2>1, <2>2, <2>3, <2>4
<1> QED BY <1>4, <1>5 DEF Options

(* The abstract step that an engine step is, where every history is stored. *)
LEMMA ExactStep ==
  ASSUME Exact, SlotInv, WindowInv, ExactInv, NEW b \in Batches, Schedulable(b),
         NEW plan \in Plans(b), Step(b, plan)
  PROVE  Exact' /\ ExactInv' /\ History!Advance(RowsOf(b))
<1> DEFINE planOf == [r \in RowsOf(b) |-> plan[CHOOSE i \in DOMAIN b : b[i] = r]]
<1>1. /\ config' = config
      /\ phase' = [r \in Reqs |->
           IF r \notin RowsOf(b) THEN phase[r]
           ELSE IF known[r] + planOf[r].sampled >= MaxModelLen THEN "finished" ELSE "running"]
      /\ computed' = [r \in Reqs |->
           IF r \in RowsOf(b) THEN planOf[r].start + planOf[r].rows - planOf[r].rejected
           ELSE computed[r]]
      /\ known' = [r \in Reqs |->
           IF r \in RowsOf(b) THEN known[r] + planOf[r].sampled ELSE known[r]]
  BY DEF Step
<1>2. Exact' /\ MaxModelLen' = MaxModelLen
  BY <1>1 DEF Exact, MaxModelLen, MaskOn
<1>3. RowsOf(b) \subseteq Reqs /\ \A r \in RowsOf(b) : phase[r] # "finished"
  <2>1. \A i \in DOMAIN b : b[i] \in Reqs
    BY BatchFacts
  <2> QED BY <2>1 DEF Schedulable, RowsOf
<1>4. \A i \in DOMAIN b :
        /\ b[i] \in RowsOf(b) /\ planOf[b[i]] = plan[i]
        /\ plan[i] \in Options(b[i]) /\ RowFacts(plan[i])
  BY BatchRows, PlanFacts
<1>5. \A r \in RowsOf(b) : \E i \in DOMAIN b : b[i] = r
  BY BatchRows
<1> HIDE DEF planOf
<1>6. \A r \in RowsOf(b) :
        /\ planOf[r].start = computed[r]
        /\ planOf[r].rows - planOf[r].rejected \in 1 .. MaxAdvance
        /\ planOf[r].start + planOf[r].rows <= MaxModelLen
        /\ RowFacts(planOf[r])
  BY <1>3, <1>4, <1>5, ExactOptions
<1>7. InputFits(plan)
  <2>1. DOMAIN plan = DOMAIN b
    BY DEF Plans
  <2>2. ASSUME NEW i \in DOMAIN b
        PROVE  plan[i].start + plan[i].rows + SpecTokens <= config.drafterMaxLen
    <3>1. plan[i].start + plan[i].rows <= MaxModelLen /\ RowFacts(plan[i])
      BY <1>4, <1>6, <2>2
    <3>2. /\ config \in Configs /\ config.drafterMaxLen >= MaxModelLen + SpecTokens
      BY DEF WindowInv, Exact
    <3>3. config.drafterMaxLen \in Nat /\ MaxModelLen \in Nat /\ SpecTokens \in Nat
      BY <3>2, DraftWindowAssumption DEF MaxModelLen
    <3> QED BY <3>1, <3>2, <3>3 DEF RowFacts
  <2> QED BY <2>1, <2>2 DEF InputFits
<1>8. Propose(b, plan, BatchStarts(plan)) /\ Separable(plan)
  <2>1. AlwaysSeparable
    BY DEF Exact, AlwaysSeparable
  <2>2. Separable(plan)
    BY <2>1, StepsSeparable
  <2>3. Propose(b, plan, BatchStarts(plan))
    BY <1>7, StepProposes DEF WindowInv
  <2> QED BY <2>2, <2>3
<1>9. /\ prefilled' = TRUE
      /\ \A i \in DOMAIN b :
           /\ since'[b[i]] = (IF reqIdToSlot[b[i]] # None /\ upto[b[i]] = plan[i].start
                              THEN since[b[i]] ELSE plan[i].start)
           /\ upto'[b[i]] = plan[i].start + plan[i].rows - plan[i].rejected
      /\ \A r \in Reqs \ RowsOf(b) : since'[r] = since[r]
      /\ attended' = [r \in Reqs |->
           IF prefilled /\ r \in RowsOf(b)
           THEN WindowRead(cache'[reqIdToSlot'[r]], upto'[r] - 1) ELSE {}]
      /\ draftsAt' = [r \in Reqs |-> IF prefilled /\ r \in RowsOf(b) THEN upto'[r] ELSE 0]
  BY <1>8, ProposeTracks
<1>10. Mapped' = RowsOf(b) /\ \A r \in Mapped' : RunStored(r)'
  <2>1. ResolveSlots(b, Cardinality(DOMAIN b))
    BY <1>8 DEF Propose
  <2> QED BY <1>8, <2>1, ResolvedFacts, ProposeKeepsWindows
<1>11. \A r \in RowsOf(b) :
         /\ upto'[r] = computed'[r]
         /\ computed'[r] = planOf[r].start + planOf[r].rows - planOf[r].rejected
  BY <1>1, <1>3, <1>4, <1>5, <1>9
<1>12. \A r \in RowsOf(b) :
         computed'[r] \in Nat /\ computed'[r] - computed[r] \in 1 .. MaxAdvance
  <2> TAKE r \in RowsOf(b)
  <2>1. /\ planOf[r].start \in Nat /\ planOf[r].rows \in Nat /\ planOf[r].rejected \in Nat
        /\ planOf[r].start = computed[r]
        /\ planOf[r].rows - planOf[r].rejected \in 1 .. MaxAdvance
    BY <1>6 DEF RowFacts
  <2>2. MaxAdvance \in Nat
    BY AdvanceBound DEF WindowInv
  <2>3. computed'[r] = planOf[r].start + planOf[r].rows - planOf[r].rejected
    BY <1>11
  <2> DEFINE adv == planOf[r].rows - planOf[r].rejected
  <2>4. planOf[r].start + planOf[r].rows - planOf[r].rejected = computed[r] + adv
    BY <2>1
  <2> HIDE DEF adv
  <2>5. adv \in 1 .. MaxAdvance /\ computed[r] \in Nat
    BY <2>1 DEF adv
  <2> QED BY <2>2, <2>3, <2>4, <2>5
<1>13. \A r \in Reqs : since'[r] = 0
  <2>1. ASSUME NEW i \in DOMAIN b PROVE since'[b[i]] = 0
    <3>1. b[i] \in Reqs /\ b[i] \in RowsOf(b) /\ plan[i].start = computed[b[i]] /\ since[b[i]] = 0
      BY <1>3, <1>4, <1>6, <2>1 DEF ExactInv
    <3>2. CASE phase[b[i]] = "running"
      <4>1. b[i] \in Mapped /\ upto[b[i]] = computed[b[i]]
        BY <3>1, <3>2 DEF ExactInv
      <4> QED BY <1>9, <2>1, <3>1, <4>1 DEF Mapped
    <3>3. CASE phase[b[i]] # "running"
      <4>1. computed[b[i]] = 0
        BY <1>3, <3>1, <3>3 DEF ExactInv
      <4> QED BY <1>9, <2>1, <3>1, <4>1
    <3> QED BY <3>2, <3>3
  <2>2. ASSUME NEW r \in Reqs \ RowsOf(b) PROVE since'[r] = 0
    BY <1>9, <2>2 DEF ExactInv
  <2> QED BY <1>5, <2>1, <2>2
<1>14. ExactInv'
  <2>1. ASSUME NEW r \in Reqs, phase'[r] = "running"
        PROVE  r \in Mapped' /\ upto'[r] = computed'[r]
    <3>1. r \in RowsOf(b)
      <4>1. CASE r \notin RowsOf(b)
        <5>1. r \in Running
          BY <1>1, <2>1, <4>1 DEF Running
        <5> QED BY <5>1 DEF Schedulable, Exact
      <4> QED BY <4>1
    <3> QED BY <1>10, <1>11, <3>1
  <2>2. ASSUME NEW r \in Reqs, phase'[r] \notin {"running", "finished"}
        PROVE  computed'[r] = 0
    BY <1>1, <2>2 DEF ExactInv
  <2>3. ASSUME NEW r \in Reqs, phase'[r] # "finished"
        PROVE  known'[r] < MaxModelLen
    <3>1. CASE r \in RowsOf(b)
      <4>1. known'[r] = known[r] + planOf[r].sampled /\ ~(known'[r] >= MaxModelLen)
        BY <1>1, <2>3, <3>1
      <4>2. known[r] \in Nat /\ planOf[r].sampled \in Nat /\ MaxModelLen \in Nat
        BY <1>6, <3>1, DraftWindowAssumption DEF WindowInv, RowFacts, MaxModelLen
      <4> QED BY <4>1, <4>2
    <3>2. CASE r \notin RowsOf(b)
      BY <1>1, <2>3, <3>2 DEF ExactInv
    <3> QED BY <3>1, <3>2
  <2>4. DOMAIN phase' = Reqs
    BY <1>1
  <2> QED BY <1>2, <1>13, <2>1, <2>2, <2>3, <2>4 DEF ExactInv
<1>15. computed' \in [Reqs -> Nat] /\ \A r \in Reqs \ RowsOf(b) : computed'[r] = computed[r]
  BY <1>1, <1>12 DEF WindowInv
<1>16. \A r \in RowsOf(b) :
         WindowRead(cache'[reqIdToSlot'[r]], upto'[r] - 1) = History!Recent(r, computed'[r])
  <2> TAKE r \in RowsOf(b)
  <2>1. \A p \in Most(0, upto'[r] - WindowSize) .. upto'[r] - 1 :
           cache'[reqIdToSlot'[r]][p % WindowSize] = <<r, p>>
    BY <1>3, <1>10, <1>13 DEF RunStored, OwnRun
  <2>2. upto'[r] \in Nat /\ upto'[r] = computed'[r]
    BY <1>11, <1>12
  <2> QED BY <2>1, <2>2, ReadIsRecent
<1>17. /\ attended' = [r \in Reqs |->
            IF prefilled /\ r \in RowsOf(b) THEN History!Recent(r, computed'[r]) ELSE {}]
       /\ draftsAt' = [r \in Reqs |-> IF prefilled /\ r \in RowsOf(b) THEN computed'[r] ELSE 0]
  BY <1>9, <1>11, <1>16
<1>18. History!Advance(RowsOf(b))
  BY <1>2, <1>9, <1>12, <1>15, <1>17 DEF History!Advance
<1> QED BY <1>2, <1>14, <1>18

-----------------------------------------------------------------------------
(* Every step of the engine is one of the private histories or a stutter.   *)
LEMMA StepRefines ==
  ASSUME EngineInv, ExactInv, [Next]_vars
  PROVE  /\ ExactInv'
         /\ [History!Next]_(History!vars)
<1>0. SlotInv /\ (Exact => WindowInv)
  BY DEF EngineInv, Exact, AlwaysSeparable
<1>1. ASSUME NEW b \in { b \in Batches : Schedulable(b) }, NEW plan \in Plans(b), Step(b, plan)
      PROVE  ExactInv' /\ [History!Next]_(History!vars)
  <2>1. CASE Exact
    <3>1. Exact' /\ ExactInv' /\ History!Advance(RowsOf(b))
      BY <1>0, <1>1, <2>1, ExactStep
    <3>2. RowsOf(b) \in (SUBSET Reqs) \ {{}}
      <4>1. \A i \in DOMAIN b : b[i] \in Reqs
        BY <1>1, BatchFacts
      <4>2. PICK i \in DOMAIN b : TRUE
        BY <1>1, BatchFacts, SlotMapAssumption
      <4>3. RowsOf(b) \subseteq Reqs /\ b[i] \in RowsOf(b)
        BY <4>1, <4>2 DEF RowsOf
      <4> QED BY <4>3
    <3> QED BY <3>1, <3>2 DEF History!Next
  <2>2. CASE ~Exact
    <3>1. config' = config
      BY <1>1 DEF Step
    <3>2. ~Exact'
      BY <2>2, <3>1 DEF Exact, MaxModelLen, MaskOn
    <3>3. DOMAIN phase' = Reqs
      BY <1>1 DEF Step
    <3>4. UNCHANGED History!vars
      <4>1. (IF Exact THEN computed ELSE [r \in Reqs |-> 0])'
              = (IF Exact THEN computed ELSE [r \in Reqs |-> 0])
        BY <2>2, <3>2
      <4>2. (IF Exact THEN attended ELSE [r \in Reqs |-> {}])'
              = (IF Exact THEN attended ELSE [r \in Reqs |-> {}])
        BY <2>2, <3>2
      <4>3. (IF Exact THEN draftsAt ELSE [r \in Reqs |-> 0])'
              = (IF Exact THEN draftsAt ELSE [r \in Reqs |-> 0])
        BY <2>2, <3>2
      <4>4. (Exact /\ prefilled)' = (Exact /\ prefilled)
        BY <2>2, <3>2
      <4> QED BY <4>1, <4>2, <4>3, <4>4 DEF History!vars
    <3> QED BY <3>2, <3>3, <3>4 DEF ExactInv
  <2> QED BY <2>1, <2>2
<1>2. ASSUME NEW r \in Reqs, Preempt(r)
      PROVE  ExactInv' /\ [History!Next]_(History!vars)
  <2>1. /\ config' = config /\ phase[r] = "running"
        /\ phase' = [phase EXCEPT ![r] = "preempted"]
        /\ computed' = [computed EXCEPT ![r] = 0]
        /\ UNCHANGED <<slotVars, known, prefilled, drafted, since, upto>>
    BY <1>2 DEF Preempt
  <2>2. Exact' = Exact /\ MaxModelLen' = MaxModelLen
    BY <2>1 DEF Exact, MaxModelLen, MaskOn
  <2>3. Exact => computed \in [Reqs -> Nat]
    BY <1>0 DEF WindowInv
  <2>4. ExactInv'
    <3>1. \A q \in Reqs : q # r => phase'[q] = phase[q] /\ computed'[q] = computed[q]
      BY <2>1
    <3>2. DOMAIN phase' = Reqs /\ phase'[r] = "preempted" /\ (Exact => computed'[r] = 0)
      BY <2>1, <2>3 DEF ExactInv
    <3> QED BY <2>1, <2>2, <3>1, <3>2 DEF ExactInv, Mapped, slotVars
  <2>5. CASE Exact
    <3>1. History!Forget(r)
      BY <2>1, <2>2, <2>5 DEF History!Forget, drafted
    <3> QED BY <2>4, <3>1 DEF History!Next
  <2>6. CASE ~Exact
    BY <2>2, <2>4, <2>6 DEF History!vars
  <2> QED BY <2>5, <2>6
<1>3. ASSUME NEW r \in Reqs, Finish(r)
      PROVE  ExactInv' /\ [History!Next]_(History!vars)
  <2>1. /\ config' = config
        /\ phase' = [phase EXCEPT ![r] = "finished"]
        /\ UNCHANGED <<slotVars, computed, known, prefilled, drafted, since, upto>>
    BY <1>3 DEF Finish
  <2>2. Exact' = Exact /\ MaxModelLen' = MaxModelLen
    BY <2>1 DEF Exact, MaxModelLen, MaskOn
  <2> QED BY <2>1, <2>2 DEF ExactInv, Mapped, slotVars, drafted, History!vars
<1>4. CASE UNCHANGED vars
  <2>1. Exact' = Exact /\ MaxModelLen' = MaxModelLen
    BY <1>4 DEF vars, Exact, MaxModelLen, MaskOn
  <2> QED BY <1>4, <2>1
      DEF vars, engineVars, drafted, slotVars, ExactInv, Mapped, History!vars
<1> QED BY <1>1, <1>2, <1>3, <1>4 DEF Next

(* Where every history is stored, batching, slot reuse, condense,           *)
(* preemption, the ring and rejected suffixes are invisible: the engine     *)
(* implements one private history per request, for every window size,       *)
(* request set, batch size, chunk size and block size.                      *)
THEOREM EngineRefinesHistories == Spec => RefinesPrivateHistory
<1>1. Init => EngineInv /\ ExactInv /\ History!Init
  <2> SUFFICES ASSUME Init PROVE ExactInv /\ History!Init
    BY EngineInvInitially
  <2>1. /\ config \in Configs /\ phase = [r \in Reqs |-> "waiting"]
        /\ computed = [r \in Reqs |-> 0] /\ known = [r \in Reqs |-> config.promptLen]
        /\ since = [r \in Reqs |-> 0] /\ prefilled = FALSE
        /\ attended = [r \in Reqs |-> {}] /\ draftsAt = [r \in Reqs |-> 0]
    BY DEF Init
  <2>2. config.promptLen < MaxModelLen
    BY <2>1, DraftWindowAssumption DEF MaxModelLen
  <2>3. ExactInv
    BY <2>1, <2>2 DEF ExactInv
  <2>4. History!Init
    BY <2>1 DEF History!Init
  <2> QED BY <2>3, <2>4
<1>2. EngineInv /\ ExactInv /\ [Next]_vars
        => /\ (EngineInv /\ ExactInv)'
           /\ [History!Next]_(History!vars)
  BY EngineInvInductive, StepRefines
<1> QED BY <1>1, <1>2, PTL DEF Spec, RefinesPrivateHistory, History!Spec
==============================================================================
