------------------------------- MODULE SlotMap -------------------------------
(***************************************************************************)
(* The request-to-slot map of DSparkProposer (dspark_proposer.py).         *)
(*                                                                         *)
(* The drafter keeps one window of draft KV per running request, in a      *)
(* fixed row ("slot") of main_kv_cache.  The row of a request in the       *)
(* runner's persistent batch changes when the batch is condensed, so each  *)
(* call of propose() resolves the request ids of the batch, in row order,  *)
(* to slots.  _resolve_slots runs on the worker's only thread and calls    *)
(* nothing that yields: it is one step here.                               *)
(*                                                                         *)
(* The batch the runner hands over is an input of this module: any         *)
(* sequence of distinct requests, at most one per row of the buffers.      *)
(***************************************************************************)
EXTENDS Integers, FiniteSets

CONSTANTS
  Reqs,          \* the request ids
  MaxBatchSize,  \* self.max_batch_size, the rows of main_kv_cache
  None           \* Python's None

ASSUME SlotMapAssumption ==
  /\ IsFiniteSet(Reqs)
  /\ MaxBatchSize \in Nat \ {0}
  /\ None \notin Int

VARIABLES
  reqIdToSlot,      \* self._req_id_to_slot: None where the dict has no key
  freeSlots,        \* self._free_slots, always used through sorted(set(...))
  activeSlotIndex   \* self._active_slot_index: None, or a slot for each row

slotVars == <<reqIdToSlot, freeSlots, activeSlotIndex>>

Slots == 0 .. MaxBatchSize - 1

(* list(self.input_batch.req_ids): the scheduled requests in row order.     *)
Batches ==
  UNION { { b \in [1 .. n -> Reqs] : \A i, j \in 1 .. n : b[i] = b[j] => i = j }
          : n \in 1 .. MaxBatchSize }

RowsOf(reqIds) == { reqIds[i] : i \in DOMAIN reqIds }

SlotMapInitOneSlotMore ==
  /\ reqIdToSlot = [r \in Reqs |-> None]
  /\ freeSlots = 0 .. MaxBatchSize
  /\ activeSlotIndex = None

SlotMapInit ==
  /\ reqIdToSlot = [r \in Reqs |-> None]
  /\ freeSlots = Slots
  /\ activeSlotIndex = None

Mapped == { r \in Reqs : reqIdToSlot[r] # None }

-----------------------------------------------------------------------------
StaleEvenIfLive(reqIds) == Mapped

(* The slots of the requests that are no longer in the batch go back.       *)
Stale(reqIds) == Mapped \ RowsOf(reqIds)

ReclaimedFreeLeaks(reqIds) == freeSlots

ReclaimedFree(reqIds) == freeSlots \cup { reqIdToSlot[r] : r \in Stale(reqIds) }

(* The rows whose request has no slot yet, served in row order ...          *)
NewRows(reqIds) == { i \in DOMAIN reqIds : reqIdToSlot[reqIds[i]] = None }

(* ... each by pop(0) from the ascending free list: the assignment that     *)
(* ascends with the rows and leaves no free slot below a used one.          *)
PopLowestFirst(rows, free) ==
  { pop \in [rows -> free] :
      /\ \A i, j \in rows : i < j => pop[i] < pop[j]
      /\ \A i \in rows : \A s \in free : s < pop[i] => \E j \in rows : pop[j] = s }

SlotAfterByBatchRow(reqIds, pop) ==
  [r \in Reqs |->
     IF r \in RowsOf(reqIds) THEN (CHOOSE i \in DOMAIN reqIds : reqIds[i] = r) - 1 ELSE None]

(* The map after the loop over req_ids.                                     *)
SlotAfter(reqIds, pop) ==
  [r \in Reqs |->
     IF r \notin RowsOf(reqIds) THEN None
     ELSE IF reqIdToSlot[r] # None THEN reqIdToSlot[r]
     ELSE pop[CHOOSE i \in DOMAIN reqIds : reqIds[i] = r]]

(* None on the identity permutation, the view of the index buffer else.     *)
SlotIndexOf(reqIds, slotOf) ==
  IF \A i \in DOMAIN reqIds : slotOf[reqIds[i]] = i - 1
  THEN None
  ELSE [i \in DOMAIN reqIds |-> slotOf[reqIds[i]]]

(* The whole of _resolve_slots and the assignment propose() makes of its    *)
(* result.  batchSize is next_token_ids.shape[0]: a mismatch with the       *)
(* request ids, or no ids at all, changes nothing and gives the identity.   *)
ResolveSlots(reqIds, batchSize) ==
  IF reqIds = None \/ Cardinality(DOMAIN reqIds) # batchSize
  THEN /\ activeSlotIndex' = None
       /\ UNCHANGED <<reqIdToSlot, freeSlots>>
  ELSE \E pop \in PopLowestFirst(NewRows(reqIds), ReclaimedFree(reqIds)) :
         /\ reqIdToSlot' = SlotAfter(reqIds, pop)
         /\ freeSlots' = ReclaimedFree(reqIds) \ { pop[i] : i \in NewRows(reqIds) }
         /\ activeSlotIndex' = SlotIndexOf(reqIds, SlotAfter(reqIds, pop))

(* Every call propose() makes: the runner's ids are those of its own batch. *)
SlotMapNext == \E b \in Batches : ResolveSlots(b, Cardinality(DOMAIN b))

SlotMapSpec == SlotMapInit /\ [][SlotMapNext]_slotVars

-----------------------------------------------------------------------------
(* The values the three fields can take.                                    *)
SlotTypeOK ==
  /\ reqIdToSlot \in [Reqs -> Slots \cup {None}]
  /\ freeSlots \in SUBSET Slots
  /\ \/ activeSlotIndex = None
     \/ \E n \in 1 .. MaxBatchSize : activeSlotIndex \in [1 .. n -> Slots]

(* No two requests share a window: the map is one-to-one.                   *)
SlotsInjective ==
  \A r, q \in Mapped : reqIdToSlot[r] = reqIdToSlot[q] => r = q

(* No slot leaks and none is handed out twice: the free list and the map    *)
(* partition the rows of main_kv_cache.                                     *)
SlotsConserved == freeSlots = Slots \ { reqIdToSlot[r] : r \in Mapped }

SlotsPartition == SlotsInjective /\ SlotsConserved

(* self._free_slots.pop(0) never meets an empty list: whatever batch the    *)
(* runner hands over next, the reclaimed list holds a slot for each new row.*)
NoSlotExhaustion ==
  \A b \in Batches : Cardinality(NewRows(b)) <= Cardinality(ReclaimedFree(b))

(* A request that one call maps and the next call still maps keeps its      *)
(* window, whatever row of the batch it has moved to.                       *)
SlotsSticky ==
  [][ \A r \in Reqs : {reqIdToSlot[r], reqIdToSlot'[r]} \subseteq Slots
                        => reqIdToSlot'[r] = reqIdToSlot[r] ]_slotVars

(* "Lowest-first reuse keeps the identity permutation": a batch of requests *)
(* none of which had a slot runs on the fast path, whatever ran before it.  *)
FreshBatchIsIdentity ==
  [][ (\A r \in Reqs : reqIdToSlot'[r] # None => reqIdToSlot[r] = None)
        => activeSlotIndex' = None ]_slotVars
==============================================================================
