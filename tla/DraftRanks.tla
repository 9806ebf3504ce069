------------------------------ MODULE DraftRanks ------------------------------
(***************************************************************************)
(* DSpark under data parallelism: the drafter's cudagraph dispatch, the    *)
(* slot index it leaves behind, and the collective that every DP rank has  *)
(* to enter equally often (dspark_proposer.py, gpu_model_runner.py).       *)
(*                                                                         *)
(* coordinate_batch_across_dp is one all-reduce over the DP group.  It     *)
(* carries no tag, so the k-th call of a rank meets the k-th call of every *)
(* other rank, whatever either of them meant by it.  A rank calls it once  *)
(* for the target model's forward pass and once more for the draft.        *)
(***************************************************************************)
EXTENDS Integers, FiniteSets

CONSTANTS
  Ranks,        \* the ranks a data-parallel group can consist of
  GraphSizes,   \* batch sizes captured for the draft at start-up
  MaxBatch,     \* self.max_batch_size
  Deployments   \* the deployments considered: records of
                \*   group      the data-parallel ranks; one: no data parallelism
                \*   prefilled  have all drafters had their first propose() call?
                \*   maySkip    may a batch not fit in the drafter?
                \*   mayIdle    may a rank without requests run a dummy batch?

ASSUME DraftRanksAssumption ==
  /\ MaxBatch \in Nat \ {0}
  /\ GraphSizes \subseteq 1 .. MaxBatch
  /\ \A d \in Deployments : /\ d.group \subseteq Ranks /\ d.group # {}
                            /\ {d.prefilled, d.maySkip, d.mayIdle} \subseteq BOOLEAN

VARIABLES
  deployment,   \* the deployment these ranks are
  pc,           \* where each rank is in its step
  job,          \* the batch of each rank's step
  slotLen,      \* length of self._active_slot_index, 0 for None
  prefilled,    \* self._prefilled
  targetGraph,  \* did the target pass of this step run on graphs?
  offer,        \* what a rank waiting in the draft's collective has submitted
  draft         \* mode and padded batch size of the draft a rank is to run

vars == <<deployment, pc, job, slotLen, prefilled, targetGraph, offer, draft>>

Group == deployment.group

Real == [kind : {"real"}, n : 1 .. MaxBatch, permuted : BOOLEAN, fits : BOOLEAN]
Dummy == [kind |-> "dummy", n |-> 1, permuted |-> FALSE, fits |-> TRUE]

Modes == {"NONE", "PIECEWISE"}
Descriptors == [mode : Modes, size : 1 .. MaxBatch]
NoDraft == [mode |-> "NONE", size |-> 1]

Init ==
  /\ deployment \in Deployments
  /\ pc = [r \in Ranks |-> IF r \in Group THEN "ready" ELSE "absent"]
  /\ job = [r \in Ranks |-> Dummy]
  /\ slotLen = [r \in Ranks |-> 0]
  /\ prefilled = [r \in Ranks |-> deployment.prefilled]
  /\ targetGraph = FALSE
  /\ offer = [r \in Ranks |-> NoDraft]
  /\ draft = [r \in Ranks |-> NoDraft]

DispatchPadsByOne(n, graphs) == [mode |-> "NONE", size |-> n + 1]

(* cudagraph_dispatcher.dispatch: the smallest captured size that holds n,  *)
(* or no graph and no padding.                                              *)
Dispatch(n, graphs) ==
  LET holding == { s \in GraphSizes : s >= n }
  IN  IF graphs /\ holding # {}
      THEN [mode |-> "PIECEWISE", size |-> CHOOSE s \in holding : \A t \in holding : s <= t]
      ELSE [mode |-> "NONE", size |-> n]

-----------------------------------------------------------------------------
(* execute_model with a batch, or _dummy_run on a rank that has none: both  *)
(* enter the collective for the target pass.                                *)
Enter(r, j) ==
  /\ pc[r] = "ready"
  /\ pc' = [pc EXCEPT ![r] = "target"]
  /\ job' = [job EXCEPT ![r] = j]
  /\ UNCHANGED <<deployment, slotLen, prefilled, targetGraph, offer, draft>>

StartReal(r) ==
  \E j \in { j \in Real : j.fits \/ deployment.maySkip } : Enter(r, j)

StartDummyNever(r) == FALSE

StartDummy(r) == deployment.mayIdle /\ Enter(r, Dummy)

(* The target pass: all ranks agree on one mode for it.                     *)
CoordinateTarget ==
  /\ \A r \in Group : pc[r] = "target"
  /\ pc' = [r \in Ranks |-> IF r \in Group THEN "verified" ELSE pc[r]]
  /\ targetGraph' \in BOOLEAN
  /\ UNCHANGED <<deployment, job, slotLen, prefilled, offer, draft>>

(* sample_tokens with a batch that does not fit: no draft, no collective.   *)
SkipDraft(r) ==
  /\ pc[r] = "verified" /\ ~job[r].fits
  /\ pc' = [pc EXCEPT ![r] = "ready"]
  /\ UNCHANGED <<deployment, job, slotLen, prefilled, targetGraph, offer, draft>>

(* use_cudagraphs: never with a permuted index; in a dummy run, if the      *)
(* target pass has run on graphs.                                           *)
UseGraphs(j) == IF j.kind = "real" THEN ~j.permuted ELSE targetGraph

(* _determine_graph_batch up to the collective.                             *)
OfferDraft(r) ==
  /\ offer' = [offer EXCEPT ![r] = Dispatch(job[r].n, UseGraphs(job[r]))]
  /\ pc' = [pc EXCEPT ![r] = "draft"]

(* The first call of propose() returns noise drafts and goes no further.    *)
WarmUp(r) == pc' = [pc EXCEPT ![r] = "ready"] /\ UNCHANGED offer

(* propose(): _resolve_slots sets the slot index, then the first call       *)
(* returns, and every later one goes on to its collective.                  *)
Propose(r) ==
  /\ pc[r] = "verified" /\ job[r].kind = "real" /\ job[r].fits
  /\ slotLen' = [slotLen EXCEPT ![r] = IF job[r].permuted THEN job[r].n ELSE 0]
  /\ prefilled' = [prefilled EXCEPT ![r] = TRUE]
  /\ IF prefilled[r] THEN OfferDraft(r) ELSE WarmUp(r)
  /\ UNCHANGED <<deployment, job, targetGraph, draft>>

NoDummyDraft(r) ==
  /\ pc[r] = "verified" /\ job[r].kind = "dummy"
  /\ pc' = [pc EXCEPT ![r] = "ready"]
  /\ UNCHANGED <<deployment, job, slotLen, prefilled, targetGraph, offer, draft>>

(* DSparkProposer.dummy_run: it leaves the slot index of the last propose() *)
(* in place.                                                                *)
DummyDraft(r) ==
  /\ pc[r] = "verified" /\ job[r].kind = "dummy"
  /\ OfferDraft(r)
  /\ UNCHANGED <<deployment, job, slotLen, prefilled, targetGraph, draft>>

SyncedModeAny ==
  IF \E r \in Group : offer[r].mode = "PIECEWISE" THEN "PIECEWISE" ELSE "NONE"

SyncedMode ==
  IF \A r \in Group : offer[r].mode = "PIECEWISE" THEN "PIECEWISE" ELSE "NONE"

AcrossDpOwn(r) == offer[r].size

(* The size of each rank after the collective: the largest if graphs run,   *)
(* its own otherwise.                                                       *)
AcrossDp(r) ==
  IF SyncedMode = "PIECEWISE"
  THEN CHOOSE n \in { offer[q].size : q \in Group } : \A q \in Group : offer[q].size <= n
  ELSE offer[r].size

(* The collective of the draft, and the second dispatch after it.           *)
CoordinateDraft ==
  /\ \A r \in Group : pc[r] = "draft"
  /\ pc' = [r \in Ranks |-> IF r \in Group THEN "run" ELSE pc[r]]
  /\ draft' = [r \in Ranks |->
       IF r \in Group THEN [mode |-> SyncedMode, size |-> AcrossDp(r)] ELSE draft[r]]
  /\ UNCHANGED <<deployment, job, slotLen, prefilled, targetGraph, offer>>

(* _run_draft_for_current_context: the draft itself, replayed or eager.     *)
RunDraft(r) ==
  /\ pc[r] = "run"
  /\ pc' = [pc EXCEPT ![r] = "ready"]
  /\ UNCHANGED <<deployment, job, slotLen, prefilled, targetGraph, offer, draft>>

Next ==
  \/ CoordinateTarget \/ CoordinateDraft
  \/ \E r \in Ranks : \/ StartReal(r) \/ StartDummy(r)
                      \/ SkipDraft(r) \/ Propose(r) \/ DummyDraft(r) \/ RunDraft(r)

Spec == Init /\ [][Next]_vars

(* Requests need not arrive, but the engine of a rank that has none keeps   *)
(* running dummy batches, and work that was started is finished.            *)
FairSpec ==
  /\ Spec
  /\ WF_vars(CoordinateTarget) /\ WF_vars(CoordinateDraft)
  /\ \A r \in Ranks :
       /\ WF_vars(StartDummy(r))
       /\ WF_vars(SkipDraft(r) \/ Propose(r) \/ DummyDraft(r) \/ RunDraft(r))

-----------------------------------------------------------------------------
TypeOK ==
  /\ deployment \in Deployments
  /\ pc \in [Ranks -> {"absent", "ready", "target", "verified", "draft", "run"}]
  /\ job \in [Ranks -> Real \cup {Dummy}]
  /\ slotLen \in [Ranks -> 0 .. MaxBatch]
  /\ prefilled \in [Ranks -> BOOLEAN]
  /\ targetGraph \in BOOLEAN
  /\ offer \in [Ranks -> Descriptors] /\ draft \in [Ranks -> Descriptors]

Waiting(r) == pc[r] \in {"target", "draft"}

(* The ranks that meet in an all-reduce mean the same batch by it: all the  *)
(* target's or all the draft's ("to avoid out of sync issues").             *)
CollectivesAligned ==
  (\A r \in Group : Waiting(r)) => \A r, q \in Group : pc[r] = pc[q]

(* No row of the batch is left out of the draft; the ranks that replay      *)
(* graphs all replay the same one; and it is one this rank dispatches to    *)
(* again, as the assertion after the second dispatch says.                  *)
DraftCoversBatch ==
  \A r, q \in Group :
    pc[r] = "run" => /\ draft[r].size >= job[r].n
                     /\ pc[q] = "run" /\ draft[r].mode = "PIECEWISE" => draft[q] = draft[r]
                     /\ Dispatch(draft[r].size, draft[r].mode = "PIECEWISE") = draft[r]

(* One entry of the slot index for each row of the draft, padding included, *)
(* where there is an index.                                                 *)
SlotIndexFits(r) == slotLen[r] # 0 => slotLen[r] = draft[r].size

(* "a buffer view of length batch_size": the draft of a real batch that     *)
(* reads its cache rows through the slot index, and so bypasses the         *)
(* captured graphs, has an entry for each of its rows, whatever the other   *)
(* ranks do: one permuted rank takes the whole group out of graphs, and so  *)
(* out of the padding that its index would not cover.  Not so for the dummy *)
(* draft of a rank that idles after a permuted batch, since dummy_run       *)
(* leaves the index in place.                                               *)
RealDraftsFitSlotIndex ==
  \A r \in Ranks : pc[r] = "run" /\ job[r].kind = "real" => SlotIndexFits(r)

(* No rank waits for ever: each step that starts ends.                      *)
StepsEnd == \A r \in Ranks : pc[r] = "target" ~> pc[r] = "ready"
==============================================================================
