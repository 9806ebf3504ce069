--------------------------- MODULE DraftRanksProofs ---------------------------
(***************************************************************************)
(* Theorems about DraftRanks, for any number of ranks, batch sizes and     *)
(* graphs.  The collectives stay aligned as long as the two paths on which *)
(* a rank with a batch makes no collective for its draft are not taken:    *)
(* the first call of propose() and a batch that does not fit in the        *)
(* drafter.  The slot index fits and the agreed size covers every batch    *)
(* whatever paths are taken.                                               *)
(***************************************************************************)
EXTENDS DraftRanks, WellFoundedInduction, TLAPS

(* The ranks are between two collectives of the same kind: all of them      *)
(* before the target's and past the draft's, or all of them between these.  *)
Outside == {"run", "ready", "target"}
Inside == {"verified", "draft"}

InStep ==
  \/ \A r \in Group : pc[r] \in Outside
  \/ \A r \in Group : pc[r] \in Inside

(* No batch of the deployments is skipped and no drafter is new.            *)
AlwaysDrafting == \A d \in Deployments : d.prefilled /\ ~d.maySkip

(* Every rank has a step to make a collective for its draft in.             *)
AllDraft ==
  /\ deployment \in Deployments
  /\ pc \in [Ranks -> Outside \cup Inside \cup {"absent"}]
  /\ job \in [Ranks -> Real \cup {Dummy}]
  /\ prefilled \in [Ranks -> BOOLEAN]
  /\ \A r \in Ranks : job[r].fits /\ prefilled[r]

StepInv == AllDraft /\ InStep

(* The group is a part of the ranks, and while all draft it is not empty.   *)
LEMMA GroupInRanks ==
  ASSUME StepInv PROVE Group \subseteq Ranks /\ Group # {}
  BY DraftRanksAssumption DEF StepInv, AllDraft, Group

(* A rank enters a step only from outside, and stays outside.               *)
LEMMA EnterKeepsStepInv ==
  ASSUME StepInv, AlwaysDrafting, NEW r \in Ranks, StartReal(r) \/ StartDummy(r)
  PROVE  StepInv'
<1>1. PICK j \in Real \cup {Dummy} : j.fits /\ Enter(r, j)
  <2>1. ~deployment.maySkip BY DEF StepInv, AllDraft, AlwaysDrafting
  <2>2. CASE StartReal(r) BY <2>1, <2>2 DEF StartReal
  <2>3. CASE StartDummy(r) BY <2>3 DEF StartDummy, Dummy
  <2> QED BY <2>2, <2>3
<1>2. /\ pc[r] = "ready" /\ pc' = [pc EXCEPT ![r] = "target"]
      /\ job' = [job EXCEPT ![r] = j] /\ prefilled' = prefilled /\ deployment' = deployment
  BY <1>1 DEF Enter
<1>3. AllDraft'
  BY <1>1, <1>2 DEF StepInv, AllDraft, Outside
<1>4. InStep'
  BY <1>2, GroupInRanks DEF StepInv, AllDraft, InStep, Group, Outside, Inside
<1> QED BY <1>3, <1>4 DEF StepInv

(* A rank past the target's collective goes to the draft's, whether it has  *)
(* a batch or runs a dummy one.                                             *)
LEMMA DraftKeepsStepInv ==
  ASSUME StepInv, NEW r \in Ranks, Propose(r) \/ DummyDraft(r)
  PROVE  StepInv'
<1>1. /\ pc[r] = "verified" /\ pc' = [pc EXCEPT ![r] = "draft"]
      /\ job' = job /\ prefilled' \in {prefilled, [prefilled EXCEPT ![r] = TRUE]}
      /\ deployment' = deployment
  BY DEF StepInv, AllDraft, Propose, DummyDraft, OfferDraft
<1>2. AllDraft'
  BY <1>1 DEF StepInv, AllDraft, Inside
<1>3. InStep'
  BY <1>1, GroupInRanks DEF StepInv, AllDraft, InStep, Group, Outside, Inside
<1> QED BY <1>2, <1>3 DEF StepInv

(* Every step keeps all ranks on one side of each collective.               *)
LEMMA StepInvInductive ==
  ASSUME StepInv, [Next]_vars, AlwaysDrafting
  PROVE  StepInv'
<1>1. CASE CoordinateTarget
  <2>1. AllDraft' BY <1>1 DEF StepInv, AllDraft, CoordinateTarget, Inside
  <2>2. InStep' BY <1>1, GroupInRanks DEF InStep, CoordinateTarget, Group, Inside
  <2> QED BY <2>1, <2>2 DEF StepInv
<1>2. CASE CoordinateDraft
  <2>1. AllDraft' BY <1>2 DEF StepInv, AllDraft, CoordinateDraft, Outside
  <2>2. InStep' BY <1>2, GroupInRanks DEF InStep, CoordinateDraft, Group, Outside
  <2> QED BY <2>1, <2>2 DEF StepInv
<1>3. ASSUME NEW r \in Ranks, StartReal(r) \/ StartDummy(r) PROVE StepInv'
  BY <1>3, EnterKeepsStepInv
<1>4. ASSUME NEW r \in Ranks, SkipDraft(r) PROVE StepInv'
  BY <1>4 DEF StepInv, AllDraft, SkipDraft
<1>5. ASSUME NEW r \in Ranks, Propose(r) \/ DummyDraft(r) PROVE StepInv'
  BY <1>5, DraftKeepsStepInv
<1>6. ASSUME NEW r \in Ranks, RunDraft(r) PROVE StepInv'
  <2>1. AllDraft' BY <1>6 DEF StepInv, AllDraft, RunDraft, Outside
  <2>2. InStep'
    BY <1>6, GroupInRanks DEF StepInv, AllDraft, InStep, RunDraft, Group, Outside, Inside
  <2> QED BY <2>1, <2>2 DEF StepInv
<1>7. CASE UNCHANGED vars
  BY <1>7 DEF vars, StepInv, AllDraft, InStep, Group
<1> QED BY <1>1, <1>2, <1>3, <1>4, <1>5, <1>6, <1>7 DEF Next

(* When all ranks wait, they wait in the same collective.                   *)
THEOREM CollectivesAlwaysAligned ==
  ASSUME AlwaysDrafting
  PROVE  Spec => []CollectivesAligned
<1>1. Init => StepInv
  <2> SUFFICES ASSUME Init PROVE StepInv OBVIOUS
  <2>1. AllDraft
    BY DEF Init, AllDraft, AlwaysDrafting, Outside, Dummy
  <2>2. InStep
    BY DraftRanksAssumption DEF Init, InStep, Group, Outside
  <2> QED BY <2>1, <2>2 DEF StepInv
<1>2. StepInv => CollectivesAligned
  BY GroupInRanks DEF StepInv, InStep, CollectivesAligned, Waiting, Outside, Inside
<1>3. StepInv /\ [Next]_vars => StepInv'
  BY StepInvInductive
<1> QED BY <1>1, <1>2, <1>3, PTL DEF Spec

-----------------------------------------------------------------------------
(* The slot index.  From propose() to the end of the draft it is the index  *)
(* of the rank's own batch; and a permuted batch is offered to the          *)
(* collective without graphs, at its own size.                              *)
PermutedReal(r) == job[r].kind = "real" /\ job[r].permuted

FitInv ==
  /\ pc \in [Ranks -> Outside \cup Inside \cup {"absent"}]
  /\ job \in [Ranks -> Real \cup {Dummy}]
  /\ DOMAIN slotLen = Ranks /\ DOMAIN offer = Ranks
  /\ \A r \in Ranks : pc[r] # "absent" => r \in Group
  /\ \A r \in Ranks : pc[r] \in {"draft", "run"} /\ job[r].kind = "real" =>
       slotLen[r] = IF job[r].permuted THEN job[r].n ELSE 0
  /\ \A r \in Ranks : pc[r] = "draft" /\ PermutedReal(r) =>
       offer[r] = [mode |-> "NONE", size |-> job[r].n]
  /\ \A r \in Ranks : pc[r] = "run" /\ PermutedReal(r) => draft[r].size = job[r].n

(* One permuted batch in the group takes all ranks out of graphs, and so    *)
(* out of padding.                                                          *)
LEMMA PermutedKeepsSize ==
  ASSUME NEW r \in Group, offer[r] = [mode |-> "NONE", size |-> job[r].n]
  PROVE  AcrossDp(r) = job[r].n
<1>1. SyncedMode = "NONE" BY DEF SyncedMode
<1> QED BY <1>1 DEF AcrossDp

(* Every step keeps a permuted slot index as long as its draft.             *)
LEMMA FitInvInductive ==
  ASSUME FitInv, [Next]_vars
  PROVE  FitInv'
<1> USE DEF FitInv, PermutedReal
<1>1. CASE CoordinateTarget
  BY <1>1 DEF CoordinateTarget, Group, Inside
<1>2. CASE CoordinateDraft
  <2>1. \A r \in Ranks : r \in Group \/ (pc[r] = "absent" /\ pc'[r] = "absent")
    BY <1>2 DEF CoordinateDraft
  <2>2. ASSUME NEW r \in Group, r \in Ranks, PermutedReal(r)
        PROVE  draft'[r].size = job[r].n
    <3>1. offer[r] = [mode |-> "NONE", size |-> job[r].n] BY <1>2, <2>2 DEF CoordinateDraft
    <3>2. AcrossDp(r) = job[r].n BY <2>2, <3>1, PermutedKeepsSize
    <3> QED BY <1>2, <2>2, <3>2 DEF CoordinateDraft
  <2>3. UNCHANGED <<deployment, job, slotLen, offer>>
    BY <1>2 DEF CoordinateDraft
  <2>4. pc' = [r \in Ranks |-> IF r \in Group THEN "run" ELSE pc[r]]
    BY <1>2 DEF CoordinateDraft
  <2>5. \A r \in Group : pc[r] = "draft"
    BY <1>2 DEF CoordinateDraft
  <2>6. \A r \in Ranks : pc'[r] = "run" /\ PermutedReal(r)' => draft'[r].size = job'[r].n
    BY <2>1, <2>2, <2>3
  <2> QED BY <2>1, <2>3, <2>4, <2>5, <2>6 DEF Group, Outside
<1>3. ASSUME NEW r \in Ranks, StartReal(r) \/ StartDummy(r) PROVE FitInv'
  <2>1. PICK j \in Real \cup {Dummy} : Enter(r, j)
    BY <1>3 DEF StartReal, StartDummy
  <2> QED BY <2>1 DEF Enter, Group, Outside
<1>4. ASSUME NEW r \in Ranks, SkipDraft(r) \/ RunDraft(r) PROVE FitInv'
  BY <1>4 DEF SkipDraft, RunDraft, Group, Outside
<1>5. ASSUME NEW r \in Ranks, Propose(r) PROVE FitInv'
  <2>1. CASE prefilled[r]
    BY <1>5, <2>1 DEF Propose, OfferDraft, UseGraphs, Dispatch, Group, Inside
  <2>2. CASE ~prefilled[r]
    BY <1>5, <2>2 DEF Propose, WarmUp, Group, Outside
  <2> QED BY <2>1, <2>2
<1>6. ASSUME NEW r \in Ranks, DummyDraft(r) PROVE FitInv'
  BY <1>6 DEF DummyDraft, OfferDraft, Group, Inside
<1>7. CASE UNCHANGED vars
  BY <1>7 DEF vars, Group
<1> QED BY <1>1, <1>2, <1>3, <1>4, <1>5, <1>6, <1>7 DEF Next

(* Whatever the ranks, the graphs and the deployment - new drafters and     *)
(* skipped batches included - the draft of a real batch has a slot index    *)
(* entry for each of its rows, or runs without an index.                    *)
THEOREM RealDraftsAlwaysFit == Spec => []RealDraftsFitSlotIndex
<1>1. Init => FitInv
  BY DEF Init, FitInv, PermutedReal, Outside, Dummy
<1>2. FitInv => RealDraftsFitSlotIndex
  BY DEF FitInv, PermutedReal, RealDraftsFitSlotIndex, SlotIndexFits
<1>3. FitInv /\ [Next]_vars => FitInv'
  BY FitInvInductive
<1> QED BY <1>1, <1>2, <1>3, PTL DEF Spec

-----------------------------------------------------------------------------
(* The sizes agreed on.  A set of sizes has a smallest element and, being   *)
(* bounded, a largest, which is all the CHOOSEs of the dispatch need.       *)
LEMMA SmallestExists ==
  ASSUME NEW S \in SUBSET Nat, S # {}
  PROVE  \E n \in S : \A m \in S : n <= m
<1> DEFINE Below == OpToRel(<, Nat)
<1>1. IsWellFoundedOn(Below, Nat)
  BY NatLessThanWellFounded
<1>2. \A m, n \in Nat : m < n => <<m, n>> \in Below
  BY DEF OpToRel
<1> HIDE DEF Below
<1>3. PICK n \in S : \A m \in S : ~(<<m, n>> \in Below)
  BY <1>1, WFMin
<1>4. ASSUME NEW m \in S PROVE n <= m
  <2>1. m \in Nat /\ n \in Nat /\ ~(m < n)
    BY <1>2, <1>3
  <2> QED BY <2>1
<1> QED BY <1>4

(* The same for the largest of the sizes up to MaxBatch.                    *)
LEMMA LargestExists ==
  ASSUME NEW S \in SUBSET (1 .. MaxBatch), S # {}
  PROVE  \E n \in S : \A m \in S : m <= n
<1> DEFINE T == { MaxBatch - n : n \in S }
<1>1. MaxBatch \in Nat
  BY DraftRanksAssumption
<1>2. T \in SUBSET Nat /\ T # {}
  <2>1. \A n \in S : n \in 1 .. MaxBatch /\ MaxBatch - n \in Nat
    BY <1>1
  <2>2. T \subseteq Nat /\ T # {}
    BY <2>1
  <2> QED BY <2>2
<1>3. PICK t \in T : \A u \in T : t <= u
  <2> HIDE DEF T
  <2> QED BY <1>2, SmallestExists
<1>4. PICK n \in S : t = MaxBatch - n
  BY <1>3
<1>5. \A m \in S : m <= n
  BY <1>1, <1>3, <1>4
<1> QED BY <1>5

(* What the dispatcher returns: room for n rows, and a descriptor that a    *)
(* dispatch of its own size returns again.                                  *)
Holds(d, n) ==
  /\ d \in [mode : {"PIECEWISE", "NONE"}, size : 1 .. MaxBatch]
  /\ d.size >= n
  /\ Dispatch(d.size, d.mode = "PIECEWISE") = d

(* Without graphs the size is the number of rows.                           *)
LEMMA EagerHolds ==
  ASSUME NEW n \in 1 .. MaxBatch, NEW m \in 1 .. MaxBatch, n <= m
  PROVE  Holds([mode |-> "NONE", size |-> m], n)
<1>1. Dispatch(m, FALSE) = [mode |-> "NONE", size |-> m]
  BY DEF Dispatch
<1> DEFINE d == [mode |-> "NONE", size |-> m]
<1>2. d.mode = "NONE" /\ d.size = m /\ (d.mode = "PIECEWISE") = FALSE
  OBVIOUS
<1>3. d \in [mode : {"PIECEWISE", "NONE"}, size : 1 .. MaxBatch]
  OBVIOUS
<1>4. d.size >= n
  BY DraftRanksAssumption
<1> HIDE DEF d
<1>5. Dispatch(d.size, d.mode = "PIECEWISE") = d
  BY <1>1, <1>2 DEF d
<1> QED BY <1>3, <1>4, <1>5 DEF Holds, d

(* The sizes of graphs that hold n rows.                                    *)
Holding(n) == { s \in GraphSizes : s >= n }

(* A captured size is stable.                                               *)
LEMMA GraphHolds ==
  ASSUME NEW n \in 1 .. MaxBatch, NEW c \in GraphSizes, n <= c
  PROVE  Holds([mode |-> "PIECEWISE", size |-> c], n)
<1>1. GraphSizes \subseteq 1 .. MaxBatch /\ MaxBatch \in Nat /\ c \in 1 .. MaxBatch
  BY DraftRanksAssumption
<1>2. c \in Holding(c) /\ \A s \in Holding(c) : c <= s /\ s \in Nat
  BY <1>1 DEF Holding
<1>3. (CHOOSE s \in Holding(c) : \A t \in Holding(c) : s <= t) = c
  <2>1. \A s \in Holding(c) : (\A t \in Holding(c) : s <= t) => s = c
    BY <1>1, <1>2
  <2> QED BY <1>2, <2>1
<1>4. Dispatch(c, TRUE) = [mode |-> "PIECEWISE", size |-> c]
  BY <1>2, <1>3 DEF Dispatch, Holding
<1> DEFINE d == [mode |-> "PIECEWISE", size |-> c]
<1>5. d.size = c /\ (d.mode = "PIECEWISE") = TRUE
  OBVIOUS
<1>6. d \in [mode : {"PIECEWISE", "NONE"}, size : 1 .. MaxBatch]
  BY <1>1
<1>7. d.size >= n
  BY <1>1
<1> HIDE DEF d
<1>8. Dispatch(d.size, d.mode = "PIECEWISE") = d
  BY <1>4, <1>5 DEF d
<1> QED BY <1>6, <1>7, <1>8 DEF Holds, d

(* So a dispatch holds its rows, with or without graphs.                    *)
LEMMA DispatchHolds ==
  ASSUME NEW n \in 1 .. MaxBatch, NEW graphs \in BOOLEAN
  PROVE  /\ Holds(Dispatch(n, graphs), n)
         /\ Dispatch(n, graphs).mode = "PIECEWISE" => Dispatch(n, graphs).size \in GraphSizes
<1>1. GraphSizes \subseteq 1 .. MaxBatch /\ MaxBatch \in Nat
  BY DraftRanksAssumption
<1>2. CASE graphs /\ Holding(n) # {}
  <2> DEFINE c == CHOOSE s \in Holding(n) : \A t \in Holding(n) : s <= t
  <2>1. \E s \in Holding(n) : \A t \in Holding(n) : s <= t
    <3>1. Holding(n) \subseteq Nat
      <4>1. \A s \in GraphSizes : s \in 1 .. MaxBatch /\ s \in Nat
        BY <1>1
      <4> QED BY <4>1 DEF Holding
    <3>2. Holding(n) \in SUBSET Nat
      BY <3>1
    <3> QED BY <1>2, <3>2, SmallestExists
  <2>2. c \in Holding(n)
    BY <2>1
  <2>3. Dispatch(n, graphs) = [mode |-> "PIECEWISE", size |-> c]
    BY <1>2 DEF Dispatch, Holding
  <2> HIDE DEF c
  <2>4. c \in GraphSizes /\ n <= c
    BY <1>1, <2>2 DEF Holding
  <2> QED BY <2>3, <2>4, GraphHolds
<1>3. CASE ~(graphs /\ Holding(n) # {})
  <2>1. Dispatch(n, graphs) = [mode |-> "NONE", size |-> n]
    BY <1>3 DEF Dispatch, Holding
  <2> QED BY <1>1, <2>1, EagerHolds
<1> QED BY <1>2, <1>3

(* The offers hold the batches they are made for, and so do the drafts      *)
(* agreed on, which are one draft if they run on graphs.                    *)
CoverInv ==
  /\ deployment \in Deployments
  /\ DOMAIN pc = Ranks /\ DOMAIN offer = Ranks /\ targetGraph \in BOOLEAN
  /\ job \in [Ranks -> Real \cup {Dummy}]
  /\ \A r \in Ranks : pc[r] = "draft" =>
       /\ Holds(offer[r], job[r].n)
       /\ offer[r].mode = "PIECEWISE" => offer[r].size \in GraphSizes
  /\ \A r \in Ranks : pc[r] = "run" => Holds(draft[r], job[r].n)
  /\ \A r, q \in Group :
       pc[r] = "run" /\ pc[q] = "run" /\ draft[r].mode = "PIECEWISE" => draft[q] = draft[r]

(* Every rank has a batch, if only a dummy one.                             *)
LEMMA JobFacts ==
  ASSUME CoverInv, NEW r \in Ranks
  PROVE  job[r].n \in 1 .. MaxBatch /\ UseGraphs(job[r]) \in BOOLEAN
<1>1. MaxBatch \in Nat \ {0}
  BY DraftRanksAssumption
<1>2. job[r] \in Real \cup {Dummy}
  BY DEF CoverInv
<1>3. CASE job[r] \in Real
  BY <1>1, <1>3 DEF Real, UseGraphs
<1>4. CASE job[r] = Dummy
  BY <1>1, <1>4 DEF Dummy, UseGraphs, CoverInv
<1> QED BY <1>2, <1>3, <1>4

(* What the collective of the draft agrees on holds the batch of each rank, *)
(* whichever rank brought the largest.                                      *)
LEMMA AgreedHolds ==
  ASSUME CoverInv, CoordinateDraft, NEW r \in Group
  PROVE  Holds([mode |-> SyncedMode, size |-> AcrossDp(r)], job[r].n)
<1>1. Group \subseteq Ranks /\ MaxBatch \in Nat /\ GraphSizes \subseteq 1 .. MaxBatch
  BY DraftRanksAssumption DEF CoverInv, Group
<1>2. \A q \in Group : /\ offer[q].size \in 1 .. MaxBatch /\ offer[q].size >= job[q].n
                       /\ offer[q].mode = "PIECEWISE" => offer[q].size \in GraphSizes
  BY <1>1 DEF CoverInv, CoordinateDraft, Holds
<1>3. job[r].n \in 1 .. MaxBatch
  BY <1>1, JobFacts
<1>4. CASE SyncedMode = "PIECEWISE"
  <2> DEFINE S == { offer[q].size : q \in Group }
             top == CHOOSE n \in S : \A q \in Group : offer[q].size <= n
  <2>1. \A q \in Group : offer[q].mode = "PIECEWISE"
    BY <1>4 DEF SyncedMode
  <2>2. S \subseteq GraphSizes /\ S \in SUBSET (1 .. MaxBatch) /\ S # {}
    BY <1>2, <2>1
  <2>3. \E n \in S : \A q \in Group : offer[q].size <= n
    <3>1. PICK n \in S : \A m \in S : m <= n
      <4> HIDE DEF S
      <4> QED BY <2>2, LargestExists
    <3> QED BY <3>1
  <2>4. top \in S /\ offer[r].size <= top
    BY <2>3
  <2>5. AcrossDp(r) = top
    BY <1>4 DEF AcrossDp
  <2> HIDE DEF top
  <2>6. top \in GraphSizes /\ job[r].n <= top
    BY <1>1, <1>2, <1>3, <2>2, <2>4
  <2> QED BY <1>3, <1>4, <2>5, <2>6, GraphHolds
<1>5. CASE SyncedMode # "PIECEWISE"
  <2>1. SyncedMode = "NONE" /\ AcrossDp(r) = offer[r].size
    BY <1>5 DEF SyncedMode, AcrossDp
  <2>2. offer[r].size \in 1 .. MaxBatch /\ job[r].n <= offer[r].size
    BY <1>1, <1>2, <1>3
  <2> QED BY <1>3, <2>1, <2>2, EagerHolds
<1> QED BY <1>4, <1>5

(* A step that brings no rank to its draft and changes no offer.            *)
LEMMA QuietKeepsCover ==
  ASSUME CoverInv, UNCHANGED <<deployment, offer, draft>>,
         DOMAIN pc' = Ranks, job' \in [Ranks -> Real \cup {Dummy}], targetGraph' \in BOOLEAN,
         \A r \in Ranks : pc'[r] \in {"draft", "run"} => pc[r] = pc'[r] /\ job'[r] = job[r]
  PROVE  CoverInv'
<1>1. Group' = Group /\ Group \subseteq Ranks
  BY DraftRanksAssumption DEF CoverInv, Group
<1>2. \A r \in Ranks : pc'[r] = "draft" =>
        /\ Holds(offer'[r], job'[r].n)
        /\ offer'[r].mode = "PIECEWISE" => offer'[r].size \in GraphSizes
  BY DEF CoverInv
<1>3. \A r \in Ranks : pc'[r] = "run" => Holds(draft'[r], job'[r].n)
  BY DEF CoverInv
<1>4. \A r, q \in Group :
        pc'[r] = "run" /\ pc'[q] = "run" /\ draft'[r].mode = "PIECEWISE" => draft'[q] = draft'[r]
  BY <1>1 DEF CoverInv
<1> QED BY <1>1, <1>2, <1>3, <1>4 DEF CoverInv

(* Every step keeps the sizes.                                              *)
LEMMA CoverInvInductive ==
  ASSUME CoverInv, [Next]_vars
  PROVE  CoverInv'
<1>1. CASE CoordinateTarget
  <2>1. /\ UNCHANGED <<deployment, job, offer, draft>> /\ targetGraph' \in BOOLEAN
        /\ pc' = [r \in Ranks |-> IF r \in Group THEN "verified" ELSE pc[r]]
    BY <1>1 DEF CoordinateTarget
  <2> QED BY <2>1, QuietKeepsCover DEF CoverInv
<1>2. CASE CoordinateDraft
  <2>1. /\ UNCHANGED <<deployment, job, targetGraph, offer>> /\ Group' = Group
        /\ pc' = [r \in Ranks |-> IF r \in Group THEN "run" ELSE pc[r]]
        /\ draft' = [r \in Ranks |->
             IF r \in Group THEN [mode |-> SyncedMode, size |-> AcrossDp(r)] ELSE draft[r]]
    BY <1>2 DEF CoordinateDraft, Group
  <2>2. ASSUME NEW r \in Ranks, pc'[r] = "run" PROVE Holds(draft'[r], job[r].n)
    <3>1. CASE r \in Group
      BY <1>2, <2>1, <3>1, AgreedHolds
    <3>2. CASE r \notin Group
      BY <2>1, <2>2, <3>2 DEF CoverInv
    <3> QED BY <3>1, <3>2
  <2>3. ASSUME NEW r \in Group, NEW q \in Group, draft'[r].mode = "PIECEWISE"
        PROVE  draft'[q] = draft'[r]
    <3>1. r \in Ranks /\ q \in Ranks
      BY DraftRanksAssumption DEF CoverInv, Group
    <3>2. SyncedMode = "PIECEWISE"
      BY <2>1, <2>3, <3>1
    <3>3. AcrossDp(r) = AcrossDp(q)
      BY <3>2 DEF AcrossDp
    <3> QED BY <2>1, <3>1, <3>3
  <2>4. \A r \in Ranks : pc'[r] = "draft" => pc[r] = "draft"
    BY <2>1
  <2>5. DOMAIN pc' = Ranks
    BY <2>1
  <2>6. \A r \in Ranks : pc'[r] = "run" => Holds(draft'[r], job'[r].n)
    BY <2>1, <2>2
  <2>7. \A r \in Ranks : pc'[r] = "draft" =>
          /\ Holds(offer'[r], job'[r].n)
          /\ offer'[r].mode = "PIECEWISE" => offer'[r].size \in GraphSizes
    BY <2>1, <2>4 DEF CoverInv
  <2> QED BY <2>1, <2>3, <2>5, <2>6, <2>7 DEF CoverInv
<1>3. ASSUME NEW r \in Ranks, StartReal(r) \/ StartDummy(r) PROVE CoverInv'
  <2>1. PICK j \in Real \cup {Dummy} : Enter(r, j)
    BY <1>3 DEF StartReal, StartDummy
  <2>2. /\ pc' = [pc EXCEPT ![r] = "target"] /\ job' = [job EXCEPT ![r] = j]
        /\ UNCHANGED <<deployment, targetGraph, offer, draft>>
    BY <2>1 DEF Enter
  <2> QED BY <2>1, <2>2, QuietKeepsCover DEF CoverInv
<1>4. ASSUME NEW r \in Ranks, SkipDraft(r) \/ RunDraft(r) PROVE CoverInv'
  <2>1. /\ pc' = [pc EXCEPT ![r] = "ready"]
        /\ UNCHANGED <<deployment, job, targetGraph, offer, draft>>
    BY <1>4 DEF SkipDraft, RunDraft
  <2> QED BY <2>1, QuietKeepsCover DEF CoverInv
<1>5. ASSUME NEW r \in Ranks, pc[r] = "verified", OfferDraft(r),
             UNCHANGED <<deployment, job, targetGraph, draft>>
      PROVE  CoverInv'
  <2> DEFINE d == Dispatch(job[r].n, UseGraphs(job[r]))
  <2>1. Holds(d, job[r].n) /\ (d.mode = "PIECEWISE" => d.size \in GraphSizes)
    BY JobFacts, DispatchHolds
  <2>2. offer' = [offer EXCEPT ![r] = d] /\ pc' = [pc EXCEPT ![r] = "draft"]
    BY <1>5 DEF OfferDraft
  <2> HIDE DEF d
  <2> QED BY <1>5, <2>1, <2>2 DEF CoverInv, Group
<1>6. ASSUME NEW r \in Ranks, Propose(r) PROVE CoverInv'
  <2>1. pc[r] = "verified" /\ UNCHANGED <<deployment, job, targetGraph, draft>>
    BY <1>6 DEF Propose
  <2>2. CASE prefilled[r]
    BY <1>5, <1>6, <2>1, <2>2 DEF Propose
  <2>3. CASE ~prefilled[r]
    <3>1. pc' = [pc EXCEPT ![r] = "ready"] /\ UNCHANGED offer
      BY <1>6, <2>3 DEF Propose, WarmUp
    <3> QED BY <2>1, <3>1, QuietKeepsCover DEF CoverInv
  <2> QED BY <2>2, <2>3
<1>7. ASSUME NEW r \in Ranks, DummyDraft(r) PROVE CoverInv'
  BY <1>5, <1>7 DEF DummyDraft
<1>8. CASE UNCHANGED vars
  <2>1. UNCHANGED <<deployment, pc, job, targetGraph, offer, draft>>
    BY <1>8 DEF vars
  <2> QED BY <2>1, QuietKeepsCover DEF CoverInv
<1> QED BY <1>1, <1>2, <1>3, <1>4, <1>6, <1>7, <1>8 DEF Next

(* Initially nobody has offered a graph or entered a collective.            *)
LEMMA CoverInvInit == ASSUME Init PROVE CoverInv
<1>1. /\ deployment \in Deployments /\ Group \subseteq Ranks
      /\ \A r \in Ranks : pc[r] \in {"ready", "absent"}
  BY DraftRanksAssumption DEF Init, Group
<1>2. /\ DOMAIN pc = Ranks /\ DOMAIN offer = Ranks /\ targetGraph \in BOOLEAN
      /\ job \in [Ranks -> Real \cup {Dummy}]
  BY DEF Init
<1> QED BY <1>1, <1>2 DEF CoverInv

(* Whatever the ranks, the captured sizes and the deployment: no row of a   *)
(* batch is left out of its draft, the ranks that replay graphs replay the  *)
(* same one, and the assertion after the second dispatch never fails.       *)
THEOREM DraftsAlwaysCover == Spec => []DraftCoversBatch
<1>1. Init => CoverInv BY CoverInvInit
<1>2. CoverInv => DraftCoversBatch
  <2>1. CoverInv => Group \subseteq Ranks
    BY DraftRanksAssumption DEF CoverInv, Group
  <2> QED BY <2>1 DEF CoverInv, DraftCoversBatch, Holds
<1>3. CoverInv /\ [Next]_vars => CoverInv'
  BY CoverInvInductive
<1> QED BY <1>1, <1>2, <1>3, PTL DEF Spec
-----------------------------------------------------------------------------
(* The types rest on the sizes: what is offered and agreed on is a draft of *)
(* at most MaxBatch rows.                                                   *)
LEMMA TypesInductive ==
  ASSUME CoverInv, TypeOK, [Next]_vars
  PROVE  TypeOK'
<1> USE DEF TypeOK
<1>1. CASE CoordinateTarget BY <1>1 DEF CoordinateTarget
<1>2. CASE CoordinateDraft
  <2>1. \A r \in Group : [mode |-> SyncedMode, size |-> AcrossDp(r)] \in Descriptors
    BY <1>2, AgreedHolds DEF Holds, Descriptors, Modes
  <2> DEFINE Agreed(r) == [mode |-> SyncedMode, size |-> AcrossDp(r)]
  <2>2. draft' = [r \in Ranks |-> IF r \in Group THEN Agreed(r) ELSE draft[r]]
    BY <1>2 DEF CoordinateDraft
  <2> HIDE DEF Agreed
  <2>3. \A r \in Group : Agreed(r) \in Descriptors BY <2>1 DEF Agreed
  <2>4. draft' \in [Ranks -> Descriptors] BY <2>2, <2>3
  <2> QED BY <1>2, <2>4 DEF CoordinateDraft
<1>3. ASSUME NEW r \in Ranks, StartReal(r) \/ StartDummy(r) PROVE TypeOK'
  <2>1. PICK j \in Real \cup {Dummy} : Enter(r, j)
    BY <1>3 DEF StartReal, StartDummy
  <2> QED BY <2>1 DEF Enter
<1>4. ASSUME NEW r \in Ranks, SkipDraft(r) \/ RunDraft(r) PROVE TypeOK'
  BY <1>4 DEF SkipDraft, RunDraft
<1>5. ASSUME NEW r \in Ranks, OfferDraft(r) PROVE offer' \in [Ranks -> Descriptors]
  <2> DEFINE d == Dispatch(job[r].n, UseGraphs(job[r]))
  <2>1. d \in Descriptors BY JobFacts, DispatchHolds DEF Holds, Descriptors, Modes
  <2>2. offer' = [offer EXCEPT ![r] = d] BY <1>5 DEF OfferDraft
  <2> HIDE DEF d
  <2> QED BY <2>1, <2>2
<1>6. ASSUME NEW r \in Ranks, Propose(r) PROVE TypeOK'
  <2>1. job[r].n \in 0 .. MaxBatch /\ 0 \in 0 .. MaxBatch
    BY JobFacts, DraftRanksAssumption
  <2>2. slotLen' \in [Ranks -> 0 .. MaxBatch] /\ prefilled' \in [Ranks -> BOOLEAN]
    BY <1>6, <2>1 DEF Propose
  <2>3. offer' \in [Ranks -> Descriptors] BY <1>5, <1>6 DEF Propose, WarmUp
  <2>4. pc' \in [Ranks -> {"absent", "ready", "target", "verified", "draft", "run"}]
    BY <1>6 DEF Propose, WarmUp, OfferDraft
  <2> QED BY <1>6, <2>2, <2>3, <2>4 DEF Propose
<1>7. ASSUME NEW r \in Ranks, DummyDraft(r) PROVE TypeOK'
  <2>1. offer' \in [Ranks -> Descriptors] BY <1>5, <1>7 DEF DummyDraft
  <2>2. pc' \in [Ranks -> {"absent", "ready", "target", "verified", "draft", "run"}]
    BY <1>7 DEF DummyDraft, OfferDraft
  <2> QED BY <1>7, <2>1, <2>2 DEF DummyDraft
<1>8. CASE UNCHANGED vars BY <1>8 DEF vars
<1> QED BY <1>1, <1>2, <1>3, <1>4, <1>6, <1>7, <1>8 DEF Next

(* Every rank is somewhere in a step of a batch it can have, and no offer,  *)
(* draft or slot index is larger than the largest batch.                    *)
THEOREM RanksTypeOK == Spec => []TypeOK
<1>1. Init => CoverInv /\ TypeOK
  <2> SUFFICES ASSUME Init PROVE CoverInv /\ TypeOK OBVIOUS
  <2>1. NoDraft \in Descriptors BY DraftRanksAssumption DEF NoDraft, Descriptors, Modes
  <2>2. deployment.prefilled \in BOOLEAN BY DraftRanksAssumption DEF Init
  <2>3. slotLen \in [Ranks -> 0 .. MaxBatch]
    <3>1. 0 \in 0 .. MaxBatch BY DraftRanksAssumption
    <3> QED BY <3>1 DEF Init
  <2>4. /\ prefilled \in [Ranks -> BOOLEAN]
        /\ offer \in [Ranks -> Descriptors] /\ draft \in [Ranks -> Descriptors]
    BY <2>1, <2>2 DEF Init
  <2>5. TypeOK BY <2>3, <2>4 DEF Init, TypeOK
  <2> QED BY <2>5, CoverInvInit
<1>2. CoverInv /\ TypeOK /\ [Next]_vars => CoverInv' /\ TypeOK'
  BY CoverInvInductive, TypesInductive
<1> QED BY <1>1, <1>2, PTL DEF Spec
==============================================================================
