-------------------------- MODULE DraftStreamsProofs --------------------------
(***************************************************************************)
(* What crosses between the thread and the GPU is what was meant to cross, *)
(* in whatever order the streams run, for every set of requests, batches   *)
(* and copies outstanding: the forward passes have their own inputs, the   *)
(* counts and drafts read on the CPU are those of the step they are given  *)
(* for, and drafts are judged by the probabilities they were drawn from.   *)
(***************************************************************************)
EXTENDS DraftStreams, SequenceTheorems, FiniteSetTheorems, TLAPS

Ops == {"upload", "forward", "draft"} \X (1 .. Ids)
Counted == {"counts"} \X (1 .. Ids)
Copies == [op : {"drafts"} \X (1 .. Ids), reqs : Batches]
Streams == [main : Seq(Ops), counts : Seq(Counted), drafts : Seq(Copies)]
Records == [reqs : Batches \cup {<< >>}, step : 0 .. Ids, real : BOOLEAN]
PlanRecords ==
  [reqs : Batches \cup {<< >>}, partial : SUBSET Reqs, source : [Reqs -> 0 .. Ids], fits : BOOLEAN]
Drawn == (Reqs \X (1 .. Ids)) \cup {Zero}

InFlight == IF async THEN 2 ELSE 1

Types ==
  /\ async \in Engines /\ cpu \in {"schedule", "correct", "sample", "process"}
  /\ step \in 0 .. Ids /\ (cpu # "schedule" => step # 0 /\ plan.reqs # << >>)
  /\ plan \in PlanRecords
  /\ flying \in Seq(1 .. Ids)
  /\ Len(flying) <= InFlight
  /\ cpu \in {"correct", "sample"} => Len(flying) < InFlight
  /\ held \in [Reqs -> 0 .. Ids]
  /\ stream \in Streams
  /\ inputs \in [cpu : 0 .. Ids, gpu : 0 .. Ids] /\ counts \in 0 .. Ids
  /\ drafts \in [1 .. Cardinality(Reqs) -> Drawn]
  /\ draftReqs \in Records /\ probs \in Records

-----------------------------------------------------------------------------
(* Numbers and batches.                                                     *)

(* Step numbers start again from 1 after Ids.                               *)
LEMMA NextStepIsStep ==
  ASSUME step \in 0 .. Ids PROVE NextStep \in 1 .. Ids
<1>1. Ids \in Nat /\ Ids > 1 BY DraftStreamsAssumption
<1> QED BY <1>1 DEF NextStep

Previous(s) == ((s + Ids - 2) % Ids) + 1

(* The step before the next one is this one.                                *)
LEMMA PreviousOfNext ==
  ASSUME step \in 1 .. Ids PROVE Previous(NextStep) = step
<1>1. Ids \in Nat /\ Ids > 1 BY DraftStreamsAssumption
<1>2. CASE step = Ids
  <2>1. step % Ids = 0 BY <1>1, <1>2
  <2>2. Previous(NextStep) = ((Ids - 1) % Ids) + 1 BY <1>1, <2>1 DEF Previous, NextStep
  <2>3. (Ids - 1) % Ids = Ids - 1 BY <1>1
  <2> QED BY <1>1, <1>2, <2>2, <2>3
<1>3. CASE step < Ids
  <2>1. step % Ids = step BY <1>1, <1>3
  <2>2. Previous(NextStep) = ((step - 1 + Ids) % Ids) + 1
    <3>1. NextStep + Ids - 2 = step - 1 + Ids BY <1>1, <2>1 DEF NextStep
    <3> QED BY <3>1 DEF Previous
  <2>3. (step - 1 + Ids) % Ids = step - 1
    <3> DEFINE x == step - 1
    <3>1. x \in Nat /\ x < Ids BY <1>1, <1>3
    <3> HIDE DEF x
    <3>2. (x + Ids) % Ids = x BY <1>1, <3>1
    <3> QED BY <3>2 DEF x
  <2> QED BY <1>1, <1>3, <2>2, <2>3
<1> QED BY <1>1, <1>2, <1>3

(* A batch names requests, each once, and so has no more rows than there    *)
(* are requests.                                                            *)
LEMMA BatchFacts ==
  ASSUME NEW b \in Batches
  PROVE  /\ b \in Seq(Reqs) /\ b # << >> /\ DOMAIN b = 1 .. Len(b)
         /\ Len(b) \in 0 .. Cardinality(Reqs) /\ ToSet(b) \subseteq Reqs
<1>1. b \in Seq(Reqs) /\ b # << >> /\ IsInjective(b) BY DraftStreamsAssumption
<1>2. Len(b) \in Nat /\ b \in [1 .. Len(b) -> Reqs] /\ DOMAIN b = 1 .. Len(b)
  BY <1>1, LenProperties
<1>3. b \in Injection(1 .. Len(b), Reqs) BY <1>1, <1>2 DEF Injection, IsInjective
<1>4. IsFiniteSet(Reqs) BY DraftStreamsAssumption
<1>5. Cardinality(Reqs) \in Nat BY <1>4, FS_CardinalityType
<1>6. Cardinality(1 .. Len(b)) <= Cardinality(Reqs) BY <1>3, <1>4, FS_Injection
<1>7. Cardinality(1 .. Len(b)) = Len(b) BY <1>2, FS_Interval
<1> QED BY <1>1, <1>2, <1>5, <1>6, <1>7 DEF ToSet

(* The oldest output leaves the others in their order.                      *)
LEMMA RemoveOldest ==
  ASSUME NEW S, NEW q \in Seq(S), q # << >>
  PROVE  RemoveAt(q, Oldest) \in Seq(S) /\ Len(RemoveAt(q, Oldest)) = Len(q) - 1
<1>1. SubSeq(q, 1, 0) = << >> BY SubSeqEmpty
<1>2. Len(q) \in Nat \ {0} /\ DOMAIN q = 1 .. Len(q) /\ \A i \in 1 .. Len(q) : q[i] \in S
  BY LenProperties, EmptySeq
<1>3. SubSeq(q, 2, Len(q)) \in Seq(S) /\ Len(SubSeq(q, 2, Len(q))) = Len(q) - 1
  BY <1>2, SubSeqProperties
<1>4. RemoveAt(q, Oldest) = << >> \o SubSeq(q, 2, Len(q)) BY <1>1 DEF RemoveAt, Oldest
<1> QED BY <1>3, <1>4, ConcatEmptySeq
-----------------------------------------------------------------------------
(* The inputs.  A forward pass that an upload precedes on the stream reads  *)
(* what the pinned buffers hold, any other one what the GPU's hold.         *)
Fed(q, c, g) ==
  \A i \in 1 .. Len(q) : q[i][1] = "forward" =>
    q[i][2] = IF \E j \in 1 .. i - 1 : q[j][1] = "upload" THEN c ELSE g

InputsInv == Fed(stream.main, inputs.cpu, inputs.gpu)

(* The forward pass that runs next is fed.                                  *)
LEMMA FedHead ==
  ASSUME NEW q \in Seq(Ops), q # << >>, NEW c, NEW g, Fed(q, c, g), Head(q)[1] = "forward"
  PROVE  Head(q)[2] = g
<1>1. Len(q) \in Nat \ {0} /\ Head(q) = q[1] BY EmptySeq
<1>2. 1 \in 1 .. Len(q) /\ ~ \E j \in 1 .. 1 - 1 : q[j][1] = "upload" BY <1>1
<1> QED BY <1>1, <1>2 DEF Fed

(* Running an operation keeps the others fed: an upload feeds those behind. *)
LEMMA FedTail ==
  ASSUME NEW q \in Seq(Ops), q # << >>, NEW c, NEW g, Fed(q, c, g)
  PROVE  Fed(Tail(q), c, IF Head(q)[1] = "upload" THEN c ELSE g)
<1>1. /\ Len(q) \in Nat \ {0} /\ Head(q) = q[1] /\ Len(Tail(q)) = Len(q) - 1
      /\ \A i \in 1 .. Len(Tail(q)) : Tail(q)[i] = q[i + 1]
  BY EmptySeq, HeadTailProperties
<1> DEFINE t == Tail(q)
<1> SUFFICES ASSUME NEW i \in 1 .. Len(t), t[i][1] = "forward"
             PROVE  t[i][2] = IF \E j \in 1 .. i - 1 : t[j][1] = "upload" THEN c
                              ELSE IF Head(q)[1] = "upload" THEN c ELSE g
  BY DEF Fed
<1>2. i + 1 \in 1 .. Len(q) /\ t[i] = q[i + 1] BY <1>1
<1>3. t[i][2] = IF \E j \in 1 .. (i + 1) - 1 : q[j][1] = "upload" THEN c ELSE g
  BY <1>2 DEF Fed
<1>4. ASSUME NEW j \in 1 .. i - 1, t[j][1] = "upload"
      PROVE  \E k \in 1 .. (i + 1) - 1 : q[k][1] = "upload"
  <2>1. j + 1 \in 1 .. (i + 1) - 1 /\ t[j] = q[j + 1] BY <1>1
  <2> QED BY <1>4, <2>1
<1>5. ASSUME NEW k \in 1 .. (i + 1) - 1, q[k][1] = "upload", k # 1
      PROVE  \E j \in 1 .. i - 1 : t[j][1] = "upload"
  <2>1. k - 1 \in 1 .. i - 1 /\ k - 1 \in 1 .. Len(t) /\ (k - 1) + 1 = k BY <1>1, <1>5
  <2>2. t[k - 1] = q[k] BY <1>1, <2>1
  <2> QED BY <1>5, <2>1, <2>2
<1>6. CASE \E j \in 1 .. i - 1 : t[j][1] = "upload" BY <1>3, <1>4, <1>6
<1>7. CASE ~ \E j \in 1 .. i - 1 : t[j][1] = "upload"
  <2>1. CASE q[1][1] = "upload"
    <3>1. 1 \in 1 .. (i + 1) - 1 OBVIOUS
    <3> QED BY <1>1, <1>3, <1>7, <2>1, <3>1
  <2>2. CASE q[1][1] # "upload" BY <1>1, <1>3, <1>5, <1>7, <2>2
  <2> QED BY <2>1, <2>2
<1> QED BY <1>6, <1>7

(* A step launched when no upload is left is fed by its own.                *)
LEMMA FedLaunch ==
  ASSUME NEW q \in Seq(Ops), NEW c, NEW g, Fed(q, c, g), NEW n \in 1 .. Ids,
         \A i \in 1 .. Len(q) : q[i][1] # "upload"
  PROVE  Fed(q \o << <<"upload", n>>, <<"forward", n>> >>, n, g)
<1> DEFINE two == << <<"upload", n>>, <<"forward", n>> >>
           t == q \o two
<1>1. two \in Seq(Ops) /\ Len(two) = 2 BY DEF Ops
<1>2. /\ Len(q) \in Nat /\ Len(t) = Len(q) + 2
      /\ \A i \in 1 .. Len(q) + 2 : t[i] = IF i <= Len(q) THEN q[i] ELSE two[i - Len(q)]
  BY <1>1, LenProperties, ConcatProperties
<1> SUFFICES ASSUME NEW i \in 1 .. Len(t), t[i][1] = "forward"
             PROVE  t[i][2] = IF \E j \in 1 .. i - 1 : t[j][1] = "upload" THEN n ELSE g
  BY DEF Fed
<1>3. CASE i <= Len(q)
  <2>1. i \in 1 .. Len(q) /\ t[i] = q[i] BY <1>2, <1>3
  <2>2. \A j \in 1 .. i - 1 : t[j] = q[j] /\ j \in 1 .. Len(q) BY <1>2, <1>3
  <2>3. ~ \E j \in 1 .. i - 1 : t[j][1] = "upload" BY <2>2
  <2>4. ~ \E j \in 1 .. i - 1 : q[j][1] = "upload" BY <2>2
  <2> QED BY <2>1, <2>3, <2>4 DEF Fed
<1>4. CASE i = Len(q) + 1
  <2>1. i - Len(q) = 1 /\ i \in 1 .. Len(q) + 2 /\ ~(i <= Len(q)) BY <1>2, <1>4
  <2>2. t[i] = two[1] BY <1>2, <2>1
  <2> QED BY <2>2
<1>5. CASE i = Len(q) + 2
  <2>1. i - Len(q) = 2 /\ i \in 1 .. Len(q) + 2 /\ ~(i <= Len(q)) BY <1>2, <1>5
  <2>2. t[i] = two[2] BY <1>2, <2>1
  <2>3. /\ Len(q) + 1 \in 1 .. i - 1 /\ (Len(q) + 1) - Len(q) = 1
        /\ Len(q) + 1 \in 1 .. Len(q) + 2 /\ ~(Len(q) + 1 <= Len(q))
    BY <1>2, <1>5
  <2>4. t[Len(q) + 1] = two[1] BY <1>2, <2>3
  <2> QED BY <2>2, <2>3, <2>4
<1> QED BY <1>2, <1>3, <1>4, <1>5

(* Launching a draft pass changes nothing for the forward passes.           *)
LEMMA FedDraft ==
  ASSUME NEW q \in Seq(Ops), NEW c, NEW g, Fed(q, c, g), NEW n \in 1 .. Ids
  PROVE  Fed(q \o << <<"draft", n>> >>, c, g)
<1> DEFINE one == << <<"draft", n>> >>
           t == q \o one
<1>1. one \in Seq(Ops) /\ Len(one) = 1 BY DEF Ops
<1>2. /\ Len(q) \in Nat /\ Len(t) = Len(q) + 1
      /\ \A i \in 1 .. Len(q) + 1 : t[i] = IF i <= Len(q) THEN q[i] ELSE one[i - Len(q)]
  BY <1>1, LenProperties, ConcatProperties
<1> SUFFICES ASSUME NEW i \in 1 .. Len(t), t[i][1] = "forward"
             PROVE  t[i][2] = IF \E j \in 1 .. i - 1 : t[j][1] = "upload" THEN c ELSE g
  BY DEF Fed
<1>3. CASE i <= Len(q)
  <2>1. i \in 1 .. Len(q) /\ t[i] = q[i] BY <1>2, <1>3
  <2>2. \A j \in 1 .. i - 1 : t[j] = q[j] BY <1>2, <1>3
  <2> QED BY <2>1, <2>2 DEF Fed
<1>4. CASE i = Len(q) + 1
  <2>1. i - Len(q) = 1 /\ i \in 1 .. Len(q) + 1 /\ ~(i <= Len(q)) BY <1>2, <1>4
  <2>2. t[i] = one[1] BY <1>2, <2>1
  <2> QED BY <2>2
<1> QED BY <1>2, <1>3, <1>4

(* synchronize_input_prep: no upload of any step is left.                   *)
LEMMA NoUploadLeft ==
  ASSUME stream.main \in Seq(Ops), InputsFree, NEW i \in 1 .. Len(stream.main)
  PROVE  stream.main[i][1] # "upload"
<1>1. stream.main[i] \in Ops /\ DOMAIN stream.main = 1 .. Len(stream.main)
  BY LenProperties, ElementOfSeq
<1>2. PICK op \in {"upload", "forward", "draft"}, s \in 1 .. Ids : stream.main[i] = <<op, s>>
  BY <1>1 DEF Ops
<1>3. stream.main[i] \in ToSet(stream.main) BY <1>1 DEF ToSet
<1> QED BY <1>2, <1>3 DEF InputsFree, Done
-----------------------------------------------------------------------------
(* The types.                                                               *)

(* What a step may be planned with.                                         *)
LEMMA PlanType ==
  ASSUME Types, NEW b \in Batches, NEW ends \in BOOLEAN, NEW f \in BOOLEAN
  PROVE  Plan(b, ends, f) \in PlanRecords /\ Plan(b, ends, f).reqs = b
<1>1. ToSet(b) \subseteq Reqs BY BatchFacts
<1>2. \A r \in Reqs : Source(r) \in 0 .. Ids BY DraftStreamsAssumption DEF Types, Source
<1> QED BY <1>1, <1>2, DraftStreamsAssumption DEF Plan, PlanRecords

(* The streams after a step's inputs and forward pass are launched.         *)
LEMMA ExecuteStreams ==
  ASSUME Types, NEW p, Execute(p)
  PROVE  /\ stream' \in Streams /\ NextStep \in 1 .. Ids
         /\ stream'.main = stream.main \o << <<"upload", NextStep>>, <<"forward", NextStep>> >>
         /\ stream'.counts = stream.counts /\ stream'.drafts = stream.drafts
<1>1. NextStep \in 1 .. Ids BY NextStepIsStep DEF Types
<1> DEFINE two == << <<"upload", NextStep>>, <<"forward", NextStep>> >>
<1>2. two \in Seq(Ops) BY <1>1 DEF Ops
<1>3. stream.main \in Seq(Ops) BY DEF Types, Streams
<1>4. stream.main \o two \in Seq(Ops) BY <1>2, <1>3, ConcatProperties
<1>5. stream' = [stream EXCEPT !.main = stream.main \o two] BY DEF Execute
<1> HIDE DEF two
<1>6. stream' \in Streams /\ stream'.main = stream.main \o two
      /\ stream'.counts = stream.counts /\ stream'.drafts = stream.drafts
  BY <1>4, <1>5 DEF Types, Streams
<1> QED BY <1>1, <1>6 DEF two

(* The streams after its drafts, and the copies, are launched.              *)
CountsCopy == IF async THEN << <<"counts", step>> >> ELSE << >>

DraftsCopy ==
  IF CopiesDrafts /\ plan.fits THEN << [op |-> <<"drafts", step>>, reqs |-> plan.reqs] >> ELSE << >>

(* sample_tokens: what it launches on each stream, and the types of it.     *)
LEMMA SampleStreams ==
  ASSUME Types, SampleTokens
  PROVE  /\ stream' \in Streams /\ step \in 1 .. Ids /\ plan.reqs \in Batches
         /\ CountsCopy \in Seq(Counted) /\ DraftsCopy \in Seq(Copies)
         /\ stream'.main = stream.main \o << <<"draft", step>> >>
         /\ stream'.counts = stream.counts \o CountsCopy
         /\ stream'.drafts = stream.drafts \o DraftsCopy
<1>1. step \in 1 .. Ids /\ plan.reqs \in Batches
  BY DraftStreamsAssumption DEF SampleTokens, Types, PlanRecords
<1>2. << <<"draft", step>> >> \in Seq(Ops) BY <1>1 DEF Ops
<1>3. CountsCopy \in Seq(Counted)
  <2>1. << <<"counts", step>> >> \in Seq(Counted) BY <1>1 DEF Counted
  <2>2. << >> \in Seq(Counted) BY EmptySeq
  <2> QED BY <2>1, <2>2, Zenon DEF CountsCopy
<1>4. DraftsCopy \in Seq(Copies)
  <2>1. [op |-> <<"drafts", step>>, reqs |-> plan.reqs] \in Copies BY <1>1 DEF Copies
  <2> QED BY <2>1 DEF DraftsCopy
<1>5. stream.main \in Seq(Ops) /\ stream.counts \in Seq(Counted) /\ stream.drafts \in Seq(Copies)
  BY DEF Types, Streams
<1>6. stream.main \o << <<"draft", step>> >> \in Seq(Ops) BY <1>2, <1>5, ConcatProperties
<1>7. stream.counts \o CountsCopy \in Seq(Counted) BY <1>3, <1>5, ConcatProperties
<1>8. stream.drafts \o DraftsCopy \in Seq(Copies) BY <1>4, <1>5, ConcatProperties
<1>9. stream' = [main |-> stream.main \o << <<"draft", step>> >>,
                 counts |-> stream.counts \o CountsCopy,
                 drafts |-> stream.drafts \o DraftsCopy]
  BY DEF SampleTokens, CountsCopy, DraftsCopy
<1> QED BY <1>1, <1>3, <1>4, <1>6, <1>7, <1>8, <1>9 DEF Streams

(* What is copied back is a step's own rows.                                *)
LEMMA CopyRows ==
  ASSUME NEW copy \in Copies, NEW i \in DOMAIN copy.reqs
  PROVE  <<copy.reqs[i], copy.op[2]>> \in Drawn
<1>1. copy.reqs \in Batches /\ copy.op[2] \in 1 .. Ids BY DEF Copies
<1>2. copy.reqs[i] \in Reqs BY <1>1, BatchFacts, ElementOfSeq
<1> QED BY <1>1, <1>2 DEF Drawn

(* An operation that has run leaves the others.                             *)
LEMMA RunStreams ==
  ASSUME Types
  PROVE  /\ stream.main # << >> =>
              Tail(stream.main) \in Seq(Ops) /\ Head(stream.main) \in Ops
         /\ stream.counts # << >> =>
              Tail(stream.counts) \in Seq(Counted) /\ Head(stream.counts) \in Counted
         /\ stream.drafts # << >> =>
              Tail(stream.drafts) \in Seq(Copies) /\ Head(stream.drafts) \in Copies
<1>1. stream.main \in Seq(Ops) /\ stream.counts \in Seq(Counted) /\ stream.drafts \in Seq(Copies)
  BY DEF Types, Streams
<1> QED BY <1>1, HeadTailProperties

(* Every step keeps the types.                                              *)
LEMMA TypesInductive ==
  ASSUME Types, [Next]_vars
  PROVE  Types'
<1>1. ASSUME NEW b \in Batches, NEW ends \in BOOLEAN, NEW f \in BOOLEAN, Execute(Plan(b, ends, f))
      PROVE  Types'
  <2> DEFINE p == Plan(b, ends, f)
  <2>1. p \in PlanRecords /\ p.reqs = b BY PlanType
  <2> HIDE DEF p
  <2>2. stream' \in Streams /\ NextStep \in 1 .. Ids BY <1>1, ExecuteStreams
  <2>3. plan' \in PlanRecords /\ plan'.reqs # << >>
    BY <1>1, <2>1, DraftStreamsAssumption DEF Execute, p
  <2>4. held' \in [Reqs -> 0 .. Ids] BY <1>1, DraftStreamsAssumption DEF Execute, Types
  <2>5. inputs' \in [cpu : 0 .. Ids, gpu : 0 .. Ids]
    <3>1. inputs' = [inputs EXCEPT !.cpu = NextStep] BY <1>1 DEF Execute
    <3>2. NextStep \in 0 .. Ids BY <2>2, DraftStreamsAssumption
    <3> QED BY <3>1, <3>2 DEF Types
  <2>6. /\ async' = async /\ flying' = flying /\ cpu' = "correct" /\ step' = NextStep
        /\ UNCHANGED <<counts, drafts, draftReqs, probs>> /\ Len(flying) < InFlight
    BY <1>1 DEF Execute, InFlight
  <2> QED BY <2>2, <2>3, <2>4, <2>5, <2>6 DEF Types, InFlight
<1>2. CASE Correct BY <1>2 DEF Correct, Types, InFlight
<1>3. CASE Deferred
  <2>1. flying # << >> BY <1>3 DEF Deferred, Pending
  <2>2. flying' \in Seq(1 .. Ids) /\ Len(flying') = Len(flying) - 1 /\ Len(flying) \in Nat
    BY <1>3, <2>1, RemoveOldest DEF Deferred, Types
  <2> QED BY <1>3, <2>2 DEF Deferred, Types, InFlight
<1>4. CASE SampleTokens
  <2>1. stream' \in Streams /\ step \in 1 .. Ids /\ plan.reqs \in Batches BY <1>4, SampleStreams
  <2>2. flying' \in Seq(1 .. Ids) /\ Len(flying') = Len(flying) + 1 /\ Len(flying) \in Nat
    <3>1. flying' = Append(flying, step) BY <1>4 DEF SampleTokens
    <3> QED BY <2>1, <3>1, AppendProperties, LenProperties DEF Types
  <2>3. drafts' \in [1 .. Cardinality(Reqs) -> Drawn] BY <1>4 DEF SampleTokens, Types, Drawn
  <2>4. draftReqs' \in Records /\ probs' \in Records
    <3>1. None \in Records BY DraftStreamsAssumption DEF None, Records
    <3>2. plan.fits \in BOOLEAN BY DEF Types, PlanRecords
    <3>3. draftReqs' \in {None, [reqs |-> plan.reqs, step |-> step, real |-> plan.fits]}
      BY <1>4 DEF SampleTokens
    <3>4. probs' \in {None, [reqs |-> plan.reqs, step |-> step, real |-> TRUE]}
      BY <1>4 DEF SampleTokens
    <3>5. \A x \in BOOLEAN : [reqs |-> plan.reqs, step |-> step, real |-> x] \in Records
      BY <2>1, DraftStreamsAssumption DEF Records
    <3> QED BY <3>1, <3>2, <3>3, <3>4, <3>5
  <2>5. /\ cpu = "sample" /\ cpu' \in {"schedule", "process"}
        /\ UNCHANGED <<async, step, plan, held, inputs, counts>>
    BY <1>4 DEF SampleTokens
  <2> QED BY <2>1, <2>2, <2>3, <2>4, <2>5 DEF Types, InFlight
<1>5. CASE ProcessOutput
  <2>1. flying' \in Seq(1 .. Ids) /\ Len(flying') = Len(flying) - 1 /\ Len(flying) \in Nat
    BY <1>5, RemoveOldest, LenProperties DEF ProcessOutput, Types
  <2>2. held' \in [Reqs -> 0 .. Ids] BY <1>5 DEF ProcessOutput, Types
  <2>3. cpu' \in {cpu, "schedule"} /\ cpu \in {"schedule", "process"} BY <1>5 DEF ProcessOutput
  <2>4. UNCHANGED <<async, step, plan, before, stream, inputs, counts, drafts, draftReqs, probs>>
    BY <1>5 DEF ProcessOutput
  <2> QED BY <2>1, <2>2, <2>3, <2>4 DEF Types, InFlight
<1>6. CASE RunMain
  <2>1. stream' = [stream EXCEPT !.main = Tail(stream.main)] /\ stream.main # << >>
    BY <1>6 DEF RunMain
  <2>2. stream' \in Streams BY <2>1, RunStreams DEF Types, Streams
  <2>3. inputs' \in [cpu : 0 .. Ids, gpu : 0 .. Ids] BY <1>6 DEF RunMain, Types
  <2> QED BY <1>6, <2>2, <2>3 DEF RunMain, Types, InFlight
<1>7. CASE RunCounts
  <2>1. stream' = [stream EXCEPT !.counts = Tail(stream.counts)] /\ stream.counts # << >>
    BY <1>7 DEF RunCounts
  <2>2. stream' \in Streams BY <2>1, RunStreams DEF Types, Streams
  <2>3. counts' \in 0 .. Ids BY <1>7, RunStreams DEF RunCounts, Counted
  <2> QED BY <1>7, <2>2, <2>3 DEF RunCounts, Types, InFlight
<1>8. CASE RunDrafts
  <2>1. stream' = [stream EXCEPT !.drafts = Tail(stream.drafts)] /\ stream.drafts # << >>
    BY <1>8 DEF RunDrafts
  <2>2. stream' \in Streams BY <2>1, RunStreams DEF Types, Streams
  <2>3. Head(stream.drafts) \in Copies BY <2>1, RunStreams
  <2>4. drafts' \in [1 .. Cardinality(Reqs) -> Drawn]
    <3> DEFINE copy == Head(stream.drafts)
    <3>1. drafts' = [i \in DOMAIN drafts |->
                       IF i \in DOMAIN copy.reqs THEN <<copy.reqs[i], copy.op[2]>> ELSE Zero]
      BY <1>8 DEF RunDrafts
    <3> HIDE DEF copy
    <3>2. DOMAIN drafts = 1 .. Cardinality(Reqs) BY DEF Types
    <3>3. \A i \in DOMAIN copy.reqs : <<copy.reqs[i], copy.op[2]>> \in Drawn
      BY <2>3, CopyRows DEF copy
    <3>4. Zero \in Drawn BY DEF Drawn
    <3> QED BY <3>1, <3>2, <3>3, <3>4
  <2> QED BY <1>8, <2>2, <2>4 DEF RunDrafts, Types, InFlight
<1>9. CASE UNCHANGED vars BY <1>9 DEF vars, Types, InFlight
<1> QED BY <1>1, <1>2, <1>3, <1>4, <1>5, <1>6, <1>7, <1>8, <1>9 DEF Next, Thread, Gpu
(* The types hold before the first step.                                    *)
LEMMA TypesInit == ASSUME Init PROVE Types
<1>1. 0 \in 0 .. Ids /\ Ids \in Nat BY DraftStreamsAssumption
<1>2. stream \in Streams BY EmptySeq DEF Init, Streams
<1>3. plan \in PlanRecords BY <1>1 DEF Init, Empty, PlanRecords
<1>4. draftReqs \in Records /\ probs \in Records BY <1>1 DEF Init, None, Records
<1>5. inputs \in [cpu : 0 .. Ids, gpu : 0 .. Ids] /\ held \in [Reqs -> 0 .. Ids] BY <1>1 DEF Init
<1>6. drafts \in [1 .. Cardinality(Reqs) -> Drawn] BY DEF Init, Drawn
<1>7. flying \in Seq(1 .. Ids) /\ Len(flying) = 0 BY EmptySeq DEF Init
<1> QED BY <1>1, <1>2, <1>3, <1>4, <1>5, <1>6, <1>7 DEF Init, Types, InFlight

-----------------------------------------------------------------------------
(* The inputs.                                                              *)
LEMMA InputsInductive ==
  ASSUME Types, InputsInv, [Next]_vars
  PROVE  InputsInv'
<1>1. stream.main \in Seq(Ops) BY DEF Types, Streams
<1>2. ASSUME NEW p, Execute(p) PROVE InputsInv'
  <2>1. /\ NextStep \in 1 .. Ids
        /\ stream'.main = stream.main \o << <<"upload", NextStep>>, <<"forward", NextStep>> >>
    BY <1>2, ExecuteStreams
  <2>2. \A i \in 1 .. Len(stream.main) : stream.main[i][1] # "upload"
    BY <1>1, <1>2, NoUploadLeft DEF Execute
  <2>3. inputs'.cpu = NextStep /\ inputs'.gpu = inputs.gpu BY <1>2 DEF Execute, Types
  <2>4. PICK n \in 1 .. Ids : n = NextStep BY <2>1
  <2>5. Fed(stream.main \o << <<"upload", n>>, <<"forward", n>> >>, n, inputs.gpu)
    BY <1>1, <2>2, FedLaunch DEF InputsInv
  <2> QED BY <2>1, <2>3, <2>4, <2>5 DEF InputsInv
<1>3. CASE SampleTokens
  <2>1. step \in 1 .. Ids /\ stream'.main = stream.main \o << <<"draft", step>> >>
    BY <1>3, SampleStreams
  <2>2. inputs' = inputs BY <1>3 DEF SampleTokens
  <2>3. Fed(stream.main \o << <<"draft", step>> >>, inputs.cpu, inputs.gpu)
    BY <1>1, <2>1, FedDraft DEF InputsInv
  <2> QED BY <2>1, <2>2, <2>3 DEF InputsInv
<1>4. CASE RunMain
  <2>1. stream.main # << >> /\ stream' = [stream EXCEPT !.main = Tail(stream.main)]
    BY <1>4 DEF RunMain
  <2>2. stream'.main = Tail(stream.main) BY <2>1 DEF Types, Streams
  <2>3. inputs' = IF Head(stream.main)[1] = "upload" THEN [inputs EXCEPT !.gpu = inputs.cpu] ELSE inputs
    BY <1>4 DEF RunMain
  <2>4. inputs'.cpu = inputs.cpu
        /\ inputs'.gpu = IF Head(stream.main)[1] = "upload" THEN inputs.cpu ELSE inputs.gpu
    BY <2>3 DEF Types
  <2>5. Fed(Tail(stream.main), inputs.cpu,
            IF Head(stream.main)[1] = "upload" THEN inputs.cpu ELSE inputs.gpu)
    BY <1>1, <2>1, FedTail DEF InputsInv
  <2> QED BY <2>2, <2>4, <2>5 DEF InputsInv
<1>5. CASE RunCounts
  <2>1. stream'.main = stream.main BY <1>5 DEF RunCounts, Types, Streams
  <2> QED BY <1>5, <2>1 DEF RunCounts, InputsInv
<1>6. CASE RunDrafts
  <2>1. stream'.main = stream.main BY <1>6 DEF RunDrafts, Types, Streams
  <2> QED BY <1>6, <2>1 DEF RunDrafts, InputsInv
<1>7. CASE Correct BY <1>7 DEF Correct, InputsInv
<1>8. CASE Deferred BY <1>8 DEF Deferred, InputsInv
<1>9. CASE ProcessOutput BY <1>9 DEF ProcessOutput, InputsInv
<1>10. CASE UNCHANGED vars BY <1>10 DEF vars, InputsInv
<1> QED BY <1>2, <1>3, <1>4, <1>5, <1>6, <1>7, <1>8, <1>9, <1>10 DEF Next, Thread, Gpu

-----------------------------------------------------------------------------
(* The counts.  The last that will have arrived.                            *)
LastCount(q, c) == IF q = << >> THEN c ELSE q[Len(q)][2]

CountsInv ==
  /\ step = 0 => Verified = {}
  /\ async /\ cpu = "schedule" => LastCount(stream.counts, counts) = step
  /\ async /\ cpu \in {"correct", "sample"} /\ before # {} =>
       LastCount(stream.counts, counts) = Previous(step)

(* Running the oldest copy of the counts does not change the last one.      *)
LEMMA LastCountTail ==
  ASSUME NEW q \in Seq(Counted), q # << >>, NEW c
  PROVE  LastCount(Tail(q), Head(q)[2]) = LastCount(q, c)
<1>1. /\ Len(q) \in Nat \ {0} /\ Head(q) = q[1] /\ Len(Tail(q)) = Len(q) - 1
      /\ Tail(q) \in Seq(Counted) /\ \A i \in 1 .. Len(Tail(q)) : Tail(q)[i] = q[i + 1]
  BY EmptySeq, HeadTailProperties
<1>2. CASE Tail(q) = << >>
  <2>1. Len(q) = 1 BY <1>1, <1>2, EmptySeq
  <2> QED BY <1>1, <1>2, <2>1 DEF LastCount
<1>3. CASE Tail(q) # << >>
  <2>1. Len(Tail(q)) \in 1 .. Len(Tail(q)) BY <1>1, <1>3, EmptySeq
  <2>2. Tail(q)[Len(Tail(q))] = q[Len(Tail(q)) + 1] BY <1>1, <2>1
  <2>3. Len(Tail(q)) + 1 = Len(q) BY <1>1
  <2> QED BY <1>3, <2>2, <2>3 DEF LastCount
<1> QED BY <1>2, <1>3

(* A copy that is launched is the last one.                                 *)
LEMMA LastCountLaunched ==
  ASSUME NEW q \in Seq(Counted), NEW n \in 1 .. Ids, NEW c
  PROVE  LastCount(q \o << <<"counts", n>> >>, c) = n
<1> DEFINE one == << <<"counts", n>> >>
<1>1. one \in Seq(Counted) /\ Len(one) = 1 BY DEF Counted
<1>2. /\ Len(q) \in Nat /\ Len(q \o one) = Len(q) + 1
      /\ \A i \in 1 .. Len(q) + 1 : (q \o one)[i] = IF i <= Len(q) THEN q[i] ELSE one[i - Len(q)]
  BY <1>1, LenProperties, ConcatProperties
<1>3. (q \o one)[Len(q) + 1] = one[1]
  <2>1. Len(q) + 1 \in 1 .. Len(q) + 1 /\ ~(Len(q) + 1 <= Len(q)) /\ (Len(q) + 1) - Len(q) = 1
    BY <1>2
  <2> QED BY <1>2, <2>1
<1>4. q \o one # << >> BY <1>2, EmptySeq
<1> QED BY <1>2, <1>3, <1>4 DEF LastCount

(* Every step keeps the counts in place.                                    *)
LEMMA CountsInductive ==
  ASSUME Types, CountsInv, [Next]_vars
  PROVE  CountsInv'
<1> USE DEF CountsInv
<1>1. ASSUME NEW p, Execute(p) PROVE CountsInv'
  <2>1. NextStep \in 1 .. Ids /\ stream'.counts = stream.counts BY <1>1, ExecuteStreams
  <2>2. /\ cpu = "schedule" /\ cpu' = "correct" /\ step' = NextStep /\ before' = Verified
        /\ UNCHANGED <<async, counts>>
    BY <1>1 DEF Execute
  <2>3. step' # 0 BY <2>1, <2>2, DraftStreamsAssumption
  <2>4. ASSUME async, before' # {} PROVE LastCount(stream'.counts, counts') = Previous(step')
    <3>1. step \in 1 .. Ids BY <2>2, <2>4, DraftStreamsAssumption DEF Types
    <3>2. Previous(NextStep) = step BY <3>1, PreviousOfNext
    <3> QED BY <2>1, <2>2, <2>4, <3>2
  <2>5. Previous(step') = Previous(step)' BY DEF Previous
  <2>6. LastCount(stream'.counts, counts') = LastCount(stream.counts, counts)' OBVIOUS
  <2> QED BY <2>2, <2>3, <2>4, <2>5, <2>6
<1>2. CASE Correct BY <1>2 DEF Correct, Verified
<1>3. CASE Deferred BY <1>3 DEF Deferred, Verified
<1>4. CASE SampleTokens
  <2>1. step \in 1 .. Ids /\ stream'.counts = stream.counts \o CountsCopy BY <1>4, SampleStreams
  <2>2. UNCHANGED <<async, step, plan, before, counts>>
        /\ cpu' = IF async THEN "schedule" ELSE "process"
    BY <1>4 DEF SampleTokens
  <2>3. async => LastCount(stream'.counts, counts') = step
    BY <2>1, <2>2, LastCountLaunched DEF CountsCopy, Types, Streams
  <2>4. step # 0 BY <2>1, DraftStreamsAssumption
  <2> QED BY <2>2, <2>3, <2>4
<1>5. CASE ProcessOutput BY <1>5 DEF ProcessOutput, Verified
<1>6. CASE RunMain
  <2>1. stream'.counts = stream.counts BY <1>6 DEF RunMain, Types, Streams
  <2> QED BY <1>6, <2>1 DEF RunMain, Verified
<1>7. CASE RunCounts
  <2>1. stream.counts # << >> /\ counts' = Head(stream.counts)[2]
        /\ UNCHANGED <<async, cpu, step, plan, before>>
    BY <1>7 DEF RunCounts
  <2>2. stream'.counts = Tail(stream.counts) /\ stream.counts \in Seq(Counted)
    BY <1>7 DEF RunCounts, Types, Streams
  <2>3. LastCount(stream'.counts, counts') = LastCount(stream.counts, counts)
    BY <2>1, <2>2, LastCountTail
  <2> QED BY <2>1, <2>3 DEF Verified
<1>8. CASE RunDrafts
  <2>1. stream'.counts = stream.counts BY <1>8 DEF RunDrafts, Types, Streams
  <2> QED BY <1>8, <2>1 DEF RunDrafts, Verified
<1>9. CASE UNCHANGED vars BY <1>9 DEF vars, Verified
<1> QED BY <1>1, <1>2, <1>3, <1>4, <1>5, <1>6, <1>7, <1>8, <1>9 DEF Next, Thread, Gpu
-----------------------------------------------------------------------------
(* The drafts on the CPU, or the last copy on its way, are those recorded.  *)
Copied(q, d, record) ==
  record.real /\ record.reqs # << >> =>
    IF q = << >> THEN \A i \in 1 .. Len(record.reqs) : d[i] = <<record.reqs[i], record.step>>
    ELSE q[Len(q)].reqs = record.reqs /\ q[Len(q)].op[2] = record.step

DraftsInv == Copied(stream.drafts, drafts, draftReqs)

(* The rows after a copy.                                                   *)
Landed(copy) ==
  [i \in 1 .. Cardinality(Reqs) |->
     IF i \in DOMAIN copy.reqs THEN <<copy.reqs[i], copy.op[2]>> ELSE Zero]

(* Running the oldest copy of the drafts keeps what will have been copied.  *)
LEMMA CopiedTail ==
  ASSUME NEW q \in Seq(Copies), q # << >>, NEW d, NEW record \in Records, Copied(q, d, record)
  PROVE  Copied(Tail(q), Landed(Head(q)), record)
<1> SUFFICES ASSUME record.real, record.reqs # << >>
             PROVE  IF Tail(q) = << >>
                    THEN \A i \in 1 .. Len(record.reqs) :
                           Landed(Head(q))[i] = <<record.reqs[i], record.step>>
                    ELSE /\ Tail(q)[Len(Tail(q))].reqs = record.reqs
                         /\ Tail(q)[Len(Tail(q))].op[2] = record.step
  BY DEF Copied
<1>1. /\ Len(q) \in Nat \ {0} /\ Head(q) = q[1] /\ Len(Tail(q)) = Len(q) - 1
      /\ Tail(q) \in Seq(Copies) /\ \A i \in 1 .. Len(Tail(q)) : Tail(q)[i] = q[i + 1]
  BY EmptySeq, HeadTailProperties
<1>2. q[Len(q)].reqs = record.reqs /\ q[Len(q)].op[2] = record.step BY DEF Copied
<1>3. CASE Tail(q) = << >>
  <2>1. Len(q) = 1
    <3>1. Len(<< >>) = 0 OBVIOUS
    <3>2. Len(Tail(q)) = Len(<< >>) BY <1>3
    <3> DEFINE m == Len(q)
    <3>3. m \in Nat /\ m - 1 = 0 BY <1>1, <3>1, <3>2
    <3> HIDE DEF m
    <3>4. m = 1 BY <3>3
    <3> QED BY <3>4 DEF m
  <2>2. Head(q).reqs = record.reqs /\ Head(q).op[2] = record.step BY <1>1, <1>2, <2>1
  <2>3. /\ DOMAIN record.reqs = 1 .. Len(record.reqs)
        /\ Len(record.reqs) \in 0 .. Cardinality(Reqs)
    BY BatchFacts DEF Records
  <2>4. Cardinality(Reqs) \in Nat BY FS_CardinalityType, DraftStreamsAssumption
  <2> SUFFICES ASSUME NEW i \in 1 .. Len(record.reqs)
               PROVE  Landed(Head(q))[i] = <<record.reqs[i], record.step>>
    BY <1>3
  <2>5. i \in 1 .. Cardinality(Reqs) /\ i \in DOMAIN record.reqs BY <2>3, <2>4
  <2> QED BY <2>2, <2>5 DEF Landed
<1>4. CASE Tail(q) # << >>
  <2>1. Len(Tail(q)) \in 1 .. Len(Tail(q)) BY <1>1, <1>4, EmptySeq
  <2>2. Tail(q)[Len(Tail(q))] = q[Len(Tail(q)) + 1] BY <1>1, <2>1
  <2>3. Len(Tail(q)) + 1 = Len(q) BY <1>1
  <2> QED BY <1>2, <1>4, <2>2, <2>3
<1> QED BY <1>3, <1>4

(* A copy that is launched brings the drafts of its own step.               *)
LEMMA CopiedLaunched ==
  ASSUME NEW q \in Seq(Copies), NEW n \in 1 .. Ids, NEW b \in Batches, NEW d
  PROVE  Copied(q \o << [op |-> <<"drafts", n>>, reqs |-> b] >>, d,
                [reqs |-> b, step |-> n, real |-> TRUE])
<1> DEFINE one == << [op |-> <<"drafts", n>>, reqs |-> b] >>
<1>1. one \in Seq(Copies) /\ Len(one) = 1 BY DEF Copies
<1>2. /\ Len(q) \in Nat /\ Len(q \o one) = Len(q) + 1
      /\ \A i \in 1 .. Len(q) + 1 : (q \o one)[i] = IF i <= Len(q) THEN q[i] ELSE one[i - Len(q)]
  BY <1>1, LenProperties, ConcatProperties
<1>3. (q \o one)[Len(q) + 1] = one[1]
  <2>1. Len(q) + 1 \in 1 .. Len(q) + 1 /\ ~(Len(q) + 1 <= Len(q)) /\ (Len(q) + 1) - Len(q) = 1
    BY <1>2
  <2> QED BY <1>2, <2>1
<1>4. q \o one # << >> BY <1>2, EmptySeq
<1> QED BY <1>2, <1>3, <1>4 DEF Copied

(* Every step keeps the drafts in place.                                    *)
LEMMA DraftsInductive ==
  ASSUME Types, DraftsInv, [Next]_vars
  PROVE  DraftsInv'
<1> USE DEF DraftsInv
<1>1. ASSUME NEW p, Execute(p) PROVE DraftsInv'
  <2>1. stream'.drafts = stream.drafts BY <1>1, ExecuteStreams
  <2> QED BY <1>1, <2>1 DEF Execute
<1>2. CASE Correct BY <1>2 DEF Correct
<1>3. CASE Deferred BY <1>3 DEF Deferred
<1>4. CASE SampleTokens
  <2>1. /\ step \in 1 .. Ids /\ plan.reqs \in Batches
        /\ stream'.drafts = stream.drafts \o DraftsCopy
    BY <1>4, SampleStreams
  <2>2. stream.drafts \in Seq(Copies) /\ plan.fits \in BOOLEAN BY DEF Types, Streams, PlanRecords
  <2>3. draftReqs' = IF CopiesDrafts THEN [reqs |-> plan.reqs, step |-> step, real |-> plan.fits]
                     ELSE None
    BY <1>4 DEF SampleTokens
  <2>4. CASE CopiesDrafts /\ plan.fits
    <3>1. plan.fits = TRUE BY <2>2, <2>4
    <3>2. draftReqs' = [reqs |-> plan.reqs, step |-> step, real |-> TRUE] BY <2>3, <2>4, <3>1
    <3>3. stream'.drafts = stream.drafts \o << [op |-> <<"drafts", step>>, reqs |-> plan.reqs] >>
      BY <2>1, <2>4 DEF DraftsCopy
    <3>4. PICK n \in 1 .. Ids : n = step BY <2>1
    <3>5. PICK b \in Batches : b = plan.reqs BY <2>1
    <3>6. Copied(stream.drafts \o << [op |-> <<"drafts", n>>, reqs |-> b] >>, drafts',
                 [reqs |-> b, step |-> n, real |-> TRUE])
      BY <2>2, CopiedLaunched
    <3> QED BY <3>2, <3>3, <3>4, <3>5, <3>6
  <2>5. CASE ~(CopiesDrafts /\ plan.fits)
    <3>1. ~draftReqs'.real BY <2>2, <2>3, <2>5 DEF None
    <3> QED BY <3>1 DEF Copied
  <2> QED BY <2>4, <2>5
<1>5. CASE ProcessOutput BY <1>5 DEF ProcessOutput
<1>6. CASE RunMain
  <2>1. stream'.drafts = stream.drafts BY <1>6 DEF RunMain, Types, Streams
  <2> QED BY <1>6, <2>1 DEF RunMain
<1>7. CASE RunCounts
  <2>1. stream'.drafts = stream.drafts BY <1>7 DEF RunCounts, Types, Streams
  <2> QED BY <1>7, <2>1 DEF RunCounts
<1>8. CASE RunDrafts
  <2>1. stream.drafts # << >> /\ draftReqs' = draftReqs BY <1>8 DEF RunDrafts
  <2>2. stream'.drafts = Tail(stream.drafts) /\ stream.drafts \in Seq(Copies)
    BY <1>8 DEF RunDrafts, Types, Streams
  <2>3. drafts' = Landed(Head(stream.drafts)) BY <1>8 DEF RunDrafts, Landed, Types
  <2>4. draftReqs \in Records BY DEF Types
  <2> QED BY <2>1, <2>2, <2>3, <2>4, CopiedTail
<1>9. CASE UNCHANGED vars BY <1>9 DEF vars
<1> QED BY <1>1, <1>2, <1>3, <1>4, <1>5, <1>6, <1>7, <1>8, <1>9 DEF Next, Thread, Gpu

-----------------------------------------------------------------------------
(* The probabilities kept are those of the last step that was sampled; a    *)
(* request that has a row in them and drafts to verify drafted them there.  *)
ProbsInv ==
  /\ cpu \in {"schedule", "process"} /\ probs.reqs # << >> => probs.step = step
  /\ cpu \in {"correct", "sample"} =>
       \A r \in ToSet(probs.reqs) : plan.source[r] \in {0, probs.step}
  /\ async => cpu # "process"
  /\ ~async /\ cpu = "schedule" => \A r \in ToSet(probs.reqs) : held[r] \in {0, probs.step}
  /\ ~async /\ cpu # "schedule" => \A r \in ToSet(plan.reqs) : held[r] = 0
  /\ cpu = "process" => probs.reqs \in {<< >>, plan.reqs}

(* The rows of a record name requests.                                      *)
LEMMA RecordRows ==
  ASSUME NEW record \in Records
  PROVE  ToSet(record.reqs) \subseteq Reqs /\ (record.reqs = << >> => ToSet(record.reqs) = {})
<1>1. record.reqs \in Batches \cup {<< >>} BY DEF Records
<1>2. ToSet(<< >>) = {} BY DEF ToSet
<1> QED BY <1>1, <1>2, BatchFacts

(* Every step keeps the draft probabilities beside their drafts.            *)
LEMMA ProbsInductive ==
  ASSUME Types, ProbsInv, [Next]_vars
  PROVE  ProbsInv'
<1> USE DEF ProbsInv
<1>0. ToSet(probs.reqs) \subseteq Reqs /\ (probs.reqs = << >> => ToSet(probs.reqs) = {})
  BY RecordRows DEF Types
<1>1. ASSUME NEW b \in Batches, NEW ends \in BOOLEAN, NEW f \in BOOLEAN, Execute(Plan(b, ends, f))
      PROVE  ProbsInv'
  <2> DEFINE p == Plan(b, ends, f)
  <2>1. /\ cpu = "schedule" /\ cpu' = "correct" /\ plan' = p
        /\ held' = [r \in Reqs |-> IF r \in ToSet(p.reqs) THEN 0 ELSE held[r]]
        /\ UNCHANGED <<async, probs>>
    BY <1>1 DEF Execute
  <2>2. p.reqs = b /\ p.source = [r \in Reqs |-> IF r \in ToSet(b) THEN Source(r) ELSE 0]
    BY DEF Plan
  <2> HIDE DEF p
  <2>3. ToSet(b) \subseteq Reqs BY BatchFacts
  <2>4. ASSUME NEW r \in ToSet(probs.reqs) PROVE Source(r) \in {0, probs.step}
    <3>1. CASE async BY <1>0, <2>1, <2>4, <3>1 DEF Source
    <3>2. CASE ~async BY <2>1, <2>4, <3>2 DEF Source
    <3> QED BY <3>1, <3>2
  <2>5. \A r \in ToSet(probs.reqs) : plan'.source[r] \in {0, probs.step}
    BY <1>0, <2>1, <2>2, <2>4
  <2>6. \A r \in ToSet(plan'.reqs) : held'[r] = 0 BY <2>1, <2>2, <2>3
  <2> QED BY <2>1, <2>5, <2>6
<1>2. CASE Correct BY <1>2 DEF Correct
<1>3. CASE Deferred BY <1>3 DEF Deferred
<1>4. CASE SampleTokens
  <2>1. /\ cpu = "sample" /\ cpu' = (IF async THEN "schedule" ELSE "process")
        /\ probs' \in {[reqs |-> plan.reqs, step |-> step, real |-> TRUE], None}
        /\ UNCHANGED <<async, step, plan, held>>
    BY <1>4 DEF SampleTokens
  <2>2. probs'.reqs \in {<< >>, plan.reqs} /\ (probs'.reqs # << >> => probs'.step = step)
    BY <2>1 DEF None
  <2> QED BY <2>1, <2>2
<1>5. CASE ProcessOutput
  <2>1. UNCHANGED <<async, step, plan, probs>> BY <1>5 DEF ProcessOutput
  <2>2. CASE async BY <1>5, <2>1, <2>2 DEF ProcessOutput
  <2>3. CASE ~async
    <3>1. /\ cpu = "process" /\ cpu' = "schedule"
          /\ held' = [r \in Reqs |-> IF Decoding(r) THEN step ELSE held[r]]
      BY <1>5, <2>3 DEF ProcessOutput
    <3>2. ASSUME NEW r \in ToSet(probs.reqs) PROVE held'[r] \in {0, probs.step}
      <4>1. r \in Reqs /\ probs.reqs # << >> /\ r \in ToSet(plan.reqs) BY <1>0, <3>1, <3>2
      <4>2. held[r] = 0 /\ probs.step = step BY <2>3, <3>1, <4>1
      <4> QED BY <3>1, <4>1, <4>2
    <3> QED BY <2>1, <2>3, <3>1, <3>2
  <2> QED BY <2>2, <2>3
<1>6. CASE RunMain BY <1>6 DEF RunMain
<1>7. CASE RunCounts BY <1>7 DEF RunCounts
<1>8. CASE RunDrafts BY <1>8 DEF RunDrafts
<1>9. CASE UNCHANGED vars BY <1>9 DEF vars
<1> QED BY <1>1, <1>2, <1>3, <1>4, <1>5, <1>6, <1>7, <1>8, <1>9 DEF Next, Thread, Gpu

(* A drafted request's probabilities are its own row of the kept ones, made *)
(* in the step whose drafts it verifies.                                    *)
LEMMA ProbsAreDrafts ==
  ASSUME Types, ProbsInv PROVE ProbsMatchDrafts
<1> SUFFICES ASSUME cpu = "sample", NEW r \in Reqs
             PROVE  DraftProbs[r] \in {Zero, <<r, plan.source[r]>>}
  BY DEF ProbsMatchDrafts
<1> DEFINE drafted == { q \in ToSet(plan.reqs) : plan.source[q] # 0 }
<1>1. DraftProbs[r] = IF r \in drafted /\ drafted \subseteq ToSet(probs.reqs)
                      THEN <<probs.reqs[Row(probs.reqs, r)], probs.step>> ELSE Zero
  BY DEF DraftProbs
<1>2. CASE r \in drafted /\ drafted \subseteq ToSet(probs.reqs)
  <2>1. r \in ToSet(probs.reqs) /\ plan.source[r] # 0 BY <1>2
  <2>2. plan.source[r] = probs.step BY <2>1 DEF ProbsInv
  <2>3. probs.reqs[Row(probs.reqs, r)] = r BY <2>1 DEF ToSet, Row
  <2> QED BY <1>1, <1>2, <2>2, <2>3
<1>3. CASE ~(r \in drafted /\ drafted \subseteq ToSet(probs.reqs))
  <2> HIDE DEF drafted
  <2> QED BY <1>1, <1>3
<1> QED BY <1>2, <1>3
-----------------------------------------------------------------------------
(* The theorems.                                                            *)
StreamsInv == Types /\ InputsInv /\ CountsInv /\ DraftsInv /\ ProbsInv

(* The invariant holds before the first step.                               *)
LEMMA StreamsInvInit == ASSUME Init PROVE StreamsInv
<1>1. Types BY TypesInit
<1>2. InputsInv BY EmptySeq DEF Init, InputsInv, Fed
<1>3. CountsInv BY DEF Init, CountsInv, LastCount, Verified, Empty
<1>4. DraftsInv BY DEF Init, DraftsInv, Copied, None
<1>5. ProbsInv
  <2>1. ToSet(probs.reqs) = {} /\ probs.reqs = << >> BY DEF Init, None, ToSet
  <2> QED BY <2>1 DEF Init, ProbsInv
<1> QED BY <1>1, <1>2, <1>3, <1>4, <1>5 DEF StreamsInv

(* Every step preserves the invariant.                                      *)
LEMMA StreamsInvInductive ==
  ASSUME StreamsInv, [Next]_vars PROVE StreamsInv'
  BY TypesInductive, InputsInductive, CountsInductive, DraftsInductive, ProbsInductive
     DEF StreamsInv

(* The invariant holds whatever the GPU runs first.                         *)
THEOREM AlwaysStreamsInv == Spec => []StreamsInv
  BY StreamsInvInit, StreamsInvInductive, PTL DEF Spec

(* No more than two steps are in flight, one in a synchronous engine, and   *)
(* every record, row and number is of a step and of requests that exist.    *)
THEOREM StreamsTypeOK == Spec => []TypeOK
<1>1. Types => TypeOK
  <2> SUFFICES ASSUME Types PROVE TypeOK
    OBVIOUS
  <2>1. Len(flying) <= (IF async THEN 2 ELSE 1) BY DEF Types, InFlight
  <2>2. \A i \in DOMAIN drafts : drafts[i] \in (Reqs \X (1 .. Ids)) \cup {Zero} BY DEF Types, Drawn
  <2>3. draftReqs.reqs \in Batches \cup {<< >>} /\ probs.reqs \in Batches \cup {<< >>}
    BY DEF Types, Records
  <2> QED BY <2>1, <2>2, <2>3 DEF Types, TypeOK
<1> QED BY <1>1, AlwaysStreamsInv, PTL DEF StreamsInv

(* A forward pass runs on the inputs of its own step: the buffers are never *)
(* rewritten while an upload still reads them (synchronize_input_prep).     *)
THEOREM AlwaysForwardOnOwnInputs == Spec => []ForwardOnOwnInputs
<1>1. Types /\ InputsInv => ForwardOnOwnInputs
  BY FedHead DEF Types, Streams, InputsInv, ForwardOnOwnInputs
<1> QED BY <1>1, AlwaysStreamsInv, PTL DEF StreamsInv

(* Drafts are judged by the probabilities they were drawn from or by none   *)
(* (_get_spec_decode_draft_probs), also in a synchronous engine that left a *)
(* request out of some steps.                                               *)
THEOREM AlwaysProbsMatchDrafts == Spec => []ProbsMatchDrafts
  BY ProbsAreDrafts, AlwaysStreamsInv, PTL DEF StreamsInv

(* Only a correction moves the thread on to sampling.                       *)
LEMMA OnlyCorrectSamples ==
  ASSUME [Next]_vars, cpu = "correct", cpu' = "sample" PROVE Correct
  BY DEF Next, Thread, Gpu, vars, Execute, Deferred, SampleTokens, ProcessOutput, RunMain,
         RunCounts, RunDrafts

(* The counts that correct the positions of a step are those of the step    *)
(* before it (_get_valid_sampled_token_count).                              *)
THEOREM AlwaysCountsArePrevious == Spec => CountsArePrevious
<1>1. StreamsInv /\ [Next]_vars =>
        [ cpu = "correct" /\ cpu' = "sample" /\ NeedsCounts
            => counts = ((step + Ids - 2) % Ids) + 1 ]_vars
  <2> SUFFICES ASSUME StreamsInv, [Next]_vars, cpu = "correct", cpu' = "sample", NeedsCounts
               PROVE  counts = ((step + Ids - 2) % Ids) + 1
    OBVIOUS
  <2>1. Correct BY OnlyCorrectSamples
  <2>2. stream.counts = << >> BY <2>1 DEF Correct, CountsArrived, Idle
  <2>3. async /\ before # {} BY DEF NeedsCounts
  <2>4. LastCount(stream.counts, counts) = Previous(step) BY <2>3 DEF StreamsInv, CountsInv
  <2> QED BY <2>2, <2>4 DEF LastCount, Previous
<1> QED BY <1>1, AlwaysStreamsInv, PTL DEF Spec, CountsArePrevious

(* Whoever reads the drafts waits for their copy.                           *)
LEMMA ReadersWait ==
  ASSUME Types, ProbsInv, [Next]_vars, Reads, draftReqs.reqs # << >>
  PROVE  stream.drafts = << >>
<1> USE DEF DraftsArrived, Idle, TakeDrafts
<1>1. ASSUME NEW p, Execute(p) PROVE FALSE BY <1>1 DEF Execute, Reads
<1>2. CASE Correct BY <1>2 DEF Correct, Reads
<1>3. CASE Deferred BY <1>3 DEF Deferred
<1>4. CASE SampleTokens
  <2>1. cpu = "sample" /\ cpu' # "sample" /\ (ReadsOnCpu => DraftsArrived)
    BY <1>4 DEF SampleTokens
  <2>2. ReadsOnCpu BY <2>1 DEF Reads
  <2> QED BY <2>1, <2>2
<1>5. CASE ProcessOutput BY <1>5 DEF ProcessOutput, Reads, ProbsInv
<1>6. CASE RunMain BY <1>6 DEF RunMain, Reads
<1>7. CASE RunCounts BY <1>7 DEF RunCounts, Reads
<1>8. CASE RunDrafts BY <1>8 DEF RunDrafts, Reads
<1>9. CASE UNCHANGED vars BY <1>9 DEF vars, Reads
<1> QED BY <1>1, <1>2, <1>3, <1>4, <1>5, <1>6, <1>7, <1>8, <1>9 DEF Next, Thread, Gpu

(* The drafts read on the CPU are those of the step and of the requests     *)
(* that are recorded with them, row by row (_get_draft_token_ids_cpu).      *)
THEOREM AlwaysDraftsReadAreOwn == Spec => DraftsReadAreOwn
<1>1. StreamsInv /\ [Next]_vars =>
        [ Reads /\ draftReqs.real =>
            \A i \in DOMAIN ReadDrafts.rows :
              ReadDrafts.rows[i] = <<draftReqs.reqs[i], draftReqs.step>> ]_vars
  <2> SUFFICES ASSUME StreamsInv, [Next]_vars, Reads, draftReqs.real,
                      NEW i \in DOMAIN ReadDrafts.rows
               PROVE  ReadDrafts.rows[i] = <<draftReqs.reqs[i], draftReqs.step>>
    OBVIOUS
  <2> DEFINE n == Len(draftReqs.reqs)
  <2>1. draftReqs.reqs \in Batches \cup {<< >>} BY DEF StreamsInv, Types, Records
  <2>2. Cardinality(Reqs) \in Nat BY FS_CardinalityType, DraftStreamsAssumption
  <2>3. n \in 0 .. Cardinality(Reqs) BY <2>1, <2>2, BatchFacts, EmptySeq
  <2>4. drafts \in [1 .. Cardinality(Reqs) -> Drawn] BY DEF StreamsInv, Types
  <2>5. \A j \in 1 .. n : drafts[j] \in Drawn BY <2>2, <2>3, <2>4
  <2>6. /\ SubSeq(drafts, 1, n) \in Seq(Drawn) /\ Len(SubSeq(drafts, 1, n)) = n
        /\ \A j \in 1 .. n : SubSeq(drafts, 1, n)[j] = drafts[j]
    <3> HIDE DEF n
    <3>1. n \in Nat BY <2>2, <2>3
    <3>2. /\ SubSeq(drafts, 1, n) \in Seq(Drawn)
          /\ Len(SubSeq(drafts, 1, n)) = IF 1 <= n THEN n - 1 + 1 ELSE 0
          /\ \A j \in 1 .. n - 1 + 1 : SubSeq(drafts, 1, n)[j] = drafts[1 + j - 1]
      BY <2>5, <3>1, SubSeqProperties
    <3> QED BY <3>1, <3>2
  <2>7. ReadDrafts.rows = SubSeq(drafts, 1, n) BY DEF ReadDrafts
  <2>8. i \in 1 .. n BY <2>6, <2>7, LenProperties
  <2>9. draftReqs.reqs # << >> BY <2>2, <2>3, <2>8, EmptySeq
  <2>10. stream.drafts = << >> BY <2>9, ReadersWait DEF StreamsInv
  <2>11. drafts[i] = <<draftReqs.reqs[i], draftReqs.step>>
    BY <2>8, <2>9, <2>10 DEF StreamsInv, DraftsInv, Copied
  <2> QED BY <2>6, <2>7, <2>8, <2>11
<1> QED BY <1>1, AlwaysStreamsInv, PTL DEF Spec, DraftsReadAreOwn
==============================================================================
