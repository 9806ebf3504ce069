---------------------------- MODULE DraftStreams -----------------------------
(***************************************************************************)
(* What crosses between the runner's thread and the GPU, and when          *)
(* (gpu_model_runner.py): the pinned input buffers uploaded by             *)
(* execute_model, the counts of valid tokens, the drafts and the sampled   *)
(* tokens copied back on streams of their own, and the draft probabilities *)
(* kept for the next verification.  The engine is synchronous (a step is   *)
(* finished and its drafts are taken before the next) or asynchronous (one *)
(* step is launched while another runs; sampling is deferred, and the      *)
(* drafts taken, when the grammar needs the tokens in flight).             *)
(*                                                                         *)
(* A stream is the queue of the operations still to run on it.  A value    *)
(* is the step it was computed in; steps are numbered modulo Ids.          *)
(***************************************************************************)
EXTENDS Integers, Sequences, FiniteSets, SequencesExt

CONSTANTS
  Reqs,        \* the request ids
  Structured,  \* those with structured output
  Batches,     \* the batches that may be scheduled, row by row
  Ids,         \* step numbers: more than the steps that can be in flight
  Lag,         \* bound: copies that may be outstanding on a stream
  Engines      \* the values of use_async_scheduling

ASSUME DraftStreamsAssumption ==
  /\ IsFiniteSet(Reqs) /\ Structured \subseteq Reqs /\ Ids \in Nat /\ Lag \in 1 .. Ids - 1
  /\ Engines \subseteq BOOLEAN
  /\ Batches \subseteq { b \in Seq(Reqs) \ {<< >>} : IsInjective(b) }

VARIABLES
  async,     \* the engine: never changes
  cpu,       \* where the engine's thread is: "schedule", "correct", "sample", "process"
  step,      \* the step being prepared
  plan,      \* its batch
  before,    \* the requests the step before verified drafts of
  flying,    \* steps whose output is not processed
  held,      \* the step of the drafts the scheduler holds for each request
  stream,    \* the operations pending on each stream
  inputs,    \* pinned input buffers and their copies on the GPU
  counts,    \* valid_sampled_token_count_cpu
  drafts,    \* draft_token_ids_cpu, row by row
  draftReqs, \* _draft_token_req_ids, with the step and what it drafted
  probs      \* _draft_probs and _draft_prob_req_ids

vars == <<async, cpu, step, plan, before, flying, held, stream, inputs, counts, drafts,
          draftReqs, probs>>

None == [reqs |-> << >>, step |-> 0, real |-> FALSE]
Empty == [reqs |-> << >>, partial |-> {}, source |-> [r \in Reqs |-> 0], fits |-> TRUE]
Zero == <<0, 0>>

Init ==
  /\ async \in Engines /\ cpu = "schedule" /\ step = 0 /\ plan = Empty /\ before = {}
  /\ flying = << >> /\ held = [r \in Reqs |-> 0]
  /\ stream = [main |-> << >>, counts |-> << >>, drafts |-> << >>]
  /\ inputs = [cpu |-> 0, gpu |-> 0] /\ counts = 0
  /\ drafts = [i \in 1 .. Cardinality(Reqs) |-> Zero]
  /\ draftReqs = None /\ probs = None

NextStepUnwrapped == step + 1
NextStep == (step % Ids) + 1
Done(op, s) == op \notin ToSet(stream[s])
Idle(s) == stream[s] = << >>

-----------------------------------------------------------------------------
(* What the scheduler may ask for.  A request that the last step sampled    *)
(* decodes; asynchronously its drafts are that step's, whatever they are;   *)
(* synchronously they are the ones that were taken back.                    *)
Decoding(r) == r \in ToSet(plan.reqs) \ plan.partial

Verified == { r \in Reqs : plan.source[r] # 0 }

Source(r) == IF async THEN IF Decoding(r) THEN step ELSE 0 ELSE held[r]

(* The prompts of a batch (requests with nothing to decode) all end or none *)
(* does.                                                                    *)
Plan(b, ends, f) ==
  [reqs |-> b, fits |-> f,
   partial |-> IF ends THEN {} ELSE { r \in ToSet(b) : ~Decoding(r) /\ held[r] = 0 },
   source |-> [r \in Reqs |-> IF r \in ToSet(b) THEN Source(r) ELSE 0]]

(* execute_model: synchronize_input_prep waits until the last step's inputs *)
(* have left the pinned buffers, then they are rewritten and uploaded.      *)
InputsFreeAlways == TRUE
InputsFree == \A s \in 1 .. Ids : Done(<<"upload", s>>, "main")

Execute(p) ==
  /\ cpu = "schedule"
  /\ Len(flying) < (IF async THEN 2 ELSE 1)
  /\ InputsFree
  /\ Len(stream.counts) < Lag /\ Len(stream.drafts) < Lag
  /\ step' = NextStep /\ plan' = p /\ before' = Verified
  /\ held' = [r \in Reqs |-> IF r \in ToSet(p.reqs) THEN 0 ELSE held[r]]
  /\ inputs' = [inputs EXCEPT !.cpu = NextStep]
  /\ stream' = [stream EXCEPT !.main = @ \o << <<"upload", NextStep>>, <<"forward", NextStep>> >>]
  /\ cpu' = "correct"
  /\ UNCHANGED <<async, flying, counts, drafts, draftReqs, probs>>

(* deferred_state_corrections_fn, after the launch: waits for the counts of *)
(* the previous step when one of its requests had drafts.                   *)
NeedsCounts == async /\ Verified \cap before # {}
CountsArrivedButLast == Len(stream.counts) < 2
CountsArrived == Idle("counts")

Correct ==
  /\ cpu = "correct" /\ (NeedsCounts => CountsArrived)
  /\ cpu' = "sample"
  /\ UNCHANGED <<async, step, plan, before, flying, held, stream, inputs, counts, drafts,
                 draftReqs, probs>>

(* pending_structured_output_tokens: a structured request's tokens are      *)
(* still in flight.                                                         *)
Pending ==
  async /\ flying # << >> /\ \E r \in Structured : r \in ToSet(plan.reqs) /\ plan.source[r] # 0

(* _get_draft_token_ids_cpu: the rows of the last record, after its event.  *)
ReadDrafts == [of |-> draftReqs, rows |-> SubSeq(drafts, 1, Len(draftReqs.reqs))]

DraftsArrivedButLast == Len(stream.drafts) < 2
DraftsArrived == Idle("drafts")

(* take_draft_token_ids reads only when a record was left.                  *)
TakeDrafts == draftReqs.reqs # << >> => DraftsArrived

(* The engine processes the oldest output, once its copy has arrived.       *)
Newest == Len(flying)
Oldest == 1

Deferred ==
  /\ cpu = "sample" /\ Pending
  /\ Done(<<"draft", flying[Oldest]>>, "main")
  /\ TakeDrafts
  /\ flying' = RemoveAt(flying, Oldest)
  /\ UNCHANGED <<async, cpu, step, plan, before, held, stream, inputs, counts, drafts, draftReqs, probs>>

(* _get_spec_decode_draft_probs: by the request ids of the step that made   *)
(* them; none at all when a drafted request has no row.                     *)
Row(b, r) == CHOOSE i \in DOMAIN b : b[i] = r

ProbsByRow ==
  [r \in Reqs |->
     IF r \notin ToSet(plan.reqs) \/ plan.source[r] = 0 THEN Zero
     ELSE LET i == Row(plan.reqs, r)
          IN  IF i \in DOMAIN probs.reqs THEN <<probs.reqs[i], probs.step>> ELSE Zero]

DraftProbs ==
  LET drafted == { r \in ToSet(plan.reqs) : plan.source[r] # 0 }
  IN  [r \in Reqs |->
         IF r \in drafted /\ drafted \subseteq ToSet(probs.reqs)
         THEN <<probs.reqs[Row(probs.reqs, r)], probs.step>> ELSE Zero]

(* _copy_draft_token_ids_to_cpu is skipped unless somebody needs the drafts *)
CopiesDrafts == ~async \/ Structured \cap ToSet(plan.reqs) # {}

(* update_async_output_token_ids: penalties and bad words read the drafts.  *)
ReadsOnCpu == async /\ Verified # {} /\ draftReqs.reqs # << >>

(* sample_tokens: verify (reading the drafts on the CPU when the sampling   *)
(* parameters need them), draft or zero, and hand the output over.          *)
SampleTokens ==
  LET op(name) == <<name, step>>
      counted == IF async THEN << op("counts") >> ELSE << >>
      copied == IF CopiesDrafts /\ plan.fits THEN << [op |-> op("drafts"), reqs |-> plan.reqs] >>
                ELSE << >>
  IN  /\ cpu = "sample" /\ ~Pending
      /\ ReadsOnCpu => DraftsArrived
      /\ stream' = [main |-> stream.main \o << op("draft") >>,
                    counts |-> stream.counts \o counted,
                    drafts |-> stream.drafts \o copied]
      /\ drafts' = IF CopiesDrafts /\ ~plan.fits
                   THEN [i \in DOMAIN drafts |-> Zero]
                   ELSE drafts
      /\ draftReqs' = IF CopiesDrafts
                      THEN [reqs |-> plan.reqs, step |-> step, real |-> plan.fits] ELSE None
      /\ probs' = IF plan.fits THEN [reqs |-> plan.reqs, step |-> step, real |-> TRUE] ELSE None
      /\ flying' = Append(flying, step)
      /\ cpu' = IF async THEN "schedule" ELSE "process"
      /\ UNCHANGED <<async, step, plan, before, held, inputs, counts>>

(* Asynchronously, get_output; synchronously, the tokens are waited for and *)
(* the drafts go back to the scheduler, which drops those of prompt chunks. *)
ProcessOutput ==
  /\ flying # << >> /\ Done(<<"draft", flying[Oldest]>>, "main")
  /\ flying' = RemoveAt(flying, Oldest)
  /\ IF async
     THEN /\ cpu = "schedule"
          /\ UNCHANGED <<cpu, held>>
     ELSE /\ cpu = "process" /\ cpu' = "schedule"
          /\ TakeDrafts
          /\ held' = [r \in Reqs |-> IF Decoding(r) THEN step ELSE held[r]]
  /\ UNCHANGED <<async, step, plan, before, stream, inputs, counts, drafts, draftReqs, probs>>

-----------------------------------------------------------------------------
(* The GPU.  Each stream runs in order.                                     *)
RunMain ==
  LET op == Head(stream.main)
  IN  /\ stream.main # << >>
      /\ stream' = [stream EXCEPT !.main = Tail(@)]
      /\ inputs' = IF op[1] = "upload" THEN [inputs EXCEPT !.gpu = inputs.cpu] ELSE inputs
      /\ UNCHANGED <<async, cpu, step, plan, before, flying, held, counts, drafts, draftReqs, probs>>

(* wait_stream: a copy starts when what was launched before it has run.     *)
RunCounts ==
  /\ stream.counts # << >>
  /\ \A op \in {"upload", "forward"} : Done(<<op, Head(stream.counts)[2]>>, "main")
  /\ counts' = Head(stream.counts)[2]
  /\ stream' = [stream EXCEPT !.counts = Tail(@)]
  /\ UNCHANGED <<async, cpu, step, plan, before, flying, held, inputs, drafts, draftReqs, probs>>

(* What stands in the rows past the copy is of no step: it counts as zero.  *)
RunDrafts ==
  LET copy == Head(stream.drafts)
  IN  /\ stream.drafts # << >>
      /\ \A op \in {"upload", "forward", "draft"} : Done(<<op, copy.op[2]>>, "main")
      /\ drafts' = [i \in DOMAIN drafts |->
                      IF i \in DOMAIN copy.reqs THEN <<copy.reqs[i], copy.op[2]>> ELSE Zero]
      /\ stream' = [stream EXCEPT !.drafts = Tail(@)]
      /\ UNCHANGED <<async, cpu, step, plan, before, flying, held, inputs, counts, draftReqs, probs>>

Thread ==
  \/ \E b \in Batches, ends, f \in BOOLEAN : Execute(Plan(b, ends, f))
  \/ Correct \/ Deferred \/ SampleTokens \/ ProcessOutput

Gpu == RunMain \/ RunCounts \/ RunDrafts

Next == Thread \/ Gpu

(* The GPU runs what was launched and the engine's loop does not stop while *)
(* an output is outstanding.                                                *)
Fairness ==
  /\ WF_vars(RunMain) /\ WF_vars(RunCounts) /\ WF_vars(RunDrafts)
  /\ WF_vars(Correct) /\ WF_vars(Deferred) /\ WF_vars(SampleTokens) /\ WF_vars(ProcessOutput)

Spec == Init /\ [][Next]_vars /\ Fairness

-----------------------------------------------------------------------------
TypeOK ==
  /\ async \in Engines /\ cpu \in {"schedule", "correct", "sample", "process"}
  /\ step \in 0 .. Ids /\ Len(flying) <= (IF async THEN 2 ELSE 1)
  /\ held \in [Reqs -> 0 .. Ids] /\ counts \in 0 .. Ids
  /\ \A i \in DOMAIN drafts : drafts[i] \in (Reqs \X (1 .. Ids)) \cup {Zero}
  /\ draftReqs.reqs \in Batches \cup {<< >>} /\ probs.reqs \in Batches \cup {<< >>}

(* Each forward pass runs on its own step's inputs: the pinned buffers are  *)
(* not rewritten while the previous upload is still reading them            *)
(* (synchronize_input_prep).                                                *)
ForwardOnOwnInputs ==
  stream.main # << >> /\ Head(stream.main)[1] = "forward" => inputs.gpu = Head(stream.main)[2]

(* The counts that correct a step's positions are those of the step before  *)
(* (_get_valid_sampled_token_count): neither still on their way nor of the  *)
(* step itself.                                                             *)
CountsArePrevious ==
  [][ cpu = "correct" /\ cpu' = "sample" /\ NeedsCounts
        => counts = ((step + Ids - 2) % Ids) + 1 ]_vars

(* A step in which the thread reads the drafts on the CPU.                  *)
Reads ==
  \/ cpu = "sample" /\ cpu' = "sample" /\ flying' # flying
  \/ cpu = "sample" /\ cpu' # "sample" /\ ReadsOnCpu
  \/ cpu = "process" /\ cpu' = "schedule"

(* Whoever reads the drafts on the CPU, the grammar or the penalties, gets  *)
(* those of the step whose request ids are given with them, row by row      *)
(* (_get_draft_token_ids_cpu).                                              *)
DraftsReadAreOwn ==
  [][ Reads /\ draftReqs.real =>
        \A i \in DOMAIN ReadDrafts.rows :
          ReadDrafts.rows[i] = <<draftReqs.reqs[i], draftReqs.step>> ]_vars

(* A draft is accepted or rejected with the probabilities it was drawn from *)
(* or with none: never with those of another request or another step        *)
(* (_get_spec_decode_draft_probs).                                          *)
ProbsMatchDrafts ==
  cpu = "sample" /\ ~Pending =>
    \A r \in Reqs : DraftProbs[r] \in {Zero, <<r, plan.source[r]>>}

(* "Zero out draft tokens so the scheduler doesn't schedule stale drafts    *)
(* from the previous step": after a step that could not draft, the drafts   *)
(* read on the CPU are zeros.                                               *)
ZerosAreRead ==
  [][ Reads /\ draftReqs.reqs # << >> /\ ~draftReqs.real =>
        \A i \in DOMAIN ReadDrafts.rows : ReadDrafts.rows[i] = Zero ]_vars

(* The handshake never wedges and starves no step: the output of a step is  *)
(* processed (the numbers rotate: step 1 stands for every one).             *)
StepsReturn == (1 \in ToSet(flying)) ~> (1 \notin ToSet(flying))
=============================================================================
