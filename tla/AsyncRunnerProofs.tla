-------------------------- MODULE AsyncRunnerProofs --------------------------
(***************************************************************************)
(* Proofs about AsyncRunner, for every set of requests, every number of    *)
(* rows and of drafts, every prompt and every interleaving of launches,    *)
(* samplings and late results.                                             *)
(*                                                                         *)
(* The scheduler's counts are ahead of the truth by exactly what the       *)
(* results it has not processed yet reject, and by the step in flight      *)
(* (CountsInv).  Between two steps the GPU's tensors, indexed by the rows  *)
(* of the last batch, hold the missing piece (IdleInv): launching the next *)
(* step combines the two.                                                  *)
(***************************************************************************)
EXTENDS AsyncRunner, TLAPS

RowIn(b, r) == CHOOSE i \in DOMAIN b : b[i] = r

IsBatch(b) ==
  /\ DOMAIN b \subseteq Rows
  /\ \A i \in DOMAIN b : b[i] \in Reqs
  /\ \A i, j \in DOMAIN b : b[i] = b[j] => i = j

(* What a result takes off the scheduler's count of r.                      *)
RejectedOf(out, r) ==
  IF r \in InBatch(out.batch) THEN out.rejected[RowIn(out.batch, r)] ELSE 0

(* What a queue of at most two results takes off it.                        *)
PendingOf(outs, r) ==
  IF Len(outs) = 0 THEN 0
  ELSE IF Len(outs) = 1 THEN RejectedOf(outs[1], r)
  ELSE RejectedOf(outs[1], r) + RejectedOf(outs[2], r)

Pending(r) == PendingOf(outputs, r)

(* What the step in flight computes of r.                                   *)
Launched(r) ==
  IF running # Idle /\ r \in InBatch(batch) THEN running.plan[RowIn(batch, r)].n ELSE 0

Columns(S) == UNION { [1 .. n -> S] : n \in 0 .. MaxRows }

IsOutput(out) ==
  /\ IsBatch(out.batch)
  /\ \A i \in DOMAIN out.batch : out.rejected[i] \in Int

Types ==
  /\ status \in [Reqs -> Statuses]
  /\ sched \in [Reqs -> Int] /\ expected \in [Reqs -> Int] /\ done \in [Reqs -> Int]
  /\ prevDraftLen \in [Reqs -> Nat]
  /\ prevRow \in [Reqs -> Rows \cup {None}]
  /\ gpuComputed \in [Rows -> Int] /\ validCount \in [Rows -> Int]
  /\ IsBatch(batch) /\ batch \in Columns(Reqs)

OutputsInv ==
  /\ outputs \in Seq([batch : Columns(Reqs), rejected : Columns(Int)])
  /\ Len(outputs) <= 2
  /\ \A k \in DOMAIN outputs : IsOutput(outputs[k])

PrevRowInv == \A r, s \in Reqs : prevRow[r] = prevRow[s] /\ prevRow[r] # None => r = s

CountsInv ==
  \A r \in Reqs :
    /\ status[r] = "waiting" => /\ sched[r] = 0 /\ done[r] = 0
                                /\ prevRow[r] = None /\ ~InFlight(r)
    /\ status[r] = "preempted" => sched[r] = 0 /\ done[r] = 0
    /\ status[r] = "running" => sched[r] = done[r] + (Pending(r) + Launched(r))

(* The newest result is the last sampled step's, and rejects what its       *)
(* drafts were short of.                                                    *)
LastInv ==
  /\ \A i \in DOMAIN batch : outputs # <<>>
  /\ outputs # <<>> =>
       /\ outputs[Len(outputs)].batch = batch
       /\ \A i \in DOMAIN batch :
            outputs[Len(outputs)].rejected[i] =
              IF prevDraftLen[batch[i]] = 0 THEN 0
              ELSE prevDraftLen[batch[i]] - (validCount[i] - 1)

RowsInv ==
  \A i \in DOMAIN batch :
    status[batch[i]] = "running" /\ prevDraftLen[batch[i]] > 0 =>
      prevRow[batch[i]] = i /\ gpuComputed[i] + validCount[i] = done[batch[i]]

SampledInv ==
  \A r \in Reqs :
    status[r] = "running" /\ prevRow[r] # None =>
      /\ expected[r] = sched[r] + 1
      /\ prevSampled[prevRow[r]] = <<r, done[r]>>
      /\ drafts[prevRow[r]] \in {r, None}

IdleInv == running = Idle => LastInv /\ RowsInv /\ SampledInv

LaunchedRow(i) ==
  LET r == batch[i]
      p == running.plan[i]
  IN  /\ p.n \in Int /\ p.d \in Nat /\ prevDraftLen[r] = p.d
      /\ p.d > 0 => running.samples[i] /\ p.n = p.d + 1
      /\ status[r] \in {"running", "finished"}
      /\ status[r] = "running" /\ running.samples[i] => expected[r] = sched[r] + 1

LaunchedInv ==
  running # Idle => Len(outputs) <= 1 /\ \A i \in DOMAIN batch : LaunchedRow(i)

AsyncInv ==
  /\ Types /\ OutputsInv /\ PrevRowInv /\ CountsInv /\ IdleInv /\ LaunchedInv
  /\ PositionsExact /\ CpuAgreesWithGpu /\ InputsAreOwn

-----------------------------------------------------------------------------
(* A request of a batch has one row, and RowIn finds it.                    *)
LEMMA RowOfBatch ==
  ASSUME NEW b, IsBatch(b)
  PROVE  /\ \A i \in DOMAIN b : RowIn(b, b[i]) = i /\ b[i] \in InBatch(b)
         /\ \A r \in InBatch(b) : RowIn(b, r) \in DOMAIN b /\ b[RowIn(b, r)] = r
  BY DEF IsBatch, RowIn, InBatch

(* What the scheduler can put together: a batch of its own requests.        *)
LEMMA BatchShape ==
  ASSUME AsyncRunnerAssumption, NEW b \in Batches
  PROVE  /\ IsBatch(b) /\ b \in Columns(Reqs) /\ 1 \in DOMAIN b
         /\ \A i \in DOMAIN b : Eligible(b[i])
  <1>1. PICK n \in 1 .. MaxRows :
          b \in { c \in [1 .. n -> { r \in Reqs : Eligible(r) }] :
                    \A i, j \in 1 .. n : c[i] = c[j] => i = j }
    BY DEF Batches
  <1>2. /\ b \in [1 .. n -> { r \in Reqs : Eligible(r) }]
        /\ \A i, j \in 1 .. n : b[i] = b[j] => i = j
    BY <1>1
  <1>3. /\ DOMAIN b = 1 .. n /\ n \in Int /\ 1 <= n /\ n <= MaxRows /\ n \in 0 .. MaxRows
        /\ MaxRows \in Int
    BY <1>2 DEF AsyncRunnerAssumption
  <1>4. IsBatch(b)
    <2>1. DOMAIN b \subseteq Rows
      BY <1>3 DEF Rows
    <2> QED BY <1>2, <1>3, <2>1 DEF IsBatch
  <1>5. b \in [1 .. n -> Reqs]
    BY <1>2
  <1>6. b \in Columns(Reqs)
    BY <1>3, <1>5 DEF Columns
  <1> QED BY <1>2, <1>3, <1>4, <1>6

(* What it asks of a row: a chunk, or a token and drafts of the last step.  *)
LEMMA PlanShape ==
  ASSUME AsyncRunnerAssumption, Types, NEW r \in Reqs, NEW p \in Chunks(r) \cup Decodes(r)
  PROVE  /\ p.n \in Int /\ p.n >= 1 /\ p.d \in Nat
         /\ \/ p.d = 0 /\ p.n <= expected[r] - sched[r]
            \/ /\ p.d > 0 /\ p.n = p.d + 1
               /\ status[r] = "running" /\ prevRow[r] # None /\ expected[r] = sched[r] + 1
  <1>1. MaxChunk \in Nat /\ SpecTokens \in Nat /\ sched[r] \in Int /\ expected[r] \in Int
    BY DEF AsyncRunnerAssumption, Types
  <1>2. CASE p \in Chunks(r)
    BY <1>1, <1>2 DEF Chunks
  <1>3. CASE p \in Decodes(r)
    BY <1>1, <1>3 DEF Decodes
  <1> QED BY <1>2, <1>3

(* Rejections are numbers.                                                  *)
LEMMA RejectedInt ==
  ASSUME NEW out, IsOutput(out), NEW r
  PROVE  RejectedOf(out, r) \in Int
  BY RowOfBatch DEF IsOutput, RejectedOf

(* So is what they add up to.                                              *)
LEMMA PendingInt ==
  ASSUME OutputsInv, NEW r
  PROVE  Pending(r) \in Int
  <1>1. Len(outputs) \in Nat /\ DOMAIN outputs = 1 .. Len(outputs) /\ Len(outputs) <= 2
    BY DEF OutputsInv
  <1>2. \A k \in DOMAIN outputs : RejectedOf(outputs[k], r) \in Int
    BY RejectedInt DEF OutputsInv
  <1>3. CASE Len(outputs) = 0
    BY <1>3 DEF Pending, PendingOf
  <1>4. CASE Len(outputs) = 1
    BY <1>1, <1>2, <1>4 DEF Pending, PendingOf
  <1>5. CASE Len(outputs) = 2
    BY <1>1, <1>2, <1>5 DEF Pending, PendingOf
  <1> QED BY <1>1, <1>3, <1>4, <1>5

(* Before a launch at most one result is in flight, and what it rejects of  *)
(* a request the rows of the last step tell as well.                        *)
LEMMA PendingBeforeLaunch ==
  ASSUME AsyncInv, CanPlan, NEW r \in Reqs
  PROVE  /\ Launched(r) = 0
         /\ r \notin InBatch(batch) => Pending(r) = 0
         /\ \A i \in DOMAIN batch : batch[i] = r =>
              Pending(r) = IF prevDraftLen[r] = 0 THEN 0
                           ELSE prevDraftLen[r] - (validCount[i] - 1)
         /\ ~InFlight(r) => Pending(r) = 0
  <1>1. running = Idle /\ LastInv /\ Len(outputs) <= 1 /\ Len(outputs) \in Nat /\ IsBatch(batch)
    BY DEF AsyncInv, CanPlan, IdleInv, OutputsInv, Types
  <1>2. Launched(r) = 0
    BY <1>1 DEF Launched
  <1>3. CASE outputs = <<>>
    <2>1. \A i \in DOMAIN batch : FALSE
      BY <1>1, <1>3 DEF LastInv
    <2>2. Len(outputs) = 0
      BY <1>3
    <2>3. Pending(r) = 0
      BY <2>2 DEF Pending, PendingOf
    <2> QED BY <1>2, <2>1, <2>3
  <1>4. CASE outputs # <<>>
    <2>1. Len(outputs) = 1 /\ DOMAIN outputs = {1}
      <3> DEFINE S == [batch : Columns(Reqs), rejected : Columns(Int)]
      <3>1. outputs \in Seq(S)
        BY DEF AsyncInv, OutputsInv
      <3> HIDE DEF S
      <3>2. Len(outputs) # 0
        BY <1>4, <3>1
      <3>3. DOMAIN outputs = 1 .. Len(outputs)
        BY <3>1
      <3> QED BY <1>1, <3>2, <3>3
    <2>2. /\ outputs[1].batch = batch
          /\ \A i \in DOMAIN batch :
               outputs[1].rejected[i] = IF prevDraftLen[batch[i]] = 0 THEN 0
                                        ELSE prevDraftLen[batch[i]] - (validCount[i] - 1)
      BY <1>1, <1>4, <2>1 DEF LastInv
    <2>3. Pending(r) = IF r \in InBatch(batch) THEN outputs[1].rejected[RowIn(batch, r)] ELSE 0
      BY <2>1, <2>2 DEF Pending, PendingOf, RejectedOf
    <2>4. InFlight(r) <=> r \in InBatch(batch)
      BY <2>1, <2>2 DEF InFlight
    <2>5. \A i \in DOMAIN batch : RowIn(batch, batch[i]) = i /\ batch[i] \in InBatch(batch)
      BY <1>1, RowOfBatch
    <2> QED BY <1>2, <2>2, <2>3, <2>4, <2>5
  <1> QED BY <1>3, <1>4

(* What the launch starts from: where no drafts are in flight the           *)
(* scheduler's count is exact, elsewhere the last step's tensors are.       *)
LEMMA KnownBeforeLaunch ==
  ASSUME AsyncRunnerAssumption, AsyncInv, CanPlan, NEW r \in Reqs, Eligible(r)
  PROVE  /\ OptimisticDrafts(r) \in Nat
         /\ prevRow[r] = None \/ OptimisticDrafts(r) = 0 => sched[r] = done[r]
         /\ prevRow[r] # None /\ OptimisticDrafts(r) # 0 =>
              /\ gpuComputed[prevRow[r]] + validCount[prevRow[r]] = done[r]
              /\ done[r] = sched[r] - (OptimisticDrafts(r) - (validCount[prevRow[r]] - 1))
         /\ prevRow[r] # None =>
              /\ expected[r] = sched[r] + 1
              /\ prevSampled[prevRow[r]] = <<r, done[r]>>
              /\ drafts[prevRow[r]] \in {r, None}
         /\ status[r] # "running" => /\ sched[r] = 0 /\ done[r] = 0 /\ prevRow[r] = None
                                     /\ ~InFlight(r)
         /\ sched[r] = done[r] + Pending(r)
  <1>1. /\ running = Idle /\ RowsInv /\ SampledInv /\ CountsInv /\ IsBatch(batch)
        /\ status[r] \in Statuses /\ sched[r] \in Int /\ done[r] \in Int
        /\ prevDraftLen[r] \in Nat /\ prevRow[r] \in Rows \cup {None}
        /\ Pending(r) \in Int
    BY PendingInt DEF AsyncInv, CanPlan, IdleInv, Types
  <1>2. OptimisticDrafts(r) \in Nat
    BY <1>1 DEF OptimisticDrafts
  <1>3. /\ Launched(r) = 0
        /\ r \notin InBatch(batch) => Pending(r) = 0
        /\ \A i \in DOMAIN batch : batch[i] = r =>
             Pending(r) = IF prevDraftLen[r] = 0 THEN 0
                          ELSE prevDraftLen[r] - (validCount[i] - 1)
        /\ ~InFlight(r) => Pending(r) = 0
    BY PendingBeforeLaunch
  <1>4. CASE status[r] # "running"
    <2>1. status[r] \in {"waiting", "preempted"}
      BY <1>1, <1>4 DEF Statuses, Eligible
    <2>2. sched[r] = 0 /\ done[r] = 0 /\ prevRow[r] = None /\ ~InFlight(r)
      BY <1>1, <2>1 DEF CountsInv, Eligible
    <2> QED BY <1>2, <1>3, <1>4, <2>2
  <1>5. CASE status[r] = "running"
    <2>1. sched[r] = done[r] + Pending(r)
      <3>1. sched[r] = done[r] + (Pending(r) + Launched(r))
        BY <1>1, <1>5 DEF CountsInv
      <3> QED BY <1>1, <1>3, <3>1
    <2>2. prevRow[r] # None => /\ expected[r] = sched[r] + 1
                               /\ prevSampled[prevRow[r]] = <<r, done[r]>>
                               /\ drafts[prevRow[r]] \in {r, None}
      BY <1>1, <1>5 DEF SampledInv
    <2>3. CASE r \notin InBatch(batch)
      <3>1. OptimisticDrafts(r) = 0 /\ sched[r] = done[r]
        BY <1>1, <1>3, <2>1, <2>3 DEF OptimisticDrafts
      <3> QED BY <1>2, <1>5, <2>1, <2>2, <3>1
    <2>4. CASE r \in InBatch(batch)
      <3>1. PICK i \in DOMAIN batch : batch[i] = r
        BY <2>4 DEF InBatch
      <3>2. OptimisticDrafts(r) = prevDraftLen[r]
        BY <2>4 DEF OptimisticDrafts
      <3>3. CASE prevDraftLen[r] = 0
        <4>1. sched[r] = done[r]
          BY <1>1, <1>3, <2>1, <3>1, <3>3
        <4> QED BY <1>2, <1>5, <2>1, <2>2, <3>2, <3>3, <4>1
      <3>4. CASE prevDraftLen[r] # 0
        <4>1. prevRow[r] = i /\ gpuComputed[i] + validCount[i] = done[r]
          <5>1. prevDraftLen[batch[i]] > 0 /\ status[batch[i]] = "running"
            BY <1>1, <1>5, <3>1, <3>4
          <5> QED BY <1>1, <3>1, <5>1 DEF RowsInv
        <4>2. i \in Rows /\ None \notin Rows
          BY <1>1, <3>1 DEF IsBatch, Rows, AsyncRunnerAssumption
        <4>3. validCount[i] \in Int
          BY <4>2 DEF AsyncInv, Types
        <4>4. Pending(r) = prevDraftLen[r] - (validCount[i] - 1)
          BY <1>3, <3>1, <3>4
        <4>5. done[r] = sched[r] - (prevDraftLen[r] - (validCount[i] - 1))
          BY <1>1, <2>1, <4>3, <4>4
        <4> QED BY <1>2, <1>5, <2>1, <2>2, <3>2, <3>4, <4>1, <4>2, <4>5
      <3> QED BY <3>3, <3>4
    <2> QED BY <2>3, <2>4
  <1> QED BY <1>4, <1>5

(* The launched row is given the position after the accepted ones, by the   *)
(* GPU and by the CPU, whatever row the request had before.                 *)
LEMMA LaunchExact ==
  ASSUME AsyncRunnerAssumption, AsyncInv, CanPlan, NEW b \in Batches, NEW i \in DOMAIN b
  PROVE  NumComputedTokens(b)[i] = done[b[i]] /\ Corrected(b, b[i]) = done[b[i]]
  <1> DEFINE r == b[i]
             q == prevRow[r]
  <1>1. /\ IsBatch(b) /\ Eligible(r) /\ r \in Reqs /\ i \in Rows /\ r \in InBatch(b)
        /\ \A s \in InBatch(b) : s \in Reqs
    BY BatchShape DEF IsBatch, InBatch
  <1>2. /\ OptimisticDrafts(r) \in Nat
        /\ q = None \/ OptimisticDrafts(r) = 0 => sched[r] = done[r]
        /\ q # None /\ OptimisticDrafts(r) # 0 =>
             /\ gpuComputed[q] + validCount[q] = done[r]
             /\ done[r] = sched[r] - (OptimisticDrafts(r) - (validCount[q] - 1))
    BY <1>1, KnownBeforeLaunch
  <1>3. Corrected(b, r) = done[r]
    BY <1>2 DEF Corrected
  <1>4. NumComputedTokens(b)[i] = IF q # None /\ PrevNumDraftTokens(b)[q] > 0
                                  THEN gpuComputed[q] + validCount[q] ELSE sched[r]
    BY <1>1 DEF NumComputedTokens, PrevPosition
  <1>5. q # None => PrevNumDraftTokens(b)[q] = OptimisticDrafts(r)
    <2>1. SUFFICES ASSUME q # None PROVE PrevNumDraftTokens(b)[q] = OptimisticDrafts(r)
      OBVIOUS
    <2>2. q \in Rows
      BY <1>1, <2>1 DEF AsyncInv, Types
    <2>3. \A s \in InBatch(b) : prevRow[s] = q => s = r
      BY <1>1, <2>1 DEF AsyncInv, PrevRowInv
    <2>4. (CHOOSE s \in InBatch(b) : prevRow[s] = q) = r
      BY <1>1, <2>3
    <2>5. \E s \in InBatch(b) : prevRow[s] = q
      BY <1>1
    <2> QED BY <2>2, <2>4, <2>5 DEF PrevNumDraftTokens
  <1>6. NumComputedTokens(b)[i] = done[r]
    BY <1>2, <1>4, <1>5
  <1> QED BY <1>3, <1>6

-----------------------------------------------------------------------------
(* Nothing has been launched, sampled or counted at the start.             *)
LEMMA AsyncInvInit == AsyncRunnerAssumption /\ Init => AsyncInv
  <1> SUFFICES ASSUME AsyncRunnerAssumption, Init PROVE AsyncInv
    OBVIOUS
  <1>1. Types
    <2>1. DOMAIN batch = {} /\ batch \in [1 .. 0 -> Reqs] /\ 0 \in 0 .. MaxRows
      BY DEF Init, AsyncRunnerAssumption
    <2>2. batch \in Columns(Reqs) /\ IsBatch(batch)
      BY <2>1 DEF Columns, IsBatch
    <2>3. expected \in [Reqs -> Int]
      BY DEF Init, AsyncRunnerAssumption
    <2>4. status \in [Reqs -> Statuses]
      BY DEF Init, Statuses
    <2> QED BY <2>2, <2>3, <2>4 DEF Init, Types
  <1>2. OutputsInv
    BY DEF Init, OutputsInv
  <1>3. PrevRowInv
    BY DEF Init, PrevRowInv
  <1>4. CountsInv
    BY DEF Init, CountsInv, InFlight
  <1>5. IdleInv
    BY DEF Init, IdleInv, LastInv, RowsInv, SampledInv
  <1> QED BY <1>1, <1>2, <1>3, <1>4, <1>5
      DEF Init, AsyncInv, LaunchedInv, PositionsExact, CpuAgreesWithGpu, InputsAreOwn

-----------------------------------------------------------------------------
(* What a launch does to a request of the batch, row by row, and to any     *)
(* other request.                                                           *)
LEMMA LaunchEffect ==
  ASSUME AsyncRunnerAssumption, AsyncInv, NEW b \in Batches, NEW plan \in Plans(b),
         Execute(b, plan)
  PROVE  /\ \A i \in DOMAIN b :
              /\ status'[b[i]] = "running"
              /\ prevDraftLen'[b[i]] = plan[i].d
              /\ sched'[b[i]] = sched[b[i]] + plan[i].n
              /\ expected'[b[i]] = IF Samples(b[i], plan[i])
                                   THEN expected[b[i]] + 1 + plan[i].d ELSE expected[b[i]]
              /\ cpuComputed'[b[i]] = done[b[i]]
              /\ gpuComputed'[i] = done[b[i]]
         /\ \A r \in Reqs : r \notin InBatch(b) =>
              /\ status'[r] = status[r]
              /\ prevDraftLen'[r] = prevDraftLen[r]
              /\ sched'[r] = sched[r]
              /\ expected'[r] = expected[r]
  <1>1. /\ IsBatch(b)
        /\ \A i \in DOMAIN b : b[i] \in Reqs /\ b[i] \in InBatch(b) /\ RowIn(b, b[i]) = i
    BY BatchShape, RowOfBatch DEF IsBatch
  <1> DEFINE planOf == [r \in InBatch(b) |-> plan[RowIn(b, r)]]
  <1>2. /\ prevDraftLen' = [r \in Reqs |->
             IF r \in InBatch(b) THEN planOf[r].d ELSE prevDraftLen[r]]
        /\ status' = [r \in Reqs |-> IF r \in InBatch(b) THEN "running" ELSE status[r]]
        /\ sched' = [r \in Reqs |->
             IF r \in InBatch(b) THEN sched[r] + planOf[r].n ELSE sched[r]]
        /\ expected' = [r \in Reqs |->
             IF r \in InBatch(b) /\ Samples(r, planOf[r])
             THEN expected[r] + 1 + planOf[r].d ELSE expected[r]]
        /\ cpuComputed' = [r \in Reqs |-> IF r \in InBatch(b) THEN Corrected(b, r) ELSE cpuComputed[r]]
        /\ gpuComputed' = NumComputedTokens(b) /\ CanPlan
    BY DEF Execute, RowIn
  <1>3. \A i \in DOMAIN b : planOf[b[i]] = plan[i]
    BY <1>1
  <1> HIDE DEF planOf
  <1>4. \A i \in DOMAIN b : NumComputedTokens(b)[i] = done[b[i]] /\ Corrected(b, b[i]) = done[b[i]]
    BY <1>2, LaunchExact
  <1>5. ASSUME NEW i \in DOMAIN b
        PROVE  /\ status'[b[i]] = "running"
               /\ prevDraftLen'[b[i]] = plan[i].d
               /\ sched'[b[i]] = sched[b[i]] + plan[i].n
               /\ expected'[b[i]] = IF Samples(b[i], plan[i])
                                    THEN expected[b[i]] + 1 + plan[i].d ELSE expected[b[i]]
               /\ cpuComputed'[b[i]] = done[b[i]]
               /\ gpuComputed'[i] = done[b[i]]
    <2>1. b[i] \in Reqs /\ b[i] \in InBatch(b) /\ planOf[b[i]] = plan[i]
      BY <1>1, <1>3
    <2> QED BY <1>2, <1>4, <2>1
  <1>6. ASSUME NEW r \in Reqs, r \notin InBatch(b)
        PROVE  /\ status'[r] = status[r]
               /\ prevDraftLen'[r] = prevDraftLen[r]
               /\ sched'[r] = sched[r]
               /\ expected'[r] = expected[r]
    BY <1>2, <1>6
  <1> QED BY <1>5, <1>6

(* The step launched is not the idle one, and carries the plan.             *)
LEMMA LaunchRuns ==
  ASSUME AsyncRunnerAssumption, NEW b \in Batches, NEW plan \in Plans(b), Execute(b, plan)
  PROVE  /\ running' # Idle /\ batch' = b /\ running'.plan = plan
         /\ DOMAIN plan = DOMAIN b
         /\ \A i \in DOMAIN b : /\ plan[i] \in Chunks(b[i]) \cup Decodes(b[i])
                                /\ running'.samples[i] = Samples(b[i], plan[i])
                                /\ running'.input[i] = InputOf(b, plan, i)
  <1>1. DOMAIN plan = DOMAIN b /\ 1 \in DOMAIN b
    BY BatchShape DEF Plans
  <1>2. plan # <<>>
    BY <1>1
  <1>3. \A i \in DOMAIN b : plan[i] \in Chunks(b[i]) \cup Decodes(b[i])
    BY DEF Plans
  <1>4. /\ running'.plan = plan
        /\ running'.input = [i \in DOMAIN b |-> InputOf(b, plan, i)]
        /\ running'.samples = [i \in DOMAIN b |-> Samples(b[i], plan[i])]
        /\ batch' = b
    BY DEF Execute
  <1>5. Idle.plan = <<>>
    BY DEF Idle
  <1> QED BY <1>1, <1>2, <1>3, <1>4, <1>5

(* Launching a step keeps the invariant.                                    *)
LEMMA LaunchStep ==
  ASSUME AsyncRunnerAssumption, AsyncInv, NEW b \in Batches, NEW plan \in Plans(b),
         Execute(b, plan)
  PROVE  AsyncInv'
  <1>1. CanPlan /\ UNCHANGED <<outputs, prevRow, validCount, prevSampled, drafts, done, tokens>>
    BY DEF Execute
  <1>2. /\ running' # Idle /\ batch' = b /\ running'.plan = plan
        /\ DOMAIN plan = DOMAIN b
        /\ \A i \in DOMAIN b : /\ plan[i] \in Chunks(b[i]) \cup Decodes(b[i])
                               /\ running'.samples[i] = Samples(b[i], plan[i])
                               /\ running'.input[i] = InputOf(b, plan, i)
    BY LaunchRuns
  <1>3. /\ \A i \in DOMAIN b :
              /\ status'[b[i]] = "running"
              /\ prevDraftLen'[b[i]] = plan[i].d
              /\ sched'[b[i]] = sched[b[i]] + plan[i].n
              /\ expected'[b[i]] = IF Samples(b[i], plan[i])
                                   THEN expected[b[i]] + 1 + plan[i].d ELSE expected[b[i]]
              /\ cpuComputed'[b[i]] = done[b[i]]
              /\ gpuComputed'[i] = done[b[i]]
        /\ \A r \in Reqs : r \notin InBatch(b) =>
              /\ status'[r] = status[r]
              /\ prevDraftLen'[r] = prevDraftLen[r]
              /\ sched'[r] = sched[r]
              /\ expected'[r] = expected[r]
    BY LaunchEffect
  <1>4. /\ IsBatch(b) /\ b \in Columns(Reqs) /\ 1 \in DOMAIN b
        /\ \A i \in DOMAIN b : b[i] \in Reqs /\ Eligible(b[i]) /\ RowIn(b, b[i]) = i
        /\ \A r \in InBatch(b) : RowIn(b, r) \in DOMAIN b /\ b[RowIn(b, r)] = r
    BY BatchShape, RowOfBatch DEF IsBatch
  <1>5. ASSUME NEW i \in DOMAIN b
        PROVE  /\ plan[i].n \in Int /\ plan[i].n >= 1 /\ plan[i].d \in Nat
               /\ \/ plan[i].d = 0 /\ plan[i].n <= expected[b[i]] - sched[b[i]]
                  \/ /\ plan[i].d > 0 /\ plan[i].n = plan[i].d + 1
                     /\ status[b[i]] = "running" /\ prevRow[b[i]] # None
                     /\ expected[b[i]] = sched[b[i]] + 1
    BY <1>2, <1>4, PlanShape DEF AsyncInv
  <1>6. \A r \in Reqs : sched[r] \in Int /\ expected[r] \in Int /\ done[r] \in Int
    BY DEF AsyncInv, Types
  <1>7. Types'
    <2>1. status' \in [Reqs -> Statuses]
      <3>1. status' = [r \in Reqs |-> IF r \in InBatch(b) THEN "running" ELSE status[r]]
        BY DEF Execute
      <3> QED BY <3>1 DEF AsyncInv, Types, Statuses
    <2>2. \A r \in Reqs : /\ sched'[r] \in Int /\ expected'[r] \in Int
                          /\ prevDraftLen'[r] \in Nat
      <3> SUFFICES ASSUME NEW r \in Reqs
                   PROVE  /\ sched'[r] \in Int /\ expected'[r] \in Int
                          /\ prevDraftLen'[r] \in Nat
        OBVIOUS
      <3>1. CASE r \notin InBatch(b)
        BY <1>3, <3>1 DEF AsyncInv, Types
      <3>2. CASE r \in InBatch(b)
        <4>1. PICK i \in DOMAIN b : b[i] = r
          BY <3>2 DEF InBatch
        <4>2. /\ sched'[r] = sched[r] + plan[i].n /\ prevDraftLen'[r] = plan[i].d
              /\ \/ expected'[r] = expected[r] + 1 + plan[i].d
                 \/ expected'[r] = expected[r]
          BY <1>3, <4>1
        <4> QED BY <1>5, <1>6, <4>2
      <3> QED BY <3>1, <3>2
    <2>3. /\ sched' \in [Reqs -> Int] /\ expected' \in [Reqs -> Int]
          /\ prevDraftLen' \in [Reqs -> Nat]
      <3>1. /\ \E f : sched' = [r \in Reqs |-> f[r]]
            /\ \E f : expected' = [r \in Reqs |-> f[r]]
            /\ \E f : prevDraftLen' = [r \in Reqs |-> f[r]]
        <4>1. /\ sched' = [r \in Reqs |-> sched'[r]]
              /\ expected' = [r \in Reqs |-> expected'[r]]
              /\ prevDraftLen' = [r \in Reqs |-> prevDraftLen'[r]]
          BY DEF Execute
        <4> QED BY <4>1
      <3> QED BY <2>2, <3>1
    <2>4. gpuComputed' \in [Rows -> Int]
      <3>1. gpuComputed' = [i \in Rows |-> gpuComputed'[i]]
        BY DEF Execute, NumComputedTokens
      <3>2. \A i \in Rows : i \notin DOMAIN b => gpuComputed'[i] = gpuComputed[i]
        BY DEF Execute, NumComputedTokens
      <3>3. \A i \in Rows : gpuComputed'[i] \in Int
        BY <1>3, <1>4, <1>6, <3>2 DEF AsyncInv, Types
      <3> QED BY <3>1, <3>3
    <2> QED BY <1>1, <1>2, <1>4, <2>1, <2>3, <2>4 DEF AsyncInv, Types
  <1>8. OutputsInv' /\ PrevRowInv'
    BY <1>1 DEF AsyncInv, OutputsInv, PrevRowInv
  <1>9. \A r \in Reqs : Pending(r)' = Pending(r) /\ InFlight(r)' = InFlight(r)
    BY <1>1 DEF Pending, PendingOf, RejectedOf, InFlight
  <1>10. CountsInv'
    <2> SUFFICES ASSUME NEW r \in Reqs
                 PROVE  /\ status'[r] = "waiting" => /\ sched'[r] = 0 /\ done'[r] = 0
                                                     /\ prevRow'[r] = None /\ ~InFlight(r)'
                        /\ status'[r] = "preempted" => sched'[r] = 0 /\ done'[r] = 0
                        /\ status'[r] = "running" =>
                             sched'[r] = done'[r] + (Pending(r)' + Launched(r)')
      BY DEF CountsInv
    <2>1. CASE r \in InBatch(b)
      <3>1. PICK i \in DOMAIN b : b[i] = r
        BY <2>1 DEF InBatch
      <3>2. Launched(r)' = plan[i].n
        BY <1>2, <1>4, <2>1, <3>1 DEF Launched
      <3>3. sched[r] = done[r] + Pending(r)
        BY <1>1, <1>4, <3>1, KnownBeforeLaunch
      <3>4. status'[r] = "running" /\ sched'[r] = sched[r] + plan[i].n
        BY <1>3, <3>1
      <3>5. Pending(r) \in Int /\ plan[i].n \in Int
        BY <1>5, PendingInt DEF AsyncInv
      <3>6. sched'[r] = done[r] + (Pending(r) + plan[i].n)
        BY <1>6, <3>3, <3>4, <3>5
      <3> QED BY <1>1, <1>9, <3>2, <3>4, <3>6
    <2>2. CASE r \notin InBatch(b)
      <3>1. Launched(r)' = 0
        BY <1>2, <2>2 DEF Launched
      <3>2. Launched(r) = 0
        BY <1>1, PendingBeforeLaunch
      <3>3. status'[r] = status[r] /\ sched'[r] = sched[r]
        BY <1>3, <2>2
      <3>4. CountsInv
        BY DEF AsyncInv
      <3> QED BY <1>1, <1>9, <3>1, <3>2, <3>3, <3>4 DEF CountsInv
    <2> QED BY <2>1, <2>2
  <1>11. IdleInv'
    BY <1>2 DEF IdleInv
  <1>12. LaunchedInv'
    <2>1. Len(outputs') <= 1
      BY <1>1 DEF CanPlan
    <2>2. ASSUME NEW i \in DOMAIN b
          PROVE  /\ plan[i].n \in Int /\ plan[i].d \in Nat /\ prevDraftLen'[b[i]] = plan[i].d
                 /\ plan[i].d > 0 => running'.samples[i] /\ plan[i].n = plan[i].d + 1
                 /\ status'[b[i]] \in {"running", "finished"}
                 /\ status'[b[i]] = "running" /\ running'.samples[i] =>
                      expected'[b[i]] = sched'[b[i]] + 1
      <3>1. running'.samples[i] <=> sched[b[i]] + plan[i].n >= expected[b[i]]
        BY <1>2 DEF Samples
      <3>2. sched[b[i]] \in Int /\ expected[b[i]] \in Int
        BY <1>4, <1>6
      <3>3. plan[i].d > 0 => running'.samples[i]
        BY <1>5, <3>1, <3>2
      <3>4. running'.samples[i] => expected'[b[i]] = sched'[b[i]] + 1
        <4> SUFFICES ASSUME running'.samples[i] PROVE expected'[b[i]] = sched'[b[i]] + 1
          OBVIOUS
        <4>1. /\ expected'[b[i]] = expected[b[i]] + 1 + plan[i].d
              /\ sched'[b[i]] = sched[b[i]] + plan[i].n
          BY <1>3, <3>1 DEF Samples
        <4> QED BY <1>5, <3>1, <3>2, <4>1
      <3> QED BY <1>3, <1>5, <3>3, <3>4
    <2>3. \A i \in DOMAIN b : LaunchedRow(i)'
      BY <1>2, <2>2 DEF LaunchedRow
    <2> QED BY <1>2, <2>1, <2>3 DEF LaunchedInv
  <1>13. PositionsExact' /\ CpuAgreesWithGpu'
    BY <1>1, <1>2, <1>3 DEF PositionsExact, CpuAgreesWithGpu
  <1>14. InputsAreOwn'
    <2> SUFFICES ASSUME NEW i \in DOMAIN b
                 PROVE  /\ InputOf(b, plan, i).last = <<b[i], done[b[i]] + plan[i].n - plan[i].d - 1>>
                        /\ InputOf(b, plan, i).drafts \in {b[i], None}
      BY <1>1, <1>2 DEF InputsAreOwn
    <2>1. /\ prevRow[b[i]] = None => sched[b[i]] = done[b[i]]
          /\ prevRow[b[i]] # None =>
               /\ expected[b[i]] = sched[b[i]] + 1
               /\ prevSampled[prevRow[b[i]]] = <<b[i], done[b[i]]>>
               /\ drafts[prevRow[b[i]]] \in {b[i], None}
      BY <1>1, <1>4, KnownBeforeLaunch
    <2>2. CASE prevRow[b[i]] = None
      BY <2>1, <2>2 DEF InputOf, PrevPosition
    <2>3. CASE prevRow[b[i]] # None
      <3>1. plan[i].n = plan[i].d + 1
        BY <1>4, <1>5, <1>6, <2>1, <2>3
      <3>2. done[b[i]] + plan[i].n - plan[i].d - 1 = done[b[i]]
        BY <1>4, <1>5, <1>6, <3>1
      <3>3. /\ InputOf(b, plan, i).last = prevSampled[prevRow[b[i]]]
            /\ InputOf(b, plan, i).drafts \in {None, drafts[prevRow[b[i]]]}
        BY <2>3 DEF InputOf, PrevPosition
      <3> QED BY <2>1, <2>3, <3>2, <3>3
    <2> QED BY <2>2, <2>3
  <1> QED BY <1>7, <1>8, <1>10, <1>11, <1>12, <1>13, <1>14 DEF AsyncInv

-----------------------------------------------------------------------------
(* A result queued takes off the counts what it rejects, once processed.    *)
LEMMA QueueOutput ==
  ASSUME OutputsInv, Len(outputs) <= 1,
         NEW o \in [batch : Columns(Reqs), rejected : Columns(Int)], IsOutput(o),
         outputs' = Append(outputs, o)
  PROVE  /\ OutputsInv'
         /\ Len(outputs') = Len(outputs) + 1 /\ outputs' # <<>> /\ outputs'[Len(outputs')] = o
         /\ \A r : /\ Pending(r)' = Pending(r) + RejectedOf(o, r)
                   /\ InFlight(r)' => InFlight(r) \/ r \in InBatch(o.batch)
  <1> DEFINE S == [batch : Columns(Reqs), rejected : Columns(Int)]
  <1>1. outputs \in Seq(S) /\ o \in S
    BY DEF OutputsInv
  <1> HIDE DEF S
  <1>2. /\ Len(outputs) \in Nat /\ DOMAIN outputs = 1 .. Len(outputs)
        /\ outputs' \in Seq(S) /\ Len(outputs') = Len(outputs) + 1
        /\ DOMAIN outputs' = 1 .. Len(outputs) + 1
        /\ outputs'[Len(outputs) + 1] = o
        /\ \A k \in 1 .. Len(outputs) : outputs'[k] = outputs[k]
    BY <1>1
  <1>3. \A k \in DOMAIN outputs' : (k \in DOMAIN outputs /\ outputs'[k] = outputs[k]) \/ outputs'[k] = o
    BY <1>2
  <1>4. OutputsInv'
    <2>1. \A k \in DOMAIN outputs' : IsOutput(outputs'[k])
      BY <1>3 DEF OutputsInv
    <2>2. Len(outputs') <= 2
      BY <1>2
    <2> QED BY <1>2, <2>1, <2>2 DEF OutputsInv, S
  <1>5. ASSUME NEW r
        PROVE  Pending(r)' = Pending(r) + RejectedOf(o, r)
    <2>1. RejectedOf(o, r) \in Int /\ (1 \in DOMAIN outputs => RejectedOf(outputs[1], r) \in Int)
      BY RejectedInt DEF OutputsInv
    <2>2. CASE Len(outputs) = 0
      <3>1. Len(outputs') = 1 /\ outputs'[1] = o
        BY <1>2, <2>2
      <3>2. Pending(r)' = RejectedOf(o, r) /\ Pending(r) = 0
        BY <2>2, <3>1 DEF Pending, PendingOf
      <3> QED BY <2>1, <3>2
    <2>3. CASE Len(outputs) = 1
      <3>1. Len(outputs') = 2 /\ outputs'[2] = o /\ outputs'[1] = outputs[1]
        BY <1>2, <2>3
      <3>2. Pending(r)' = RejectedOf(outputs[1], r) + RejectedOf(o, r)
        <4>1. Len(outputs') # 0 /\ Len(outputs') # 1
          BY <3>1
        <4> QED BY <3>1, <4>1 DEF Pending, PendingOf
      <3>3. Pending(r) = RejectedOf(outputs[1], r)
        BY <2>3 DEF Pending, PendingOf
      <3> QED BY <3>2, <3>3
    <2> QED BY <1>2, <2>2, <2>3
  <1>6. ASSUME NEW r, InFlight(r)'
        PROVE  InFlight(r) \/ r \in InBatch(o.batch)
    BY <1>3, <1>6 DEF InFlight
  <1>7. Len(outputs') = Len(outputs) + 1 /\ outputs' # <<>> /\ outputs'[Len(outputs')] = o
    BY <1>2
  <1> QED BY <1>4, <1>5, <1>6, <1>7

(* The queue after its oldest result is taken.                              *)
LEMMA TailShape ==
  ASSUME NEW S, NEW s \in Seq(S), s # <<>>, Len(s) <= 2
  PROVE  /\ Len(s) \in {1, 2} /\ DOMAIN s = 1 .. Len(s)
         /\ Head(s) = s[1] /\ 1 \in DOMAIN s
         /\ Tail(s) \in Seq(S) /\ Len(Tail(s)) = Len(s) - 1
         /\ DOMAIN Tail(s) = 1 .. Len(s) - 1
         /\ \A k \in 1 .. Len(s) - 1 : Tail(s)[k] = s[k + 1]
  <1>1. Len(s) \in Nat /\ Len(s) # 0 /\ DOMAIN s = 1 .. Len(s) /\ Head(s) = s[1]
    OBVIOUS
  <1>2. Len(s) \in {1, 2} /\ 1 \in 1 .. Len(s)
    BY <1>1
  <1>3. Tail(s) \in Seq(S) /\ Len(Tail(s)) = Len(s) - 1
    BY <1>1
  <1>4. DOMAIN Tail(s) = 1 .. Len(s) - 1
    BY <1>3
  <1>5. \A k \in 1 .. Len(s) - 1 : Tail(s)[k] = s[k + 1]
    BY <1>1
  <1> QED BY <1>1, <1>2, <1>3, <1>4, <1>5

(* t is the queue s after its oldest result.                                *)
IsRest(t, s) ==
  /\ Len(s) \in {1, 2} /\ Len(t) = Len(s) - 1
  /\ \A k \in 1 .. Len(s) - 1 : t[k] = s[k + 1]
  /\ \A k \in 1 .. Len(s) : IsOutput(s[k])

(* What is left pending without the oldest result.                         *)
LEMMA RestPending ==
  ASSUME NEW s, NEW t, NEW r, IsRest(t, s)
  PROVE  PendingOf(t, r) = PendingOf(s, r) - RejectedOf(s[1], r)
  <1> USE DEF IsRest
  <1>1. \A k \in 1 .. Len(s) : RejectedOf(s[k], r) \in Int
    BY RejectedInt
  <1>2. CASE Len(s) = 1
    BY <1>1, <1>2 DEF PendingOf
  <1>3. CASE Len(s) = 2
    <2>1. t[1] = s[2] /\ RejectedOf(s[1], r) \in Int /\ RejectedOf(s[2], r) \in Int
      BY <1>1, <1>3
    <2>2. PendingOf(t, r) = RejectedOf(s[2], r)
      BY <1>3, <2>1 DEF PendingOf
    <2>3. PendingOf(s, r) = RejectedOf(s[1], r) + RejectedOf(s[2], r)
      BY <1>3 DEF PendingOf
    <2> QED BY <2>1, <2>2, <2>3
  <1> QED BY <1>2, <1>3

(* A result processed was a part of what was pending.                       *)
LEMMA DequeueOutput ==
  ASSUME OutputsInv, outputs # <<>>, outputs' = Tail(outputs)
  PROVE  /\ OutputsInv'
         /\ Len(outputs') = Len(outputs) - 1 /\ Len(outputs) \in {1, 2}
         /\ IsOutput(Head(outputs))
         /\ outputs' # <<>> => outputs'[Len(outputs')] = outputs[Len(outputs)]
         /\ \A r : /\ Pending(r)' = Pending(r) - RejectedOf(Head(outputs), r)
                   /\ InFlight(r)' => InFlight(r)
                   /\ r \in InBatch(Head(outputs).batch) => InFlight(r)
  <1> DEFINE S == [batch : Columns(Reqs), rejected : Columns(Int)]
  <1>1. outputs \in Seq(S)
    BY DEF OutputsInv
  <1> HIDE DEF S
  <1>2. /\ Len(outputs) \in {1, 2} /\ DOMAIN outputs = 1 .. Len(outputs)
        /\ Head(outputs) = outputs[1] /\ 1 \in DOMAIN outputs
        /\ outputs' \in Seq(S) /\ Len(outputs') = Len(outputs) - 1
        /\ DOMAIN outputs' = 1 .. Len(outputs) - 1
        /\ \A k \in 1 .. Len(outputs) - 1 : outputs'[k] = outputs[k + 1]
    <2>1. Len(outputs) <= 2
      BY DEF OutputsInv
    <2> QED BY <1>1, <2>1, TailShape
  <1>3. \A k \in DOMAIN outputs' : k + 1 \in DOMAIN outputs /\ outputs'[k] = outputs[k + 1]
    BY <1>2
  <1>4. OutputsInv'
    <2>1. \A k \in DOMAIN outputs' : IsOutput(outputs'[k])
      BY <1>3 DEF OutputsInv
    <2>2. Len(outputs') <= 2
      BY <1>2
    <2> QED BY <1>2, <2>1, <2>2 DEF OutputsInv, S
  <1>5. ASSUME NEW r
        PROVE  Pending(r)' = Pending(r) - RejectedOf(Head(outputs), r)
    <2>1. \A k \in 1 .. Len(outputs) : IsOutput(outputs[k])
      BY <1>2 DEF OutputsInv
    <2>2. PendingOf(outputs', r) = PendingOf(outputs, r) - RejectedOf(outputs[1], r)
      <3>1. IsRest(outputs', outputs)
        BY <1>2, <2>1, Zenon DEF IsRest
      <3> QED BY <3>1, RestPending, Zenon
    <2> QED BY <1>2, <2>2, Zenon DEF Pending
  <1>6. \A r : /\ InFlight(r)' => InFlight(r)
               /\ r \in InBatch(Head(outputs).batch) => InFlight(r)
    BY <1>2, <1>3 DEF InFlight
  <1>7. outputs' # <<>> => outputs'[Len(outputs')] = outputs[Len(outputs)]
    <2>1. SUFFICES ASSUME outputs' # <<>> PROVE outputs'[Len(outputs')] = outputs[Len(outputs)]
      OBVIOUS
    <2>2. Len(outputs') # 0
      BY <1>2, <2>1
    <2> QED BY <1>2, <2>2
  <1>8. IsOutput(Head(outputs))
    BY <1>2 DEF OutputsInv
  <1> QED BY <1>2, <1>4, <1>5, <1>6, <1>7, <1>8

(* A step without requests queues an empty result.                          *)
LEMMA EmptyStep ==
  ASSUME AsyncRunnerAssumption, AsyncInv, ExecuteEmpty
  PROVE  AsyncInv'
  <1>1. /\ running = Idle /\ Len(outputs) <= 1 /\ batch' = <<>>
        /\ outputs' = Append(outputs, [batch |-> <<>>, rejected |-> <<>>])
        /\ UNCHANGED <<status, sched, expected, cpuComputed, prevDraftLen, prevRow, running,
                       gpuComputed, validCount, prevSampled, drafts, done, tokens>>
    BY DEF ExecuteEmpty, CanPlan, gpuVars
  <1>2. PICK o : o = [batch |-> <<>>, rejected |-> <<>>]
    OBVIOUS
  <1>3. /\ <<>> \in Columns(Reqs) /\ <<>> \in Columns(Int) /\ IsBatch(<<>>)
        /\ DOMAIN <<>> = {} /\ InBatch(<<>>) = {}
    <2>1. 0 \in 0 .. MaxRows /\ <<>> \in [1 .. 0 -> Reqs] /\ <<>> \in [1 .. 0 -> Int]
      BY DEF AsyncRunnerAssumption
    <2>2. DOMAIN <<>> = {}
      OBVIOUS
    <2> QED BY <2>1, <2>2 DEF Columns, IsBatch, InBatch
  <1>4. /\ o \in [batch : Columns(Reqs), rejected : Columns(Int)] /\ IsOutput(o)
        /\ o.batch = <<>> /\ \A r : RejectedOf(o, r) = 0
    BY <1>2, <1>3 DEF IsOutput, RejectedOf
  <1>5. /\ OutputsInv' /\ outputs' # <<>> /\ outputs'[Len(outputs')] = o
        /\ \A r : /\ Pending(r)' = Pending(r) + 0
                  /\ InFlight(r)' => InFlight(r)
    <2>1. OutputsInv
      BY DEF AsyncInv
    <2>2. outputs' = Append(outputs, o)
      BY <1>1, <1>2
    <2> QED BY <1>1, <1>3, <1>4, <2>1, <2>2, QueueOutput
  <1>6. Types' /\ PrevRowInv'
    BY <1>1, <1>3 DEF AsyncInv, Types, PrevRowInv
  <1>7. CountsInv'
    <2>1. \A r \in Reqs : Pending(r)' = Pending(r)
      BY <1>5, PendingInt DEF AsyncInv
    <2>2. \A r \in Reqs : Launched(r)' = 0 /\ Launched(r) = 0
      BY <1>1 DEF Launched
    <2>3. CountsInv
      BY DEF AsyncInv
    <2> QED BY <1>1, <1>5, <2>1, <2>2, <2>3 DEF CountsInv
  <1>8. IdleInv'
    <2>1. LastInv'
      BY <1>1, <1>3, <1>4, <1>5 DEF LastInv
    <2>2. RowsInv'
      BY <1>1, <1>3 DEF RowsInv
    <2>3. SampledInv'
      BY <1>1 DEF AsyncInv, IdleInv, SampledInv
    <2> QED BY <2>1, <2>2, <2>3 DEF IdleInv
  <1>9. LaunchedInv' /\ PositionsExact' /\ CpuAgreesWithGpu' /\ InputsAreOwn'
    BY <1>1 DEF LaunchedInv, PositionsExact, CpuAgreesWithGpu, InputsAreOwn
  <1> QED BY <1>5, <1>6, <1>7, <1>8, <1>9 DEF AsyncInv

-----------------------------------------------------------------------------
(* The scheduler gives up or finishes a request that runs: its counts no    *)
(* longer matter, those of the others stay.                                 *)
LEMMA PreemptStep ==
  ASSUME AsyncRunnerAssumption, AsyncInv, NEW q \in Reqs, Preempt(q)
  PROVE  AsyncInv'
  <1>1. /\ running = Idle
        /\ status' = [status EXCEPT ![q] = "preempted"]
        /\ sched' = [sched EXCEPT ![q] = 0] /\ done' = [done EXCEPT ![q] = 0]
        /\ UNCHANGED <<expected, outputs, batch, cpuComputed, prevDraftLen, prevRow, running,
                       gpuComputed, validCount, prevSampled, drafts, tokens>>
    BY DEF Preempt, CanPlan, runnerVars, gpuVars
  <1>2. /\ status \in [Reqs -> Statuses] /\ sched \in [Reqs -> Int] /\ done \in [Reqs -> Int]
        /\ CountsInv /\ RowsInv /\ SampledInv /\ LastInv
    BY <1>1 DEF AsyncInv, Types, IdleInv
  <1>3. /\ status'[q] = "preempted" /\ sched'[q] = 0 /\ done'[q] = 0
        /\ \A r \in Reqs : r # q =>
             status'[r] = status[r] /\ sched'[r] = sched[r] /\ done'[r] = done[r]
    BY <1>1, <1>2
  <1>4. Types'
    BY <1>1, <1>2 DEF AsyncInv, Types, Statuses
  <1>5. OutputsInv' /\ PrevRowInv' /\ LastInv'
    BY <1>1, <1>2 DEF AsyncInv, OutputsInv, PrevRowInv, LastInv
  <1>6. \A r \in Reqs : /\ Pending(r)' = Pending(r) /\ InFlight(r)' = InFlight(r)
                        /\ Launched(r)' = Launched(r)
    BY <1>1 DEF Pending, InFlight, Launched
  <1>7. CountsInv'
    <2> SUFFICES ASSUME NEW r \in Reqs
                 PROVE  /\ status'[r] = "waiting" => /\ sched'[r] = 0 /\ done'[r] = 0
                                                     /\ prevRow'[r] = None /\ ~InFlight(r)'
                        /\ status'[r] = "preempted" => sched'[r] = 0 /\ done'[r] = 0
                        /\ status'[r] = "running" =>
                             sched'[r] = done'[r] + (Pending(r)' + Launched(r)')
      BY DEF CountsInv
    <2>1. CASE r = q
      BY <1>3, <2>1
    <2>2. CASE r # q
      BY <1>1, <1>2, <1>3, <1>6, <2>2 DEF CountsInv
    <2> QED BY <2>1, <2>2
  <1>8. RowsInv'
    <2>1. \A i \in DOMAIN batch : batch[i] \in Reqs
      BY DEF AsyncInv, Types, IsBatch
    <2> QED BY <1>1, <1>2, <1>3, <2>1 DEF RowsInv
  <1>9. SampledInv'
    BY <1>1, <1>2, <1>3 DEF SampledInv
  <1>10. IdleInv'
    BY <1>5, <1>8, <1>9 DEF IdleInv
  <1>11. LaunchedInv' /\ PositionsExact' /\ CpuAgreesWithGpu' /\ InputsAreOwn'
    BY <1>1 DEF LaunchedInv, PositionsExact, CpuAgreesWithGpu, InputsAreOwn
  <1> QED BY <1>4, <1>5, <1>7, <1>10, <1>11 DEF AsyncInv

(* The same for a request that finishes, also while its step is in flight. *)
LEMMA FinishStep ==
  ASSUME AsyncRunnerAssumption, AsyncInv, NEW q \in Reqs, Finish(q)
  PROVE  AsyncInv'
  <1>1. /\ status' = [status EXCEPT ![q] = "finished"]
        /\ UNCHANGED <<sched, expected, outputs, batch, cpuComputed, prevDraftLen, prevRow,
                       running, gpuComputed, validCount, prevSampled, drafts, done, tokens>>
    BY DEF Finish, runnerVars, gpuVars
  <1>2. status \in [Reqs -> Statuses] /\ \A i \in DOMAIN batch : batch[i] \in Reqs
    BY DEF AsyncInv, Types, IsBatch
  <1>3. /\ status'[q] = "finished"
        /\ \A r \in Reqs : r # q => status'[r] = status[r]
    BY <1>1, <1>2
  <1>4. \A r \in Reqs : status'[r] \in {"waiting", "preempted", "running"} => status'[r] = status[r]
    BY <1>3
  <1>5. Types' /\ OutputsInv' /\ PrevRowInv'
    BY <1>1, <1>2 DEF AsyncInv, Types, Statuses, OutputsInv, PrevRowInv
  <1>6. \A r \in Reqs : /\ Pending(r)' = Pending(r) /\ InFlight(r)' = InFlight(r)
                        /\ Launched(r)' = Launched(r)
    BY <1>1 DEF Pending, InFlight, Launched
  <1>7. CountsInv'
    <2>1. CountsInv
      BY DEF AsyncInv
    <2> QED BY <1>1, <1>4, <1>6, <2>1 DEF CountsInv
  <1>8. IdleInv'
    <2> SUFFICES ASSUME running = Idle PROVE LastInv' /\ RowsInv' /\ SampledInv'
      BY <1>1 DEF IdleInv
    <2>1. LastInv /\ RowsInv /\ SampledInv
      BY DEF AsyncInv, IdleInv
    <2>2. LastInv'
      BY <1>1, <2>1 DEF LastInv
    <2>3. RowsInv'
      BY <1>1, <1>2, <1>4, <2>1 DEF RowsInv
    <2>4. SampledInv'
      BY <1>1, <1>4, <2>1 DEF SampledInv
    <2> QED BY <2>2, <2>3, <2>4
  <1>9. LaunchedInv'
    <2> SUFFICES ASSUME running # Idle
                 PROVE  Len(outputs) <= 1 /\ \A i \in DOMAIN batch : LaunchedRow(i)'
      BY <1>1 DEF LaunchedInv
    <2>1. Len(outputs) <= 1 /\ \A i \in DOMAIN batch : LaunchedRow(i)
      BY DEF AsyncInv, LaunchedInv
    <2>2. ASSUME NEW i \in DOMAIN batch
          PROVE  LaunchedRow(i)'
      <3>1. LaunchedRow(i) /\ batch[i] \in Reqs
        BY <1>2, <2>1
      <3>2. status'[batch[i]] \in {"finished", status[batch[i]]}
        BY <1>3, <3>1
      <3> QED BY <1>1, <3>1, <3>2 DEF LaunchedRow
    <2> QED BY <2>1, <2>2
  <1>10. PositionsExact' /\ CpuAgreesWithGpu' /\ InputsAreOwn'
    BY <1>1 DEF AsyncInv, PositionsExact, CpuAgreesWithGpu, InputsAreOwn
  <1> QED BY <1>5, <1>7, <1>8, <1>9, <1>10 DEF AsyncInv

-----------------------------------------------------------------------------
(* Processing the oldest result moves its rejections from what is pending   *)
(* into the counts.                                                         *)
LEMMA ProcessStep ==
  ASSUME AsyncRunnerAssumption, AsyncInv, ProcessOutput
  PROVE  AsyncInv'
  <1> DEFINE o == Head(outputs)
  <1>1. /\ CanProcess /\ outputs # <<>> /\ outputs' = Tail(outputs)
        /\ UNCHANGED <<status, batch, cpuComputed, prevDraftLen, prevRow, running,
                       gpuComputed, validCount, prevSampled, drafts, done, tokens>>
    BY DEF ProcessOutput, CanProcess, runnerVars, gpuVars
  <1>2. /\ sched' = [r \in Reqs |->
             IF (r \in InBatch(o.batch) /\ status[r] # "finished") /\ status[r] = "running"
             THEN sched[r] - o.rejected[RowIn(o.batch, r)] ELSE sched[r]]
        /\ expected' = [r \in Reqs |->
             IF r \in InBatch(o.batch) /\ status[r] # "finished"
             THEN expected[r] - o.rejected[RowIn(o.batch, r)] ELSE expected[r]]
    BY DEF ProcessOutput, RowIn
  <1>3. /\ OutputsInv'
        /\ Len(outputs') = Len(outputs) - 1 /\ Len(outputs) \in {1, 2} /\ IsOutput(o)
        /\ outputs' # <<>> => outputs'[Len(outputs')] = outputs[Len(outputs)]
        /\ \A r : /\ Pending(r)' = Pending(r) - RejectedOf(o, r)
                  /\ InFlight(r)' => InFlight(r)
                  /\ r \in InBatch(o.batch) => InFlight(r)
    BY <1>1, DequeueOutput DEF AsyncInv
  <1> HIDE DEF o
  <1>4. \A r \in Reqs : /\ RejectedOf(o, r) \in Int /\ Pending(r) \in Int
                        /\ sched[r] \in Int /\ expected[r] \in Int /\ done[r] \in Int
    BY <1>3, RejectedInt, PendingInt DEF AsyncInv, Types
  <1>5. ASSUME NEW r \in Reqs
        PROVE  /\ status[r] = "running" => /\ sched'[r] = sched[r] - RejectedOf(o, r)
                                           /\ expected'[r] = expected[r] - RejectedOf(o, r)
               /\ status[r] # "running" => sched'[r] = sched[r]
               /\ sched'[r] \in Int /\ expected'[r] \in Int
    <2>1. CASE r \in InBatch(o.batch)
      <3>1. RejectedOf(o, r) = o.rejected[RowIn(o.batch, r)]
        BY <2>1 DEF RejectedOf
      <3>2. /\ sched'[r] = IF status[r] = "running" THEN sched[r] - RejectedOf(o, r) ELSE sched[r]
            /\ expected'[r] = IF status[r] # "finished"
                              THEN expected[r] - RejectedOf(o, r) ELSE expected[r]
        BY <1>2, <2>1, <3>1
      <3> QED BY <1>4, <3>2
    <2>2. CASE r \notin InBatch(o.batch)
      <3>1. RejectedOf(o, r) = 0 /\ sched'[r] = sched[r] /\ expected'[r] = expected[r]
        BY <1>2, <2>2 DEF RejectedOf
      <3> QED BY <1>4, <3>1
    <2> QED BY <2>1, <2>2
  <1>6. Types'
    <2>1. sched' \in [Reqs -> Int] /\ expected' \in [Reqs -> Int]
      <3>1. /\ sched' = [r \in Reqs |-> sched'[r]]
            /\ expected' = [r \in Reqs |-> expected'[r]]
        BY <1>2
      <3> QED BY <1>5, <3>1
    <2> QED BY <1>1, <2>1 DEF AsyncInv, Types
  <1>7. PrevRowInv'
    BY <1>1 DEF AsyncInv, PrevRowInv
  <1>8. \A r \in Reqs : Launched(r)' = Launched(r) /\ Launched(r) \in Int
    <2>1. \A r \in Reqs : Launched(r)' = Launched(r)
      BY <1>1 DEF Launched
    <2>2. ASSUME NEW r \in Reqs, running # Idle, r \in InBatch(batch)
          PROVE  running.plan[RowIn(batch, r)].n \in Int
      <3>1. RowIn(batch, r) \in DOMAIN batch
        BY <2>2, RowOfBatch DEF AsyncInv, Types
      <3> QED BY <2>2, <3>1 DEF AsyncInv, LaunchedInv, LaunchedRow
    <2>3. \A r \in Reqs : Launched(r) \in Int
      BY <2>2 DEF Launched
    <2> QED BY <2>1, <2>3
  <1>9. CountsInv'
    <2> SUFFICES ASSUME NEW r \in Reqs
                 PROVE  /\ status'[r] = "waiting" => /\ sched'[r] = 0 /\ done'[r] = 0
                                                     /\ prevRow'[r] = None /\ ~InFlight(r)'
                        /\ status'[r] = "preempted" => sched'[r] = 0 /\ done'[r] = 0
                        /\ status'[r] = "running" =>
                             sched'[r] = done'[r] + (Pending(r)' + Launched(r)')
      BY DEF CountsInv
    <2>1. /\ status[r] = "waiting" => /\ sched[r] = 0 /\ done[r] = 0
                                      /\ prevRow[r] = None /\ ~InFlight(r)
          /\ status[r] = "preempted" => sched[r] = 0 /\ done[r] = 0
          /\ status[r] = "running" => sched[r] = done[r] + (Pending(r) + Launched(r))
      BY DEF AsyncInv, CountsInv
    <2>2. CASE status[r] = "running"
      <3>1. /\ sched'[r] = sched[r] - RejectedOf(o, r)
            /\ Pending(r)' = Pending(r) - RejectedOf(o, r)
            /\ Launched(r)' = Launched(r) /\ Launched(r) \in Int
            /\ sched[r] = done[r] + (Pending(r) + Launched(r))
        BY <1>3, <1>5, <1>8, <2>1, <2>2
      <3>2. /\ RejectedOf(o, r) \in Int /\ Pending(r) \in Int
            /\ sched[r] \in Int /\ done[r] \in Int
        BY <1>4
      <3>3. sched'[r] = done[r] + (Pending(r)' + Launched(r)')
        BY <3>1, <3>2
      <3> QED BY <1>1, <2>2, <3>3
    <2>3. CASE status[r] # "running"
      BY <1>1, <1>3, <1>5, <2>1, <2>3
    <2> QED BY <2>2, <2>3
  <1>10. IdleInv'
    <2> SUFFICES ASSUME running = Idle PROVE LastInv' /\ RowsInv' /\ SampledInv'
      BY <1>1 DEF IdleInv
    <2>1. LastInv /\ RowsInv /\ SampledInv
      BY DEF AsyncInv, IdleInv
    <2>2. Len(outputs') = 1
      BY <1>1, <1>3 DEF CanProcess
    <2>3. outputs' # <<>>
      BY <2>2
    <2>4. LastInv'
      BY <1>1, <1>3, <2>1, <2>3 DEF LastInv
    <2>5. RowsInv'
      BY <1>1, <2>1 DEF RowsInv
    <2>6. SampledInv'
      <3> SUFFICES ASSUME NEW r \in Reqs, status[r] = "running", prevRow[r] # None
                   PROVE  /\ expected'[r] = sched'[r] + 1
                          /\ prevSampled[prevRow[r]] = <<r, done[r]>>
                          /\ drafts[prevRow[r]] \in {r, None}
        BY <1>1 DEF SampledInv
      <3>1. /\ expected[r] = sched[r] + 1
            /\ prevSampled[prevRow[r]] = <<r, done[r]>>
            /\ drafts[prevRow[r]] \in {r, None}
        BY <2>1 DEF SampledInv
      <3>2. expected'[r] = sched'[r] + 1
        BY <1>4, <1>5, <3>1
      <3> QED BY <3>1, <3>2
    <2> QED BY <2>4, <2>5, <2>6
  <1>11. LaunchedInv'
    <2> SUFFICES ASSUME running # Idle
                 PROVE  Len(outputs') <= 1 /\ \A i \in DOMAIN batch : LaunchedRow(i)'
      BY <1>1 DEF LaunchedInv
    <2>1. Len(outputs') <= 1
      BY <1>3
    <2>2. ASSUME NEW i \in DOMAIN batch
          PROVE  LaunchedRow(i)'
      <3>1. LaunchedRow(i) /\ batch[i] \in Reqs
        BY DEF AsyncInv, LaunchedInv, Types, IsBatch
      <3>2. status[batch[i]] = "running" /\ expected[batch[i]] = sched[batch[i]] + 1
              => expected'[batch[i]] = sched'[batch[i]] + 1
        BY <1>4, <1>5, <3>1
      <3> QED BY <1>1, <3>1, <3>2 DEF LaunchedRow
    <2> QED BY <2>1, <2>2
  <1>12. PositionsExact' /\ CpuAgreesWithGpu' /\ InputsAreOwn'
    BY <1>1 DEF AsyncInv, PositionsExact, CpuAgreesWithGpu, InputsAreOwn
  <1> QED BY <1>3, <1>6, <1>7, <1>9, <1>10, <1>11, <1>12 DEF AsyncInv

-----------------------------------------------------------------------------
(* What sampling does to a request of the batch, row by row, and to any     *)
(* other request.                                                           *)
LEMMA SampleEffect ==
  ASSUME AsyncRunnerAssumption, AsyncInv, running # Idle, NEW a \in Accepts, NEW fits \in BOOLEAN,
         SampleTokens(a, fits)
  PROVE  /\ \A i \in DOMAIN batch :
              LET r == batch[i]
                  p == running.plan[i]
              IN  /\ a[i] \in Int /\ 0 <= a[i] /\ a[i] <= p.d
                  /\ validCount'[i] = IF running.samples[i] THEN 1 + a[i] ELSE 0
                  /\ prevSampled'[i] = <<r, done'[r]>>
                  /\ drafts'[i] \in {r, None}
                  /\ prevRow'[r] = IF running.samples[i] THEN i ELSE None
                  /\ done'[r] = gpuComputed[i] + p.n - p.d + a[i]
         /\ \A r \in Reqs : r \notin InBatch(batch) => prevRow'[r] = None /\ done'[r] = done[r]
         /\ \A i \in Rows : i \notin DOMAIN batch => validCount'[i] = validCount[i]
         /\ DOMAIN validCount' = Rows /\ DOMAIN done' = Reqs /\ DOMAIN prevRow' = Reqs
         /\ validCount' = [i \in Rows |-> validCount'[i]]
         /\ done' = [r \in Reqs |-> done'[r]]
         /\ prevRow' = [r \in Reqs |-> prevRow'[r]]
  <1> DEFINE plan == running.plan
             new == [i \in DOMAIN batch |-> IF running.samples[i] THEN 1 + a[i] ELSE 0]
             sampled == [i \in DOMAIN batch |->
                           <<batch[i], gpuComputed[i] + plan[i].n - plan[i].d + a[i]>>]
             drafted == [i \in DOMAIN batch |-> IF fits THEN batch[i] ELSE None]
  <1>1. /\ validCount' = [i \in Rows |-> IF i \in DOMAIN batch THEN new[i] ELSE validCount[i]]
        /\ prevSampled' = [i \in Rows |-> IF i \in DOMAIN batch THEN sampled[i] ELSE prevSampled[i]]
        /\ drafts' = [i \in Rows |-> IF i \in DOMAIN batch THEN drafted[i] ELSE drafts[i]]
        /\ prevRow' = PrevRows
        /\ done' = [r \in Reqs |->
             IF r \in InBatch(batch)
             THEN gpuComputed[RowIn(batch, r)] + plan[RowIn(batch, r)].n
                    - plan[RowIn(batch, r)].d + a[RowIn(batch, r)]
             ELSE done[r]]
    BY DEF SampleTokens, RowIn
  <1>2. /\ IsBatch(batch) /\ DOMAIN batch \subseteq Rows
        /\ \A i \in DOMAIN batch : /\ batch[i] \in Reqs /\ batch[i] \in InBatch(batch)
                                   /\ RowIn(batch, batch[i]) = i
    BY RowOfBatch DEF AsyncInv, Types, IsBatch
  <1>3. \A i \in DOMAIN batch : a[i] \in Int /\ 0 <= a[i] /\ a[i] <= plan[i].d
    BY DEF Accepts, AsyncRunnerAssumption
  <1>4. ASSUME NEW i \in DOMAIN batch
        PROVE  /\ validCount'[i] = IF running.samples[i] THEN 1 + a[i] ELSE 0
               /\ done'[batch[i]] = gpuComputed[i] + plan[i].n - plan[i].d + a[i]
               /\ prevSampled'[i] = <<batch[i], done'[batch[i]]>>
               /\ drafts'[i] \in {batch[i], None}
    <2>1. i \in Rows /\ batch[i] \in Reqs /\ batch[i] \in InBatch(batch) /\ RowIn(batch, batch[i]) = i
      BY <1>2
    <2>2. done'[batch[i]] = gpuComputed[i] + plan[i].n - plan[i].d + a[i]
      BY <1>1, <2>1
    <2>3. prevSampled'[i] = <<batch[i], gpuComputed[i] + plan[i].n - plan[i].d + a[i]>>
      BY <1>1, <2>1
    <2>4. validCount'[i] = IF running.samples[i] THEN 1 + a[i] ELSE 0
      BY <1>1, <2>1
    <2>5. drafts'[i] \in {batch[i], None}
      BY <1>1, <2>1
    <2> QED BY <2>2, <2>3, <2>4, <2>5
  <1>5. ASSUME NEW i \in DOMAIN batch
        PROVE  prevRow'[batch[i]] = IF running.samples[i] THEN i ELSE None
    <2>1. /\ batch[i] \in Reqs
          /\ \A j \in DOMAIN batch : batch[j] = batch[i] => j = i
      BY <1>2 DEF IsBatch
    <2>2. (CHOOSE j \in DOMAIN batch : batch[j] = batch[i]) = i
      BY <1>2 DEF RowIn
    <2> QED BY <1>1, <2>1, <2>2 DEF PrevRows
  <1>6. ASSUME NEW r \in Reqs, r \notin InBatch(batch)
        PROVE  prevRow'[r] = None /\ done'[r] = done[r]
    BY <1>1, <1>6 DEF PrevRows, InBatch
  <1>7. \A i \in Rows : i \notin DOMAIN batch => validCount'[i] = validCount[i]
    BY <1>1
  <1>8. /\ validCount' = [i \in Rows |-> validCount'[i]]
        /\ done' = [r \in Reqs |-> done'[r]]
        /\ prevRow' = [r \in Reqs |-> prevRow'[r]]
    <2>1. prevRow' = [r \in Reqs |-> prevRow'[r]]
      BY <1>1 DEF PrevRows
    <2> QED BY <1>1, <2>1
  <1> QED BY <1>3, <1>4, <1>5, <1>6, <1>7, <1>8

(* The result of a sampled step.                                            *)
ResultOf(a) ==
  [batch |-> batch, rejected |-> [i \in DOMAIN batch |-> running.plan[i].d - a[i]]]

(* It rejects of each row what was drafted for it and not accepted.        *)
LEMMA SampleResult ==
  ASSUME AsyncRunnerAssumption, AsyncInv, running # Idle, NEW a \in Accepts
  PROVE  /\ ResultOf(a) \in [batch : Columns(Reqs), rejected : Columns(Int)]
         /\ IsOutput(ResultOf(a)) /\ ResultOf(a).batch = batch
         /\ \A i \in DOMAIN batch :
              /\ ResultOf(a).rejected[i] = running.plan[i].d - a[i]
              /\ RejectedOf(ResultOf(a), batch[i]) = running.plan[i].d - a[i]
         /\ \A r : r \notin InBatch(batch) => RejectedOf(ResultOf(a), r) = 0
  <1> DEFINE rejected == [i \in DOMAIN batch |-> running.plan[i].d - a[i]]
  <1>1. ResultOf(a).batch = batch /\ ResultOf(a).rejected = rejected
    BY DEF ResultOf
  <1>2. \A i \in DOMAIN batch : rejected[i] \in Int
    <2>1. \A i \in DOMAIN batch : running.plan[i].d \in Int /\ a[i] \in Int
      BY DEF AsyncInv, LaunchedInv, LaunchedRow, Accepts, AsyncRunnerAssumption
    <2> QED BY <2>1
  <1>3. batch \in Columns(Reqs) /\ IsBatch(batch)
    BY DEF AsyncInv, Types
  <1>4. rejected \in Columns(Int)
    <2>1. PICK n \in 0 .. MaxRows : batch \in [1 .. n -> Reqs]
      BY <1>3 DEF Columns
    <2>2. rejected \in [1 .. n -> Int]
      BY <1>2, <2>1
    <2> QED BY <2>2 DEF Columns
  <1>5. /\ IsOutput(ResultOf(a))
        /\ ResultOf(a) \in [batch : Columns(Reqs), rejected : Columns(Int)]
    <2>1. IsOutput(ResultOf(a))
      BY <1>1, <1>2, <1>3 DEF IsOutput
    <2>2. ResultOf(a) \in [batch : Columns(Reqs), rejected : Columns(Int)]
      BY <1>3, <1>4 DEF ResultOf
    <2> QED BY <2>1, <2>2
  <1>6. \A i \in DOMAIN batch : /\ rejected[i] = running.plan[i].d - a[i]
                                /\ RowIn(batch, batch[i]) = i /\ batch[i] \in InBatch(batch)
    BY <1>3, RowOfBatch
  <1> HIDE DEF rejected
  <1>7. \A r : RejectedOf(ResultOf(a), r) =
                 IF r \in InBatch(batch) THEN rejected[RowIn(batch, r)] ELSE 0
    BY <1>1 DEF RejectedOf
  <1> QED BY <1>1, <1>5, <1>6, <1>7

(* Sampling turns the step in flight into a result in flight.               *)
LEMMA SampleStep ==
  ASSUME AsyncRunnerAssumption, AsyncInv, running # Idle, NEW a \in Accepts, NEW fits \in BOOLEAN,
         SampleTokens(a, fits)
  PROVE  AsyncInv'
  <1>1. /\ outputs' = Append(outputs, ResultOf(a)) /\ running' = Idle
        /\ UNCHANGED <<status, sched, expected, batch, cpuComputed, prevDraftLen, gpuComputed>>
    BY DEF SampleTokens, ResultOf
  <1>2. PICK o : o = ResultOf(a)
    OBVIOUS
  <1>3. /\ o \in [batch : Columns(Reqs), rejected : Columns(Int)]
        /\ IsOutput(o) /\ o.batch = batch
        /\ \A i \in DOMAIN batch :
             /\ o.rejected[i] = running.plan[i].d - a[i]
             /\ RejectedOf(o, batch[i]) = running.plan[i].d - a[i]
        /\ \A r : r \notin InBatch(batch) => RejectedOf(o, r) = 0
    BY <1>2, SampleResult
  <1>4. /\ OutputsInv' /\ Len(outputs') = Len(outputs) + 1 /\ outputs' # <<>>
        /\ outputs'[Len(outputs')] = o
        /\ \A r : /\ Pending(r)' = Pending(r) + RejectedOf(o, r)
                  /\ InFlight(r)' => InFlight(r) \/ r \in InBatch(batch)
    <2>1. OutputsInv /\ Len(outputs) <= 1 /\ outputs' = Append(outputs, o)
      BY <1>1, <1>2 DEF AsyncInv, LaunchedInv
    <2> QED BY <1>3, <2>1, QueueOutput
  <1>5. /\ \A i \in DOMAIN batch :
             LET r == batch[i]
                 p == running.plan[i]
             IN  /\ a[i] \in Int /\ 0 <= a[i] /\ a[i] <= p.d
                 /\ validCount'[i] = IF running.samples[i] THEN 1 + a[i] ELSE 0
                 /\ prevSampled'[i] = <<r, done'[r]>>
                 /\ drafts'[i] \in {r, None}
                 /\ prevRow'[r] = IF running.samples[i] THEN i ELSE None
                 /\ done'[r] = gpuComputed[i] + p.n - p.d + a[i]
        /\ \A r \in Reqs : r \notin InBatch(batch) => prevRow'[r] = None /\ done'[r] = done[r]
        /\ \A i \in Rows : i \notin DOMAIN batch => validCount'[i] = validCount[i]
        /\ validCount' = [i \in Rows |-> validCount'[i]]
        /\ done' = [r \in Reqs |-> done'[r]]
        /\ prevRow' = [r \in Reqs |-> prevRow'[r]]
    BY SampleEffect
  <1>6. /\ \A i \in DOMAIN batch : batch[i] \in Reqs /\ i \in Rows /\ batch[i] \in InBatch(batch)
        /\ \A i \in DOMAIN batch : RowIn(batch, batch[i]) = i
        /\ None \notin Rows
    <2>1. IsBatch(batch)
      BY DEF AsyncInv, Types
    <2>2. None \notin Rows
      BY DEF AsyncRunnerAssumption, Rows
    <2>3. \A i \in DOMAIN batch : batch[i] \in Reqs /\ i \in Rows
      BY <2>1 DEF IsBatch
    <2> QED BY <2>1, <2>2, <2>3, RowOfBatch
  <1>7. /\ \A r \in Reqs : sched[r] \in Int /\ expected[r] \in Int /\ done[r] \in Int
        /\ \A r \in Reqs : Pending(r) \in Int
        /\ \A i \in Rows : gpuComputed[i] \in Int /\ validCount[i] \in Int
    BY PendingInt DEF AsyncInv, Types
  <1>8. ASSUME NEW i \in DOMAIN batch
        PROVE  /\ running.plan[i].n \in Int /\ running.plan[i].d \in Nat
               /\ prevDraftLen[batch[i]] = running.plan[i].d
               /\ running.plan[i].d > 0 =>
                    running.samples[i] /\ running.plan[i].n = running.plan[i].d + 1
               /\ status[batch[i]] \in {"running", "finished"}
               /\ status[batch[i]] = "running" /\ running.samples[i] =>
                    expected[batch[i]] = sched[batch[i]] + 1
               /\ gpuComputed[i] = done[batch[i]]
    <2>1. LaunchedRow(i) /\ PositionsExact
      BY DEF AsyncInv, LaunchedInv
    <2> QED BY <2>1 DEF LaunchedRow, PositionsExact
  <1>9. Types'
    <2>1. \A i \in Rows : validCount'[i] \in Int
      BY <1>5, <1>7
    <2>2. \A r \in Reqs : done'[r] \in Int /\ prevRow'[r] \in Rows \cup {None}
      <3> SUFFICES ASSUME NEW r \in Reqs
                   PROVE  done'[r] \in Int /\ prevRow'[r] \in Rows \cup {None}
        OBVIOUS
      <3>1. CASE r \in InBatch(batch)
        <4>1. PICK i \in DOMAIN batch : batch[i] = r
          BY <3>1 DEF InBatch
        <4>2. prevRow'[r] \in {i, None} /\ done'[r] = gpuComputed[i] + running.plan[i].n - running.plan[i].d + a[i]
          BY <1>5, <4>1
        <4>3. done'[r] \in Int
          BY <1>5, <1>6, <1>7, <1>8, <4>2
        <4> QED BY <1>6, <4>2, <4>3
      <3>2. CASE r \notin InBatch(batch)
        BY <1>5, <1>7, <3>2
      <3> QED BY <3>1, <3>2
    <2>3. /\ validCount' \in [Rows -> Int] /\ done' \in [Reqs -> Int]
          /\ prevRow' \in [Reqs -> Rows \cup {None}]
      BY <1>5, <2>1, <2>2
    <2> QED BY <1>1, <2>3 DEF AsyncInv, Types
  <1>10. PrevRowInv'
    <2> SUFFICES ASSUME NEW r \in Reqs, NEW s \in Reqs, prevRow'[r] = prevRow'[s], prevRow'[r] # None
                 PROVE  r = s
      BY DEF PrevRowInv
    <2>1. r \in InBatch(batch) /\ s \in InBatch(batch)
      BY <1>5
    <2>2. PICK i \in DOMAIN batch, j \in DOMAIN batch : batch[i] = r /\ batch[j] = s
      BY <2>1 DEF InBatch
    <2>3. prevRow'[r] = i /\ prevRow'[s] = j
      BY <1>5, <2>2
    <2> QED BY <2>2, <2>3
  <1>11. ASSUME NEW i \in DOMAIN batch, status[batch[i]] = "running"
         PROVE  sched[batch[i]] = done'[batch[i]] + (Pending(batch[i]) + (running.plan[i].d - a[i]))
    <2> DEFINE r == batch[i]
    <2>1. Launched(r) = running.plan[i].n
      BY <1>6 DEF Launched
    <2>2. sched[r] = done[r] + (Pending(r) + Launched(r))
      BY <1>6, <1>11 DEF AsyncInv, CountsInv
    <2>3. done'[r] = gpuComputed[i] + running.plan[i].n - running.plan[i].d + a[i]
      BY <1>5
    <2>4. /\ running.plan[i].n \in Int /\ running.plan[i].d \in Int /\ a[i] \in Int
          /\ gpuComputed[i] = done[r] /\ done[r] \in Int /\ Pending(r) \in Int
      BY <1>5, <1>6, <1>7, <1>8
    <2> HIDE DEF r
    <2>5. sched[r] = done'[r] + (Pending(r) + (running.plan[i].d - a[i]))
      BY <2>1, <2>2, <2>3, <2>4
    <2> QED BY <2>5 DEF r
  <1>12. CountsInv'
    <2> SUFFICES ASSUME NEW r \in Reqs
                 PROVE  /\ status'[r] = "waiting" => /\ sched'[r] = 0 /\ done'[r] = 0
                                                     /\ prevRow'[r] = None /\ ~InFlight(r)'
                        /\ status'[r] = "preempted" => sched'[r] = 0 /\ done'[r] = 0
                        /\ status'[r] = "running" =>
                             sched'[r] = done'[r] + (Pending(r)' + Launched(r)')
      BY DEF CountsInv
    <2>1. Launched(r)' = 0
      BY <1>1 DEF Launched
    <2>2. CASE r \in InBatch(batch)
      <3>1. PICK i \in DOMAIN batch : batch[i] = r
        BY <2>2 DEF InBatch
      <3>2. status[r] \in {"running", "finished"}
        BY <1>8, <3>1
      <3>3. Pending(r)' = Pending(r) + (running.plan[i].d - a[i])
        BY <1>3, <1>4, <3>1
      <3>4. status[r] = "running" => sched[r] = done'[r] + (Pending(r) + (running.plan[i].d - a[i]))
        BY <1>11, <3>1
      <3>5. Pending(r)' \in Int
        BY <1>3, <1>4, RejectedInt, <1>7
      <3>6. status[r] = "running" => sched[r] = done'[r] + (Pending(r)' + 0)
        BY <3>3, <3>4, <3>5
      <3> QED BY <1>1, <2>1, <3>2, <3>6
    <2>3. CASE r \notin InBatch(batch)
      <3>1. Launched(r) = 0
        BY <2>3 DEF Launched
      <3>2. Pending(r)' = Pending(r) /\ (InFlight(r)' => InFlight(r))
        BY <1>3, <1>4, <1>7, <2>3
      <3>3. prevRow'[r] = None /\ done'[r] = done[r]
        BY <1>5, <2>3
      <3>4. /\ status[r] = "waiting" => /\ sched[r] = 0 /\ done[r] = 0 /\ ~InFlight(r)
            /\ status[r] = "preempted" => sched[r] = 0 /\ done[r] = 0
            /\ status[r] = "running" => sched[r] = done[r] + (Pending(r) + Launched(r))
        BY DEF AsyncInv, CountsInv
      <3> QED BY <1>1, <2>1, <3>1, <3>2, <3>3, <3>4
    <2> QED BY <2>2, <2>3
  <1>13. LastInv'
    <2>1. \A i \in DOMAIN batch : o.rejected[i] =
            IF prevDraftLen[batch[i]] = 0 THEN 0
            ELSE prevDraftLen[batch[i]] - (validCount'[i] - 1)
      <3> SUFFICES ASSUME NEW i \in DOMAIN batch
                   PROVE  o.rejected[i] = IF prevDraftLen[batch[i]] = 0 THEN 0
                                          ELSE prevDraftLen[batch[i]] - (validCount'[i] - 1)
        OBVIOUS
      <3>1. /\ o.rejected[i] = running.plan[i].d - a[i]
            /\ prevDraftLen[batch[i]] = running.plan[i].d /\ running.plan[i].d \in Nat
            /\ a[i] \in Int /\ 0 <= a[i] /\ a[i] <= running.plan[i].d
            /\ running.plan[i].d > 0 => validCount'[i] = 1 + a[i]
        BY <1>3, <1>5, <1>8
      <3> QED BY <3>1
    <2> QED BY <1>1, <1>3, <1>4, <2>1 DEF LastInv
  <1>14. RowsInv'
    <2> SUFFICES ASSUME NEW i \in DOMAIN batch, prevDraftLen[batch[i]] > 0
                 PROVE  prevRow'[batch[i]] = i /\ gpuComputed[i] + validCount'[i] = done'[batch[i]]
      BY <1>1 DEF RowsInv
    <2>1. running.samples[i] /\ running.plan[i].n = running.plan[i].d + 1
      BY <1>8
    <2>2. /\ prevRow'[batch[i]] = i /\ validCount'[i] = 1 + a[i]
          /\ done'[batch[i]] = gpuComputed[i] + running.plan[i].n - running.plan[i].d + a[i]
          /\ a[i] \in Int /\ running.plan[i].d \in Int /\ gpuComputed[i] \in Int
      BY <1>5, <1>6, <1>7, <1>8, <2>1
    <2> QED BY <2>1, <2>2
  <1>15. SampledInv'
    <2> SUFFICES ASSUME NEW r \in Reqs, status[r] = "running", prevRow'[r] # None
                 PROVE  /\ expected[r] = sched[r] + 1
                        /\ prevSampled'[prevRow'[r]] = <<r, done'[r]>>
                        /\ drafts'[prevRow'[r]] \in {r, None}
      BY <1>1 DEF SampledInv
    <2>1. PICK i \in DOMAIN batch : batch[i] = r
      BY <1>5 DEF InBatch
    <2>2. running.samples[i] /\ prevRow'[r] = i
      BY <1>5, <2>1
    <2>3. expected[r] = sched[r] + 1
      BY <1>8, <2>1, <2>2
    <2>4. prevSampled'[i] = <<batch[i], done'[batch[i]]>> /\ drafts'[i] \in {batch[i], None}
      BY <1>5
    <2> QED BY <2>1, <2>2, <2>3, <2>4
  <1>16. IdleInv'
    BY <1>13, <1>14, <1>15 DEF IdleInv
  <1>17. LaunchedInv' /\ PositionsExact' /\ CpuAgreesWithGpu' /\ InputsAreOwn'
    BY <1>1 DEF LaunchedInv, PositionsExact, CpuAgreesWithGpu, InputsAreOwn
  <1> QED BY <1>4, <1>9, <1>10, <1>12, <1>16, <1>17 DEF AsyncInv

-----------------------------------------------------------------------------
(* The invariant holds of every behaviour of the runner.                    *)
LEMMA AsyncInvStep ==
  ASSUME AsyncRunnerAssumption, AsyncInv, [Next]_vars
  PROVE  AsyncInv'
  <1>1. CASE \E b \in Batches : \E plan \in Plans(b) : Execute(b, plan)
    BY <1>1, LaunchStep
  <1>2. CASE ExecuteEmpty
    BY <1>2, EmptyStep
  <1>3. CASE running # Idle /\ \E a \in Accepts : \E fits \in BOOLEAN : SampleTokens(a, fits)
    BY <1>3, SampleStep
  <1>4. CASE ProcessOutput
    BY <1>4, ProcessStep
  <1>5. CASE \E r \in Reqs : Preempt(r) \/ Finish(r)
    BY <1>5, PreemptStep, FinishStep
  <1>6. CASE UNCHANGED vars
    <2>1. UNCHANGED <<status, sched, expected, outputs, batch, cpuComputed, prevDraftLen, prevRow,
                      running, gpuComputed, validCount, prevSampled, drafts, done, tokens>>
      BY <1>6 DEF vars, schedVars, runnerVars, gpuVars
    <2>2. Types' /\ OutputsInv' /\ PrevRowInv'
      BY <2>1 DEF AsyncInv, Types, OutputsInv, PrevRowInv
    <2>3. CountsInv'
      BY <2>1 DEF AsyncInv, CountsInv, Pending, Launched, InFlight
    <2>4. IdleInv'
      BY <2>1 DEF AsyncInv, IdleInv, LastInv, RowsInv, SampledInv
    <2>5. LaunchedInv' /\ PositionsExact' /\ CpuAgreesWithGpu' /\ InputsAreOwn'
      BY <2>1 DEF AsyncInv, LaunchedInv, LaunchedRow, PositionsExact, CpuAgreesWithGpu, InputsAreOwn
    <2> QED BY <2>2, <2>3, <2>4, <2>5 DEF AsyncInv
  <1> QED BY <1>1, <1>2, <1>3, <1>4, <1>5, <1>6 DEF Next

(* So the runner and the scheduler are never further apart than that.      *)
THEOREM AsyncInvAlways == Spec => []AsyncInv
  <1>1. Init => AsyncInv
    BY AsyncInvInit, AsyncRunnerAssumption
  <1>2. AsyncInv /\ [Next]_vars => AsyncInv'
    BY AsyncInvStep, AsyncRunnerAssumption
  <1> QED BY <1>1, <1>2, PTL DEF Spec

(* Every launched row computes the positions that follow its request's      *)
(* accepted ones, however the rows moved and whatever was rejected          *)
(* meanwhile (_prepare_inputs, update_num_computed_tokens_for_batch_change).*)
THEOREM PositionsAlwaysExact == Spec => []PositionsExact
  <1>1. AsyncInv => PositionsExact
    BY DEF AsyncInv
  <1> QED BY <1>1, AsyncInvAlways, PTL

(* Once a launch returns, the counts the CPU corrected from the copied      *)
(* accepted lengths are the ones the GPU computed with (_update_states).    *)
THEOREM CpuAlwaysAgrees == Spec => []CpuAgreesWithGpu
  <1>1. AsyncInv => CpuAgreesWithGpu
    BY DEF AsyncInv
  <1> QED BY <1>1, AsyncInvAlways, PTL

(* The last token and the drafts a row is launched with are those of its    *)
(* own request, at its own position (_prepare_input_ids).                   *)
THEOREM InputsAlwaysOwn == Spec => []InputsAreOwn
  <1>1. AsyncInv => InputsAreOwn
    BY DEF AsyncInv
  <1> QED BY <1>1, AsyncInvAlways, PTL
-----------------------------------------------------------------------------
(* Bounds.  The tokens a step in flight may add to those of r.              *)
Granted(r) ==
  IF running # Idle /\ r \in InBatch(batch) /\ running.samples[RowIn(batch, r)]
  THEN 1 + running.plan[RowIn(batch, r)].d ELSE 0

Lengths == 0 .. MaxModelLen

ShapesInv ==
  /\ \A k \in DOMAIN outputs : \A i \in DOMAIN outputs[k].batch : outputs[k].rejected[i] >= 0
  /\ cpuComputed \in [Reqs -> Lengths] /\ gpuComputed \in [Rows -> Lengths]
  /\ prevDraftLen \in [Reqs -> 0 .. SpecTokens] /\ validCount \in [Rows -> 0 .. SpecTokens + 1]
  /\ prevSampled \in [Rows -> Token \cup {None}] /\ drafts \in [Rows -> Reqs \cup {None}]
  /\ tokens \in [Reqs -> Int]
  /\ running # Idle => \A i \in DOMAIN batch : running.plan[i].n >= 1

(* The scheduler expects of a request what it has and what its results and  *)
(* its step in flight may bring, of a finished one no less; and never more  *)
(* than the model can hold, nor less than it counts as computed.            *)
Within(r) ==
  /\ 0 <= done[r] /\ done[r] + Launched(r) <= sched[r]
  /\ sched[r] <= expected[r] /\ expected[r] <= MaxModelLen
  /\ tokens[r] >= 1 /\ tokens[r] + Granted(r) <= expected[r]
  /\ status[r] # "finished" => expected[r] = tokens[r] + (Pending(r) + Granted(r))

BoundsInv == ShapesInv /\ \A r \in Reqs : Within(r)

(* Rejections are not negative, nor is what is pending.                     *)
LEMMA PendingNat ==
  ASSUME OutputsInv, ShapesInv, NEW r
  PROVE  Pending(r) \in Int /\ Pending(r) >= 0
         /\ \A k \in DOMAIN outputs : RejectedOf(outputs[k], r) \in Int /\ RejectedOf(outputs[k], r) >= 0
  <1>1. Len(outputs) \in Nat /\ DOMAIN outputs = 1 .. Len(outputs) /\ Len(outputs) <= 2
    BY DEF OutputsInv
  <1>2. ASSUME NEW k \in DOMAIN outputs
        PROVE  RejectedOf(outputs[k], r) \in Int /\ RejectedOf(outputs[k], r) >= 0
    <2>1. IsOutput(outputs[k])
      BY DEF OutputsInv
    <2>2. \A q \in InBatch(outputs[k].batch) : RowIn(outputs[k].batch, q) \in DOMAIN outputs[k].batch
      BY <2>1, RowOfBatch DEF IsOutput
    <2>3. RejectedOf(outputs[k], r) \in Int
      BY <2>1, RejectedInt
    <2>4. CASE r \in InBatch(outputs[k].batch)
      <3>1. RejectedOf(outputs[k], r) = outputs[k].rejected[RowIn(outputs[k].batch, r)]
        BY <2>4 DEF RejectedOf
      <3>2. outputs[k].rejected[RowIn(outputs[k].batch, r)] >= 0
        BY <2>2, <2>4 DEF ShapesInv
      <3> QED BY <2>3, <3>1, <3>2
    <2>5. CASE r \notin InBatch(outputs[k].batch)
      BY <2>5 DEF RejectedOf
    <2> QED BY <2>3, <2>4, <2>5
  <1>3. CASE Len(outputs) = 0
    BY <1>1, <1>2, <1>3 DEF Pending, PendingOf
  <1>4. CASE Len(outputs) = 1
    BY <1>1, <1>2, <1>4 DEF Pending, PendingOf
  <1>5. CASE Len(outputs) = 2
    <2>1. Pending(r) = RejectedOf(outputs[1], r) + RejectedOf(outputs[2], r)
      BY <1>5 DEF Pending, PendingOf
    <2> QED BY <1>1, <1>2, <1>5, <2>1
  <1> QED BY <1>1, <1>2, <1>3, <1>4, <1>5

(* The counts are numbers.                                                  *)
LEMMA CountsInt ==
  ASSUME AsyncRunnerAssumption, AsyncInv, ShapesInv, NEW r \in Reqs
  PROVE  /\ sched[r] \in Int /\ expected[r] \in Int /\ done[r] \in Int /\ tokens[r] \in Int
         /\ Launched(r) \in Int /\ Launched(r) >= 0 /\ Granted(r) \in Int /\ Granted(r) >= 0
         /\ MaxModelLen \in Nat /\ SpecTokens \in Nat
  <1>1. /\ sched[r] \in Int /\ expected[r] \in Int /\ done[r] \in Int /\ tokens[r] \in Int
        /\ MaxModelLen \in Nat /\ SpecTokens \in Nat
    BY DEF AsyncInv, Types, ShapesInv, AsyncRunnerAssumption
  <1>2. ASSUME running # Idle, r \in InBatch(batch)
        PROVE  /\ running.plan[RowIn(batch, r)].n \in Int /\ running.plan[RowIn(batch, r)].n >= 1
               /\ running.plan[RowIn(batch, r)].d \in Nat
    <2>1. RowIn(batch, r) \in DOMAIN batch
      BY <1>2, RowOfBatch DEF AsyncInv, Types
    <2> QED BY <1>2, <2>1 DEF AsyncInv, LaunchedInv, LaunchedRow, ShapesInv
  <1>3. Launched(r) \in Int /\ Launched(r) >= 0
    BY <1>2 DEF Launched
  <1>4. Granted(r) \in Int /\ Granted(r) >= 0
    BY <1>2 DEF Granted
  <1> QED BY <1>1, <1>3, <1>4

(* A launch counts what it computes, and expects the most it can bring.     *)
LEMMA LaunchBounds ==
  ASSUME AsyncRunnerAssumption, AsyncInv, AsyncInv', BoundsInv,
         NEW b \in Batches, NEW plan \in Plans(b), Execute(b, plan)
  PROVE  BoundsInv'
  <1>1. CanPlan /\ UNCHANGED <<outputs, prevRow, validCount, prevSampled, drafts, done, tokens>>
    BY DEF Execute
  <1>2. /\ running' # Idle /\ batch' = b /\ running'.plan = plan
        /\ DOMAIN plan = DOMAIN b
        /\ \A i \in DOMAIN b : /\ plan[i] \in Chunks(b[i]) \cup Decodes(b[i])
                               /\ running'.samples[i] = Samples(b[i], plan[i])
    BY LaunchRuns
  <1>3. /\ \A i \in DOMAIN b :
              /\ status'[b[i]] = "running"
              /\ prevDraftLen'[b[i]] = plan[i].d
              /\ sched'[b[i]] = sched[b[i]] + plan[i].n
              /\ expected'[b[i]] = IF Samples(b[i], plan[i])
                                   THEN expected[b[i]] + 1 + plan[i].d ELSE expected[b[i]]
              /\ cpuComputed'[b[i]] = done[b[i]]
              /\ gpuComputed'[i] = done[b[i]]
        /\ \A r \in Reqs : r \notin InBatch(b) =>
              /\ status'[r] = status[r]
              /\ prevDraftLen'[r] = prevDraftLen[r]
              /\ sched'[r] = sched[r]
              /\ expected'[r] = expected[r]
    BY LaunchEffect
  <1>4. /\ IsBatch(b) /\ \A i \in DOMAIN b : Eligible(b[i])
        /\ \A i \in DOMAIN b : b[i] \in Reqs /\ b[i] \in InBatch(b) /\ RowIn(b, b[i]) = i
        /\ \A r \in InBatch(b) : RowIn(b, r) \in DOMAIN b /\ b[RowIn(b, r)] = r
    BY BatchShape, RowOfBatch DEF IsBatch
  <1>5. ASSUME NEW i \in DOMAIN b
        PROVE  /\ plan[i].n \in Int /\ plan[i].n >= 1 /\ plan[i].d \in 0 .. SpecTokens
               /\ expected[b[i]] + plan[i].d < MaxModelLen
               /\ \/ plan[i].d = 0 /\ plan[i].n <= expected[b[i]] - sched[b[i]]
                  \/ plan[i].n = plan[i].d + 1 /\ expected[b[i]] = sched[b[i]] + 1
    <2>1. b[i] \in Reqs /\ plan[i] \in Chunks(b[i]) \cup Decodes(b[i]) /\ expected[b[i]] < MaxModelLen
      BY <1>2, <1>4 DEF Eligible
    <2>2. MaxChunk \in Nat /\ SpecTokens \in Nat /\ sched[b[i]] \in Int /\ expected[b[i]] \in Int
      BY <2>1 DEF AsyncRunnerAssumption, AsyncInv, Types
    <2>3. CASE plan[i] \in Chunks(b[i])
      BY <2>1, <2>2, <2>3 DEF Chunks
    <2>4. CASE plan[i] \in Decodes(b[i])
      BY <2>1, <2>2, <2>4 DEF Decodes
    <2> QED BY <2>1, <2>3, <2>4
  <1>6. \A r \in Reqs : Within(r) /\ done[r] \in Lengths
    <2>1. ASSUME NEW r \in Reqs
          PROVE  Within(r) /\ done[r] \in Lengths
      <3>1. Within(r) BY DEF BoundsInv
      <3> QED BY <3>1, CountsInt DEF Within, Lengths, BoundsInv
    <2> QED BY <2>1
  <1>7. ShapesInv'
    <2>1. /\ cpuComputed' = [r \in Reqs |->
               IF r \in InBatch(b) THEN Corrected(b, r) ELSE cpuComputed[r]]
          /\ gpuComputed' = NumComputedTokens(b)
          /\ prevDraftLen' = [r \in Reqs |-> IF r \in InBatch(b) THEN plan[RowIn(b, r)].d ELSE prevDraftLen[r]]
      BY DEF Execute, RowIn
    <2>2. /\ cpuComputed \in [Reqs -> Lengths] /\ gpuComputed \in [Rows -> Lengths]
          /\ prevDraftLen \in [Reqs -> 0 .. SpecTokens]
      BY DEF BoundsInv, ShapesInv
    <2>3. ASSUME NEW r \in Reqs PROVE cpuComputed'[r] \in Lengths
      <3>1. CASE r \in InBatch(b)
        BY <1>3, <1>4, <1>6, <3>1
      <3>2. CASE r \notin InBatch(b)
        BY <2>1, <2>2, <3>2
      <3> QED BY <3>1, <3>2
    <2>4. ASSUME NEW i \in Rows PROVE gpuComputed'[i] \in Lengths
      <3>1. CASE i \in DOMAIN b
        BY <1>3, <1>4, <1>6, <3>1
      <3>2. CASE i \notin DOMAIN b
        BY <2>1, <2>2, <3>2 DEF NumComputedTokens
      <3> QED BY <3>1, <3>2
    <2>5. prevDraftLen' \in [Reqs -> 0 .. SpecTokens]
      BY <1>4, <1>5, <2>1, <2>2
    <2>6. cpuComputed' \in [Reqs -> Lengths]
      <3>1. cpuComputed' = [r \in Reqs |-> cpuComputed'[r]] BY <2>1
      <3> QED BY <2>3, <3>1
    <2>7. gpuComputed' \in [Rows -> Lengths]
      <3>1. gpuComputed' = [i \in Rows |-> gpuComputed'[i]] BY <2>1 DEF NumComputedTokens
      <3> QED BY <2>4, <3>1
    <2>8. Lengths' = Lengths /\ Token' = Token BY DEF Lengths, Token
    <2> QED BY <1>1, <1>2, <1>5, <2>5, <2>6, <2>7, <2>8 DEF BoundsInv, ShapesInv
  <1>8. ASSUME NEW r \in Reqs PROVE Within(r)'
    <2>1. /\ Within(r) /\ Launched(r) = 0 /\ Granted(r) = 0 /\ Pending(r)' = Pending(r)
          /\ done' = done /\ tokens' = tokens
      BY <1>1, <1>6 DEF CanPlan, Launched, Granted, Pending
    <2>2. /\ sched[r] \in Int /\ expected[r] \in Int /\ done[r] \in Int /\ tokens[r] \in Int
          /\ MaxModelLen \in Nat /\ SpecTokens \in Nat /\ Pending(r) \in Int /\ Pending(r) >= 0
      BY CountsInt, PendingNat DEF BoundsInv, AsyncInv
    <2>3. CASE r \in InBatch(b)
      <3> DEFINE i == RowIn(b, r)
                 n == plan[i].n
                 d == plan[i].d
      <3>1. i \in DOMAIN b /\ b[i] = r BY <1>4, <2>3
      <3> HIDE DEF i
      <3>2. /\ status'[r] = "running" /\ status[r] # "finished"
            /\ sched'[r] = sched[r] + n
            /\ expected'[r] = IF Samples(r, plan[i]) THEN expected[r] + 1 + d ELSE expected[r]
            /\ n \in Int /\ n >= 1 /\ d \in 0 .. SpecTokens
            /\ expected[r] + d < MaxModelLen
            /\ \/ d = 0 /\ n <= expected[r] - sched[r]
               \/ n = d + 1 /\ expected[r] = sched[r] + 1
        BY <1>3, <1>4, <1>5, <3>1 DEF Eligible
      <3>3. Launched(r)' = n /\ Granted(r)' = IF Samples(r, plan[i]) THEN 1 + d ELSE 0
        BY <1>2, <2>3, <3>1 DEF Launched, Granted, i
      <3>4. d > 0 => Samples(r, plan[i])
        BY <2>2, <3>2 DEF Samples
      <3> HIDE DEF n, d
      <3>5. /\ 0 <= done[r] /\ done[r] <= sched[r] /\ sched[r] <= expected[r]
            /\ tokens[r] >= 1 /\ expected[r] = tokens[r] + Pending(r)
        BY <2>1, <2>2, <3>2 DEF Within
      <3>6. CASE Samples(r, plan[i])
        <4>1. expected'[r] = expected[r] + 1 + d /\ Granted(r)' = 1 + d BY <3>2, <3>3, <3>6
        <4>2. /\ done[r] + n <= sched[r] + n /\ sched[r] + n <= expected[r] + 1 + d
              /\ expected[r] + 1 + d <= MaxModelLen /\ tokens[r] + (1 + d) <= expected[r] + 1 + d
              /\ expected[r] + 1 + d = tokens[r] + (Pending(r) + (1 + d))
          BY <2>2, <3>2, <3>5
        <4> QED BY <2>1, <3>2, <3>3, <3>5, <4>1, <4>2 DEF Within
      <3>7. CASE ~Samples(r, plan[i])
        <4>1. expected'[r] = expected[r] /\ Granted(r)' = 0 /\ d = 0 BY <3>2, <3>3, <3>4, <3>7
        <4>2. /\ done[r] + n <= sched[r] + n /\ sched[r] + n <= expected[r]
              /\ expected[r] <= MaxModelLen /\ tokens[r] + 0 <= expected[r]
              /\ expected[r] = tokens[r] + (Pending(r) + 0)
          BY <2>2, <3>2, <3>5, <3>7, <4>1 DEF Samples, d
        <4> QED BY <2>1, <3>2, <3>3, <3>5, <4>1, <4>2 DEF Within
      <3> QED BY <3>6, <3>7
    <2>4. CASE r \notin InBatch(b)
      <3>1. /\ status'[r] = status[r] /\ sched'[r] = sched[r] /\ expected'[r] = expected[r]
            /\ Launched(r)' = 0 /\ Granted(r)' = 0
        BY <1>2, <1>3, <2>4 DEF Launched, Granted
      <3> QED BY <2>1, <3>1 DEF Within
    <2> QED BY <2>3, <2>4
  <1> QED BY <1>7, <1>8 DEF BoundsInv

(* A sampled step brings the tokens it was granted, but for the rejected    *)
(* drafts, which its result will take off the counts.                       *)
LEMMA SampleBounds ==
  ASSUME AsyncRunnerAssumption, AsyncInv, AsyncInv', BoundsInv, running # Idle,
         NEW a \in Accepts, NEW fits \in BOOLEAN, SampleTokens(a, fits)
  PROVE  BoundsInv'
  <1>1. /\ outputs' = Append(outputs, ResultOf(a)) /\ running' = Idle
        /\ UNCHANGED <<status, sched, expected, batch, cpuComputed, prevDraftLen, gpuComputed>>
    BY DEF SampleTokens, ResultOf
  <1>2. /\ ResultOf(a) \in [batch : Columns(Reqs), rejected : Columns(Int)]
        /\ IsOutput(ResultOf(a)) /\ ResultOf(a).batch = batch
        /\ \A i \in DOMAIN batch :
             /\ ResultOf(a).rejected[i] = running.plan[i].d - a[i]
             /\ RejectedOf(ResultOf(a), batch[i]) = running.plan[i].d - a[i]
        /\ \A r : r \notin InBatch(batch) => RejectedOf(ResultOf(a), r) = 0
    BY SampleResult
  <1>3. /\ OutputsInv /\ Len(outputs) <= 1
        /\ \A r : Pending(r)' = Pending(r) + RejectedOf(ResultOf(a), r)
    <2>1. OutputsInv /\ Len(outputs) <= 1
      BY DEF AsyncInv, LaunchedInv
    <2> QED BY <1>1, <1>2, <2>1, QueueOutput
  <1>4. /\ \A i \in DOMAIN batch :
             LET r == batch[i]
                 p == running.plan[i]
             IN  /\ a[i] \in Int /\ 0 <= a[i] /\ a[i] <= p.d
                 /\ validCount'[i] = IF running.samples[i] THEN 1 + a[i] ELSE 0
                 /\ prevSampled'[i] = <<r, done'[r]>>
                 /\ drafts'[i] \in {r, None}
                 /\ done'[r] = gpuComputed[i] + p.n - p.d + a[i]
        /\ \A r \in Reqs : r \notin InBatch(batch) => done'[r] = done[r]
        /\ \A i \in Rows : i \notin DOMAIN batch => validCount'[i] = validCount[i]
        /\ validCount' = [i \in Rows |-> validCount'[i]]
    BY SampleEffect
  <1>5. /\ \A i \in DOMAIN batch : batch[i] \in Reqs /\ i \in Rows /\ batch[i] \in InBatch(batch)
        /\ \A i \in DOMAIN batch : RowIn(batch, batch[i]) = i
        /\ \A r \in InBatch(batch) : RowIn(batch, r) \in DOMAIN batch /\ batch[RowIn(batch, r)] = r
    BY RowOfBatch DEF AsyncInv, Types, IsBatch
  <1>6. ASSUME NEW i \in DOMAIN batch
        PROVE  /\ running.plan[i].n \in Int /\ running.plan[i].n >= 1
               /\ running.plan[i].d \in 0 .. SpecTokens
               /\ running.plan[i].d > 0 =>
                    running.samples[i] /\ running.plan[i].n = running.plan[i].d + 1
               /\ gpuComputed[i] = done[batch[i]]
    <2>1. LaunchedRow(i) /\ PositionsExact
      BY DEF AsyncInv, LaunchedInv
    <2>2. running.plan[i].n >= 1 /\ prevDraftLen[batch[i]] \in 0 .. SpecTokens
      BY <1>5 DEF BoundsInv, ShapesInv
    <2> QED BY <2>1, <2>2 DEF LaunchedRow, PositionsExact
  <1>7. SpecTokens \in Nat /\ MaxModelLen \in Nat /\ ShapesInv
    BY DEF AsyncRunnerAssumption, BoundsInv
  <1>8. ASSUME NEW i \in DOMAIN batch
        PROVE  /\ 0 <= done'[batch[i]] /\ done'[batch[i]] \in Int
               /\ done'[batch[i]] <= sched[batch[i]] /\ done'[batch[i]] \in Lengths
    <2> DEFINE r == batch[i]
               n == running.plan[i].n
               d == running.plan[i].d
    <2>1. r \in Reqs /\ r \in InBatch(batch) /\ RowIn(batch, r) = i BY <1>5
    <2>2. Within(r) BY <2>1 DEF BoundsInv
    <2>3. Launched(r) = n BY <2>1 DEF Launched
    <2>4. done'[r] = done[r] + n - d + a[i] BY <1>4, <1>6
    <2>5. /\ sched[r] \in Int /\ expected[r] \in Int /\ done[r] \in Int
      BY <1>7, <2>1, CountsInt
    <2>6. /\ n \in Int /\ n >= 1 /\ d \in Nat /\ (d > 0 => n = d + 1)
          /\ a[i] \in Int /\ 0 <= a[i] /\ a[i] <= d
      BY <1>4, <1>6, <1>7
    <2>7. /\ 0 <= done[r] /\ done[r] + n <= sched[r]
          /\ sched[r] <= expected[r] /\ expected[r] <= MaxModelLen
      BY <2>2, <2>3 DEF Within
    <2> HIDE DEF r, n, d
    <2>8. 0 <= done'[r] /\ done'[r] \in Int /\ done'[r] <= sched[r] /\ done'[r] <= MaxModelLen
      BY <1>7, <2>4, <2>5, <2>6, <2>7
    <2>9. done'[r] \in Lengths BY <1>7, <2>8 DEF Lengths
    <2> QED BY <2>8, <2>9 DEF r
  <1>9. ShapesInv'
    <2>1. \A k \in DOMAIN outputs' :
            \A i \in DOMAIN outputs'[k].batch : outputs'[k].rejected[i] >= 0
      <3>1. \A k \in DOMAIN outputs' :
              (k \in DOMAIN outputs /\ outputs'[k] = outputs[k]) \/ outputs'[k] = ResultOf(a)
        <4> DEFINE S == [batch : Columns(Reqs), rejected : Columns(Int)]
        <4>1. outputs \in Seq(S) /\ ResultOf(a) \in S BY <1>2, <1>3 DEF OutputsInv
        <4> HIDE DEF S
        <4> QED BY <1>1, <4>1
      <3>2. \A i \in DOMAIN ResultOf(a).batch : ResultOf(a).rejected[i] >= 0
        <4>1. ASSUME NEW i \in DOMAIN batch PROVE ResultOf(a).rejected[i] >= 0
          <5>1. ResultOf(a).rejected[i] = running.plan[i].d - a[i] BY <1>2
          <5>2. a[i] \in Int /\ a[i] <= running.plan[i].d /\ running.plan[i].d \in Int
            BY <1>4, <1>6, <1>7
          <5> QED BY <5>1, <5>2
        <4> QED BY <1>2, <4>1
      <3> QED BY <1>7, <3>1, <3>2 DEF ShapesInv
    <2>2. validCount' \in [Rows -> 0 .. SpecTokens + 1]
      <3>1. ASSUME NEW i \in Rows PROVE validCount'[i] \in 0 .. SpecTokens + 1
        <4>1. CASE i \in DOMAIN batch
          <5>1. validCount'[i] = IF running.samples[i] THEN 1 + a[i] ELSE 0 BY <1>4, <4>1
          <5>2. a[i] \in Int /\ 0 <= a[i] /\ a[i] <= SpecTokens BY <1>4, <1>6, <1>7, <4>1
          <5> QED BY <1>7, <5>1, <5>2
        <4>2. CASE i \notin DOMAIN batch BY <1>4, <1>7, <4>2 DEF ShapesInv
        <4> QED BY <4>1, <4>2
      <3> QED BY <1>4, <3>1
    <2>3. prevSampled' \in [Rows -> Token \cup {None}] /\ drafts' \in [Rows -> Reqs \cup {None}]
      <3>1. DOMAIN prevSampled' = Rows /\ DOMAIN drafts' = Rows
            /\ prevSampled' = [i \in Rows |-> prevSampled'[i]] /\ drafts' = [i \in Rows |-> drafts'[i]]
            /\ \A i \in Rows : i \notin DOMAIN batch =>
                 prevSampled'[i] = prevSampled[i] /\ drafts'[i] = drafts[i]
        BY DEF SampleTokens
      <3>2. ASSUME NEW i \in Rows
            PROVE  prevSampled'[i] \in Token \cup {None} /\ drafts'[i] \in Reqs \cup {None}
        <4>1. CASE i \in DOMAIN batch
          <5>1. prevSampled'[i] = <<batch[i], done'[batch[i]]>> /\ batch[i] \in Reqs
                /\ done'[batch[i]] \in Lengths /\ drafts'[i] \in {batch[i], None}
            BY <1>4, <1>5, <1>8, <4>1
          <5> QED BY <5>1 DEF Token, Lengths
        <4>2. CASE i \notin DOMAIN batch BY <1>7, <3>1, <4>2 DEF ShapesInv
        <4> QED BY <4>1, <4>2
      <3> QED BY <3>1, <3>2
    <2>4. tokens' \in [Reqs -> Int]
      <3>1. tokens' = [r \in Reqs |->
              IF r \in InBatch(batch)
              THEN tokens[r] + (IF running.samples[RowIn(batch, r)] THEN 1 + a[RowIn(batch, r)] ELSE 0)
              ELSE tokens[r]]
        BY DEF SampleTokens, RowIn
      <3> QED BY <1>4, <1>5, <1>7, <3>1 DEF ShapesInv
    <2>5. Lengths' = Lengths /\ Token' = Token BY DEF Lengths, Token
    <2> QED BY <1>1, <1>7, <2>1, <2>2, <2>3, <2>4, <2>5 DEF ShapesInv
  <1>10. ASSUME NEW r \in Reqs PROVE Within(r)'
    <2>1. Within(r) /\ Launched(r)' = 0 /\ Granted(r)' = 0
      BY <1>1 DEF BoundsInv, Launched, Granted
    <2>2. /\ sched[r] \in Int /\ expected[r] \in Int /\ done[r] \in Int /\ tokens[r] \in Int
          /\ Pending(r) \in Int /\ Pending(r) >= 0
          /\ Launched(r) \in Int /\ Launched(r) >= 0 /\ Granted(r) \in Int /\ Granted(r) >= 0
      BY <1>3, <1>7, CountsInt, PendingNat
    <2>3. CASE r \in InBatch(batch)
      <3> DEFINE i == RowIn(batch, r)
                 d == running.plan[i].d
                 x == a[i]
                 valid == IF running.samples[i] THEN 1 + x ELSE 0
      <3>1. i \in DOMAIN batch /\ batch[i] = r BY <1>5, <2>3
      <3>2. tokens'[r] = tokens[r] + valid
        BY <2>3 DEF SampleTokens, RowIn
      <3>3. Granted(r) = IF running.samples[i] THEN 1 + d ELSE 0
        BY <2>3 DEF Granted
      <3> HIDE DEF i
      <3>4. /\ Pending(r)' = Pending(r) + (d - x) /\ d \in Nat /\ x \in Int /\ 0 <= x /\ x <= d
            /\ (d > 0 => running.samples[i])
        BY <1>2, <1>3, <1>4, <1>6, <1>7, <3>1
      <3>5. 0 <= done'[r] /\ done'[r] <= sched[r] /\ done'[r] \in Int BY <1>8, <3>1
      <3> HIDE DEF d, x
      <3>6. valid \in Int /\ valid >= 0 /\ valid <= Granted(r) /\ valid + (d - x) = Granted(r)
        BY <3>3, <3>4
      <3> HIDE DEF valid
      <3>7. /\ tokens'[r] >= 1 /\ tokens'[r] + 0 <= expected[r]
            /\ status[r] # "finished" => expected[r] = tokens'[r] + (Pending(r)' + 0)
        BY <2>1, <2>2, <3>2, <3>4, <3>6 DEF Within
      <3>8. done'[r] + 0 <= sched[r] BY <3>5
      <3> QED BY <1>1, <2>1, <3>5, <3>7, <3>8 DEF Within
    <2>4. CASE r \notin InBatch(batch)
      <3>1. /\ done'[r] = done[r] /\ tokens'[r] = tokens[r] /\ Pending(r)' = Pending(r) + 0
            /\ Launched(r) = 0 /\ Granted(r) = 0
        BY <1>2, <1>3, <1>4, <2>4 DEF SampleTokens, Launched, Granted
      <3>2. Pending(r)' = Pending(r) BY <2>2, <3>1
      <3> QED BY <1>1, <2>1, <3>1, <3>2 DEF Within
    <2> QED BY <2>3, <2>4
  <1> QED BY <1>9, <1>10 DEF BoundsInv

(* A result processed takes off what the request has not got; and the       *)
(* steps that only change a status keep the counts apart.                   *)
LEMMA ProcessBounds ==
  ASSUME AsyncRunnerAssumption, AsyncInv, AsyncInv', BoundsInv, ProcessOutput
  PROVE  BoundsInv'
  <1> DEFINE o == Head(outputs)
  <1>1. /\ outputs # <<>> /\ outputs' = Tail(outputs)
        /\ UNCHANGED <<status, batch, cpuComputed, prevDraftLen, prevRow, running,
                       gpuComputed, validCount, prevSampled, drafts, done, tokens>>
    BY DEF ProcessOutput, CanProcess, runnerVars, gpuVars
  <1>2. /\ sched' = [r \in Reqs |->
             IF (r \in InBatch(o.batch) /\ status[r] # "finished") /\ status[r] = "running"
             THEN sched[r] - o.rejected[RowIn(o.batch, r)] ELSE sched[r]]
        /\ expected' = [r \in Reqs |->
             IF r \in InBatch(o.batch) /\ status[r] # "finished"
             THEN expected[r] - o.rejected[RowIn(o.batch, r)] ELSE expected[r]]
    BY DEF ProcessOutput, RowIn
  <1>3. OutputsInv /\ OutputsInv' /\ CountsInv' /\ CountsInv /\ ShapesInv
    BY DEF AsyncInv, BoundsInv
  <1>4. /\ \A r : Pending(r)' = Pending(r) - RejectedOf(o, r)
        /\ 1 \in DOMAIN outputs /\ o = outputs[1]
        /\ \A k \in DOMAIN outputs' : k + 1 \in DOMAIN outputs /\ outputs'[k] = outputs[k + 1]
    <2> DEFINE S == [batch : Columns(Reqs), rejected : Columns(Int)]
    <2>1. outputs \in Seq(S) /\ Len(outputs) <= 2 BY <1>3 DEF OutputsInv
    <2> HIDE DEF S
    <2>2. /\ DOMAIN outputs = 1 .. Len(outputs) /\ Head(outputs) = outputs[1] /\ 1 \in DOMAIN outputs
          /\ DOMAIN Tail(outputs) = 1 .. Len(outputs) - 1 /\ Len(outputs) \in {1, 2}
          /\ \A k \in 1 .. Len(outputs) - 1 : Tail(outputs)[k] = outputs[k + 1]
      BY <1>1, <2>1, TailShape
    <2>3. \A k \in DOMAIN outputs' : k + 1 \in DOMAIN outputs /\ outputs'[k] = outputs[k + 1]
      BY <1>1, <2>2
    <2>4. \A r : Pending(r)' = Pending(r) - RejectedOf(Head(outputs), r)
      BY <1>1, <1>3, DequeueOutput
    <2> QED BY <2>2, <2>3, <2>4
  <1> HIDE DEF o
  <1>5. ShapesInv'
    <2>1. \A k \in DOMAIN outputs' :
            \A i \in DOMAIN outputs'[k].batch : outputs'[k].rejected[i] >= 0
      BY <1>3, <1>4 DEF ShapesInv
    <2>2. Lengths' = Lengths /\ Token' = Token BY DEF Lengths, Token
    <2> QED BY <1>1, <1>3, <2>1, <2>2 DEF ShapesInv
  <1>6. ASSUME NEW r \in Reqs PROVE Within(r)'
    <2>1. /\ Within(r) /\ Launched(r)' = Launched(r) /\ Granted(r)' = Granted(r)
          /\ done'[r] = done[r] /\ tokens'[r] = tokens[r] /\ status'[r] = status[r]
      BY <1>1 DEF BoundsInv, Launched, Granted
    <2>2. /\ sched[r] \in Int /\ expected[r] \in Int /\ done[r] \in Int /\ tokens[r] \in Int
          /\ Pending(r) \in Int /\ MaxModelLen \in Nat
          /\ Launched(r) \in Int /\ Launched(r) >= 0 /\ Granted(r) \in Int /\ Granted(r) >= 0
      BY <1>3, CountsInt, PendingNat
    <2>3. Pending(r)' \in Int /\ Pending(r)' >= 0
      <3>1. /\ \A k \in DOMAIN outputs : RejectedOf(outputs[k], r) \in Int /\ RejectedOf(outputs[k], r) >= 0
            /\ Len(outputs) \in {1, 2} /\ DOMAIN outputs = 1 .. Len(outputs)
        <4>1. /\ 1 \in DOMAIN outputs /\ Len(outputs) <= 2 /\ Len(outputs) \in Nat
              /\ DOMAIN outputs = 1 .. Len(outputs)
          BY <1>3, <1>4 DEF OutputsInv
        <4>2. \A k \in DOMAIN outputs : RejectedOf(outputs[k], r) \in Int /\ RejectedOf(outputs[k], r) >= 0
          BY <1>3, PendingNat
        <4>3. Len(outputs) \in {1, 2}
          BY <4>1
        <4> QED BY <4>1, <4>2, <4>3
      <3>2. Pending(r)' = Pending(r) - RejectedOf(outputs[1], r) BY <1>4
      <3>3. CASE Len(outputs) = 1
        <4>1. Pending(r) = RejectedOf(outputs[1], r) BY <3>3 DEF Pending, PendingOf
        <4> QED BY <3>1, <3>2, <3>3, <4>1
      <3>4. CASE Len(outputs) = 2
        <4>1. Pending(r) = RejectedOf(outputs[1], r) + RejectedOf(outputs[2], r)
          BY <3>4 DEF Pending, PendingOf
        <4> QED BY <3>1, <3>2, <3>4, <4>1
      <3> QED BY <3>1, <3>3, <3>4
    <2>4. RejectedOf(o, r) \in Int /\ RejectedOf(o, r) >= 0 /\ Pending(r)' = Pending(r) - RejectedOf(o, r)
      BY <1>3, <1>4, PendingNat
    <2>5. status[r] \in Statuses BY DEF AsyncInv, Types
    <2>6. /\ sched'[r] = IF status[r] = "running" THEN sched[r] - RejectedOf(o, r) ELSE sched[r]
          /\ expected'[r] = IF status[r] # "finished" THEN expected[r] - RejectedOf(o, r) ELSE expected[r]
      <3>1. CASE r \in InBatch(o.batch)
        BY <1>2, <3>1 DEF RejectedOf
      <3>2. CASE r \notin InBatch(o.batch)
        <4>1. RejectedOf(o, r) = 0 /\ sched'[r] = sched[r] /\ expected'[r] = expected[r]
          BY <1>2, <3>2 DEF RejectedOf
        <4> QED BY <2>2, <4>1
      <3> QED BY <3>1, <3>2
    <2>7. status[r] = "running" => sched'[r] = done[r] + (Pending(r)' + Launched(r))
      BY <1>3, <2>1 DEF CountsInv
    <2>8. status[r] \in {"waiting", "preempted"} => sched[r] = 0 /\ done[r] = 0
      BY <1>3 DEF CountsInv
    <2>9. CASE status[r] = "finished" BY <2>1, <2>6, <2>9 DEF Within
    <2>10. CASE status[r] # "finished"
      <3>1. expected'[r] = expected[r] - RejectedOf(o, r)
            /\ expected[r] = tokens[r] + (Pending(r) + Granted(r))
        BY <2>1, <2>6, <2>10 DEF Within
      <3>2. /\ expected'[r] = tokens[r] + (Pending(r)' + Granted(r))
            /\ tokens[r] + Granted(r) <= expected'[r] /\ expected'[r] <= MaxModelLen
            /\ tokens[r] >= 1 /\ expected'[r] >= 1
        BY <2>1, <2>2, <2>3, <2>4, <3>1 DEF Within
      <3>3. /\ done[r] + Launched(r) <= sched'[r] /\ sched'[r] <= expected'[r] /\ 0 <= done[r]
        <4>1. CASE status[r] = "running"
          BY <2>1, <2>2, <2>3, <2>4, <2>6, <2>7, <3>1, <4>1 DEF Within
        <4>2. CASE status[r] # "running"
          <5>1. sched'[r] = 0 /\ sched[r] = 0 BY <2>5, <2>6, <2>8, <2>10, <4>2 DEF Statuses
          <5>2. 0 <= done[r] /\ done[r] + Launched(r) <= 0 BY <2>1, <5>1 DEF Within
          <5>3. expected'[r] \in Int BY <2>2, <2>4, <3>1
          <5> QED BY <2>2, <3>2, <5>1, <5>2, <5>3
        <4> QED BY <4>1, <4>2
      <3> QED BY <2>1, <3>2, <3>3 DEF Within
    <2> QED BY <2>9, <2>10
  <1> QED BY <1>5, <1>6 DEF BoundsInv

(* An empty step, a preemption and a request that finishes change none of   *)
(* this: a preempted request is at 0, a finished one keeps what it had.     *)
LEMMA QuietBounds ==
  ASSUME AsyncRunnerAssumption, AsyncInv, AsyncInv', BoundsInv,
         ExecuteEmpty \/ (\E q \in Reqs : Preempt(q) \/ Finish(q)) \/ UNCHANGED vars
  PROVE  BoundsInv'
  <1>1. /\ UNCHANGED <<expected, cpuComputed, prevDraftLen, prevRow, running,
                       gpuComputed, validCount, prevSampled, drafts, tokens>>
        /\ \/ batch' = batch /\ outputs' = outputs
           \/ /\ ExecuteEmpty /\ running = Idle /\ Len(outputs) <= 1 /\ batch' = <<>>
              /\ outputs' = Append(outputs, [batch |-> <<>>, rejected |-> <<>>])
    BY DEF ExecuteEmpty, CanPlan, Preempt, Finish, vars, schedVars, runnerVars, gpuVars
  <1>2. OutputsInv /\ ShapesInv /\ status \in [Reqs -> Statuses]
        /\ sched \in [Reqs -> Int] /\ done \in [Reqs -> Int]
    BY DEF AsyncInv, BoundsInv, Types
  <1>3. ASSUME NEW r \in Reqs
        PROVE  \/ /\ status'[r] \in {status[r], "finished"}
                  /\ sched'[r] = sched[r] /\ done'[r] = done[r]
               \/ /\ status'[r] = "preempted" /\ status[r] = "running" /\ running = Idle
                  /\ sched'[r] = 0 /\ done'[r] = 0
    BY <1>2 DEF ExecuteEmpty, CanPlan, Preempt, Finish, vars, schedVars
  <1>4. /\ \A k \in DOMAIN outputs' :
             \/ k \in DOMAIN outputs /\ outputs'[k] = outputs[k]
             \/ outputs'[k].batch = <<>>
        /\ \A r : Pending(r)' = Pending(r)
    <2>1. CASE batch' = batch /\ outputs' = outputs
      BY <2>1 DEF Pending
    <2>2. CASE /\ Len(outputs) <= 1
               /\ outputs' = Append(outputs, [batch |-> <<>>, rejected |-> <<>>])
      <3> DEFINE S == [batch : Columns(Reqs), rejected : Columns(Int)]
      <3>1. PICK o : o = [batch |-> <<>>, rejected |-> <<>>] OBVIOUS
      <3>2. /\ <<>> \in Columns(Reqs) /\ <<>> \in Columns(Int) /\ IsBatch(<<>>) /\ InBatch(<<>>) = {}
        <4>1. 0 \in 0 .. MaxRows /\ <<>> \in [1 .. 0 -> Reqs] /\ <<>> \in [1 .. 0 -> Int]
          BY DEF AsyncRunnerAssumption
        <4>2. DOMAIN <<>> = {} OBVIOUS
        <4> QED BY <4>1, <4>2 DEF Columns, IsBatch, InBatch
      <3>3. o \in S /\ IsOutput(o) /\ o.batch = <<>> /\ \A r : RejectedOf(o, r) = 0
        BY <3>1, <3>2 DEF IsOutput, RejectedOf
      <3>4. outputs' = Append(outputs, o) BY <2>2, <3>1
      <3>5. \A r : Pending(r)' = Pending(r) + 0
        <4>1. OutputsInv /\ Len(outputs) <= 1 /\ IsOutput(o)
              /\ o \in [batch : Columns(Reqs), rejected : Columns(Int)]
          BY <1>2, <2>2, <3>3
        <4>2. \A r : Pending(r)' = Pending(r) + RejectedOf(o, r)
          BY <3>4, <4>1, QueueOutput
        <4>3. \A r : RejectedOf(o, r) = 0 BY <3>3
        <4> QED BY <4>2, <4>3
      <3>6. \A r : Pending(r)' = Pending(r) BY <1>2, <3>5, PendingInt
      <3>7. outputs \in Seq(S) BY <1>2 DEF OutputsInv
      <3> HIDE DEF S
      <3>8. \A k \in DOMAIN outputs' :
              (k \in DOMAIN outputs /\ outputs'[k] = outputs[k]) \/ outputs'[k] = o
        BY <3>3, <3>4, <3>7
      <3> QED BY <3>3, <3>6, <3>8
    <2> QED BY <1>1, <2>1, <2>2
  <1>5. ShapesInv'
    <2>1. \A k \in DOMAIN outputs' :
            \A i \in DOMAIN outputs'[k].batch : outputs'[k].rejected[i] >= 0
      <3>1. DOMAIN <<>> = {} OBVIOUS
      <3> QED BY <1>2, <1>4, <3>1 DEF ShapesInv
    <2>2. running # Idle => batch' = batch BY <1>1
    <2>3. Lengths' = Lengths /\ Token' = Token BY DEF Lengths, Token
    <2> QED BY <1>1, <1>2, <2>1, <2>2, <2>3 DEF ShapesInv
  <1>6. ASSUME NEW r \in Reqs PROVE Within(r)'
    <2>1. /\ Within(r) /\ Launched(r)' = Launched(r) /\ Granted(r)' = Granted(r)
      BY <1>1 DEF BoundsInv, Launched, Granted
    <2>2. /\ sched[r] \in Int /\ expected[r] \in Int /\ done[r] \in Int /\ tokens[r] \in Int
          /\ Pending(r) \in Int /\ Pending(r) >= 0
          /\ Launched(r) \in Int /\ Launched(r) >= 0 /\ Granted(r) \in Int /\ Granted(r) >= 0
      BY <1>2, CountsInt, PendingNat
    <2>3. Pending(r)' = Pending(r) /\ expected'[r] = expected[r] /\ tokens'[r] = tokens[r]
      BY <1>1, <1>4
    <2>4. CASE /\ status'[r] \in {status[r], "finished"}
               /\ sched'[r] = sched[r] /\ done'[r] = done[r]
      BY <2>1, <2>3, <2>4 DEF Within
    <2>5. CASE /\ status'[r] = "preempted" /\ status[r] = "running" /\ running = Idle
               /\ sched'[r] = 0 /\ done'[r] = 0
      <3>1. Launched(r) = 0 BY <2>5 DEF Launched
      <3>2. 0 <= expected[r] /\ 0 + 0 <= 0 BY <2>1, <2>2 DEF Within
      <3> QED BY <2>1, <2>3, <2>5, <3>1, <3>2 DEF Within
    <2> QED BY <1>3, <2>4, <2>5
  <1> QED BY <1>5, <1>6 DEF BoundsInv

(* Before the first step every count is zero and no row is taken.           *)
LEMMA BoundsInvInit == AsyncRunnerAssumption /\ Init => BoundsInv
  <1> SUFFICES ASSUME AsyncRunnerAssumption, Init PROVE BoundsInv
    OBVIOUS
  <1>1. /\ MaxModelLen \in Nat /\ SpecTokens \in Nat /\ 0 \in Lengths
        /\ \A r \in Reqs : PromptLen[r] \in Int /\ 1 <= PromptLen[r] /\ PromptLen[r] <= MaxModelLen
        /\ PromptLen \in [Reqs -> Int]
    BY DEF AsyncRunnerAssumption, Lengths
  <1>2. ShapesInv
    <2>1. 0 \in 0 .. SpecTokens /\ 0 \in 0 .. SpecTokens + 1 BY <1>1
    <2> QED BY <1>1, <2>1 DEF Init, ShapesInv
  <1>3. ASSUME NEW r \in Reqs PROVE Within(r)
    <2>1. /\ Launched(r) = 0 /\ Granted(r) = 0 /\ Pending(r) = 0
          /\ done[r] = 0 /\ sched[r] = 0 /\ expected[r] = PromptLen[r] /\ tokens[r] = PromptLen[r]
      BY DEF Init, Launched, Granted, Pending, PendingOf
    <2> QED BY <1>1, <2>1 DEF Within
  <1> QED BY <1>2, <1>3 DEF BoundsInv

(* Whatever is rejected, preempted or late, no request is counted beyond    *)
(* max_model_len or below 0, by the scheduler, the CPU or the GPU; at most  *)
(* two results wait, and the tensors hold rows, tokens and requests.        *)
THEOREM RunnerTypeOK == Spec => []TypeOK
  <1>1. Init => AsyncInv /\ BoundsInv
    BY AsyncInvInit, BoundsInvInit, AsyncRunnerAssumption
  <1>2. AsyncInv /\ BoundsInv /\ [Next]_vars => AsyncInv' /\ BoundsInv'
    <2> SUFFICES ASSUME AsyncInv, BoundsInv, [Next]_vars PROVE AsyncInv' /\ BoundsInv'
      OBVIOUS
    <2>1. AsyncRunnerAssumption /\ AsyncInv'
      BY AsyncInvStep, AsyncRunnerAssumption
    <2>2. CASE \E b \in Batches : \E plan \in Plans(b) : Execute(b, plan)
      BY <2>1, <2>2, LaunchBounds
    <2>3. CASE running # Idle /\ \E a \in Accepts : \E fits \in BOOLEAN : SampleTokens(a, fits)
      BY <2>1, <2>3, SampleBounds
    <2>4. CASE ProcessOutput
      BY <2>1, <2>4, ProcessBounds
    <2>5. CASE ExecuteEmpty \/ (\E q \in Reqs : Preempt(q) \/ Finish(q)) \/ UNCHANGED vars
      BY <2>1, <2>5, QuietBounds
    <2> QED BY <2>1, <2>2, <2>3, <2>4, <2>5 DEF Next
  <1>3. AsyncInv /\ BoundsInv => TypeOK
    <2> SUFFICES ASSUME AsyncInv, BoundsInv PROVE TypeOK
      OBVIOUS
    <2>1. ASSUME NEW r \in Reqs
          PROVE  /\ sched[r] \in 0 .. MaxModelLen /\ expected[r] \in 1 .. MaxModelLen
                 /\ done[r] \in 0 .. MaxModelLen /\ tokens[r] \in 1 .. MaxModelLen
      <3>1. Within(r) BY DEF BoundsInv
      <3>2. /\ sched[r] \in Int /\ expected[r] \in Int /\ done[r] \in Int /\ tokens[r] \in Int
            /\ Launched(r) \in Int /\ Launched(r) >= 0 /\ Granted(r) \in Int /\ Granted(r) >= 0
            /\ MaxModelLen \in Nat
        BY CountsInt, AsyncRunnerAssumption DEF BoundsInv
      <3> QED BY <3>1, <3>2 DEF Within
    <2>2. /\ sched \in [Reqs -> 0 .. MaxModelLen] /\ expected \in [Reqs -> 1 .. MaxModelLen]
          /\ done \in [Reqs -> 0 .. MaxModelLen] /\ tokens \in [Reqs -> 1 .. MaxModelLen]
      BY <2>1 DEF AsyncInv, Types, BoundsInv, ShapesInv
    <2>3. Len(batch) <= MaxRows /\ InBatch(batch) \subseteq Reqs
      <3>1. PICK n \in 0 .. MaxRows : batch \in [1 .. n -> Reqs]
        BY DEF AsyncInv, Types, Columns
      <3>2. MaxRows \in Nat BY AsyncRunnerAssumption
      <3>3. Len(batch) = n /\ n <= MaxRows BY <3>1, <3>2
      <3> QED BY <3>1, <3>3 DEF InBatch
    <2> QED BY <2>2, <2>3 DEF AsyncInv, BoundsInv, Types, OutputsInv, ShapesInv, Lengths, TypeOK
  <1> QED BY <1>1, <1>2, <1>3, PTL DEF Spec
=============================================================================
