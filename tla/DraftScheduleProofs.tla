-------------------------- MODULE DraftScheduleProofs --------------------------
(***************************************************************************)
(* Theorems about what a DSpark draft proposes and how much of it is       *)
(* verified.                                                               *)
(*                                                                         *)
(* DraftBlock: the draft block is greedy for every vocabulary, number of   *)
(* ranks, padding, kernel block and checkpoint: the two-level argmax over  *)
(* ranks, and the three-level one over kernel blocks and ranks, choose the *)
(* token that the argmax of the gathered logits would.                     *)
(*                                                                         *)
(* PrefixSchedule: the types of the schedulers' variables, that a          *)
(* threshold anticipates nothing, and that the hardware-aware search finds *)
(* the best of all schedules.  The functions the model defines by          *)
(* recursion (products, powers, sums over sets) are unfolded by a least    *)
(* counterexample, LeastExists taking the place of induction.              *)
(***************************************************************************)
EXTENDS DraftBlock, PrefixSchedule, WellFoundedInduction, FiniteSetTheorems, TLAPS

(* A non-empty set of natural numbers has a least one.                      *)
LEMMA LeastExists ==
  ASSUME NEW S \in SUBSET Nat, S # {}
  PROVE  \E n \in S : \A m \in S : n <= m
<1> DEFINE Below == OpToRel(<, Nat)
<1>1. IsWellFoundedOn(Below, Nat) BY NatLessThanWellFounded
<1>2. \A m, n \in Nat : m < n => <<m, n>> \in Below BY DEF OpToRel
<1> HIDE DEF Below
<1>3. PICK n \in S : \A m \in S : ~(<<m, n>> \in Below) BY <1>1, WFMin
<1>4. ASSUME NEW m \in S PROVE n <= m
  <2>1. m \in Nat /\ n \in Nat /\ ~(m < n) BY <1>2, <1>3
  <2> QED BY <2>1
<1> QED BY <1>4

-----------------------------------------------------------------------------
(* The draft block: the argmax of each shard, of each kernel block, of all.*)

(* A row of numbers below a bound has a first best.                         *)
LEMMA FirstBestExists ==
  ASSUME NEW S \in SUBSET Nat, S # {}, NEW f \in [S -> Int],
         NEW top \in Int, \A c \in S : f[c] <= top
  PROVE  FirstBest(f) \in S /\ \A d \in S : Beats(f, FirstBest(f), d)
<1> DEFINE V == { top - f[c] : c \in S }
<1>1. PICK v \in V : \A w \in V : v <= w
  <2>1. \A c \in S : top - f[c] \in Nat
    <3>1. \A c \in S : f[c] \in Int /\ f[c] <= top OBVIOUS
    <3> QED BY <3>1
  <2>2. V \in SUBSET Nat /\ V # {} BY <2>1
  <2> HIDE DEF V
  <2> QED BY <2>2, LeastExists
<1> DEFINE T == { c \in S : top - f[c] = v }
<1>2. PICK c \in T : \A d \in T : c <= d
  <2>1. T \in SUBSET Nat /\ T # {} BY <1>1
  <2> HIDE DEF T
  <2> QED BY <2>1, LeastExists
<1>3. \A d \in S : Beats(f, c, d)
  <2> SUFFICES ASSUME NEW d \in S PROVE Beats(f, c, d) OBVIOUS
  <2>1. c \in S /\ top - f[c] = v /\ f[c] \in Int /\ f[d] \in Int /\ v <= top - f[d] BY <1>1, <1>2
  <2>2. CASE top - f[d] = v
    <3>1. d \in T BY <2>2
    <3>2. c <= d BY <3>1, <1>2
    <3> QED BY <2>1, <2>2, <3>2 DEF Beats
  <2>3. CASE top - f[d] # v BY <2>1, <2>3 DEF Beats
  <2> QED BY <2>2, <2>3
<1>4. c \in DOMAIN f /\ DOMAIN f = S BY <1>2
<1> QED BY <1>3, <1>4 DEF FirstBest

(* A part of w places ends where a later part of w places may start.        *)
LEMMA NextPartStartsLater ==
  ASSUME NEW t \in Nat, NEW k \in Nat, t < k, NEW w \in Nat
  PROVE  t * w + w <= k * w
<1> DEFINE d == k - t - 1
<1>1. d \in Nat /\ k = t + 1 + d OBVIOUS
<1>2. k * w = t * w + w + d * w BY <1>1
<1>3. d * w \in Nat BY <1>1
<1>4. t * w \in Nat OBVIOUS
<1> HIDE DEF d
<1> QED BY <1>2, <1>3, <1>4

(* The first best of the first bests of consecutive parts of width w is the *)
(* first best of all: what the best of part k beats, the best of the best   *)
(* part beats.                                                              *)
LEMMA TwoLevels ==
  ASSUME NEW P \in SUBSET Nat, NEW w \in Nat,
         NEW val \in [P -> Int], NEW at \in [P -> Nat],
         \A k \in P : k * w <= at[k] /\ at[k] < k * w + w,
         NEW t \in P, \A k \in P : Beats(val, t, k),
         NEW k \in P, NEW y \in Int, NEW d \in Nat,
         val[k] > y \/ (val[k] = y /\ at[k] <= d)
  PROVE  val[t] > y \/ (val[t] = y /\ at[t] <= d)
<1>1. val[t] \in Int /\ val[k] \in Int /\ at[t] \in Nat /\ at[k] \in Nat OBVIOUS
<1>2. CASE val[t] > val[k] BY <1>1, <1>2
<1>3. CASE val[t] = val[k] /\ t = k BY <1>3
<1>4. CASE val[t] = val[k] /\ t < k
  <2>1. t * w + w <= k * w BY <1>4, NextPartStartsLater
  <2>2. at[t] < t * w + w /\ k * w <= at[k] OBVIOUS
  <2>3. t * w \in Nat /\ k * w \in Nat OBVIOUS
  <2>4. at[t] <= at[k] BY <1>1, <2>1, <2>2, <2>3
  <2> QED BY <1>1, <1>4, <2>4
<1> QED BY <1>2, <1>3, <1>4 DEF Beats

-----------------------------------------------------------------------------
(* Logits a call can meet.                                                  *)
Row == { f \in [Tokens -> Int] : \A t \in Tokens : NegInf < f[t] /\ f[t] < PosInf }

BestColumn(f, k, c) ==
  c \in Columns /\ \A d \in Columns : Beats(MaskedLogits(f, k), c, d)

(* The sizes of the vocabulary, its shards and the kernel's blocks.         *)
LEMMA Sizes ==
  /\ TpSize \in Nat \ {0} /\ ShardSize \in Nat \ {0} /\ Vocab \in Nat \ {0}
  /\ KernelBlock \in Nat \ {0}
  /\ NegInf \in Int /\ PosInf \in Int
  /\ Vocab <= TpSize * ShardSize
  BY DraftBlockAssumption

(* A shard starts at a token or past the last.                              *)
LEMMA StartsAreNat ==
  ASSUME NEW k \in Nat PROVE VocabStart(k) \in Nat
  BY Sizes DEF VocabStart

(* A real column holds its token's logit, which is finite.                  *)
LEMMA LogitsBounded ==
  ASSUME NEW f \in Row, NEW k \in Shards, NEW c \in RealColumns(k)
  PROVE  /\ c \in Columns /\ c \in Nat /\ VocabStart(k) + c \in Tokens
         /\ LocalLogits(f, k)[c] = f[VocabStart(k) + c]
         /\ f[VocabStart(k) + c] \in Int
         /\ NegInf < f[VocabStart(k) + c] /\ f[VocabStart(k) + c] < PosInf
<1>1. k \in Nat /\ c \in Columns /\ c \in Nat /\ VocabStart(k) + c < Vocab
  BY Sizes DEF Shards, Columns, RealColumns
<1>2. VocabStart(k) + c \in Tokens
  BY <1>1, StartsAreNat, Sizes DEF Tokens
<1>3. LocalLogits(f, k)[c] = f[VocabStart(k) + c]
  BY <1>1 DEF LocalLogits
<1> QED BY <1>1, <1>2, <1>3 DEF Row

(* After the mask a real column is unchanged, any other at NEG_INF.         *)
LEMMA MaskedTyped ==
  ASSUME NEW f \in Row, NEW k \in Shards
  PROVE  /\ MaskedLogits(f, k) \in [Columns -> Int]
         /\ \A c \in Columns : MaskedLogits(f, k)[c] <= PosInf
         /\ \A c \in RealColumns(k) : MaskedLogits(f, k)[c] = f[VocabStart(k) + c]
         /\ \A c \in Columns \ RealColumns(k) : MaskedLogits(f, k)[c] = NegInf
<1>1. NegInf < PosInf
  <2>1. 0 \in Tokens BY Sizes DEF Tokens
  <2>2. f[0] \in Int /\ NegInf < f[0] /\ f[0] < PosInf BY <2>1 DEF Row
  <2> QED BY <2>2, Sizes
<1>2. \A c \in Columns : MaskedLogits(f, k)[c] =
        IF c \in RealColumns(k) THEN LocalLogits(f, k)[c] ELSE NegInf
  BY DEF MaskedLogits
<1>3. DOMAIN MaskedLogits(f, k) = Columns BY DEF MaskedLogits
<1>4. \A c \in RealColumns(k) : c \in Columns /\ MaskedLogits(f, k)[c] = f[VocabStart(k) + c]
  BY <1>2, LogitsBounded
<1>5. \A c \in Columns \ RealColumns(k) : MaskedLogits(f, k)[c] = NegInf
  BY <1>2
<1>6. \A c \in Columns : MaskedLogits(f, k)[c] \in Int /\ MaskedLogits(f, k)[c] <= PosInf
  BY <1>1, <1>4, <1>5, LogitsBounded, Sizes
<1>7. MaskedLogits(f, k) \in [Columns -> Int]
  BY <1>6 DEF MaskedLogits
<1> QED BY <1>4, <1>5, <1>6, <1>7

(* max over the masked columns of a rank.                                   *)
LEMMA LocalBest ==
  ASSUME NEW f \in Row, NEW k \in Shards
  PROVE  BestColumn(f, k, FirstBest(MaskedLogits(f, k)))
<1>1. Columns \in SUBSET Nat /\ Columns # {}
  BY Sizes DEF Columns
<1> QED BY <1>1, MaskedTyped, FirstBestExists, Sizes DEF BestColumn

(* One block of the kernel sees the masked columns of the rank, and columns *)
(* past the rank at NEG_INF.                                                *)
InBlock(b) == b * KernelBlock .. (b + 1) * KernelBlock - 1

(* A block of the kernel is a non-empty part of such columns.               *)
LEMMA KernelBlockTyped ==
  ASSUME NEW f \in Row, NEW k \in Shards, NEW b \in KernelBlocks
  PROVE  /\ InBlock(b) \in SUBSET Nat /\ InBlock(b) # {}
         /\ KernelLogits(f, k, b) \in [InBlock(b) -> Int]
         /\ \A c \in InBlock(b) : KernelLogits(f, k, b)[c] <= PosInf
         /\ \A c \in InBlock(b) : KernelLogits(f, k, b)[c] =
              IF c \in Columns THEN MaskedLogits(f, k)[c] ELSE NegInf
<1>1. b \in Nat BY DEF KernelBlocks
<1>2. b * KernelBlock \in Nat /\ (b + 1) * KernelBlock = b * KernelBlock + KernelBlock
  BY <1>1, Sizes
<1>3. InBlock(b) \in SUBSET Nat /\ InBlock(b) # {}
  <2>1. b * KernelBlock \in InBlock(b) BY <1>2, Sizes DEF InBlock
  <2>2. InBlock(b) \in SUBSET Nat BY <1>2 DEF InBlock
  <2> QED BY <2>1, <2>2
<1>4. \A c \in InBlock(b) : KernelLogits(f, k, b)[c] =
        IF c \in RealColumns(k) THEN LocalLogits(f, k)[c] ELSE NegInf
  BY DEF KernelLogits, InBlock
<1>5. \A c \in InBlock(b) : KernelLogits(f, k, b)[c] =
        IF c \in Columns THEN MaskedLogits(f, k)[c] ELSE NegInf
  BY <1>4 DEF MaskedLogits, RealColumns
<1>6. NegInf <= PosInf
  <2>1. 0 \in Tokens BY Sizes DEF Tokens
  <2>2. f[0] \in Int /\ NegInf < f[0] /\ f[0] < PosInf BY <2>1 DEF Row
  <2> QED BY <2>2, Sizes
<1>7. \A c \in InBlock(b) : KernelLogits(f, k, b)[c] \in Int /\ KernelLogits(f, k, b)[c] <= PosInf
  <2> SUFFICES ASSUME NEW c \in InBlock(b)
               PROVE  KernelLogits(f, k, b)[c] \in Int /\ KernelLogits(f, k, b)[c] <= PosInf
    OBVIOUS
  <2>1. CASE c \in Columns BY <1>5, <2>1, MaskedTyped
  <2>2. CASE c \notin Columns BY <1>5, <1>6, <2>2, Sizes
  <2> QED BY <2>1, <2>2
<1>8. KernelLogits(f, k, b) \in [InBlock(b) -> Int]
  BY <1>7 DEF KernelLogits, InBlock
<1> QED BY <1>3, <1>5, <1>7, <1>8

(* Every column of the rank is in a block.                                  *)
LEMMA BlocksCoverColumns ==
  ASSUME NEW c \in Columns
  PROVE  \E b \in KernelBlocks : c \in InBlock(b)
<1> DEFINE b == c \div KernelBlock
           n == (ShardSize + KernelBlock - 1) \div KernelBlock
<1>1. c \in Nat /\ c < ShardSize BY Sizes DEF Columns
<1>2. b \in Nat /\ b * KernelBlock <= c /\ c < b * KernelBlock + KernelBlock
  BY <1>1, Sizes
<1>3. n \in Nat /\ ShardSize <= n * KernelBlock
  BY Sizes
<1>4. b < n
  <2> HIDE DEF b, n
  <2> SUFFICES ASSUME n <= b PROVE FALSE BY <1>2, <1>3
  <2>1. n * KernelBlock <= b * KernelBlock
    <3>1. CASE n = b BY <3>1, <1>2, Sizes
    <3>2. CASE n < b
      <4>1. n * KernelBlock + KernelBlock <= b * KernelBlock
        BY <3>2, <1>2, <1>3, NextPartStartsLater, Sizes
      <4> QED BY <4>1, <1>2, <1>3, Sizes
    <3> QED BY <3>1, <3>2, <1>2, <1>3
  <2>2. n * KernelBlock \in Nat /\ b * KernelBlock \in Nat BY <1>2, <1>3, Sizes
  <2> QED BY <2>1, <2>2, <1>1, <1>2, <1>3, Sizes
<1>5. b \in KernelBlocks BY <1>2, <1>3, <1>4 DEF KernelBlocks
<1>6. c \in InBlock(b)
  <2> HIDE DEF b, n
  <2>1. (b + 1) * KernelBlock = b * KernelBlock + KernelBlock BY <1>2, Sizes
  <2>2. b * KernelBlock \in Nat BY <1>2, Sizes
  <2> QED BY <1>1, <1>2, <2>1, <2>2, Sizes DEF InBlock
<1> HIDE DEF b, n
<1> QED BY <1>5, <1>6

(* The fused kernel finds a best column of the rank too.                    *)
LEMMA KernelBest ==
  ASSUME NEW f \in Row, NEW k \in Shards
  PROVE  BestColumn(f, k, KernelArgmax(f, k))
<1> DEFINE at  == [b \in KernelBlocks |-> FirstBest(KernelLogits(f, k, b))]
           val == [b \in KernelBlocks |-> KernelLogits(f, k, b)[at[b]]]
           t   == FirstBest(val)
<1>1. \A b \in KernelBlocks :
        /\ at[b] \in InBlock(b)
        /\ \A c \in InBlock(b) : Beats(KernelLogits(f, k, b), at[b], c)
  BY KernelBlockTyped, FirstBestExists, Sizes
<1>2. KernelBlocks \in SUBSET Nat /\ KernelBlocks # {}
  <2>1. 0 \in Columns BY Sizes DEF Columns
  <2> QED BY <2>1, BlocksCoverColumns DEF KernelBlocks
<1>3. at \in [KernelBlocks -> Nat]
  BY <1>1, KernelBlockTyped
<1>4. val \in [KernelBlocks -> Int] /\ \A b \in KernelBlocks : val[b] <= PosInf
  <2>1. \A b \in KernelBlocks : val[b] = KernelLogits(f, k, b)[at[b]] OBVIOUS
  <2>2. \A b \in KernelBlocks : val[b] \in Int /\ val[b] <= PosInf
    BY <1>1, <2>1, KernelBlockTyped
  <2> HIDE DEF at
  <2> QED BY <2>2
<1>5. t \in KernelBlocks /\ \A b \in KernelBlocks : Beats(val, t, b)
  <2> HIDE DEF val
  <2> QED BY <1>2, <1>4, FirstBestExists, Sizes
<1>6. \A b \in KernelBlocks : b * KernelBlock <= at[b] /\ at[b] < b * KernelBlock + KernelBlock
  <2> SUFFICES ASSUME NEW b \in KernelBlocks
               PROVE  b * KernelBlock <= at[b] /\ at[b] < b * KernelBlock + KernelBlock
    OBVIOUS
  <2> HIDE DEF at
  <2>1. b \in Nat BY <1>2
  <2>2. (b + 1) * KernelBlock = b * KernelBlock + KernelBlock /\ b * KernelBlock \in Nat
    BY <2>1, Sizes
  <2> QED BY <1>1, <1>3, <2>2, Sizes DEF InBlock
<1>7. \A b \in KernelBlocks : val[b] = KernelLogits(f, k, b)[at[b]]
  OBVIOUS
<1>8. KernelArgmax(f, k) = at[t]
  BY DEF KernelArgmax
<1> HIDE DEF at, val, t
<1>9. ASSUME NEW d \in Columns
      PROVE  val[t] > MaskedLogits(f, k)[d] \/ (val[t] = MaskedLogits(f, k)[d] /\ at[t] <= d)
  <2>1. PICK b \in KernelBlocks : d \in InBlock(b) BY BlocksCoverColumns
  <2>2. KernelLogits(f, k, b)[d] = MaskedLogits(f, k)[d] BY <2>1, KernelBlockTyped
  <2>3. val[b] > MaskedLogits(f, k)[d] \/ (val[b] = MaskedLogits(f, k)[d] /\ at[b] <= d)
    BY <1>1, <1>7, <2>1, <2>2 DEF Beats
  <2>4. MaskedLogits(f, k)[d] \in Int /\ d \in Nat
    BY MaskedTyped, Sizes DEF Columns
  <2>5. KernelBlock \in Nat BY Sizes
  <2> QED BY <1>2, <1>3, <1>4, <1>5, <1>6, <2>3, <2>4, <2>5, TwoLevels
<1>10. at[t] \in Columns /\ MaskedLogits(f, k)[at[t]] = val[t]
  <2>1. val[t] = IF at[t] \in Columns THEN MaskedLogits(f, k)[at[t]] ELSE NegInf
    BY <1>1, <1>5, <1>7, KernelBlockTyped
  <2>2. 0 \in Columns /\ at[t] \in Nat BY <1>3, <1>5, Sizes DEF Columns
  <2>3. MaskedLogits(f, k)[0] \in Int /\ MaskedLogits(f, k)[0] >= NegInf
    BY <2>2, MaskedTyped, LogitsBounded, Sizes
  <2>4. CASE at[t] \notin Columns
    <3>1. val[t] = NegInf BY <2>1, <2>4
    <3>2. at[t] <= 0 BY <1>9, <2>2, <2>3, <3>1, Sizes
    <3> QED BY <2>2, <2>4, <3>2
  <2> QED BY <2>1, <2>4
<1> QED BY <1>8, <1>9, <1>10 DEF BestColumn, Beats

-----------------------------------------------------------------------------
(* Of the best columns of the ranks, the first best stands for the first    *)
(* best token of the vocabulary.                                            *)
LEMMA ArgmaxFromLocalIsGreedy ==
  ASSUME NEW f \in Row, NEW index \in [Shards -> Columns],
         \A k \in Shards : BestColumn(f, k, index[k])
  PROVE  /\ ArgmaxFromLocal(f, index) \in Tokens
         /\ \A u \in Tokens : Beats(f, ArgmaxFromLocal(f, index), u)
<1> DEFINE val == [k \in Shards |-> MaskedLogits(f, k)[index[k]]]
           at  == [k \in Shards |-> VocabStart(k) + index[k]]
           t   == FirstBest(val)
<1>1. Shards \in SUBSET Nat /\ Shards # {} BY Sizes DEF Shards
<1>2. \A k \in Shards : index[k] \in Columns /\ index[k] \in Nat /\ index[k] < ShardSize
  BY Sizes DEF Columns
<1>3. val \in [Shards -> Int] /\ \A k \in Shards : val[k] <= PosInf
  BY <1>2, MaskedTyped
<1>4. at \in [Shards -> Nat]
        /\ \A k \in Shards : k * ShardSize <= at[k] /\ at[k] < k * ShardSize + ShardSize
  <2>1. \A k \in Shards : k * ShardSize \in Nat BY <1>1, Sizes
  <2> QED BY <1>2, <2>1, Sizes DEF VocabStart
<1>5. t \in Shards /\ \A k \in Shards : Beats(val, t, k)
  <2> HIDE DEF val
  <2> QED BY <1>1, <1>3, FirstBestExists, Sizes
<1>6. ArgmaxFromLocal(f, index) = at[t]
  BY <1>5 DEF ArgmaxFromLocal
<1>7. \A k \in Shards : val[k] = MaskedLogits(f, k)[index[k]] /\ at[k] = VocabStart(k) + index[k]
  OBVIOUS
<1> HIDE DEF val, at, t
<1>8. ASSUME NEW u \in Tokens
      PROVE  val[t] > f[u] \/ (val[t] = f[u] /\ at[t] <= u)
  <2> DEFINE k == u \div ShardSize
             c == u % ShardSize
  <2>1. u \in Nat /\ u < Vocab BY Sizes DEF Tokens
  <2>2. k \in Nat /\ c \in 0 .. ShardSize - 1 /\ u = k * ShardSize + c
    BY <2>1, Sizes
  <2> HIDE DEF k, c
  <2>3. k < TpSize
    <3> SUFFICES ASSUME TpSize <= k PROVE FALSE BY <2>2, Sizes
    <3>1. TpSize * ShardSize <= k * ShardSize
      <4>1. CASE TpSize = k BY <4>1, <2>2, Sizes
      <4>2. CASE TpSize < k
        <5>1. TpSize * ShardSize + ShardSize <= k * ShardSize
          BY <4>2, <2>2, NextPartStartsLater, Sizes
        <5> QED BY <5>1, <2>2, Sizes
      <4> QED BY <4>1, <4>2, <2>2, Sizes
    <3>2. TpSize * ShardSize \in Nat /\ k * ShardSize \in Nat BY <2>2, Sizes
    <3> QED BY <3>1, <3>2, <2>1, <2>2, Sizes
  <2>4. k \in Shards /\ c \in RealColumns(k) /\ VocabStart(k) + c = u
    BY <2>1, <2>2, <2>3, Sizes DEF Shards, RealColumns, Columns, VocabStart
  <2>5. c \in Columns /\ MaskedLogits(f, k)[c] = f[u] BY <2>4, MaskedTyped DEF RealColumns
  <2>6. val[k] > f[u] \/ (val[k] = f[u] /\ index[k] <= c)
    BY <1>7, <2>4, <2>5 DEF BestColumn, Beats
  <2>7. at[k] = VocabStart(k) + index[k] /\ VocabStart(k) \in Nat /\ c \in Nat
    BY <1>7, <2>2, <2>4, StartsAreNat DEF Shards
  <2>8. val[k] > f[u] \/ (val[k] = f[u] /\ at[k] <= u)
    BY <1>2, <2>4, <2>6, <2>7
  <2>9. f[u] \in Int /\ ShardSize \in Nat BY Sizes DEF Row
  <2>10. t \in Shards /\ \A j \in Shards : Beats(val, t, j) BY <1>5
  <2>11. /\ val \in [Shards -> Int] /\ at \in [Shards -> Nat] /\ k \in Shards /\ u \in Nat
         /\ \A j \in Shards : j * ShardSize <= at[j] /\ at[j] < j * ShardSize + ShardSize
    BY <1>3, <1>4, <2>1, <2>4
  <2> QED BY <1>1, <2>8, <2>9, <2>10, <2>11, TwoLevels
<1>9. index[t] \in RealColumns(t)
  <2>1. 0 \in Tokens BY Sizes DEF Tokens
  <2>2. f[0] \in Int /\ NegInf < f[0] BY <2>1 DEF Row
  <2>3. val[t] \in Int /\ val[t] > NegInf BY <1>3, <1>5, <1>8, <2>1, <2>2, Sizes
  <2> QED BY <1>2, <1>5, <1>7, <2>3, MaskedTyped, Sizes
<1>10. at[t] \in Tokens /\ f[at[t]] = val[t]
  BY <1>5, <1>7, <1>9, LogitsBounded, MaskedTyped
<1> QED BY <1>6, <1>8, <1>10 DEF Beats

(* Whichever way a call takes, it chooses the first best token.             *)
LEMMA ChoiceIsGreedy ==
  ASSUME NEW f \in Row
  PROVE  Choice(f) \in Tokens /\ \A u \in Tokens : Beats(f, Choice(f), u)
<1>1. Way \in {"gathered", "local", "fused"} BY DEF Way
<1>2. CASE Way = "gathered"
  <2>1. Choice(f) = FirstBest(f) BY <1>2 DEF Choice
  <2>2. Tokens \in SUBSET Nat /\ Tokens # {} BY Sizes DEF Tokens
  <2>3. f \in [Tokens -> Int] /\ \A u \in Tokens : f[u] <= PosInf BY Sizes DEF Row
  <2> QED BY <2>1, <2>2, <2>3, FirstBestExists, Sizes
<1>3. CASE Way = "local"
  <2> DEFINE index == [k \in Shards |-> FirstBest(MaskedLogits(f, k))]
  <2>1. Choice(f) = ArgmaxFromLocal(f, index) BY <1>3 DEF Choice
  <2>2. \A k \in Shards : index[k] = FirstBest(MaskedLogits(f, k)) OBVIOUS
  <2>3. index \in [Shards -> Columns] BY LocalBest DEF BestColumn
  <2>4. \A k \in Shards : BestColumn(f, k, index[k]) BY <2>2, LocalBest
  <2> HIDE DEF index
  <2> QED BY <2>1, <2>3, <2>4, ArgmaxFromLocalIsGreedy
<1>4. CASE Way = "fused"
  <2> DEFINE index == [k \in Shards |-> KernelArgmax(f, k)]
  <2>1. Choice(f) = ArgmaxFromLocal(f, index) BY <1>4 DEF Choice
  <2>2. \A k \in Shards : index[k] = KernelArgmax(f, k) OBVIOUS
  <2>3. index \in [Shards -> Columns] BY KernelBest DEF BestColumn
  <2>4. \A k \in Shards : BestColumn(f, k, index[k]) BY <2>2, KernelBest
  <2> HIDE DEF index
  <2> QED BY <2>1, <2>3, <2>4, ArgmaxFromLocalIsGreedy
<1> QED BY <1>1, <1>2, <1>3, <1>4

(* The types, and one draft and - on the gathered way - one returned row    *)
(* for each position.                                                       *)
BlockTypeOK ==
  /\ asked \in [logits : BOOLEAN, confidence : BOOLEAN]
  /\ bias \in Biases
  /\ base \in Seq([Tokens -> Scores])
  /\ outputIds \in Seq(Tokens) /\ Len(outputIds) = Len(base) + 1
  /\ logits \in Seq([Tokens -> Int])
  /\ asked.logits => Len(logits) = Len(base)

(* Base logits plus the Markov bias are a row of finite logits.             *)
LEMMA CorrectedIsRow ==
  ASSUME BlockTypeOK, NEW f \in [Tokens -> Scores], NEW prev \in Tokens
  PROVE  Corrected(f, prev) \in Row
<1>1. bias \in [Tokens -> [Tokens -> Int]] BY DraftBlockAssumption DEF BlockTypeOK
<1>2. \A t \in Tokens : f[t] \in Scores /\ f[t] \in Int /\ bias[prev][t] \in Int
  BY <1>1, DraftBlockAssumption
<1>3. \A t \in Tokens : NegInf < f[t] + bias[prev][t] /\ f[t] + bias[prev][t] < PosInf
  BY <1>2, DraftBlockAssumption DEF BlockTypeOK
<1> QED BY <1>2, <1>3 DEF Corrected, Row

(* One more position of the block is chosen greedily, whichever way.        *)
LEMMA PositionKeepsGreedy ==
  ASSUME BlockTypeOK, DraftsAreGreedy, DraftPosition
  PROVE  BlockTypeOK' /\ DraftsAreGreedy'
<1> DEFINE n == Len(base)
           prev == outputIds[n + 1]
<1>1. n \in Nat /\ prev \in Tokens /\ prev = outputIds[Len(outputIds)]
  BY DEF BlockTypeOK
<1> HIDE DEF n, prev
<1>2. PICK f \in [Tokens -> Scores] :
        /\ base' = Append(base, f)
        /\ outputIds' = Append(outputIds, Choice(Corrected(f, prev)))
        /\ logits' = ReturnedOf(Corrected(f, prev))
        /\ UNCHANGED <<asked, localArgmax, fusedArgmax, bias>>
  BY <1>1 DEF DraftPosition
<1> DEFINE g == Corrected(f, prev)
<1>3. g \in Row /\ g = [t \in Tokens |-> f[t] + bias[prev][t]]
  BY <1>1, CorrectedIsRow DEF Corrected
<1>4. g \in [Tokens -> Int] BY <1>3 DEF Row
<1> HIDE DEF g
<1>5. Choice(g) \in Tokens /\ \A u \in Tokens : Beats(g, Choice(g), u)
  BY <1>3, ChoiceIsGreedy
<1>6. /\ base' = Append(base, f) /\ outputIds' = Append(outputIds, Choice(g))
      /\ asked' = asked /\ bias' = bias /\ logits' = ReturnedOf(g)
  BY <1>2 DEF g
<1>7. asked.logits => logits' = Append(logits, g)
  BY <1>6 DEF ReturnedOf, Way
<1>8. BlockTypeOK'
  <2>1. logits' \in Seq([Tokens -> Int])
    BY <1>4, <1>6 DEF ReturnedOf, BlockTypeOK
  <2>2. asked'.logits => Len(logits') = Len(base')
    BY <1>4, <1>6, <1>7 DEF BlockTypeOK
  <2> QED BY <1>5, <1>6, <2>1, <2>2 DEF BlockTypeOK
<1>9. DraftsAreGreedy'
  <2> SUFFICES ASSUME NEW p \in DOMAIN base' PROVE GreedyAt(p)'
    BY DEF DraftsAreGreedy
  <2>1. p \in 1 .. n + 1 BY <1>1, <1>6 DEF BlockTypeOK, n
  <2>2. CASE p \in 1 .. n
    <3>1. p \in DOMAIN base /\ base'[p] = base[p]
      BY <1>6, <2>2 DEF BlockTypeOK, n
    <3>2. outputIds'[p] = outputIds[p] /\ outputIds'[p + 1] = outputIds[p + 1]
      BY <1>5, <1>6, <2>2 DEF BlockTypeOK, n
    <3>3. asked.logits => logits'[p] = logits[p]
      BY <1>4, <1>7, <2>2 DEF BlockTypeOK, n
    <3>4. Reference(p)' = Reference(p)
      BY <1>6, <3>1, <3>2 DEF Reference
    <3>5. GreedyAt(p) BY <3>1 DEF DraftsAreGreedy
    <3> QED BY <1>6, <3>2, <3>3, <3>4, <3>5 DEF GreedyAt, Beats
  <2>3. CASE p = n + 1
    <3>1. base'[p] = f BY <1>6, <2>3 DEF BlockTypeOK, n
    <3>2. outputIds'[p] = prev /\ outputIds'[p + 1] = Choice(g)
      BY <1>1, <1>5, <1>6, <2>3 DEF BlockTypeOK, n, prev
    <3>3. asked.logits => logits'[p] = g
      BY <1>4, <1>7, <2>3 DEF BlockTypeOK, n
    <3>4. Reference(p)' = g
      BY <1>3, <1>6, <3>1, <3>2 DEF Reference
    <3> QED BY <1>5, <1>6, <3>2, <3>3, <3>4 DEF GreedyAt, Beats
  <2> QED BY <1>1, <2>1, <2>2, <2>3
<1> QED BY <1>8, <1>9

(* Every draft is the first best token of the real vocabulary after the one *)
(* before it, for every vocabulary, number of ranks, padding, kernel block  *)
(* and Markov head, and on each of the three ways.                          *)
THEOREM DraftsAlwaysGreedy == BlockSpec => []DraftsAreGreedy
<1>1. BlockInit => BlockTypeOK /\ DraftsAreGreedy
  BY DEF BlockInit, BlockTypeOK, DraftsAreGreedy
<1>2. BlockTypeOK /\ DraftsAreGreedy /\ [DraftPosition]_blockVars
        => (BlockTypeOK /\ DraftsAreGreedy)'
  <2>1. CASE DraftPosition BY <2>1, PositionKeepsGreedy
  <2>2. CASE UNCHANGED blockVars
    <3>1. BlockTypeOK => BlockTypeOK' BY <2>2 DEF blockVars, BlockTypeOK
    <3>2. ASSUME NEW p, GreedyAt(p) PROVE GreedyAt(p)'
      BY <2>2, <3>2 DEF blockVars, GreedyAt, Reference, Beats
    <3> QED BY <2>2, <3>1, <3>2 DEF blockVars, DraftsAreGreedy
  <2> QED BY <2>1, <2>2
<1> QED BY <1>1, <1>2, PTL DEF BlockSpec

-----------------------------------------------------------------------------
(* The schedulers.                                                          *)

(* A sequence of values each of which a function of the step gives from the *)
(* one before it: what a recursive definition over 0 .. n computes.         *)
Iterates(n, s0, step, g) ==
  g[0] = s0 /\ \A i \in 1 .. n : g[i] = step[i][g[i - 1]]

(* Such a sequence exists.                                                  *)
LEMMA IteratesExist ==
  ASSUME NEW n \in Nat, NEW S, NEW s0 \in S, NEW step \in [1 .. n -> [S -> S]]
  PROVE  \E g \in [0 .. n -> S] : Iterates(n, s0, step, g)
<1> DEFINE Good(m) == \E g \in [0 .. m -> S] : Iterates(m, s0, step, g)
           Bad == { m \in 0 .. n : ~Good(m) }
<1>1. SUFFICES ASSUME Bad # {} PROVE FALSE
  <2>1. n \in 0 .. n OBVIOUS
  <2> QED BY <2>1
<1>2. Bad \in SUBSET Nat OBVIOUS
<1>3. PICK m \in Bad : \A k \in Bad : m <= k
  <2> HIDE DEF Bad
  <2> QED BY <1>1, <1>2, LeastExists
<1>4. m \in Nat /\ m <= n /\ ~Good(m) OBVIOUS
<1>5. m # 0
  <2>1. [i \in 0 .. 0 |-> s0] \in [0 .. 0 -> S] OBVIOUS
  <2>2. Iterates(0, s0, step, [i \in 0 .. 0 |-> s0])
    BY DEF Iterates
  <2>3. Good(0) BY <2>1, <2>2
  <2> HIDE DEF Good
  <2> QED BY <1>4, <2>3
<1>6. m - 1 \in 0 .. n /\ m - 1 < m BY <1>4, <1>5
<1>7. Good(m - 1)
  <2>1. m - 1 \notin Bad BY <1>3, <1>6
  <2> QED BY <1>6, <2>1
<1>8. PICK g \in [0 .. m - 1 -> S] : Iterates(m - 1, s0, step, g) BY <1>7
<1> DEFINE h == [i \in 0 .. m |-> IF i = m THEN step[m][g[m - 1]] ELSE g[i]]
<1>9. h \in [0 .. m -> S]
  <2>1. g[m - 1] \in S /\ step[m] \in [S -> S] BY <1>4, <1>5, <1>6
  <2>2. step[m][g[m - 1]] \in S BY <2>1
  <2>3. \A i \in 0 .. m : i # m => g[i] \in S BY <1>4
  <2> QED BY <2>2, <2>3
<1>10. Iterates(m, s0, step, h)
  <2>1. h[0] = s0 BY <1>4, <1>5, <1>8 DEF Iterates
  <2>2. ASSUME NEW i \in 1 .. m PROVE h[i] = step[i][h[i - 1]]
    <3>1. CASE i = m
      <4>1. h[m - 1] = g[m - 1] /\ h[m] = step[m][g[m - 1]] BY <1>4, <1>5
      <4> QED BY <3>1, <4>1
    <3>2. CASE i # m
      <4>1. i \in 1 .. m - 1 /\ i - 1 \in 0 .. m /\ i - 1 # m BY <1>4, <3>2
      <4>2. h[i - 1] = g[i - 1] /\ h[i] = g[i] BY <4>1
      <4>3. g[i] = step[i][g[i - 1]] BY <1>8, <4>1 DEF Iterates
      <4> QED BY <4>2, <4>3
    <3> QED BY <3>1, <3>2
  <2> HIDE DEF h
  <2> QED BY <2>1, <2>2 DEF Iterates
<1> QED BY <1>4, <1>9, <1>10

(* And it is the only one.                                                  *)
LEMMA IteratesUnique ==
  ASSUME NEW n \in Nat, NEW s0, NEW step, NEW g, NEW h,
         Iterates(n, s0, step, g), Iterates(n, s0, step, h)
  PROVE  \A i \in 0 .. n : g[i] = h[i]
<1> DEFINE Bad == { i \in 0 .. n : g[i] # h[i] }
<1> SUFFICES ASSUME Bad # {} PROVE FALSE OBVIOUS
<1>1. Bad \in SUBSET Nat OBVIOUS
<1>2. PICK m \in Bad : \A k \in Bad : m <= k
  <2> HIDE DEF Bad
  <2> QED BY <1>1, LeastExists
<1>3. m \in 0 .. n /\ g[m] # h[m] OBVIOUS
<1>4. m # 0 BY <1>3 DEF Iterates
<1>5. m - 1 \in 0 .. n /\ m - 1 < m /\ m \in 1 .. n BY <1>3, <1>4
<1>6. g[m - 1] = h[m - 1] BY <1>2, <1>5
<1> QED BY <1>3, <1>5, <1>6 DEF Iterates

-----------------------------------------------------------------------------
(* The product behind a survival.                                           *)
Product(row, p) ==
  CHOOSE f : f = [i \in 0 .. p |-> IF i = 0 THEN 1 ELSE f[i - 1] * row[i]]

(* The survival of a draft, in terms of its product.                        *)
LEMMA SurvivalIs ==
  ASSUME NEW row, NEW p
  PROVE  Survival(row, p) = Product(row, p)[p] * Power[SpecTokens - p]
  BY DEF Survival, Product

(* The products are natural numbers, each from the one before it.           *)
LEMMA ProductIs ==
  ASSUME NEW p \in Nat, NEW row, \A i \in 1 .. p : row[i] \in Nat
  PROVE  /\ Product(row, p) \in [0 .. p -> Nat]
         /\ Product(row, p)[0] = 1
         /\ \A i \in 1 .. p : Product(row, p)[i] = Product(row, p)[i - 1] * row[i]
<1> DEFINE step == [i \in 1 .. p |-> [x \in Nat |-> x * row[i]]]
<1>1. step \in [1 .. p -> [Nat -> Nat]] OBVIOUS
<1>2. PICK g \in [0 .. p -> Nat] : Iterates(p, 1, step, g)
  <2> HIDE DEF step
  <2> QED BY <1>1, IteratesExist
<1>3. g[0] = 1 /\ \A i \in 1 .. p : g[i] = g[i - 1] * row[i]
  <2>1. \A i \in 1 .. p : g[i - 1] \in Nat OBVIOUS
  <2> QED BY <1>2, <2>1 DEF Iterates
<1> HIDE DEF step
<1>4. g = [i \in 0 .. p |-> IF i = 0 THEN 1 ELSE g[i - 1] * row[i]]
  <2> DEFINE k == [i \in 0 .. p |-> IF i = 0 THEN 1 ELSE g[i - 1] * row[i]]
  <2>1. \A i \in 0 .. p : g[i] = k[i] BY <1>3
  <2>2. DOMAIN g = 0 .. p /\ DOMAIN k = 0 .. p /\ g = [i \in 0 .. p |-> g[i]] OBVIOUS
  <2> QED BY <2>1, <2>2
<1>5. Product(row, p) = [i \in 0 .. p |-> IF i = 0 THEN 1 ELSE Product(row, p)[i - 1] * row[i]]
  BY <1>4, Zenon DEF Product
<1> DEFINE q == Product(row, p)
<1> HIDE DEF q
<1>6. q = [i \in 0 .. p |-> IF i = 0 THEN 1 ELSE q[i - 1] * row[i]] BY <1>5 DEF q
<1>7. q[0] = 1 /\ \A i \in 1 .. p : q[i] = q[i - 1] * row[i]
  <2>1. 0 \in 0 .. p /\ \A i \in 1 .. p : i \in 0 .. p /\ i # 0 OBVIOUS
  <2> QED BY <1>6, <2>1
<1>8. Iterates(p, 1, [i \in 1 .. p |-> [x \in Nat |-> x * row[i]]], g)
  BY <1>2 DEF step
<1>9. q \in [0 .. p -> Nat]
  <2> DEFINE Bad == { i \in 0 .. p : q[i] # g[i] }
  <2>1. Bad = {}
    <3> SUFFICES ASSUME Bad # {} PROVE FALSE OBVIOUS
    <3>1. Bad \in SUBSET Nat OBVIOUS
    <3>2. PICK m \in Bad : \A k \in Bad : m <= k
      <4> HIDE DEF Bad
      <4> QED BY <3>1, LeastExists
    <3>3. m \in 0 .. p /\ q[m] # g[m] OBVIOUS
    <3>4. m # 0 BY <1>3, <1>7, <3>3
    <3>5. m - 1 \in 0 .. p /\ m - 1 < m /\ m \in 1 .. p BY <3>3, <3>4
    <3>6. g[m - 1] = q[m - 1] BY <3>2, <3>5
    <3> QED BY <1>3, <1>7, <3>3, <3>5, <3>6
  <2>2. DOMAIN q = 0 .. p BY <1>6
  <2>3. q = [i \in 0 .. p |-> q[i]] BY <1>6
  <2>4. \A i \in 0 .. p : q[i] = g[i] BY <2>1
  <2> QED BY <2>3, <2>4
<1> QED BY <1>7, <1>9 DEF q

(* The constants are numbers.                                               *)
LEMMA ScheduleSizes ==
  /\ Requests \in Nat \ {0} /\ SpecTokens \in Nat \ {0} /\ Unit \in Nat \ {0}
  /\ Confidences \subseteq Nat /\ Rates \subseteq Nat
<1>1. /\ {Requests, SpecTokens, Unit} \subseteq Nat \ {0}
      /\ Confidences \subseteq 0 .. Unit /\ Rates \subseteq Nat
  BY PrefixScheduleAssumption
<1>2. \A a \in 0 .. Unit : a \in Nat OBVIOUS
<1>3. Requests \in {Requests, SpecTokens, Unit} /\ SpecTokens \in {Requests, SpecTokens, Unit}
      /\ Unit \in {Requests, SpecTokens, Unit}
  OBVIOUS
<1> QED BY <1>1, <1>2, <1>3, Zenon

(* Power is the function its definition says.                               *)
LEMMA PowerIs ==
  Power \in [Nat -> Nat] /\ Power[0] = 1 /\ \A n \in Nat \ {0} : Power[n] = Unit * Power[n - 1]
<1>1. Unit \in Nat BY ScheduleSizes
<1> DEFINE step(n) == [i \in 1 .. n |-> [x \in Nat |-> Unit * x]]
           G(n) == CHOOSE g \in [0 .. n -> Nat] : Iterates(n, 1, step(n), g)
           F == [n \in Nat |-> G(n)[n]]
<1>2. ASSUME NEW n \in Nat
      PROVE  /\ G(n) \in [0 .. n -> Nat] /\ G(n)[0] = 1
             /\ \A i \in 1 .. n : G(n)[i] = Unit * G(n)[i - 1]
  <2>1. step(n) \in [1 .. n -> [Nat -> Nat]] BY <1>1
  <2>2. \E g \in [0 .. n -> Nat] : Iterates(n, 1, step(n), g)
    <3> HIDE DEF step
    <3> QED BY <2>1, IteratesExist
  <2>3. G(n) \in [0 .. n -> Nat] /\ Iterates(n, 1, step(n), G(n))
    <3> HIDE DEF step
    <3> QED BY <2>2
  <2> HIDE DEF G
  <2>4. \A i \in 1 .. n : G(n)[i - 1] \in Nat BY <2>3
  <2> QED BY <2>3, <2>4 DEF Iterates
<1> HIDE DEF G
<1>3. ASSUME NEW n \in Nat \ {0} PROVE G(n)[n - 1] = G(n - 1)[n - 1]
  <2> DEFINE Bad == { i \in 0 .. n - 1 : G(n)[i] # G(n - 1)[i] }
  <2>1. n - 1 \in Nat /\ n \in Nat OBVIOUS
  <2>2. Bad = {}
    <3> SUFFICES ASSUME Bad # {} PROVE FALSE OBVIOUS
    <3>1. Bad \in SUBSET Nat OBVIOUS
    <3>2. PICK m \in Bad : \A k \in Bad : m <= k
      <4> HIDE DEF Bad
      <4> QED BY <3>1, LeastExists
    <3>3. m \in 0 .. n - 1 /\ G(n)[m] # G(n - 1)[m] OBVIOUS
    <3>4. m # 0 BY <1>2, <2>1, <3>3
    <3>5. m - 1 \in 0 .. n - 1 /\ m - 1 < m /\ m \in 1 .. n /\ m \in 1 .. n - 1 BY <3>3, <3>4
    <3>6. G(n)[m - 1] = G(n - 1)[m - 1] BY <3>2, <3>5
    <3>7. G(n)[m] = Unit * G(n)[m - 1] BY <1>2, <2>1, <3>5
    <3>8. G(n - 1)[m] = Unit * G(n - 1)[m - 1] BY <1>2, <2>1, <3>5
    <3> QED BY <3>3, <3>6, <3>7, <3>8
  <2>3. n - 1 \in 0 .. n - 1 OBVIOUS
  <2> QED BY <2>2, <2>3
<1>4. F \in [Nat -> Nat]
  <2>1. \A n \in Nat : G(n)[n] \in Nat BY <1>2
  <2> QED BY <2>1
<1>5. F = [n \in Nat |-> IF n = 0 THEN 1 ELSE Unit * F[n - 1]]
  <2>1. ASSUME NEW n \in Nat PROVE G(n)[n] = IF n = 0 THEN 1 ELSE Unit * F[n - 1]
    <3>1. CASE n = 0 BY <1>2, <3>1
    <3>2. CASE n # 0
      <4>1. n \in 1 .. n /\ n - 1 \in Nat BY <3>2
      <4>2. G(n)[n] = Unit * G(n)[n - 1] BY <1>2, <4>1
      <4>3. G(n)[n - 1] = F[n - 1] BY <1>3, <3>2, <4>1
      <4> QED BY <3>2, <4>2, <4>3
    <3> QED BY <3>1, <3>2
  <2> QED BY <2>1
<1> HIDE DEF F
<1>6. Power = [n \in Nat |-> IF n = 0 THEN 1 ELSE Unit * Power[n - 1]]
  BY <1>5, Zenon DEF Power
<1>7. Power[0] = 1 /\ \A n \in Nat \ {0} : Power[n] = Unit * Power[n - 1]
  <2>1. \A n \in Nat : Power[n] = IF n = 0 THEN 1 ELSE Unit * Power[n - 1]
    BY <1>6, Zenon
  <2> QED BY <2>1
<1>8. F[0] = 1 /\ \A n \in Nat \ {0} : F[n] = Unit * F[n - 1]
  <2>1. \A n \in Nat : F[n] = IF n = 0 THEN 1 ELSE Unit * F[n - 1]
    BY <1>5, Zenon
  <2> QED BY <2>1
<1>9. \A n \in Nat : Power[n] = F[n]
  <2> DEFINE Bad == { n \in Nat : Power[n] # F[n] }
  <2> SUFFICES ASSUME Bad # {} PROVE FALSE OBVIOUS
  <2>1. Bad \in SUBSET Nat OBVIOUS
  <2>2. PICK m \in Bad : \A k \in Bad : m <= k
    <3> HIDE DEF Bad
    <3> QED BY <2>1, LeastExists
  <2>3. m \in Nat /\ Power[m] # F[m] OBVIOUS
  <2>4. m # 0 BY <1>7, <1>8, <2>3
  <2>5. m - 1 \in Nat /\ m - 1 < m BY <2>3, <2>4
  <2>6. Power[m - 1] = F[m - 1] BY <2>2, <2>5
  <2> QED BY <1>7, <1>8, <2>3, <2>4, <2>6
<1>10. Power \in [Nat -> Nat]
  <2>1. DOMAIN Power = Nat /\ Power = [n \in DOMAIN Power |-> Power[n]] BY <1>6, Zenon
  <2> QED BY <1>4, <1>9, <2>1
<1> QED BY <1>7, <1>10

-----------------------------------------------------------------------------
(* What the sums of the model are: MapThenSumSet peels the set element by   *)
(* element, in the order a choice gives.                                    *)
Pick(s) == CHOOSE x \in s : TRUE

IsSum(f, S, it) ==
  it = [s \in SUBSET S |-> IF s = {} THEN 0 ELSE f[Pick(s)] + it[s \ {Pick(s)}]]

(* Taking the chosen element out of a set.                                  *)
LEMMA PickOut ==
  ASSUME NEW S, IsFiniteSet(S), NEW s \in SUBSET S, s # {}
  PROVE  /\ Pick(s) \in s /\ s \ {Pick(s)} \in SUBSET S
         /\ Cardinality(s) \in Nat /\ Cardinality(s \ {Pick(s)}) = Cardinality(s) - 1
<1>1. Pick(s) \in s BY DEF Pick
<1>2. IsFiniteSet(s) BY FS_Subset
<1> QED BY <1>1, <1>2, FS_RemoveElement, FS_CardinalityType

(* The sum over a finite set exists.                                        *)
LEMMA SumExists ==
  ASSUME NEW S, IsFiniteSet(S), NEW f \in [S -> Nat]
  PROVE  \E it \in [SUBSET S -> Nat] : IsSum(f, S, it)
<1> DEFINE Sub(n) == { s \in SUBSET S : Cardinality(s) <= n }
           Sat(n, it) == \A s \in Sub(n) :
                           it[s] = IF s = {} THEN 0 ELSE f[Pick(s)] + it[s \ {Pick(s)}]
           Good(n) == \E it \in [Sub(n) -> Nat] : Sat(n, it)
           Bad == { n \in Nat : ~Good(n) }
<1>0. \A s \in SUBSET S : Cardinality(s) \in Nat /\ (Cardinality(s) = 0 <=> s = {})
  BY FS_Subset, FS_EmptySet, FS_CardinalityType
<1>1. Bad = {}
  <2> SUFFICES ASSUME Bad # {} PROVE FALSE OBVIOUS
  <2>1. Bad \in SUBSET Nat OBVIOUS
  <2>2. PICK n \in Bad : \A k \in Bad : n <= k
    <3> HIDE DEF Bad
    <3> QED BY <2>1, LeastExists
  <2>3. n \in Nat /\ ~Good(n) OBVIOUS
  <2>4. n # 0
    <3> DEFINE z == [s \in Sub(0) |-> 0]
    <3>1. \A s \in Sub(0) : s = {} BY <1>0
    <3>2. z \in [Sub(0) -> Nat] /\ Sat(0, z) BY <3>1
    <3>3. Good(0) BY <3>2
    <3> HIDE DEF Good
    <3> QED BY <2>3, <3>3
  <2>5. n - 1 \in Nat /\ n - 1 < n BY <2>3, <2>4
  <2>6. Good(n - 1)
    <3>1. n - 1 \notin Bad
      <4> HIDE DEF Bad
      <4> QED BY <2>2, <2>3, <2>5
    <3> HIDE DEF Good
    <3> QED BY <2>5, <3>1
  <2>7. PICK it \in [Sub(n - 1) -> Nat] : Sat(n - 1, it) BY <2>6
  <2> DEFINE h == [s \in Sub(n) |-> IF s = {} THEN 0 ELSE f[Pick(s)] + it[s \ {Pick(s)}]]
  <2>8. ASSUME NEW s \in Sub(n), s # {}
        PROVE  Pick(s) \in S /\ s \ {Pick(s)} \in Sub(n - 1)
    <3>1. s \in SUBSET S /\ Cardinality(s) <= n OBVIOUS
    <3>2. /\ Pick(s) \in s /\ s \ {Pick(s)} \in SUBSET S
          /\ Cardinality(s) \in Nat /\ Cardinality(s \ {Pick(s)}) = Cardinality(s) - 1
      BY <2>8, <3>1, PickOut
    <3>3. Cardinality(s) - 1 <= n - 1 BY <2>3, <3>1, <3>2
    <3> QED BY <3>1, <3>2, <3>3
  <2>9. h \in [Sub(n) -> Nat]
    <3>1. ASSUME NEW s \in Sub(n) PROVE h[s] \in Nat
      <4>1. CASE s = {} BY <4>1
      <4>2. CASE s # {}
        <5>1. f[Pick(s)] \in Nat /\ it[s \ {Pick(s)}] \in Nat BY <2>7, <2>8, <4>2
        <5> HIDE DEF Sub
        <5>2. h[s] = f[Pick(s)] + it[s \ {Pick(s)}] BY <4>2
        <5> QED BY <5>1, <5>2
      <4> QED BY <4>1, <4>2
    <3> HIDE DEF Sub
    <3> QED BY <3>1
  <2>10. ASSUME NEW s \in Sub(n - 1) PROVE h[s] = it[s]
    <3>1. s \in Sub(n) BY <1>0, <2>3
    <3>2. it[s] = IF s = {} THEN 0 ELSE f[Pick(s)] + it[s \ {Pick(s)}] BY <2>7
    <3> HIDE DEF Sub
    <3> QED BY <3>1, <3>2
  <2>11. Sat(n, h)
    <3>1. ASSUME NEW s \in Sub(n)
          PROVE  h[s] = IF s = {} THEN 0 ELSE f[Pick(s)] + h[s \ {Pick(s)}]
      <4>1. CASE s = {} BY <4>1
      <4>2. CASE s # {}
        <5>1. s \ {Pick(s)} \in Sub(n - 1) BY <2>8, <4>2
        <5>2. h[s \ {Pick(s)}] = it[s \ {Pick(s)}] BY <2>10, <5>1
        <5> HIDE DEF Sub
        <5>3. h[s] = f[Pick(s)] + it[s \ {Pick(s)}] BY <4>2
        <5> QED BY <4>2, <5>2, <5>3
      <4> QED BY <4>1, <4>2
    <3> HIDE DEF Sub, h
    <3> QED BY <3>1
  <2>12. Good(n)
    <3> HIDE DEF Sat, h, Sub
    <3> QED BY <2>9, <2>11
  <2> HIDE DEF Good
  <2> QED BY <2>3, <2>12
<1>2. Cardinality(S) \in Nat BY FS_CardinalityType
<1>3. PICK it \in [Sub(Cardinality(S)) -> Nat] : Sat(Cardinality(S), it)
  <2> HIDE DEF Sat, Sub
  <2> QED BY <1>1, <1>2
<1>4. Sub(Cardinality(S)) = SUBSET S
  <2>1. \A s \in SUBSET S : Cardinality(s) <= Cardinality(S) BY FS_Subset
  <2> QED BY <2>1
<1>5. it \in [SUBSET S -> Nat] BY <1>3, <1>4
<1>6. \A s \in SUBSET S : it[s] = IF s = {} THEN 0 ELSE f[Pick(s)] + it[s \ {Pick(s)}]
  BY <1>3, <1>4
<1>7. IsSum(f, S, it)
  <2> DEFINE h == [s \in SUBSET S |-> IF s = {} THEN 0 ELSE f[Pick(s)] + it[s \ {Pick(s)}]]
  <2>1. \A s \in SUBSET S : it[s] = h[s] BY <1>6, Zenon
  <2>2. it = [s \in SUBSET S |-> it[s]] /\ h = [s \in SUBSET S |-> h[s]] BY <1>5
  <2>3. it = h
    <3> HIDE DEF h
    <3> QED BY <2>1, <2>2
  <2> QED BY <2>3 DEF IsSum
<1> QED BY <1>5, <1>7

(* A sum of n numbers up to k each lies in 0 .. n * k.                      *)
LEMMA SumBounds ==
  ASSUME NEW S, IsFiniteSet(S), NEW k \in Nat, NEW f \in [S -> 0 .. k],
         NEW it, IsSum(f, S, it)
  PROVE  \A s \in SUBSET S : it[s] \in Nat /\ it[s] <= Cardinality(s) * k
<1>1. \A s \in SUBSET S : Cardinality(s) \in Nat /\ (Cardinality(s) = 0 <=> s = {})
  BY FS_Subset, FS_EmptySet, FS_CardinalityType
<1>2. \A s \in SUBSET S : it[s] = IF s = {} THEN 0 ELSE f[Pick(s)] + it[s \ {Pick(s)}]
  BY Zenon DEF IsSum
<1> DEFINE Ok(s) == it[s] \in Nat /\ it[s] <= Cardinality(s) * k
           Bad == { n \in Nat : \E s \in SUBSET S : Cardinality(s) = n /\ ~Ok(s) }
<1>3. Bad = {}
  <2> SUFFICES ASSUME Bad # {} PROVE FALSE OBVIOUS
  <2>1. Bad \in SUBSET Nat OBVIOUS
  <2>2. PICK n \in Bad : \A j \in Bad : n <= j
    <3> HIDE DEF Bad
    <3> QED BY <2>1, LeastExists
  <2>3. PICK s \in SUBSET S : Cardinality(s) = n /\ ~Ok(s)
    <3> HIDE DEF Ok
    <3> QED OBVIOUS
  <2>4. n \in Nat OBVIOUS
  <2>5. CASE s = {}
    <3>1. it[s] = 0 /\ Cardinality(s) = 0 BY <1>1, <1>2, <2>5
    <3> QED BY <2>3, <3>1
  <2>6. CASE s # {}
    <3> DEFINE t == s \ {Pick(s)}
    <3>1. Pick(s) \in s /\ t \in SUBSET S /\ Cardinality(t) = n - 1 /\ n - 1 \in Nat
      <4>1. Cardinality(t) = Cardinality(s) - 1 /\ Pick(s) \in s /\ t \in SUBSET S
        BY <2>6, PickOut
      <4>2. n # 0 BY <1>1, <2>3, <2>6
      <4> QED BY <2>3, <2>4, <4>1, <4>2
    <3> HIDE DEF t
    <3>2. Ok(t)
      <4>1. n - 1 \notin Bad BY <2>2, <2>4, <3>1
      <4> HIDE DEF Ok
      <4> QED BY <3>1, <4>1
    <3>3. it[s] = f[Pick(s)] + it[t] BY <1>2, <2>6 DEF t
    <3>4. f[Pick(s)] \in 0 .. k BY <3>1
    <3>5. it[t] \in Nat /\ it[t] <= (n - 1) * k BY <3>1, <3>2
    <3>6. (n - 1) * k + k = n * k BY <2>4
    <3>7. it[s] \in Nat /\ it[s] <= n * k
      <4> DEFINE a == f[Pick(s)]
                 b == it[t]
                 c == (n - 1) * k
                 e == n * k
      <4>1. c \in Int /\ e \in Int BY <2>4
      <4> HIDE DEF a, b, c, e
      <4>2. a \in 0 .. k /\ b \in Nat /\ b <= c /\ c + k = e BY <3>4, <3>5, <3>6 DEF a, b, c, e
      <4>3. a + b \in Nat /\ a + b <= e BY <4>1, <4>2
      <4> QED BY <3>3, <4>3 DEF a, b, e
    <3> QED BY <2>3, <3>7
  <2> QED BY <2>5, <2>6
<1> QED
  <2> HIDE DEF Ok
  <2>1. \A s \in SUBSET S : Ok(s) BY <1>1, <1>3
  <2> QED BY <2>1 DEF Ok

-----------------------------------------------------------------------------
(* Survivals and the lengths that a threshold gives.                        *)

RowsType == rows \in [Reqs -> [Positions -> Confidences]]

(* A survival is a natural number.                                          *)
LEMMA SurvivalNat ==
  ASSUME NEW row \in [Positions -> Confidences], NEW p \in 0 .. SpecTokens
  PROVE  Survival(row, p) \in Nat
<1>1. p \in Nat /\ SpecTokens - p \in Nat BY ScheduleSizes
<1>2. \A i \in 1 .. p : row[i] \in Nat
  <2>1. \A i \in 1 .. p : i \in Positions BY ScheduleSizes DEF Positions
  <2>2. \A i \in Positions : row[i] \in Nat BY ScheduleSizes
  <2> QED BY <2>1, <2>2
<1>3. Product(row, p)[p] \in Nat BY <1>1, <1>2, ProductIs
<1>4. Power[SpecTokens - p] \in Nat BY <1>1, PowerIs
<1> HIDE DEF Product
<1> QED BY <1>3, <1>4, SurvivalIs

(* The survival of a draft is a matter of the confidences up to it.         *)
LEMMA SurvivalOfPrefix ==
  ASSUME NEW a \in [Positions -> Confidences], NEW b \in [Positions -> Confidences],
         NEW p \in 0 .. SpecTokens, \A i \in 1 .. p : a[i] = b[i]
  PROVE  Survival(a, p) = Survival(b, p)
<1>1. p \in Nat BY ScheduleSizes
<1>2. \A i \in 1 .. p : a[i] \in Nat /\ b[i] \in Nat
  <2>1. \A i \in 1 .. p : i \in Positions BY ScheduleSizes DEF Positions
  <2>2. \A i \in Positions : a[i] \in Nat /\ b[i] \in Nat BY ScheduleSizes
  <2> QED BY <2>1, <2>2
<1> DEFINE f == Product(a, p)
           g == Product(b, p)
<1>3. f[0] = 1 /\ \A i \in 1 .. p : f[i] = f[i - 1] * a[i] BY <1>1, <1>2, ProductIs
<1>4. g[0] = 1 /\ \A i \in 1 .. p : g[i] = g[i - 1] * b[i] BY <1>1, <1>2, ProductIs
<1> HIDE DEF f, g
<1> DEFINE Bad == { i \in 0 .. p : f[i] # g[i] }
<1>5. Bad = {}
  <2> SUFFICES ASSUME Bad # {} PROVE FALSE OBVIOUS
  <2>1. Bad \in SUBSET Nat OBVIOUS
  <2>2. PICK m \in Bad : \A k \in Bad : m <= k
    <3> HIDE DEF Bad
    <3> QED BY <2>1, LeastExists
  <2>3. m \in 0 .. p /\ f[m] # g[m] OBVIOUS
  <2>4. m # 0 BY <1>3, <1>4, <2>3
  <2>5. m - 1 \in 0 .. p /\ m - 1 < m /\ m \in 1 .. p BY <2>3, <2>4
  <2>6. f[m - 1] = g[m - 1] BY <2>2, <2>5
  <2>7. f[m] = f[m - 1] * a[m] /\ g[m] = g[m - 1] * b[m] /\ a[m] = b[m] BY <1>3, <1>4, <2>5
  <2> QED BY <2>3, <2>6, <2>7
<1>6. f[p] = g[p] BY <1>1, <1>5
<1> QED BY <1>6, SurvivalIs DEF f, g

(* A threshold cuts a row at the first draft below it, or nowhere.          *)
LEMMA ThresholdCuts ==
  ASSUME NEW row \in [Positions -> Confidences], NEW threshold \in 1 .. Unit
  PROVE  LET n == ThresholdLength(row, threshold)
             floor == threshold * Power[SpecTokens - 1]
         IN  /\ n \in 0 .. SpecTokens
             /\ \A p \in 1 .. n : Survival(row, p) >= floor
             /\ n < SpecTokens => Survival(row, n + 1) < floor
<1> DEFINE floor == threshold * Power[SpecTokens - 1]
           Cut(n) == /\ \A p \in 1 .. n : Survival(row, p) >= floor
                     /\ n < SpecTokens => Survival(row, n + 1) < floor
           Short == { n \in 0 .. SpecTokens : n = SpecTokens \/ Survival(row, n + 1) < floor }
<1>1. SpecTokens \in Nat \ {0} /\ Unit \in Nat BY ScheduleSizes
<1>2. floor \in Nat
  <2>1. SpecTokens - 1 \in Nat /\ threshold \in Nat BY <1>1
  <2>2. Power[SpecTokens - 1] \in Nat BY <2>1, PowerIs
  <2> QED BY <2>1, <2>2
<1> HIDE DEF floor
<1>3. Short \in SUBSET Nat /\ Short # {}
  <2>1. SpecTokens \in Short BY <1>1
  <2> QED BY <1>1, <2>1
<1>4. PICK n \in Short : \A k \in Short : n <= k
  <2> HIDE DEF Short
  <2> QED BY <1>3, LeastExists
<1>5. n \in 0 .. SpecTokens /\ n \in Nat BY <1>1
<1>6. ASSUME NEW p \in 1 .. n PROVE Survival(row, p) >= floor
  <2>1. p - 1 \in 0 .. SpecTokens /\ p - 1 < n /\ p - 1 # SpecTokens /\ p \in 0 .. SpecTokens
    BY <1>1, <1>5
  <2>2. p - 1 \notin Short
    <3> HIDE DEF Short
    <3> QED BY <1>4, <1>5, <2>1
  <2>3. ~(Survival(row, p) < floor)
    <3>1. p - 1 + 1 = p BY <2>1
    <3>2. ~(Survival(row, p - 1 + 1) < floor) BY <2>1, <2>2
    <3> QED BY <3>1, <3>2
  <2>4. Survival(row, p) \in Nat BY <2>1, SurvivalNat
  <2> QED BY <1>2, <2>3, <2>4
<1>7. Cut(n)
  <2>1. n < SpecTokens => n # SpecTokens BY <1>1, <1>5
  <2> QED BY <1>6, <2>1
<1>8. \E k \in 0 .. SpecTokens : Cut(k) BY <1>5, <1>7
<1>9. ThresholdLength(row, threshold) = CHOOSE k \in 0 .. SpecTokens : Cut(k)
  BY DEF ThresholdLength, floor
<1> HIDE DEF Cut
<1>10. ThresholdLength(row, threshold) \in 0 .. SpecTokens /\ Cut(ThresholdLength(row, threshold))
  BY <1>8, <1>9
<1> QED BY <1>10 DEF Cut, floor

(* Rows that agree up to n are cut alike up to n.                           *)
LEMMA ThresholdOfPrefix ==
  ASSUME NEW a \in [Positions -> Confidences], NEW b \in [Positions -> Confidences],
         NEW threshold \in 1 .. Unit, NEW n \in Positions, \A p \in 1 .. n : a[p] = b[p],
         ThresholdLength(a, threshold) >= n
  PROVE  ThresholdLength(b, threshold) >= n
<1> DEFINE x == ThresholdLength(a, threshold)
           y == ThresholdLength(b, threshold)
           floor == threshold * Power[SpecTokens - 1]
<1>1. SpecTokens \in Nat \ {0} /\ Unit \in Nat /\ n \in 1 .. SpecTokens
  BY ScheduleSizes DEF Positions
<1>2. x \in 0 .. SpecTokens /\ \A p \in 1 .. x : Survival(a, p) >= floor
  BY ThresholdCuts
<1>3. y \in 0 .. SpecTokens /\ (y < SpecTokens => Survival(b, y + 1) < floor)
  BY ThresholdCuts
<1>4. x >= n OBVIOUS
<1>5. floor \in Nat
  <2>1. SpecTokens - 1 \in Nat /\ threshold \in Nat BY <1>1
  <2>2. Power[SpecTokens - 1] \in Nat BY <2>1, PowerIs
  <2> QED BY <2>1, <2>2
<1> HIDE DEF x, y, floor
<1>6. SUFFICES ASSUME ~(y >= n) PROVE FALSE BY DEF y
<1>7. y + 1 \in 1 .. x /\ y < SpecTokens /\ y + 1 \in 0 .. SpecTokens /\ y + 1 <= n
  BY <1>1, <1>2, <1>3, <1>4, <1>6
<1>8. Survival(a, y + 1) = Survival(b, y + 1)
  <2>1. \A i \in 1 .. y + 1 : i \in 1 .. n BY <1>1, <1>3, <1>7
  <2> QED BY <1>7, <2>1, SurvivalOfPrefix
<1>9. Survival(a, y + 1) >= floor /\ Survival(b, y + 1) < floor BY <1>2, <1>3, <1>7
<1>10. Survival(b, y + 1) \in Nat BY <1>7, SurvivalNat
<1> QED BY <1>5, <1>8, <1>9, <1>10

-----------------------------------------------------------------------------
(* The order of the loop: a finite set that is ordered has a first element. *)
LEMMA FirstOfOrder ==
  ASSUME NEW T, IsFiniteSet(T), T # {}, NEW R,
         \A c \in T : <<c, c>> \notin R,
         \A c, d, e \in T : <<c, d>> \in R /\ <<d, e>> \in R => <<c, e>> \in R,
         \A c, d \in T : c # d => <<c, d>> \in R \/ <<d, c>> \in R
  PROVE  \E c \in T : \A d \in T \ {c} : <<c, d>> \in R
<1> DEFINE Ahead(c) == { d \in T : <<d, c>> \in R }
           Counts == { Cardinality(Ahead(c)) : c \in T }
<1>1. \A c \in T : IsFiniteSet(Ahead(c)) /\ Cardinality(Ahead(c)) \in Nat
  BY FS_Subset, FS_CardinalityType
<1>2. Counts \in SUBSET Nat /\ Counts # {}
  <2> HIDE DEF Ahead
  <2> QED BY <1>1
<1>3. PICK n \in Counts : \A k \in Counts : n <= k
  <2> HIDE DEF Counts
  <2> QED BY <1>2, LeastExists
<1>4. PICK c \in T : n = Cardinality(Ahead(c)) OBVIOUS
<1>5. ASSUME NEW d \in T \ {c} PROVE <<c, d>> \in R
  <2>1. SUFFICES ASSUME <<d, c>> \in R PROVE FALSE OBVIOUS
  <2>2. Ahead(d) \subseteq Ahead(c) BY <2>1
  <2>3. d \in Ahead(c) /\ d \notin Ahead(d) BY <2>1
  <2>4. Cardinality(Ahead(d)) < Cardinality(Ahead(c))
    <3> HIDE DEF Ahead
    <3> QED BY <1>1, <2>2, <2>3, FS_Subset
  <2>5. n <= Cardinality(Ahead(d))
    <3> HIDE DEF Ahead
    <3> QED BY <1>3
  <2>6. Cardinality(Ahead(d)) \in Nat /\ Cardinality(Ahead(c)) \in Nat BY <1>1
  <2> HIDE DEF Ahead
  <2> QED BY <1>4, <2>4, <2>5, <2>6
<1> QED BY <1>5

(* So is that of a draft, which is a request and a position.                *)
LEMMA SurvivalOfTyped ==
  ASSUME RowsType, NEW c \in Reqs \X Positions
  PROVE  SurvivalOf(c) \in Nat /\ c[1] \in Nat /\ c[2] \in Nat /\ c = <<c[1], c[2]>>
<1>1. c[1] \in Reqs /\ c[2] \in Positions /\ c = <<c[1], c[2]>> OBVIOUS
<1>2. c[1] \in Nat /\ c[2] \in Nat /\ c[2] \in 0 .. SpecTokens
  BY <1>1, ScheduleSizes DEF Reqs, Positions
<1>3. rows[c[1]] \in [Positions -> Confidences] BY <1>1 DEF RowsType
<1> QED BY <1>1, <1>2, <1>3, SurvivalNat DEF SurvivalOf

(* The loop always has a next draft, one that is left.                      *)
LEMMA NextIsCandidate ==
  ASSUME RowsType, todo \subseteq Reqs \X Positions, todo # {}
  PROVE  NextCandidate \in todo /\ \A d \in todo \ {NextCandidate} : Before(NextCandidate, d)
<1>1. IsFiniteSet(todo)
  <2>1. IsFiniteSet(Reqs) /\ IsFiniteSet(Positions)
    BY ScheduleSizes, FS_Interval DEF Reqs, Positions
  <2>2. IsFiniteSet(Reqs \X Positions) BY <2>1, FS_Product
  <2> QED BY <2>2, FS_Subset
<1> DEFINE R == { e \in (Reqs \X Positions) \X (Reqs \X Positions) : Before(e[1], e[2]) }
<1>2. \A c, d \in todo : <<c, d>> \in R <=> Before(c, d) OBVIOUS
<1>3. \A c \in todo : SurvivalOf(c) \in Nat /\ c[1] \in Nat /\ c[2] \in Nat /\ c = <<c[1], c[2]>>
  BY SurvivalOfTyped
<1> HIDE DEF R
<1>4. \A c \in todo : ~Before(c, c) BY <1>3 DEF Before
<1>5. ASSUME NEW c \in todo, NEW d \in todo, NEW e \in todo, Before(c, d), Before(d, e)
      PROVE  Before(c, e)
  <2> DEFINE x == SurvivalOf(c)
             y == SurvivalOf(d)
             z == SurvivalOf(e)
  <2>1. /\ x \in Nat /\ y \in Nat /\ z \in Nat
        /\ c[1] \in Nat /\ d[1] \in Nat /\ e[1] \in Nat
        /\ c[2] \in Nat /\ d[2] \in Nat /\ e[2] \in Nat
    BY <1>3
  <2>2. x > y \/ (x = y /\ c[1] < d[1]) \/ (x = y /\ c[1] = d[1] /\ c[2] < d[2])
    BY <1>5 DEF Before
  <2>3. y > z \/ (y = z /\ d[1] < e[1]) \/ (y = z /\ d[1] = e[1] /\ d[2] < e[2])
    BY <1>5 DEF Before
  <2> HIDE DEF x, y, z
  <2>4. x > z \/ (x = z /\ c[1] < e[1]) \/ (x = z /\ c[1] = e[1] /\ c[2] < e[2])
    BY <2>1, <2>2, <2>3
  <2> QED BY <2>4 DEF Before, x, z
<1>6. ASSUME NEW c \in todo, NEW d \in todo, c # d PROVE Before(c, d) \/ Before(d, c)
  <2>1. c[1] # d[1] \/ c[2] # d[2] BY <1>3, <1>6
  <2> QED BY <1>3, <2>1 DEF Before
<1>7. \E c \in todo : \A d \in todo \ {c} : <<c, d>> \in R
  <2>1. \A c \in todo : <<c, c>> \notin R BY <1>2, <1>4
  <2>2. \A c, d, e \in todo : <<c, d>> \in R /\ <<d, e>> \in R => <<c, e>> \in R
    BY <1>2, <1>5
  <2>3. \A c, d \in todo : c # d => <<c, d>> \in R \/ <<d, c>> \in R BY <1>2, <1>6
  <2> QED BY <1>1, <2>1, <2>2, <2>3, FirstOfOrder
<1>8. \E c \in todo : \A d \in todo \ {c} : Before(c, d) BY <1>2, <1>7
<1> QED BY <1>8 DEF NextCandidate

-----------------------------------------------------------------------------
(* The sums of a score.                                                     *)

(* A sum over 1 .. n of numbers up to k.                                    *)
LEMMA SumTyped ==
  ASSUME NEW S, IsFiniteSet(S), NEW k \in Nat, NEW f \in [S -> 0 .. k]
  PROVE  MapThenSumSet(LAMBDA x : f[x], S) \in Nat
         /\ MapThenSumSet(LAMBDA x : f[x], S) <= Cardinality(S) * k
<1> DEFINE it == CHOOSE it : IsSum(f, S, it)
<1>1. f \in [S -> Nat] OBVIOUS
<1>2. IsSum(f, S, it) BY <1>1, SumExists
<1>3. MapThenSumSet(LAMBDA x : f[x], S) = it[S]
  BY DEF MapThenSumSet, MapThenFoldSet, IsSum, Pick
<1>4. S \in SUBSET S OBVIOUS
<1> HIDE DEF it
<1> QED BY <1>2, <1>3, <1>4, SumBounds

(* There is only one such sum.                                              *)
LEMMA SumUnique ==
  ASSUME NEW S, IsFiniteSet(S), NEW f, NEW g, NEW h, IsSum(f, S, g), IsSum(f, S, h)
  PROVE  \A s \in SUBSET S : g[s] = h[s]
<1>1. \A s \in SUBSET S : Cardinality(s) \in Nat
  BY FS_Subset, FS_CardinalityType
<1>2. \A s \in SUBSET S : g[s] = IF s = {} THEN 0 ELSE f[Pick(s)] + g[s \ {Pick(s)}]
  BY Zenon DEF IsSum
<1>3. \A s \in SUBSET S : h[s] = IF s = {} THEN 0 ELSE f[Pick(s)] + h[s \ {Pick(s)}]
  BY Zenon DEF IsSum
<1> DEFINE Bad == { n \in Nat : \E s \in SUBSET S : Cardinality(s) = n /\ g[s] # h[s] }
<1>4. Bad = {}
  <2> SUFFICES ASSUME Bad # {} PROVE FALSE OBVIOUS
  <2>1. Bad \in SUBSET Nat OBVIOUS
  <2>2. PICK n \in Bad : \A j \in Bad : n <= j
    <3> HIDE DEF Bad
    <3> QED BY <2>1, LeastExists
  <2>3. PICK s \in SUBSET S : Cardinality(s) = n /\ g[s] # h[s] OBVIOUS
  <2>4. s # {} BY <1>2, <1>3, <2>3
  <2> DEFINE t == s \ {Pick(s)}
  <2>5. t \in SUBSET S /\ Cardinality(t) = n - 1 /\ n - 1 \in Nat
    <3>1. /\ t \in SUBSET S /\ Cardinality(t) = Cardinality(s) - 1 /\ Cardinality(t) \in Nat
      BY <1>1, <2>4, PickOut
    <3> QED BY <2>3, <3>1
  <2> HIDE DEF t
  <2>6. g[t] = h[t]
    <3>1. n \in Nat OBVIOUS
    <3>2. n - 1 \notin Bad
      <4> HIDE DEF Bad
      <4> QED BY <2>2, <2>5, <3>1
    <3> QED BY <2>5, <3>2
  <2>7. g[s] = f[Pick(s)] + g[t] /\ h[s] = f[Pick(s)] + h[t] BY <1>2, <1>3, <2>4 DEF t
  <2> QED BY <2>3, <2>6, <2>7
<1> QED BY <1>1, <1>4

(* A sum of natural numbers is one.                                         *)
LEMMA SumNat ==
  ASSUME NEW S, IsFiniteSet(S), NEW f \in [S -> Nat], NEW it, IsSum(f, S, it)
  PROVE  it[S] \in Nat
<1>1. PICK g \in [SUBSET S -> Nat] : IsSum(f, S, g) BY SumExists
<1>2. S \in SUBSET S OBVIOUS
<1>3. it[S] = g[S] BY <1>1, <1>2, SumUnique
<1> QED BY <1>1, <1>2, <1>3

Gain(lens, r) == MapThenSumSet(LAMBDA p : Survival(rows[r], p), 1 .. lens[r])

Accepted(lens) == MapThenSumSet(LAMBDA r : Gain(lens, r), Reqs)

(* What score_prefix_lengths computes, by name.                             *)
LEMMA ScoreIs ==
  ASSUME NEW lens
  PROVE  Score(lens) = [lengths |-> lens,
                        expected |-> Requests * Power[SpecTokens] + Accepted(lens),
                        tokens |-> Requests + MapThenSumSet(LAMBDA r : lens[r], Reqs)]
  BY DEF Score, Gain, Accepted

GainSum(lens, r, S, f, it) ==
  /\ f \in [S -> Nat] /\ \A p \in S : f[p] = Survival(rows[r], p)
  /\ IsSum(f, S, it) /\ Gain(lens, r) = it[S]

AcceptedSum(lens, f, it) ==
  /\ f \in [Reqs -> Nat] /\ \A r \in Reqs : f[r] = Gain(lens, r)
  /\ IsSum(f, Reqs, it) /\ Accepted(lens) = it[Reqs]

(* The gain of a request is the sum of the survivals of its drafts.         *)
LEMMA GainIs ==
  ASSUME RowsType, NEW lens \in [Reqs -> 0 .. SpecTokens], NEW r \in Reqs
  PROVE  \E f, it : GainSum(lens, r, 1 .. lens[r], f, it)
<1> DEFINE S == 1 .. lens[r]
           f == [p \in S |-> Survival(rows[r], p)]
           Is(it) == it = [s \in SUBSET S |-> IF s = {} THEN 0
                             ELSE Survival(rows[r], Pick(s)) + it[s \ {Pick(s)}]]
<1>1. lens[r] \in Nat /\ \A p \in S : p \in 0 .. SpecTokens BY ScheduleSizes
<1>2. IsFiniteSet(S) BY <1>1, FS_Interval
<1>3. f \in [S -> Nat]
  <2>1. rows[r] \in [Positions -> Confidences] BY DEF RowsType
  <2>2. \A p \in S : Survival(rows[r], p) \in Nat BY <1>1, <2>1, SurvivalNat
  <2> HIDE DEF S
  <2> QED BY <2>2
<1>4. Gain(lens, r) = (CHOOSE it : Is(it))[S]
  BY DEF Gain, MapThenSumSet, MapThenFoldSet, Pick
<1>8. \A p \in S : f[p] = Survival(rows[r], p) OBVIOUS
<1> HIDE DEF S
<1>5. ASSUME NEW it PROVE Is(it) <=> IsSum(f, S, it)
  <2>1. \A s \in SUBSET S : s # {} => Pick(s) \in S BY DEF Pick
  <2>2. \A s \in SUBSET S : s # {} => f[Pick(s)] = Survival(rows[r], Pick(s)) BY <2>1
  <2> HIDE DEF f
  <2>3. [s \in SUBSET S |-> IF s = {} THEN 0 ELSE f[Pick(s)] + it[s \ {Pick(s)}]]
        = [s \in SUBSET S |-> IF s = {} THEN 0 ELSE Survival(rows[r], Pick(s)) + it[s \ {Pick(s)}]]
    BY <2>2
  <2> QED BY <2>3 DEF IsSum
<1> HIDE DEF f, Is
<1>6. \E it : IsSum(f, S, it) BY <1>2, <1>3, SumExists
<1>7. IsSum(f, S, CHOOSE it : Is(it)) BY <1>5, <1>6
<1>9. \E it : GainSum(lens, r, S, f, it) BY <1>3, <1>4, <1>7, <1>8 DEF GainSum
<1> QED BY <1>9 DEF S

(* A gain is a natural number.                                              *)
LEMMA GainNat ==
  ASSUME RowsType, NEW lens \in [Reqs -> 0 .. SpecTokens], NEW r \in Reqs
  PROVE  Gain(lens, r) \in Nat
<1> DEFINE S == 1 .. lens[r]
<1>1. IsFiniteSet(S)
  <2>1. lens[r] \in Nat BY ScheduleSizes
  <2> QED BY <2>1, FS_Interval
<1>2. PICK f, it : GainSum(lens, r, S, f, it) BY GainIs
<1> HIDE DEF S
<1>3. f \in [S -> Nat] /\ IsSum(f, S, it) /\ Gain(lens, r) = it[S] BY <1>2 DEF GainSum
<1> QED BY <1>1, <1>3, SumNat

(* What the accepted drafts add up to is the sum of the gains.              *)
LEMMA AcceptedIs ==
  ASSUME RowsType, NEW lens \in [Reqs -> 0 .. SpecTokens]
  PROVE  \E f, it : AcceptedSum(lens, f, it)
<1> DEFINE f == [r \in Reqs |-> Gain(lens, r)]
           Is(it) == it = [s \in SUBSET Reqs |-> IF s = {} THEN 0
                             ELSE Gain(lens, Pick(s)) + it[s \ {Pick(s)}]]
<1>1. IsFiniteSet(Reqs) BY ScheduleSizes, FS_Interval DEF Reqs
<1>2. f \in [Reqs -> Nat] BY GainNat
<1>3. Accepted(lens) = (CHOOSE it : Is(it))[Reqs]
  BY DEF Accepted, MapThenSumSet, MapThenFoldSet, Pick
<1>7. \A r \in Reqs : f[r] = Gain(lens, r) OBVIOUS
<1>4. ASSUME NEW it PROVE Is(it) <=> IsSum(f, Reqs, it)
  <2>1. \A s \in SUBSET Reqs : s # {} => Pick(s) \in Reqs BY DEF Pick
  <2>2. \A s \in SUBSET Reqs : s # {} => f[Pick(s)] = Gain(lens, Pick(s)) BY <2>1
  <2> HIDE DEF f
  <2>3. [s \in SUBSET Reqs |-> IF s = {} THEN 0 ELSE f[Pick(s)] + it[s \ {Pick(s)}]]
        = [s \in SUBSET Reqs |-> IF s = {} THEN 0 ELSE Gain(lens, Pick(s)) + it[s \ {Pick(s)}]]
    BY <2>2
  <2> QED BY <2>3 DEF IsSum
<1> HIDE DEF f, Is
<1>5. \E it : IsSum(f, Reqs, it) BY <1>1, <1>2, SumExists
<1>6. IsSum(f, Reqs, CHOOSE it : Is(it)) BY <1>4, <1>5
<1>8. \E it : AcceptedSum(lens, f, it) BY <1>2, <1>3, <1>6, <1>7 DEF AcceptedSum
<1> QED BY <1>8

(* So is the sum of the gains.                                              *)
LEMMA AcceptedNat ==
  ASSUME RowsType, NEW lens \in [Reqs -> 0 .. SpecTokens]
  PROVE  Accepted(lens) \in Nat
<1>1. IsFiniteSet(Reqs) BY ScheduleSizes, FS_Interval DEF Reqs
<1>2. PICK f, it : AcceptedSum(lens, f, it) BY AcceptedIs
<1>3. f \in [Reqs -> Nat] /\ IsSum(f, Reqs, it) /\ Accepted(lens) = it[Reqs] BY <1>2 DEF AcceptedSum
<1> QED BY <1>1, <1>3, SumNat

(* A score of lengths in range is a result.                                 *)
LEMMA ScoreTyped ==
  ASSUME RowsType, NEW lens \in [Reqs -> 0 .. SpecTokens]
  PROVE  /\ Score(lens) \in [lengths : [Reqs -> 0 .. SpecTokens], expected : Nat, tokens : BatchTokens]
         /\ Score(lens).lengths = lens
<1> DEFINE t == MapThenSumSet(LAMBDA r : lens[r], Reqs)
           e == Requests * Power[SpecTokens] + Accepted(lens)
<1>1. Requests \in Nat /\ SpecTokens \in Nat BY ScheduleSizes
<1>2. IsFiniteSet(Reqs) /\ Cardinality(Reqs) = Requests
  BY <1>1, FS_Interval DEF Reqs
<1>3. t \in Nat /\ t <= Requests * SpecTokens
  <2>1. t \in Nat /\ t <= Cardinality(Reqs) * SpecTokens BY <1>1, <1>2, SumTyped
  <2> HIDE DEF t
  <2> QED BY <1>2, <2>1
<1>4. e \in Nat
  <2>1. Power[SpecTokens] \in Nat BY <1>1, PowerIs
  <2>2. Accepted(lens) \in Nat BY AcceptedNat
  <2>3. Requests * Power[SpecTokens] \in Nat BY <1>1, <2>1
  <2> QED BY <2>2, <2>3
<1>5. Score(lens) = [lengths |-> lens, expected |-> e, tokens |-> Requests + t] BY ScoreIs
<1> HIDE DEF e, t
<1>6. Requests + t \in BatchTokens
  <2>1. Requests * (1 + SpecTokens) = Requests + Requests * SpecTokens BY <1>1
  <2> DEFINE w == Requests * SpecTokens
  <2>2. w \in Int BY <1>1
  <2> HIDE DEF w
  <2>3. Requests + t \in Requests .. Requests + w BY <1>1, <1>3, <2>2 DEF w
  <2> QED BY <2>1, <2>3 DEF BatchTokens, w
<1> QED BY <1>4, <1>5, <1>6

-----------------------------------------------------------------------------
(* The invariant of the loop: the lengths are in range, and the step has a  *)
(* token for each request and one for each draft admitted.                  *)

Admitted(lens) == { c \in Reqs \X Positions : c[2] <= lens[c[1]] }

CutByThreshold ==
  scheduler.kind = "threshold" /\ returned =>
    result.lengths = [r \in Reqs |-> ThresholdLength(rows[r], scheduler.threshold)]

ScheduleInv ==
  /\ RowsType /\ scheduler \in Schedulers
  /\ lengths \in [Reqs -> 0 .. SpecTokens]
  /\ todo \subseteq Reqs \X Positions
  /\ tokens = Requests + Cardinality(Admitted(lengths))
  /\ expected \in Nat
  /\ returned \in BOOLEAN
  /\ result \in [lengths : [Reqs -> 0 .. SpecTokens], expected : Nat, tokens : BatchTokens]
  /\ CutByThreshold

(* There are finitely many drafts, and a token for each fits the batch.     *)
LEMMA AdmittedCount ==
  ASSUME NEW lens \in [Reqs -> 0 .. SpecTokens]
  PROVE  /\ IsFiniteSet(Admitted(lens)) /\ Cardinality(Admitted(lens)) \in Nat
         /\ Requests + Cardinality(Admitted(lens)) \in BatchTokens
<1>1. Requests \in Nat /\ SpecTokens \in Nat BY ScheduleSizes
<1>2. /\ IsFiniteSet(Reqs) /\ IsFiniteSet(Positions)
      /\ Cardinality(Reqs) = Requests /\ Cardinality(Positions) = SpecTokens
  BY <1>1, FS_Interval DEF Reqs, Positions
<1>3. IsFiniteSet(Reqs \X Positions) /\ Cardinality(Reqs \X Positions) = Requests * SpecTokens
  BY <1>2, FS_Product
<1> DEFINE w == Requests * SpecTokens
           n == Cardinality(Admitted(lens))
<1>4. IsFiniteSet(Admitted(lens)) /\ n <= w
  BY <1>3, FS_Subset DEF Admitted
<1>5. n \in Nat /\ w \in Nat BY <1>1, <1>4, FS_CardinalityType
<1>6. Requests * (1 + SpecTokens) = Requests + w BY <1>1
<1> HIDE DEF n, w
<1>7. Requests + n \in BatchTokens BY <1>1, <1>4, <1>5, <1>6 DEF BatchTokens
<1> QED BY <1>4, <1>5, <1>7 DEF n

(* A longer prefix admits one draft more.                                   *)
LEMMA AdmittedStep ==
  ASSUME NEW lens \in [Reqs -> 0 .. SpecTokens], NEW more \in [Reqs -> 0 .. SpecTokens],
         NEW r \in Reqs, more[r] = lens[r] + 1, \A q \in Reqs \ {r} : more[q] = lens[q]
  PROVE  /\ <<r, more[r]>> \in Reqs \X Positions /\ <<r, more[r]>> \notin Admitted(lens)
         /\ Admitted(more) = Admitted(lens) \cup {<<r, more[r]>>}
         /\ Cardinality(Admitted(more)) = Cardinality(Admitted(lens)) + 1
<1>1. SpecTokens \in Nat /\ \A q \in Reqs : lens[q] \in Nat /\ more[q] \in Nat
  BY ScheduleSizes
<1> DEFINE c == <<r, more[r]>>
<1>2. c \in Reqs \X Positions
  <2>1. more[r] \in 1 .. SpecTokens BY <1>1
  <2> QED BY <2>1 DEF Positions
<1>3. c \notin Admitted(lens)
  <2>1. ~(more[r] <= lens[r]) BY <1>1
  <2> QED BY <2>1 DEF Admitted
<1>4. Admitted(more) = Admitted(lens) \cup {c}
  <2>1. ASSUME NEW d \in Reqs \X Positions
        PROVE  d[2] <= more[d[1]] <=> (d[2] <= lens[d[1]] \/ d = c)
    <3>1. d[1] \in Reqs /\ d[2] \in Nat /\ d = <<d[1], d[2]>> BY <1>1 DEF Positions
    <3>2. CASE d[1] = r
      <4>1. d = c <=> d[2] = lens[r] + 1 BY <3>1, <3>2
      <4> QED BY <1>1, <3>1, <3>2, <4>1
    <3>3. CASE d[1] # r
      <4>1. d # c /\ more[d[1]] = lens[d[1]] BY <3>1, <3>3
      <4> QED BY <4>1
    <3> QED BY <3>2, <3>3
  <2>2. Admitted(more) = { d \in Reqs \X Positions : d[2] <= lens[d[1]] \/ d = c }
    BY <2>1 DEF Admitted
  <2> QED BY <1>2, <2>2 DEF Admitted
<1>5. Cardinality(Admitted(more)) = Cardinality(Admitted(lens)) + 1
  <2>1. IsFiniteSet(Admitted(lens)) BY AdmittedCount
  <2> QED BY <1>3, <1>4, <2>1, FS_AddElement
<1> QED BY <1>2, <1>3, <1>4, <1>5

(* The invariant holds initially.                                           *)
LEMMA ScheduleInvInit == Init => ScheduleInv
<1> SUFFICES ASSUME Init PROVE ScheduleInv OBVIOUS
<1>1. Requests \in Nat /\ SpecTokens \in Nat BY ScheduleSizes
<1>2. RowsType /\ scheduler \in Schedulers /\ returned = FALSE BY DEF Init, RowsType
<1>3. lengths \in [Reqs -> 0 .. SpecTokens] BY <1>1 DEF Init
<1>4. todo \subseteq Reqs \X Positions BY DEF Init, Candidates
<1>5. tokens = Requests + Cardinality(Admitted(lengths))
  <2>1. Admitted(lengths) = {}
    <3>1. \A c \in Reqs \X Positions : lengths[c[1]] = 0 /\ c[2] \in 1 .. SpecTokens
      BY DEF Init, Positions
    <3>2. \A c \in Reqs \X Positions : ~(c[2] <= lengths[c[1]]) BY <1>1, <3>1
    <3> QED BY <3>2 DEF Admitted
  <2>2. Cardinality(Admitted(lengths)) = 0 BY <2>1, FS_EmptySet
  <2> QED BY <1>1, <2>2 DEF Init
<1>6. expected \in Nat
  <2>1. Power[SpecTokens] \in Nat BY <1>1, PowerIs
  <2>2. Requests * Power[SpecTokens] \in Nat BY <1>1, <2>1
  <2> QED BY <2>2 DEF Init
<1>7. result \in [lengths : [Reqs -> 0 .. SpecTokens], expected : Nat, tokens : BatchTokens]
  BY <1>2, <1>3, ScoreTyped DEF Init
<1> QED BY <1>2, <1>3, <1>4, <1>5, <1>6, <1>7 DEF ScheduleInv, CutByThreshold

(* An admitted draft is one more, and follows the prefix of its request.    *)
LEMMA AdmitKeepsInv ==
  ASSUME ScheduleInv, scheduler.kind = "hardware", UNCHANGED <<rows, table, scheduler>>,
         NEW c \in Reqs \X Positions, ~Skips(c), Admit(c), todo' \subseteq Reqs \X Positions
  PROVE  ScheduleInv'
<1>1. /\ RowsType /\ lengths \in [Reqs -> 0 .. SpecTokens]
      /\ tokens = Requests + Cardinality(Admitted(lengths)) /\ expected \in Nat
      /\ returned \in BOOLEAN /\ scheduler \in Schedulers
      /\ result \in [lengths : [Reqs -> 0 .. SpecTokens], expected : Nat, tokens : BatchTokens]
  BY DEF ScheduleInv
<1>2. Requests \in Nat /\ SpecTokens \in Nat BY ScheduleSizes
<1>3. c[1] \in Reqs /\ c[2] \in 1 .. SpecTokens /\ c[2] = lengths[c[1]] + 1 /\ c = <<c[1], c[2]>>
  BY DEF Skips, Positions
<1>4. lengths' = [lengths EXCEPT ![c[1]] = c[2]] /\ tokens' = tokens + 1
      /\ expected' = expected + SurvivalOf(c)
  BY DEF Admit
<1>5. lengths' \in [Reqs -> 0 .. SpecTokens]
  <2>1. c[2] \in 0 .. SpecTokens BY <1>2, <1>3
  <2> QED BY <1>1, <1>3, <1>4, <2>1
<1>6. Cardinality(Admitted(lengths')) = Cardinality(Admitted(lengths)) + 1
  <2>1. lengths'[c[1]] = lengths[c[1]] + 1 /\ \A q \in Reqs \ {c[1]} : lengths'[q] = lengths[q]
    BY <1>1, <1>3, <1>4
  <2> QED BY <1>1, <1>3, <1>5, <2>1, AdmittedStep
<1>7. tokens' = Requests + Cardinality(Admitted(lengths'))
  <2>1. Cardinality(Admitted(lengths)) \in Nat BY <1>1, AdmittedCount
  <2> QED BY <1>1, <1>2, <1>4, <1>6, <2>1
<1>8. expected' \in Nat
  <2>1. SurvivalOf(c) \in Nat BY <1>1, SurvivalOfTyped
  <2> QED BY <1>1, <1>4, <2>1
<1>9. tokens' \in BatchTokens BY <1>5, <1>7, AdmittedCount
<1>10. /\ result' \in [lengths : [Reqs -> 0 .. SpecTokens], expected : Nat, tokens : BatchTokens]
       /\ returned' \in BOOLEAN
  <2>1. CASE Improves(expected', tokens')
    <3>1. result' = [lengths |-> lengths', expected |-> expected', tokens |-> tokens']
          /\ returned' = returned
      BY <2>1 DEF Admit, Best
    <3> QED BY <1>1, <1>5, <1>8, <1>9, <3>1
  <2>2. CASE ~Improves(expected', tokens')
    <3>1. result' = result /\ returned' = scheduler.earlyStop BY <2>2 DEF Admit
    <3>2. scheduler.earlyStop \in BOOLEAN BY <1>1 DEF Schedulers
    <3> QED BY <1>1, <3>1, <3>2
  <2> QED BY <2>1, <2>2
<1>11. RowsType' /\ scheduler' \in Schedulers /\ CutByThreshold'
  BY <1>1 DEF RowsType, CutByThreshold, Reqs, Positions
<1>12. Admitted(lengths)' = Admitted(lengths') BY DEF Admitted, Reqs, Positions
<1>13. BatchTokens' = BatchTokens /\ Reqs' = Reqs BY DEF BatchTokens, Reqs
<1> QED BY <1>5, <1>7, <1>8, <1>10, <1>11, <1>12, <1>13 DEF ScheduleInv

(* Every step keeps the invariant.                                          *)
LEMMA ScheduleInvInductive == ScheduleInv /\ [Next]_vars => ScheduleInv'
<1> SUFFICES ASSUME ScheduleInv, [Next]_vars PROVE ScheduleInv' OBVIOUS
<1>1. CASE Visit
  <2>1. /\ scheduler.kind = "hardware" /\ todo # {} /\ UNCHANGED <<rows, table, scheduler>>
        /\ RowsType /\ todo \subseteq Reqs \X Positions /\ todo' = todo \ {NextCandidate}
    BY <1>1 DEF Visit, ScheduleInv
  <2>2. NextCandidate \in Reqs \X Positions BY <2>1, NextIsCandidate
  <2>3. CASE Skips(NextCandidate)
    <3>1. UNCHANGED <<lengths, tokens, expected, result, returned>> BY <1>1, <2>3 DEF Visit
    <3>2. todo' \subseteq Reqs \X Positions BY <2>1
    <3> QED BY <2>1, <3>1, <3>2 DEF ScheduleInv, RowsType, CutByThreshold, Admitted, Reqs, Positions,
            BatchTokens, Schedulers
  <2>4. CASE ~Skips(NextCandidate)
    <3>1. Admit(NextCandidate) /\ todo' \subseteq Reqs \X Positions BY <1>1, <2>1, <2>4 DEF Visit
    <3> QED BY <2>1, <2>2, <2>4, <3>1, AdmitKeepsInv
  <2> QED BY <2>3, <2>4
<1>2. CASE Return
  <2>1. scheduler.kind = "hardware" /\ returned' = TRUE
        /\ UNCHANGED <<rows, table, scheduler, lengths, todo, tokens, expected, result>>
    BY <1>2 DEF Return
  <2> QED BY <2>1 DEF ScheduleInv, RowsType, CutByThreshold, Admitted
<1>3. CASE ScoreFixed
  <2>1. /\ scheduler.kind # "hardware" /\ returned' = TRUE /\ result' = Score(FixedLengths)
        /\ UNCHANGED <<rows, table, scheduler, lengths, todo, tokens, expected>>
        /\ RowsType /\ scheduler \in Schedulers
    BY <1>3 DEF ScoreFixed, ScheduleInv
  <2>2. FixedLengths \in [Reqs -> 0 .. SpecTokens]
    <3>1. ASSUME NEW r \in Reqs
          PROVE  (CASE scheduler.kind = "forced"    -> scheduler.length
                    [] scheduler.kind = "threshold" -> ThresholdLength(rows[r], scheduler.threshold)
                    [] OTHER                        -> SpecTokens) \in 0 .. SpecTokens
      <4>1. SpecTokens \in 0 .. SpecTokens BY ScheduleSizes
      <4>2. scheduler.kind = "forced" => scheduler.length \in 0 .. SpecTokens
        BY <2>1 DEF Schedulers
      <4>3. scheduler.kind = "threshold" =>
              ThresholdLength(rows[r], scheduler.threshold) \in 0 .. SpecTokens
        <5>1. scheduler.kind = "threshold" => scheduler.threshold \in 1 .. Unit
          BY <2>1 DEF Schedulers
        <5>2. rows[r] \in [Positions -> Confidences] BY <2>1 DEF RowsType
        <5> QED BY <5>1, <5>2, ThresholdCuts
      <4> QED BY <4>1, <4>2, <4>3
    <3> QED BY <3>1 DEF FixedLengths
  <2>3. /\ result' \in [lengths : [Reqs -> 0 .. SpecTokens], expected : Nat, tokens : BatchTokens]
        /\ result'.lengths = FixedLengths
    BY <2>1, <2>2, ScoreTyped
  <2>4. scheduler.kind = "threshold" =>
          FixedLengths = [r \in Reqs |-> ThresholdLength(rows[r], scheduler.threshold)]
    BY DEF FixedLengths
  <2>5. CutByThreshold' BY <2>1, <2>3, <2>4 DEF CutByThreshold
  <2>6. RowsType' BY <2>1 DEF RowsType
  <2> QED BY <2>1, <2>3, <2>5, <2>6 DEF ScheduleInv, Admitted
<1>4. CASE UNCHANGED vars
  BY <1>4 DEF vars, ScheduleInv, RowsType, CutByThreshold, Admitted
<1> QED BY <1>1, <1>2, <1>3, <1>4 DEF Next

(* The variables of the schedulers keep their types: no loop runs past the  *)
(* tokens of a batch, and every result has its lengths in range.            *)
THEOREM ScheduleTypeOK == Spec => []TypeOK
<1>1. ScheduleInv => TypeOK
  <2> SUFFICES ASSUME ScheduleInv PROVE TypeOK OBVIOUS
  <2>1. tokens \in BatchTokens BY AdmittedCount DEF ScheduleInv
  <2> QED BY <2>1 DEF ScheduleInv, TypeOK
<1> QED BY <1>1, ScheduleInvInit, ScheduleInvInductive, PTL DEF Spec

(* confidence_threshold_prefix_length admits a position by the confidences up*)
(* to it alone: rows that agree up to n are cut alike up to n.              *)
THEOREM AlwaysNonAnticipating == Spec => []NonAnticipating
<1>1. ScheduleInv => NonAnticipating
  <2> SUFFICES ASSUME ScheduleInv, scheduler.kind = "threshold", returned,
                      NEW r \in Reqs, NEW q \in Reqs, NEW n \in Positions,
                      \A p \in 1 .. n : rows[r][p] = rows[q][p]
               PROVE  result.lengths[r] >= n <=> result.lengths[q] >= n
    BY DEF NonAnticipating
  <2> DEFINE t == scheduler.threshold
  <2>1. t \in 1 .. Unit BY DEF ScheduleInv, Schedulers
  <2>2. rows[r] \in [Positions -> Confidences] /\ rows[q] \in [Positions -> Confidences]
    BY DEF ScheduleInv, RowsType
  <2>3. /\ result.lengths[r] = ThresholdLength(rows[r], t)
        /\ result.lengths[q] = ThresholdLength(rows[q], t)
    BY DEF ScheduleInv, CutByThreshold
  <2> HIDE DEF t
  <2>4. ThresholdLength(rows[r], t) >= n => ThresholdLength(rows[q], t) >= n
    BY <2>1, <2>2, ThresholdOfPrefix
  <2>5. ThresholdLength(rows[q], t) >= n => ThresholdLength(rows[r], t) >= n
    <3>1. \A p \in 1 .. n : rows[q][p] = rows[r][p] OBVIOUS
    <3> QED BY <2>1, <2>2, <3>1, ThresholdOfPrefix
  <2> QED BY <2>3, <2>4, <2>5
<1> QED BY <1>1, ScheduleInvInit, ScheduleInvInductive, PTL DEF Spec

-----------------------------------------------------------------------------
(* A sum is a natural number, 0 over the empty set, and an element more for *)
(* each one that is peeled off.                                             *)
LEMMA SumType ==
  ASSUME NEW S, IsFiniteSet(S), NEW f \in [S -> Nat], NEW it, IsSum(f, S, it)
  PROVE  it \in [SUBSET S -> Nat]
<1>1. PICK g \in [SUBSET S -> Nat] : IsSum(f, S, g) BY SumExists
<1>2. \A s \in SUBSET S : it[s] = g[s] BY <1>1, SumUnique
<1>3. it = [s \in SUBSET S |-> it[s]] BY Zenon DEF IsSum
<1>4. \A s \in SUBSET S : it[s] \in Nat BY <1>1, <1>2
<1> QED BY <1>3, <1>4, Zenon

(* Nothing adds up to 0.                                                    *)
LEMMA SumEmpty ==
  ASSUME NEW S, NEW f, NEW it, IsSum(f, S, it)
  PROVE  it[{}] = 0
<1>1. \A s \in SUBSET S : it[s] = IF s = {} THEN 0 ELSE f[Pick(s)] + it[s \ {Pick(s)}]
  BY Zenon DEF IsSum
<1>2. {} \in SUBSET S OBVIOUS
<1> QED BY <1>1, <1>2, Zenon

(* The sum over s is that over s without x, and x.                          *)
Takes(f, it, s, x) == it[s] = f[x] + it[s \ {x}]

(* A sum is that of the chosen element and the rest.                        *)
LEMMA SumPeels ==
  ASSUME NEW S, NEW f, NEW it, IsSum(f, S, it), NEW s \in SUBSET S, s # {}
  PROVE  Takes(f, it, s, Pick(s))
<1>1. \A u \in SUBSET S : it[u] = IF u = {} THEN 0 ELSE f[Pick(u)] + it[u \ {Pick(u)}]
  BY Zenon DEF IsSum
<1> QED BY <1>1, Zenon DEF Takes

(* A sum does not depend on the element it is peeled by.                    *)
LEMMA SumRemove ==
  ASSUME NEW S, IsFiniteSet(S), NEW f \in [S -> Nat], NEW it, IsSum(f, S, it)
  PROVE  \A s \in SUBSET S : \A x \in s : Takes(f, it, s, x)
<1>1. \A u \in SUBSET S : Cardinality(u) \in Nat BY FS_Subset, FS_CardinalityType
<1>2. it \in [SUBSET S -> Nat] BY SumType
<1> DEFINE Bad == { n \in Nat : \E u \in SUBSET S : Cardinality(u) = n
                      /\ \E y \in u : it[u] # f[y] + it[u \ {y}] }
<1>4. Bad = {}
  <2> SUFFICES ASSUME Bad # {} PROVE FALSE OBVIOUS
  <2>1. Bad \in SUBSET Nat OBVIOUS
  <2>2. PICK n \in Bad : \A j \in Bad : n <= j
    <3> HIDE DEF Bad
    <3> QED BY <2>1, LeastExists
  <2>3. PICK u \in SUBSET S : Cardinality(u) = n /\ \E y \in u : it[u] # f[y] + it[u \ {y}]
    OBVIOUS
  <2>4. PICK y \in u : it[u] # f[y] + it[u \ {y}] BY <2>3
  <2>5. n \in Nat OBVIOUS
  <2> DEFINE z == Pick(u)
  <2>6. /\ z \in u /\ it[u] = f[z] + it[u \ {z}]
        /\ Cardinality(u \ {z}) = n - 1 /\ n - 1 \in Nat
    <3>1. u # {} BY <2>4
    <3>2. Cardinality(u \ {z}) = Cardinality(u) - 1 /\ z \in u BY <3>1, PickOut
    <3>3. Cardinality(u \ {z}) \in Nat BY <1>1
    <3>4. Takes(f, it, u, z) BY <3>1, SumPeels
    <3> QED BY <2>3, <3>2, <3>3, <3>4 DEF Takes
  <2>7. Cardinality(u \ {y}) = n - 1
    <3>1. IsFiniteSet(u) BY FS_Subset
    <3> QED BY <2>3, <3>1, FS_RemoveElement
  <2> HIDE DEF z
  <2>8. z # y BY <2>4, <2>6
  <2>9. ASSUME NEW w \in SUBSET S, Cardinality(w) = n - 1, NEW v \in w
        PROVE  it[w] = f[v] + it[w \ {v}]
    <3>1. n - 1 \notin Bad
      <4> HIDE DEF Bad
      <4> QED BY <2>2, <2>5, <2>6
    <3> QED BY <2>6, <2>9, <3>1
  <2>10. it[u \ {z}] = f[y] + it[(u \ {z}) \ {y}] BY <2>6, <2>8, <2>9
  <2>11. it[u \ {y}] = f[z] + it[(u \ {y}) \ {z}] BY <2>6, <2>7, <2>8, <2>9
  <2>12. (u \ {y}) \ {z} = (u \ {z}) \ {y} OBVIOUS
  <2> DEFINE a == it[(u \ {z}) \ {y}]
  <2>13. a \in Nat /\ f[y] \in Nat /\ f[z] \in Nat
    <3>1. (u \ {z}) \ {y} \in SUBSET S /\ y \in S /\ z \in S BY <2>6
    <3> QED BY <1>2, <3>1
  <2>14. it[u] = f[z] + (f[y] + a) /\ it[u \ {y}] = f[z] + a BY <2>6, <2>10, <2>11, <2>12
  <2> HIDE DEF a
  <2>15. it[u] = f[y] + it[u \ {y}] BY <2>13, <2>14
  <2> QED BY <2>4, <2>15
<1>5. \A u \in SUBSET S : \A y \in u : it[u] = f[y] + it[u \ {y}] BY <1>1, <1>4
<1> QED BY <1>5 DEF Takes

Agree(it, jt, U) == \A s \in SUBSET U : it[s] = jt[s]

(* Sums of functions that agree on a set agree on its subsets.              *)
LEMMA SumAgree ==
  ASSUME NEW S, IsFiniteSet(S), NEW f \in [S -> Nat], NEW it, IsSum(f, S, it),
         NEW T, IsFiniteSet(T), NEW g \in [T -> Nat], NEW jt, IsSum(g, T, jt),
         NEW U, U \subseteq S, U \subseteq T, \A x \in U : f[x] = g[x]
  PROVE  Agree(it, jt, U)
<1>1. IsFiniteSet(U) /\ \A s \in SUBSET U : Cardinality(s) \in Nat
  BY FS_Subset, FS_CardinalityType
<1>2. it[{}] = 0 BY SumEmpty
<1>3. jt[{}] = 0 BY SumEmpty
<1> DEFINE Bad == { n \in Nat : \E s \in SUBSET U : Cardinality(s) = n /\ it[s] # jt[s] }
<1>4. Bad = {}
  <2> SUFFICES ASSUME Bad # {} PROVE FALSE OBVIOUS
  <2>1. Bad \in SUBSET Nat OBVIOUS
  <2>2. PICK n \in Bad : \A j \in Bad : n <= j
    <3> HIDE DEF Bad
    <3> QED BY <2>1, LeastExists
  <2>3. PICK s \in SUBSET U : Cardinality(s) = n /\ it[s] # jt[s] OBVIOUS
  <2>4. s # {} BY <1>2, <1>3, <2>3
  <2> DEFINE z == Pick(s)
             t == s \ {z}
  <2>5. z \in s /\ t \in SUBSET U /\ Cardinality(t) = n - 1 /\ n - 1 \in Nat /\ n \in Nat
    <3>1. z \in s /\ t \in SUBSET U /\ Cardinality(t) = Cardinality(s) - 1
      BY <1>1, <2>4, PickOut
    <3>2. Cardinality(t) \in Nat BY <1>1, <3>1
    <3> QED BY <2>3, <3>1, <3>2
  <2>6. it[s] = f[z] + it[t] /\ jt[s] = g[z] + jt[t]
    <3>1. s \in SUBSET S /\ s \in SUBSET T OBVIOUS
    <3>2. Takes(f, it, s, z) BY <2>4, <3>1, SumPeels
    <3>3. Takes(g, jt, s, z) BY <2>4, <3>1, SumPeels
    <3> QED BY <3>2, <3>3 DEF Takes
  <2>7. f[z] = g[z] BY <2>5
  <2> HIDE DEF t, z
  <2>8. it[t] = jt[t]
    <3>1. n - 1 \notin Bad
      <4> HIDE DEF Bad
      <4> QED BY <2>2, <2>5
    <3> QED BY <2>5, <3>1
  <2> QED BY <2>3, <2>6, <2>7, <2>8
<1> QED BY <1>1, <1>4 DEF Agree

(* The sum over a union of disjoint sets.                                   *)
LEMMA SumUnion ==
  ASSUME NEW S, IsFiniteSet(S), NEW f \in [S -> Nat], NEW it, IsSum(f, S, it),
         NEW X \in SUBSET S, NEW Y \in SUBSET S, X \cap Y = {}
  PROVE  it[X \cup Y] = it[X] + it[Y]
<1>1. \A u \in SUBSET S : IsFiniteSet(u) /\ Cardinality(u) \in Nat BY FS_Subset, FS_CardinalityType
<1>2. it \in [SUBSET S -> Nat] /\ it[{}] = 0 BY SumType, SumEmpty
<1>6. \A s \in SUBSET S : \A x \in s : Takes(f, it, s, x) BY SumRemove
<1>5. ASSUME NEW y \in SUBSET Y, NEW z \in y
      PROVE  it[y] = f[z] + it[y \ {z}] /\ it[X \cup y] = f[z] + it[X \cup (y \ {z})]
  <2> DEFINE w == X \cup y
  <2>1. w \in SUBSET S /\ z \in w /\ y \in SUBSET S OBVIOUS
  <2>4. w \ {z} = X \cup (y \ {z}) OBVIOUS
  <2> HIDE DEF w
  <2>2. Takes(f, it, w, z) BY <1>6, <2>1
  <2>3. Takes(f, it, y, z) BY <1>6, <2>1
  <2> QED BY <2>2, <2>3, <2>4 DEF w, Takes
<1> DEFINE Bad == { n \in Nat : \E y \in SUBSET Y : Cardinality(y) = n
                      /\ it[X \cup y] # it[X] + it[y] }
<1>3. Bad = {}
  <2> SUFFICES ASSUME Bad # {} PROVE FALSE OBVIOUS
  <2>1. Bad \in SUBSET Nat OBVIOUS
  <2>2. PICK n \in Bad : \A j \in Bad : n <= j
    <3> HIDE DEF Bad
    <3> QED BY <2>1, LeastExists
  <2>3. PICK y \in SUBSET Y : Cardinality(y) = n /\ it[X \cup y] # it[X] + it[y] OBVIOUS
  <2>4. y # {}
    <3>1. X \cup {} = X /\ it[X] \in Nat BY <1>2
    <3>2. it[X] = it[X] + it[{}] BY <1>2, <3>1
    <3> QED BY <2>3, <3>1, <3>2, Zenon
  <2>5. PICK z : z \in y BY <2>4
  <2> DEFINE t == y \ {z}
  <2>6. t \in SUBSET Y /\ Cardinality(t) = n - 1 /\ n - 1 \in Nat /\ n \in Nat
    <3>1. IsFiniteSet(y) /\ y \in SUBSET S /\ t \in SUBSET S BY <1>1
    <3>2. Cardinality(t) = Cardinality(y) - 1 BY <2>5, <3>1, FS_RemoveElement
    <3>3. Cardinality(t) \in Nat BY <1>1, <3>1
    <3> QED BY <2>3, <3>2, <3>3
  <2>7. it[y] = f[z] + it[t] /\ it[X \cup y] = f[z] + it[X \cup t]
    BY <1>5, <2>5
  <2>9. it[X \cup t] = it[X] + it[t]
    <3>1. n - 1 \notin Bad
      <4> HIDE DEF Bad
      <4> QED BY <2>2, <2>6
    <3> QED BY <2>6, <3>1
  <2>10. it[X] \in Nat /\ it[t] \in Nat /\ f[z] \in Nat
    <3>1. t \in SUBSET S /\ z \in S BY <2>5
    <3> QED BY <1>2, <3>1
  <2> QED BY <2>3, <2>7, <2>9, <2>10
<1>4. Y \in SUBSET Y /\ Cardinality(Y) \in Nat BY <1>1
<1> QED BY <1>3, <1>4

(* A sum of n numbers of at most k is at most n * k.                        *)
LEMMA SumAtMost ==
  ASSUME NEW S, IsFiniteSet(S), NEW f \in [S -> Nat], NEW it, IsSum(f, S, it),
         NEW X \in SUBSET S, NEW k \in Nat, \A c \in X : f[c] <= k
  PROVE  it[X] <= Cardinality(X) * k
<1> DEFINE g == [c \in X |-> f[c]]
<1>1. IsFiniteSet(X) BY FS_Subset
<1>2. g \in [X -> 0 .. k]
  <2>1. \A c \in X : f[c] \in 0 .. k OBVIOUS
  <2> QED BY <2>1
<1>3. g \in [X -> Nat] /\ \A c \in X : f[c] = g[c] OBVIOUS
<1> HIDE DEF g
<1>4. PICK jt : IsSum(g, X, jt) BY <1>1, <1>3, SumExists
<1>5. X \in SUBSET X OBVIOUS
<1>6. jt[X] <= Cardinality(X) * k
  <2>1. \A s \in SUBSET X : jt[s] \in Nat /\ jt[s] <= Cardinality(s) * k
    BY <1>1, <1>2, <1>4, SumBounds
  <2> QED BY <1>5, <2>1
<1>7. it[X] = jt[X]
  <2>1. X \subseteq S /\ X \subseteq X OBVIOUS
  <2>2. Agree(it, jt, X) BY <1>1, <1>3, <1>4, <2>1, SumAgree
  <2> QED BY <1>5, <2>2 DEF Agree
<1> QED BY <1>6, <1>7

(* A sum of n numbers of at least k is at least n * k.                      *)
LEMMA SumAtLeast ==
  ASSUME NEW S, IsFiniteSet(S), NEW f \in [S -> Nat], NEW it, IsSum(f, S, it),
         NEW X \in SUBSET S, NEW k \in Nat, \A c \in X : k <= f[c]
  PROVE  Cardinality(X) * k <= it[X]
<1>1. \A u \in SUBSET S : IsFiniteSet(u) /\ Cardinality(u) \in Nat BY FS_Subset, FS_CardinalityType
<1>2. it \in [SUBSET S -> Nat] /\ it[{}] = 0 BY SumType, SumEmpty
<1>3. \A u \in SUBSET S : \A x \in u : Takes(f, it, u, x) BY SumRemove
<1> DEFINE Bad == { n \in Nat : \E y \in SUBSET X : Cardinality(y) = n /\ ~(n * k <= it[y]) }
<1>4. Bad = {}
  <2> SUFFICES ASSUME Bad # {} PROVE FALSE OBVIOUS
  <2>1. Bad \in SUBSET Nat OBVIOUS
  <2>2. PICK n \in Bad : \A j \in Bad : n <= j
    <3> HIDE DEF Bad
    <3> QED BY <2>1, LeastExists
  <2>3. PICK y \in SUBSET X : Cardinality(y) = n /\ ~(n * k <= it[y]) OBVIOUS
  <2>4. n \in Nat OBVIOUS
  <2>5. y # {}
    <3>1. SUFFICES ASSUME y = {} PROVE FALSE OBVIOUS
    <3>2. n = 0 /\ it[y] = 0 BY <1>2, <2>3, <3>1, FS_EmptySet
    <3> QED BY <2>3, <3>2
  <2>6. PICK z : z \in y BY <2>5
  <2> DEFINE t == y \ {z}
  <2>7. t \in SUBSET X /\ Cardinality(t) = n - 1 /\ n - 1 \in Nat
    <3>1. IsFiniteSet(y) /\ y \in SUBSET S /\ t \in SUBSET S BY <1>1
    <3>2. Cardinality(t) = Cardinality(y) - 1 BY <2>6, <3>1, FS_RemoveElement
    <3>3. Cardinality(t) \in Nat BY <1>1, <3>1
    <3> QED BY <2>3, <3>2, <3>3
  <2>8. it[y] = f[z] + it[t]
    <3>1. y \in SUBSET S OBVIOUS
    <3>2. Takes(f, it, y, z) BY <1>3, <2>6, <3>1
    <3> QED BY <3>2 DEF Takes
  <2>9. (n - 1) * k <= it[t]
    <3>1. n - 1 \notin Bad
      <4> HIDE DEF Bad
      <4> QED BY <2>2, <2>4, <2>7
    <3> QED BY <2>7, <3>1
  <2>10. f[z] \in Nat /\ k <= f[z] /\ it[t] \in Nat
    <3>1. z \in S /\ z \in X /\ t \in SUBSET S BY <2>6
    <3> QED BY <1>2, <3>1
  <2>11. (n - 1) * k + k = n * k /\ (n - 1) * k \in Nat BY <2>4, <2>7
  <2> DEFINE a == (n - 1) * k
             b == n * k
  <2>12. a + k = b /\ a \in Nat /\ a <= it[t] /\ ~(b <= it[y]) BY <2>3, <2>9, <2>11
  <2> HIDE DEF a, b, t
  <2>13. b <= it[y] BY <2>8, <2>10, <2>12
  <2> QED BY <2>12, <2>13
<1>5. X \in SUBSET X /\ Cardinality(X) \in Nat BY <1>1
<1> QED BY <1>4, <1>5

(* The exchange: a set of m more elements than V, which has the elements    *)
(* of k and more, sums to at most m * k more.                               *)
LEMMA SumExchange ==
  ASSUME NEW S, IsFiniteSet(S), NEW f \in [S -> Nat], NEW it, IsSum(f, S, it),
         NEW A \in SUBSET S, NEW V \in SUBSET S, NEW k \in Nat, NEW m \in Nat,
         \A c \in V : k <= f[c], \A c \in A \ V : f[c] <= k,
         Cardinality(A) = Cardinality(V) + m
  PROVE  it[A] <= it[V] + m * k
<1>1. \A u \in SUBSET S : IsFiniteSet(u) /\ Cardinality(u) \in Nat BY FS_Subset, FS_CardinalityType
<1>2. it \in [SUBSET S -> Nat] BY SumType
<1> DEFINE X == A \ V
           Y == V \ A
           W == A \cap V
<1>3. X \in SUBSET S /\ Y \in SUBSET S /\ W \in SUBSET S OBVIOUS
<1>4. A = W \cup X /\ V = W \cup Y /\ W \cap X = {} /\ W \cap Y = {} OBVIOUS
<1>5. \A c \in X : f[c] <= k OBVIOUS
<1>6. \A c \in Y : k <= f[c] OBVIOUS
<1> HIDE DEF X, Y, W
<1>7. it[A] = it[W] + it[X] /\ it[V] = it[W] + it[Y]
  <2>1. it[W \cup X] = it[W] + it[X] BY <1>3, <1>4, SumUnion
  <2>2. it[W \cup Y] = it[W] + it[Y] BY <1>3, <1>4, SumUnion
  <2> QED BY <1>4, <2>1, <2>2
<1>8. it[X] <= Cardinality(X) * k BY <1>3, <1>5, SumAtMost
<1>9. Cardinality(Y) * k <= it[Y] BY <1>3, <1>6, SumAtLeast
<1>10. Cardinality(X) = Cardinality(Y) + m
  <2>1. Cardinality(A) = Cardinality(W) + Cardinality(X)
    <3>1. Cardinality(W \cup X) = Cardinality(W) + Cardinality(X) - Cardinality(W \cap X)
      BY <1>1, <1>3, FS_Union
    <3>2. Cardinality(W \cap X) = 0 BY <1>4, FS_EmptySet
    <3>3. Cardinality(W) \in Nat /\ Cardinality(X) \in Nat BY <1>1, <1>3
    <3> QED BY <1>4, <3>1, <3>2, <3>3
  <2>2. Cardinality(V) = Cardinality(W) + Cardinality(Y)
    <3>1. Cardinality(W \cup Y) = Cardinality(W) + Cardinality(Y) - Cardinality(W \cap Y)
      BY <1>1, <1>3, FS_Union
    <3>2. Cardinality(W \cap Y) = 0 BY <1>4, FS_EmptySet
    <3>3. Cardinality(W) \in Nat /\ Cardinality(Y) \in Nat BY <1>1, <1>3
    <3> QED BY <1>4, <3>1, <3>2, <3>3
  <2>3. Cardinality(W) \in Nat /\ Cardinality(X) \in Nat /\ Cardinality(Y) \in Nat BY <1>1, <1>3
  <2> QED BY <2>1, <2>2, <2>3
<1> DEFINE x == Cardinality(X)
           y == Cardinality(Y)
<1>11. x \in Nat /\ y \in Nat /\ x = y + m /\ it[X] <= x * k /\ y * k <= it[Y]
  BY <1>1, <1>3, <1>8, <1>9, <1>10
<1> HIDE DEF x, y
<1>12. x * k = y * k + m * k BY <1>11
<1>13. it[W] \in Nat /\ it[X] \in Nat /\ it[Y] \in Nat BY <1>2, <1>3
<1> DEFINE a == x * k
           b == y * k
           d == m * k
<1>14. a \in Nat /\ b \in Nat /\ d \in Nat /\ a = b + d /\ it[X] <= a /\ b <= it[Y]
  BY <1>11, <1>12
<1> HIDE DEF a, b, d
<1>15. it[W] + it[X] <= (it[W] + it[Y]) + d BY <1>13, <1>14
<1> QED BY <1>7, <1>15 DEF d

-----------------------------------------------------------------------------
(* A draft more in a schedule: its survival more accepted, a token more.    *)

(* A request's gain with a draft more.                                      *)
LEMMA GainStep ==
  ASSUME RowsType, NEW lens \in [Reqs -> 0 .. SpecTokens], NEW more \in [Reqs -> 0 .. SpecTokens],
         NEW r \in Reqs, more[r] = lens[r] + 1
  PROVE  Gain(more, r) = Gain(lens, r) + Survival(rows[r], more[r])
<1> DEFINE n == lens[r]
           S == 1 .. n
           T == 1 .. more[r]
<1>1. n \in Nat /\ more[r] = n + 1 /\ more[r] \in Nat BY ScheduleSizes
<1>2. IsFiniteSet(S) /\ IsFiniteSet(T) BY <1>1, FS_Interval
<1>3. S \subseteq T /\ S \subseteq S /\ more[r] \in T /\ T \ {more[r]} = S BY <1>1
<1>4. PICK f, it : GainSum(lens, r, S, f, it) BY GainIs
<1>5. PICK g, jt : GainSum(more, r, T, g, jt) BY GainIs
<1> HIDE DEF S, T, n
<1>6. /\ f \in [S -> Nat] /\ \A p \in S : f[p] = Survival(rows[r], p)
      /\ IsSum(f, S, it) /\ Gain(lens, r) = it[S]
  BY <1>4 DEF GainSum
<1>7. /\ g \in [T -> Nat] /\ \A p \in T : g[p] = Survival(rows[r], p)
      /\ IsSum(g, T, jt) /\ Gain(more, r) = jt[T]
  BY <1>5 DEF GainSum
<1>8. it[S] = jt[S]
  <2>1. \A x \in S : f[x] = g[x] BY <1>3, <1>6, <1>7
  <2>2. Agree(it, jt, S) BY <1>2, <1>3, <1>6, <1>7, <2>1, SumAgree
  <2> QED BY <2>2 DEF Agree
<1>9. jt[T] = g[more[r]] + jt[S]
  <2>1. \A s \in SUBSET T : \A x \in s : Takes(g, jt, s, x) BY <1>2, <1>7, SumRemove
  <2>2. Takes(g, jt, T, more[r]) BY <1>3, <2>1
  <2> QED BY <1>3, <2>2 DEF Takes
<1>10. Gain(lens, r) \in Nat /\ g[more[r]] = Survival(rows[r], more[r]) /\ g[more[r]] \in Nat
  BY <1>3, <1>7, GainNat
<1> QED BY <1>6, <1>7, <1>8, <1>9, <1>10

(* A request whose length is the same gains the same.                       *)
LEMMA GainSame ==
  ASSUME NEW lens, NEW more, NEW r, more[r] = lens[r]
  PROVE  Gain(more, r) = Gain(lens, r)
  BY DEF Gain, MapThenSumSet, MapThenFoldSet

(* The expected tokens with a draft more.                                   *)
LEMMA AcceptedStep ==
  ASSUME RowsType, NEW lens \in [Reqs -> 0 .. SpecTokens], NEW more \in [Reqs -> 0 .. SpecTokens],
         NEW r \in Reqs, more[r] = lens[r] + 1, \A q \in Reqs \ {r} : more[q] = lens[q]
  PROVE  Accepted(more) = Accepted(lens) + Survival(rows[r], more[r])
<1>1. IsFiniteSet(Reqs) BY ScheduleSizes, FS_Interval DEF Reqs
<1>2. PICK f, it : AcceptedSum(lens, f, it) BY AcceptedIs
<1>3. PICK g, jt : AcceptedSum(more, g, jt) BY AcceptedIs
<1>4. /\ f \in [Reqs -> Nat] /\ \A q \in Reqs : f[q] = Gain(lens, q)
      /\ IsSum(f, Reqs, it) /\ Accepted(lens) = it[Reqs]
  BY <1>2 DEF AcceptedSum
<1>5. /\ g \in [Reqs -> Nat] /\ \A q \in Reqs : g[q] = Gain(more, q)
      /\ IsSum(g, Reqs, jt) /\ Accepted(more) = jt[Reqs]
  BY <1>3 DEF AcceptedSum
<1> DEFINE U == Reqs \ {r}
<1>6. U \subseteq Reqs /\ Reqs \in SUBSET Reqs /\ U \in SUBSET U OBVIOUS
<1>7. it[U] = jt[U]
  <2>1. \A q \in U : f[q] = g[q] BY <1>4, <1>5, GainSame
  <2> HIDE DEF U
  <2>2. Agree(it, jt, U) BY <1>1, <1>4, <1>5, <1>6, <2>1, SumAgree
  <2> QED BY <1>6, <2>2 DEF Agree
<1>8. it[Reqs] = f[r] + it[U]
  <2>1. \A s \in SUBSET Reqs : \A x \in s : Takes(f, it, s, x) BY <1>1, <1>4, SumRemove
  <2>2. Takes(f, it, Reqs, r) BY <1>6, <2>1
  <2> QED BY <2>2 DEF Takes
<1>9. jt[Reqs] = g[r] + jt[U]
  <2>1. \A s \in SUBSET Reqs : \A x \in s : Takes(g, jt, s, x) BY <1>1, <1>5, SumRemove
  <2>2. Takes(g, jt, Reqs, r) BY <1>6, <2>1
  <2> QED BY <2>2 DEF Takes
<1>10. it[U] \in Nat
  <2>1. it \in [SUBSET Reqs -> Nat] BY <1>1, <1>4, SumType
  <2> QED BY <1>6, <2>1
<1> HIDE DEF U
<1>11. f[r] \in Nat /\ g[r] = f[r] + Survival(rows[r], more[r]) BY <1>4, <1>5, GainStep
<1>12. Survival(rows[r], more[r]) \in Nat
  <2>1. rows[r] \in [Positions -> Confidences] /\ more[r] \in 0 .. SpecTokens BY DEF RowsType
  <2> QED BY <2>1, SurvivalNat
<1> QED BY <1>4, <1>5, <1>7, <1>8, <1>9, <1>10, <1>11, <1>12

Total(lens) == MapThenSumSet(LAMBDA r : lens[r], Reqs)

(* The tokens of the drafts are the sum of the lengths.                     *)
LEMMA TotalIs ==
  ASSUME NEW lens \in [Reqs -> 0 .. SpecTokens]
  PROVE  \E it : IsSum(lens, Reqs, it) /\ Total(lens) = it[Reqs]
<1> DEFINE it == CHOOSE it : IsSum(lens, Reqs, it)
<1>1. IsFiniteSet(Reqs) BY ScheduleSizes, FS_Interval DEF Reqs
<1>2. lens \in [Reqs -> Nat] BY ScheduleSizes
<1>3. IsSum(lens, Reqs, it)
  <2>1. \E jt : IsSum(lens, Reqs, jt) BY <1>1, <1>2, SumExists
  <2> QED BY <2>1
<1>4. Total(lens) = it[Reqs]
  BY DEF Total, MapThenSumSet, MapThenFoldSet, IsSum, Pick
<1> QED BY <1>3, <1>4

(* The tokens of the drafts with a draft more.                              *)
LEMMA TotalStep ==
  ASSUME NEW lens \in [Reqs -> 0 .. SpecTokens], NEW more \in [Reqs -> 0 .. SpecTokens],
         NEW r \in Reqs, more[r] = lens[r] + 1, \A q \in Reqs \ {r} : more[q] = lens[q]
  PROVE  Total(more) = Total(lens) + 1
<1>1. IsFiniteSet(Reqs) BY ScheduleSizes, FS_Interval DEF Reqs
<1>2. lens \in [Reqs -> Nat] /\ more \in [Reqs -> Nat] BY ScheduleSizes
<1>4. PICK it : IsSum(lens, Reqs, it) /\ Total(lens) = it[Reqs] BY TotalIs
<1>5. PICK jt : IsSum(more, Reqs, jt) /\ Total(more) = jt[Reqs] BY TotalIs
<1> DEFINE U == Reqs \ {r}
<1>6. U \subseteq Reqs /\ Reqs \in SUBSET Reqs /\ U \in SUBSET U OBVIOUS
<1>7. it[U] = jt[U]
  <2>1. \A q \in U : lens[q] = more[q] OBVIOUS
  <2> HIDE DEF U
  <2>2. Agree(it, jt, U) BY <1>1, <1>2, <1>4, <1>5, <1>6, <2>1, SumAgree
  <2> QED BY <1>6, <2>2 DEF Agree
<1>8. it[Reqs] = lens[r] + it[U]
  <2>1. \A s \in SUBSET Reqs : \A x \in s : Takes(lens, it, s, x) BY <1>1, <1>2, <1>4, SumRemove
  <2>2. Takes(lens, it, Reqs, r) BY <1>6, <2>1
  <2> QED BY <2>2 DEF Takes
<1>9. jt[Reqs] = more[r] + jt[U]
  <2>1. \A s \in SUBSET Reqs : \A x \in s : Takes(more, jt, s, x) BY <1>1, <1>2, <1>5, SumRemove
  <2>2. Takes(more, jt, Reqs, r) BY <1>6, <2>1
  <2> QED BY <2>2 DEF Takes
<1>10. it[U] \in Nat
  <2>1. it \in [SUBSET Reqs -> Nat] BY <1>1, <1>2, <1>4, SumType
  <2> QED BY <1>6, <2>1
<1> HIDE DEF U
<1>11. lens[r] \in Nat BY <1>2
<1> QED BY <1>4, <1>5, <1>7, <1>8, <1>9, <1>10, <1>11

-----------------------------------------------------------------------------
(* The score of a schedule is that of the set of its drafts, whatever the   *)
(* order in which the sums are taken.                                       *)

Drafts == Reqs \X Positions

DraftSum(f, it) ==
  f \in [Drafts -> Nat] /\ (\A c \in Drafts : f[c] = SurvivalOf(c)) /\ IsSum(f, Drafts, it)

(* There are finitely many drafts.                                          *)
LEMMA DraftsFinite == IsFiniteSet(Drafts)
<1>1. IsFiniteSet(Reqs) /\ IsFiniteSet(Positions) BY ScheduleSizes, FS_Interval DEF Reqs, Positions
<1> QED BY <1>1, FS_Product DEF Drafts

(* The survivals of all drafts can be added up.                             *)
LEMMA DraftSumExists ==
  ASSUME RowsType PROVE \E f, it : DraftSum(f, it)
<1> DEFINE f == [c \in Drafts |-> SurvivalOf(c)]
<1>1. f \in [Drafts -> Nat] BY SurvivalOfTyped DEF Drafts
<1>2. \A c \in Drafts : f[c] = SurvivalOf(c) OBVIOUS
<1> HIDE DEF f
<1>3. \E it : IsSum(f, Drafts, it) BY <1>1, DraftsFinite, SumExists
<1> QED BY <1>1, <1>2, <1>3 DEF DraftSum

(* A schedule without drafts.                                               *)
LEMMA NothingAdmitted ==
  ASSUME RowsType, NEW lens \in [Reqs -> 0 .. SpecTokens], Admitted(lens) = {}
  PROVE  Accepted(lens) = 0 /\ Total(lens) = 0
<1>1. IsFiniteSet(Reqs) /\ Cardinality(Reqs) \in Nat
  BY ScheduleSizes, FS_Interval, FS_CardinalityType DEF Reqs
<1>2. ASSUME NEW r \in Reqs PROVE lens[r] = 0
  <2>1. SUFFICES ASSUME lens[r] # 0 PROVE FALSE OBVIOUS
  <2>2. lens[r] \in Nat /\ 1 <= lens[r] /\ 1 \in Positions BY <2>1, ScheduleSizes DEF Positions
  <2>3. <<r, 1>> \in Admitted(lens) BY <2>2 DEF Admitted
  <2> QED BY <2>3
<1>3. ASSUME NEW r \in Reqs PROVE Gain(lens, r) = 0
  <2>1. PICK f, it : GainSum(lens, r, 1 .. lens[r], f, it) BY GainIs
  <2>2. 1 .. lens[r] = {} BY <1>2
  <2>3. IsSum(f, {}, it) /\ Gain(lens, r) = it[{}] BY <2>1, <2>2 DEF GainSum
  <2> QED BY <2>3, SumEmpty
<1>4. Reqs \in SUBSET Reqs OBVIOUS
<1>5. Cardinality(Reqs) * 0 = 0 BY <1>1
<1>6. Accepted(lens) = 0
  <2>1. PICK f, it : AcceptedSum(lens, f, it) BY AcceptedIs
  <2>2. f \in [Reqs -> Nat] /\ IsSum(f, Reqs, it) /\ Accepted(lens) = it[Reqs]
    BY <2>1 DEF AcceptedSum
  <2>3. \A r \in Reqs : f[r] <= 0 BY <1>3, <2>1 DEF AcceptedSum
  <2>4. it[Reqs] <= Cardinality(Reqs) * 0 BY <1>1, <1>4, <2>2, <2>3, SumAtMost
  <2>5. it[Reqs] \in Nat BY <1>1, <2>2, SumNat
  <2> QED BY <1>5, <2>2, <2>4, <2>5
<1>7. Total(lens) = 0
  <2>1. PICK it : IsSum(lens, Reqs, it) /\ Total(lens) = it[Reqs] BY TotalIs
  <2>2. lens \in [Reqs -> Nat] BY ScheduleSizes
  <2>3. \A r \in Reqs : lens[r] <= 0 BY <1>2
  <2>4. it[Reqs] <= Cardinality(Reqs) * 0 BY <1>1, <1>4, <2>1, <2>2, <2>3, SumAtMost
  <2>5. it[Reqs] \in Nat BY <1>1, <2>1, <2>2, SumNat
  <2> QED BY <1>5, <2>1, <2>4, <2>5
<1> QED BY <1>6, <1>7

(* Expected tokens and tokens are those of the set of drafts admitted.      *)
LEMMA SumsByDrafts ==
  ASSUME RowsType, NEW f, NEW it, DraftSum(f, it), NEW lens \in [Reqs -> 0 .. SpecTokens]
  PROVE  Accepted(lens) = it[Admitted(lens)] /\ Total(lens) = Cardinality(Admitted(lens))
<1> DEFINE Lengths == [Reqs -> 0 .. SpecTokens]
           Ok(x) == Accepted(x) = it[Admitted(x)] /\ Total(x) = Cardinality(Admitted(x))
           Bad == { n \in Nat : \E x \in Lengths : Cardinality(Admitted(x)) = n /\ ~Ok(x) }
<1>1. /\ f \in [Drafts -> Nat] /\ IsSum(f, Drafts, it) /\ \A c \in Drafts : f[c] = SurvivalOf(c)
  BY DEF DraftSum
<1>2. \A x \in Lengths : Admitted(x) \in SUBSET Drafts /\ Cardinality(Admitted(x)) \in Nat
  BY AdmittedCount DEF Admitted, Drafts
<1>3. Bad = {}
  <2> SUFFICES ASSUME Bad # {} PROVE FALSE OBVIOUS
  <2>1. Bad \in SUBSET Nat OBVIOUS
  <2>2. PICK n \in Bad : \A j \in Bad : n <= j
    <3> HIDE DEF Bad
    <3> QED BY <2>1, LeastExists
  <2>3. PICK x \in Lengths : Cardinality(Admitted(x)) = n /\ ~Ok(x)
    <3> HIDE DEF Ok, Lengths
    <3> QED OBVIOUS
  <2>4. n \in Nat OBVIOUS
  <2>5. CASE Admitted(x) = {}
    <3>1. Accepted(x) = 0 /\ Total(x) = 0 BY <2>5, NothingAdmitted
    <3>2. it[{}] = 0 /\ Cardinality({}) = 0 BY <1>1, SumEmpty, FS_EmptySet
    <3> QED BY <2>3, <2>5, <3>1, <3>2
  <2>6. CASE Admitted(x) # {}
    <3>1. PICK d \in Admitted(x) : TRUE BY <2>6
    <3>2. d \in Reqs \X Positions /\ d[2] <= x[d[1]] BY <3>1 DEF Admitted
    <3> DEFINE r == d[1]
               y == [x EXCEPT ![r] = x[r] - 1]
    <3>3. r \in Reqs /\ x[r] \in 1 .. SpecTokens
      <4>1. d[1] \in Reqs /\ d[2] \in 1 .. SpecTokens /\ x[d[1]] \in 0 .. SpecTokens
        BY <3>2 DEF Positions
      <4> QED BY <3>2, <4>1, ScheduleSizes
    <3>4. y \in Lengths /\ x[r] = y[r] + 1 /\ \A q \in Reqs \ {r} : x[q] = y[q]
      <4>1. x[r] - 1 \in 0 .. SpecTokens BY <3>3, ScheduleSizes
      <4>2. x[r] = (x[r] - 1) + 1 BY <3>3, ScheduleSizes
      <4> QED BY <3>3, <4>1, <4>2
    <3> HIDE DEF y, r
    <3> DEFINE c == <<r, x[r]>>
    <3>5. /\ c \in Drafts /\ c \notin Admitted(y) /\ Admitted(x) = Admitted(y) \cup {c}
          /\ Cardinality(Admitted(x)) = Cardinality(Admitted(y)) + 1
      BY <3>3, <3>4, AdmittedStep DEF Drafts
    <3>6. Accepted(x) = Accepted(y) + Survival(rows[r], x[r]) BY <3>3, <3>4, AcceptedStep
    <3>7. Total(x) = Total(y) + 1 BY <3>3, <3>4, TotalStep
    <3>8. Ok(y)
      <4>1. Cardinality(Admitted(y)) = n - 1 /\ n - 1 \in Nat
        <5>1. Cardinality(Admitted(y)) \in Nat BY <1>2, <3>4
        <5> QED BY <2>3, <2>4, <3>5, <5>1
      <4>2. n - 1 \notin Bad
        <5> HIDE DEF Bad
        <5> QED BY <2>2, <2>4, <4>1
      <4> HIDE DEF Ok
      <4> QED BY <3>4, <4>1, <4>2
    <3>9. it[Admitted(x)] = it[Admitted(y)] + Survival(rows[r], x[r])
      <4>1. \A s \in SUBSET Drafts : \A z \in s : Takes(f, it, s, z)
        BY <1>1, DraftsFinite, SumRemove
      <4>2. Admitted(x) \in SUBSET Drafts /\ c \in Admitted(x) /\ Admitted(x) \ {c} = Admitted(y)
        <5>1. Admitted(x) \in SUBSET Drafts BY <1>2
        <5> QED BY <3>5, <5>1
      <4>3. Takes(f, it, Admitted(x), c) BY <4>1, <4>2
      <4>4. it[Admitted(x)] = f[c] + it[Admitted(y)] BY <4>2, <4>3 DEF Takes
      <4>5. f[c] = Survival(rows[r], x[r]) /\ f[c] \in Nat BY <1>1, <3>5 DEF SurvivalOf
      <4>6. it[Admitted(y)] \in Nat
        <5>1. it \in [SUBSET Drafts -> Nat] BY <1>1, DraftsFinite, SumType
        <5> QED BY <1>2, <3>4, <5>1
      <4> QED BY <4>4, <4>5, <4>6
    <3>10. Ok(x) BY <3>5, <3>6, <3>7, <3>8, <3>9
    <3> QED BY <2>3, <3>10
  <2> QED BY <2>5, <2>6
<1>4. Ok(lens)
  <2> HIDE DEF Ok
  <2> QED BY <1>2, <1>3
<1> QED BY <1>4

-----------------------------------------------------------------------------
(* The arithmetic of a peak: gains of k a token and rates that are          *)
(* log-concave do not rise again once they have fallen.                     *)
LEMMA ProductsOrdered ==
  ASSUME NEW a \in Nat, NEW b \in Nat, NEW c \in Nat, NEW d \in Nat, a <= b, c <= d
  PROVE  a * c <= b * d /\ a * c \in Nat /\ b * d \in Nat
<1>1. a * c <= b * c
  <2>1. (b - a) * c >= 0 BY SMT
  <2>2. (b - a) * c = b * c - a * c BY SMT
  <2> QED BY <2>1, <2>2
<1>2. b * c <= b * d
  <2>1. b * (d - c) >= 0 BY SMT
  <2>2. b * (d - c) = b * d - b * c BY SMT
  <2> QED BY <2>1, <2>2
<1> QED BY <1>1, <1>2

(* One step past a peak.                                                    *)
LEMMA StillFalling ==
  ASSUME NEW b \in Nat, NEW k \in Nat, k < b,
         NEW x \in Nat \ {0}, NEW y \in Nat \ {0}, NEW z \in Nat \ {0},
         y * y >= x * z, b * y <= (b - k) * x
  PROVE  (b + k) * z <= b * y
<1> DEFINE a == b - k
           c == b + k
<1>1. a \in Nat /\ a > 0 /\ c \in Nat OBVIOUS
<1>2. a * c <= b * b
  <2>1. a * c = b * b - k * k OBVIOUS
  <2>2. k * k >= 0 OBVIOUS
  <2>3. b * b \in Int /\ k * k \in Int OBVIOUS
  <2> QED BY <2>1, <2>2, <2>3
<1> HIDE DEF a, c
<1>3. x * z \in Nat /\ y * y \in Nat /\ a * c \in Nat /\ b * b \in Nat BY <1>1
<1>4. (a * c) * (x * z) <= (b * b) * (y * y) BY <1>2, <1>3, ProductsOrdered
<1>5. (a * c) * (x * z) = (c * z) * (a * x) /\ (b * b) * (y * y) = (b * y) * (b * y)
  BY <1>1
<1>6. b * y \in Nat /\ a * x \in Nat /\ c * z \in Nat /\ b * y <= a * x BY <1>1 DEF a
<1>7. (b * y) * (b * y) <= (b * y) * (a * x) BY <1>6, ProductsOrdered
<1>8. a * x > 0 BY <1>1
<1> DEFINE p == c * z
           q == a * x
           w == b * y
<1>9. p \in Nat /\ q \in Nat /\ w \in Nat /\ q > 0 /\ p * q <= w * q
  <2>1. (c * z) * (a * x) <= (b * y) * (a * x)
    <3>1. (c * z) * (a * x) \in Int /\ (b * y) * (b * y) \in Int /\ (b * y) * (a * x) \in Int
      BY <1>6
    <3>2. (c * z) * (a * x) <= (b * y) * (b * y) BY <1>4, <1>5
    <3> QED BY <1>7, <3>1, <3>2
  <2> QED BY <1>6, <1>8, <2>1
<1> HIDE DEF p, q, w
<1>10. p <= w
  <2>1. SUFFICES ASSUME w + 1 <= p PROVE FALSE BY <1>9
  <2>2. (w + 1) * q <= p * q BY <1>9, <2>1, ProductsOrdered
  <2>3. (w + 1) * q = w * q + q BY <1>9
  <2>4. w * q \in Int /\ p * q \in Int BY <1>9
  <2> QED BY <1>9, <2>2, <2>3, <2>4
<1> QED BY <1>10 DEF p, w, c

(* All of them: nothing beyond the first fall reaches the peak again.       *)
LEMMA PastThePeak ==
  ASSUME NEW E \in Nat \ {0}, NEW k \in Nat, NEW t \in Nat, NEW m \in Nat \ {0},
         NEW s \in [t .. t + m -> Nat \ {0}],
         \A i \in t + 1 .. (t + m) - 1 : s[i] * s[i] >= s[i - 1] * s[i + 1],
         (E + k) * s[t + 1] <= E * s[t]
  PROVE  (E + m * k) * s[t + m] <= E * s[t]
<1> DEFINE P(j) == (E + j * k) * s[t + j]
           Ok(j) == P(j) <= P(j - 1) /\ P(j) <= P(0)
           Bad == { j \in 1 .. m : ~Ok(j) }
<1>1. \A j \in 0 .. m : E + j * k \in Nat \ {0} /\ t + j \in t .. t + m /\ s[t + j] \in Nat \ {0}
  <2>1. ASSUME NEW j \in 0 .. m
        PROVE  E + j * k \in Nat \ {0} /\ t + j \in t .. t + m /\ s[t + j] \in Nat \ {0}
    <3> DEFINE w == j * k
    <3>1. w \in Nat OBVIOUS
    <3> HIDE DEF w
    <3>2. E + w \in Nat \ {0} BY <3>1
    <3>3. t + j \in t .. t + m OBVIOUS
    <3>4. s[t + j] \in Nat \ {0} BY <3>3
    <3> QED BY <3>2, <3>3, <3>4 DEF w
  <2> QED BY <2>1
<1>2. \A j \in 0 .. m : P(j) \in Nat
  <2>1. ASSUME NEW j \in 0 .. m PROVE P(j) \in Nat
    <3> DEFINE x == E + j * k
               y == s[t + j]
    <3>1. x \in Nat /\ y \in Nat BY <1>1
    <3> HIDE DEF x, y
    <3>2. x * y \in Nat BY <3>1
    <3> QED BY <3>2 DEF x, y
  <2> QED BY <2>1
<1>3. P(0) = E * s[t] /\ P(1) = (E + k) * s[t + 1]
  <2>1. E + 0 * k = E /\ t + 0 = t /\ E + 1 * k = E + k OBVIOUS
  <2> QED BY <2>1
<1>4. Ok(1)
  <2>1. 1 - 1 = 0 OBVIOUS
  <2>2. P(1) <= P(0) BY <1>3
  <2> HIDE DEF P
  <2> QED BY <2>1, <2>2
<1>5. Bad = {}
  <2> SUFFICES ASSUME Bad # {} PROVE FALSE OBVIOUS
  <2>1. Bad \in SUBSET Nat OBVIOUS
  <2>2. PICK j \in Bad : \A i \in Bad : j <= i
    <3> HIDE DEF Bad
    <3> QED BY <2>1, LeastExists
  <2>3. j \in 1 .. m /\ ~Ok(j)
    <3> HIDE DEF Ok
    <3> QED OBVIOUS
  <2>4. j # 1
    <3> HIDE DEF Ok
    <3> QED BY <1>4, <2>3
  <2>5. /\ j - 1 \in 1 .. m /\ j - 1 < j /\ j \in 0 .. m /\ j - 1 \in 0 .. m /\ j - 2 \in 0 .. m
        /\ (j - 1) - 1 = j - 2 /\ j \in Nat
    BY <2>3, <2>4
  <2>6. Ok(j - 1)
    <3>1. j - 1 \notin Bad
      <4> HIDE DEF Bad
      <4> QED BY <2>2, <2>5
    <3> HIDE DEF Ok
    <3> QED BY <2>5, <3>1
  <2>7. P(j - 1) <= P(j - 2) /\ P(j - 1) <= P(0)
    <3> HIDE DEF P
    <3> QED BY <2>5, <2>6
  <2>8. P(j) <= P(j - 1)
    <3> DEFINE b == E + (j - 1) * k
               x == s[t + (j - 2)]
               y == s[t + (j - 1)]
               z == s[t + j]
    <3>1. b \in Nat /\ b - k = E + (j - 2) * k /\ b + k = E + j * k /\ k < b
      <4>1. (j - 1) * k = (j - 2) * k + k /\ j * k = (j - 1) * k + k BY <2>5
      <4>2. (j - 2) * k \in Nat /\ (j - 1) * k \in Nat /\ j * k \in Nat BY <2>5
      <4> DEFINE u == (j - 2) * k
                 v == (j - 1) * k
                 w == j * k
      <4>3. u \in Nat /\ v \in Nat /\ w \in Nat /\ v = u + k /\ w = v + k BY <4>1, <4>2
      <4> HIDE DEF u, v, w
      <4>4. E + v \in Nat /\ (E + v) - k = E + u /\ (E + v) + k = E + w /\ k < E + v
        BY <4>3
      <4> QED BY <4>4 DEF u, v, w
    <3>2. x \in Nat \ {0} /\ y \in Nat \ {0} /\ z \in Nat \ {0} BY <1>1, <2>5
    <3>3. y * y >= x * z
      <4> DEFINE i == t + (j - 1)
      <4>1. i \in t + 1 .. (t + m) - 1 /\ i - 1 = t + (j - 2) /\ i + 1 = t + j
        BY <2>3, <2>5
      <4> HIDE DEF i
      <4>2. s[i] * s[i] >= s[i - 1] * s[i + 1] BY <4>1
      <4> QED BY <4>1, <4>2 DEF i
    <3>4. b * y <= (b - k) * x BY <2>7, <3>1
    <3> HIDE DEF b, x, y, z
    <3>5. (b + k) * z <= b * y BY <3>1, <3>2, <3>3, <3>4, StillFalling
    <3> QED BY <3>1, <3>5 DEF b, y, z
  <2>9. P(j) <= P(0)
    <3>1. P(j) \in Nat /\ P(j - 1) \in Nat /\ P(0) \in Nat
      <4>1. 0 \in 0 .. m OBVIOUS
      <4> HIDE DEF P
      <4> QED BY <1>2, <2>5, <4>1
    <3> HIDE DEF P
    <3> QED BY <2>7, <2>8, <3>1
  <2> HIDE DEF P
  <2> QED BY <2>3, <2>8, <2>9
<1>6. Ok(m)
  <2>1. m \in 1 .. m OBVIOUS
  <2> HIDE DEF Ok
  <2> QED BY <1>5, <2>1
<1>7. P(m) <= P(0)
  <2> HIDE DEF P
  <2> QED BY <1>6
<1> QED BY <1>3, <1>7

-----------------------------------------------------------------------------
(* Every power is positive.                                                 *)
LEMMA PowerPositive == \A n \in Nat : Power[n] \in Nat \ {0}
<1> DEFINE Bad == { n \in Nat : Power[n] \notin Nat \ {0} }
<1>1. Power[0] = 1 /\ \A n \in Nat \ {0} : Power[n] = Unit * Power[n - 1] BY PowerIs
<1>2. Bad = {}
  <2> SUFFICES ASSUME Bad # {} PROVE FALSE OBVIOUS
  <2>1. Bad \in SUBSET Nat OBVIOUS
  <2>2. PICK m \in Bad : \A k \in Bad : m <= k
    <3> HIDE DEF Bad
    <3> QED BY <2>1, LeastExists
  <2>3. m \in Nat /\ Power[m] \notin Nat \ {0} OBVIOUS
  <2>4. m # 0 BY <1>1, <2>3
  <2>5. m - 1 \in Nat /\ m - 1 < m BY <2>3, <2>4
  <2>6. Power[m - 1] \in Nat \ {0}
    <3>1. m - 1 \notin Bad
      <4> HIDE DEF Bad
      <4> QED BY <2>2, <2>3, <2>5
    <3> QED BY <2>5, <3>1
  <2>7. Power[m] = Unit * Power[m - 1] BY <1>1, <2>3, <2>4
  <2>8. Unit \in Nat \ {0} BY ScheduleSizes
  <2> DEFINE w == Power[m - 1]
  <2>9. w \in Nat \ {0} BY <2>6
  <2> HIDE DEF w
  <2>10. Unit * w \in Nat \ {0} BY <2>8, <2>9
  <2> QED BY <2>3, <2>7, <2>10 DEF w
<1> QED BY <1>2

(* The products of a longer prefix begin with those of a shorter one.       *)
LEMMA ProductExtends ==
  ASSUME NEW n \in Nat, NEW row, \A i \in 1 .. n + 1 : row[i] \in Nat
  PROVE  Product(row, n + 1)[n] = Product(row, n)[n]
<1> DEFINE f == Product(row, n)
           g == Product(row, n + 1)
<1>1. f[0] = 1 /\ \A i \in 1 .. n : f[i] = f[i - 1] * row[i]
  <2>1. \A i \in 1 .. n : row[i] \in Nat OBVIOUS
  <2> QED BY <2>1, ProductIs
<1>2. g[0] = 1 /\ \A i \in 1 .. n + 1 : g[i] = g[i - 1] * row[i]
  <2>1. n + 1 \in Nat OBVIOUS
  <2> QED BY <2>1, ProductIs
<1> HIDE DEF f, g
<1> DEFINE Bad == { i \in 0 .. n : f[i] # g[i] }
<1>3. Bad = {}
  <2> SUFFICES ASSUME Bad # {} PROVE FALSE OBVIOUS
  <2>1. Bad \in SUBSET Nat OBVIOUS
  <2>2. PICK m \in Bad : \A k \in Bad : m <= k
    <3> HIDE DEF Bad
    <3> QED BY <2>1, LeastExists
  <2>3. m \in 0 .. n /\ f[m] # g[m] OBVIOUS
  <2>4. m # 0 BY <1>1, <1>2, <2>3
  <2>5. m - 1 \in 0 .. n /\ m - 1 < m /\ m \in 1 .. n /\ m \in 1 .. n + 1 BY <2>3, <2>4
  <2>6. f[m - 1] = g[m - 1] BY <2>2, <2>5
  <2> QED BY <1>1, <1>2, <2>3, <2>5, <2>6
<1>4. f[n] = g[n] BY <1>3
<1> QED BY <1>4 DEF f, g

(* A draft survives at most as often as the one before it.                  *)
LEMMA SurvivalFalls ==
  ASSUME NEW row \in [Positions -> Confidences], NEW p \in 1 .. SpecTokens - 1
  PROVE  Survival(row, p + 1) <= Survival(row, p)
<1>1. p \in Nat /\ p + 1 \in Nat /\ SpecTokens - (p + 1) \in Nat /\ SpecTokens \in Nat
      /\ (SpecTokens - p) - 1 = SpecTokens - (p + 1) /\ SpecTokens - p \in Nat \ {0}
      /\ p + 1 \in Positions /\ (p + 1) - 1 = p /\ p + 1 \in 1 .. p + 1
  BY ScheduleSizes DEF Positions
<1>2. \A i \in 1 .. p + 1 : row[i] \in Nat
  <2>1. \A i \in 1 .. p + 1 : i \in Positions BY <1>1 DEF Positions
  <2>2. \A i \in Positions : row[i] \in Nat BY ScheduleSizes
  <2> QED BY <2>1, <2>2
<1>3. row[p + 1] \in Nat /\ Unit \in Nat /\ row[p + 1] <= Unit
  <2>1. row[p + 1] \in Confidences BY <1>1
  <2>2. Confidences \subseteq 0 .. Unit BY PrefixScheduleAssumption
  <2>3. Unit \in Nat /\ \A a \in 0 .. Unit : a \in Nat /\ a <= Unit BY ScheduleSizes
  <2>4. row[p + 1] \in 0 .. Unit BY <2>1, <2>2, Zenon
  <2> QED BY <2>3, <2>4, Zenon
<1> DEFINE q == Product(row, p)[p]
           w == Power[SpecTokens - (p + 1)]
<1>4. Product(row, p + 1)[p + 1] = q * row[p + 1]
  <2>1. Product(row, p + 1)[p + 1] = Product(row, p + 1)[(p + 1) - 1] * row[p + 1]
    BY <1>1, <1>2, ProductIs
  <2>2. Product(row, p + 1)[p] = Product(row, p)[p] BY <1>1, <1>2, ProductExtends
  <2> QED BY <1>1, <2>1, <2>2
<1>5. Power[SpecTokens - p] = Unit * w BY <1>1, PowerIs
<1>6. q \in Nat
  <2>1. \A i \in 1 .. p : row[i] \in Nat BY <1>1, <1>2
  <2>2. Product(row, p) \in [0 .. p -> Nat] BY <1>1, <2>1, ProductIs
  <2>3. p \in 0 .. p BY <1>1
  <2> QED BY <2>2, <2>3
<1>7. w \in Nat BY <1>1, PowerIs
<1>8. Survival(row, p + 1) = (q * row[p + 1]) * w BY <1>4, SurvivalIs
<1>9. Survival(row, p) = q * (Unit * w) BY <1>5, SurvivalIs
<1> DEFINE x == row[p + 1]
<1>10. x \in Nat /\ x <= Unit BY <1>3
<1> HIDE DEF q, w, x
<1>11. x * w <= Unit * w /\ x * w \in Nat /\ Unit * w \in Nat BY <1>3, <1>7, <1>10, ProductsOrdered
<1>12. q * (x * w) <= q * (Unit * w) BY <1>6, <1>11, ProductsOrdered
<1>13. (q * x) * w = q * (x * w) BY <1>6, <1>7, <1>10
<1> QED BY <1>8, <1>9, <1>12, <1>13 DEF x

TableType == table \in [BatchTokens -> Rates \cup {NoRate}]

(* A non-empty bounded set of natural numbers has a greatest one.           *)
LEMMA GreatestExists ==
  ASSUME NEW b \in Nat, NEW S \in SUBSET (0 .. b), S # {}
  PROVE  \E n \in S : \A m \in S : m <= n
<1> DEFINE T == { b - n : n \in S }
<1>1. T \in SUBSET Nat /\ T # {}
  <2>1. \A n \in S : n \in 0 .. b OBVIOUS
  <2>2. \A n \in 0 .. b : b - n \in Nat OBVIOUS
  <2> QED BY <2>1, <2>2
<1>2. PICK k \in T : \A j \in T : k <= j
  <2> HIDE DEF T
  <2> QED BY <1>1, LeastExists
<1>3. PICK n \in S : k = b - n OBVIOUS
<1>4. ASSUME NEW m \in S PROVE m <= n
  <2>1. b - m \in T OBVIOUS
  <2>2. k <= b - m BY <1>2, <2>1
  <2> QED BY <1>3, <2>2
<1> QED BY <1>4

(* The table gives every step a rate.                                       *)
LEMMA StepsNat ==
  ASSUME TableType, NEW t \in Nat PROVE StepsPerSecond(t) \in Nat
<1> DEFINE profiled == { n \in BatchTokens : table[n] # NoRate }
           below    == { n \in profiled : n <= t }
           low      == CHOOSE n \in profiled : \A m \in profiled : n <= m
           high     == CHOOSE n \in below : \A m \in below : m <= n
<1>1. Requests \in Nat /\ SpecTokens \in Nat /\ Rates \subseteq Nat BY ScheduleSizes
<1>2. BatchTokens \subseteq Nat
  <2>1. Requests * (1 + SpecTokens) \in Nat BY <1>1
  <2> QED BY <1>1, <2>1 DEF BatchTokens
<1>3. \A n \in profiled : table[n] \in Nat
  <2>1. \A n \in BatchTokens : table[n] \in Rates \/ table[n] = NoRate BY DEF TableType
  <2> QED BY <1>1, <2>1
<1>4. profiled \subseteq Nat /\ below \subseteq profiled /\ below \in SUBSET (0 .. t)
  <2>1. profiled \subseteq Nat /\ below \subseteq profiled BY <1>2
  <2>2. \A n \in below : n \in Nat /\ n <= t BY <2>1
  <2>3. \A n \in below : n \in 0 .. t
    <3> HIDE DEF below
    <3> QED BY <2>2
  <2> QED BY <2>1, <2>3
<1>5. StepsPerSecond(t) = IF profiled = {} THEN 1 ELSE IF below = {} THEN table[low] ELSE table[high]
  BY DEF StepsPerSecond
<1>6. profiled # {} => low \in profiled
  <2> SUFFICES ASSUME profiled # {} PROVE low \in profiled OBVIOUS
  <2> HIDE DEF profiled
  <2>1. profiled \in SUBSET Nat BY <1>4
  <2>2. \E n \in profiled : \A m \in profiled : n <= m BY <2>1, LeastExists
  <2> QED BY <2>2
<1>7. below # {} => high \in below
  <2> SUFFICES ASSUME below # {} PROVE high \in below OBVIOUS
  <2> HIDE DEF below
  <2>1. \E n \in below : \A m \in below : m <= n BY <1>4, GreatestExists
  <2> QED BY <2>1
<1> HIDE DEF profiled, below, low, high
<1>8. profiled # {} => table[low] \in Nat BY <1>3, <1>6
<1>9. below # {} => table[high] \in Nat BY <1>3, <1>4, <1>7
<1> QED BY <1>5, <1>8, <1>9

-----------------------------------------------------------------------------
(* What a score holds, besides its lengths.                                 *)
LEMMA ScoreFields ==
  ASSUME RowsType, NEW lens \in [Reqs -> 0 .. SpecTokens]
  PROVE  /\ Score(lens).expected = Requests * Power[SpecTokens] + Accepted(lens)
         /\ Score(lens).tokens = Requests + Total(lens)
         /\ Score(lens).expected \in Nat \ {0} /\ Score(lens).tokens \in BatchTokens
         /\ Score(lens).lengths = lens
<1>1. /\ Score(lens).expected = Requests * Power[SpecTokens] + Accepted(lens)
      /\ Score(lens).tokens = Requests + Total(lens)
  BY ScoreIs DEF Total
<1>2. Accepted(lens) \in Nat BY AcceptedNat
<1>3. Requests \in Nat \ {0} /\ SpecTokens \in Nat BY ScheduleSizes
<1>4. Power[SpecTokens] \in Nat \ {0} BY <1>3, PowerPositive
<1> DEFINE w == Power[SpecTokens]
<1> HIDE DEF w
<1>5. Requests * w \in Nat \ {0} BY <1>3, <1>4 DEF w
<1>6. Requests * Power[SpecTokens] + Accepted(lens) \in Nat \ {0}
  <2> DEFINE v == Requests * w
  <2>1. v \in Nat \ {0} BY <1>5
  <2> HIDE DEF v
  <2>2. v + Accepted(lens) \in Nat \ {0} BY <1>2, <2>1
  <2> QED BY <2>2 DEF v, w
<1>7. Score(lens).tokens \in BatchTokens /\ Score(lens).lengths = lens BY ScoreTyped
<1> QED BY <1>1, <1>6, <1>7

(* A schedule verifies candidates.                                          *)
LEMMA ScheduleOfCandidates ==
  ASSUME NEW lens \in Schedules
  PROVE  lens \in [Reqs -> 0 .. SpecTokens] /\ Admitted(lens) \subseteq Candidates
<1>1. /\ lens \in [Reqs -> 0 .. SpecTokens]
      /\ \A r \in Reqs : \A p \in 1 .. lens[r] : Survival(rows[r], p) > 0
  BY DEF Schedules
<1>2. ASSUME NEW c \in Admitted(lens) PROVE c \in Candidates
  <2>1. c \in Reqs \X Positions /\ c[2] <= lens[c[1]] BY DEF Admitted
  <2>2. c[1] \in Reqs /\ c[2] \in 1 .. SpecTokens BY <2>1 DEF Positions
  <2>3. c[2] \in 1 .. lens[c[1]] BY <1>1, <2>1, <2>2, ScheduleSizes
  <2>4. SurvivalOf(c) > 0 BY <1>1, <2>2, <2>3 DEF SurvivalOf
  <2> QED BY <2>1, <2>4 DEF Candidates
<1> QED BY <1>1, <1>2

(* A schedule with m drafts more than x expects at most m * k more than x,  *)
(* where k separates the drafts x admits from the other candidates.         *)
LEMMA ScheduleBelow ==
  ASSUME RowsType, NEW x \in [Reqs -> 0 .. SpecTokens], NEW k \in Nat,
         \A c \in Admitted(x) : k <= SurvivalOf(c),
         \A c \in Candidates \ Admitted(x) : SurvivalOf(c) <= k,
         NEW lens \in Schedules, NEW m \in Nat,
         Cardinality(Admitted(lens)) = Cardinality(Admitted(x)) + m
  PROVE  /\ Score(lens).expected <= Score(x).expected + m * k
         /\ Score(lens).tokens = Score(x).tokens + m
<1>1. lens \in [Reqs -> 0 .. SpecTokens] /\ Admitted(lens) \subseteq Candidates
  BY ScheduleOfCandidates
<1>2. PICK f, it : DraftSum(f, it) BY DraftSumExists
<1>3. /\ f \in [Drafts -> Nat] /\ IsSum(f, Drafts, it) /\ \A c \in Drafts : f[c] = SurvivalOf(c)
  BY <1>2 DEF DraftSum
<1>4. Accepted(lens) = it[Admitted(lens)] /\ Total(lens) = Cardinality(Admitted(lens))
  BY <1>1, <1>2, SumsByDrafts
<1>5. Accepted(x) = it[Admitted(x)] /\ Total(x) = Cardinality(Admitted(x))
  BY <1>2, SumsByDrafts
<1>6. Admitted(lens) \in SUBSET Drafts /\ Admitted(x) \in SUBSET Drafts BY DEF Admitted, Drafts
<1>7. \A c \in Admitted(x) : k <= f[c] BY <1>3, <1>6
<1>8. \A c \in Admitted(lens) \ Admitted(x) : f[c] <= k BY <1>1, <1>3, <1>6
<1>9. it[Admitted(lens)] <= it[Admitted(x)] + m * k
  BY <1>3, <1>6, <1>7, <1>8, DraftsFinite, SumExchange
<1>10. /\ Score(lens).expected = Requests * Power[SpecTokens] + Accepted(lens)
       /\ Score(lens).tokens = Requests + Total(lens)
  BY <1>1, ScoreFields
<1>11. /\ Score(x).expected = Requests * Power[SpecTokens] + Accepted(x)
       /\ Score(x).tokens = Requests + Total(x)
  BY ScoreFields
<1>12. Requests \in Nat /\ SpecTokens \in Nat BY ScheduleSizes
<1>13. Power[SpecTokens] \in Nat BY <1>12, PowerIs
<1>14. Cardinality(Admitted(x)) \in Nat BY AdmittedCount
<1>15. Accepted(lens) \in Nat BY <1>1, AcceptedNat
<1>16. Accepted(x) \in Nat BY AcceptedNat
<1> DEFINE w == Requests * Power[SpecTokens]
           d == m * k
<1>17. w \in Nat /\ d \in Nat BY <1>12, <1>13
<1> HIDE DEF w, d
<1>18. w + Accepted(lens) <= (w + Accepted(x)) + d
  BY <1>4, <1>5, <1>9, <1>15, <1>16, <1>17 DEF d
<1>19. Requests + Total(lens) = (Requests + Total(x)) + m BY <1>4, <1>5, <1>12, <1>14
<1> QED BY <1>10, <1>11, <1>18, <1>19 DEF w, d

(* A throughput is a natural number.                                        *)
LEMMA ThroughputNat ==
  ASSUME RowsType, TableType, NEW lens \in [Reqs -> 0 .. SpecTokens]
  PROVE  ThroughputOf(lens) \in Nat
<1>1. Score(lens).expected \in Nat /\ Score(lens).tokens \in BatchTokens BY ScoreFields
<1>2. Score(lens).tokens \in Nat
  <2>1. Requests \in Nat /\ SpecTokens \in Nat BY ScheduleSizes
  <2>2. Requests * (1 + SpecTokens) \in Nat BY <2>1
  <2> QED BY <1>1, <2>1, <2>2 DEF BatchTokens
<1>3. StepsPerSecond(Score(lens).tokens) \in Nat BY <1>2, StepsNat
<1> DEFINE a == Score(lens).expected
           b == StepsPerSecond(Score(lens).tokens)
<1>4. a \in Nat /\ b \in Nat BY <1>1, <1>3
<1> HIDE DEF a, b
<1>5. a * b \in Nat BY <1>4
<1> QED BY <1>5 DEF ThroughputOf, Throughput, a, b

(* Of the schedules of one size none beats the one that admits the drafts   *)
(* most likely to survive.                                                  *)
LEMMA BestOfItsSize ==
  ASSUME RowsType, TableType, NEW x \in [Reqs -> 0 .. SpecTokens], NEW k \in Nat,
         \A c \in Admitted(x) : k <= SurvivalOf(c),
         \A c \in Candidates \ Admitted(x) : SurvivalOf(c) <= k,
         NEW lens \in Schedules, Cardinality(Admitted(lens)) = Cardinality(Admitted(x))
  PROVE  ThroughputOf(lens) <= ThroughputOf(x)
<1>1. Cardinality(Admitted(lens)) = Cardinality(Admitted(x)) + 0
  <2>1. Cardinality(Admitted(x)) \in Nat BY AdmittedCount
  <2> QED BY <2>1
<1>2. lens \in [Reqs -> 0 .. SpecTokens] BY ScheduleOfCandidates
<1>3. /\ Score(lens).expected <= Score(x).expected + 0 * k
      /\ Score(lens).tokens = Score(x).tokens + 0
  BY <1>1, ScheduleBelow
<1>4. Score(x).expected \in Nat /\ Score(x).tokens \in Nat
  <2>1. Score(x).expected \in Nat /\ Score(x).tokens \in BatchTokens BY ScoreFields
  <2>2. Requests \in Nat /\ SpecTokens \in Nat BY ScheduleSizes
  <2>3. Requests * (1 + SpecTokens) \in Nat BY <2>2
  <2> QED BY <2>1, <2>2, <2>3 DEF BatchTokens
<1>5. Score(lens).expected \in Nat BY <1>2, ScoreFields
<1>6. 0 * k = 0 OBVIOUS
<1>7. Score(lens).expected <= Score(x).expected /\ Score(lens).tokens = Score(x).tokens
  BY <1>3, <1>4, <1>6
<1>8. StepsPerSecond(Score(x).tokens) \in Nat BY <1>4, StepsNat
<1> DEFINE a == Score(lens).expected
           b == Score(x).expected
           s == StepsPerSecond(Score(x).tokens)
<1>9. a \in Nat /\ b \in Nat /\ s \in Nat /\ a <= b BY <1>4, <1>5, <1>7, <1>8
<1> HIDE DEF a, b, s
<1>10. a * s <= b * s BY <1>9, ProductsOrdered
<1> QED BY <1>7, <1>10 DEF ThroughputOf, Throughput, a, b, s

-----------------------------------------------------------------------------
(* On a smooth curve no schedule beats the point at which the throughput    *)
(* first fails to rise, y being that with one draft more.                   *)
LEMMA NoneBeyondThePeak ==
  ASSUME RowsType, TableType, Smooth,
         NEW x \in [Reqs -> 0 .. SpecTokens], NEW y \in [Reqs -> 0 .. SpecTokens], NEW k \in Nat,
         \A c \in Admitted(x) : k <= SurvivalOf(c),
         \A c \in Candidates \ Admitted(x) : SurvivalOf(c) <= k,
         Score(y).expected = Score(x).expected + k, Score(y).tokens = Score(x).tokens + 1,
         ThroughputOf(y) <= ThroughputOf(x),
         NEW lens \in Schedules, NEW m \in Nat \ {0},
         Cardinality(Admitted(lens)) = Cardinality(Admitted(x)) + m
  PROVE  ThroughputOf(lens) <= ThroughputOf(x)
<1> DEFINE E == Score(x).expected
           t == Score(x).tokens
           s == [i \in t .. t + m |-> StepsPerSecond(i)]
           a == Score(lens).expected
<1>1. E \in Nat \ {0} /\ t \in BatchTokens BY ScoreFields
<1>2. lens \in [Reqs -> 0 .. SpecTokens] BY ScheduleOfCandidates
<1>3. a \in Nat /\ Score(lens).tokens \in BatchTokens BY <1>2, ScoreFields
<1>4. a <= E + m * k /\ Score(lens).tokens = t + m BY ScheduleBelow
<1>5. BatchTokens \subseteq Nat /\ \A i \in t .. t + m : i \in BatchTokens
  <2>1. Requests \in Nat /\ SpecTokens \in Nat BY ScheduleSizes
  <2>2. Requests * (1 + SpecTokens) \in Nat BY <2>1
  <2> DEFINE b == Requests * (1 + SpecTokens)
  <2>3. b \in Nat BY <2>2
  <2>4. BatchTokens = Requests .. b BY DEF BatchTokens
  <2> HIDE DEF b, t
  <2>5. t \in Requests .. b /\ t + m \in Requests .. b BY <1>1, <1>3, <1>4, <2>4
  <2> QED BY <2>1, <2>3, <2>4, <2>5
<1>6. t \in Nat BY <1>1, <1>5
<1>7. \A i \in BatchTokens : StepsPerSecond(i) \in Nat \ {0}
  <2>1. \A i \in BatchTokens : StepsPerSecond(i) > 0 BY DEF Smooth
  <2>2. \A i \in BatchTokens : StepsPerSecond(i) \in Nat BY <1>5, StepsNat
  <2> QED BY <2>1, <2>2
<1>8. s \in [t .. t + m -> Nat \ {0}] BY <1>5, <1>7
<1>9. \A i \in t .. t + m : s[i] = StepsPerSecond(i) OBVIOUS
<1> HIDE DEF s, t, E, a
<1>10. ASSUME NEW i \in t + 1 .. (t + m) - 1
       PROVE  s[i] * s[i] >= s[i - 1] * s[i + 1]
  <2>1. i \in t .. t + m /\ i - 1 \in t .. t + m /\ i + 1 \in t .. t + m BY <1>6
  <2>2. i \in BatchTokens /\ i - 1 \in BatchTokens /\ i + 1 \in BatchTokens BY <1>5, <2>1
  <2>3. {i - 1, i + 1} \subseteq BatchTokens BY <2>2
  <2>4. StepsPerSecond(i) * StepsPerSecond(i) >= StepsPerSecond(i - 1) * StepsPerSecond(i + 1)
    BY <2>2, <2>3 DEF Smooth
  <2>5. s[i] = StepsPerSecond(i) /\ s[i - 1] = StepsPerSecond(i - 1)
        /\ s[i + 1] = StepsPerSecond(i + 1)
    BY <1>9, <2>1
  <2> QED BY <2>4, <2>5
<1>11. t \in t .. t + m /\ t + 1 \in t .. t + m /\ t + m \in t .. t + m BY <1>6
<1>12. s[t] = StepsPerSecond(t) /\ s[t + 1] = StepsPerSecond(t + 1)
       /\ s[t + m] = StepsPerSecond(t + m)
  BY <1>9, <1>11
<1>13. ThroughputOf(x) = E * s[t] /\ ThroughputOf(y) = (E + k) * s[t + 1]
       /\ ThroughputOf(lens) = a * s[t + m]
  BY <1>4, <1>12 DEF ThroughputOf, Throughput, E, t, a
<1>14. (E + k) * s[t + 1] <= E * s[t] BY <1>13
<1>15. (E + m * k) * s[t + m] <= E * s[t] BY <1>1, <1>6, <1>8, <1>10, <1>14, PastThePeak
<1>16. a * s[t + m] <= (E + m * k) * s[t + m]
  <2> DEFINE b == E + m * k
             z == s[t + m]
  <2>1. b \in Nat
    <3> DEFINE d == m * k
    <3>1. d \in Nat OBVIOUS
    <3> HIDE DEF d
    <3>2. E + d \in Nat BY <1>1, <3>1
    <3> QED BY <3>2 DEF d
  <2>2. z \in Nat /\ a \in Nat /\ a <= b BY <1>3, <1>4, <1>8, <1>11 DEF a
  <2> HIDE DEF b, z
  <2>3. a * z <= b * z BY <2>1, <2>2, ProductsOrdered
  <2> QED BY <2>3 DEF b, z
<1>17. a * s[t + m] \in Nat /\ (E + m * k) * s[t + m] \in Nat /\ E * s[t] \in Nat
  <2>1. s[t] \in Nat /\ s[t + m] \in Nat BY <1>8, <1>11
  <2>2. a \in Nat BY <1>3 DEF a
  <2> DEFINE b == s[t]
             z == s[t + m]
             d == m * k
  <2>3. d \in Nat /\ b \in Nat /\ z \in Nat /\ E \in Nat BY <1>1, <2>1
  <2> HIDE DEF b, z, d
  <2>4. a * z \in Nat /\ E * b \in Nat BY <2>2, <2>3
  <2>5. E + d \in Nat BY <2>3
  <2>6. (E + d) * z \in Nat BY <2>3, <2>5
  <2> QED BY <2>4, <2>6 DEF b, z, d
<1> QED BY <1>13, <1>15, <1>16, <1>17

-----------------------------------------------------------------------------
(* The curve and the confidences do not change, so nothing computed from    *)
(* them does.                                                               *)
LEMMA ScoreKept ==
  ASSUME rows' = rows, NEW lens PROVE Score(lens)' = Score(lens)
<1> DEFINE G(rr) ==
      LET gain(r) == MapThenSumSet(LAMBDA p : Survival(rr[r], p), 1 .. lens[r])
          accepted == Requests * Power[SpecTokens] + MapThenSumSet(gain, Reqs)
          t == Requests + MapThenSumSet(LAMBDA r : lens[r], Reqs)
      IN  [lengths |-> lens, expected |-> accepted, tokens |-> t]
<1>1. Score(lens) = G(rows) BY DEF Score
<1>2. Score(lens)' = G(rows') BY DEF Score, Reqs, MapThenSumSet, MapThenFoldSet
<1> HIDE DEF G
<1> QED BY <1>1, <1>2

(* Nor do the rates.                                                        *)
LEMMA RatesKept ==
  ASSUME table' = table, NEW t PROVE StepsPerSecond(t)' = StepsPerSecond(t)
<1> DEFINE G(tb) ==
      LET profiled == { n \in BatchTokens : tb[n] # NoRate }
          below    == { n \in profiled : n <= t }
      IN  IF profiled = {} THEN 1
          ELSE IF below = {} THEN tb[CHOOSE n \in profiled : \A m \in profiled : n <= m]
          ELSE tb[CHOOSE n \in below : \A m \in below : m <= n]
<1>1. StepsPerSecond(t) = G(table) BY DEF StepsPerSecond
<1>2. StepsPerSecond(t)' = G(table') BY DEF StepsPerSecond, BatchTokens
<1> HIDE DEF G
<1> QED BY <1>1, <1>2

(* All that the invariant below is made of.                                 *)
LEMMA CurveKept ==
  ASSUME UNCHANGED <<rows, table>>
  PROVE  /\ Schedules' = Schedules /\ Candidates' = Candidates /\ Smooth' = Smooth
         /\ \A c : SurvivalOf(c)' = SurvivalOf(c)
         /\ \A lens : Score(lens)' = Score(lens) /\ ThroughputOf(lens)' = ThroughputOf(lens)
         /\ \A a, t : Throughput(a, t)' = Throughput(a, t)
<1>1. rows' = rows /\ table' = table OBVIOUS
<1>2. \A lens : Score(lens)' = Score(lens) BY <1>1, ScoreKept
<1>3. \A t : StepsPerSecond(t)' = StepsPerSecond(t) BY <1>1, RatesKept
<1>4. \A a, t : Throughput(a, t)' = Throughput(a, t) BY <1>3 DEF Throughput
<1>5. \A lens : ThroughputOf(lens)' = ThroughputOf(lens)
  <2>1. ASSUME NEW lens PROVE ThroughputOf(lens)' = ThroughputOf(lens)
    <3>1. Score(lens)' = Score(lens) BY <1>2
    <3> QED BY <1>4, <3>1 DEF ThroughputOf
  <2> QED BY <2>1
<1>6. Schedules' = Schedules BY <1>1 DEF Schedules, Reqs
<1>7. \A c : SurvivalOf(c)' = SurvivalOf(c) BY <1>1 DEF SurvivalOf
<1>8. Candidates' = Candidates BY <1>7 DEF Candidates, Reqs, Positions
<1>9. Smooth' = Smooth BY <1>3 DEF Smooth, BatchTokens
<1> QED BY <1>2, <1>4, <1>5, <1>6, <1>7, <1>8, <1>9

-----------------------------------------------------------------------------
(* What the loop knows at each turn: it has admitted exactly the drafts it  *)
(* has visited, none of which is less likely to survive than one that is    *)
(* left; the sums it keeps are those of the lengths; and no schedule of a   *)
(* size it has passed through beats its result.                             *)

ResultRate == Throughput(result.expected, result.tokens)

NoneBetter(n) ==
  \A lens \in Schedules : Cardinality(Admitted(lens)) <= n => ThroughputOf(lens) <= ResultRate

VisitedFirst == \A c \in Candidates \ todo : \A d \in todo : SurvivalOf(d) <= SurvivalOf(c)

Searching ==
  /\ todo \subseteq Candidates
  /\ Admitted(lengths) = Candidates \ todo
  /\ VisitedFirst
  /\ Score(lengths) = Best(lengths, expected, tokens)
  /\ scheduler.earlyStop => result = Score(lengths)
  /\ NoneBetter(Cardinality(Admitted(lengths)))

OptimalInv ==
  scheduler.kind = "hardware" =>
    /\ TableType
    /\ result = Score(result.lengths)
    /\ ~returned => Searching
    /\ returned => ((scheduler.earlyStop => Smooth) => Optimal)

(* The result's rate is that of its lengths.                                *)
LEMMA ResultRateIs ==
  ASSUME result = Score(result.lengths) PROVE ResultRate = ThroughputOf(result.lengths)
<1>1. Score(result.lengths).expected = result.expected
      /\ Score(result.lengths).tokens = result.tokens
  OBVIOUS
<1> QED BY <1>1 DEF ResultRate, ThroughputOf

(* The search starts with the one schedule without drafts.                  *)
LEMMA OptimalInvInit == Init => OptimalInv
<1> SUFFICES ASSUME Init, scheduler.kind = "hardware"
             PROVE  TableType /\ result = Score(result.lengths) /\ Searching
  BY DEF OptimalInv, Init
<1>1. ScheduleInv BY ScheduleInvInit
<1>2. RowsType /\ lengths \in [Reqs -> 0 .. SpecTokens] BY <1>1 DEF ScheduleInv
<1>3. TableType BY DEF Init, TableType
<1>4. result = Score(lengths) /\ result.lengths = lengths BY <1>2, ScoreFields DEF Init
<1>5. Admitted(lengths) = {} /\ Cardinality(Admitted(lengths)) = 0
  <2>1. SpecTokens \in Nat BY ScheduleSizes
  <2>2. \A c \in Reqs \X Positions : lengths[c[1]] = 0 /\ c[2] \in 1 .. SpecTokens
    BY DEF Init, Positions
  <2>3. \A c \in Reqs \X Positions : ~(c[2] <= lengths[c[1]]) BY <2>1, <2>2
  <2>4. Admitted(lengths) = {} BY <2>3 DEF Admitted
  <2> QED BY <2>4, FS_EmptySet
<1>6. todo = Candidates BY DEF Init
<1>7. Score(lengths) = Best(lengths, expected, tokens)
  <2>1. Accepted(lengths) = 0 /\ Total(lengths) = 0 BY <1>2, <1>5, NothingAdmitted
  <2>2. Score(lengths) = [lengths |-> lengths,
                          expected |-> Requests * Power[SpecTokens] + Accepted(lengths),
                          tokens |-> Requests + Total(lengths)]
    BY ScoreIs DEF Total
  <2>3. Requests \in Nat /\ SpecTokens \in Nat BY ScheduleSizes
  <2>4. Power[SpecTokens] \in Nat BY <2>3, PowerIs
  <2> DEFINE w == Requests * Power[SpecTokens]
  <2>5. w \in Nat BY <2>3, <2>4
  <2>6. expected = w /\ tokens = Requests BY DEF Init
  <2> HIDE DEF w
  <2>7. w + 0 = w /\ Requests + 0 = Requests BY <2>3, <2>5
  <2> QED BY <2>1, <2>2, <2>6, <2>7 DEF Best, w
<1>8. NoneBetter(Cardinality(Admitted(lengths)))
  <2>1. ASSUME NEW lens \in Schedules, Cardinality(Admitted(lens)) <= 0
        PROVE  ThroughputOf(lens) <= ResultRate
    <3>1. lens \in [Reqs -> 0 .. SpecTokens] BY ScheduleOfCandidates
    <3>2. Cardinality(Admitted(lens)) \in Nat BY <3>1, AdmittedCount
    <3>3. Cardinality(Admitted(lens)) = Cardinality(Admitted(lengths)) BY <1>5, <2>1, <3>2
    <3>5. Admitted(lens) = {}
      <4>1. IsFiniteSet(Admitted(lens)) BY <3>1, AdmittedCount
      <4>2. Cardinality(Admitted(lens)) = 0 BY <1>5, <3>3
      <4> QED BY <4>1, <4>2, FS_EmptySet
    <3>6. /\ Accepted(lens) = Accepted(lengths) /\ Total(lens) = Total(lengths)
      <4>1. Accepted(lens) = 0 /\ Total(lens) = 0 BY <1>2, <3>1, <3>5, NothingAdmitted
      <4>2. Accepted(lengths) = 0 /\ Total(lengths) = 0 BY <1>2, <1>5, NothingAdmitted
      <4> QED BY <4>1, <4>2
    <3>7. /\ Score(lens).expected = Score(lengths).expected
          /\ Score(lens).tokens = Score(lengths).tokens
      <4>1. /\ Score(lens).expected = Requests * Power[SpecTokens] + Accepted(lens)
            /\ Score(lens).tokens = Requests + Total(lens)
        BY <1>2, <3>1, ScoreFields
      <4>2. /\ Score(lengths).expected = Requests * Power[SpecTokens] + Accepted(lengths)
            /\ Score(lengths).tokens = Requests + Total(lengths)
        BY <1>2, ScoreFields
      <4> QED BY <3>6, <4>1, <4>2
    <3>8. ThroughputOf(lens) = ThroughputOf(lengths) BY <3>7 DEF ThroughputOf
    <3>9. ResultRate = ThroughputOf(lengths) BY <1>4 DEF ResultRate, ThroughputOf
    <3>10. ThroughputOf(lengths) \in Nat BY <1>2, <1>3, ThroughputNat
    <3> QED BY <3>8, <3>9, <3>10
  <2> QED BY <1>5, <2>1 DEF NoneBetter
<1> QED BY <1>3, <1>4, <1>5, <1>6, <1>7, <1>8 DEF Searching, VisitedFirst

-----------------------------------------------------------------------------
(* The loop never passes a draft over: the predecessor of the one it is at  *)
(* survives at least as often and comes before it.                          *)
LEMMA NextFollows ==
  ASSUME RowsType, lengths \in [Reqs -> 0 .. SpecTokens], Searching, todo # {}
  PROVE  /\ NextCandidate \in todo /\ ~Skips(NextCandidate)
         /\ \A d \in todo : SurvivalOf(d) <= SurvivalOf(NextCandidate)
<1> DEFINE c == NextCandidate
<1>1. todo \subseteq Candidates /\ Admitted(lengths) = Candidates \ todo BY DEF Searching
<1>2. Candidates \subseteq Reqs \X Positions /\ \A d \in Candidates : SurvivalOf(d) > 0
  BY DEF Candidates
<1>3. c \in todo /\ \A d \in todo \ {c} : Before(c, d) BY <1>1, <1>2, NextIsCandidate
<1> HIDE DEF c
<1>4. \A d \in Reqs \X Positions : SurvivalOf(d) \in Nat BY SurvivalOfTyped
<1>5. ASSUME NEW d \in todo PROVE SurvivalOf(d) <= SurvivalOf(c)
  <2>1. SurvivalOf(d) \in Nat /\ SurvivalOf(c) \in Nat BY <1>1, <1>2, <1>3, <1>4
  <2>2. d # c => SurvivalOf(c) > SurvivalOf(d) \/ SurvivalOf(c) = SurvivalOf(d)
    BY <1>3 DEF Before
  <2> QED BY <2>1, <2>2
<1>6. ~Skips(c)
  <2> DEFINE r == c[1]
             p == c[2]
             d == <<r, p - 1>>
  <2>1. c \in Reqs \X Positions /\ SurvivalOf(c) > 0 /\ SurvivalOf(c) \in Nat
    BY <1>1, <1>2, <1>3, <1>4
  <2>2. r \in Reqs /\ p \in 1 .. SpecTokens /\ p \in Nat /\ r \in Nat /\ c = <<r, p>>
    BY <2>1, SurvivalOfTyped DEF Positions
  <2>3. SpecTokens \in Nat /\ lengths[r] \in 0 .. SpecTokens BY <2>2, ScheduleSizes
  <2>4. ~(p <= lengths[r])
    <3>1. c \notin Admitted(lengths) BY <1>1, <1>3
    <3> QED BY <2>1, <3>1 DEF Admitted
  <2>5. p - 1 <= lengths[r]
    <3>1. CASE p = 1 BY <2>3, <3>1
    <3>2. CASE p # 1
      <4>1. p - 1 \in 1 .. SpecTokens - 1 /\ p - 1 \in Positions /\ (p - 1) + 1 = p
        BY <2>2, <2>3, <3>2 DEF Positions
      <4>2. d \in Reqs \X Positions /\ d[1] = r /\ d[2] = p - 1 BY <2>2, <4>1
      <4>3. SurvivalOf(c) <= SurvivalOf(d)
        <5>1. rows[r] \in [Positions -> Confidences] BY <2>2 DEF RowsType
        <5>2. Survival(rows[r], (p - 1) + 1) <= Survival(rows[r], p - 1)
          BY <4>1, <5>1, SurvivalFalls
        <5> QED BY <4>1, <4>2, <5>2 DEF SurvivalOf
      <4>4. SurvivalOf(d) \in Nat BY <1>4, <4>2
      <4>5. d \in Candidates
        <5>1. SurvivalOf(d) > 0 BY <2>1, <4>3, <4>4
        <5> QED BY <4>2, <5>1 DEF Candidates
      <4>6. d # c /\ ~Before(c, d)
        <5>1. ~(p < p - 1) /\ p # p - 1 BY <2>2
        <5>2. ~(SurvivalOf(c) > SurvivalOf(d)) BY <2>1, <4>3, <4>4
        <5>3. ~(c[1] < d[1]) BY <2>2, <4>2
        <5>4. ~(c[2] < d[2]) /\ c[2] # d[2] BY <4>2, <5>1
        <5> QED BY <5>2, <5>3, <5>4 DEF Before
      <4>7. d \in Admitted(lengths)
        <5> HIDE DEF d
        <5>1. d \notin todo BY <1>3, <4>6
        <5> QED BY <1>1, <4>5, <5>1
      <4> QED BY <4>2, <4>7 DEF Admitted
    <3> QED BY <3>1, <3>2
  <2>6. p = lengths[r] + 1 BY <2>2, <2>3, <2>4, <2>5
  <2> QED BY <2>6 DEF Skips
<1> QED BY <1>3, <1>5, <1>6 DEF c

(* What visiting a draft makes of the lengths and of the sums.              *)
LEMMA AdmitScores ==
  ASSUME ScheduleInv, Searching, NEW c \in todo, ~Skips(c), Admit(c)
  PROVE  /\ lengths' \in [Reqs -> 0 .. SpecTokens]
         /\ Admitted(lengths') = Admitted(lengths) \cup {c}
         /\ Cardinality(Admitted(lengths')) = Cardinality(Admitted(lengths)) + 1
         /\ Score(lengths') = Best(lengths', expected', tokens')
         /\ Score(lengths').expected = Score(lengths).expected + SurvivalOf(c)
         /\ Score(lengths').tokens = Score(lengths).tokens + 1
<1>1. /\ RowsType /\ lengths \in [Reqs -> 0 .. SpecTokens] /\ c \in Reqs \X Positions
      /\ Score(lengths) = Best(lengths, expected, tokens)
  BY DEF ScheduleInv, Searching
<1>2. c[1] \in Reqs /\ c[2] \in 1 .. SpecTokens /\ c[2] = lengths[c[1]] + 1 /\ c = <<c[1], c[2]>>
  BY <1>1 DEF Skips, Positions
<1>3. lengths' = [lengths EXCEPT ![c[1]] = c[2]] /\ tokens' = tokens + 1
      /\ expected' = expected + SurvivalOf(c)
  BY DEF Admit
<1>4. lengths' \in [Reqs -> 0 .. SpecTokens]
  <2>1. c[2] \in 0 .. SpecTokens BY <1>2, ScheduleSizes
  <2> QED BY <1>1, <1>2, <1>3, <2>1
<1>5. lengths'[c[1]] = lengths[c[1]] + 1 /\ \A q \in Reqs \ {c[1]} : lengths'[q] = lengths[q]
  BY <1>1, <1>2, <1>3
<1>6. /\ Admitted(lengths') = Admitted(lengths) \cup {<<c[1], lengths'[c[1]]>>}
      /\ Cardinality(Admitted(lengths')) = Cardinality(Admitted(lengths)) + 1
  BY <1>1, <1>2, <1>4, <1>5, AdmittedStep
<1>7. <<c[1], lengths'[c[1]]>> = c BY <1>2, <1>5
<1>8. Accepted(lengths') = Accepted(lengths) + SurvivalOf(c)
  <2>1. Accepted(lengths') = Accepted(lengths) + Survival(rows[c[1]], lengths'[c[1]])
    BY <1>1, <1>2, <1>4, <1>5, AcceptedStep
  <2> QED BY <1>2, <1>5, <2>1 DEF SurvivalOf
<1>9. Total(lengths') = Total(lengths) + 1 BY <1>1, <1>2, <1>4, <1>5, TotalStep
<1> DEFINE w == Requests * Power[SpecTokens]
<1>10. /\ Score(lengths).expected = w + Accepted(lengths)
       /\ Score(lengths).tokens = Requests + Total(lengths)
  BY <1>1, ScoreFields
<1>11. /\ Score(lengths').expected = w + Accepted(lengths')
       /\ Score(lengths').tokens = Requests + Total(lengths')
  BY <1>1, <1>4, ScoreFields
<1>12. Requests \in Nat /\ w \in Nat
  <2>1. Requests \in Nat /\ SpecTokens \in Nat BY ScheduleSizes
  <2>2. Power[SpecTokens] \in Nat BY <2>1, PowerIs
  <2> QED BY <2>1, <2>2
<1>13. Accepted(lengths) \in Nat /\ SurvivalOf(c) \in Nat BY <1>1, AcceptedNat, SurvivalOfTyped
<1>14. Total(lengths) \in Nat
  <2>1. PICK f, it : DraftSum(f, it) BY <1>1, DraftSumExists
  <2>2. Total(lengths) = Cardinality(Admitted(lengths)) BY <1>1, <2>1, SumsByDrafts
  <2> QED BY <1>1, <2>2, AdmittedCount
<1> HIDE DEF w
<1>15. Score(lengths').expected = Score(lengths).expected + SurvivalOf(c)
  BY <1>8, <1>10, <1>11, <1>12, <1>13
<1>16. Score(lengths').tokens = Score(lengths).tokens + 1
  BY <1>9, <1>10, <1>11, <1>12, <1>14
<1>17. Score(lengths').expected = expected' /\ Score(lengths').tokens = tokens'
  <2>1. Score(lengths).expected = expected /\ Score(lengths).tokens = tokens BY <1>1 DEF Best
  <2> QED BY <1>3, <1>15, <1>16, <2>1
<1>18. Score(lengths') = Best(lengths', expected', tokens')
  BY <1>17, ScoreIs DEF Best
<1> QED BY <1>4, <1>6, <1>7, <1>15, <1>16, <1>18

-----------------------------------------------------------------------------
(* The draft at hand separates the drafts admitted from those that are left.*)
Separates(k, x) ==
  /\ \A d \in Admitted(x) : k <= SurvivalOf(d)
  /\ \A d \in Candidates \ Admitted(x) : SurvivalOf(d) <= k

(* One iteration of the loop, a draft admitted.                             *)
LEMMA VisitKeepsOptimal ==
  ASSUME ScheduleInv, OptimalInv, Visit PROVE OptimalInv'
<1> DEFINE c == NextCandidate
           k == SurvivalOf(c)
           n == Cardinality(Admitted(lengths))
           rate == Throughput(result'.expected, result'.tokens)
<1>1. /\ scheduler.kind = "hardware" /\ ~returned /\ todo # {} /\ todo' = todo \ {c}
      /\ rows' = rows /\ table' = table /\ scheduler' = scheduler
  BY DEF Visit
<1>2. /\ RowsType /\ TableType /\ lengths \in [Reqs -> 0 .. SpecTokens]
      /\ Searching /\ result = Score(result.lengths) /\ scheduler.earlyStop \in BOOLEAN
      /\ result.lengths \in [Reqs -> 0 .. SpecTokens] /\ returned \in BOOLEAN
  <2>1. scheduler \in Schedulers BY DEF ScheduleInv
  <2>2. scheduler.earlyStop \in BOOLEAN BY <1>1, <2>1 DEF Schedulers
  <2> QED BY <1>1, <2>2 DEF ScheduleInv, OptimalInv
<1>3. c \in todo /\ ~Skips(c) /\ \A d \in todo : SurvivalOf(d) <= k BY <1>1, <1>2, NextFollows
<1>4. Admit(c) BY <1>3 DEF Visit
<1>5. /\ lengths' \in [Reqs -> 0 .. SpecTokens]
      /\ Admitted(lengths') = Admitted(lengths) \cup {c}
      /\ Cardinality(Admitted(lengths')) = n + 1
      /\ Score(lengths') = Best(lengths', expected', tokens')
      /\ Score(lengths').expected = Score(lengths).expected + k
      /\ Score(lengths').tokens = Score(lengths).tokens + 1
  BY <1>2, <1>3, <1>4, AdmitScores
<1>6. /\ todo \subseteq Candidates /\ Admitted(lengths) = Candidates \ todo /\ VisitedFirst
      /\ Score(lengths) = Best(lengths, expected, tokens) /\ NoneBetter(n)
      /\ scheduler.earlyStop => result = Score(lengths)
  BY <1>2 DEF Searching
<1>7. k \in Nat /\ n \in Nat
  <2>1. c \in Reqs \X Positions BY <1>3, <1>6 DEF Candidates
  <2> QED BY <1>2, <2>1, SurvivalOfTyped, AdmittedCount
<1> HIDE DEF c, k, n
<1>8. Admitted(lengths') = Candidates \ todo' BY <1>1, <1>3, <1>5, <1>6
<1>9. \A d \in Candidates \ todo' : \A e \in todo' : SurvivalOf(e) <= SurvivalOf(d)
  <2>1. ASSUME NEW d \in Candidates \ todo', NEW e \in todo'
        PROVE  SurvivalOf(e) <= SurvivalOf(d)
    <3>1. e \in todo BY <1>1
    <3>2. CASE d = c BY <1>3, <3>1, <3>2 DEF k
    <3>3. CASE d # c
      <4>1. d \in Candidates \ todo BY <1>1, <3>3
      <4> QED BY <1>6, <3>1, <4>1 DEF VisitedFirst
    <3> QED BY <3>2, <3>3
  <2> QED BY <2>1
<1>10. Separates(k, lengths)
  <2>1. \A d \in Admitted(lengths) : k <= SurvivalOf(d) BY <1>3, <1>6 DEF VisitedFirst, k
  <2>2. \A d \in Candidates \ Admitted(lengths) : SurvivalOf(d) <= k BY <1>3, <1>6
  <2> QED BY <2>1, <2>2 DEF Separates
<1>11. Separates(k, lengths')
  <2>1. \A d \in Admitted(lengths') : k <= SurvivalOf(d)
    <3>1. k <= SurvivalOf(c) BY <1>7 DEF k
    <3> QED BY <1>5, <1>10, <3>1 DEF Separates
  <2>2. \A d \in Candidates \ Admitted(lengths') : SurvivalOf(d) <= k BY <1>3, <1>6, <1>8, <1>1
  <2> QED BY <2>1, <2>2 DEF Separates
<1>12. ASSUME NEW lens \in Schedules, Cardinality(Admitted(lens)) = n + 1
       PROVE  ThroughputOf(lens) <= ThroughputOf(lengths')
  <2>1. Cardinality(Admitted(lens)) = Cardinality(Admitted(lengths')) BY <1>5, <1>12
  <2>2. (\A d \in Admitted(lengths') : k <= SurvivalOf(d))
        /\ \A d \in Candidates \ Admitted(lengths') : SurvivalOf(d) <= k
    BY <1>11 DEF Separates
  <2> QED BY <1>2, <1>5, <1>7, <2>1, <2>2, BestOfItsSize
<1>13. Throughput(expected', tokens') = ThroughputOf(lengths')
  <2>1. Score(lengths').expected = expected' /\ Score(lengths').tokens = tokens'
    BY <1>5 DEF Best
  <2> QED BY <2>1 DEF ThroughputOf
<1>14. ResultRate = ThroughputOf(result.lengths) BY <1>2, ResultRateIs
<1>15. ResultRate \in Nat /\ ThroughputOf(lengths') \in Nat
  <2>1. ThroughputOf(result.lengths) \in Nat BY <1>2, ThroughputNat
  <2>2. ThroughputOf(lengths') \in Nat BY <1>2, <1>5, ThroughputNat
  <2> QED BY <1>14, <2>1, <2>2
<1>16. /\ ResultRate <= rate /\ ThroughputOf(lengths') <= rate /\ rate \in Nat
       /\ result' = Score(result'.lengths)
       /\ Improves(expected', tokens') => result' = Score(lengths') /\ returned' = returned
       /\ ~Improves(expected', tokens') => result' = result /\ returned' = scheduler.earlyStop
  <2>1. CASE Improves(expected', tokens')
    <3>1. result' = Best(lengths', expected', tokens') /\ returned' = returned
      BY <1>4, <2>1 DEF Admit
    <3>2. rate = ThroughputOf(lengths') BY <1>13, <3>1 DEF Best
    <3>3. ThroughputOf(lengths') > ResultRate BY <1>13, <2>1 DEF Improves, ResultRate
    <3>4. result' = Score(lengths') /\ result'.lengths = lengths' BY <1>5, <3>1 DEF Best
    <3> HIDE DEF rate
    <3> QED BY <1>15, <2>1, <3>1, <3>2, <3>3, <3>4
  <2>2. CASE ~Improves(expected', tokens')
    <3>1. result' = result /\ returned' = scheduler.earlyStop BY <1>4, <2>2 DEF Admit
    <3>2. rate = ResultRate BY <3>1 DEF ResultRate
    <3>3. ~(ThroughputOf(lengths') > ResultRate) BY <1>13, <2>2 DEF Improves, ResultRate
    <3>4. result' = Score(result'.lengths) BY <1>2, <3>1
    <3> HIDE DEF rate
    <3> QED BY <1>15, <2>2, <3>1, <3>2, <3>3, <3>4
  <2> QED BY <2>1, <2>2
<1> HIDE DEF rate
<1>17. ASSUME NEW lens \in Schedules, Cardinality(Admitted(lens)) <= n + 1
       PROVE  ThroughputOf(lens) <= rate
  <2>1. lens \in [Reqs -> 0 .. SpecTokens] BY ScheduleOfCandidates
  <2>2. ThroughputOf(lens) \in Nat /\ Cardinality(Admitted(lens)) \in Nat
    BY <1>2, <2>1, ThroughputNat, AdmittedCount
  <2>3. CASE Cardinality(Admitted(lens)) <= n
    <3>1. ThroughputOf(lens) <= ResultRate BY <1>6, <2>3 DEF NoneBetter
    <3> QED BY <1>15, <1>16, <2>2, <3>1
  <2>4. CASE ~(Cardinality(Admitted(lens)) <= n)
    <3>1. Cardinality(Admitted(lens)) = n + 1 BY <1>7, <1>17, <2>2, <2>4
    <3>2. ThroughputOf(lens) <= ThroughputOf(lengths') BY <1>12, <3>1
    <3> QED BY <1>15, <1>16, <2>2, <3>2
  <2> QED BY <2>3, <2>4
<1>18. ASSUME returned', scheduler.earlyStop => Smooth, NEW lens \in Schedules
       PROVE  ThroughputOf(lens) <= ThroughputOf(result'.lengths)
  <2>1. ~Improves(expected', tokens') /\ scheduler.earlyStop /\ result' = result
    BY <1>1, <1>16, <1>18
  <2>2. result = Score(lengths) /\ Smooth BY <1>6, <1>18, <2>1
  <2>3. result.lengths = lengths BY <1>2, <2>2, ScoreFields
  <2>4. ThroughputOf(lengths') <= ThroughputOf(lengths)
    <3>1. rate = ResultRate BY <2>1 DEF rate, ResultRate
    <3> QED BY <1>14, <1>16, <2>3, <3>1
  <2>5. lens \in [Reqs -> 0 .. SpecTokens] BY ScheduleOfCandidates
  <2>6. Cardinality(Admitted(lens)) \in Nat BY <2>5, AdmittedCount
  <2>7. CASE Cardinality(Admitted(lens)) <= n
    <3>1. ThroughputOf(lens) <= ResultRate BY <1>6, <2>7 DEF NoneBetter
    <3> QED BY <1>14, <2>1, <3>1
  <2>8. CASE ~(Cardinality(Admitted(lens)) <= n)
    <3> DEFINE m == Cardinality(Admitted(lens)) - n
    <3>1. m \in Nat \ {0} /\ Cardinality(Admitted(lens)) = n + m BY <1>7, <2>6, <2>8
    <3> HIDE DEF m
    <3>2. Cardinality(Admitted(lens)) = Cardinality(Admitted(lengths)) + m BY <3>1 DEF n
    <3>3. (\A d \in Admitted(lengths) : k <= SurvivalOf(d))
          /\ \A d \in Candidates \ Admitted(lengths) : SurvivalOf(d) <= k
      BY <1>10 DEF Separates
    <3>4. ThroughputOf(lens) <= ThroughputOf(lengths)
      BY <1>2, <1>5, <1>7, <2>2, <2>4, <3>1, <3>2, <3>3, NoneBeyondThePeak
    <3> QED BY <2>1, <2>3, <3>4
  <2> QED BY <2>7, <2>8
<1>19. ~returned' => ~scheduler.earlyStop \/ result' = Score(lengths')
  BY <1>2, <1>16
<1>20. /\ Schedules' = Schedules /\ Candidates' = Candidates /\ Smooth' = Smooth
       /\ \A d : SurvivalOf(d)' = SurvivalOf(d)
       /\ \A lens : Score(lens)' = Score(lens) /\ ThroughputOf(lens)' = ThroughputOf(lens)
       /\ \A a, t : Throughput(a, t)' = Throughput(a, t)
  BY <1>1, CurveKept
<1>21. TableType' BY <1>1, <1>2 DEF TableType, BatchTokens
<1>22. (result = Score(result.lengths))' BY <1>16, <1>20
<1>23. (~returned => Searching)'
  <2> SUFFICES ASSUME ~returned' PROVE Searching' OBVIOUS
  <2>1. (todo \subseteq Candidates)' BY <1>1, <1>6, <1>20
  <2>2. (Admitted(lengths) = Candidates \ todo)' BY <1>8, <1>20 DEF Admitted, Reqs, Positions
  <2>3. VisitedFirst' BY <1>9, <1>20 DEF VisitedFirst
  <2>4. (Score(lengths) = Best(lengths, expected, tokens))' BY <1>5, <1>20 DEF Best
  <2>5. (scheduler.earlyStop => result = Score(lengths))' BY <1>1, <1>19, <1>20
  <2>6. NoneBetter(Cardinality(Admitted(lengths)))'
    BY <1>5, <1>17, <1>20 DEF NoneBetter, ResultRate, rate, Admitted, Reqs, Positions
  <2> QED BY <2>1, <2>2, <2>3, <2>4, <2>5, <2>6 DEF Searching
<1>24. (returned => ((scheduler.earlyStop => Smooth) => Optimal))'
  <2> SUFFICES ASSUME returned', scheduler.earlyStop => Smooth PROVE Optimal'
    BY <1>1, <1>20
  <2>1. \A lens \in Schedules : ThroughputOf(lens) <= ThroughputOf(result'.lengths) BY <1>18
  <2> QED BY <1>20, <2>1 DEF Optimal
<1> QED BY <1>21, <1>22, <1>23, <1>24 DEF OptimalInv

-----------------------------------------------------------------------------
(* Once all candidates are visited no schedule is larger than the lengths.  *)
LEMMA ReturnKeepsOptimal ==
  ASSUME ScheduleInv, OptimalInv, Return PROVE OptimalInv'
<1>1. /\ scheduler.kind = "hardware" /\ ~returned /\ todo = {} /\ returned' = TRUE
      /\ rows' = rows /\ table' = table /\ scheduler' = scheduler /\ result' = result
  BY DEF Return
<1>2. /\ RowsType /\ TableType /\ lengths \in [Reqs -> 0 .. SpecTokens]
      /\ Searching /\ result = Score(result.lengths)
  BY <1>1 DEF ScheduleInv, OptimalInv
<1>3. Admitted(lengths) = Candidates /\ NoneBetter(Cardinality(Admitted(lengths)))
  BY <1>1, <1>2 DEF Searching
<1>4. ResultRate = ThroughputOf(result.lengths) BY <1>2, ResultRateIs
<1>5. ASSUME NEW lens \in Schedules PROVE ThroughputOf(lens) <= ThroughputOf(result.lengths)
  <2>1. Admitted(lens) \subseteq Admitted(lengths) BY <1>3, ScheduleOfCandidates
  <2>2. IsFiniteSet(Admitted(lengths)) BY <1>2, AdmittedCount
  <2>3. Cardinality(Admitted(lens)) <= Cardinality(Admitted(lengths)) BY <2>1, <2>2, FS_Subset
  <2> QED BY <1>3, <1>4, <2>3 DEF NoneBetter
<1>6. Optimal BY <1>5 DEF Optimal
<1>7. /\ Schedules' = Schedules
      /\ \A lens : Score(lens)' = Score(lens) /\ ThroughputOf(lens)' = ThroughputOf(lens)
  BY <1>1, CurveKept
<1>8. TableType' BY <1>1, <1>2 DEF TableType, BatchTokens
<1>9. (result = Score(result.lengths))' BY <1>1, <1>2, <1>7
<1>10. Optimal' BY <1>1, <1>6, <1>7 DEF Optimal
<1> QED BY <1>1, <1>8, <1>9, <1>10 DEF OptimalInv

(* Every step keeps the invariant of the search.                            *)
LEMMA OptimalInvInductive == ScheduleInv /\ OptimalInv /\ [Next]_vars => OptimalInv'
<1> SUFFICES ASSUME ScheduleInv, OptimalInv, [Next]_vars PROVE OptimalInv' OBVIOUS
<1>1. CASE Visit BY <1>1, VisitKeepsOptimal
<1>2. CASE Return BY <1>2, ReturnKeepsOptimal
<1>3. CASE ScoreFixed
  <2>1. scheduler'.kind # "hardware" BY <1>3 DEF ScoreFixed
  <2> QED BY <2>1 DEF OptimalInv
<1>4. CASE UNCHANGED vars
  <2>1. UNCHANGED <<rows, table, scheduler, lengths, todo, tokens, expected, result, returned>>
    BY <1>4 DEF vars
  <2>2. /\ Schedules' = Schedules /\ Candidates' = Candidates /\ Smooth' = Smooth
        /\ \A d : SurvivalOf(d)' = SurvivalOf(d)
        /\ \A lens : Score(lens)' = Score(lens) /\ ThroughputOf(lens)' = ThroughputOf(lens)
        /\ \A a, t : Throughput(a, t)' = Throughput(a, t)
    BY <2>1, CurveKept
  <2>3. TableType => TableType' BY <2>1 DEF TableType, BatchTokens
  <2>4. (result = Score(result.lengths)) => (result = Score(result.lengths))' BY <2>1, <2>2
  <2>5. Optimal => Optimal' BY <2>1, <2>2 DEF Optimal
  <2>6. Searching => Searching'
    <3> SUFFICES ASSUME Searching PROVE Searching' OBVIOUS
    <3>1. /\ todo \subseteq Candidates /\ Admitted(lengths) = Candidates \ todo
          /\ VisitedFirst /\ Score(lengths) = Best(lengths, expected, tokens)
          /\ (scheduler.earlyStop => result = Score(lengths))
          /\ NoneBetter(Cardinality(Admitted(lengths)))
      BY DEF Searching
    <3>2. (todo \subseteq Candidates)' BY <2>1, <2>2, <3>1
    <3>3. (Admitted(lengths) = Candidates \ todo)'
      BY <2>1, <2>2, <3>1 DEF Admitted, Reqs, Positions
    <3>4. VisitedFirst' BY <2>1, <2>2, <3>1 DEF VisitedFirst
    <3>5. (Score(lengths) = Best(lengths, expected, tokens))' BY <2>1, <2>2, <3>1 DEF Best
    <3>6. (scheduler.earlyStop => result = Score(lengths))' BY <2>1, <2>2, <3>1
    <3>7. NoneBetter(Cardinality(Admitted(lengths)))'
      BY <2>1, <2>2, <3>1 DEF NoneBetter, ResultRate, Admitted, Reqs, Positions
    <3> QED BY <3>2, <3>3, <3>4, <3>5, <3>6, <3>7 DEF Searching
  <2> QED BY <2>1, <2>2, <2>3, <2>4, <2>5, <2>6 DEF OptimalInv
<1> QED BY <1>1, <1>2, <1>3, <1>4 DEF Next

(* hardware_aware_prefix_schedule, which looks at one schedule of each size *)
(* only, returns the best of all schedules, on any table when it visits every*)
(* draft, and on a smooth one when it stops early; its running sums are the *)
(* scores of the lengths it returns.                                        *)
THEOREM AlwaysSchedulersOptimal == Spec => []SchedulersOptimal
<1>1. OptimalInv => SchedulersOptimal BY DEF OptimalInv, SchedulersOptimal
<1> QED BY <1>1, ScheduleInvInit, ScheduleInvInductive, OptimalInvInit, OptimalInvInductive, PTL
        DEF Spec
===============================================================================
