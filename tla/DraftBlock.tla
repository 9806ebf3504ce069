----------------------------- MODULE DraftBlock -----------------------------
(***************************************************************************)
(* The draft block of DSpark (nvidia/dspark.py: draft(), the Markov head,  *)
(* the vocab-parallel argmax; dspark_kernels.py: the fused Markov argmax). *)
(*                                                                         *)
(* One forward pass gives the base logits of all positions of the block;   *)
(* then the tokens are chosen from left to right, each by the base logits  *)
(* of its position plus a bias that depends on the token before it.  The   *)
(* vocabulary is split over the tensor-parallel ranks and padded, and      *)
(* there are three ways to the same choice: over the gathered logits, over *)
(* the best of each rank, and over the best of each kernel block of each   *)
(* rank.  One row of the batch is modelled: the rows do not meet.          *)
(*                                                                         *)
(* Logits are small integers; what the network computes is arbitrary.      *)
(***************************************************************************)
EXTENDS Integers, Sequences

CONSTANTS
  TpSize,        \* tensor-parallel ranks
  ShardSize,     \* columns of the logits on each rank, padding included
  Vocab,         \* config.vocab_size
  KernelBlock,   \* _DSPARK_MARKOV_V_BLOCK
  BlockSize,     \* self.block_size
  Scores,        \* the base logits a token can have
  Biases,        \* the Markov heads considered: previous token -> token -> bias
  NegInf,        \* below every logit ...
  PosInf         \* ... and above

Tokens == 0 .. Vocab - 1

ASSUME DraftBlockAssumption ==
  /\ {TpSize, ShardSize, Vocab, KernelBlock, BlockSize} \subseteq Nat \ {0}
  /\ Vocab <= TpSize * ShardSize
  /\ Scores \subseteq Int /\ {NegInf, PosInf} \subseteq Int
  /\ Biases \subseteq [Tokens -> [Tokens -> Int]]
  /\ \A b \in Biases : \A t, u \in Tokens : \A s \in Scores :
       NegInf < s + b[t][u] /\ s + b[t][u] < PosInf

VARIABLES
  asked,       \* return_logits and return_confidence of this call
  localArgmax, \* self._local_argmax
  fusedArgmax, \* self._fused_markov_argmax
  bias,        \* markov_w2 applied to the rows of markov_w1
  base,        \* history: the base logits of the positions drafted so far
  outputIds,   \* output_ids: the sampled token, then the drafts
  logits       \* the logits to return, corrected in place

blockVars == <<asked, localArgmax, fusedArgmax, bias, base, outputIds, logits>>

BlockInit ==
  /\ asked \in [logits : BOOLEAN, confidence : BOOLEAN]
  /\ localArgmax \in BOOLEAN /\ fusedArgmax \in BOOLEAN
  /\ bias \in Biases
  /\ base = <<>> /\ logits = <<>>
  /\ \E t \in Tokens : outputIds = <<t>>

-----------------------------------------------------------------------------
Shards == 0 .. TpSize - 1
Columns == 0 .. ShardSize - 1

(* org_vocab_start_index and num_org_vocab_padding of a rank.               *)
VocabStart(k) == k * ShardSize
RealColumns(k) == { c \in Columns : VocabStart(k) + c < Vocab }

Beats(f, c, d) == f[c] > f[d] \/ (f[c] = f[d] /\ c <= d)

(* max and argmax of a row: the first of equal ones.                        *)
FirstBest(f) == CHOOSE c \in DOMAIN f : \A d \in DOMAIN f : Beats(f, c, d)

(* The correction of a position: its base logits and the bias of the token  *)
(* before it.                                                               *)
Corrected(f, prev) == [t \in Tokens |-> f[t] + bias[prev][t]]

(* The columns of a rank.  The rows of the padding are zero in both heads.  *)
LocalLogits(f, k) ==
  [c \in Columns |-> IF c \in RealColumns(k) THEN f[VocabStart(k) + c] ELSE 0]

UnmaskedLogits(f, k) == LocalLogits(f, k)

(* local_logits[..., -num_pad:] = -inf.                                     *)
MaskedLogits(f, k) ==
  [c \in Columns |-> IF c \in RealColumns(k) THEN LocalLogits(f, k)[c] ELSE NegInf]

(* One program of the kernel: the best of KernelBlock columns, those past   *)
(* the shard or in its padding at NEG_INF.                                  *)
KernelLogits(f, k, b) ==
  [c \in b * KernelBlock .. (b + 1) * KernelBlock - 1 |->
     IF c \in RealColumns(k) THEN LocalLogits(f, k)[c] ELSE NegInf]

KernelBlocks == 0 .. (ShardSize + KernelBlock - 1) \div KernelBlock - 1

(* dspark_markov_argmax: the best of the best of the blocks.                *)
KernelArgmax(f, k) ==
  LET best == [b \in KernelBlocks |-> FirstBest(KernelLogits(f, k, b))]
  IN  best[FirstBest([b \in KernelBlocks |-> KernelLogits(f, k, b)[best[b]]])]

(* _vocab_parallel_argmax_from_local: each rank's best value and its global *)
(* id are gathered in rank order, and the first rank with the best value    *)
(* has the token.                                                           *)
ArgmaxFromLocal(f, index) ==
  LET top == FirstBest([k \in Shards |-> MaskedLogits(f, k)[index[k]]])
  IN  VocabStart(top) + index[top]

(* Which way draft() takes.  The fused one has no Markov embeddings to give *)
(* to the confidence head.                                                  *)
Way ==
  IF asked.logits \/ ~localArgmax THEN "gathered"
  ELSE IF fusedArgmax /\ ~asked.confidence THEN "fused" ELSE "local"

(* The token chosen by corrected logits f.                                  *)
Choice(f) ==
  CASE Way = "gathered" -> FirstBest(f)
    [] Way = "local"    -> ArgmaxFromLocal(f, [k \in Shards |-> FirstBest(MaskedLogits(f, k))])
    [] Way = "fused"    -> ArgmaxFromLocal(f, [k \in Shards |-> KernelArgmax(f, k)])

ReturnedOf(f) == IF Way = "gathered" THEN Append(logits, f) ELSE logits

(* One iteration of the loop over the positions of the block.               *)
DraftPosition ==
  /\ Len(base) < BlockSize
  /\ \E f \in [Tokens -> Scores] :
       LET corrected == Corrected(f, outputIds[Len(outputIds)])
       IN  /\ base' = Append(base, f)
           /\ outputIds' = Append(outputIds, Choice(corrected))
           /\ logits' = ReturnedOf(corrected)
  /\ UNCHANGED <<asked, localArgmax, fusedArgmax, bias>>

BlockSpec == BlockInit /\ [][DraftPosition]_blockVars

-----------------------------------------------------------------------------
(* The corrected logits of position p over the whole vocabulary.            *)
Reference(p) == [t \in Tokens |-> base[p][t] + bias[outputIds[p]][t]]

GreedyAt(p) ==
  /\ outputIds[p + 1] \in Tokens
  /\ \A t \in Tokens : Beats(Reference(p), outputIds[p + 1], t)
  /\ asked.logits => logits[p] = Reference(p)

(* Every draft is the greedy continuation of the one before it: the first   *)
(* of the best tokens of the real vocabulary, whichever way it was found,   *)
(* however the vocabulary is split and padded; and where logits are         *)
(* returned, they are those the draft was chosen by.                        *)
DraftsAreGreedy == \A p \in DOMAIN base : GreedyAt(p)
==============================================================================
