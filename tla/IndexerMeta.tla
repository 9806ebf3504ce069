----------------------------- MODULE IndexerMeta -----------------------------
(***************************************************************************)
(* The sparse indexer of a step (indexer.py, sparse_attn_indexer.py): the  *)
(* metadata builder splits the batch into decodes and prefills, expands    *)
(* the decodes to one row per token, trims and caps their page tables and  *)
(* cuts the prefills into chunks; then the layer scores each query row     *)
(* against indexer K rows.  A decode step may replay a cudagraph, which    *)
(* reads the buffers it was captured with and runs none of the layer's     *)
(* Python.                                                                 *)
(*                                                                         *)
(* Requests are numbered from 1 in batch order, rows, pages and K rows     *)
(* from 0.  Page j of request r is <<r, j>>; it holds `storage` K rows,    *)
(* one for `ratio` tokens.  Stale is a cell this step has not written.     *)
(***************************************************************************)
EXTENDS Integers, Sequences, FiniteSets, FiniteSetsExt

CONSTANTS
  MaxReqs,      \* max_num_seqs
  MaxModelLen,
  MaxTokens,    \* max_num_batched_tokens
  BlockSize,    \* kv_cache_spec.block_size, in tokens
  Workspace,    \* max_prefill_buffer_size, in K rows
  MaxLogits,    \* max_logits_bytes \div 4
  Supertile,    \* _get_b12x_paged_indexer_supertile_k
  Configs       \* deployments: [nextN, ratio, b12x, trim, cap, graphs]

ASSUME IndexerMetaAssumption ==
  /\ {MaxReqs, MaxModelLen, MaxTokens, BlockSize, Supertile, MaxLogits} \subseteq Nat \ {0}
  /\ Workspace \in Nat /\ Workspace >= MaxModelLen
  /\ \A c \in Configs :
       /\ {c.nextN, c.ratio} \subseteq Nat \ {0} /\ c.cap \in Nat
       /\ BlockSize % c.ratio = 0 /\ {c.b12x, c.trim, c.graphs} \subseteq BOOLEAN

VARIABLES
  conf,       \* the deployment: never changes
  phase,      \* "boot", "idle", "layer" (prefill chunks, then decodes), "done"
  reserved,   \* scratch reserved by the profile run: query rows, table width
  batch,      \* the requests: query tokens q, exact length s, bound ub
  graph,      \* the step replays a captured cudagraph
  chunks,     \* prefill metadata: the chunks the layer has still to run
  decode,     \* decode metadata: row lengths, page table, active width
  workspace,  \* k_quant_full: the gathered K rows
  topk        \* what each row was scored against: {} is all -1

vars == <<conf, phase, reserved, batch, graph, chunks, decode, workspace, topk>>

Stale == <<"stale">>
NoDecode == [lens |-> << >>, table |-> << >>, width |-> 0]

-----------------------------------------------------------------------------
Least(a, b) == IF a < b THEN a ELSE b
Most(a, b) == IF a > b THEN a ELSE b
Cdiv(a, b) == (a + b - 1) \div b

SumTo(f, n) == LET t[k \in 0 .. n] == IF k = 0 THEN 0 ELSE t[k - 1] + f[k] IN t[n]

QueryLens(b) == [r \in DOMAIN b |-> b[r].q]
StartLoc(b, r) == SumTo(QueryLens(b), r - 1)
Rows(b) == SumTo(QueryLens(b), Len(b))

Storage == BlockSize \div conf.ratio
FullWidth == Cdiv(MaxModelLen, BlockSize)
MaxUb(b) == Max({ b[r].ub : r \in DOMAIN b })
CapWidth == Cdiv(conf.cap, BlockSize)
CapActive == 0 < conf.cap /\ conf.cap < MaxModelLen /\ CapWidth < FullWidth
UseFlattening == conf.nextN \notin {1, 2}

BlockTable(r) == [j \in 0 .. FullWidth - 1 |-> <<r, j>>]

-----------------------------------------------------------------------------
(* split_decodes_and_prefills, with require_uniform unless flattening.      *)
Leading(b, lens) ==
  LET prefills == { r \in DOMAIN b : b[r].q \notin lens }
  IN  IF prefills = {} THEN Len(b) ELSE Min(prefills) - 1

NumDecodes(b) ==
  IF UseFlattening THEN Leading(b, 0 .. conf.nextN)
  ELSE IF b[1].q > conf.nextN THEN 0
  ELSE IF \A r \in DOMAIN b : b[r].q \in {0, b[1].q} THEN Len(b)
  ELSE Leading(b, {b[1].q})

-----------------------------------------------------------------------------
(* Decodes: _prepare_decode_tensors and its kernel.  d is the decode part   *)
(* of the batch, n the rows it is padded to.                                *)
MaxLen(d) == Max({ d[r].q : r \in DOMAIN d })
MinLen(d) == Min({ d[r].q : r \in DOMAIN d })

CopyWidth(d) ==
  IF conf.trim THEN Most(1, Least(Cdiv(MaxUb(d), Storage) + 1, FullWidth)) ELSE FullWidth

TrimmedRow(d, r) ==
  [j \in 0 .. FullWidth - 1 |-> IF j < CopyWidth(d) THEN BlockTable(r)[j] ELSE Stale]

UniformRows(d) ==
  [g \in 0 .. Len(d) * MaxLen(d) - 1 |->
     LET r == g \div MaxLen(d) + 1
     IN  [len |-> d[r].s - MaxLen(d) + (g % MaxLen(d)) + 1, table |-> TrimmedRow(d, r)]]

(* torch.repeat_interleave: the request that owns row g.                    *)
Owner(d, g) == CHOOSE r \in DOMAIN d : StartLoc(d, r) <= g /\ g < StartLoc(d, r) + d[r].q

VariableRowsFromBase(d, n) ==
  [g \in 0 .. n - 1 |->
     IF g < Rows(d)
     THEN LET r == Owner(d, g)
          IN  [len |-> d[r].s - d[r].q + g + 1, table |-> TrimmedRow(d, r)]
     ELSE [len |-> 0, table |-> [j \in 0 .. FullWidth - 1 |-> Stale]]]

VariableRows(d, n) ==
  [g \in 0 .. n - 1 |->
     IF g < Rows(d)
     THEN LET r == Owner(d, g)
          IN  [len |-> d[r].s - d[r].q - StartLoc(d, r) + g + 1, table |-> TrimmedRow(d, r)]
     ELSE [len |-> 0, table |-> [j \in 0 .. FullWidth - 1 |-> Stale]]]

(* One row per request and token, over the request's own page table.        *)
NativeRows(d) ==
  [g \in 0 .. Len(d) * MaxLen(d) - 1 |->
     LET r == g \div MaxLen(d) + 1
     IN  [len |-> d[r].s - MaxLen(d) + 1 + (g % MaxLen(d)), table |-> BlockTable(r)]]

Expanded(d, n) ==
  IF ~UseFlattening \/ MaxLen(d) <= 1 THEN NativeRows(d)
  ELSE IF MinLen(d) = MaxLen(d) THEN UniformRows(d)
  ELSE VariableRows(d, n)

RequiresPadding(d) == (~UseFlattening \/ MaxLen(d) <= 1) /\ MinLen(d) # MaxLen(d)

(* The builder hands out the capped buffer when the live pages fit in it.   *)
Narrowed(d) ==
  /\ conf.b12x /\ CapActive /\ ~RequiresPadding(d)
  /\ MaxUb(d) <= conf.cap
  /\ Cdiv(MaxUb(d), BlockSize) + 1 <= CapWidth

CappedRow(row) == [j \in 0 .. CapWidth - 1 |-> row[j]]

(* A graph is captured with decodes no longer than their query.             *)
CapturedNarrow == Narrowed(<<[q |-> conf.nextN, s |-> conf.nextN, ub |-> conf.nextN]>>)

(* The page table the layer reads: a replay reads the buffer it captured.   *)
ReadTable(d, row) ==
  IF graph' /\ CapturedNarrow
  THEN IF Narrowed(d) THEN CappedRow(row) ELSE [j \in 0 .. CapWidth - 1 |-> Stale]
  ELSE IF Narrowed(d) THEN CappedRow(row)
  ELSE row

DecodeMetadata(b, d, n) ==
  LET rows == Expanded(d, n)
  IN  [lens |-> [g \in DOMAIN rows |-> rows[g].len \div conf.ratio],
       table |-> [g \in DOMAIN rows |-> ReadTable(d, rows[g].table)],
       width |-> IF conf.b12x THEN Cdiv(MaxUb(b), conf.ratio) ELSE MaxModelLen]

-----------------------------------------------------------------------------
(* Prefills: split_indexer_prefill_chunks over the requests from first on.  *)
SumFromTo(f, a, z) == SumTo(f, z) - SumTo(f, a - 1)

Fits(qs, ss, a, z) ==
  LET n == SumFromTo(ss, a, z)
  IN  n <= Workspace /\ SumFromTo(qs, a, z) * n <= MaxLogits

ChunkEnd(qs, ss, a) == Max({a} \cup { z \in a .. Len(qs) : Fits(qs, ss, a, z) })

SubChunksRoundedUp(qs, ss, a, z, offset) ==
  LET m == SumFromTo(qs, a, z)
      maxQ == Most(1, Cdiv(MaxLogits, Most(1, SumFromTo(ss, a, z))))
  IN  [k \in 1 .. Cdiv(m, maxQ) |->
         [first |-> a + offset, last |-> z + offset,
          from |-> (k - 1) * maxQ, to |-> Least(k * maxQ, m)]]

SubChunksEmptyLast(qs, ss, a, z, offset) ==
  LET m == SumFromTo(qs, a, z)
      maxQ == Most(1, MaxLogits \div Most(1, SumFromTo(ss, a, z)))
  IN  [k \in 1 .. m \div maxQ + 1 |->
         [first |-> a + offset, last |-> z + offset,
          from |-> (k - 1) * maxQ, to |-> Least(k * maxQ, m)]]

(* A request over the budget is cut on its query rows.                      *)
SubChunks(qs, ss, a, z, offset) ==
  LET m == SumFromTo(qs, a, z)
      n == SumFromTo(ss, a, z)
      maxQ == IF n > 0 THEN Most(1, MaxLogits \div n) ELSE m
  IN  [k \in 1 .. Cdiv(m, maxQ) |->
         [first |-> a + offset, last |-> z + offset,
          from |-> (k - 1) * maxQ, to |-> Least(k * maxQ, m)]]

SplitChunks(qs, ss, offset) ==
  LET split[a \in 1 .. Len(qs) + 1] ==
        IF a > Len(qs) THEN << >>
        ELSE LET z == ChunkEnd(qs, ss, a)
             IN  SubChunks(qs, ss, a, z, offset) \o split[z + 1]
  IN  split[1]

CompressedUb(b) == [r \in DOMAIN b |-> b[r].ub \div conf.ratio]
CompressedLens(b) == [r \in DOMAIN b |-> b[r].s \div conf.ratio]

ChunkSpecsByContext(b, nd) ==
  SplitChunks(SubSeq(QueryLens(b), nd + 1, Len(b)), SubSeq(CompressedUb(b), nd + 1, Len(b)), nd)

(* b12x streams one supertile at a time and takes one request per chunk.    *)
ChunkSpecs(b, nd) ==
  LET qs == SubSeq(QueryLens(b), nd + 1, Len(b))
      each[k \in 0 .. Len(qs)] ==
        IF k = 0 THEN << >> ELSE each[k - 1] \o SplitChunks(<<qs[k]>>, <<Supertile>>, nd + k - 1)
  IN  IF conf.b12x THEN each[Len(qs)]
      ELSE SplitChunks(qs, SubSeq(CompressedUb(b), nd + 1, Len(b)), nd)

(* _build_prefill_chunk_metadata_kernel: the extent of query row g, whose   *)
(* request is r, in the gathered K rows, from the exact lengths.            *)
RowExtent(b, c, g) ==
  LET r == CHOOSE o \in c.first .. c.last :
             StartLoc(b, o) <= g /\ g < StartLoc(b, o) + b[o].q
      ks == SumFromTo(CompressedLens(b), c.first, r - 1)
  IN  [ks |-> ks, ke |-> ks + (b[r].s - b[r].q + 1 + g - StartLoc(b, r)) \div conf.ratio]

(* build_prefill_chunk_metadata: the size comes from the bound.  Row i of   *)
(* the chunk is query row start + i.                                        *)
ChunkMetadata(b, c) ==
  LET start == StartLoc(b, c.first) + c.from
      rows == 0 .. c.to - c.from - 1
  IN  [first |-> c.first, last |-> c.last, start |-> start, rows |-> c.to - c.from,
       total |-> SumFromTo(CompressedUb(b), c.first, c.last),
       skipGather |-> c.from > 0,
       ks |-> [i \in rows |-> RowExtent(b, c, start + i).ks],
       ke |-> [i \in rows |-> RowExtent(b, c, start + i).ke]]

HasKv(c) == c.total > 0

PrefillMetadata(b, nd) ==
  LET specs == ChunkSpecs(b, nd)
      built[k \in 0 .. Len(specs)] ==
        IF k = 0 THEN << >>
        ELSE LET c == ChunkMetadata(b, specs[k])
             IN  IF HasKv(c) THEN Append(built[k - 1], c) ELSE built[k - 1]
  IN  built[Len(specs)]

-----------------------------------------------------------------------------
(* The profile run, which has no metadata: the layer reserves its scratch   *)
(* for the largest call it expects (b12x), or the gather workspace and the  *)
(* logits (_get_b12x_paged_indexer_profile_q_rows, _profile_k_rows).        *)
ProfileRows == Least(MaxTokens, Most(1, MaxLogits \div Most(1, Supertile)))
ProfileWidth == Most(1, Cdiv(Most(MaxModelLen, Workspace), Storage))

Profile ==
  /\ phase = "boot"
  /\ phase' = "idle"
  /\ reserved' = IF conf.b12x THEN [rows |-> ProfileRows, width |-> ProfileWidth]
                 ELSE [rows |-> MaxTokens, width |-> Workspace]
  /\ UNCHANGED <<conf, batch, graph, chunks, decode, workspace, topk>>

(* execute_model: _is_uniform_decode, the cap's eager fallback, dispatch.   *)
Eligible(b) ==
  /\ conf.graphs /\ \A r \in DOMAIN b : b[r].q = conf.nextN
  /\ ~(conf.cap > 0 /\ MaxUb(b) > conf.cap)

(* A replayed batch is padded to the size that was captured.                *)
Padded(b, n) ==
  [r \in 1 .. n |-> IF r <= Len(b) THEN b[r] ELSE [q |-> 0, s |-> 0, ub |-> 0]]

Build(b, replay, n) ==
  LET nd == NumDecodes(Padded(b, n))
      d == SubSeq(Padded(b, n), 1, nd)
  IN  /\ replay => Eligible(b)
      /\ ~replay => n = Len(b)
      /\ phase' = "layer"
      /\ batch' = b
      /\ graph' = replay
      /\ chunks' = PrefillMetadata(b, nd)
      /\ decode' = IF nd = 0 THEN NoDecode
                   ELSE DecodeMetadata(b, d, IF replay THEN n * conf.nextN ELSE Rows(d))
      /\ workspace' = [c \in 0 .. Workspace - 1 |-> Stale]
      /\ topk' = [g \in 0 .. (IF replay THEN n * conf.nextN ELSE Rows(b)) - 1 |-> {}]
      /\ UNCHANGED <<conf, reserved>>

(* cp_gather_indexer_k_quant_cache: the exact rows, as far as there is room *)
Gathered(c) ==
  LET lens == CompressedLens(batch)
      At(r, i) == SumFromTo(lens, c.first, r - 1) + i
      KRows == { e \in (c.first .. c.last) \X (0 .. MaxModelLen - 1) : e[2] < lens[e[1]] }
  IN  [x \in DOMAIN workspace |->
         IF \E e \in KRows : At(e[1], e[2]) = x /\ x < c.total
         THEN LET e == CHOOSE e \in KRows : At(e[1], e[2]) = x
              IN  <<BlockTable(e[1])[e[2] \div Storage], e[2] % Storage>>
         ELSE workspace[x]]

(* What a row of b12x reads through one request's page table.               *)
Paged(table, len) ==
  { IF c \div Storage \in DOMAIN table
    THEN <<table[c \div Storage], c % Storage>> ELSE Stale : c \in 0 .. len - 1 }

RunChunk ==
  LET c == Head(chunks)
  IN  /\ phase = "layer" /\ chunks # << >>
      /\ workspace' = IF conf.b12x \/ c.skipGather THEN workspace ELSE Gathered(c)
      /\ topk' = [g \in DOMAIN topk |->
                    LET i == g - c.start
                    IN  IF i \notin DOMAIN c.ks THEN topk[g]
                        ELSE IF conf.b12x
                        THEN Paged(BlockTable(c.first), Most(0, c.ke[i] - c.ks[i]))
                        ELSE { workspace'[x] : x \in c.ks[i] .. c.ke[i] - 1 }]
      /\ chunks' = Tail(chunks)
      /\ UNCHANGED <<conf, phase, reserved, batch, graph, decode>>

RunDecode ==
  /\ phase = "layer" /\ chunks = << >>
  /\ phase' = "done"
  /\ topk' = [g \in DOMAIN topk |->
                IF g \in DOMAIN decode.lens
                THEN Paged(decode.table[g], Least(decode.lens[g], decode.width))
                ELSE topk[g]]
  /\ UNCHANGED <<conf, reserved, batch, graph, chunks, decode, workspace>>

Return ==
  /\ phase = "done"
  /\ phase' = "idle"
  /\ batch' = << >> /\ graph' = FALSE /\ chunks' = << >> /\ decode' = NoDecode
  /\ workspace' = << >> /\ topk' = << >>
  /\ UNCHANGED <<conf, reserved>>

-----------------------------------------------------------------------------
(* A request of a step: q of its s tokens are new; the CPU may believe that *)
(* one more of the last drafts was accepted.                                *)
Requests ==
  { r \in [q : 1 .. MaxTokens, s : 1 .. MaxModelLen, ub : 1 .. MaxModelLen] :
      r.q <= r.s /\ r.ub \in {r.s, r.s + 1} }

(* reorder_batch puts the requests within the decode threshold first.       *)
Batches ==
  { b \in UNION { [1 .. n -> Requests] : n \in 1 .. MaxReqs } :
      /\ Rows(b) <= MaxTokens
      /\ \A r \in 2 .. Len(b) : b[r].q <= conf.nextN => b[r - 1].q <= conf.nextN }

Init ==
  /\ conf \in Configs
  /\ phase = "boot" /\ reserved = [rows |-> 0, width |-> 0] /\ batch = << >> /\ graph = FALSE /\ chunks = << >>
  /\ decode = NoDecode /\ workspace = << >> /\ topk = << >>

(* execute_model: any batch, replayed or eager, padded or not.              *)
Execute ==
  /\ phase = "idle"
  /\ \E b \in Batches, replay \in BOOLEAN : \E n \in Len(b) .. MaxReqs : Build(b, replay, n)

Next ==
  \/ Profile
  \/ Execute
  \/ RunChunk
  \/ RunDecode
  \/ Return

Spec == Init /\ [][Next]_vars

-----------------------------------------------------------------------------
TypeOK ==
  /\ conf \in Configs /\ phase \in {"boot", "idle", "layer", "done"} /\ graph \in BOOLEAN
  /\ \A r \in DOMAIN batch : batch[r] \in Requests
  /\ DOMAIN decode.lens = DOMAIN decode.table
  /\ \A k \in DOMAIN chunks : chunks[k].rows > 0 /\ chunks[k].start + chunks[k].rows <= Rows(batch)
  /\ \A g \in DOMAIN topk : topk[g] \subseteq
       {Stale} \cup ({Stale} \cup (1 .. MaxReqs) \X (0 .. FullWidth - 1)) \X (0 .. Storage - 1)

(* The compressed context of a query row: everything up to its own token.   *)
OwnContext(r, position) ==
  { <<<<r, c \div Storage>>, c % Storage>> : c \in 0 .. (position + 1) \div conf.ratio - 1 }

(* When the layer returns, every query row, decode or prefill, expanded,    *)
(* trimmed, capped or cut into chunks, has been scored against exactly the  *)
(* K rows of its own request up to its own position: none missing, none of  *)
(* another request, none left in a buffer by an earlier step.               *)
RowsScoreOwnContext ==
  phase = "done" =>
    \A r \in DOMAIN batch : \A i \in 0 .. batch[r].q - 1 :
      topk[StartLoc(batch, r) + i] = OwnContext(r, batch[r].s - batch[r].q + i)

(* No chunk asks for more logits than the budget, unless it is down to one  *)
(* row; what it gathers fits in the shared workspace; and the exact extents *)
(* of its rows lie within what the CPU's bound made it gather.              *)
ChunksWithinBudgets ==
  \A k \in DOMAIN chunks :
    LET c == chunks[k]
        n == IF conf.b12x THEN Supertile ELSE c.total
    IN  /\ c.rows = 1 \/ c.rows * n <= MaxLogits
        /\ conf.b12x \/ c.total <= reserved.width
        /\ conf.b12x \/ \A i \in DOMAIN c.ke : c.ke[i] <= c.total

(* "The largest q chunk the real prefill chunker can hand to b12x": the     *)
(* scratch reserved by the profile run, which cannot grow once the          *)
(* workspace is locked, is enough for the plan of every chunk.              *)
ReservedScratchSuffices ==
  conf.b12x => \A k \in DOMAIN chunks :
    chunks[k].rows <= reserved.rows /\ FullWidth <= reserved.width

(* indexer.py and README: a step that the cap cannot serve keeps the full   *)
(* page table and is never truncated: no decode row reads a page that is    *)
(* missing from its table or was not written for this step.                 *)
NeverTruncated ==
  phase = "done" /\ chunks = << >> =>
    \A g \in DOMAIN decode.lens :
      \A c \in 0 .. Least(decode.lens[g], decode.width) - 1 :
        /\ c \div Storage \in DOMAIN decode.table[g]
        /\ decode.table[g][c \div Storage] # Stale
=============================================================================
