------------------------------ MODULE SparseBackend ------------------------------
(***************************************************************************)
(* The FLASHMLA_SPARSE attention backend of one rank                       *)
(* (kernels/flashmla_sparse.py): the metadata of a batch, with the chunks  *)
(* in which prefills go through the workspace, and forward_mqa over it,    *)
(* layer after layer, on each of its paths.                                *)
(*                                                                         *)
(* What the kernels compute is the subject of SparseMla; here a row of the *)
(* output is the key it attended at each of its lanes, a key being         *)
(* <<layer, request, position>>, and an LSE is <<token, head, base>>.      *)
(* Requests, tokens and heads count from 1.                                *)
(***************************************************************************)
EXTENDS Integers, Sequences, FiniteSets, Sums

CONSTANTS
  Calls,            \* [heads, ranks, fp8, batch]: num_heads of a rank, dcp_world_size,
                    \* whether the cache is fp8_ds_mla, and the scheduled batch: a
                    \* sequence of [query, seq]
  Orders,           \* orders in which the indexer may rank the positions
  TopK,             \* topk_tokens
  MaxModelLen,      \* max_model_len
  WorkspaceFactor,  \* 5
  HeadUnit,         \* 64: heads of the smallest kernels, prefill_padding
  HeadGroup,        \* 16: heads B12x takes at a time
  MinHeads,         \* MIN_HEADS_FOR_BF16_PREFILL
  Threshold,        \* reorder_batch_threshold
  Layers            \* layers that share a batch's metadata

Total(f, n) == SumOver(f, 1, n)

Queries(batch) == [j \in DOMAIN batch |-> batch[j].query]

\* num_actual_tokens
TokenCount(batch) == Total(Queries(batch), Len(batch))

\* get_prefill_workspace_size
WorkspaceSize == WorkspaceFactor * MaxModelLen

ASSUME SparseBackendAssumption ==
  /\ TopK \in Nat /\ MaxModelLen \in Nat \ {0} /\ WorkspaceFactor \in Nat \ {0}
  /\ HeadUnit \in Nat \ {0} /\ HeadGroup \in Nat \ {0} /\ MinHeads \in Nat
  /\ Threshold \in Nat \ {0}
  /\ Layers \in Nat \ {0}
  /\ \A c \in Calls :
       /\ c.heads \in Nat \ {0} /\ c.ranks \in Nat \ {0} /\ c.fp8 \in BOOLEAN
       /\ c.batch \in Seq([query : Nat \ {0}, seq : 1 .. MaxModelLen]) \ {<<>>}
       /\ \A j \in DOMAIN c.batch : c.batch[j].query <= c.batch[j].seq
       \* The scheduler puts the requests that may be decodes first.
       /\ \A j, k \in DOMAIN c.batch :
            j < k /\ c.batch[k].query <= Threshold => c.batch[j].query <= Threshold
  \* Every position has one rank.
  /\ \A o \in Orders :
       /\ o \in Seq(0 .. MaxModelLen - 1)
       /\ \A p \in 0 .. MaxModelLen - 1 : \E i \in DOMAIN o : o[i] = p
       /\ \A i, j \in DOMAIN o : o[i] = o[j] => i = j

VARIABLES
  call,       \* the call, with the rank this is
  pc,         \* "idle", "chunking", "ready", "convert", "decode", "gather", "attend",
              \* "returned" or "raised"
  meta,       \* FlashMLASparseMetadata
  cpu,        \* prefill_workspace_starts_cpu
  lanes,      \* topk_indices_buffer, per token
  layer,      \* the layer that calls forward_mqa
  chunk,      \* the chunk of the loop over fp8_metadata.prefill.chunks
  indices,    \* topk_indices as converted, per token
  counts,     \* topk_length, per token
  workspace,  \* prefill_bf16_workspace
  out,        \* attn_out, per token
  lse         \* the LSE, per token and head; <<>> if there is none

vars == <<call, pc, meta, cpu, lanes, layer, chunk, indices, counts, workspace, out, lse>>

Batch    == call.batch
Requests == DOMAIN Batch
Tokens   == 1 .. TokenCount(Batch)
WantLse  == call.ranks > 1

\* Heads of q: under context parallelism, those of all ranks.
QHeads == call.heads * call.ranks

-----------------------------------------------------------------------------
(* The batch.                                                              *)

\* query_start_loc: tokens before request j.
QueryStart(j) == Total(Queries(Batch), j - 1)

\* req_id_per_token
RequestOf(t) ==
  CHOOSE j \in Requests : QueryStart(j) < t /\ t <= QueryStart(j) + Batch[j].query

\* The position of token t in its request.
PositionOf(t) ==
  Batch[RequestOf(t)].seq - Batch[RequestOf(t)].query + (t - QueryStart(RequestOf(t))) - 1

\* split_decodes_and_prefills with require_uniform: the requests in front that ask as
\* many tokens as the first, if that is at most the threshold.
NumDecodes ==
  IF Batch[1].query > Threshold THEN 0
  ELSE CHOOSE n \in Requests :
         /\ \A j \in 1 .. n : Batch[j].query = Batch[1].query
         /\ n = Len(Batch) \/ Batch[n + 1].query # Batch[1].query

NumPrefills     == Len(Batch) - NumDecodes
NumDecodeTokens == QueryStart(NumDecodes + 1)

\* seq_lens of the prefills.
PrefillLen(i) == Batch[NumDecodes + i].seq

\* Prefills i .. k.
Lens(i, k) == Total([j \in 1 .. k - i + 1 |-> PrefillLen(i + j - 1)], k - i + 1)

\* Mutant: the prefill that is added is not counted.
ChunkFitsBefore(i, k) == Lens(i, k - 1) <= WorkspaceSize

\* split_prefill_chunks: prefills i .. k fit the workspace together.
ChunkFits(i, k) == Lens(i, k) <= WorkspaceSize

\* Of the first n positions in order, those up to pos.
SeenBy(order, pos, n) ==
  LET seen[i \in 0 .. n] ==
        IF i = 0 THEN <<>>
        ELSE IF order[i] <= pos THEN Append(seen[i - 1], order[i]) ELSE seen[i - 1]
  IN  seen[n]

\* The indexer's row for token t: the best positions first, padded with -1; under
\* context parallelism, what the owned mask leaves of it.
Ranked(t, order) ==
  LET seen == SeenBy(order, PositionOf(t), Len(order))
  IN  [i \in 1 .. TopK |-> IF i <= Len(seen) THEN seen[i] ELSE -1]

Owned(p, c) == p >= 0 /\ p % c.ranks = c.rank

OwnedRow(row, c) == [i \in 1 .. TopK |-> IF Owned(row[i], c) THEN row[i] \div c.ranks ELSE -1]

\* What the rank's cache holds for request j at index i of its shard.
Cached(l, j, i) ==
  LET p == i * call.ranks + call.rank
  IN  IF p < Batch[j].seq THEN <<l, j, p>> ELSE <<>>

-----------------------------------------------------------------------------
(* Building the metadata.                                                  *)

NoMeta == [requestIds |-> <<>>, starts |-> <<>>, chunks |-> <<>>]

NoCall == [heads |-> 1, ranks |-> 1, fp8 |-> TRUE, batch |-> <<>>, rank |-> 0,
           order |-> <<>>]

Init ==
  /\ call = NoCall
  /\ pc = "idle" /\ meta = NoMeta /\ cpu = <<>> /\ lanes = <<>> /\ layer = 1 /\ chunk = 1
  /\ indices = <<>> /\ counts = <<>> /\ out = <<>> /\ lse = <<>>
  /\ workspace = [a \in 0 .. WorkspaceSize - 1 |-> <<>>]

\* fp8_use_mixed_batch
Mixed == call.heads < MinHeads

Separate == call.fp8 /\ ~Mixed

\* prefill_request_id: -1 for decode tokens, the prefill's index for the others.
PrefillRequestId(t) ==
  IF RequestOf(t) <= NumDecodes THEN -1 ELSE RequestOf(t) - NumDecodes

\* A batch is scheduled: _build_fp8_separate_prefill_decode up to the loop over chunks.
\* The other paths need nothing of a chunk.
build ==
  /\ pc = "idle"
  /\ \E c \in Calls : \E rank \in 0 .. c.ranks - 1, order \in Orders :
       call' = [heads |-> c.heads, ranks |-> c.ranks, fp8 |-> c.fp8, batch |-> c.batch,
                rank |-> rank, order |-> order]
  /\ IF Separate' /\ NumPrefills' > 0
       THEN /\ pc' = "chunking"
            /\ meta' = [requestIds |-> [t \in Tokens |-> PrefillRequestId(t)]',
                        starts |-> <<>>, chunks |-> <<>>]
            /\ cpu' = [i \in 1 .. NumPrefills |->
                         Total([k \in 1 .. NumPrefills |-> PrefillLen(k)], i - 1)]'
       ELSE pc' = "ready" /\ meta' = NoMeta /\ cpu' = <<>>
  /\ layer' = 1 /\ chunk' = 1
  /\ UNCHANGED <<lanes, indices, counts, workspace, out, lse>>

ChunksEnd == IF meta.chunks = <<>> THEN 0 ELSE meta.chunks[Len(meta.chunks)].last

\* Mutant: workspace_starts stay offsets in the whole batch.
AdjustedGlobal(first, last) == cpu

\* prefill_workspace_starts_cpu[chunk_start:chunk_end] -= offset
Adjusted(first, last) ==
  [i \in DOMAIN cpu |-> IF first <= i /\ i <= last THEN cpu[i] - cpu[first] ELSE cpu[i]]

\* Mutant: the slice of tokens does not skip the decodes.
TokensSliceFromStart(first, last) == <<QueryStart(first) + 1, QueryStart(last + 1)>>

\* tokens_slice: the first and the last token.
TokensSlice(first, last) ==
  <<QueryStart(NumDecodes + first) + 1, QueryStart(NumDecodes + last + 1)>>

\* One iteration of the loop over chunk_bounds, which are as long as fits.
AppendChunk ==
  /\ pc = "chunking" /\ ChunksEnd < NumPrefills
  /\ LET first == ChunksEnd + 1
         last  == CHOOSE k \in first .. NumPrefills :
                    ChunkFits(first, k) /\ (k = NumPrefills \/ ~ChunkFits(first, k + 1))
     IN  /\ cpu' = Adjusted(first, last)
         /\ meta' = [meta EXCEPT !.chunks = Append(@,
                       [first |-> first, last |-> last, tokens |-> TokensSlice(first, last),
                        size |-> Lens(first, last)])]
  /\ UNCHANGED <<call, pc, lanes, layer, chunk, indices, counts, workspace, out, lse>>

\* prefill_workspace_starts.copy_, after the last chunk has adjusted its part.
FinishBuild ==
  /\ pc = "chunking" /\ ChunksEnd = NumPrefills
  /\ meta' = [meta EXCEPT !.starts = cpu]
  /\ pc' = "ready"
  /\ UNCHANGED <<call, cpu, lanes, layer, chunk, indices, counts, workspace, out, lse>>

-----------------------------------------------------------------------------
(* Kernels.                                                                *)

\* _compute_fp8_decode_padded_heads
PaddedHeads == IF call.heads <= HeadUnit THEN HeadUnit ELSE 2 * HeadUnit

MaxOf(a, b) == IF a >= b THEN a ELSE b

\* Heads the FP8 kernel sees, and so those of its LSE.
KernelHeads == MaxOf(QHeads, PaddedHeads)

\* triton_convert_req_index_to_global_index: -1 stays, a prefill token's index moves to
\* its request's part of the workspace, if there is one, and others go to the cache.
Convert(t, p) ==
  IF p = -1 THEN <<"none">>
  ELSE IF meta.requestIds # <<>> /\ meta.requestIds[t] # -1
         THEN <<"workspace", meta.starts[meta.requestIds[t]] + p>>
         ELSE <<"cache", RequestOf(t), p>>

Converted == [t \in Tokens |-> [i \in 1 .. TopK |-> Convert(t, lanes[t][i])]]

\* return_valid_counts
ValidCounts ==
  [t \in Tokens |-> Cardinality({ i \in 1 .. TopK : lanes[t][i] # -1 })]

IsCandidate(x) == x[1] # "none"

\* The lanes that hold candidates among the first n: all lanes for the FP8 kernel,
\* topk_length for the BF16 kernel.
Candidates(x, n) == { i \in 1 .. n : IsCandidate(x[i]) }

AttendCache(x, n) == [i \in Candidates(x, n) |-> Cached(layer, x[i][2], x[i][3])]

\* Over the part of the workspace that belongs to the chunk.
AttendWorkspace(x, n, size) ==
  [i \in Candidates(x, n) |-> IF x[i][1] = "workspace" /\ x[i][2] < size
                                THEN workspace[x[i][2]] ELSE <<>>]

Row(keys, heads) == [keys |-> keys, heads |-> heads]

\* b12x_glm_mla_attention: None if it is switched off or the heads do not divide, or an
\* exception, which is caught.
B12xResults == {"none", "failed"} \cup (IF KernelHeads % HeadGroup = 0 THEN {"served"} ELSE {})

\* Mutant: the LSE of B12x stays in base two.
BaseAsComputed(result) == IF result = "served" THEN "two" ELSE "e"

\* lse.mul(math.log(2.0))
TimesLogTwo(base) == IF base = "two" THEN "e" ELSE "none"

\* The base of the LSE: that of B12x is computed in base two, that of
\* flash_mla_with_kvcache is natural.
Base(result) == IF result = "served" THEN TimesLogTwo("two") ELSE "e"

\* _fp8_flash_mla_kernel: out is cut back to the heads of q, the LSE is not.
Fp8Out(x) == Row(AttendCache(x, TopK), QHeads)

\* Mutant: q is not padded.
PrefillHeadsUnpadded == call.heads % HeadUnit = 0

\* Whether _bf16_flash_mla_kernel can pad q.
PrefillHeadsFit ==
  call.heads % HeadUnit = 0 \/ (HeadUnit % call.heads = 0 /\ QHeads = call.heads)

-----------------------------------------------------------------------------
(* forward_mqa.                                                            *)

NothingYet == [t \in Tokens |-> Row(<<>>, 0)]

\* A layer calls forward_mqa: the indexer has filled topk_indices_buffer.
forward_mqa ==
  /\ pc = "ready"
  /\ lanes' = [t \in Tokens |->
                 IF WantLse THEN OwnedRow(Ranked(t, call.order), call)
                            ELSE Ranked(t, call.order)]
  /\ pc' = IF WantLse /\ ~call.fp8 THEN "raised" ELSE "convert"
  /\ out' = NothingYet /\ lse' = <<>> /\ chunk' = 1
  /\ UNCHANGED <<call, meta, cpu, layer, indices, counts, workspace>>

forward_bf16_kv ==
  /\ pc = "convert" /\ ~call.fp8
  /\ indices' = Converted /\ counts' = ValidCounts
  /\ IF PrefillHeadsFit
       THEN /\ out' = [t \in Tokens |-> Row(AttendCache(Converted[t], ValidCounts[t]), call.heads)]
            /\ pc' = "returned"
       ELSE pc' = "raised" /\ UNCHANGED out
  /\ UNCHANGED <<call, meta, cpu, lanes, layer, chunk, workspace, lse>>

\* lse.squeeze(0).transpose(0, 1)
MixedLse(base) == [t \in Tokens |-> [h \in 1 .. KernelHeads |-> <<t, h, base>>]]

forward_fp8_kv_mixed_batch ==
  /\ pc = "convert" /\ call.fp8 /\ Mixed
  /\ indices' = Converted
  /\ out' = [t \in Tokens |-> Fp8Out(Converted[t])]
  /\ \E r \in B12xResults : lse' = IF WantLse THEN MixedLse(Base(r)) ELSE <<>>
  /\ pc' = "returned"
  /\ UNCHANGED <<call, meta, cpu, lanes, layer, chunk, counts, workspace>>

\* _forward_fp8_kv_separate_prefill_decode, up to the choice of what to run.
forward_fp8_kv_separate_prefill_decode ==
  /\ pc = "convert" /\ Separate
  /\ indices' = Converted /\ counts' = ValidCounts
  /\ pc' = IF NumDecodeTokens > 0 THEN "decode" ELSE "gather"
  /\ UNCHANGED <<call, meta, cpu, lanes, layer, chunk, workspace, out, lse>>

SpecLen == NumDecodeTokens \div NumDecodes

\* The LSE of the kernel is [num_decodes, H, seq_len]; transposed to
\* [num_decodes, seq_len, H] and reshaped to the rows and heads of the output.
KernelLse(d, h, s, base) == <<(d - 1) * SpecLen + s, h, base>>

DecodeLse(base) ==
  [t \in 1 .. NumDecodeTokens |-> [h \in 1 .. QHeads |->
     LET flat == (t - 1) * QHeads + h - 1
     IN  KernelLse(flat \div (SpecLen * KernelHeads) + 1,
                   (flat % KernelHeads) + 1,
                   ((flat \div KernelHeads) % SpecLen) + 1, base)]]

\* Whether dec_out and dec_lse have the shapes of what they are assigned to.
DecodeShapesFit ==
  /\ WantLse => KernelHeads = QHeads
  /\ NumPrefills > 0 => QHeads = call.heads

\* Mutant: a batch of decodes goes on to the chunks, too.
AfterDecodeChunks == "gather"

\* "Pure decode: direct call without allocation".
AfterDecode == IF NumPrefills > 0 THEN "gather" ELSE "returned"

\* _fp8_decode on the tokens of the decodes.
fp8_decode ==
  /\ pc = "decode"
  /\ IF DecodeShapesFit
       THEN /\ out' = [t \in Tokens |-> IF t <= NumDecodeTokens THEN Fp8Out(indices[t]) ELSE out[t]]
            /\ \E r \in B12xResults : lse' = IF WantLse THEN DecodeLse(Base(r)) ELSE <<>>
            /\ pc' = AfterDecode
       ELSE pc' = "raised" /\ UNCHANGED <<out, lse>>
  /\ UNCHANGED <<call, meta, cpu, lanes, layer, chunk, indices, counts, workspace>>

\* cp_gather_and_upconvert_fp8_kv_cache: the cache of the chunk's requests, each from
\* its start.
GatherChunk ==
  /\ pc = "gather" /\ chunk <= Len(meta.chunks)
  /\ LET c == meta.chunks[chunk]
         InRegion(a, i) == meta.starts[i] <= a /\ a < meta.starts[i] + PrefillLen(i)
     IN  workspace' =
           [a \in DOMAIN workspace |->
              IF \E i \in c.first .. c.last : InRegion(a, i)
                THEN LET i == CHOOSE i \in c.first .. c.last : InRegion(a, i)
                     IN  Cached(layer, NumDecodes + i, a - meta.starts[i])
                ELSE workspace[a]]
  /\ pc' = "attend"
  /\ UNCHANGED <<call, meta, cpu, lanes, layer, chunk, indices, counts, out, lse>>

\* _bf16_flash_mla_kernel on the tokens of the chunk.  output and lse are cut to
\* num_heads.
AttendChunk ==
  /\ pc = "attend"
  /\ LET c       == meta.chunks[chunk]
         slice   == c.tokens[1] .. c.tokens[2]
         keys(t) == AttendWorkspace(indices[t], counts[t], c.size)
     IN  IF PrefillHeadsFit
           THEN /\ out' = [t \in Tokens |-> IF t \in slice THEN Row(keys(t), call.heads) ELSE out[t]]
                /\ lse' = IF ~WantLse THEN <<>>
                          ELSE [t \in Tokens |->
                                  IF t \in slice THEN [h \in 1 .. call.heads |-> <<t, h, "e">>]
                                  ELSE IF t \in DOMAIN lse THEN lse[t] ELSE <<>>]
                /\ pc' = IF chunk = Len(meta.chunks) THEN "returned" ELSE "gather"
           ELSE pc' = "raised" /\ UNCHANGED <<out, lse>>
  /\ chunk' = chunk + 1
  /\ UNCHANGED <<call, meta, cpu, lanes, layer, indices, counts, workspace>>

\* The next layer with the same metadata, or the next batch; others use the workspace
\* between batches.
NextLayer ==
  /\ pc = "returned"
  /\ IF layer < Layers
       THEN /\ layer' = layer + 1 /\ pc' = "ready"
            /\ UNCHANGED <<call, meta, cpu, lanes, indices, counts, workspace, out, lse>>
       ELSE /\ pc' = "idle" /\ layer' = 1
            /\ call' = NoCall /\ meta' = NoMeta /\ cpu' = <<>> /\ lanes' = <<>>
            /\ indices' = <<>> /\ counts' = <<>> /\ out' = <<>> /\ lse' = <<>>
            /\ workspace' = [a \in DOMAIN workspace |-> <<>>]
  /\ chunk' = 1

Step ==
  \/ AppendChunk \/ FinishBuild
  \/ forward_mqa \/ forward_bf16_kv \/ forward_fp8_kv_mixed_batch
  \/ forward_fp8_kv_separate_prefill_decode \/ fp8_decode \/ GatherChunk \/ AttendChunk

Next == build \/ Step \/ NextLayer

Spec == Init /\ [][Next]_vars /\ WF_vars(Step)

-----------------------------------------------------------------------------
(* Properties.                                                             *)

\* Every variable has its type: what a chunk names are tokens of the batch, and where a
\* request starts is a place in the workspace.
TypeOK ==
  /\ pc \in {"idle", "chunking", "ready", "convert", "decode", "gather", "attend",
             "returned", "raised"}
  /\ call.rank \in 0 .. call.ranks - 1
  /\ layer \in 1 .. Layers /\ chunk \in 1 .. Len(meta.chunks) + 1
  /\ \A i \in DOMAIN meta.starts : meta.starts[i] \in 0 .. WorkspaceSize - 1
  /\ \A k \in DOMAIN meta.chunks : LET c == meta.chunks[k] IN
       c.first <= c.last /\ c.last <= NumPrefills /\ c.tokens[1] \in Tokens /\ c.tokens[2] \in Tokens
  /\ DOMAIN lanes \in {{}, Tokens} /\ DOMAIN out \in {{}, Tokens}

\* "Chunk prefill requests to fit within workspace size": every prefill is in one chunk,
\* and the requests of a chunk have parts of the workspace of their own, within it.
ChunksFit ==
  Separate /\ NumPrefills > 0 /\ pc \notin {"idle", "chunking"} =>
    /\ \A i \in 1 .. NumPrefills :
         Cardinality({ k \in DOMAIN meta.chunks :
                         meta.chunks[k].first <= i /\ i <= meta.chunks[k].last }) = 1
    /\ \A k \in DOMAIN meta.chunks : LET c == meta.chunks[k] IN
         /\ c.size <= WorkspaceSize
         /\ \A i \in c.first .. c.last :
              /\ 0 <= meta.starts[i] /\ meta.starts[i] + PrefillLen(i) <= c.size
              /\ \A j \in c.first .. c.last :
                   i < j => meta.starts[i] + PrefillLen(i) <= meta.starts[j]

\* The keys the rank has to attend for token t: those of its own request and layer that
\* the indexer selected and the rank owns.
Selected(t) ==
  { <<layer, RequestOf(t), p>> : p \in { q \in 0 .. MaxModelLen - 1 :
      Owned(q, call) /\ \E i \in 1 .. TopK : Ranked(t, call.order)[i] = q } }

\* What a token's row was computed from: each of its keys once, nothing else (no other
\* request's, no earlier layer's or chunk's), for every head of q.
AttendsSelected ==
  pc = "returned" =>
    \A t \in Tokens :
      /\ { out[t].keys[i] : i \in DOMAIN out[t].keys } = Selected(t)
      /\ \A i, j \in DOMAIN out[t].keys : out[t].keys[i] = out[t].keys[j] => i = j
      /\ out[t].heads = QHeads

\* "EVERY mqa step (prefill AND decode) must return the per-shard base-e LSE": one for
\* every row and head of the output, at its place.
LsePerRow ==
  pc = "returned" /\ WantLse =>
    \A t \in Tokens : lse[t] = [h \in 1 .. out[t].heads |-> <<t, h, "e">>]

\* forward_mqa comes to an end.
Serves == pc = "ready" ~> pc \in {"returned", "raised"}

\* "the -1 sentinel + return_valid_counts already make that kernel drop unowned/invalid
\* indices": of the keys the rank owns none is dropped.
OnlyUnownedDropped ==
  pc = "returned" =>
    \A t \in Tokens : Selected(t) \subseteq { out[t].keys[i] : i \in DOMAIN out[t].keys }

=============================================================================
