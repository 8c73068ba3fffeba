------------------------------- MODULE MqaIndexer -------------------------------
(***************************************************************************)
(* The indexer's kernels on SM12x: the logits of the keys a query row may  *)
(* see (kernels/sm12x_mqa.py), and the top-k over them, streamed chunk by  *)
(* chunk so that the full matrix of logits never exists                    *)
(* (kernels/sm12x_deep_gemm_fallbacks.py).                                 *)
(*                                                                         *)
(* A kernel's programs run in any order, each storing its tile of logits;  *)
(* the operations of a stream follow one another.  A logit is the set of   *)
(* products <<key, head>> that were added up in it, so that a head counted *)
(* twice or a key read from the wrong place shows.                         *)
(***************************************************************************)
EXTENDS TopKSets

CONSTANTS
  Shapes,        \* <<batch_size, next_n>> of the calls
  MaxKeys,       \* largest seq_len_kv, and max_model_len
  Heads,         \* num_heads
  TopK,          \* topk_tokens
  BlockKV,       \* block_size of the paged cache
  Slots,         \* rows of the paged cache
  BlockTables,   \* block_tables of a call: per request, the blocks of its keys
  ScoreTables,   \* weighted score of every query row for every cache row
  Wrong,         \* what a sum of the wrong products comes to
  TileM, TileN,  \* BLOCK_M of the dense kernel; BLOCK_N
  Budget,        \* elements of _SM120_MQA_LOGITS_MAX_SCORE_BYTES
  DefaultChunk,  \* _SM120_PAGED_MQA_TOPK_CHUNK_SIZE
  Configured,    \* values of GLM52_PAGED_MQA_TOPK_CHUNK_SIZE
  NegInf,        \* -float("inf")
  Unset          \* torch.empty

MaxOf(a, b) == IF a >= b THEN a ELSE b
MinOf(a, b) == IF a <= b THEN a ELSE b
CDiv(a, b)  == (a + b - 1) \div b

RowsOf(shape) == 0 .. shape[1] * shape[2] - 1
HeadSet       == 0 .. Heads - 1
CacheRows     == 0 .. Slots - 1

ASSUME MqaAssumption ==
  /\ Shapes \subseteq Nat \X (Nat \ {0})
  /\ MaxKeys \in Nat /\ Heads \in Nat \ {0} /\ TopK \in Nat
  /\ BlockKV \in Nat \ {0} /\ Slots \in Nat /\ MaxKeys <= Slots
  /\ \A t \in BlockTables, s \in Shapes : \A b \in 0 .. s[1] - 1, p \in 0 .. MaxKeys - 1 :
       t[b][p \div BlockKV] * BlockKV + (p % BlockKV) \in CacheRows
  /\ \A f \in ScoreTables, s \in Shapes : \A r \in RowsOf(s), k \in CacheRows : f[r][k] \in Int
  /\ Wrong \in Int
  /\ TileM \in Nat \ {0} /\ TileN \in Nat \ {0}
  /\ Budget \in Nat /\ DefaultChunk \in Nat \ {0} /\ Configured \subseteq Int
  /\ NegInf \notin Int /\ Unset # NegInf
  /\ \A c \in SUBSET (CacheRows \X HeadSet) : c # NegInf /\ c # Unset

VARIABLES
  job,      \* arguments of the call, and what it computes from them at the start
  pc,       \* "idle", "chunk", "heads", "matmul", "rows", "mask", "grid", "topk", "merge" or "done"
  row,      \* row of the row-by-row path
  start,    \* k_start, token_start
  count,    \* columns of logits
  head,     \* head_start
  pending,  \* programs of the launched grid that have not run
  logits,   \* logits, or those of the chunk
  chosen,   \* chunk_indices with chunk_values, per row
  best,     \* topk_indices with best_values, per row, without the lanes of index -1
  answer    \* the call's return value

vars == <<job, pc, row, start, count, head, pending, logits, chosen, best, answer>>

Rows     == RowsOf(job.shape)
RowCount == job.shape[1] * job.shape[2]

-----------------------------------------------------------------------------
(* Sizes of chunks and tiles.                                              *)

\* _fp8_mqa_logits_head_chunk_size
HeadChunkSize(rows, keys) ==
  MaxOf(1, MinOf(MinOf(8, Heads), Budget \div MaxOf(1, rows * keys)))

\* Mutant: only the heads are cut into chunks.
KChunkSizeWhole(rows, keys, heads) == MaxOf(1, keys)

\* _fp8_mqa_logits_k_chunk_size
KChunkSize(rows, keys, heads) == MaxOf(1, MinOf(keys, Budget \div MaxOf(1, rows * heads)))

\* Mutant: a configured chunk size is taken as it is.
PagedChunkSizeUnchecked(configured) == configured

\* _paged_mqa_topk_chunk_size, when the variable is set to a number
PagedChunkSize(configured) == MaxOf(1, configured)

\* max_tokens_per_chunk of the row-by-row path
TokensPerChunk == MaxOf(1, Budget \div MaxOf(1, Heads))

\* BLOCK_M of fp8_paged_mqa_logits_triton
AdaptiveM(rows) == IF rows <= 1 THEN 1 ELSE IF rows <= 2 THEN 2 ELSE IF rows <= 4 THEN 4 ELSE 8

\* Rows of a program's tile in a launch by path.
TileHeight(path, rows) ==
  CASE path = "dense" -> TileM
    [] path = "paged" -> AdaptiveM(rows)
    [] OTHER          -> 1

-----------------------------------------------------------------------------
(* Logits.                                                                 *)

Paged     == job.entry \in {"paged_topk", "paged_logits"}
Streaming == job.entry \in {"mqa_topk", "paged_topk"}

\* offs_n: the position of column c of logits.
Position(c) == IF Streaming THEN start + c ELSE c

\* Mutant: every row has a block table of its own.
CacheRowOfRow(r, p) ==
  IF Paged THEN job.table[r][p \div BlockKV] * BlockKV + (p % BlockKV) ELSE p

\* block_idx and block_offset: the row of the (paged) cache read for key p by row r.
CacheRow(r, p) ==
  IF Paged THEN job.table[r \div job.shape[2]][p \div BlockKV] * BlockKV + (p % BlockKV) ELSE p

Products(k, heads) == {k} \X heads

\* What a kernel adds up for key p of row r.
Sum(r, p) == Products(CacheRow(r, p), HeadSet)

\* seq_mask, context_mask
Visible(r, p) == job.lo[r] <= p /\ p < job.hi[r]

Cols == 0 .. count - 1

\* Adding the same products a second time is as wrong as adding others.
Plus(cell, products) == IF cell \cap products = {} THEN cell \cup products ELSE Unset

Filled(cell, rows, columns) == [r \in 0 .. rows - 1 |-> [c \in 0 .. columns - 1 |-> cell]]

\* The number a logit comes to.
Value(r, cell) ==
  IF cell = NegInf THEN NegInf
  ELSE IF \E k \in CacheRows : cell = Products(k, HeadSet)
         THEN job.score[r][CHOOSE k \in CacheRows : cell = Products(k, HeadSet)]
         ELSE Wrong

-----------------------------------------------------------------------------
(* Calls.                                                                  *)

NoJob ==
  [entry |-> "mqa_logits", path |-> "dense", shape |-> <<0, 1>>, keys |-> 0,
   lo |-> [r \in {} |-> 0], hi |-> [r \in {} |-> 0], clean |-> TRUE,
   chunk |-> 1, heads |-> 1,
   table |-> CHOOSE t \in BlockTables : TRUE, score |-> CHOOSE s \in ScoreTables : TRUE]

Init ==
  /\ job = NoJob
  /\ pc = "idle" /\ row = 0 /\ start = 0 /\ count = 0 /\ head = 0 /\ pending = {}
  /\ logits = [r \in {} |-> <<>>] /\ chosen = [r \in {} |-> {}] /\ best = [r \in {} |-> {}]
  /\ answer = FALSE

\* k_chunk_size, and the chunk sizes the environment may set.
Chunks(entry, rows, keys) ==
  CASE entry = "mqa_topk"   -> {KChunkSize(rows, keys, HeadChunkSize(rows, keys))}
    [] entry = "paged_topk" -> {DefaultChunk} \cup { PagedChunkSize(c) : c \in Configured }
    [] OTHER                -> {1}

\* A call of entry that goes by path: a row sees keys lo .. hi-1, cu_seqlen_ks and
\* cu_seqlen_ke in a prefill chunk, 0 and context_lens in the paged cache.
Begin(entry, path, first) ==
  /\ pc = "idle"
  /\ \E shape \in Shapes, keys \in 0 .. MaxKeys :
       LET rows   == RowsOf(shape)
           size   == shape[1] * shape[2]
           paged  == entry \in {"paged_topk", "paged_logits"}
           bounds == [rows -> 0 .. keys]
       IN  /\ paged \/ shape[2] = 1
           /\ \E hi \in bounds, table \in BlockTables, score \in ScoreTables,
                 chunk \in Chunks(entry, size, keys),
                 clean \in (IF entry = "mqa_logits" THEN BOOLEAN ELSE {TRUE}) :
                \E lo \in (IF paged THEN {[r \in rows |-> 0]}
                                    ELSE { f \in bounds : \A r \in rows : f[r] <= hi[r] }) :
                  job' = [entry |-> entry, path |-> path, shape |-> shape, keys |-> keys,
                          lo |-> lo, hi |-> hi, clean |-> clean, chunk |-> chunk,
                          heads |-> HeadChunkSize(size, keys), table |-> table, score |-> score]
           /\ best' = [r \in rows |-> {}] /\ chosen' = [r \in rows |-> {}]
  /\ row' = 0 /\ start' = 0 /\ head' = 0
  /\ pc' = first
  /\ answer' = FALSE

\* out.fill_(-1), and on to the first chunk; or FALSE, when the platform or the format
\* of the queries is not supported.
fp8_fp4_mqa_topk_indices ==
  /\ Begin("mqa_topk", "torch", "chunk") \/ Begin("mqa_topk", "none", "done")
  /\ UNCHANGED <<count, pending, logits>>

\* The loop has no chunk when max_model_len is 0, and nothing to store without rows.
fp8_fp4_paged_mqa_topk_indices ==
  /\ \/ Begin("paged_topk", "paged", "chunk")
     \/ Begin("paged_topk", "rowwise", "chunk")
     \/ Begin("paged_topk", "none", "done")
  /\ UNCHANGED <<count, pending, logits>>

\* An unwritten tensor of logits, and the grid of programs that write it.
Launch(path, rows, columns) ==
  /\ count' = columns
  /\ logits' = Filled(Unset, rows, columns)
  /\ pending' = (0 .. CDiv(rows, TileHeight(path, rows)) - 1) \X (0 .. CDiv(columns, TileN) - 1)

fp8_mqa_logits_triton(rows, keys) == Launch("dense", rows, keys)

fp8_paged_mqa_logits_rowwise_triton(rows, tokens) == Launch("rowwise", rows, tokens)

\* path is "rowwise" for aligned shapes: head_dim % 64 = 0 and num_heads % 4 = 0.
fp8_paged_mqa_logits_triton(path, rows, tokens) ==
  IF path = "rowwise" THEN fp8_paged_mqa_logits_rowwise_triton(rows, tokens)
                      ELSE Launch("paged", rows, tokens)

RowsOfCall == job'.shape[1] * job'.shape[2]

\* Torch: from all zeros by heads, or from -inf row by row.
FromAll(cell) ==
  /\ count' = job'.keys
  /\ logits' = Filled(cell, RowsOfCall, job'.keys)
  /\ UNCHANGED pending

fp8_mqa_logits_sm12x ==
  \/ Begin("mqa_logits", "dense", "grid") /\ fp8_mqa_logits_triton(RowsOfCall, job'.keys)
  \/ Begin("mqa_logits", "torch", "matmul") /\ FromAll({})

fp8_paged_mqa_logits_sm12x ==
  \/ \E path \in {"paged", "rowwise"} :
       /\ Begin("paged_logits", path, "grid")
       /\ fp8_paged_mqa_logits_triton(path, RowsOfCall, job'.keys)
  \/ Begin("paged_logits", "torch", "rows") /\ FromAll(NegInf)

-----------------------------------------------------------------------------
(* Programs of a launched grid.                                            *)

Tile(program) ==
  { cell \in Rows \X Cols :
      /\ cell[1] \div TileHeight(job.path, RowCount) = program[1]
      /\ cell[2] \div TileN = program[2] }

\* Program p stores its tile of cells.
Store(p, cells) ==
  /\ pc = "grid" /\ p \in pending
  /\ pending' = pending \ {p}
  /\ logits' = [r \in Rows |-> [c \in Cols |->
                  IF <<r, c>> \in Tile(p) THEN cells[r][c] ELSE logits[r][c]]]
  /\ UNCHANGED <<job, pc, row, start, count, head, chosen, best, answer>>

Masked ==
  [r \in Rows |-> [c \in Cols |->
     IF Visible(r, Position(c)) THEN Sum(r, Position(c)) ELSE NegInf]]

Unmasked == [r \in Rows |-> [c \in Cols |-> Sum(r, Position(c))]]

fp8_mqa_logits_kernel ==
  /\ job.path = "dense"
  /\ \E p \in pending : IF job.clean THEN Store(p, Masked) ELSE Store(p, Unmasked)

fp8_paged_mqa_logits_kernel ==
  /\ job.path = "paged"
  /\ \E p \in pending : Store(p, Masked)

\* The window of the program begins beyond the context of its row.
Beyond(p) == Position(p[2] * TileN) >= job.hi[p[1]]

fp8_paged_mqa_logits_rowwise_kernel ==
  /\ job.path = "rowwise"
  /\ \E p \in pending :
       \/ Beyond(p)  /\ Store(p, Filled(NegInf, RowCount, count))
       \/ ~Beyond(p) /\ Store(p, Masked)

ReturnLogits ==
  /\ pc = "grid" /\ pending = {} /\ ~Streaming
  /\ pc' = "done" /\ answer' = TRUE
  /\ UNCHANGED <<job, row, start, count, head, pending, logits, chosen, best>>

-----------------------------------------------------------------------------
(* Torch paths.                                                            *)

HeadEnd == MinOf(head + job.heads, Heads)

\* Keys of one step of the loop over k_start.
KeyStep == KChunkSize(RowCount, job.keys, HeadEnd - head)

\* _fp8_mqa_logits_torch: head chunk by head chunk, key chunk by key chunk.
fp8_mqa_logits_torch ==
  /\ pc = "matmul"
  /\ IF head < Heads /\ start < job.keys
       THEN /\ logits' = [r \in Rows |-> [c \in Cols |->
                 IF start <= c /\ c < start + KeyStep
                   THEN Plus(logits[r][c], Products(CacheRow(r, c), head .. HeadEnd - 1))
                   ELSE logits[r][c]]]
            /\ start' = start + KeyStep
            /\ UNCHANGED <<pc, head, answer>>
       ELSE /\ IF head < Heads THEN head' = HeadEnd /\ start' = 0 /\ UNCHANGED <<pc, answer>>
                               ELSE /\ pc' = IF job.clean THEN "mask" ELSE "done"
                                    /\ answer' = ~job.clean
                                    /\ UNCHANGED <<head, start>>
            /\ UNCHANGED logits
  /\ UNCHANGED <<job, row, count, pending, chosen, best>>

\* _fp8_paged_mqa_logits_torch: row by row, up to its context, in pieces.
fp8_paged_mqa_logits_torch ==
  /\ pc = "rows"
  /\ IF row \in Rows
       THEN IF start < job.hi[row]
              THEN /\ logits' = [logits EXCEPT ![row] = [c \in Cols |->
                        IF start <= c /\ c < MinOf(job.hi[row], start + TokensPerChunk)
                          THEN Sum(row, c) ELSE @[c]]]
                   /\ start' = start + TokensPerChunk
                   /\ UNCHANGED <<pc, row, answer>>
              ELSE row' = row + 1 /\ start' = 0 /\ UNCHANGED <<pc, logits, answer>>
       ELSE pc' = "done" /\ answer' = TRUE /\ UNCHANGED <<row, start, logits>>
  /\ UNCHANGED <<job, count, head, pending, chosen, best>>

\* masked_fill by cu_seqlen_ks and cu_seqlen_ke.
MaskLogits ==
  /\ pc = "mask"
  /\ logits' = [r \in Rows |-> [c \in Cols |->
                  IF Visible(r, Position(c)) THEN logits[r][c] ELSE NegInf]]
  /\ pc' = IF Streaming THEN "topk" ELSE "done"
  /\ answer' = ~Streaming
  /\ UNCHANGED <<job, row, start, count, head, pending, chosen, best>>

-----------------------------------------------------------------------------
(* The streamed top-k.                                                     *)

\* Mutant: the last chunk is as long as the others.
ChunkColumnsWhole == job.chunk

\* k_end - k_start, token_count
ChunkColumns == MinOf(job.chunk, job.keys - start)

\* Logits of the next chunk: zeros to add heads to, or a launch.
NextChunk ==
  /\ pc = "chunk" /\ start < job.keys
  /\ IF Paged
       THEN /\ fp8_paged_mqa_logits_triton(job.path, RowCount, ChunkColumns)
            /\ pc' = "grid"
       ELSE /\ count' = ChunkColumns
            /\ logits' = Filled({}, RowCount, ChunkColumns)
            /\ pc' = "heads"
            /\ UNCHANGED pending
  /\ head' = 0
  /\ UNCHANGED <<job, row, start, chosen, best, answer>>

\* _fp8_mqa_logits_topk_torch: the inner loop over head_start.
AddHeads ==
  /\ pc = "heads"
  /\ IF head < Heads
       THEN /\ logits' = [r \in Rows |-> [c \in Cols |->
                 Plus(logits[r][c], Products(CacheRow(r, Position(c)), head .. HeadEnd - 1))]]
            /\ head' = HeadEnd
            /\ UNCHANGED pc
       ELSE pc' = "mask" /\ UNCHANGED <<logits, head>>
  /\ UNCHANGED <<job, row, start, count, pending, chosen, best, answer>>

AtMostAs(a, b) == a = NegInf \/ (b # NegInf /\ a <= b)

\* torch.topk: k of the largest, -inf included, whichever of equals.
TorchTopK(T, S, k) ==
  /\ T \subseteq S
  /\ Cardinality(T) = AtMost(k, S)
  /\ \A t \in T, s \in S \ T : AtMostAs(s[2], t[2])

Selections(S, k) == { T \in SUBSET S : TorchTopK(T, S, k) }

\* Mutant: the index of a key is its column in the chunk.
ChunkPairsLocal(r) == { <<c, Value(r, logits[r][c])>> : c \in Cols }

\* chunk_indices_out with chunk_logits
ChunkPairs(r) == { <<start + c, Value(r, logits[r][c])>> : c \in Cols }

ChunkTopK ==
  /\ pc = "topk" \/ (pc = "grid" /\ pending = {} /\ Streaming)
  /\ \E f \in [Rows -> UNION { Selections(ChunkPairs(r), MinOf(TopK, count)) : r \in Rows }] :
       /\ \A r \in Rows : f[r] \in Selections(ChunkPairs(r), MinOf(TopK, count))
       /\ chosen' = f
  /\ pc' = "merge"
  /\ UNCHANGED <<job, row, start, count, head, pending, logits, best, answer>>

\* The TopK lanes of a row: those that hold no key hold index -1 and value -inf, and
\* are told apart here by their index.
Lanes(S) == S \cup { <<-i, NegInf>> : i \in 1 .. TopK - Cardinality(S) }

\* masked_fill_(~isfinite(best_values), -1)
Finite(S) == { s \in S : s[2] # NegInf }

\* The candidates are what was best and what the chunk offers.
MergeChunk ==
  /\ pc = "merge"
  /\ \E f \in [Rows -> UNION { Selections(Lanes(best[r]) \cup chosen[r], TopK) : r \in Rows }] :
       /\ \A r \in Rows : f[r] \in Selections(Lanes(best[r]) \cup chosen[r], TopK)
       /\ best' = [r \in Rows |-> Finite(f[r])]
  /\ start' = start + job.chunk
  /\ pc' = "chunk"
  /\ UNCHANGED <<job, row, count, head, pending, logits, chosen, answer>>

LastChunk ==
  /\ pc = "chunk" /\ start >= job.keys
  /\ pc' = "done" /\ answer' = TRUE
  /\ UNCHANGED <<job, row, start, count, head, pending, logits, chosen, best>>

\* The caller takes the result; the tensors of the call are dropped.
Return ==
  /\ pc = "done"
  /\ job' = NoJob
  /\ pc' = "idle" /\ row' = 0 /\ start' = 0 /\ count' = 0 /\ head' = 0 /\ pending' = {}
  /\ logits' = [r \in {} |-> <<>>] /\ chosen' = [r \in {} |-> {}] /\ best' = [r \in {} |-> {}]
  /\ answer' = FALSE

Call ==
  \/ fp8_fp4_mqa_topk_indices \/ fp8_fp4_paged_mqa_topk_indices
  \/ fp8_mqa_logits_sm12x \/ fp8_paged_mqa_logits_sm12x

Step ==
  \/ fp8_mqa_logits_kernel \/ fp8_paged_mqa_logits_kernel
  \/ fp8_paged_mqa_logits_rowwise_kernel \/ ReturnLogits
  \/ fp8_mqa_logits_torch \/ fp8_paged_mqa_logits_torch \/ MaskLogits
  \/ NextChunk \/ AddHeads \/ ChunkTopK \/ MergeChunk \/ LastChunk

Next == Call \/ Step \/ Return

Spec == Init /\ [][Next]_vars /\ WF_vars(Step)

-----------------------------------------------------------------------------
(* Properties.                                                             *)

\* A cell is unwritten, -inf or a sum of products.
IsCell(c) == c \in {NegInf, Unset} \/ c \in SUBSET (CacheRows \X HeadSet)

IsPairs(S) == \A s \in S : s[1] \in 0 .. job.keys - 1 /\ s[2] \in Int \cup {NegInf}

\* Every variable has its type; a chunk ends with the keys, and what is selected are
\* keys with finite values.
TypeOK ==
  /\ job.shape \in Shapes \cup {<<0, 1>>} /\ job.keys \in 0 .. MaxKeys
  /\ job.lo \in [Rows -> 0 .. job.keys] /\ job.hi \in [Rows -> 0 .. job.keys]
  /\ job.clean \in BOOLEAN /\ job.chunk \in Nat \ {0} /\ job.heads \in Nat \ {0}
  /\ pc \in {"idle", "chunk", "heads", "matmul", "rows", "mask", "grid", "topk", "merge", "done"}
  /\ row \in Nat /\ start \in Nat /\ count \in 0 .. job.keys /\ head \in 0 .. Heads
  /\ Streaming /\ pc \in {"heads", "grid", "mask", "topk", "merge"} => start + count <= job.keys
  /\ pc \in {"heads", "matmul", "rows", "mask", "grid", "topk"} =>
       \A r \in Rows, c \in Cols : IsCell(logits[r][c])
  /\ \A r \in Rows : IsPairs(chosen[r]) /\ IsPairs(best[r])
  /\ \A r \in Rows : \A s \in best[r] : s[2] \in Int
  /\ answer \in BOOLEAN

\* The request of row r: rows come request by request, next_n each.
RequestOf(r) ==
  CHOOSE b \in 0 .. job.shape[1] - 1 : b * job.shape[2] <= r /\ r < (b + 1) * job.shape[2]

\* Where the cache of its request holds key p of row r.
Home(r, p) ==
  IF Paged THEN job.table[RequestOf(r)][p \div BlockKV] * BlockKV + (p % BlockKV) ELSE p

\* What the logit of key p for row r must be the sum of.
Full(r, p) == Products(Home(r, p), HeadSet)

\* The key column c of logits is for.
KeyOf(c) == IF Streaming THEN start + c ELSE c

\* A cell of finished logits: the whole sum where the row may look, -inf elsewhere
\* (or the whole sum, if logits are not cleaned).
Right(r, c) ==
  logits[r][c] = IF Visible(r, KeyOf(c)) \/ ~job.clean THEN Full(r, KeyOf(c)) ELSE NegInf

\* Whoever reads logits, the caller or the top-k of a chunk, finds every cell
\* written, by all heads once, from the key of its own position.
LogitsExact ==
  pc = "topk" \/ (pc = "grid" /\ pending = {}) \/ (pc = "done" /\ ~Streaming) =>
    \A r \in Rows, c \in Cols : Right(r, c)

\* The keys row r may see among the first n, with their scores.
KeysBefore(r, n) ==
  { <<p, job.score[r][Home(r, p)]>> : p \in { q \in 0 .. n - 1 : Visible(r, q) } }

\* What the streaming entry points report to have selected is a top-k of all keys
\* the row may see, however they were cut into chunks.
StreamedTopK ==
  pc = "done" /\ Streaming /\ answer =>
    \A r \in Rows : IsTopK(best[r], KeysBefore(r, job.keys), TopK)

\* "Keep the transient score tensor bounded": the scores of a step fit the budget, or
\* are those of one head and one key.
ScratchBounded ==
  LET fits(heads, keys) == heads * RowCount * keys <= Budget
                           \/ (heads = 1 /\ keys = 1)
  IN  /\ pc = "heads" /\ head < Heads => fits(HeadEnd - head, count)
      /\ pc = "matmul" /\ head < Heads /\ start < job.keys =>
           fits(HeadEnd - head, MinOf(KeyStep, job.keys - start))

\* Every call comes to an end.
Answers == pc # "idle" ~> pc = "done"

-----------------------------------------------------------------------------
(* The inductive invariant.                                                *)

\* Cells hold what was added so far.
Progress ==
  /\ pc = "heads" =>
       \A r \in Rows, c \in Cols :
         logits[r][c] = Products(Home(r, start + c), 0 .. head - 1)
  /\ pc = "matmul" =>
       \A r \in Rows, c \in Cols :
         logits[r][c] =
           Products(Home(r, c), 0 .. (IF c < start /\ head < Heads THEN HeadEnd ELSE head) - 1)
  /\ pc = "rows" =>
       \A r \in Rows, c \in Cols :
         logits[r][c] = IF Visible(r, c) /\ (r < row \/ (r = row /\ c < start))
                          THEN Full(r, c) ELSE NegInf
  /\ pc = "mask" => \A r \in Rows, c \in Cols : logits[r][c] = Full(r, KeyOf(c))
  /\ pc = "grid" =>
       \A r \in Rows, c \in Cols :
         Right(r, c) \/ \E p \in pending : <<r, c>> \in Tile(p)
  /\ pc = "topk" \/ (pc = "done" /\ ~Streaming) =>
       \A r \in Rows, c \in Cols : Right(r, c)

MinKeys(n) == MinOf(n, job.keys)

\* What is selected is the best of the keys of the chunks so far.
Streamed ==
  /\ Streaming /\ pc \in {"chunk", "heads", "mask", "grid", "topk", "merge"} =>
       \A r \in Rows : IsTopK(best[r], KeysBefore(r, MinKeys(start)), TopK)
  /\ pc = "merge" =>
       \A r \in Rows :
         IsTopK(Finite(chosen[r]),
                KeysBefore(r, start + count) \ KeysBefore(r, start), TopK)

=============================================================================
