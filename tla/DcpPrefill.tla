------------------------------ MODULE DcpPrefill ------------------------------
(***************************************************************************)
(* The prefill path of the sparse indexer under decode context parallelism,*)
(* as patched by 8node-nvfp4/glm52-dcp-patches.sh (step C).                *)
(*                                                                         *)
(* A forward pass works through a list of chunks.  For a chunk, each rank  *)
(* gathers the keys of its shard into a staging buffer, the ranks exchange *)
(* them in two ragged collectives (quantized keys, then scales), and each  *)
(* rank reassembles the keys of the chunk's requests in GLOBAL order, over *)
(* which it scores and selects; a chunk that is the continuation of one    *)
(* reuses the keys that are already there.                                 *)
(*                                                                         *)
(* The staging buffer and the buffer of reassembled keys are two slicings  *)
(* of the same workspace arena, so they overlap.  The arena is modelled    *)
(* unit by unit: a quantized key takes QuantUnits units, a scale one.      *)
(***************************************************************************)
EXTENDS DcpShards, Sums, Sequences, SequencesExt

CONSTANTS TopK,        \* topk_tokens
          MaxReqs,     \* bound on the requests of a forward pass
          MaxLen,      \* bound on the length of a request (max_model_len)
          Capacity,    \* total_seq_lens: key rows the workspace is sized for
          QuantUnits,  \* arena units of a quantized key
          ScoreTables, \* the scores a forward pass may give to the keys
          StaleScore   \* what scoring anything but a key of the pass yields

LocalCapacity == (Capacity + N - 1) \div N

Pos == 0 .. MaxLen - 1

\* The workspace is sized for 40 requests of max_model_len, the engine runs a few.
ASSUME PrefillAssumption ==
  /\ {TopK, MaxReqs, MaxLen, Capacity, QuantUnits} \subseteq Nat \ {0}
  /\ MaxReqs * MaxLen <= Capacity
  /\ MaxReqs * ((MaxLen + N - 1) \div N) <= LocalCapacity
  /\ ScoreTables \subseteq [1 .. MaxReqs -> [Pos -> Int]]
  /\ StaleScore \in Int

VARIABLES
  ties,    \* how the kernel top_k_per_row_prefill breaks ties: "any" or "lowest"
  phase,   \* of the pass: "ready", "running" or "attended"
  ctx,     \* per request, the positions computed by earlier passes
  len,     \* per request, its length: compressed_seq_lens
  chunks,  \* prefill_metadata.chunks
  score,   \* of each request's keys
  pc,      \* where each rank is in the loop
  ci,      \* the chunk each rank is at
  held,    \* per rank and request, how many positions its shard has keys for
  arena,   \* the workspace of each rank
  kqAll,   \* result of the last all_gatherv of quantized keys
  ksAll,   \* result of the last all_gatherv of scales
  topk,    \* per rank and row, topk_indices after the owned mask: local column per entry
  out      \* per rank and row, the key the attention read for each entry

vars == <<ties, phase, ctx, len, chunks, score, pc, ci, held, arena, kqAll, ksAll, topk, out>>

Keys  == (1 .. MaxReqs) \X Pos     \* the key of request q at position p
Dead  == <<0, 0>>                  \* anything else
Units == 0 .. (QuantUnits + 1) * Capacity - 1

-----------------------------------------------------------------------------
(* Chunks.  A chunk covers requests lo..hi and, of their query rows taken  *)
(* one after the other, those in (from, to]; skip is chunk.skip_kv_gather. *)

\* The rows of requests lo..hi: <<request, position of the query token>>.
QueryRows(lo, hi) ==
  FlattenSeq([k \in 1 .. hi - lo + 1 |->
    [i \in 1 .. len[lo + k - 1] - ctx[lo + k - 1] |-> <<lo + k - 1, ctx[lo + k - 1] + i - 1>>]])

ChunkRows(ch) == SubSeq(QueryRows(ch.lo, ch.hi), ch.from + 1, ch.to)

\* The m rows of requests lo..hi in one slice, or in two of which the second reuses the
\* keys of the first.
Slices(lo, hi, m) ==
  LET whole == [lo |-> lo, hi |-> hi, from |-> 0, to |-> m, skip |-> FALSE]
  IN  {<<whole>>} \cup
      { <<[whole EXCEPT !.to = cut], [whole EXCEPT !.from = cut, !.skip = TRUE]>> :
        cut \in 1 .. m - 1 }

\* How the metadata builder may split a batch of n requests with lengths l and
\* contexts c: into groups of consecutive requests, a group's rows into slices.
Plans(n, c, l) ==
  LET rows == [q \in 1 .. n |-> l[q] - c[q]]
      upTo[k \in 0 .. n] ==
        IF k = 0 THEN {<<>>}
        ELSE UNION { { plan \o group : plan \in upTo[lo - 1],
                                       group \in Slices(lo, k, SumOver(rows, lo, k)) } :
                     lo \in 1 .. k }
  IN  upTo[n]

-----------------------------------------------------------------------------
(* Metadata of a chunk, the same on every rank.                            *)

\* dcp_local_seq_lens_allranks[r][q]
LocalLen(r, q) == OwnedCount(len[q], r)

\* dcp_local_total_seq_lens of rank r; _sizes[r] on every rank.
LocalTotal(ch, r) == SumOver([q \in DOMAIN len |-> LocalLen(r, q)], ch.lo, ch.hi)

\* Mutant: the sizes are computed for the first chunk and cached (PERF#1).
SizesCached(ch) == [r \in Ranks |-> LocalTotal(chunks[1], r)]

\* Mutant: every rank is taken to bring as many rows as the first.
SizesUniform(ch) == [r \in Ranks |-> LocalTotal(ch, 0)]

Sizes(ch) == [r \in Ranks |-> LocalTotal(ch, r)]

\* Where rank o's rows start in the rank-major concatenation, and where those of
\* request q start among them.
RankBase(ch, o)  == SumOver([s \in Ranks |-> LocalTotal(ch, s)], 0, o - 1)
ReqOff(ch, o, q) == SumOver([k \in DOMAIN len |-> LocalLen(o, k)], ch.lo, q - 1)

\* Mutant: the requests of a rank before q are forgotten.
GatheredRowNoReqOff(ch, q, p) == RankBase(ch, Owner(p)) + LocalIndex(p) + 1

\* The row of the concatenation that holds position p of request q.
GatheredRow(ch, q, p) ==
  RankBase(ch, Owner(p)) + ReqOff(ch, Owner(p), q) + LocalIndex(p) + 1

\* _glm52c_reasm_idx: for each GLOBAL key row of the chunk, its row in the
\* concatenation.
ReasmIdx(ch) ==
  LET glen(q) == SumOver([s \in Ranks |-> LocalLen(s, q)], 0, N - 1)
  IN  FlattenSeq([k \in 1 .. ch.hi - ch.lo + 1 |->
        [g \in 1 .. glen(ch.lo + k - 1) |-> GatheredRow(ch, ch.lo + k - 1, g - 1)]])

\* Mutant: the query rows index the keys of the chunk, not of their request.
RowStartOfChunk(ch, q) == 0

\* chunk.total_seq_lens, and where the rows of request q start.
Total(ch)       == SumOver(len, ch.lo, ch.hi)
RowStart(ch, q) == SumOver(len, ch.lo, q - 1)

-----------------------------------------------------------------------------
(* The arena.  Slicing it for `cap` rows lays the quantized keys out from  *)
(* unit 0 and the scales after them.                                       *)

PutQuant(a, rows) ==
  [u \in Units |-> IF u < QuantUnits * Len(rows)
                     THEN <<"quant", rows[(u \div QuantUnits) + 1]>> ELSE a[u]]

PutScale(a, cap, rows) ==
  LET base == QuantUnits * cap
  IN  [u \in Units |-> IF u \in base .. base + Len(rows) - 1
                         THEN <<"scale", rows[u - base + 1]>> ELSE a[u]]

\* A row whose units do not all belong to one key reads as Dead.
GetQuant(a, n) ==
  [i \in 1 .. n |->
    LET base == QuantUnits * (i - 1)
    IN  IF a[base][1] = "quant" /\ \A u \in base .. base + QuantUnits - 1 : a[u] = a[base]
          THEN a[base][2] ELSE Dead]

GetScale(a, cap, n) ==
  [i \in 1 .. n |->
    LET x == a[QuantUnits * cap + i - 1] IN IF x[1] = "scale" THEN x[2] ELSE Dead]

-----------------------------------------------------------------------------
Nowhere == [u \in Units |-> <<"none", Dead>>]
NoRows  == [q \in 1 .. MaxReqs |-> [p \in Pos |-> <<>>]]

Init ==
  /\ ties \in {"any", "lowest"}
  /\ phase = "ready"
  /\ ctx = <<>> /\ len = <<>> /\ chunks = <<>>
  /\ score \in ScoreTables
  /\ pc = [r \in Ranks |-> "idle"]
  /\ ci = [r \in Ranks |-> 0]
  /\ held = [r \in Ranks |-> [q \in 1 .. MaxReqs |-> 0]]
  /\ arena = [r \in Ranks |-> Nowhere]
  /\ kqAll = <<>> /\ ksAll = <<>>
  /\ topk = [r \in Ranks |-> NoRows]
  /\ out = [r \in Ranks |-> NoRows]

\* The scheduler issues a batch of requests, with some prefix computed already.
\* What earlier passes left in the workspace is of no request of this one.
Issue ==
  /\ phase = "ready"
  /\ \E n \in 1 .. MaxReqs : \E c \in [1 .. n -> Pos], l \in [1 .. n -> 1 .. MaxLen] :
       /\ \A q \in 1 .. n : c[q] < l[q]
       /\ ctx' = c
       /\ len' = l
       /\ chunks' \in Plans(n, c, l)
       /\ held' = [r \in Ranks |-> [q \in 1 .. MaxReqs |-> IF q <= n THEN c[q] ELSE 0]]
  /\ score' \in ScoreTables
  /\ phase' = "running"
  /\ pc' = [r \in Ranks |-> "insert"]
  /\ ci' = [r \in Ranks |-> 1]
  /\ UNCHANGED <<ties, arena, kqAll, ksAll, topk, out>>

At(r, label) == phase = "running" /\ pc[r] = label

Goto(r, label) == pc' = [pc EXCEPT ![r] = label]

\* The new keys of the batch enter the shard before the first chunk.
InsertKeys(r) ==
  /\ At(r, "insert")
  /\ held' = [held EXCEPT ![r] = [q \in 1 .. MaxReqs |-> IF q <= Len(len) THEN len[q] ELSE 0]]
  /\ Goto(r, "chunk")
  /\ UNCHANGED <<ties, phase, ctx, len, chunks, score, ci, arena, kqAll, ksAll, topk, out>>

\* The key in column c of request q's blocks on rank r.
Shard(r, q, c) == IF GlobalPos(r, c) < held[r][q] THEN <<q, GlobalPos(r, c)>> ELSE Dead

\* cp_gather_indexer_k_quant_cache with dcp_local_cu_seq_lens.
ShardRows(r, ch) ==
  FlattenSeq([k \in 1 .. ch.hi - ch.lo + 1 |->
    [c \in 1 .. LocalLen(r, ch.lo + k - 1) |-> Shard(r, ch.lo + k - 1, c - 1)]])

\* A chunk that brings its own keys: the rank gathers its shard into the staging
\* buffer.
GatherShard(r) ==
  /\ At(r, "chunk")
  /\ ~chunks[ci[r]].skip
  /\ LET rows == ShardRows(r, chunks[ci[r]])
     IN  arena' = [arena EXCEPT ![r] = PutScale(PutQuant(@, rows), LocalCapacity, rows)]
  /\ Goto(r, "gather_quant")
  /\ UNCHANGED <<ties, phase, ctx, len, chunks, score, ci, held, kqAll, ksAll, topk, out>>

\* skip_kv_gather: the keys of the previous chunk serve, and no collective runs.
ReuseKeys(r) ==
  /\ At(r, "chunk")
  /\ chunks[ci[r]].skip
  /\ Goto(r, "logits")
  /\ UNCHANGED <<ties, phase, ctx, len, chunks, score, ci, held, arena, kqAll, ksAll, topk, out>>

\* An all_gatherv returns when every rank has called it and brings as many rows as
\* the others expect of it; otherwise the ranks wait for ever.
Agreed ==
  \A r, s \in Ranks :
    LET mine == LocalTotal(chunks[ci[r]], r)
    IN  mine <= LocalCapacity /\ mine = Sizes(chunks[ci[s]])[r]

RankMajor(part(_)) == FlattenSeq([k \in 1 .. N |-> part(k - 1)])

AllGathervQuant ==
  /\ \A r \in Ranks : At(r, "gather_quant")
  /\ Agreed
  /\ kqAll' = RankMajor(LAMBDA r : GetQuant(arena[r], LocalTotal(chunks[ci[r]], r)))
  /\ pc' = [r \in Ranks |-> "gather_scale"]
  /\ UNCHANGED <<ties, phase, ctx, len, chunks, score, ci, held, arena, ksAll, topk, out>>

AllGathervScale ==
  /\ \A r \in Ranks : At(r, "gather_scale")
  /\ Agreed
  /\ ksAll' = RankMajor(LAMBDA r : GetScale(arena[r], LocalCapacity, LocalTotal(chunks[ci[r]], r)))
  /\ pc' = [r \in Ranks |-> "reassemble"]
  /\ UNCHANGED <<ties, phase, ctx, len, chunks, score, ci, held, arena, kqAll, topk, out>>

\* index_select(.., out=k_quant) and (.., out=k_scale): the keys in GLOBAL order.
Reassemble(r) ==
  /\ At(r, "reassemble")
  /\ LET idx == ReasmIdx(chunks[ci[r]])
         pick(rows) == [g \in 1 .. Len(idx) |-> rows[idx[g]]]
     IN  arena' = [arena EXCEPT ![r] = PutScale(PutQuant(@, pick(kqAll)), Capacity, pick(ksAll))]
  /\ Goto(r, "logits")
  /\ UNCHANGED <<ties, phase, ctx, len, chunks, score, ci, held, kqAll, ksAll, topk, out>>

\* The score a rank gives to a key row: the key's, if key and scale are of one key.
RowScore(quant, scale) ==
  IF quant = scale /\ quant # Dead THEN score[quant[1]][quant[2]] ELSE StaleScore

\* The answers top_k_per_row_prefill may give for a query token at position p of a
\* request whose key rows start after `base`: a selection of the rows cu_seqlen_ks ..
\* cu_seqlen_ke, relative to the request.  Its tie-break is not documented: it is one
\* thing or the other for good, and "any" allows every choice, on every rank its own.
KernelTopK(quant, scale, base, p) ==
  LET seen(S) == { <<i, RowScore(quant[base + i + 1], scale[base + i + 1])>> : i \in S }
  IN  { S \in SUBSET (0 .. p) :
          IF ties = "lowest" THEN IsStrictTopK(seen(S), seen(0 .. p), TopK)
                             ELSE IsTopK(seen(S), seen(0 .. p), TopK) }

\* One answer for each row of a launch, out of those the row may get.
Answers(may) ==
  LET tied    == { x \in DOMAIN may : Cardinality(may[x]) > 1 }
      choices == { f \in [tied -> UNION { may[x] : x \in tied }] :
                     \A x \in tied : f[x] \in may[x] }
  IN  { [x \in DOMAIN may |-> IF x \in tied THEN f[x] ELSE CHOOSE S \in may[x] : TRUE] :
        f \in choices }

\* Mutant: every selected position is localized, whoever owns it.
OwnedMaskAll(S, r) == [x \in S |-> LocalIndex(x)]

\* The owned mask: of the positions S it selected, rank r keeps those it owns, each
\* rewritten to the local column; every other entry of topk_indices is -1.
OwnedMask(S, r) == [x \in { y \in S : Owner(y) = r /\ y >= 0 } |-> LocalIndex(x)]

\* Mutant: the loop runs once too often.
NextChunkPastEnd(r) ==
  IF ci[r] <= Len(chunks)
    THEN ci' = [ci EXCEPT ![r] = @ + 1] /\ Goto(r, "chunk")
    ELSE UNCHANGED ci /\ Goto(r, "attend")

NextChunk(r) ==
  IF ci[r] < Len(chunks)
    THEN ci' = [ci EXCEPT ![r] = @ + 1] /\ Goto(r, "chunk")
    ELSE UNCHANGED ci /\ Goto(r, "attend")

\* Logits, top-k and the owned mask of a chunk, then on to the next one.
ScoreChunk(r) ==
  /\ At(r, "logits")
  /\ LET ch    == chunks[ci[r]]
         quant == GetQuant(arena[r], Total(ch))
         scale == GetScale(arena[r], Capacity, Total(ch))
         rows  == Range(ChunkRows(ch))
         may   == [x \in rows |-> KernelTopK(quant, scale, RowStart(ch, x[1]), x[2])]
     IN  \E sel \in Answers(may) :
           topk' = [topk EXCEPT ![r] = [q \in 1 .. MaxReqs |-> [p \in Pos |->
                     IF <<q, p>> \in rows THEN OwnedMask(sel[<<q, p>>], r) ELSE @[q][p]]]]
  /\ NextChunk(r)
  /\ UNCHANGED <<ties, phase, ctx, len, chunks, score, held, arena, kqAll, ksAll, out>>

\* What the sparse attention of rank r reads for the query token at position p of
\* request q.
Reads(r, q, p) == [x \in DOMAIN topk[r][q][p] |-> Shard(r, q, topk[r][q][p][x])]

\* The ranks attend to what they are left with and combine the partial results.
Attend ==
  /\ \A r \in Ranks : At(r, "attend")
  /\ out' = [r \in Ranks |-> [q \in 1 .. MaxReqs |-> [p \in Pos |-> Reads(r, q, p)]]]
  /\ phase' = "attended"
  /\ UNCHANGED <<ties, ctx, len, chunks, score, pc, ci, held, arena, kqAll, ksAll, topk>>

\* The pass is over; its keys in the workspaces are no longer anybody's.
Finish ==
  /\ phase = "attended"
  /\ phase' = "ready"
  /\ ctx' = <<>> /\ len' = <<>> /\ chunks' = <<>>
  /\ pc' = [r \in Ranks |-> "idle"]
  /\ ci' = [r \in Ranks |-> 0]
  /\ held' = [r \in Ranks |-> [q \in 1 .. MaxReqs |-> 0]]
  /\ arena' = [r \in Ranks |-> Nowhere]
  /\ kqAll' = <<>> /\ ksAll' = <<>>
  /\ topk' = [r \in Ranks |-> NoRows]
  /\ out' = [r \in Ranks |-> NoRows]
  /\ UNCHANGED <<ties, score>>

RankStep(r) ==
  InsertKeys(r) \/ GatherShard(r) \/ ReuseKeys(r) \/ Reassemble(r) \/ ScoreChunk(r)

Collective == AllGathervQuant \/ AllGathervScale \/ Attend

Next == Issue \/ Finish \/ Collective \/ \E r \in Ranks : RankStep(r)

Labels == {"chunk", "gather_quant", "gather_scale", "reassemble", "logits", "attend"}

\* Fairness is stated on the program counters: a step that takes a rank, or all of
\* them, off one of these labels is a RankStep, or a Collective, and nothing else is.
RankMoves(r) ==
  /\ At(r, "insert") \/ At(r, "chunk") \/ At(r, "reassemble") \/ At(r, "logits")
  /\ \E l \in Labels : pc' = [pc EXCEPT ![r] = l]

GatherReturns ==
  /\ \/ \A r \in Ranks : At(r, "gather_quant")
     \/ \A r \in Ranks : At(r, "gather_scale")
  /\ Agreed
  /\ \E l \in Labels : pc' = [r \in Ranks |-> l]

AttentionReturns == (\A r \in Ranks : At(r, "attend")) /\ phase' = "attended"

\* Each rank's process keeps running, and a collective the ranks agree on returns.
Fairness ==
  /\ \A r \in Ranks : WF_pc(RankMoves(r))
  /\ WF_pc(GatherReturns)
  /\ WF_phase(AttentionReturns)

Spec == Init /\ [][Next]_vars /\ Fairness

-----------------------------------------------------------------------------
(* Properties.                                                             *)

PCs == {"idle", "insert", "chunk", "gather_quant", "gather_scale", "reassemble",
        "logits", "attend"}

\* f maps some positions to members of T.
IsOfPos(f, T) == DOMAIN f \subseteq Pos /\ f \in [DOMAIN f -> T]

\* Every variable has its type.
TypeOK ==
  /\ ties \in {"any", "lowest"}
  /\ phase \in {"ready", "running", "attended"}
  /\ \A q \in DOMAIN len : ctx[q] \in Pos /\ len[q] \in 1 .. MaxLen
  /\ \A k \in DOMAIN chunks :
       /\ chunks[k].lo \in DOMAIN len /\ chunks[k].hi \in DOMAIN len
       /\ chunks[k].from \in Nat /\ chunks[k].to \in Nat /\ chunks[k].skip \in BOOLEAN
  /\ score \in ScoreTables
  /\ pc \in [Ranks -> PCs]
  /\ ci \in [Ranks -> 0 .. Len(chunks)]
  /\ held \in [Ranks -> [1 .. MaxReqs -> 0 .. MaxLen]]
  /\ arena \in [Ranks -> [Units -> {"none", "quant", "scale"} \X (Keys \cup {Dead})]]
  /\ kqAll \in Seq(Keys \cup {Dead})
  /\ ksAll \in Seq(Keys \cup {Dead})
  /\ \A r \in Ranks, q \in 1 .. MaxReqs, p \in Pos :
       IsOfPos(topk[r][q][p], Nat) /\ IsOfPos(out[r][q][p], Keys \cup {Dead})

\* The keys of the requests of a chunk, in GLOBAL order.
GlobalKeys(ch) ==
  FlattenSeq([k \in 1 .. ch.hi - ch.lo + 1 |->
    [i \in 1 .. len[ch.lo + k - 1] |-> <<ch.lo + k - 1, i - 1>>]])

\* When a rank scores a chunk, its workspace holds every key of the chunk's requests
\* and its scale, in GLOBAL order, whether it gathered them or reuses them and
\* although the staging buffer overlaps them.
KeysInOrder ==
  \A r \in Ranks : At(r, "logits") =>
    LET ch == chunks[ci[r]]
    IN  /\ GetQuant(arena[r], Total(ch)) = GlobalKeys(ch)
        /\ GetScale(arena[r], Capacity, Total(ch)) = GlobalKeys(ch)

\* The ranks that exchange keys exchange those of the same chunk, and the staging
\* buffers hold them.
CollectivesMatch ==
  (\A r \in Ranks : At(r, "gather_quant") \/ At(r, "gather_scale")) =>
    Agreed /\ \A r, s \in Ranks : ci[r] = ci[s] /\ pc[r] = pc[s]

KeyPairs(q, S) == { <<p, score[q][p]>> : p \in S }

\* The keys the ranks together read for a row.
Seen(q, p) == UNION { { out[r][q][p][x] : x \in DOMAIN out[r][q][p] } : r \in Ranks }

\* Whatever ties the kernel breaks in what way on each rank, the attention of a new
\* token reads keys of positions it sees, each once; among them every position with no
\* more than TopK scoring as well as it, and none with TopK scoring better.
PrefillUpToTies ==
  phase = "attended" =>
    \A q \in DOMAIN len : \A p \in ctx[q] .. len[q] - 1 :
      /\ Seen(q, p) \subseteq {q} \X (0 .. p)
      /\ \A r, s \in Ranks : \A x \in DOMAIN out[r][q][p], y \in DOMAIN out[s][q][p] :
           out[r][q][p][x] = out[s][q][p][y] => r = s /\ x = y
      /\ \A x \in 0 .. p :
           /\ Cardinality({ y \in 0 .. p : score[q][y] >= score[q][x] }) <= TopK =>
                <<q, x>> \in Seen(q, p)
           /\ <<q, x>> \in Seen(q, p) =>
                Cardinality({ y \in 0 .. p : score[q][y] > score[q][x] }) < TopK

\* When the kernel breaks ties by position, each new token attends to exactly the TopK
\* best of the positions it sees.
PrefillExact ==
  ties = "lowest" /\ phase = "attended" =>
    \A q \in DOMAIN len : \A p \in ctx[q] .. len[q] - 1 :
      IsStrictTopK(KeyPairs(q, { k[2] : k \in Seen(q, p) }), KeyPairs(q, 0 .. p), TopK)

\* A forward pass completes: no rank waits for ever in a collective.
PrefillCompletes == phase = "running" ~> phase = "attended"

=============================================================================
