------------------------------- MODULE SparseMla -------------------------------
(***************************************************************************)
(* The sparse MLA attention kernels (kernels/sparse_mla_kernels.py) and    *)
(* the two entry points of the GLM backend that are built from them        *)
(* (kernels/sm12x_sparse_mla_attn.py).                                     *)
(*                                                                         *)
(* The attention of one token and one head goes through a sequence of      *)
(* kernel launches that share the buffers max_score, denom and acc; tokens *)
(* and heads share nothing, whether a program has one head or a block of   *)
(* them.  An iteration of a kernel's candidate loop is a step; a kernel    *)
(* without a loop, or whose loop is a parallel reduction, is one.          *)
(*                                                                         *)
(* The candidates come as two subsets: the shards of two DCP ranks, or the *)
(* compressed and the sliding-window (SWA) keys of one token.              *)
(***************************************************************************)
EXTENDS SoftmaxSums, FiniteSets

CONSTANTS K,               \* columns of a candidate tensor
          Scores,          \* scores a candidate may have
          Sinks            \* finite values of attn_sink

ASSUME SparseMlaAssumption ==
  /\ K \in Nat \ {0}
  /\ Scores \subseteq Int /\ Sinks \subseteq Int

Subsets == {0, 1}
Cols    == 0 .. K - 1
Terms   == Subsets \X Cols
Indices == {"row", "sentinel", "beyond"}   \* a KV row, -1, or >= the number of rows

DcpPlans   == {"bf16", "fused", "materialized"}
StatePlans == {"two_states", "two_subsets", "one_subset"}
SinkPlans  == {"paged_sink", "global_paged_sink", "scores"}
SplitPlans == {"split", "chunked"}
InPieces   == StatePlans \cup {"fused", "scores", "chunked"}
Plans      == DcpPlans \cup StatePlans \cup SinkPlans \cup SplitPlans

VARIABLES
  plan,    \* the pipeline under way
  parts,   \* number of subsets it works on
  index,   \* per subset and column, what the index or slot id refers to
  score,   \* likewise, q . kv * scale of what is there
  lens,    \* valid length of each subset
  sink,    \* attn_sink, NegInf where there is none
  chunk,   \* columns per launch, or per tile of a kernel that works by tiles
  pc,      \* "idle", "mask", "matmul", "launch", "loop", "subset", "merge" or "done"
  part,    \* subset being worked on
  kernel,  \* kernel that runs
  offset,  \* its candidate_offset
  width,   \* its num_candidates
  at,      \* its candidate_idx
  mask,    \* valid_tokens: the candidates marked valid
  logits,  \* score buffer of the split kernels
  st,      \* buffers of each subset; those of a chunk are st[2]
  sub,     \* output and log-sum-exp of each subset
  out      \* output

inputs == <<plan, parts, index, score, lens, sink, chunk>>
cursor == <<part, kernel, offset, width, at>>
vars   == <<inputs, pc, cursor, mask, logits, st, sub, out>>

MinOf(a, b) == IF a <= b THEN a ELSE b

IsRow(t)       == index[t[1]][t[2]] = "row"
NotSentinel(t) == index[t[1]][t[2]] # "sentinel"

Rows(A)        == { t \in A : IsRow(t) }

\* An invalid index loads a zero row, whose score is 0.
ScoreOf(t) == IF t = Sink THEN sink ELSE IF IsRow(t) THEN score[t[1]][t[2]] ELSE 0

-----------------------------------------------------------------------------
NoResult == [out |-> Zero, lse |-> [max |-> NegInf, den |-> Nothing]]

Init ==
  /\ plan = "bf16" /\ parts = 1
  /\ index = [p \in Subsets |-> [c \in Cols |-> "sentinel"]]
  /\ score = [p \in Subsets |-> [c \in Cols |-> 0]]
  /\ lens = [p \in Subsets |-> 0]
  /\ sink = NegInf /\ chunk = K
  /\ pc = "idle"
  /\ part = 0 /\ kernel = "none" /\ offset = 0 /\ width = 0 /\ at = 0
  /\ mask = {}
  /\ logits = [c \in Cols |-> 0]
  /\ st = [b \in 0 .. 2 |-> Fresh]
  /\ sub = [p \in Subsets |-> NoResult]
  /\ out = Zero

\* A call of pipeline p with n subsets; what the columns of a subset may refer to
\* depends on who fills them.
Call(p, n, refers, sinks, first) ==
  /\ pc = "idle"
  /\ plan' = p /\ parts' = n
  /\ index' \in { i \in [Subsets -> [Cols -> Indices]] :
                    \A s \in Subsets, c \in Cols :
                      i[s][c] \in (IF s < n THEN refers[s] ELSE {"sentinel"}) }
  /\ score' \in [Subsets -> [Cols -> Scores]]
  /\ lens' \in { l \in [Subsets -> 0 .. K] : \A s \in Subsets : s >= n => l[s] = 0 }
  /\ sink' \in sinks
  /\ chunk' \in (IF p \in InPieces THEN 1 .. K ELSE {K})
  /\ pc' = first
  /\ part' = 0 /\ offset' = 0 /\ at' = 0 /\ kernel' = "none" /\ width' = 0
  /\ mask' = {}
  /\ st' = [b \in 0 .. 2 |-> Fresh]
  /\ sub' = [s \in Subsets |-> NoResult]
  /\ out' = Zero
  /\ UNCHANGED logits

Compressed == {"row", "sentinel"}
Everything == [s \in Subsets |-> Indices]
CompressedThenWindow == [s \in Subsets |-> IF s = 0 THEN Compressed ELSE {"row"}]
OnlyWindow == [s \in Subsets |-> {"row"}]

\* Under DCP every rank attends to its own shard and none has a sink; a token sees
\* at least itself, on one of the ranks.
DcpCall(p, first) ==
  \/ Call(p, 1, Everything, Sinks \cup {NegInf}, first)
  \/ /\ Call(p, 2, Everything, {NegInf}, first)
     /\ \E s \in Subsets, c \in Cols : index'[s][c] = "row" /\ c < lens'[s]

flash_mla_sparse_fwd_triton == DcpCall("bf16", "launch")

flash_mla_with_kvcache_triton ==
  DcpCall("fused", "launch") \/ DcpCall("materialized", "mask")

\* The pipelines of the DeepSeek-V4 backend, which lives outside this repository:
\* two_states, two_subsets and one_subset accumulate in chunks, the others launch
\* once.
V4Call ==
  \/ Call("two_states", 2, CompressedThenWindow, Sinks \cup {NegInf}, "launch")
  \/ Call("two_subsets", 2, CompressedThenWindow, Sinks, "launch")
  \/ Call("one_subset", 1, CompressedThenWindow, Sinks, "launch")
  \/ Call("paged_sink", 1, OnlyWindow, Sinks \cup {NegInf}, "launch")
  \/ Call("global_paged_sink", 2, CompressedThenWindow, Sinks \cup {NegInf}, "launch")
  \/ Call("scores", 2, CompressedThenWindow, Sinks, "mask")
  \/ \E p \in SplitPlans : Call(p, 1, Everything, Sinks, "launch")

-----------------------------------------------------------------------------
(* Launches: the wrappers.                                                 *)

Launch(k, w) ==
  /\ pc = "launch"
  /\ kernel' = k /\ width' = w /\ at' = 0
  /\ pc' = "loop"
  /\ UNCHANGED <<inputs, part, offset, mask, logits, sub, out>>

\* Columns of the next launch of a caller that works in pieces.
Piece == MinOf(chunk, K - offset)

\* num_heads >= _PREFILL_INDEXED_HEAD_BLOCK decides; all candidates at once.
accumulate_indexed_sparse_mla_attention_chunk ==
  /\ plan = "bf16"
  /\ \E k \in {"indexed", "indexed_multihead"} : Launch(k, K)
  /\ UNCHANGED st

fused_gather_dequant_attend ==
  /\ plan = "fused"
  /\ Launch("fused", K)
  /\ UNCHANGED st

materialized_indexed_accumulate ==
  /\ plan = "materialized"
  /\ Launch("materialized", K)
  /\ UNCHANGED st

\* Without slot ids every gathered row counts.
accumulate_gathered_sparse_mla_attention_chunk ==
  /\ plan \in StatePlans /\ part = 0
  /\ \/ Launch("gathered_slots", Piece)
     \/ (\A c \in Cols : index[0][c] = "row") /\ Launch("gathered", Piece)
  /\ UNCHANGED st

accumulate_fp8ds_global_slots_sparse_mla_attention_chunk ==
  /\ plan \in StatePlans /\ part = 0
  /\ Launch("slots", Piece)
  /\ UNCHANGED st

accumulate_fp8ds_global_slots_sparse_mla_attention_chunk_multihead ==
  /\ plan \in StatePlans /\ part = 0
  /\ Launch("slots_multihead", Piece)
  /\ UNCHANGED st

accumulate_fp8ds_paged_sparse_mla_attention_chunk ==
  /\ plan \in StatePlans /\ part = 1
  /\ Launch("paged", Piece)
  /\ UNCHANGED st

accumulate_fp8ds_paged_sparse_mla_attention_chunk_multihead ==
  /\ plan \in StatePlans /\ part = 1
  /\ Launch("paged_multihead", Piece)
  /\ UNCHANGED st

fp8ds_paged_sparse_mla_attention_with_sink_multihead ==
  /\ plan = "paged_sink"
  /\ Launch("paged_sink", K)
  /\ UNCHANGED st

fp8ds_global_paged_sparse_mla_attention_with_sink_multihead ==
  /\ plan = "global_paged_sink"
  /\ Launch("global_paged_sink", K)
  /\ UNCHANGED st

\* value_block_size and candidate_block_size decide which of the three kernels runs.
\* All start from the sink, and take the candidates of both subsets in one go.
finish_materialized_sparse_mla_scores_with_sink ==
  /\ plan = "scores"
  /\ \E k \in {"scores_heads", "scores_values", "scores_max"} : Launch(k, 2 * K)
  /\ st' = [st EXCEPT ![0] = FromSink(sink)]

accumulate_indexed_d512_split_sparse_mla_attention ==
  /\ plan = "split"
  /\ Launch("split_score", K)
  /\ UNCHANGED st

\* Each chunk goes through the split kernels into buffers of its own.
accumulate_indexed_d512_chunked_sparse_mla_attention ==
  /\ plan = "chunked"
  /\ Launch("split_score", Piece)
  /\ UNCHANGED st

Wrapper ==
  \/ accumulate_indexed_sparse_mla_attention_chunk
  \/ fused_gather_dequant_attend
  \/ materialized_indexed_accumulate
  \/ accumulate_gathered_sparse_mla_attention_chunk
  \/ accumulate_fp8ds_global_slots_sparse_mla_attention_chunk
  \/ accumulate_fp8ds_global_slots_sparse_mla_attention_chunk_multihead
  \/ accumulate_fp8ds_paged_sparse_mla_attention_chunk
  \/ accumulate_fp8ds_paged_sparse_mla_attention_chunk_multihead
  \/ fp8ds_paged_sparse_mla_attention_with_sink_multihead
  \/ fp8ds_global_paged_sparse_mla_attention_with_sink_multihead
  \/ finish_materialized_sparse_mla_scores_with_sink
  \/ accumulate_indexed_d512_split_sparse_mla_attention
  \/ accumulate_indexed_d512_chunked_sparse_mla_attention

-----------------------------------------------------------------------------
(* Validity masks.                                                         *)

\* Gathers and dequantizes the rows of the subset, zero where invalid; topk_length
\* then caps the mask, as flash_mla_with_kvcache_triton does next.
gather_dequant_fp8ds ==
  /\ pc = "mask" /\ plan = "materialized"
  /\ mask' = { t \in Terms : t[1] = part /\ index[part][t[2]] = "row" /\ t[2] < lens[part] }
  /\ pc' = "launch"
  /\ UNCHANGED <<inputs, cursor, logits, st, sub, out>>

\* _build_combined_decode_valid_mask_kernel: [compressed | SWA]
CombinedMask ==
  { t \in Terms : IF t[1] = 0 THEN index[0][t[2]] = "row" /\ t[2] < lens[0]
                             ELSE t[2] < lens[1] }

build_combined_sparse_mla_decode_valid_mask ==
  /\ pc = "mask" /\ plan = "scores"
  /\ mask' = CombinedMask
  /\ pc' = "matmul"
  /\ UNCHANGED <<inputs, cursor, logits, st, sub, out>>

\* The scores of all candidates, valid or not, by one matrix product.
matmul_sparse_mla_attention_with_sink ==
  /\ pc = "matmul"
  /\ pc' = "launch"
  /\ UNCHANGED <<inputs, cursor, mask, logits, st, sub, out>>

-----------------------------------------------------------------------------
(* Kernels with a candidate loop.                                          *)

Capped == {"indexed", "indexed_multihead", "gathered", "gathered_slots", "slots",
           "slots_multihead", "paged", "paged_multihead", "paged_sink"}

\* Mutant: the offset of the chunk is forgotten.
LocalEffWhole == MinOf(width, lens[part])

\* local_eff, the early exit of a loop: lens counts from the first chunk.
LocalEff == MinOf(width, IF lens[part] <= offset THEN 0 ELSE lens[part] - offset)

Bound == IF kernel \in Capped THEN LocalEff ELSE width

\* A kernel that goes on from one subset to the other keeps the buffers.
Buffer == IF plan = "global_paged_sink" THEN 0 ELSE part

At(k) == pc = "loop" /\ kernel = k /\ at < Bound

Advance(n) ==
  /\ at' = MinOf(at + n, width)
  /\ UNCHANGED <<inputs, pc, part, kernel, offset, width, mask, logits, sub, out>>

Current == <<part, offset + at>>

\* One iteration: the candidate at hand counts if it is valid.
Iterate(k, valid) ==
  /\ At(k)
  /\ st' = IF valid THEN [st EXCEPT ![Buffer] = Online(@, Current, ScoreOf(Current))] ELSE st
  /\ Advance(1)

accumulate_indexed_attention_chunk_kernel == Iterate("indexed", IsRow(Current))

accumulate_indexed_attention_chunk_multihead_kernel ==
  Iterate("indexed_multihead", IsRow(Current))

\* HAS_SLOT_IDS or not
accumulate_gathered_attention_chunk_kernel ==
  Iterate("gathered_slots", NotSentinel(Current)) \/ Iterate("gathered", TRUE)

accumulate_fp8ds_global_slots_attention_chunk_kernel ==
  Iterate("slots", NotSentinel(Current))

accumulate_fp8ds_global_slots_attention_chunk_multihead_kernel ==
  Iterate("slots_multihead", NotSentinel(Current))

\* The window's positions, through the block table, up to gather_len of them.
accumulate_fp8ds_paged_attention_chunk_kernel == Iterate("paged", TRUE)

accumulate_fp8ds_paged_attention_chunk_multihead_kernel == Iterate("paged_multihead", TRUE)

fp8ds_paged_attention_with_sink_multihead_kernel == Iterate("paged_sink", TRUE)

\* The legacy decode path: whatever gather_dequant_fp8ds marked valid.
materialized_attn_kernel == Iterate("materialized", Current \in mask)

\* Two loops over the same buffers: compressed slots, then the window.
fp8ds_global_paged_attention_with_sink_multihead_kernel ==
  \/ /\ part = 0
     /\ Iterate("global_paged_sink", at < lens[0] /\ NotSentinel(Current))
  \/ /\ part = 1
     /\ Iterate("global_paged_sink", at < lens[1])
  \/ /\ pc = "loop" /\ kernel = "global_paged_sink" /\ part = 0 /\ at = width
     /\ part' = 1 /\ at' = 0
     /\ UNCHANGED <<inputs, pc, kernel, offset, width, mask, logits, st, sub, out>>

\* A tile of candidates at a time; one without a valid candidate leaves the
\* buffers alone even when nothing was seen before it.
fused_gather_dequant_attn_kernel ==
  /\ At("fused")
  /\ LET tile == { t \in Terms : t[1] = part /\ at <= t[2] /\ t[2] < at + chunk
                                 /\ IsRow(t) /\ t[2] < lens[part] }
         f == [t \in tile |-> ScoreOf(t)]
     IN  \E m \in {st[part].max} \cup { f[t] : t \in tile } :
           /\ Largest(m, {st[part].max} \cup { f[t] : t \in tile })
           /\ st' = [st EXCEPT ![part] = Absorb(@, f, m)]
  /\ Advance(chunk)

\* The column of a candidate in the tensor [compressed | SWA].
Flat(t) == IF t[1] = 0 THEN t[2] ELSE K + t[2]

\* Candidate by candidate, by a block of heads or a block of value columns.
ScoresLoop(k) ==
  /\ At(k)
  /\ \E t \in Terms :
       /\ Flat(t) = at
       /\ st' = IF t \in mask THEN [st EXCEPT ![0] = Online(@, t, ScoreOf(t))] ELSE st
  /\ Advance(1)

finish_materialized_scores_with_sink_kernel == ScoresLoop("scores_heads")

finish_materialized_scores_with_sink_value_block_kernel == ScoresLoop("scores_values")

\* Two passes over blocks of candidates: the maximum first, then the sums.
finish_materialized_scores_with_sink_candidate_block_kernel ==
  LET block == { t \in mask : at <= Flat(t) /\ Flat(t) < at + chunk }
      f     == [t \in block |-> ScoreOf(t)]
  IN  \/ /\ At("scores_max")
         /\ \E m \in {st[0].max} \cup { f[t] : t \in block } :
              /\ Largest(m, {st[0].max} \cup { f[t] : t \in block })
              /\ st' = [st EXCEPT ![0].max = m]
         /\ Advance(chunk)
      \/ /\ pc = "loop" /\ kernel = "scores_max" /\ at = width
         /\ st' = [st EXCEPT ![0].den = SinkWeight(sink, st[0].max)]
         /\ kernel' = "scores_sum" /\ at' = 0
         /\ UNCHANGED <<inputs, pc, part, offset, width, mask, logits, sub, out>>
      \/ /\ At("scores_sum")
         /\ st' = [st EXCEPT ![0] = Absorb(@, f, @.max)]
         /\ Advance(chunk)

-----------------------------------------------------------------------------
(* The split kernels: score, statistics and values, each over all the      *)
(* candidates of the launch in parallel.                                   *)

SplitInto == IF plan = "chunked" THEN 2 ELSE 0

\* The candidates of the launch that count (candidate_mask), with their logits.
Launched == { t \in Terms : t[1] = 0 /\ offset <= t[2] /\ t[2] < offset + LocalEff }
Logits   == [t \in Launched |-> logits[t[2] - offset]]

Goto(k) ==
  /\ kernel' = k
  /\ UNCHANGED <<inputs, pc, part, offset, width, at, mask, sub, out>>

Running(k) == pc = "loop" /\ kernel = k

\* Invalid or not, a candidate gets its score; the cells beyond the valid length keep
\* what they had.
indexed_d512_split_score_kernel ==
  /\ Running("split_score")
  /\ logits' = [c \in Cols |->
       IF c >= LocalEff THEN logits[c] ELSE ScoreOf(<<0, offset + c>>)]
  /\ UNCHANGED st
  /\ Goto("split_stats")

\* The maximum of no candidate is -inf, and its denominator 0.
indexed_d512_split_stats_kernel ==
  /\ Running("split_stats")
  /\ LET all == {NegInf} \cup { Logits[t] : t \in Launched }
     IN  \E m \in all :
           /\ Largest(m, all)
           /\ st' = [st EXCEPT ![SplitInto].max = m,
                               ![SplitInto].den = [t \in Launched |-> Logits[t] - m]]
  /\ UNCHANGED logits
  /\ Goto("split_value")

indexed_d512_split_value_kernel ==
  /\ Running("split_value")
  /\ st' = [st EXCEPT ![SplitInto].acc =
               [t \in Rows(Launched) |-> Logits[t] - st[SplitInto].max]]
  /\ UNCHANGED logits
  /\ Goto(IF plan = "chunked" THEN "merge_acc" ELSE "split_done")

\* Mutant: the chunk's maximum replaces the running one.
MergedMaxNewest == IF st[2].max = NegInf THEN st[0].max ELSE st[2].max

MergedMax == MaxOf(st[0].max, st[2].max)

\* Mutant: chunk_valid is not looked at.
MergedUnguarded(f, g) ==
  Plus(Times(f, st[0].max, MergedMax), Times(g, st[2].max, MergedMax))

\* running_valid, chunk_valid: a side that saw nothing weighs nothing.
Merged(f, g) == Plus(Guarded(f, st[0].max, MergedMax), Guarded(g, st[2].max, MergedMax))

\* The accumulators are merged while st[0] still has the old maximum.
indexed_d512_chunked_merge_acc_kernel ==
  /\ Running("merge_acc")
  /\ st' = [st EXCEPT ![0].acc = Merged(st[0].acc, st[2].acc)]
  /\ UNCHANGED logits
  /\ Goto("merge_state")

indexed_d512_chunked_merge_state_kernel ==
  /\ Running("merge_state")
  /\ st' = [st EXCEPT ![0].max = MergedMax, ![0].den = Merged(st[0].den, st[2].den)]
  /\ UNCHANGED logits
  /\ Goto("split_done")

Kernel ==
  \/ accumulate_indexed_attention_chunk_kernel
  \/ accumulate_indexed_attention_chunk_multihead_kernel
  \/ accumulate_gathered_attention_chunk_kernel
  \/ accumulate_fp8ds_global_slots_attention_chunk_kernel
  \/ accumulate_fp8ds_global_slots_attention_chunk_multihead_kernel
  \/ accumulate_fp8ds_paged_attention_chunk_kernel
  \/ accumulate_fp8ds_paged_attention_chunk_multihead_kernel
  \/ fp8ds_paged_attention_with_sink_multihead_kernel
  \/ fp8ds_global_paged_attention_with_sink_multihead_kernel
  \/ materialized_attn_kernel
  \/ fused_gather_dequant_attn_kernel
  \/ finish_materialized_scores_with_sink_kernel
  \/ finish_materialized_scores_with_sink_value_block_kernel
  \/ finish_materialized_scores_with_sink_candidate_block_kernel
  \/ indexed_d512_split_score_kernel
  \/ indexed_d512_split_stats_kernel
  \/ indexed_d512_split_value_kernel
  \/ indexed_d512_chunked_merge_acc_kernel
  \/ indexed_d512_chunked_merge_state_kernel

-----------------------------------------------------------------------------
(* The end of a launch, of a subset and of the call.                       *)

\* The kernel has stored the buffers; a caller that works in pieces goes on with
\* the next columns.
EndLaunch ==
  /\ pc = "loop"
  /\ \/ kernel \in (Capped \cup {"fused", "materialized"}) \ {"paged_sink"} /\ at = Bound
     \/ kernel = "split_done"
  /\ offset' = offset + width
  /\ pc' = IF offset + width < K THEN "launch" ELSE "subset"
  /\ UNCHANGED <<inputs, part, kernel, width, at, mask, logits, st, sub, out>>

\* On to the next subset, with fresh buffers, or to the merge.
NextSubset ==
  /\ pc = "subset"
  /\ IF part + 1 < parts
       THEN /\ part' = part + 1 /\ offset' = 0
            /\ pc' = IF plan = "materialized" THEN "mask" ELSE "launch"
       ELSE pc' = "merge" /\ UNCHANGED <<part, offset>>
  /\ UNCHANGED <<inputs, kernel, width, at, mask, logits, st, out>>

\* Mutant: a rank that saw no key of its own reports its maximum as a finite LSE.
LseOfUnguarded(s) == [max |-> IF s.den = Nothing THEN 0 ELSE s.max, den |-> s.den]

\* torch.where(denom > 0, log(denom) + safe_max, -inf)
LseOf(s) == [max |-> IF s.den = Nothing THEN NegInf ELSE s.max, den |-> s.den]

\* finish_attention_state_with_sink: without tokens and sink the output is 0.
FinishWithSink(s, x) ==
  LET tokens == s.den # Nothing
      m      == MaxOf(IF tokens THEN s.max ELSE NegInf, x)
      num    == IF tokens THEN Times(s.acc, s.max, m) ELSE Nothing
      weight == IF tokens THEN Times(s.den, s.max, m) ELSE Nothing
  IN  Out(num, Plus(weight, SinkWeight(x, m)))

\* finish_attention_state: output and log-sum-exp of one subset.
FinishState(s) ==
  IF s.den = Nothing THEN [out |-> Zero, lse |-> LseOf(s)]
                     ELSE [out |-> Out(s.acc, s.den), lse |-> LseOf(s)]

\* finish_two_attention_states_with_sink
FinishTwo(s0, s1, x) ==
  LET seen(s) == IF s.den = Nothing THEN NegInf ELSE s.max
      m       == MaxOf(MaxOf(seen(s0), seen(s1)), x)
      scaled(f, s) == IF s.den = Nothing THEN Nothing ELSE Times(f, s.max, m)
  IN  Out(Plus(scaled(s0.acc, s0), scaled(s1.acc, s1)),
          Plus(Plus(scaled(s0.den, s0), scaled(s1.den, s1)), SinkWeight(x, m)))

\* Outputs weighed by their log-sum-exp; merge_max is real, but only whether it is
\* -inf survives the division.
MergeTwo(r0, r1, x) ==
  LET m == MaxOf(MaxOf(r0.lse.max, r1.lse.max), x)
  IN  Out(Plus(Weighed(r0.out, r0.lse, m), Weighed(r1.out, r1.lse, m)),
          Plus(Plus(Times(r0.lse.den, r0.lse.max, m), Times(r1.lse.den, r1.lse.max, m)),
               SinkWeight(x, m)))

MergeSingle(r, x) ==
  LET m == MaxOf(r.lse.max, x)
  IN  Out(Weighed(r.out, r.lse, m), Plus(Times(r.lse.den, r.lse.max, m), SinkWeight(x, m)))

\* The entry points finish a subset with the sink, and report its log-sum-exp.
FinishRank ==
  /\ plan \in DcpPlans
  /\ sub' = [sub EXCEPT ![part] =
               [out |-> FinishWithSink(st[part], sink), lse |-> LseOf(st[part])]]
  /\ NextSubset

finish_gathered_sparse_mla_attention ==
  /\ plan \in {"two_subsets", "one_subset"}
  /\ sub' = [sub EXCEPT ![part] = FinishState(st[part])]
  /\ NextSubset

\* The other callers keep the buffers as they are.
KeepBuffers ==
  /\ plan \in {"two_states"} \cup SplitPlans
  /\ NextSubset
  /\ UNCHANGED sub

Deliver(o) ==
  /\ out' = o
  /\ pc' = "done"
  /\ UNCHANGED <<inputs, cursor, mask, logits, st, sub>>

\* Without DCP the rank's output is the output.
ReturnAlone == pc = "merge" /\ plan \in DcpPlans /\ parts = 1 /\ Deliver(sub[0].out)

\* cp_lse_ag_out_rs: the ranks' outputs weighed by their log-sum-exps.
CombineRanks ==
  pc = "merge" /\ plan \in DcpPlans /\ parts = 2 /\ Deliver(MergeTwo(sub[0], sub[1], NegInf))

finish_two_sparse_mla_attention_states_with_sink ==
  pc = "merge" /\ plan = "two_states" /\ Deliver(FinishTwo(st[0], st[1], sink))

merge_two_sparse_mla_subsets_with_sink ==
  pc = "merge" /\ plan = "two_subsets" /\ Deliver(MergeTwo(sub[0], sub[1], sink))

merge_sparse_mla_subset_with_sink ==
  pc = "merge" /\ plan = "one_subset" /\ Deliver(MergeSingle(sub[0], sink))

finish_sparse_mla_attention_with_sink ==
  pc = "merge" /\ plan \in SplitPlans /\ Deliver(FinishWithSink(st[0], sink))

\* The kernels that finish by themselves.
FinishInKernel ==
  /\ pc = "loop" /\ at = Bound
  /\ \/ kernel = "paged_sink" /\ Deliver(FinishWithSink(st[0], sink))
     \/ kernel = "global_paged_sink" /\ part = 1 /\ Deliver(FinishWithSink(st[0], sink))
     \/ kernel \in {"scores_heads", "scores_values", "scores_sum"}
        /\ Deliver(Out(st[0].acc, st[0].den))

\* The caller takes the output; the tensors of the call are dropped.
Return ==
  /\ pc = "done"
  /\ plan' = "bf16" /\ parts' = 1
  /\ index' = [p \in Subsets |-> [c \in Cols |-> "sentinel"]]
  /\ score' = [p \in Subsets |-> [c \in Cols |-> 0]]
  /\ lens' = [p \in Subsets |-> 0]
  /\ sink' = NegInf /\ chunk' = K
  /\ pc' = "idle"
  /\ part' = 0 /\ kernel' = "none" /\ offset' = 0 /\ width' = 0 /\ at' = 0
  /\ mask' = {}
  /\ logits' = [c \in Cols |-> 0]
  /\ st' = [b \in 0 .. 2 |-> Fresh]
  /\ sub' = [p \in Subsets |-> NoResult]
  /\ out' = Zero

Next ==
  \/ flash_mla_sparse_fwd_triton \/ flash_mla_with_kvcache_triton \/ V4Call
  \/ gather_dequant_fp8ds \/ build_combined_sparse_mla_decode_valid_mask
  \/ matmul_sparse_mla_attention_with_sink
  \/ Wrapper \/ Kernel \/ EndLaunch
  \/ FinishRank \/ finish_gathered_sparse_mla_attention \/ KeepBuffers
  \/ ReturnAlone \/ CombineRanks
  \/ finish_two_sparse_mla_attention_states_with_sink
  \/ merge_two_sparse_mla_subsets_with_sink \/ merge_sparse_mla_subset_with_sink
  \/ finish_sparse_mla_attention_with_sink \/ FinishInKernel
  \/ Return

Spec == Init /\ [][Next]_vars

-----------------------------------------------------------------------------
(* Properties.                                                             *)

Kernels ==
  Capped \cup
  {"none", "fused", "materialized", "global_paged_sink", "scores_heads", "scores_values",
   "scores_max", "scores_sum", "split_score", "split_stats", "split_value", "merge_acc",
   "merge_state", "split_done"}

AllTerms == Terms \cup {Sink}

IsSum(f) == DOMAIN f \subseteq AllTerms /\ \A t \in DOMAIN f : f[t] \in Int

IsBuffers(s) == s.max \in Int \cup {NegInf} /\ IsSum(s.den) /\ IsSum(s.acc)

\* Every variable has its type; in particular no sum holds a NaN or a term twice.
TypeOK ==
  /\ plan \in Plans /\ parts \in 1 .. 2
  /\ index \in [Subsets -> [Cols -> Indices]]
  /\ score \in [Subsets -> [Cols -> Int]]
  /\ lens \in [Subsets -> 0 .. K]
  /\ sink \in Int \cup {NegInf}
  /\ chunk \in 1 .. K
  /\ pc \in {"idle", "mask", "matmul", "launch", "loop", "subset", "merge", "done"}
  /\ part \in Subsets /\ kernel \in Kernels
  /\ offset \in 0 .. K /\ width \in 0 .. 2 * K /\ at \in 0 .. 2 * K
  /\ mask \subseteq Terms
  /\ logits \in [Cols -> Int]
  /\ \A b \in 0 .. 2 : IsBuffers(st[b])
  /\ \A p \in Subsets : IsSum(sub[p].out.num) /\ IsSum(sub[p].out.den)
  /\ IsSum(out.num) /\ IsSum(out.den)

\* The candidates attention is to be over.
Valid(t) == t[2] < lens[t[1]] /\ index[t[1]][t[2]] = "row"

SinkTerm == IF sink = NegInf THEN {} ELSE {Sink}

\* What the split kernels count besides: neither the statistics nor the value kernel
\* looks at an index before it weighs a candidate within the valid length.
Strays ==
  IF plan \in SplitPlans THEN { t \in Terms : t[2] < lens[t[1]] /\ ~IsRow(t) } ELSE {}

\* o is the softmax over the terms V, with W and the sink in the denominator: all
\* exponents are the scores less one and the same number.
IsSoftmax(o, V, W) ==
  /\ DOMAIN o.num = V
  /\ DOMAIN o.den = V \cup W \cup SinkTerm
  /\ \A t \in V : o.num[t] = o.den[t]
  /\ \A t, u \in DOMAIN o.den : o.den[t] - o.den[u] = ScoreOf(t) - ScoreOf(u)

\* Whatever pipeline runs, in whatever pieces, its output is the softmax over
\* exactly the valid candidates of both subsets, each counted once, and the sink; but
\* in that of the split kernels every invalid candidate within the valid length weighs
\* in the denominator, with score 0.
Exact == pc = "done" => IsSoftmax(out, { t \in Terms : Valid(t) }, Strays)

\* "an index is invalid when it is negative (-1 sentinel) OR >= s_kv" and "must be
\* skipped": no pipeline lets an invalid candidate weigh anything
\* (sparse_mla_kernels.py:1756-1757, 1960-1961).
SkipsInvalid ==
  pc = "done" => DOMAIN out.den \subseteq { t \in Terms : Valid(t) } \cup SinkTerm

\* A subset without a valid candidate, such as the shard of a rank that owns none of
\* the selected keys, has output 0 and log-sum-exp -inf, and only such a one.
IdleRankWeightsNothing ==
  pc = "merge" /\ plan \in DcpPlans \cup {"two_subsets", "one_subset"} =>
    \A p \in 0 .. parts - 1 :
      (sub[p].lse.max = NegInf) <=> ~ \E t \in Terms : t[1] = p /\ Valid(t)

\* No weight is ever above 1: every exponential is of a number that is not positive.
NoOverflow ==
  /\ \A b \in 0 .. 2 : \A t \in DOMAIN st[b].den : st[b].den[t] <= 0
  /\ \A b \in 0 .. 2 : \A t \in DOMAIN st[b].acc : st[b].acc[t] <= 0
  /\ \A t \in DOMAIN out.den : out.den[t] <= 0

-----------------------------------------------------------------------------
(* The inductive invariant.                                                *)

\* What the callers of a pipeline see to: indices out of range go to the kernels
\* that compare with the number of rows, and the kernels without a guard for it get a
\* finite sink.
InputsSound ==
  /\ parts = 1 => lens[1] = 0
  /\ plan \in StatePlans \cup SinkPlans => \A p \in Subsets, c \in Cols : index[p][c] # "beyond"
  /\ plan \in StatePlans \cup SinkPlans /\ parts = 2 => \A c \in Cols : index[1][c] = "row"
  /\ plan = "paged_sink" => \A c \in Cols : index[0][c] = "row"
  /\ plan \in {"two_subsets", "one_subset", "scores"} \cup SplitPlans => sink # NegInf
  /\ plan \in DcpPlans /\ parts = 2 =>
       sink = NegInf /\ \E t \in Terms : Valid(t)
  /\ plan \in {"one_subset", "paged_sink"} \cup SplitPlans => parts = 1
  /\ plan \in {"two_states", "two_subsets", "global_paged_sink", "scores"} => parts = 2

KernelsOf(p) ==
  CASE p = "bf16"              -> {"indexed", "indexed_multihead"}
    [] p = "fused"             -> {"fused"}
    [] p = "materialized"      -> {"materialized"}
    [] p \in StatePlans        -> {"gathered", "gathered_slots", "slots", "slots_multihead",
                                   "paged", "paged_multihead"}
    [] p = "paged_sink"        -> {"paged_sink"}
    [] p = "global_paged_sink" -> {"global_paged_sink"}
    [] p = "scores"            -> {"scores_heads", "scores_values", "scores_max", "scores_sum"}
    [] p \in SplitPlans        -> {"split_score", "split_stats", "split_value", "merge_acc",
                                   "merge_state", "split_done"}

\* Where the call is, and what that says about the launch under way.
InCall ==
  /\ part < parts
  /\ pc = "launch" => offset < K
  /\ pc = "loop" =>
       /\ kernel \in KernelsOf(plan)
       /\ kernel \in {"gathered", "gathered_slots", "slots", "slots_multihead"} => part = 0
       /\ kernel \in {"paged", "paged_multihead"} => part = 1
       /\ kernel = "gathered" => \A c \in Cols : index[0][c] = "row"
       /\ width > 0
       /\ plan # "scores" => offset + width <= K
       /\ plan = "scores" => offset = 0 /\ width = 2 * K
       /\ plan \notin InPieces \cup {"scores"} => offset = 0 /\ width = K
       /\ at <= Bound
  /\ pc \in {"mask", "matmul"} => plan \in {"materialized", "scores"} /\ offset = 0
  /\ pc = "subset" => plan \notin SinkPlans
  /\ pc = "merge" => plan \notin SinkPlans /\ part = parts - 1
  /\ pc \in {"idle", "mask", "matmul", "launch"} /\ plan \in SinkPlans => offset = 0 /\ part = 0
  /\ plan \in {"scores"} \cup SplitPlans => part = 0

\* The mask marks what is valid.
MaskSound ==
  /\ plan = "materialized" /\ pc \in {"launch", "loop"} =>
       mask = { t \in Terms : t[1] = part /\ Valid(t) }
  /\ plan = "scores" /\ pc \in {"matmul", "launch", "loop"} => mask = { t \in Terms : Valid(t) }

\* s is the state of an online softmax over the candidates V and the terms S of the
\* sink.
IsState(s, V, S) ==
  /\ Largest(s.max, {NegInf} \cup { ScoreOf(t) : t \in V \cup S })
  /\ s.den = [t \in V \cup S |-> ScoreOf(t) - s.max]
  /\ s.acc = [t \in V |-> ScoreOf(t) - s.max]

\* How many columns of subset p the buffers have been through.
Reached(p) ==
  IF p # part THEN IF p < part THEN K ELSE 0
  ELSE CASE pc \in {"idle", "mask", "matmul"} -> 0
         [] pc = "launch"             -> offset
         [] pc = "loop"               -> IF plan \in SplitPlans THEN offset ELSE offset + at
         [] OTHER                     -> K

Seen(p) == { t \in Terms : t[1] = p /\ t[2] < Reached(p) /\ Valid(t) }

\* The buffers of the online kernels are the softmax of the candidates seen so far.
OnlineSound ==
  /\ plan \in DcpPlans \cup StatePlans \cup {"paged_sink"} /\ pc # "done" =>
       \A p \in Subsets : IsState(st[p], Seen(p), {})
  /\ plan = "global_paged_sink" /\ pc # "done" => IsState(st[0], Seen(0) \cup Seen(1), {})

FlatBefore(n) == { t \in mask : Flat(t) < n }

\* So are those of the materialized kernels, with the sink, except that the block
\* kernel has the maximum of all candidates before any sum.
ScoresSound ==
  plan = "scores" /\ pc = "loop" =>
    /\ kernel \in {"scores_heads", "scores_values"} => IsState(st[0], FlatBefore(at), {Sink})
    /\ kernel \in {"scores_max", "scores_sum"} =>
         Largest(st[0].max,
                 { ScoreOf(t) : t \in FlatBefore(IF kernel = "scores_max" THEN at ELSE width)
                                      \cup {Sink} })
    /\ kernel = "scores_max" => st[0].acc = Nothing
    /\ kernel = "scores_sum" =>
         /\ st[0].den = [t \in FlatBefore(at) \cup {Sink} |-> ScoreOf(t) - st[0].max]
         /\ st[0].acc = [t \in FlatBefore(at) |-> ScoreOf(t) - st[0].max]

\* The same of the split kernels, for which the candidates A are those within the
\* valid length: its rows make the output, but all of A the denominator.
IsSplitState(s, A) == IsState(s, Rows(A), A \ Rows(A))

SplitSeen == { t \in Terms : t[1] = 0 /\ t[2] < Reached(0) /\ t[2] < lens[0] }

\* A launch of the split kernels leaves the softmax of its candidates in its
\* buffers, and the chunked caller adds them to what it has.
SplitSound ==
  /\ plan = "chunked" /\ pc # "done" /\ ~Running("merge_state") /\ ~Running("split_done") =>
       IsSplitState(st[0], SplitSeen)
  /\ plan \in SplitPlans /\ pc = "loop" =>
       /\ kernel \in {"split_stats", "split_value"} =>
            \A t \in Launched : logits[t[2] - offset] = ScoreOf(t)
       /\ kernel \in {"split_value", "merge_acc", "merge_state"} =>
            /\ Largest(st[SplitInto].max, {NegInf} \cup { ScoreOf(t) : t \in Launched })
            /\ st[SplitInto].den = [t \in Launched |-> ScoreOf(t) - st[SplitInto].max]
       /\ kernel \in {"merge_acc", "merge_state"} =>
            plan = "chunked" /\ IsSplitState(st[2], Launched)
       /\ kernel = "merge_state" =>
            /\ Largest(st[0].max, {NegInf} \cup { ScoreOf(t) : t \in SplitSeen })
            /\ st[0].den = [t \in SplitSeen |-> ScoreOf(t) - st[0].max]
            /\ st[0].acc = [t \in Rows(SplitSeen \cup Launched) |-> ScoreOf(t) - MergedMax]
       /\ kernel = "split_done" => IsSplitState(st[0], SplitSeen \cup Launched)
  /\ plan \in SplitPlans /\ pc \in {"subset", "merge"} => IsSplitState(st[0], SplitSeen)

\* The results of the subsets that are finished.
ResultsSound ==
  \A p \in Subsets :
    p < part \/ (p = part /\ pc = "merge") =>
      /\ plan \in DcpPlans /\ parts = 1 =>
           sub[p].out = FinishWithSink(st[p], sink) /\ sub[p].lse = LseOf(st[p])
      /\ plan \in DcpPlans /\ parts = 2 =>
           sub[p].out = FinishWithSink(st[p], NegInf) /\ sub[p].lse = LseOf(st[p])
      /\ plan \in {"two_subsets", "one_subset"} =>
           sub[p].out = Out(st[p].acc, st[p].den) /\ sub[p].lse = LseOf(st[p])

\* What every kernel leaves behind is right for the candidates it has been through.
Partial ==
  /\ InputsSound
  /\ InCall
  /\ MaskSound
  /\ OnlineSound
  /\ ScoresSound
  /\ SplitSound
  /\ ResultsSound
  /\ Exact

=============================================================================
