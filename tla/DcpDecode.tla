------------------------------ MODULE DcpDecode ------------------------------
(***************************************************************************)
(* A decode step of the sparse indexer and of the attention under decode   *)
(* context parallelism, as patched by 8node-nvfp4/glm52-dcp-patches.sh     *)
(* (step B, "PERF2").                                                      *)
(*                                                                         *)
(* Every rank runs the same program on its own shard of the KV cache.  The *)
(* ranks only meet in collectives: two fixed-size all_gathers of the local *)
(* candidates, and the combination of the partial attentions.  Between two *)
(* collectives a rank depends on nobody, so each such segment is a single  *)
(* action of the rank, and a collective is a single action of all ranks,   *)
(* enabled when every rank has called it.                                  *)
(*                                                                         *)
(* One layer and one request of the batch are modelled: layers and         *)
(* requests share no indexer state.                                        *)
(***************************************************************************)
EXTENDS DcpShards

CONSTANTS TopK,        \* index_topk (topk_tokens)
          NextN,       \* next_n: rows of a step, 1 + number of draft tokens
          MaxLen,      \* bound on the sequence length (max_model_len)
          Scores,      \* indexer scores; ties happen when it is small
          RowScores,   \* the scores a row may give to the positions: a set of functions
          StaleScore,  \* what scoring a dead key yields
          Versions     \* tokens that succeed each other at a position differ modulo this

ASSUME DecodeAssumption ==
  /\ TopK \in Nat \ {0}
  /\ NextN \in Nat \ {0}
  /\ MaxLen \in Nat \ {0}
  /\ Scores \subseteq Int
  /\ RowScores \subseteq [0 .. MaxLen - 1 -> Scores]
  /\ StaleScore \in Scores
  /\ Versions \in Nat \ {0, 1}

VARIABLES
  ties,    \* how the kernel top_k_per_row_decode breaks ties: "any" or "lowest"
  phase,   \* of the scheduler: "ready", "running" (a step is in flight), "verify"
  len,     \* positions whose keys are final
  tok,     \* version of the token at each position
  score,   \* indexer score of each position for each row of the step
  pc,      \* where each rank is in the step
  kv,      \* what each column of each rank's shard holds
  lsl,     \* dcp_local_seq_lens of each rank, per row
  cand,    \* _glm52_loc_idx of each rank: local columns, per row
  allsc,   \* _glm52_allsc, per row and contributing rank: score of each lane
  allpos,  \* _glm52_allpos, likewise: global position of each lane
  picked,  \* the lanes each rank selected before the owned mask, per row
  idx,     \* topk_indices of each rank after the owned mask: local column per lane kept
  out      \* per row and rank: the entry the attention read for each lane kept

vars == <<ties, phase, len, tok, score, pc, kv, lsl, cand, allsc, allpos, idx, picked, out>>

Rows == 0 .. NextN - 1
Pos  == 0 .. MaxLen - 1
Cols == Pos

Entry == [pos : Pos, ver : 0 .. Versions - 1]

NoTensor == [j \in Rows |-> {}]
NoIndex  == [j \in Rows |-> <<>>]
NoLanes  == [j \in Rows |-> [r \in Ranks |-> <<>>]]

\* seq_lens[request][row]: the 2-D GLOBAL lengths, a row sees itself and all before.
SeqLen(j) == len + j + 1

-----------------------------------------------------------------------------
(* What the kernels of rank r see.                                         *)

\* The logit of column c: the score of the key it holds, if that key is alive.
Logit(r, j, c) ==
  LET e == kv[r][c]
  IN  IF e.pos < SeqLen(j) /\ tok[e.pos] = e.ver THEN score[j][e.pos] ELSE StaleScore

Scored(r, j, C) == { <<c, Logit(r, j, c)>> : c \in C }

\* The answers top_k_per_row_decode may give for row j.  Its tie-break is not
\* documented: it is one thing or the other for good, and "any" allows every choice.
KernelTopK(r, j) ==
  LET columns == { c \in Cols : c < lsl[r][j] }
  IN  { C \in SUBSET columns :
          IF ties = "lowest"
            THEN IsStrictTopK(Scored(r, j, C), Scored(r, j, columns), TopK)
            ELSE IsTopK(Scored(r, j, C), Scored(r, j, columns), TopK) }

\* The valid lanes of the two gathered tensors.  A lane carries a position and its
\* score, and is told from the others by the rank and the candidate it came from: two
\* lanes of the same position would be two lanes.
Lanes(j) ==
  UNION { { <<allpos[j][r][c], allsc[j][r][c], r, c>> : c \in DOMAIN allpos[j][r] }
          : r \in Ranks }

\* Mutant: torch.topk, which breaks ties at will on each rank.
MergeTopKUnordered(j) == { T \in SUBSET Lanes(j) : IsTopK(T, Lanes(j), TopK) }

\* The second selection, out of the gathered lanes; every rank does it for itself.
MergeTopK(j) == { T \in SUBSET Lanes(j) : IsStrictTopK(T, Lanes(j), TopK) }

\* Mutant: every picked position is localized, whoever owns it.
OwnedLanesAll(T, r) == [t \in T |-> LocalIndex(t[1])]

\* Mutant: lanes of positions of other ranks keep index -1 as a valid one.
OwnedLanesSentinel(T, r) == [t \in T |-> IF Owner(t[1]) = r THEN LocalIndex(t[1]) ELSE -1]

\* The owned mask: of the lanes it picked, rank r keeps those of positions it owns,
\* each rewritten to the local column; every other entry of topk_indices is -1.
OwnedLanes(T, r) ==
  [t \in { u \in T : Owner(u[1]) = r /\ u[1] >= 0 } |-> LocalIndex(t[1])]

\* What the sparse attention of rank r reads for row j.
Reads(r, j) == [t \in DOMAIN idx[r][j] |-> kv[r][idx[r][j][t]]]

\* One choice for each row.
PerRow(choices) ==
  { f \in [Rows -> UNION { choices[j] : j \in Rows }] : \A j \in Rows : f[j] \in choices[j] }

-----------------------------------------------------------------------------
Init ==
  /\ ties \in {"any", "lowest"}
  /\ phase = "ready"
  /\ len = 0
  /\ tok = [p \in Pos |-> 0]
  /\ score = [j \in Rows |-> [p \in Pos |-> StaleScore]]
  /\ pc = [r \in Ranks |-> "idle"]
  /\ kv = [r \in Ranks |-> [c \in Cols |-> [pos |-> 0, ver |-> 0]]]
  /\ lsl = [r \in Ranks |-> [j \in Rows |-> 0]]
  /\ cand = [r \in Ranks |-> NoTensor]
  /\ allsc = NoLanes
  /\ allpos = NoLanes
  /\ picked = [r \in Ranks |-> NoTensor]
  /\ idx = [r \in Ranks |-> NoIndex]
  /\ out = [j \in Rows |-> [r \in Ranks |-> <<>>]]

stepVars == <<lsl, cand, allsc, allpos, idx, picked, out>>

\* The shard of rank r after the keys of positions Q, tokens t, went through its
\* slot mapping: a rank writes the positions it owns and skips the others.
WriteKeys(r, Q, t) ==
  [c \in Cols |-> IF GlobalPos(r, c) \in Q
                    THEN [pos |-> GlobalPos(r, c), ver |-> t[GlobalPos(r, c)]]
                    ELSE kv[r][c]]

Renew(Q) == [p \in Pos |-> IF p \in Q THEN (tok[p] + 1) % Versions ELSE tok[p]]

\* The scheduler replaces the sequence by another one, whose prompt has n
\* positions.  Blocks are reused without being cleared.
Admit ==
  /\ phase = "ready"
  /\ \E n \in 0 .. MaxLen :
       /\ len' = n
       /\ tok' = Renew(0 .. n - 1)
       /\ kv' = [r \in Ranks |-> WriteKeys(r, 0 .. n - 1, tok')]
  /\ UNCHANGED <<ties, phase, score, pc, stepVars>>

\* The scheduler issues a step of NextN new tokens to every rank.
IssueStep ==
  /\ phase = "ready"
  /\ len + NextN <= MaxLen
  /\ phase' = "running"
  /\ tok' = Renew(len .. len + NextN - 1)
  /\ \E s \in [Rows -> RowScores] :
       score' = [j \in Rows |-> [p \in Pos |-> IF p < SeqLen(j) THEN s[j][p] ELSE StaleScore]]
  /\ pc' = [r \in Ranks |-> "build"]
  /\ UNCHANGED <<ties, len, kv, stepVars>>

\* Mutant: the kernels keep the GLOBAL lengths.
LocalSeqLenGlobal(r, j) == SeqLen(j)

\* Mutant: the first row is localized and the others count on from it.
LocalSeqLenExpanded(r, j) == OwnedCount(SeqLen(0), r) + j

\* dcp_local_seq_lens: every row of the GLOBAL 2-D lengths is localized on its own.
LocalSeqLen(r, j) == OwnedCount(SeqLen(j), r)

\* E3: the metadata builder of rank r localizes the GLOBAL seq_lens.
BuildMetadata(r) ==
  /\ pc[r] = "build"
  /\ lsl' = [lsl EXCEPT ![r] = [j \in Rows |-> LocalSeqLen(r, j)]]
  /\ pc' = [pc EXCEPT ![r] = "insert"]
  /\ UNCHANGED <<ties, phase, len, tok, score, kv, cand, allsc, allpos, idx, picked, out>>

\* The new keys enter the shard before anything is scored.
InsertKeys(r) ==
  /\ pc[r] = "insert"
  /\ kv' = [kv EXCEPT ![r] = WriteKeys(r, len .. len + NextN - 1, tok)]
  /\ pc' = [pc EXCEPT ![r] = "index"]
  /\ UNCHANGED <<ties, phase, len, tok, score, lsl, cand, allsc, allpos, idx, picked, out>>

\* Mutant: a rank without a key for the first row leaves the collectives out.
LocalTopKNoEmptyGather(r) ==
  /\ pc[r] = "index"
  /\ \E C \in PerRow([j \in Rows |-> KernelTopK(r, j)]) : cand' = [cand EXCEPT ![r] = C]
  /\ pc' = [pc EXCEPT ![r] =
              IF lsl[r][0] > 0 THEN "gather_scores" ELSE "merge"]
  /\ UNCHANGED <<ties, phase, len, tok, score, kv, lsl, allsc, allpos, idx, picked, out>>

\* R1 (1): the local top-k of each row over the local logits, into a buffer of
\* its own.
LocalTopK(r) ==
  /\ pc[r] = "index"
  /\ \E C \in PerRow([j \in Rows |-> KernelTopK(r, j)]) : cand' = [cand EXCEPT ![r] = C]
  /\ pc' = [pc EXCEPT ![r] = "gather_scores"]
  /\ UNCHANGED <<ties, phase, len, tok, score, kv, lsl, allsc, allpos, idx, picked, out>>

\* R1 (2), (3): each rank gathers the scores of its candidates back from its
\* logits and all_gathers them; lanes with index -1 are not valid and left out.
AllGatherScores ==
  /\ \A r \in Ranks : pc[r] = "gather_scores"
  /\ allsc' = [j \in Rows |-> [r \in Ranks |-> [c \in cand[r][j] |-> Logit(r, j, c)]]]
  /\ pc' = [r \in Ranks |-> "gather_positions"]
  /\ UNCHANGED <<ties, phase, len, tok, score, kv, lsl, cand, allpos, idx, picked, out>>

\* R1 (2), (3): the second all_gather carries the global positions of the lanes.
AllGatherPositions ==
  /\ \A r \in Ranks : pc[r] = "gather_positions"
  /\ allpos' = [j \in Rows |-> [r \in Ranks |-> [c \in cand[r][j] |-> GlobalPos(r, c)]]]
  /\ pc' = [r \in Ranks |-> "merge"]
  /\ UNCHANGED <<ties, phase, len, tok, score, kv, lsl, cand, allsc, idx, picked, out>>

\* R1 (4), (5), R3 and R2: rank r sorts the lanes by (score desc, position asc),
\* keeps TopK of them, skips the stock top-k, and localizes what it owns.
Merge(r) ==
  /\ pc[r] = "merge"
  /\ \E T \in PerRow([j \in Rows |-> MergeTopK(j)]) :
       /\ picked' = [picked EXCEPT ![r] = T]
       /\ idx' = [idx EXCEPT ![r] = [j \in Rows |-> OwnedLanes(T[j], r)]]
  /\ pc' = [pc EXCEPT ![r] = "attend"]
  /\ UNCHANGED <<ties, phase, len, tok, score, kv, lsl, cand, allsc, allpos, out>>

\* Each rank attends to the columns it is left with, and the group combines the
\* partial results; the tensors of the step are then dropped.
Combine ==
  /\ \A r \in Ranks : pc[r] = "attend"
  /\ out' = [j \in Rows |-> [r \in Ranks |-> Reads(r, j)]]
  /\ phase' = "verify"
  /\ pc' = [r \in Ranks |-> "idle"]
  /\ lsl' = [r \in Ranks |-> [j \in Rows |-> 0]]
  /\ cand' = [r \in Ranks |-> NoTensor]
  /\ allsc' = NoLanes
  /\ allpos' = NoLanes
  /\ UNCHANGED <<ties, len, tok, score, kv, idx, picked>>

\* Speculative verification keeps the first a new tokens: the keys of the
\* rejected drafts stay in the shards, beyond the length.
Accept ==
  /\ phase = "verify"
  /\ phase' = "ready"
  /\ \E a \in 1 .. NextN : len' = len + a
  /\ score' = [j \in Rows |-> [p \in Pos |-> StaleScore]]
  /\ out' = [j \in Rows |-> [r \in Ranks |-> <<>>]]
  /\ idx' = [r \in Ranks |-> NoIndex]
  /\ picked' = [r \in Ranks |-> NoTensor]
  /\ UNCHANGED <<ties, tok, pc, kv, lsl, cand, allsc, allpos>>

RankStep(r) ==
  BuildMetadata(r) \/ InsertKeys(r) \/ LocalTopK(r) \/ Merge(r)

Collective == AllGatherScores \/ AllGatherPositions \/ Combine

Next ==
  \/ Admit
  \/ IssueStep
  \/ Accept
  \/ Collective
  \/ \E r \in Ranks : RankStep(r)

\* Each rank's process keeps running, and a collective all ranks have called
\* returns.
Fairness ==
  /\ \A r \in Ranks : WF_vars(RankStep(r))
  /\ WF_vars(Collective)

Spec == Init /\ [][Next]_vars /\ Fairness

-----------------------------------------------------------------------------
(* Properties.                                                             *)

PCs == {"idle", "build", "insert", "index", "gather_scores", "gather_positions",
        "merge", "attend"}

IsLanes(f, T) == DOMAIN f \subseteq Cols /\ f \in [DOMAIN f -> T]

Lane == Nat \X Scores \X Ranks \X Cols

\* f maps some lanes to members of T.
IsOfLanes(f, T) == DOMAIN f \subseteq Lane /\ f \in [DOMAIN f -> T]

\* Every variable has its type.
TypeOK ==
  /\ ties \in {"any", "lowest"}
  /\ phase \in {"ready", "running", "verify"}
  /\ len \in 0 .. MaxLen
  /\ tok \in [Pos -> 0 .. Versions - 1]
  /\ score \in [Rows -> [Pos -> Scores]]
  /\ pc \in [Ranks -> PCs]
  /\ kv \in [Ranks -> [Cols -> Entry]]
  /\ lsl \in [Ranks -> [Rows -> Nat]]
  /\ cand \in [Ranks -> [Rows -> SUBSET Cols]]
  /\ \A j \in Rows, r \in Ranks :
       IsLanes(allsc[j][r], Scores) /\ IsLanes(allpos[j][r], Nat)
  /\ picked \in [Ranks -> [Rows -> SUBSET Lane]]
  /\ DOMAIN idx = Ranks /\ DOMAIN out = Rows
  /\ \A j \in Rows, r \in Ranks : IsOfLanes(idx[r][j], Nat) /\ IsOfLanes(out[j][r], Entry)

-----------------------------------------------------------------------------
(* The refinement mapping.                                                 *)

\* The positions of a set with their scores f.
Pairs(f, S) == { <<p, f[p]>> : p \in S }

\* What all ranks together attended to.
PositionsRead(o) == UNION { { o[r][t].pos : t \in DOMAIN o[r] } : r \in Ranks }

Attended == [j \in Rows |-> PositionsRead(out[j])]

\* The abstract specification, with the shards forgotten.
Sparse == INSTANCE TopKAttention WITH attended <- Attended

-----------------------------------------------------------------------------
(* The inductive invariant: what is true of a rank that has reached a       *)
(* given point of the step.                                                *)

Scoring  == {"build", "insert", "index", "gather_scores"}
Merging  == {"merge", "attend"}

\* A collective separates the ranks' programs: they are all before the first
\* gather, all between the two, or all after the second; and they run a step
\* exactly when the scheduler has one in flight.
InStep ==
  /\ \/ phase # "running" /\ \A r \in Ranks : pc[r] = "idle"
     \/ phase = "running" /\ \A r \in Ranks : pc[r] \in Scoring
     \/ phase = "running" /\ \A r \in Ranks : pc[r] = "gather_positions"
     \/ phase = "running" /\ \A r \in Ranks : pc[r] \in Merging
  /\ phase # "ready" => len + NextN <= MaxLen

\* The positions whose keys rank r's shard must hold by now.
KeysDue(r) ==
  IF phase = "ready" \/ pc[r] \in {"build", "insert"} THEN len ELSE len + NextN

\* A column of the shard holds the key of the position it stands for.
ShardsCurrent ==
  \A r \in Ranks : \A c \in Cols :
    GlobalPos(r, c) < KeysDue(r) =>
      kv[r][c] = [pos |-> GlobalPos(r, c), ver |-> tok[GlobalPos(r, c)]]

\* The localized lengths are those of the step.
Localized ==
  \A r \in Ranks : pc[r] \notin {"idle", "build"} =>
    \A j \in Rows : lsl[r][j] = OwnedCount(SeqLen(j), r)

\* The candidates are a local selection, and the gathered tensors carry them.
CandidatesLocal ==
  \A r \in Ranks : pc[r] \in {"gather_scores", "gather_positions"} \cup Merging =>
    \A j \in Rows : cand[r][j] \in KernelTopK(r, j)

ScoresGathered ==
  \A r \in Ranks : pc[r] \in {"gather_positions"} \cup Merging =>
    \A j \in Rows : allsc[j][r] = [c \in cand[r][j] |-> Logit(r, j, c)]

PositionsGathered ==
  \A r \in Ranks : pc[r] \in Merging =>
    \A j \in Rows : allpos[j][r] = [c \in cand[r][j] |-> GlobalPos(r, c)]

\* What a rank is about to attend to is its part of a selection out of the lanes.
Masked ==
  \A r \in Ranks : pc[r] = "attend" =>
    \A j \in Rows :
      /\ picked[r][j] \in MergeTopK(j)
      /\ idx[r][j] = OwnedLanes(picked[r][j], r)

\* The positions of a set of lanes.
PositionsIn(T) == { t[1] : t \in T }

\* The reads of rank r, when the group has picked the lanes T.
OwnReads(T, r) ==
  [t \in { u \in T : Owner(u[1]) = r } |-> [pos |-> t[1], ver |-> tok[t[1]]]]

\* A finished step has read, on each rank, its part of one selection for the row, in
\* which no two lanes carry the same position.
Combined ==
  phase = "verify" =>
    \A j \in Rows :
      /\ PositionsIn(picked[0][j]) \subseteq 0 .. len + j
      /\ \A t, u \in picked[0][j] : t[1] = u[1] => t = u
      /\ IsTopK(Pairs(score[j], PositionsIn(picked[0][j])),
                Pairs(score[j], 0 .. len + j), TopK)
      /\ ties = "lowest" =>
           IsStrictTopK(Pairs(score[j], PositionsIn(picked[0][j])),
                        Pairs(score[j], 0 .. len + j), TopK)
      /\ \A r \in Ranks : out[j][r] = OwnReads(picked[0][j], r)

IInv ==
  /\ TypeOK
  /\ InStep
  /\ ShardsCurrent
  /\ Localized
  /\ CandidatesLocal
  /\ ScoresGathered
  /\ PositionsGathered
  /\ Masked
  /\ Combined

-----------------------------------------------------------------------------
(* What the step is for.                                                   *)

\* Every rank selects the same lanes for a row, so the same global positions,
\* whatever ties the scores have: PERF2-DECODE-SPEC.md FIX 2.
RankAgreement ==
  \A r, s \in Ranks : pc[r] = "attend" /\ pc[s] = "attend" => picked[r] = picked[s]

\* The combined attention counts every position once: no position enters it through
\* two lanes, be they kept by two ranks or by one.
CountedOnce ==
  phase = "verify" =>
    \A j \in Rows : \A r, s \in Ranks :
      \A t \in DOMAIN out[j][r], u \in DOMAIN out[j][s] :
        out[j][r][t].pos = out[j][s][u].pos => r = s /\ t = u

\* Attention only reads keys of tokens of the sequence as it is now: never one of
\* a rejected draft or of the sequence that had the block before.
NoStaleRead ==
  phase = "verify" =>
    \A j \in Rows : \A r \in Ranks : \A t \in DOMAIN out[j][r] :
      out[j][r][t].pos < SeqLen(j) /\ out[j][r][t].ver = tok[out[j][r][t].pos]

\* Sharded decoding is sparse decoding: the ranks together attend to TopK visible
\* positions of highest score, even where the kernel breaks ties at will.
RefinesTopKAttention == Sparse!Spec

\* When the kernel breaks ties by position, the selection is exactly the one of a
\* single rank under (score desc, position asc): validate_perf2_decode.py.
ExactSelection ==
  ties = "lowest" /\ phase = "verify" =>
    \A j \in Rows :
      IsStrictTopK(Pairs(score[j], Attended[j]), Pairs(score[j], 0 .. len + j), TopK)

\* A step that was issued completes on every rank.
StepCompletes == phase = "running" ~> phase = "verify"

=============================================================================
