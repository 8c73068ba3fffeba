---------------------------- MODULE TopKAttention ----------------------------
(***************************************************************************)
(* What sparse decoding promises, whatever the number of ranks.            *)
(*                                                                         *)
(* A sequence has `len` positions whose keys are final.  A step appends    *)
(* NextN positions (the sampled token and the speculative drafts); row j   *)
(* of the step sees the first len + j + 1 positions, and attends to TopK   *)
(* of them with the highest indexer scores, or to all of them when there   *)
(* are fewer.  Verification then keeps between 1 and NextN of the new      *)
(* positions.  Nothing here knows about shards, collectives or kernels.    *)
(***************************************************************************)
EXTENDS Integers, FiniteSets

CONSTANTS TopK,      \* index_topk: how many positions a row attends to
          NextN,     \* rows of a step: 1 + number of draft tokens
          MaxLen,    \* bound on the length of a sequence
          Scores     \* the values an indexer score can take

VARIABLES phase,     \* "ready", "running" or "verify"
          len,       \* positions whose keys are final
          score,     \* indexer scores of the step in flight, per row
          attended   \* positions the finished step attended to, per row

vars == <<phase, len, score, attended>>

Rows == 0 .. NextN - 1
Pos  == 0 .. MaxLen - 1

Visible(j) == 0 .. len + j

\* Some TopK of the visible positions with the highest scores.
IsSelection(S, j) ==
  /\ S \subseteq Visible(j)
  /\ Cardinality(S) = IF len + j + 1 < TopK THEN len + j + 1 ELSE TopK
  /\ \A p \in S, q \in Visible(j) \ S : score[j][q] <= score[j][p]

Nothing == [j \in Rows |-> {}]

Init ==
  /\ phase = "ready"
  /\ len = 0
  /\ score \in [Rows -> [Pos -> Scores]]
  /\ attended = Nothing

Admit ==
  /\ phase = "ready"
  /\ len' \in 0 .. MaxLen
  /\ UNCHANGED <<phase, score, attended>>

Issue ==
  /\ phase = "ready"
  /\ len + NextN <= MaxLen
  /\ phase' = "running"
  /\ score' \in [Rows -> [Pos -> Scores]]
  /\ UNCHANGED <<len, attended>>

Attend ==
  /\ phase = "running"
  /\ phase' = "verify"
  /\ attended' \in [Rows -> SUBSET Pos]
  /\ \A j \in Rows : IsSelection(attended'[j], j)
  /\ UNCHANGED <<len, score>>

Accept ==
  /\ phase = "verify"
  /\ phase' = "ready"
  /\ \E a \in 1 .. NextN : len' = len + a
  /\ score' \in [Rows -> [Pos -> Scores]]
  /\ attended' = Nothing

Next == Admit \/ Issue \/ Attend \/ Accept

Spec == Init /\ [][Next]_vars

=============================================================================
