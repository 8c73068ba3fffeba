------------------------------ MODULE MCSparseMla ------------------------------
(***************************************************************************)
(* SparseMla with scores on both sides of the 0 that a zero row scores.    *)
(***************************************************************************)
EXTENDS SparseMla

MCScores == {-1, 2}

=============================================================================
