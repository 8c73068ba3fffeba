------------------------------ MODULE MCDcpDecode ------------------------------
(* Instance of DcpDecode for TLC: two ranks, two selected out of five positions. *)
EXTENDS DcpDecode, Sequences

\* The score of position p is at index p + 1.
Table(s) == [p \in 0 .. MaxLen - 1 |-> s[p + 1]]

\* Everything ties below the score of a dead key; the two best both with rank 0, which
\* must then drop a candidate itself; both with rank 1; one best of each rank.
MCRowScores ==
  { Table(s) : s \in {<<1, 1, 1, 1, 1>>, <<2, 1, 2, 1, 2>>, <<1, 2, 1, 2, 1>>,
                      <<1, 1, 2, 2, 1>>, <<2, 1, 1, 1, 2>>, <<1, 2, 2, 2, 2>>} }

=============================================================================
