---------------------------- MODULE MCDcpPrefill ----------------------------
(* Instance of DcpPrefill for TLC: one table of scores, by request and position.      *)
EXTENDS DcpPrefill

\* At position 3 of the first request two positions tie for the second place, and a
\* key that is not of the pass would tie with them; nothing else ties there.
MCScoreTables ==
  { [q \in 1 .. MaxReqs |-> [p \in Pos |->
      IF q = 1 THEN <<3, 1, 2, 2, 3>>[p + 1] ELSE <<2, 1, 3, 1, 1>>[p + 1]]] }

=============================================================================
