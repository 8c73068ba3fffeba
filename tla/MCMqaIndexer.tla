------------------------------ MODULE MCMqaIndexer ------------------------------
(* Two requests or two rows of one; blocks of two keys; a table that keeps     *)
(* the blocks in order, and one that does not.                                 *)
EXTENDS MqaIndexer

TwoShapes == {<<0, 1>>, <<1, 2>>, <<2, 1>>}

InOrder  == [b \in 0 .. 1 |-> [i \in 0 .. 1 |-> 2 * b + i]]
Shuffled == [b \in 0 .. 1 |-> [i \in 0 .. 1 |-> 3 - 2 * b - i]]

Tables == {InOrder, Shuffled}

Ascending == [r \in 0 .. 1 |-> [k \in 0 .. 7 |-> k]]
Ties      == [r \in 0 .. 1 |-> [k \in 0 .. 7 |-> IF k \in {1, 2, 5} THEN 1 ELSE r]]

Scores == {Ascending, Ties}

=============================================================================
