------------------------------- MODULE DcpShards -------------------------------
(***************************************************************************)
(* Ownership arithmetic of decode-context-parallel (DCP) serving.          *)
(*                                                                         *)
(* The KV cache of one sequence is spread over N ranks with interleave 1:  *)
(* rank p % N holds position p, in its local column p // N.  Everything    *)
(* the DCP patches compute about shards is built from the operators below; *)
(* they contain no RECURSIVE definition, so that the proof modules can use *)
(* them.                                                                   *)
(***************************************************************************)
EXTENDS Integers, FiniteSets, TopKSets

CONSTANT N                       \* size of the DCP group (world_size)

ASSUME NAssumption == N \in Nat \ {0}

Ranks == 0 .. N - 1

-----------------------------------------------------------------------------
(* Where a position lives.                                                 *)

Owner(p)        == p % N
LocalIndex(p)   == p \div N

GlobalPos(r, c) == c * N + r

ClampUnit(x) == IF x < 0 THEN 0 ELSE IF x > 1 THEN 1 ELSE x

\* Mutant: the positions beyond the last full round are nobody's.
OwnedCountFloor(g, r) == g \div N

\* How many of the first g positions rank r owns.
OwnedCount(g, r) == (g \div N) + ClampUnit((g % N) - r)

=============================================================================
