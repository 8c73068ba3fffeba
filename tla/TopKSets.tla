-------------------------------- MODULE TopKSets --------------------------------
(***************************************************************************)
(* Selecting the k best of a set of <<key, score>> pairs: what the top-k   *)
(* kernels, the strict merge over ranks and the streaming top-k have in    *)
(* common.                                                                 *)
(***************************************************************************)
EXTENDS Integers, FiniteSets

AtMost(k, S) == IF Cardinality(S) < k THEN Cardinality(S) ELSE k

\* T is a set of k best pairs of S; ties of the score are broken at will.
IsTopK(T, S, k) ==
  /\ T \subseteq S
  /\ Cardinality(T) = AtMost(k, S)
  /\ \A t \in T, s \in S \ T : s[2] <= t[2]

\* Score descending, key ascending: the total order of the second selection.
Ahead(t, s) == t[2] > s[2] \/ (t[2] = s[2] /\ t[1] < s[1])

IsStrictTopK(T, S, k) ==
  /\ T \subseteq S
  /\ Cardinality(T) = AtMost(k, S)
  /\ \A t \in T, s \in S \ T : Ahead(t, s)

=============================================================================
