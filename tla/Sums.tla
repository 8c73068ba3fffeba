---------------------------------- MODULE Sums ----------------------------------
(***************************************************************************)
(* Sums over consecutive indices: offsets and totals of requests, ranks    *)
(* and tokens that are laid out one after the other.                       *)
(***************************************************************************)
EXTENDS Integers

\* f[a] + ... + f[b]
SumOver(f, a, b) ==
  LET sum[i \in a - 1 .. b] == IF i = a - 1 THEN 0 ELSE sum[i - 1] + f[i] IN sum[b]

=============================================================================
