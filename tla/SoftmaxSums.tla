------------------------------ MODULE SoftmaxSums ------------------------------
(***************************************************************************)
(* The softmax sums of the sparse attention kernels, kept exactly.         *)
(*                                                                         *)
(* A sum of exponentials is a function from its terms to their exponents:  *)
(* f stands for the sum over t of exp(f[t]), or, weighing the value rows,  *)
(* of exp(f[t]) * v[t].  Sums are compared term by term, so a key counted  *)
(* twice, left out or rescaled by the wrong maximum shows.                 *)
(***************************************************************************)
EXTENDS Integers

CONSTANT NegInf                  \* -float("inf")

ASSUME NegInfAssumption == NegInf \notin Int

\* A term is a candidate <<subset, column>>, or one of these.
Sink       == <<2, 0>>           \* attn_sink
NotANumber == <<3, 0>>           \* exp(-inf - -inf)
Twice      == <<4, 0>>           \* a term that was added to itself
Foreign    == <<5, 0>>           \* an output weighed by a sum that is not its own

Nothing    == [t \in {} |-> 0]   \* the sum 0
Poison(t)  == [u \in {t} |-> 0]

MaxOf(a, b) == IF a = NegInf THEN b ELSE IF b = NegInf THEN a ELSE IF b <= a THEN a ELSE b

\* m is the largest of the extended integers of S.
Largest(m, S) == m \in S /\ \A x \in S : MaxOf(x, m) = m

\* f * exp(a - b)
Times(f, a, b) ==
  IF a = NegInf
    THEN IF b = NegInf THEN Poison(NotANumber) ELSE Nothing
    ELSE [t \in DOMAIN f |-> f[t] + (a - b)]

\* tl.where(a != -inf, f * exp(a - b), 0)
Guarded(f, a, b) == IF a = NegInf THEN Nothing ELSE Times(f, a, b)

Plus(f, g) ==
  LET twice == IF DOMAIN f \cap DOMAIN g = {} THEN {} ELSE {Twice}
  IN  [t \in DOMAIN f \cup DOMAIN g \cup twice |->
         IF t \in DOMAIN f THEN f[t] ELSE IF t \in DOMAIN g THEN g[t] ELSE 0]

-----------------------------------------------------------------------------
(* The buffers max_score, denom and acc of an online softmax.              *)

Fresh       == [max |-> NegInf, den |-> Nothing, acc |-> Nothing]
FromSink(x) == [max |-> x, den |-> [t \in {Sink} |-> 0], acc |-> Nothing]

\* Mutant: the accumulator is not rescaled when the maximum grows.
AbsorbUnscaled(s, f, m) ==
  LET w == [t \in DOMAIN f |-> f[t] - m]
  IN  [max |-> m, den |-> Plus(Guarded(s.den, s.max, m), w), acc |-> Plus(s.acc, w)]

\* The buffers after candidates with scores f, when m is the new maximum.
Absorb(s, f, m) ==
  LET w == [t \in DOMAIN f |-> f[t] - m]
  IN  [max |-> m,
       den |-> Plus(Guarded(s.den, s.max, m), w),
       acc |-> Plus(Guarded(s.acc, s.max, m), w)]

\* One candidate t with score x.
Online(s, t, x) == Absorb(s, [u \in {t} |-> x], MaxOf(s.max, x))

-----------------------------------------------------------------------------
(* Results: an output num/den, 0 when den is, and its log-sum-exp, which is *)
(* max + log(den).                                                         *)

Out(num, den) == [num |-> num, den |-> den]
Zero          == Out(Nothing, Nothing)

\* out * exp(lse - m): the sum in exp(lse) has to cancel the denominator.
Weighed(o, lse, m) ==
  IF o.den = lse.den THEN Times(o.num, lse.max, m) ELSE Poison(Foreign)

SinkWeight(x, m) == IF x = NegInf THEN Nothing ELSE [t \in {Sink} |-> x - m]

=============================================================================
