---------------------------- MODULE SparseMlaProofs ----------------------------
(***************************************************************************)
(* Proofs about SparseMla, for any number of columns, any scores and any   *)
(* sinks.                                                                  *)
(*                                                                         *)
(* The first part is about the sums alone: what rescaling and adding make  *)
(* of the softmax of a set of candidates.  The second carries the          *)
(* invariant Partial through every kernel and every pipeline.              *)
(***************************************************************************)
EXTENDS SparseMla, TLAPS

USE NegInfAssumption, SparseMlaAssumption

-----------------------------------------------------------------------------
(* Sums.                                                                   *)

\* m is the maximum of the scores of A, and the sum over A with that maximum.
Peak(m, A) == Largest(m, {NegInf} \cup { ScoreOf(t) : t \in A })
Sum(A, m)  == [t \in A |-> ScoreOf(t) - m]
Scored(A)  == \A t \in A : ScoreOf(t) \in Int
Extended   == Int \cup {NegInf}

\* The state of an online softmax in these words.
LEMMA StateIs ==
  ASSUME NEW s, NEW V, NEW S
  PROVE  IsState(s, V, S) <=> Peak(s.max, V \cup S) /\ s.den = Sum(V \cup S, s.max)
                              /\ s.acc = Sum(V, s.max)
BY DEF IsState, Peak, Sum

\* The larger of two extended integers.
LEMMA MaxFacts ==
  ASSUME NEW a \in Extended, NEW b \in Extended
  PROVE  /\ MaxOf(a, b) \in {a, b} /\ MaxOf(a, b) \in Extended
         /\ MaxOf(a, b) = NegInf <=> a = NegInf /\ b = NegInf
         /\ a \in Int => MaxOf(a, b) \in Int /\ a <= MaxOf(a, b)
         /\ b \in Int => MaxOf(a, b) \in Int /\ b <= MaxOf(a, b)
BY DEF MaxOf, Extended

\* m is the maximum: -inf for no candidate, and else the score of one of them that no
\* other exceeds.
LEMMA PeakFacts ==
  ASSUME NEW A, Scored(A), NEW m
  PROVE  Peak(m, A) <=> \/ A = {} /\ m = NegInf
                        \/ /\ m \in Int /\ \E t \in A : ScoreOf(t) = m
                           /\ \A t \in A : ScoreOf(t) <= m
<1>1. ASSUME Peak(m, A)
      PROVE  \/ A = {} /\ m = NegInf
             \/ /\ m \in Int /\ \E t \in A : ScoreOf(t) = m
                /\ \A t \in A : ScoreOf(t) <= m
  <2>1. m = NegInf \/ \E t \in A : ScoreOf(t) = m
    BY <1>1 DEF Peak, Largest
  <2>2. \A t \in A : MaxOf(ScoreOf(t), m) = m
    BY <1>1 DEF Peak, Largest
  <2>3. \A t \in A : m # NegInf /\ (m \in Int => ScoreOf(t) <= m)
    BY <2>1, <2>2 DEF Scored, MaxOf
  <2>4. QED
    BY <2>1, <2>3 DEF Scored
<1>2. ASSUME A = {}, m = NegInf PROVE Peak(m, A)
  BY <1>2 DEF Peak, Largest, MaxOf
<1>3. ASSUME m \in Int, \E t \in A : ScoreOf(t) = m, \A t \in A : ScoreOf(t) <= m
      PROVE  Peak(m, A)
  <2>1. m \in {NegInf} \cup { ScoreOf(t) : t \in A }
    BY <1>3
  <2>2. \A t \in A : MaxOf(ScoreOf(t), m) = m
    BY <1>3 DEF Scored, MaxOf
  <2>3. MaxOf(NegInf, m) = m
    BY DEF MaxOf
  <2>4. QED
    BY <2>1, <2>2, <2>3 DEF Peak, Largest
<1>4. QED
  BY <1>1, <1>2, <1>3

\* The maximum of two sets of candidates.
LEMMA PeakUnion ==
  ASSUME NEW A, NEW B, Scored(A), Scored(B), NEW a, NEW b, Peak(a, A), Peak(b, B)
  PROVE  Peak(MaxOf(a, b), A \cup B)
<1>1. Scored(A \cup B)
  BY DEF Scored
<1>2. a \in Extended /\ b \in Extended
  BY PeakFacts DEF Extended
<1>3. CASE a = NegInf
  <2>1. A = {} /\ MaxOf(a, b) = b
    BY <1>3, PeakFacts DEF MaxOf
  <2>2. A \cup B = B
    BY <2>1
  <2>3. QED
    BY <2>1, <2>2
<1>4. CASE b = NegInf
  <2>1. B = {} /\ MaxOf(a, b) = a
    BY <1>4, PeakFacts DEF MaxOf
  <2>2. A \cup B = A
    BY <2>1
  <2>3. QED
    BY <2>1, <2>2
<1>5. CASE a # NegInf /\ b # NegInf
  <2>1. /\ a \in Int /\ \E t \in A : ScoreOf(t) = a
        /\ \A t \in A : ScoreOf(t) <= a
    BY <1>5, PeakFacts
  <2>2. /\ b \in Int /\ \E t \in B : ScoreOf(t) = b
        /\ \A t \in B : ScoreOf(t) <= b
    BY <1>5, PeakFacts
  <2>3. MaxOf(a, b) = IF b <= a THEN a ELSE b
    BY <1>5 DEF MaxOf
  <2>4. /\ MaxOf(a, b) \in Int /\ \E t \in A \cup B : ScoreOf(t) = MaxOf(a, b)
        /\ \A t \in A \cup B : ScoreOf(t) <= MaxOf(a, b)
    BY <2>1, <2>2, <2>3 DEF Scored
  <2>5. QED
    BY <1>1, <2>4, PeakFacts
<1>6. QED
  BY <1>3, <1>4, <1>5

\* The maximum of one candidate is its score, and no candidate has -inf.
LEMMA PeakOne ==
  /\ \A t : ScoreOf(t) \in Int => Peak(ScoreOf(t), {t})
  /\ Peak(NegInf, {})
<1>1. \A t : ScoreOf(t) \in Int => Peak(ScoreOf(t), {t})
  BY PeakFacts DEF Scored
<1>2. Scored({})
  BY DEF Scored
<1>3. QED
  BY <1>1, <1>2, PeakFacts

\* Sums over no candidates, and over disjoint sets.
LEMMA SumNothing ==
  ASSUME NEW m
  PROVE  Sum({}, m) = Nothing
BY DEF Sum, Nothing

\* A sum of weights says which candidates are in it; only the empty one is nothing.
LEMMA SumDomain ==
  ASSUME NEW A, NEW m
  PROVE  DOMAIN Sum(A, m) = A /\ (Sum(A, m) = Nothing <=> A = {})
<1>1. DOMAIN Sum(A, m) = A /\ DOMAIN Nothing = {}
  BY DEF Sum, Nothing
<1>2. QED
  BY <1>1, SumNothing

\* The weights of two disjoint sets, relative to one maximum, add up to the union's.
LEMMA PlusSum ==
  ASSUME NEW A, NEW B, A \cap B = {}, NEW m
  PROVE  Plus(Sum(A, m), Sum(B, m)) = Sum(A \cup B, m)
<1>1. DOMAIN Sum(A, m) = A /\ DOMAIN Sum(B, m) = B
  BY SumDomain
<1>2. Plus(Sum(A, m), Sum(B, m)) =
        [t \in A \cup B |-> IF t \in A THEN Sum(A, m)[t] ELSE IF t \in B THEN Sum(B, m)[t] ELSE 0]
  BY <1>1 DEF Plus
<1>3. QED
  BY <1>2 DEF Sum

\* Rescaling a sum from its own maximum to another one.
LEMMA Rescale ==
  ASSUME NEW A, Scored(A), NEW B, B \subseteq A, NEW a, Peak(a, A), NEW m \in Extended,
         m = NegInf => A = {}
  PROVE  /\ Guarded(Sum(B, a), a, m) = Sum(B, m)
         /\ m # NegInf => Times(Sum(B, a), a, m) = Sum(B, m)
<1>1. CASE a = NegInf
  <2>1. A = {} /\ B = {}
    BY <1>1, PeakFacts
  <2>2. Guarded(Sum(B, a), a, m) = Nothing /\ Sum(B, m) = Nothing
    BY <1>1, <2>1, SumNothing DEF Guarded
  <2>3. m # NegInf => Times(Sum(B, a), a, m) = Nothing
    BY <1>1 DEF Times
  <2>4. QED
    BY <2>2, <2>3
<1>2. CASE a # NegInf
  <2>1. a \in Int /\ m \in Int
    BY <1>2, PeakFacts DEF Extended
  <2>2. Times(Sum(B, a), a, m) = [t \in B |-> Sum(B, a)[t] + (a - m)]
    BY <1>2, SumDomain DEF Times
  <2>3. \A t \in B : Sum(B, a)[t] + (a - m) = ScoreOf(t) - m
    BY <2>1 DEF Sum, Scored
  <2>4. Times(Sum(B, a), a, m) = Sum(B, m)
    BY <2>2, <2>3 DEF Sum
  <2>5. QED
    BY <1>2, <2>4 DEF Guarded
<1>3. QED
  BY <1>1, <1>2

\* The maximum when the maximum of A is compared with the scores of W.
LEMMA PeakMore ==
  ASSUME NEW A, NEW W, Scored(A), Scored(W), NEW a, Peak(a, A), NEW m,
         Largest(m, {a} \cup { ScoreOf(t) : t \in W })
  PROVE  Peak(m, A \cup W)
<1>1. Scored(A \cup W) /\ a \in Extended
  BY PeakFacts DEF Scored, Extended
<1>2. m = a \/ \E t \in W : ScoreOf(t) = m
  BY DEF Largest
<1>3. MaxOf(a, m) = m /\ \A t \in W : MaxOf(ScoreOf(t), m) = m
  BY DEF Largest
<1>4. CASE a = NegInf
  <2>1. A = {} /\ A \cup W = W
    BY <1>4, PeakFacts
  <2>2. CASE m = NegInf
    <3>1. W = {}
      BY <1>3, <2>2 DEF MaxOf, Scored
    <3>2. QED
      BY <2>1, <2>2, <3>1, PeakOne
  <2>3. CASE m # NegInf
    <3>1. m \in Int /\ \E t \in W : ScoreOf(t) = m
      BY <1>2, <1>4, <2>3 DEF Scored
    <3>2. \A t \in W : ScoreOf(t) <= m
      BY <1>3, <3>1 DEF MaxOf, Scored
    <3>3. QED
      BY <2>1, <3>1, <3>2, PeakFacts
  <2>4. QED
    BY <2>2, <2>3
<1>5. CASE a # NegInf
  <2>1. /\ a \in Int /\ \E t \in A : ScoreOf(t) = a
        /\ \A t \in A : ScoreOf(t) <= a
    BY <1>5, PeakFacts
  <2>2. m \in Int
    BY <1>2, <2>1 DEF Scored
  <2>3. a <= m /\ \A t \in W : ScoreOf(t) <= m
    BY <1>3, <2>1, <2>2 DEF MaxOf, Scored
  <2>4. \A t \in A \cup W : ScoreOf(t) <= m
    BY <2>1, <2>2, <2>3 DEF Scored
  <2>5. \E t \in A \cup W : ScoreOf(t) = m
    BY <1>2, <2>1
  <2>6. QED
    BY <1>1, <2>2, <2>4, <2>5, PeakFacts
<1>6. QED
  BY <1>4, <1>5

\* Taking in candidates that were not counted yet, with the new maximum m.
LEMMA AbsorbState ==
  ASSUME NEW V, NEW S, NEW W, Scored(V \cup S), Scored(W), W \cap (V \cup S) = {},
         NEW s, IsState(s, V, S), NEW m, Peak(m, V \cup S \cup W)
  PROVE  IsState(Absorb(s, [t \in W |-> ScoreOf(t)], m), V \cup W, S)
<1> DEFINE f == [t \in W |-> ScoreOf(t)]
           A == V \cup S
<1>1. Peak(s.max, A) /\ s.den = Sum(A, s.max) /\ s.acc = Sum(V, s.max)
  BY StateIs
<1>2. Scored(A \cup W)
  BY DEF Scored
<1>3. m \in Extended /\ (m = NegInf => A = {} /\ W = {})
  BY <1>2, PeakFacts DEF Extended
<1>4. [t \in DOMAIN f |-> f[t] - m] = Sum(W, m)
  BY DEF Sum
<1>5. Guarded(s.den, s.max, m) = Sum(A, m) /\ Guarded(s.acc, s.max, m) = Sum(V, m)
  BY <1>1, <1>3, Rescale
<1>6. /\ Plus(Sum(A, m), Sum(W, m)) = Sum(A \cup W, m)
      /\ Plus(Sum(V, m), Sum(W, m)) = Sum(V \cup W, m)
  BY PlusSum
<1>7. Absorb(s, f, m) = [max |-> m, den |-> Sum(A \cup W, m), acc |-> Sum(V \cup W, m)]
  BY <1>4, <1>5, <1>6 DEF Absorb
<1>8. A \cup W = (V \cup W) \cup S
  OBVIOUS
<1>9. /\ Absorb(s, f, m).max = m /\ Absorb(s, f, m).den = Sum((V \cup W) \cup S, m)
      /\ Absorb(s, f, m).acc = Sum(V \cup W, m)
  BY <1>7, <1>8
<1>10. Peak(m, (V \cup W) \cup S)
  BY <1>8
<1>11. IsState(Absorb(s, f, m), V \cup W, S)
  BY <1>9, <1>10, StateIs
<1>12. QED
  BY <1>11

\* An iteration that counts one more candidate.
LEMMA OnlineState ==
  ASSUME NEW V, NEW S, Scored(V \cup S), NEW t, ScoreOf(t) \in Int, t \notin V \cup S,
         NEW s, IsState(s, V, S)
  PROVE  IsState(Online(s, t, ScoreOf(t)), V \cup {t}, S)
<1>1. Peak(s.max, V \cup S) /\ Peak(ScoreOf(t), {t}) /\ Scored({t})
  BY StateIs, PeakOne DEF Scored
<1>2. Peak(MaxOf(s.max, ScoreOf(t)), V \cup S \cup {t})
  BY <1>1, PeakUnion
<1>3. [u \in {t} |-> ScoreOf(t)] = [u \in {t} |-> ScoreOf(u)]
  OBVIOUS
<1>4. QED
  BY <1>1, <1>2, <1>3, AbsorbState DEF Online

\* Fresh buffers have seen nothing.
LEMMA FreshState == IsState(Fresh, {}, {})
BY StateIs, PeakOne, SumNothing DEF Fresh

\* Buffers that start from a sink have seen it.
LEMMA FromSinkState ==
  ASSUME sink \in Int
  PROVE  IsState(FromSink(sink), {}, {Sink})
<1>1. ScoreOf(Sink) = sink
  BY DEF ScoreOf
<1>2. Peak(sink, {Sink})
  BY <1>1, PeakOne
<1>3. Sum({Sink}, sink) = [t \in {Sink} |-> 0]
  BY <1>1 DEF Sum
<1>4. {} \cup {Sink} = {Sink}
  OBVIOUS
<1>5. QED
  BY <1>2, <1>3, <1>4, StateIs, SumNothing DEF FromSink

-----------------------------------------------------------------------------
(* Results.                                                                *)

\* o is the softmax of V among A with the sink, all exponents less m, which none exceeds.
NormalIn(o, V, A) ==
  \E m \in Extended :
    /\ o.num = Sum(V, m) /\ o.den = Sum(A \cup SinkTerm, m)
    /\ m = NegInf => A \cup SinkTerm = {}
    /\ \A t \in A \cup SinkTerm : ScoreOf(t) <= m

Normal(o, V) == NormalIn(o, V, V)

\* The sink is a term of its own.
LEMMA SinkFacts ==
  /\ Sink \notin Terms
  /\ SinkTerm \subseteq {Sink} /\ (sink \in Extended => Scored(SinkTerm))
  /\ sink \in Extended => Peak(sink, SinkTerm)
  /\ \A m : SinkWeight(sink, m) = Sum(SinkTerm, m)
<1>1. ScoreOf(Sink) = sink
  BY DEF ScoreOf
<1>2. Sink \notin Terms
  BY DEF Sink, Terms, Subsets
<1>3. SinkTerm \subseteq {Sink} /\ (sink \in Extended => Scored(SinkTerm))
  BY <1>1 DEF SinkTerm, Scored, Extended
<1>4. sink \in Extended => Peak(sink, SinkTerm)
  BY <1>1, PeakOne DEF SinkTerm, Extended
<1>5. ASSUME NEW m PROVE SinkWeight(sink, m) = Sum(SinkTerm, m)
  <2>1. CASE sink = NegInf
    BY <2>1, SumNothing DEF SinkWeight, SinkTerm
  <2>2. CASE sink # NegInf
    BY <1>1, <2>2 DEF SinkWeight, SinkTerm, Sum
  <2>3. QED
    BY <2>1, <2>2
<1>6. QED
  BY <1>2, <1>3, <1>4, <1>5

\* A normal result is the softmax, and weighs nothing by more than 1.
LEMMA NormalIsSoftmax ==
  ASSUME NEW A, A \subseteq Terms, Scored(A), NEW V, V \subseteq A, NEW W, A = V \cup W,
         sink \in Extended, NEW o, NormalIn(o, V, A)
  PROVE  /\ IsSoftmax(o, V, W)
         /\ IsSum(o.num) /\ IsSum(o.den) /\ \A t \in DOMAIN o.den : o.den[t] <= 0
<1>1. PICK m \in Extended :
        /\ o.num = Sum(V, m) /\ o.den = Sum(A \cup SinkTerm, m)
        /\ m = NegInf => A \cup SinkTerm = {}
        /\ \A t \in A \cup SinkTerm : ScoreOf(t) <= m
  BY DEF NormalIn
<1>2. Scored(A \cup SinkTerm) /\ A \cup SinkTerm \subseteq AllTerms
  BY SinkFacts DEF Scored, AllTerms
<1>3. A \cup SinkTerm # {} => m \in Int
  BY <1>1 DEF Extended
<1>4. DOMAIN o.num = V /\ DOMAIN o.den = A \cup SinkTerm
  BY <1>1, SumDomain
<1>5. /\ \A t \in V : o.num[t] = ScoreOf(t) - m
      /\ \A t \in A \cup SinkTerm : o.den[t] = ScoreOf(t) - m
  BY <1>1 DEF Sum
<1>6. \A t, u \in DOMAIN o.den : o.den[t] - o.den[u] = ScoreOf(t) - ScoreOf(u)
  BY <1>2, <1>3, <1>4, <1>5 DEF Scored
<1>7. IsSoftmax(o, V, W)
  BY <1>4, <1>5, <1>6 DEF IsSoftmax
<1>8. IsSum(o.num) /\ IsSum(o.den)
  BY <1>2, <1>3, <1>4, <1>5 DEF IsSum, Scored
<1>9. ASSUME NEW t \in DOMAIN o.den PROVE o.den[t] <= 0
  <2>1. t \in A \cup SinkTerm /\ o.den[t] = ScoreOf(t) - m /\ ScoreOf(t) <= m
    BY <1>1, <1>4, <1>5
  <2>2. m \in Int /\ ScoreOf(t) \in Int
    BY <1>2, <1>3, <2>1 DEF Scored
  <2>3. QED
    BY <2>1, <2>2
<1>10. QED
  BY <1>7, <1>8, <1>9

\* The buffers of a softmax over V say whether V is empty.
LEMMA StateFacts ==
  ASSUME NEW V, Scored(V), NEW s, IsState(s, V, {})
  PROVE  /\ Peak(s.max, V) /\ s.den = Sum(V, s.max) /\ s.acc = Sum(V, s.max)
         /\ s.max \in Extended /\ (s.max = NegInf <=> V = {}) /\ (s.den = Nothing <=> V = {})
         /\ LseOf(s) = [max |-> s.max, den |-> s.den]
<1>1. V \cup {} = V
  OBVIOUS
<1>2. Peak(s.max, V) /\ s.den = Sum(V, s.max) /\ s.acc = Sum(V, s.max)
  BY <1>1, StateIs
<1>3. s.max \in Extended /\ (s.max = NegInf <=> V = {})
  BY <1>2, PeakFacts DEF Extended
<1>4. s.den = Nothing <=> V = {}
  BY <1>2, SumDomain
<1>5. LseOf(s) = [max |-> s.max, den |-> s.den]
  BY <1>3, <1>4 DEF LseOf
<1>6. QED
  BY <1>2, <1>3, <1>4, <1>5

\* Sums with the common maximum m add up to a normal result.
LEMMA NormalSums ==
  ASSUME NEW A, Scored(A), A \cap SinkTerm = {}, NEW m, Peak(m, A \cup SinkTerm), NEW V,
         sink \in Extended, NEW num, num = Sum(V, m), NEW w, w = Sum(A, m)
  PROVE  NormalIn(Out(num, Plus(w, SinkWeight(sink, m))), V, A)
<1>1. Scored(A \cup SinkTerm)
  BY SinkFacts DEF Scored
<1>2. Plus(w, SinkWeight(sink, m)) = Sum(A \cup SinkTerm, m)
  BY SinkFacts, PlusSum
<1>3. m \in Extended /\ (m = NegInf => A \cup SinkTerm = {})
  BY <1>1, PeakFacts DEF Extended
<1>4. \A t \in A \cup SinkTerm : ScoreOf(t) <= m
  BY <1>1, PeakFacts
<1>5. QED
  BY <1>2, <1>3, <1>4 DEF NormalIn, Out

\* Finishing a state with the sink gives the softmax.
LEMMA FinishNormal ==
  ASSUME NEW V, V \subseteq Terms, Scored(V), sink \in Extended, NEW s, IsState(s, V, {})
  PROVE  Normal(FinishWithSink(s, sink), V)
<1> DEFINE m == MaxOf(s.max, sink)
<1>1. /\ Peak(s.max, V) /\ s.den = Sum(V, s.max) /\ s.acc = Sum(V, s.max)
      /\ s.max \in Extended /\ (s.max = NegInf <=> V = {}) /\ (s.den = Nothing <=> V = {})
  BY StateFacts
<1>2. Peak(m, V \cup SinkTerm)
  BY <1>1, SinkFacts, PeakUnion
<1>3. m \in Extended /\ (m = NegInf => V = {})
  BY <1>1, MaxFacts
<1>4. (IF s.den # Nothing THEN s.max ELSE NegInf) = s.max
  BY <1>1
<1>5. /\ (IF s.den # Nothing THEN Times(s.acc, s.max, m) ELSE Nothing) = Sum(V, m)
      /\ (IF s.den # Nothing THEN Times(s.den, s.max, m) ELSE Nothing) = Sum(V, m)
  BY <1>1, <1>3, Rescale, SumNothing
<1>6. FinishWithSink(s, sink) = Out(Sum(V, m), Plus(Sum(V, m), SinkWeight(sink, m)))
  BY <1>4, <1>5 DEF FinishWithSink
<1>7. V \cap SinkTerm = {}
  BY SinkFacts
<1>8. QED
  BY <1>2, <1>6, <1>7, NormalSums DEF Normal

\* Without a sink it gives the sums themselves, even where nothing was seen.
LEMMA FinishNoSink ==
  ASSUME NEW V, Scored(V), NEW s, IsState(s, V, {})
  PROVE  FinishWithSink(s, NegInf) = Out(s.acc, s.den)
<1>1. /\ Peak(s.max, V) /\ s.den = Sum(V, s.max) /\ s.acc = Sum(V, s.max)
      /\ s.max \in Extended /\ (s.max = NegInf <=> V = {}) /\ (s.den = Nothing <=> V = {})
  BY StateFacts
<1>2. (IF s.den # Nothing THEN s.max ELSE NegInf) = s.max
  BY <1>1
<1>3. MaxOf(s.max, NegInf) = s.max /\ SinkWeight(NegInf, s.max) = Nothing
  BY <1>1 DEF MaxOf, SinkWeight
<1>4. /\ (IF s.den # Nothing THEN Times(s.acc, s.max, s.max) ELSE Nothing) = s.acc
      /\ (IF s.den # Nothing THEN Times(s.den, s.max, s.max) ELSE Nothing) = s.den
  BY <1>1, Rescale, SumNothing
<1>5. Plus(s.den, Nothing) = s.den
  <2>1. Plus(Sum(V, s.max), Sum({}, s.max)) = Sum(V \cup {}, s.max) /\ V \cup {} = V
    BY PlusSum
  <2>2. QED
    BY <1>1, <2>1, SumNothing
<1>6. QED
  BY <1>2, <1>3, <1>4, <1>5 DEF FinishWithSink

\* Two states with disjoint candidates finish to the softmax over both.
LEMMA FinishTwoNormal ==
  ASSUME NEW V, NEW W, V \cup W \subseteq Terms, Scored(V), Scored(W), V \cap W = {},
         sink \in Extended, NEW s, IsState(s, V, {}), NEW r, IsState(r, W, {})
  PROVE  Normal(FinishTwo(s, r, sink), V \cup W)
<1> DEFINE m == MaxOf(MaxOf(s.max, r.max), sink)
<1>1. /\ Peak(s.max, V) /\ s.den = Sum(V, s.max) /\ s.acc = Sum(V, s.max)
      /\ s.max \in Extended /\ (s.max = NegInf <=> V = {}) /\ (s.den = Nothing <=> V = {})
  BY StateFacts
<1>2. /\ Peak(r.max, W) /\ r.den = Sum(W, r.max) /\ r.acc = Sum(W, r.max)
      /\ r.max \in Extended /\ (r.max = NegInf <=> W = {}) /\ (r.den = Nothing <=> W = {})
  BY StateFacts
<1>3. Scored(V \cup W) /\ Peak(MaxOf(s.max, r.max), V \cup W)
  BY <1>1, <1>2, PeakUnion DEF Scored
<1>4. Peak(m, (V \cup W) \cup SinkTerm)
  BY <1>3, SinkFacts, PeakUnion
<1>5. m \in Extended /\ (m = NegInf => V = {} /\ W = {})
  BY <1>1, <1>2, MaxFacts
<1>6. /\ (IF s.den = Nothing THEN NegInf ELSE s.max) = s.max
      /\ (IF r.den = Nothing THEN NegInf ELSE r.max) = r.max
  BY <1>1, <1>2
<1>7. /\ (IF s.den = Nothing THEN Nothing ELSE Times(s.acc, s.max, m)) = Sum(V, m)
      /\ (IF s.den = Nothing THEN Nothing ELSE Times(s.den, s.max, m)) = Sum(V, m)
  BY <1>1, <1>5, Rescale, SumNothing
<1>8. /\ (IF r.den = Nothing THEN Nothing ELSE Times(r.acc, r.max, m)) = Sum(W, m)
      /\ (IF r.den = Nothing THEN Nothing ELSE Times(r.den, r.max, m)) = Sum(W, m)
  BY <1>2, <1>5, Rescale, SumNothing
<1>9. Plus(Sum(V, m), Sum(W, m)) = Sum(V \cup W, m)
  BY PlusSum
<1>10. FinishTwo(s, r, sink) =
         Out(Sum(V \cup W, m), Plus(Sum(V \cup W, m), SinkWeight(sink, m)))
  BY <1>6, <1>7, <1>8, <1>9 DEF FinishTwo
<1>11. (V \cup W) \cap SinkTerm = {}
  BY SinkFacts
<1>12. QED
  BY <1>3, <1>4, <1>10, <1>11, NormalSums DEF Normal

\* What a rank or a subset reports: its output without the sink and its log-sum-exp.
Report(s) == [out |-> Out(s.acc, s.den), lse |-> LseOf(s)]

\* Two reports with disjoint candidates merge to the softmax over both, unless there is
\* neither a candidate nor a sink.
LEMMA MergeTwoNormal ==
  ASSUME NEW V, NEW W, V \cup W \subseteq Terms, Scored(V), Scored(W), V \cap W = {},
         sink \in Extended, sink # NegInf \/ V \cup W # {},
         NEW s, IsState(s, V, {}), NEW r, IsState(r, W, {})
  PROVE  Normal(MergeTwo(Report(s), Report(r), sink), V \cup W)
<1> DEFINE m == MaxOf(MaxOf(s.max, r.max), sink)
<1>1. /\ Peak(s.max, V) /\ s.den = Sum(V, s.max) /\ s.acc = Sum(V, s.max)
      /\ s.max \in Extended /\ (s.max = NegInf <=> V = {})
      /\ LseOf(s) = [max |-> s.max, den |-> s.den]
  BY StateFacts
<1>2. /\ Peak(r.max, W) /\ r.den = Sum(W, r.max) /\ r.acc = Sum(W, r.max)
      /\ r.max \in Extended /\ (r.max = NegInf <=> W = {})
      /\ LseOf(r) = [max |-> r.max, den |-> r.den]
  BY StateFacts
<1>3. Scored(V \cup W) /\ Peak(MaxOf(s.max, r.max), V \cup W)
  BY <1>1, <1>2, PeakUnion DEF Scored
<1>4. Peak(m, (V \cup W) \cup SinkTerm)
  BY <1>3, SinkFacts, PeakUnion
<1>5. m \in Extended /\ m # NegInf
  BY <1>1, <1>2, MaxFacts
<1>6. Times(s.acc, s.max, m) = Sum(V, m) /\ Times(s.den, s.max, m) = Sum(V, m)
  BY <1>1, <1>5, Rescale
<1>7. Times(r.acc, r.max, m) = Sum(W, m) /\ Times(r.den, r.max, m) = Sum(W, m)
  BY <1>2, <1>5, Rescale
<1>8. Plus(Sum(V, m), Sum(W, m)) = Sum(V \cup W, m)
  BY PlusSum
<1>9. /\ Weighed(Report(s).out, Report(s).lse, m) = Sum(V, m)
      /\ Weighed(Report(r).out, Report(r).lse, m) = Sum(W, m)
      /\ Report(s).lse.max = s.max /\ Report(r).lse.max = r.max
      /\ Report(s).lse.den = s.den /\ Report(r).lse.den = r.den
  BY <1>1, <1>2, <1>6, <1>7 DEF Weighed, Report, Out
<1>10. MergeTwo(Report(s), Report(r), sink) =
         Out(Sum(V \cup W, m), Plus(Sum(V \cup W, m), SinkWeight(sink, m)))
  BY <1>6, <1>7, <1>8, <1>9 DEF MergeTwo
<1>11. (V \cup W) \cap SinkTerm = {}
  BY SinkFacts
<1>12. QED
  BY <1>3, <1>4, <1>10, <1>11, NormalSums DEF Normal

\* One report and the sink.
LEMMA MergeSingleNormal ==
  ASSUME NEW V, V \subseteq Terms, Scored(V), sink \in Extended, sink # NegInf,
         NEW s, IsState(s, V, {})
  PROVE  Normal(MergeSingle(Report(s), sink), V)
<1> DEFINE m == MaxOf(s.max, sink)
<1>1. /\ Peak(s.max, V) /\ s.den = Sum(V, s.max) /\ s.acc = Sum(V, s.max)
      /\ s.max \in Extended /\ LseOf(s) = [max |-> s.max, den |-> s.den]
  BY StateFacts
<1>2. Peak(m, V \cup SinkTerm)
  BY <1>1, SinkFacts, PeakUnion
<1>3. m \in Extended /\ m # NegInf
  BY <1>1, MaxFacts
<1>4. Times(s.acc, s.max, m) = Sum(V, m) /\ Times(s.den, s.max, m) = Sum(V, m)
  BY <1>1, <1>3, Rescale
<1>5. /\ Weighed(Report(s).out, Report(s).lse, m) = Sum(V, m)
      /\ Report(s).lse.max = s.max /\ Report(s).lse.den = s.den
  BY <1>1, <1>4 DEF Weighed, Report, Out
<1>6. MergeSingle(Report(s), sink) = Out(Sum(V, m), Plus(Sum(V, m), SinkWeight(sink, m)))
  BY <1>4, <1>5 DEF MergeSingle
<1>7. V \cap SinkTerm = {}
  BY SinkFacts
<1>8. QED
  BY <1>2, <1>6, <1>7, NormalSums DEF Normal

\* The materialized kernels have the sink in the buffers from the start.
LEMMA ScoresNormal ==
  ASSUME NEW V, Scored(V), sink \in Int, NEW s, IsState(s, V, {Sink})
  PROVE  Normal(Out(s.acc, s.den), V)
<1>1. SinkTerm = {Sink} /\ Scored(V \cup SinkTerm)
  BY SinkFacts DEF SinkTerm, Scored, Extended
<1>2. /\ Peak(s.max, V \cup SinkTerm) /\ s.den = Sum(V \cup SinkTerm, s.max)
      /\ s.acc = Sum(V, s.max)
  BY <1>1, StateIs
<1>3. s.max \in Extended /\ s.max # NegInf /\ \A t \in V \cup SinkTerm : ScoreOf(t) <= s.max
  BY <1>1, <1>2, PeakFacts DEF Extended
<1>4. QED
  BY <1>2, <1>3 DEF Normal, NormalIn, Out

-----------------------------------------------------------------------------
(* The invariant.                                                          *)

\* Sums in which no term weighs more than 1.
NonPositive == { n \in Int : n <= 0 }
Weights     == UNION { [A -> NonPositive] : A \in SUBSET AllTerms }

Buffers  == [max : Extended, den : Weights, acc : Weights]
Outputs  == [num : Weights, den : Weights]
Results  == [out : Outputs, lse : [max : Extended, den : Weights]]

Pcs == {"idle", "mask", "matmul", "launch", "loop", "subset", "merge", "done"}

InputsTyped ==
  /\ plan \in Plans /\ parts \in 1 .. 2
  /\ index \in [Subsets -> [Cols -> Indices]]
  /\ score \in [Subsets -> [Cols -> Int]]
  /\ lens \in [Subsets -> 0 .. K]
  /\ sink \in Extended
  /\ chunk \in 1 .. K

CursorTyped ==
  /\ pc \in Pcs /\ part \in Subsets /\ kernel \in Kernels
  /\ offset \in 0 .. K /\ width \in 0 .. 2 * K /\ at \in 0 .. 2 * K

DataTyped ==
  /\ mask \subseteq Terms
  /\ logits \in [Cols -> Int]
  /\ st \in [0 .. 2 -> Buffers]
  /\ sub \in [Subsets -> Results]
  /\ out \in Outputs

Typed == InputsTyped /\ CursorTyped /\ DataTyped

\* What Partial leaves unsaid: a pipeline that does not work in pieces never leaves the
\* first column, and only the scores go through the matrix product.
Whole ==
  /\ pc = "launch" /\ plan \notin StatePlans \cup {"chunked"} => offset = 0
  /\ pc = "loop" /\ plan = "fused" => offset = 0 /\ width = K
  /\ pc = "matmul" => plan = "scores"

Inv == Typed /\ Partial /\ Whole

\* The plans whose buffers hold the softmax of what was seen after every iteration.
OnlinePlans == DcpPlans \cup StatePlans \cup {"paged_sink", "global_paged_sink"}

\* The online, the split and the score pipelines are different pipelines.
LEMMA PlanFacts ==
  /\ \A p \in Plans : p \in OnlinePlans \cup SplitPlans \cup {"scores"}
  /\ \A p \in OnlinePlans : p \notin SplitPlans /\ p # "scores" /\ p # "chunked"
  /\ \A p \in SplitPlans : p \notin OnlinePlans /\ p # "scores" /\ p # "materialized"
  /\ "scores" \notin OnlinePlans \cup SplitPlans
BY DEF Plans, OnlinePlans, DcpPlans, StatePlans, SinkPlans, SplitPlans

\* A kernel runs in the pipelines it belongs to only.
LEMMA KernelPlan ==
  ASSUME plan \in Plans, kernel \in KernelsOf(plan)
  PROVE  /\ kernel \in {"indexed", "indexed_multihead"} => plan = "bf16"
         /\ kernel = "fused" => plan = "fused"
         /\ kernel = "materialized" => plan = "materialized"
         /\ kernel \in {"gathered", "gathered_slots", "slots", "slots_multihead",
                        "paged", "paged_multihead"} => plan \in StatePlans
         /\ kernel = "paged_sink" => plan = "paged_sink"
         /\ kernel = "global_paged_sink" => plan = "global_paged_sink"
         /\ kernel \in {"scores_heads", "scores_values", "scores_max", "scores_sum"} =>
              plan = "scores"
         /\ kernel \in {"split_score", "split_stats", "split_value", "merge_acc",
                        "merge_state", "split_done"} => plan \in SplitPlans
<1>1. plan \in {"bf16", "fused", "materialized", "paged_sink", "global_paged_sink", "scores"}
               \cup StatePlans \cup SplitPlans
  BY DEF Plans, DcpPlans, SinkPlans
<1>2. CASE plan \in StatePlans
  BY <1>2 DEF KernelsOf, StatePlans
<1>3. CASE plan \in SplitPlans
  BY <1>3 DEF KernelsOf, StatePlans, SplitPlans
<1>4. CASE plan \in {"bf16", "fused", "materialized", "paged_sink", "global_paged_sink", "scores"}
  BY <1>4 DEF KernelsOf, StatePlans, SplitPlans
<1>5. QED
  BY <1>1, <1>2, <1>3, <1>4

\* Terms and their scores.
LEMMA TermFacts ==
  ASSUME InputsTyped
  PROVE  /\ \A t \in Terms : /\ t[1] \in Subsets /\ t[2] \in Cols /\ t = <<t[1], t[2]>>
                             /\ ScoreOf(t) \in Int
         /\ \A p \in Subsets, c \in Cols : <<p, c>> \in Terms
         /\ \A A : A \subseteq Terms => Scored(A)
<1>1. \A t \in Terms : t[1] \in Subsets /\ t[2] \in Cols /\ t = <<t[1], t[2]>>
  BY DEF Terms
<1>2. \A t \in Terms : t # Sink
  BY SinkFacts
<1>3. \A t \in Terms : score[t[1]][t[2]] \in Int
  BY <1>1 DEF InputsTyped
<1>4. \A t \in Terms : ScoreOf(t) \in Int
  BY <1>2, <1>3 DEF ScoreOf
<1>5. \A p \in Subsets, c \in Cols : <<p, c>> \in Terms
  BY DEF Terms
<1>6. QED
  BY <1>1, <1>4, <1>5 DEF Scored

\* A sum that no score exceeds has weights that are not positive.
LEMMA WeightsFacts ==
  /\ \A f \in Weights : IsSum(f) /\ \A t \in DOMAIN f : f[t] <= 0
  /\ Nothing \in Weights
<1>1. ASSUME NEW f \in Weights PROVE IsSum(f) /\ \A t \in DOMAIN f : f[t] <= 0
  <2>1. PICK A \in SUBSET AllTerms : f \in [A -> NonPositive]
    BY DEF Weights
  <2>2. QED
    BY <2>1 DEF IsSum, NonPositive
<1>2. Nothing \in Weights
  <2>1. Nothing \in [{} -> NonPositive]
    BY DEF Nothing
  <2>2. QED
    BY <2>1 DEF Weights
<1>3. QED
  BY <1>1, <1>2

\* Relative to the maximum of a set, no candidate of it weighs more than one.
LEMMA SumWeights ==
  ASSUME NEW A, A \subseteq AllTerms, Scored(A), NEW B, B \subseteq A, NEW m, Peak(m, A)
  PROVE  Sum(B, m) \in Weights
<1>1. \A t \in B : ScoreOf(t) - m \in NonPositive
  BY PeakFacts DEF Scored, NonPositive
<1>2. Sum(B, m) \in [B -> NonPositive]
  BY <1>1 DEF Sum
<1>3. QED
  BY <1>2 DEF Weights

\* The state of a softmax is buffers.
LEMMA StateTyped ==
  ASSUME NEW V, NEW S, V \cup S \subseteq AllTerms, Scored(V \cup S), NEW s, IsState(s, V, S)
  PROVE  s.max \in Extended /\ s.den \in Weights /\ s.acc \in Weights
<1>1. Peak(s.max, V \cup S) /\ s.den = Sum(V \cup S, s.max) /\ s.acc = Sum(V, s.max)
  BY StateIs
<1>2. s.max \in Extended
  BY <1>1, PeakFacts DEF Extended
<1>3. QED
  BY <1>1, <1>2, SumWeights

\* A buffer brought to a softmax is a buffer.
LEMMA AbsorbTyped ==
  ASSUME NEW V, NEW S, V \cup S \subseteq AllTerms, Scored(V \cup S), NEW s, NEW f, NEW m,
         IsState(Absorb(s, f, m), V, S)
  PROVE  Absorb(s, f, m) \in Buffers
BY StateTyped DEF Absorb, Buffers

\* A normal result is an output.
LEMMA NormalTyped ==
  ASSUME NEW A, A \subseteq Terms, Scored(A), NEW V, V \subseteq A, sink \in Extended, NEW n, NEW d,
         NormalIn(Out(n, d), V, A)
  PROVE  Out(n, d) \in Outputs
<1>1. PICK m \in Extended :
        /\ n = Sum(V, m) /\ d = Sum(A \cup SinkTerm, m)
        /\ m = NegInf => A \cup SinkTerm = {}
        /\ \A t \in A \cup SinkTerm : ScoreOf(t) <= m
  BY DEF NormalIn, Out
<1>2. Scored(A \cup SinkTerm) /\ A \cup SinkTerm \subseteq AllTerms
  BY SinkFacts DEF Scored, AllTerms
<1>3. \A t \in A \cup SinkTerm : ScoreOf(t) - m \in NonPositive
  BY <1>1, <1>2 DEF Extended, Scored, NonPositive
<1>4. Sum(V, m) \in [V -> NonPositive] /\ Sum(A \cup SinkTerm, m) \in [A \cup SinkTerm -> NonPositive]
  BY <1>3 DEF Sum
<1>5. n \in Weights /\ d \in Weights
  BY <1>1, <1>2, <1>4 DEF Weights
<1>6. QED
  BY <1>5 DEF Out, Outputs

-----------------------------------------------------------------------------
(* What a step inside a call leaves alone.                                 *)

\* The valid candidates of subset p before column n.
Upto(p, n) == { t \in Terms : t[1] = p /\ t[2] < n /\ Valid(t) }

\* A softmax stays one while the inputs of the call stay.
LEMMA StateKept ==
  ASSUME UNCHANGED inputs, NEW s, NEW V, NEW S
  PROVE  IsState(s, V, S)' <=> IsState(s, V, S)
BY DEF IsState, ScoreOf, IsRow, inputs

\* While the call's inputs stay, so do the valid candidates, their scores and the sink.
LEMMA InputsKept ==
  ASSUME UNCHANGED inputs
  PROVE  /\ InputsTyped => InputsTyped'
         /\ \A t : (Valid(t)' <=> Valid(t)) /\ ScoreOf(t)' = ScoreOf(t)
         /\ \A p, n : Upto(p, n)' = Upto(p, n)
         /\ SinkTerm' = SinkTerm
<1>1. InputsTyped => InputsTyped'
  BY DEF InputsTyped, inputs
<1>2. \A t : (Valid(t)' <=> Valid(t)) /\ ScoreOf(t)' = ScoreOf(t)
  BY DEF Valid, ScoreOf, IsRow, inputs
<1>3. \A p, n : Upto(p, n)' = Upto(p, n)
  BY <1>2 DEF Upto
<1>4. SinkTerm' = SinkTerm
  BY DEF SinkTerm, inputs
<1>5. QED
  BY <1>1, <1>2, <1>3, <1>4

\* What is known of the inputs stays known of them.
LEMMA InputsSoundKept ==
  ASSUME UNCHANGED inputs, InputsSound
  PROVE  InputsSound'
<1>1. \A t : Valid(t)' <=> Valid(t)
  BY InputsKept
<1>2. plan' = plan /\ parts' = parts /\ index' = index /\ lens' = lens /\ sink' = sink
  BY DEF inputs
<1>3. QED
  BY <1>1, <1>2 DEF InputsSound

\* What a subset has been through.
LEMMA SeenIs ==
  ASSUME NEW p
  PROVE  Seen(p) = Upto(p, Reached(p))
BY DEF Seen, Upto

\* What a subset has seen after a step, from how far it has got.
LEMMA SeenNext ==
  ASSUME UNCHANGED inputs, NEW p
  PROVE  Seen(p)' = Upto(p, Reached(p)')
<1>1. \A t : Valid(t)' <=> Valid(t)
  BY InputsKept
<1>2. QED
  BY <1>1 DEF Seen, Upto

\* One column further.
LEMMA UptoNext ==
  ASSUME InputsTyped, NEW p \in Subsets, NEW n \in Cols
  PROVE  /\ Upto(p, n + 1) = Upto(p, n) \cup (IF Valid(<<p, n>>) THEN {<<p, n>>} ELSE {})
         /\ <<p, n>> \in Terms /\ <<p, n>> \notin Upto(p, n)
<1>1. <<p, n>> \in Terms /\ <<p, n>>[1] = p /\ <<p, n>>[2] = n
  BY TermFacts
<1>2. \A t \in Terms : t[1] = p /\ t[2] = n => t = <<p, n>>
  BY TermFacts
<1>3. \A t \in Terms : t[2] < n + 1 <=> t[2] < n \/ t[2] = n
  BY TermFacts DEF Cols
<1>4. QED
  BY <1>1, <1>2, <1>3 DEF Upto, Cols

\* Columns beyond the valid length add nothing, and no columns are nothing.
LEMMA UptoEnd ==
  ASSUME InputsTyped, NEW p \in Subsets
  PROVE  /\ Upto(p, 0) = {}
         /\ \A m, n \in Nat : m <= n /\ lens[p] <= m => Upto(p, n) = Upto(p, m)
         /\ \A n : Upto(p, n) \subseteq Terms
<1>1. Upto(p, 0) = {}
  BY TermFacts DEF Upto, Cols
<1>2. ASSUME NEW m \in Nat, NEW n \in Nat, m <= n, lens[p] <= m
      PROVE  Upto(p, n) = Upto(p, m)
  <2>1. lens[p] \in 0 .. K
    BY DEF InputsTyped
  <2>2. \A t \in Terms : t[1] = p /\ Valid(t) => t[2] < m /\ t[2] < n
    BY <1>2, <2>1, TermFacts DEF Valid, Cols
  <2>3. QED
    BY <2>2 DEF Upto
<1>3. QED
  BY <1>1, <1>2 DEF Upto

\* Candidates of different subsets are different.
LEMMA UptoApart ==
  ASSUME InputsTyped, NEW m, NEW n
  PROVE  Upto(0, m) \cap Upto(1, n) = {}
BY DEF Upto

\* The bound of a loop is within the columns of the launch.
LEMMA BoundFacts ==
  ASSUME InputsTyped, CursorTyped
  PROVE  /\ LocalEff \in Nat /\ LocalEff <= width /\ Bound \in Nat /\ Bound <= width
         /\ LocalEff < width => lens[part] <= offset + LocalEff
         /\ \A n \in Nat : n < LocalEff => offset + n < lens[part]
<1>1. lens[part] \in 0 .. K /\ offset \in 0 .. K /\ width \in 0 .. 2 * K
  BY DEF InputsTyped, CursorTyped
<1>2. LocalEff \in Nat /\ LocalEff <= width
  BY <1>1 DEF LocalEff, MinOf
<1>3. LocalEff < width => lens[part] <= offset + LocalEff
  BY <1>1 DEF LocalEff, MinOf
<1>4. \A n \in Nat : n < LocalEff => offset + n < lens[part]
  BY <1>1 DEF LocalEff, MinOf
<1>5. QED
  BY <1>1, <1>2, <1>3, <1>4 DEF Bound

-----------------------------------------------------------------------------
(* The loops of the online kernels.                                        *)

\* The candidates in the buffers at hand when the loop has reached column n.
SeenBy(n) ==
  IF plan = "global_paged_sink"
    THEN IF part = 0 THEN Upto(0, n) ELSE Upto(0, K) \cup Upto(1, n)
    ELSE Upto(part, n)

\* What the online kernels have seen are candidates that carry a score.
LEMMA SeenByFacts ==
  ASSUME InputsTyped, CursorTyped, NEW n
  PROVE  SeenBy(n) \subseteq Terms /\ Scored(SeenBy(n)) /\ SeenBy(n) \cup {} \subseteq AllTerms
<1>1. 0 \in Subsets /\ 1 \in Subsets /\ part \in Subsets
  BY DEF Subsets, CursorTyped
<1>2. SeenBy(n) \subseteq Terms
  BY <1>1, UptoEnd DEF SeenBy
<1>3. QED
  BY <1>2, TermFacts DEF AllTerms

\* How far a subset has got inside a launch of the kernels that are not split.
LEMMA ReachedInLoop ==
  ASSUME CursorTyped, pc = "loop", plan \notin SplitPlans, NEW p \in Subsets
  PROVE  Reached(p) = IF p = part THEN offset + at ELSE IF p < part THEN K ELSE 0
BY DEF Reached

\* What the invariant says of the buffers at hand.
LEMMA OnlineIs ==
  ASSUME Inv, pc = "loop", plan \in OnlinePlans
  PROVE  /\ IsState(st[Buffer], SeenBy(offset + at), {}) /\ Buffer \in Subsets
         /\ plan # "scores" /\ offset + width <= K
<1>1. InputsTyped /\ CursorTyped /\ part \in Subsets /\ OnlineSound /\ InCall /\ plan \notin SplitPlans
  BY PlanFacts DEF Inv, Typed, CursorTyped, Partial
<1>2. CASE plan = "global_paged_sink"
  <2>1. IsState(st[0], Seen(0) \cup Seen(1), {}) /\ Buffer = 0
    BY <1>1, <1>2 DEF OnlineSound, Buffer
  <2>2. /\ part = 0 => Seen(0) = Upto(0, offset + at) /\ Seen(1) = {}
        /\ part = 1 => Seen(0) = Upto(0, K) /\ Seen(1) = Upto(1, offset + at)
    BY <1>1, SeenIs, ReachedInLoop, UptoEnd DEF Subsets
  <2>3. Seen(0) \cup Seen(1) = SeenBy(offset + at)
    BY <1>1, <1>2, <2>2 DEF SeenBy, Subsets
  <2>4. QED
    BY <1>1, <1>2, <2>1, <2>3 DEF InCall, Subsets
<1>3. CASE plan # "global_paged_sink"
  <2>1. IsState(st[part], Seen(part), {}) /\ Buffer = part
    BY <1>1, <1>3 DEF OnlineSound, Buffer, OnlinePlans
  <2>2. Seen(part) = Upto(part, offset + at)
    BY <1>1, SeenIs, ReachedInLoop
  <2>3. QED
    BY <1>1, <1>3, <2>1, <2>2, PlanFacts DEF InCall, SeenBy
<1>4. QED
  BY <1>2, <1>3

\* A step of an online loop that leaves the buffers at hand with what the new column
\* says keeps the invariant.
LEMMA OnlineLoop ==
  ASSUME Inv, pc = "loop", plan \in OnlinePlans,
         UNCHANGED <<inputs, pc, part, kernel, offset, width, mask, logits, sub, out>>,
         at' \in Nat, at' <= Bound, NEW new \in Buffers, st' = [st EXCEPT ![Buffer] = new],
         IsState(new, SeenBy(offset + at'), {})
  PROVE  Inv'
<1>1. /\ InputsTyped /\ CursorTyped /\ DataTyped /\ InputsSound /\ InCall /\ MaskSound
      /\ OnlineSound /\ ResultsSound /\ Whole
  BY DEF Inv, Typed, Partial
<1>2. /\ UNCHANGED inputs /\ pc' = pc /\ part' = part /\ kernel' = kernel /\ offset' = offset
      /\ width' = width /\ mask' = mask /\ logits' = logits /\ sub' = sub /\ out' = out
  OBVIOUS
<1>3. /\ plan' = plan /\ parts' = parts /\ index' = index /\ score' = score /\ lens' = lens
      /\ sink' = sink /\ chunk' = chunk
  BY <1>2 DEF inputs
<1>4. /\ plan \notin SplitPlans /\ plan # "scores" /\ plan # "chunked"
      /\ Buffer \in Subsets /\ part \in Subsets /\ 0 \in Subsets /\ 1 \in Subsets
      /\ Subsets \subseteq 0 .. 2
  BY <1>1, PlanFacts, OnlineIs DEF CursorTyped, Subsets
<1>5. Bound \in Nat /\ Bound <= width /\ width \in 0 .. 2 * K /\ offset \in 0 .. K /\ at' \in 0 .. 2 * K
  BY <1>1, BoundFacts DEF CursorTyped
<1>6. Typed'
  <2>1. InputsTyped'
    BY <1>1, <1>2, InputsKept
  <2>2. CursorTyped'
    BY <1>1, <1>2, <1>5 DEF CursorTyped
  <2>3. DataTyped'
    BY <1>1, <1>2, <1>4 DEF DataTyped
  <2>4. QED
    BY <2>1, <2>2, <2>3 DEF Typed
<1>7. InputsSound'
  BY <1>1, <1>2, InputsSoundKept
<1>8. InCall'
  <2>1. Bound' = Bound
    BY <1>2, <1>3 DEF Bound, LocalEff
  <2>2. QED
    BY <1>1, <1>2, <1>3, <2>1 DEF InCall
<1>9. MaskSound'
  BY <1>1, <1>2, <1>3, InputsKept DEF MaskSound
<1>10. OnlineSound'
  <2>1. \A p \in Subsets : Seen(p)' = Upto(p, IF p = part THEN offset + at'
                                              ELSE IF p < part THEN K ELSE 0)
    BY <1>2, <1>3, <1>4, SeenNext DEF Reached
  <2>2. CASE plan = "global_paged_sink"
    <3>1. SeenBy(offset + at') = Seen(0)' \cup Seen(1)'
      BY <1>1, <1>4, <2>1, <2>2, UptoEnd DEF SeenBy, Subsets
    <3>2. st'[0] = new
      BY <1>1, <1>4, <2>2 DEF Buffer, DataTyped
    <3>3. IsState(st[0], Seen(0) \cup Seen(1), {})'
      BY <1>2, <3>1, <3>2, StateKept
    <3>4. plan \notin DcpPlans \cup StatePlans \cup {"paged_sink"}
      BY <2>2 DEF DcpPlans, StatePlans
    <3>5. QED
      BY <1>3, <3>3, <3>4 DEF OnlineSound
  <2>3. CASE plan # "global_paged_sink"
    <3>1. Buffer = part /\ SeenBy(offset + at') = Seen(part)'
      BY <1>4, <2>1, <2>3 DEF SeenBy, Buffer
    <3>2. st'[part] = new /\ \A p \in Subsets : p # part => st'[p] = st[p]
      BY <1>1, <1>4, <3>1 DEF DataTyped
    <3>3. \A p \in Subsets : p # part => Seen(p)' = Seen(p)
      BY <1>1, <1>4, <2>1, SeenIs, ReachedInLoop
    <3>4. plan \in DcpPlans \cup StatePlans \cup {"paged_sink"}
      BY <2>3 DEF OnlinePlans
    <3>5. \A p \in Subsets : IsState(st[p], Seen(p), {})
      BY <1>1, <3>4 DEF OnlineSound
    <3>6. \A p \in Subsets : IsState(st'[p], Seen(p)', {})
      BY <3>1, <3>2, <3>3, <3>5
    <3>7. \A p \in Subsets : IsState(st[p], Seen(p), {})'
      BY <1>2, <3>6, StateKept
    <3>8. QED
      BY <1>3, <2>3, <3>7 DEF OnlineSound
  <2>4. QED
    BY <2>2, <2>3
<1>11. ScoresSound' /\ SplitSound'
  BY <1>3, <1>4 DEF ScoresSound, SplitSound
<1>12. ResultsSound'
  <2>1. CASE plan = "global_paged_sink"
    BY <1>3, <2>1 DEF ResultsSound, DcpPlans
  <2>2. CASE plan # "global_paged_sink"
    <3>1. \A p \in Subsets : p # part => st'[p] = st[p]
      BY <1>1, <2>2 DEF Buffer, DataTyped
    <3>2. \A p \in Subsets : p < part => p # part
      BY <1>4 DEF Subsets
    <3>3. QED
      BY <1>1, <1>2, <1>3, <3>1, <3>2 DEF ResultsSound
  <2>3. QED
    BY <2>1, <2>2
<1>13. Exact' /\ Whole'
  BY <1>1, <1>2, <1>3 DEF Exact, Whole
<1>14. QED
  BY <1>6, <1>7, <1>8, <1>9, <1>10, <1>11, <1>12, <1>13 DEF Inv, Partial

\* The column at hand adds the candidate at hand, if it is valid.
LEMMA SeenByMore ==
  ASSUME Inv, pc = "loop", plan \in OnlinePlans, at < Bound
  PROVE  /\ SeenBy(offset + (at + 1)) =
              SeenBy(offset + at) \cup (IF Valid(Current) THEN {Current} ELSE {})
         /\ Current \in Terms /\ Current \notin SeenBy(offset + at)
         /\ at + 1 \in Nat /\ at + 1 <= Bound /\ MinOf(at + 1, width) = at + 1
<1>1. InputsTyped /\ CursorTyped /\ part \in Subsets /\ 0 \in Subsets /\ 1 \in Subsets
  BY DEF Inv, Typed, CursorTyped, Subsets
<1>2. /\ offset + at \in Cols /\ offset + (at + 1) = (offset + at) + 1
      /\ at + 1 \in Nat /\ at + 1 <= Bound /\ MinOf(at + 1, width) = at + 1
  <2>1. Bound \in Nat /\ Bound <= width /\ offset + width <= K
    BY <1>1, BoundFacts, OnlineIs
  <2>2. QED
    BY <1>1, <2>1 DEF CursorTyped, Cols, MinOf
<1>3. /\ Upto(part, offset + (at + 1)) =
           Upto(part, offset + at) \cup (IF Valid(Current) THEN {Current} ELSE {})
      /\ Current \in Terms /\ Current \notin Upto(part, offset + at)
  BY <1>1, <1>2, UptoNext DEF Current
<1>4. CASE plan = "global_paged_sink" /\ part = 1
  <2>1. Current \notin Upto(0, K)
    BY <1>4 DEF Upto, Current
  <2>2. QED
    BY <1>2, <1>3, <1>4, <2>1 DEF SeenBy
<1>5. CASE ~(plan = "global_paged_sink" /\ part = 1)
  <2>1. \A n : SeenBy(n) = Upto(part, n)
    BY <1>1, <1>5 DEF SeenBy, Subsets
  <2>2. QED
    BY <1>2, <1>3, <2>1
<1>6. QED
  BY <1>4, <1>5

\* An iteration that counts the candidate at hand exactly if it is valid.
LEMMA IterateStep ==
  ASSUME Inv, pc = "loop", plan \in OnlinePlans, at < Bound, Advance(1),
         st' = IF Valid(Current) THEN [st EXCEPT ![Buffer] = Online(@, Current, ScoreOf(Current))]
                                 ELSE st
  PROVE  Inv'
<1> DEFINE now == SeenBy(offset + at)
           new == IF Valid(Current) THEN Online(st[Buffer], Current, ScoreOf(Current))
                                    ELSE st[Buffer]
<1>1. /\ InputsTyped /\ CursorTyped /\ DataTyped
      /\ Buffer \in 0 .. 2 /\ IsState(st[Buffer], now, {}) /\ now \cup {} = now
  BY OnlineIs DEF Inv, Typed, Subsets
<1>2. /\ at' \in Nat /\ at' <= Bound
      /\ SeenBy(offset + at') = now \cup (IF Valid(Current) THEN {Current} ELSE {})
      /\ Current \in Terms /\ Current \notin now
  BY SeenByMore DEF Advance
<1>3. Scored(now \cup {}) /\ now \cup {} \subseteq AllTerms /\ Current \notin now \cup {}
      /\ ScoreOf(Current) \in Int
  BY <1>1, <1>2, SeenByFacts, TermFacts
<1>4. st' = [st EXCEPT ![Buffer] = new]
  BY <1>1 DEF DataTyped
<1>5. CASE Valid(Current)
  <2>1. new = Online(st[Buffer], Current, ScoreOf(Current)) /\ SeenBy(offset + at') = now \cup {Current}
    BY <1>2, <1>5
  <2>2. IsState(new, now \cup {Current}, {})
    BY <1>1, <1>3, <2>1, OnlineState
  <2>3. IsState(new, SeenBy(offset + at'), {})
    BY <2>1, <2>2
  <2>4. new \in Buffers
    <3>1. (now \cup {Current}) \cup {} \subseteq AllTerms /\ Scored((now \cup {Current}) \cup {})
      BY <1>1, <2>1, SeenByFacts
    <3>2. QED
      BY <2>1, <2>2, <3>1, AbsorbTyped DEF Online
  <2>5. QED
    BY <1>2, <1>4, <2>3, <2>4, OnlineLoop DEF Advance
<1>6. CASE ~Valid(Current)
  <2>1. new = st[Buffer] /\ SeenBy(offset + at') = now
    BY <1>2, <1>6
  <2>2. new \in Buffers
    BY <1>1, <2>1 DEF DataTyped
  <2>3. QED
    BY <1>1, <1>2, <1>4, <2>1, <2>2, OnlineLoop DEF Advance
<1>7. QED
  BY <1>5, <1>6

\* Within its early exit a capped kernel has only the index left to check.
LEMMA CappedValid ==
  ASSUME Inv, pc = "loop", kernel \in Capped, at < Bound
  PROVE  /\ Valid(Current) <=> IsRow(Current)
         /\ IsRow(Current) <=> index[part][offset + at] = "row"
         /\ plan \in OnlinePlans /\ part \in Subsets /\ offset + at \in Cols
<1>1. InputsTyped /\ CursorTyped /\ InCall /\ part \in Subsets
  BY DEF Inv, Typed, CursorTyped, Partial
<1>2. kernel \in KernelsOf(plan) /\ plan \in Plans
  BY <1>1 DEF InCall, InputsTyped
<1>3. plan \in OnlinePlans
  BY <1>2, KernelPlan DEF Capped, OnlinePlans, DcpPlans
<1>4. Current[1] = part /\ Current[2] = offset + at
  BY DEF Current
<1>5. offset + at < lens[part]
  BY <1>1, BoundFacts DEF Bound, CursorTyped
<1>6. offset + at \in Cols
  <2>1. lens[part] \in 0 .. K /\ offset \in 0 .. K /\ at \in 0 .. 2 * K
    BY <1>1 DEF InputsTyped, CursorTyped
  <2>2. QED
    BY <1>5, <2>1 DEF Cols
<1>7. QED
  BY <1>1, <1>3, <1>4, <1>5, <1>6 DEF Valid, IsRow

\* Without indices out of range a kernel only has to look for the sentinel.
LEMMA RowOrSentinel ==
  ASSUME InputsTyped, NEW p \in Subsets, NEW c \in Cols, index[p][c] # "beyond"
  PROVE  index[p][c] = "row" <=> index[p][c] # "sentinel"
BY DEF InputsTyped, Indices

\* Every iteration of a capped kernel counts its candidate exactly if it is valid.
LEMMA CappedKernels ==
  ASSUME Inv,
         \/ accumulate_indexed_attention_chunk_kernel
         \/ accumulate_indexed_attention_chunk_multihead_kernel
         \/ accumulate_gathered_attention_chunk_kernel
         \/ accumulate_fp8ds_global_slots_attention_chunk_kernel
         \/ accumulate_fp8ds_global_slots_attention_chunk_multihead_kernel
         \/ accumulate_fp8ds_paged_attention_chunk_kernel
         \/ accumulate_fp8ds_paged_attention_chunk_multihead_kernel
         \/ fp8ds_paged_attention_with_sink_multihead_kernel
  PROVE  Inv'
<1>1. InputsTyped /\ InputsSound /\ InCall /\ plan \in Plans
  BY DEF Inv, Typed, Partial, InputsTyped
<1>2. ASSUME NEW k \in {"indexed", "indexed_multihead"}, Iterate(k, IsRow(Current))
      PROVE  Inv'
  <2>1. pc = "loop" /\ kernel \in Capped /\ at < Bound
    BY <1>2 DEF Iterate, At, Capped
  <2>2. (Valid(Current) <=> IsRow(Current)) /\ plan \in OnlinePlans
    BY <2>1, CappedValid
  <2>3. st' = IF Valid(Current) THEN [st EXCEPT ![Buffer] = Online(@, Current, ScoreOf(Current))]
                                ELSE st
    BY <1>2, <2>2 DEF Iterate
  <2>4. QED
    BY <1>2, <2>1, <2>2, <2>3, IterateStep DEF Iterate
<1>3. ASSUME NEW k \in {"gathered_slots", "slots", "slots_multihead"},
             Iterate(k, NotSentinel(Current))
      PROVE  Inv'
  <2>1. pc = "loop" /\ kernel = k /\ kernel \in Capped /\ at < Bound
    BY <1>3 DEF Iterate, At, Capped
  <2>2. /\ Valid(Current) <=> IsRow(Current)
        /\ IsRow(Current) <=> index[part][offset + at] = "row"
        /\ plan \in OnlinePlans /\ part \in Subsets /\ offset + at \in Cols
    BY <2>1, CappedValid
  <2>3. plan \in StatePlans
    BY <1>1, <2>1, KernelPlan DEF InCall
  <2>4. index[part][offset + at] # "beyond"
    BY <1>1, <2>2, <2>3 DEF InputsSound
  <2>5. NotSentinel(Current) <=> index[part][offset + at] # "sentinel"
    BY DEF NotSentinel, Current
  <2>6. Valid(Current) <=> NotSentinel(Current)
    BY <1>1, <2>2, <2>4, <2>5, RowOrSentinel
  <2>7. st' = IF Valid(Current) THEN [st EXCEPT ![Buffer] = Online(@, Current, ScoreOf(Current))]
                                ELSE st
    BY <1>3, <2>6 DEF Iterate
  <2>8. QED
    BY <1>3, <2>1, <2>2, <2>7, IterateStep DEF Iterate
<1>4. ASSUME NEW k \in {"gathered", "paged", "paged_multihead", "paged_sink"}, Iterate(k, TRUE)
      PROVE  Inv'
  <2>1. pc = "loop" /\ kernel = k /\ kernel \in Capped /\ at < Bound
    BY <1>4 DEF Iterate, At, Capped
  <2>2. /\ Valid(Current) <=> IsRow(Current)
        /\ IsRow(Current) <=> index[part][offset + at] = "row"
        /\ plan \in OnlinePlans /\ part \in Subsets /\ offset + at \in Cols
    BY <2>1, CappedValid
  <2>3. index[part][offset + at] = "row"
    <3>1. CASE k = "gathered"
      BY <1>1, <2>1, <2>2, <3>1 DEF InCall
    <3>2. CASE k \in {"paged", "paged_multihead"}
      <4>1. plan \in StatePlans /\ part = 1
        BY <1>1, <2>1, <3>2, KernelPlan DEF InCall
      <4>2. parts = 2
        BY <1>1, <4>1 DEF InCall, InputsTyped
      <4>3. QED
        BY <1>1, <2>2, <4>1, <4>2 DEF InputsSound
    <3>3. CASE k = "paged_sink"
      <4>1. plan = "paged_sink"
        BY <1>1, <2>1, <3>3, KernelPlan DEF InCall
      <4>2. parts = 1 /\ part = 0
        BY <1>1, <2>2, <4>1 DEF InputsSound, InCall, Subsets
      <4>3. QED
        BY <1>1, <2>2, <4>1, <4>2 DEF InputsSound
    <3>4. QED
      BY <1>4, <3>1, <3>2, <3>3
  <2>4. st' = IF Valid(Current) THEN [st EXCEPT ![Buffer] = Online(@, Current, ScoreOf(Current))]
                                ELSE st
    BY <1>4, <2>2, <2>3 DEF Iterate
  <2>5. QED
    BY <1>4, <2>1, <2>2, <2>4, IterateStep DEF Iterate
<1>5. QED
  BY <1>2, <1>3, <1>4 DEF accumulate_indexed_attention_chunk_kernel,
       accumulate_indexed_attention_chunk_multihead_kernel,
       accumulate_gathered_attention_chunk_kernel,
       accumulate_fp8ds_global_slots_attention_chunk_kernel,
       accumulate_fp8ds_global_slots_attention_chunk_multihead_kernel,
       accumulate_fp8ds_paged_attention_chunk_kernel,
       accumulate_fp8ds_paged_attention_chunk_multihead_kernel,
       fp8ds_paged_attention_with_sink_multihead_kernel

\* The materialized kernel counts what the mask marks, which is what is valid.
LEMMA MaterializedKernel ==
  ASSUME Inv, materialized_attn_kernel
  PROVE  Inv'
<1>1. pc = "loop" /\ kernel = "materialized" /\ at < Bound
  BY DEF materialized_attn_kernel, Iterate, At
<1>2. plan = "materialized" /\ plan \in OnlinePlans
  BY <1>1, KernelPlan DEF Inv, Typed, InputsTyped, Partial, InCall, OnlinePlans, DcpPlans
<1>3. mask = { t \in Terms : t[1] = part /\ Valid(t) }
  BY <1>1, <1>2 DEF Inv, Partial, MaskSound
<1>4. Current \in Terms /\ Current[1] = part
  BY <1>1, <1>2, SeenByMore DEF Current
<1>5. Current \in mask <=> Valid(Current)
  BY <1>3, <1>4
<1>6. st' = IF Valid(Current) THEN [st EXCEPT ![Buffer] = Online(@, Current, ScoreOf(Current))]
                              ELSE st
  BY <1>5 DEF materialized_attn_kernel, Iterate
<1>7. QED
  BY <1>1, <1>2, <1>6, IterateStep DEF materialized_attn_kernel, Iterate

\* The kernel with two loops over the same buffers: each counts what is valid in its
\* subset, and the second one starts with everything the first one has counted.
LEMMA GlobalPagedKernel ==
  ASSUME Inv, fp8ds_global_paged_attention_with_sink_multihead_kernel
  PROVE  Inv'
<1>1. pc = "loop" /\ kernel = "global_paged_sink"
  BY DEF fp8ds_global_paged_attention_with_sink_multihead_kernel, Iterate, At
<1>2. /\ InputsTyped /\ CursorTyped /\ DataTyped /\ InputsSound /\ InCall /\ MaskSound
      /\ OnlineSound /\ Exact /\ Whole
  BY DEF Inv, Typed, Partial
<1>3. /\ plan = "global_paged_sink" /\ plan \in OnlinePlans /\ plan \notin SplitPlans
      /\ plan \notin DcpPlans \cup StatePlans \cup {"paged_sink"} /\ plan \notin InPieces
      /\ plan \notin {"materialized", "scores", "chunked", "two_subsets", "one_subset"}
      /\ plan \in SinkPlans
  BY <1>1, <1>2, KernelPlan
     DEF InputsTyped, InCall, OnlinePlans, DcpPlans, StatePlans, SplitPlans, InPieces, SinkPlans
<1>4. offset = 0 /\ width = K /\ parts = 2 /\ Bound = width
  BY <1>1, <1>2, <1>3 DEF InCall, InputsSound, Bound, Capped
<1>5. ASSUME part \in Subsets, at < Bound, NEW v \in BOOLEAN, v <=> Valid(Current),
             Iterate("global_paged_sink", v)
      PROVE  Inv'
  <2>1. st' = IF Valid(Current) THEN [st EXCEPT ![Buffer] = Online(@, Current, ScoreOf(Current))]
                                ELSE st
    BY <1>5 DEF Iterate
  <2>2. QED
    BY <1>1, <1>3, <1>5, <2>1, IterateStep DEF Iterate
<1>6. CASE part = 0 /\ Iterate("global_paged_sink", at < lens[0] /\ NotSentinel(Current))
  <2>1. at < Bound /\ part \in Subsets
    BY <1>6 DEF Iterate, At, Subsets
  <2>2. Current = <<0, at>> /\ at \in Cols /\ 0 \in Subsets
    BY <1>2, <1>4, <1>6, <2>1 DEF Current, CursorTyped, Cols, Subsets
  <2>3. index[0][at] # "beyond"
    BY <1>2, <1>3, <2>2 DEF InputsSound
  <2>4. (at < lens[0] /\ NotSentinel(Current)) <=> Valid(Current)
    BY <1>2, <2>2, <2>3, RowOrSentinel DEF NotSentinel, Valid
  <2>5. (at < lens[0] /\ NotSentinel(Current)) \in BOOLEAN
    BY DEF NotSentinel
  <2>6. QED
    BY <1>5, <1>6, <2>1, <2>4, <2>5
<1>7. CASE part = 1 /\ Iterate("global_paged_sink", at < lens[1])
  <2>1. at < Bound /\ part \in Subsets
    BY <1>7 DEF Iterate, At, Subsets
  <2>2. Current = <<1, at>> /\ at \in Cols /\ 1 \in Subsets
    BY <1>2, <1>4, <1>7, <2>1 DEF Current, CursorTyped, Cols, Subsets
  <2>3. index[1][at] = "row"
    BY <1>2, <1>3, <1>4, <2>2 DEF InputsSound
  <2>4. at < lens[1] <=> Valid(Current)
    BY <2>2, <2>3 DEF Valid
  <2>5. (at < lens[1]) \in BOOLEAN
    OBVIOUS
  <2>6. QED
    BY <1>5, <1>7, <2>1, <2>4, <2>5
<1>8. CASE /\ pc = "loop" /\ kernel = "global_paged_sink" /\ part = 0 /\ at = width
           /\ part' = 1 /\ at' = 0
           /\ UNCHANGED <<inputs, pc, kernel, offset, width, mask, logits, st, sub, out>>
  <2>1. /\ plan' = plan /\ parts' = parts /\ index' = index /\ score' = score /\ lens' = lens
        /\ sink' = sink /\ chunk' = chunk /\ UNCHANGED inputs
    BY <1>8 DEF inputs
  <2>2. Typed'
    <3>1. InputsTyped'
      BY <1>2, <2>1, InputsKept
    <3>2. CursorTyped'
      BY <1>2, <1>8 DEF CursorTyped, Subsets
    <3>3. DataTyped'
      BY <1>2, <1>8 DEF DataTyped
    <3>4. QED
      BY <3>1, <3>2, <3>3 DEF Typed
  <2>3. InputsSound'
    BY <1>2, <2>1, InputsSoundKept
  <2>4. InCall'
    <3>1. Bound' = width
      BY <1>1, <1>8 DEF Bound, Capped
    <3>2. QED
      BY <1>1, <1>2, <1>3, <1>4, <1>8, <2>1, <3>1 DEF InCall, KernelsOf, CursorTyped
  <2>5. MaskSound' /\ ScoresSound' /\ SplitSound' /\ ResultsSound'
    BY <1>3, <2>1 DEF MaskSound, ScoresSound, SplitSound, ResultsSound
  <2>6. OnlineSound'
    <3>1. Seen(0)' = Upto(0, K) /\ Seen(1)' = Upto(1, 0)
      BY <1>3, <1>4, <1>8, <2>1, SeenNext DEF Reached
    <3>2. Seen(0) = Upto(0, K) /\ Seen(1) = Upto(1, 0)
      BY <1>3, <1>4, <1>8, SeenIs DEF Reached
    <3>3. IsState(st[0], Seen(0) \cup Seen(1), {})
      BY <1>1, <1>2, <1>3 DEF OnlineSound
    <3>4. IsState(st[0], Seen(0) \cup Seen(1), {})'
      BY <1>8, <2>1, <3>1, <3>2, <3>3, StateKept
    <3>5. QED
      BY <1>3, <2>1, <3>4 DEF OnlineSound
  <2>7. Exact' /\ Whole'
    BY <1>1, <1>3, <1>8, <2>1 DEF Exact, Whole
  <2>8. QED
    BY <2>2, <2>3, <2>4, <2>5, <2>6, <2>7 DEF Inv, Partial
<1>9. QED
  BY <1>6, <1>7, <1>8 DEF fp8ds_global_paged_attention_with_sink_multihead_kernel

\* The fused kernel takes in the valid candidates of a tile at once, an empty tile or a
\* first one included.
LEMMA FusedKernel ==
  ASSUME Inv, fused_gather_dequant_attn_kernel
  PROVE  Inv'
<1> DEFINE tile == { t \in Terms : t[1] = part /\ at <= t[2] /\ t[2] < at + chunk
                                   /\ IsRow(t) /\ t[2] < lens[part] }
           f == [t \in tile |-> ScoreOf(t)]
           now == Upto(part, at)
<1>1. pc = "loop" /\ kernel = "fused" /\ at < Bound
  BY DEF fused_gather_dequant_attn_kernel, At
<1>2. /\ InputsTyped /\ CursorTyped /\ DataTyped /\ part \in Subsets /\ part \in 0 .. 2
      /\ plan = "fused" /\ plan \in OnlinePlans
  BY <1>1, KernelPlan
     DEF Inv, Typed, InputsTyped, CursorTyped, Partial, InCall, OnlinePlans, DcpPlans, Subsets
<1>3. offset = 0 /\ width = K /\ Bound = width /\ Buffer = part
  BY <1>1, <1>2 DEF Inv, Whole, Bound, Capped, Buffer
<1>4. \A n : SeenBy(n) = Upto(part, n)
  BY <1>2 DEF SeenBy
<1>5. offset + at = at /\ at \in Nat /\ chunk \in 1 .. K /\ at < K
  BY <1>1, <1>2, <1>3 DEF CursorTyped, InputsTyped
<1>6. IsState(st[part], now, {}) /\ now \cup {} = now
  BY <1>1, <1>2, <1>3, <1>4, <1>5, OnlineIs
<1>7. at' = MinOf(at + chunk, K) /\ at' \in Nat /\ at' <= Bound /\ offset + at' = at'
  BY <1>3, <1>5 DEF fused_gather_dequant_attn_kernel, Advance, MinOf
<1>8. Upto(part, at') = now \cup tile /\ tile \cap now = {}
  <2>1. \A t \in Terms : t[2] \in Nat /\ t[2] < K
    BY <1>2, TermFacts DEF Cols
  <2>2. \A t \in Terms : t[2] < at' <=> t[2] < at + chunk
    BY <1>5, <1>7, <2>1 DEF MinOf
  <2>3. \A t \in Terms : t[2] < at + chunk <=> t[2] < at \/ (at <= t[2] /\ t[2] < at + chunk)
    BY <1>5, <2>1
  <2>4. \A t : t \in tile <=> /\ t \in Terms /\ t[1] = part /\ at <= t[2] /\ t[2] < at + chunk
                              /\ Valid(t)
    BY DEF IsRow, Valid
  <2>5. \A t \in Terms : ~(at <= t[2] /\ t[2] < at)
    BY <1>5, <2>1
  <2>6. QED
    BY <2>2, <2>3, <2>4, <2>5 DEF Upto
<1>9. now \subseteq Terms /\ tile \subseteq Terms /\ now \cup tile \subseteq Terms
      /\ Scored(now) /\ Scored(tile) /\ Scored(now \cup tile)
  BY <1>2, TermFacts DEF Upto
<1>10. PICK m : Largest(m, {st[part].max} \cup { f[t] : t \in tile })
                /\ st' = [st EXCEPT ![part] = Absorb(@, f, m)]
  BY DEF fused_gather_dequant_attn_kernel
<1>11. Peak(m, now \cup tile)
  <2>1. Peak(st[part].max, now)
    BY <1>6, <1>9, StateFacts
  <2>2. { f[t] : t \in tile } = { ScoreOf(t) : t \in tile }
    OBVIOUS
  <2>3. Largest(m, {st[part].max} \cup { ScoreOf(t) : t \in tile })
    BY <1>10, <2>2
  <2>4. QED
    BY <1>9, <2>1, <2>3, PeakMore
<1>12. IsState(Absorb(st[part], f, m), now \cup tile, {})
  <2>1. Scored(now \cup {}) /\ tile \cap (now \cup {}) = {} /\ Peak(m, now \cup {} \cup tile)
    BY <1>6, <1>8, <1>9, <1>11
  <2>2. QED
    BY <1>6, <1>9, <2>1, AbsorbState
<1>13. Absorb(st[part], f, m) \in Buffers
  <2>1. (now \cup tile) \cup {} \subseteq AllTerms /\ Scored((now \cup tile) \cup {})
    BY <1>9 DEF AllTerms, Scored
  <2>2. QED
    BY <1>12, <2>1, AbsorbTyped
<1>14. st' = [st EXCEPT ![Buffer] = Absorb(st[part], f, m)]
  BY <1>2, <1>3, <1>10 DEF DataTyped
<1>15. IsState(Absorb(st[part], f, m), SeenBy(offset + at'), {})
  BY <1>4, <1>7, <1>8, <1>12
<1>16. /\ UNCHANGED <<inputs, pc, part, kernel, offset, width, mask, logits, sub, out>>
  BY DEF fused_gather_dequant_attn_kernel, Advance
<1>17. QED
  BY <1>1, <1>2, <1>7, <1>13, <1>14, <1>15, <1>16, OnlineLoop

-----------------------------------------------------------------------------
(* The kernels over materialized scores.                                   *)

\* The sink is among the terms from the start, so that -inf is never the maximum.
LEMMA PeakOfSome ==
  ASSUME NEW A, Scored(A), A # {}, NEW m
  PROVE  Largest(m, { ScoreOf(t) : t \in A }) <=> Peak(m, A)
<1>1. ASSUME Largest(m, { ScoreOf(t) : t \in A }) PROVE Peak(m, A)
  BY <1>1 DEF Peak, Largest, MaxOf
<1>2. ASSUME Peak(m, A) PROVE Largest(m, { ScoreOf(t) : t \in A })
  <2>1. \E t \in A : ScoreOf(t) = m
    BY <1>2, PeakFacts
  <2>2. QED
    BY <1>2, <2>1 DEF Peak, Largest
<1>3. QED
  BY <1>1, <1>2

\* The columns of the tensor [compressed | SWA], one after the other.
LEMMA FlatFacts ==
  ASSUME InputsTyped, mask \subseteq Terms
  PROVE  /\ \A t \in Terms : Flat(t) \in Nat /\ Flat(t) < 2 * K
         /\ \A t, u \in Terms : Flat(t) = Flat(u) => t = u
         /\ FlatBefore(0) = {} /\ FlatBefore(2 * K) = mask
         /\ \A n : FlatBefore(n) \subseteq Terms
<1>1. \A t \in Terms : t[1] \in {0, 1} /\ t[2] \in Nat /\ t[2] < K /\ t = <<t[1], t[2]>>
  BY TermFacts DEF Subsets, Cols
<1>2. \A t \in Terms : Flat(t) \in Nat /\ Flat(t) < 2 * K
  BY <1>1 DEF Flat
<1>3. ASSUME NEW t \in Terms, NEW u \in Terms, Flat(t) = Flat(u)
      PROVE  t = u
  <2>1. t[1] = u[1] /\ t[2] = u[2]
    BY <1>1, <1>3 DEF Flat
  <2>2. QED
    BY <1>1, <2>1
<1>4. FlatBefore(0) = {} /\ FlatBefore(2 * K) = mask /\ \A n : FlatBefore(n) \subseteq Terms
  BY <1>2 DEF FlatBefore
<1>5. QED
  BY <1>2, <1>3, <1>4

\* What ScoresSound says of the buffers s of kernel k at column n.
ScoresAt(k, n, s) ==
  /\ k \in {"scores_heads", "scores_values"} => IsState(s, FlatBefore(n), {Sink})
  /\ k = "scores_max" => Peak(s.max, FlatBefore(n) \cup {Sink}) /\ s.acc = Nothing
  /\ k = "scores_sum" =>
       /\ Peak(s.max, mask \cup {Sink})
       /\ s.den = Sum(FlatBefore(n) \cup {Sink}, s.max) /\ s.acc = Sum(FlatBefore(n), s.max)

\* Where such a kernel is, and what the invariant says of its buffers.
LEMMA ScoresIs ==
  ASSUME Inv, pc = "loop", plan = "scores"
  PROVE  /\ InputsTyped /\ CursorTyped /\ DataTyped /\ mask \subseteq Terms
         /\ sink \in Int /\ part = 0 /\ offset = 0 /\ width = 2 * K /\ parts = 2
         /\ Bound = width /\ at \in Nat /\ at <= width
         /\ kernel \in {"scores_heads", "scores_values", "scores_max", "scores_sum"}
         /\ \A A : A \subseteq Terms => Scored(A) /\ Scored(A \cup {Sink})
         /\ ScoresAt(kernel, at, st[0])
<1>1. /\ InputsTyped /\ CursorTyped /\ DataTyped /\ InCall /\ InputsSound /\ ScoresSound
      /\ mask \subseteq Terms
  BY DEF Inv, Typed, Partial, DataTyped
<1>2. sink \in Int /\ parts = 2
  BY <1>1 DEF InputsTyped, InputsSound, Extended
<1>3. kernel \in {"scores_heads", "scores_values", "scores_max", "scores_sum"}
  BY <1>1 DEF InCall, KernelsOf, StatePlans, SplitPlans
<1>4. /\ part = 0 /\ offset = 0 /\ width = 2 * K /\ Bound = width /\ at \in Nat /\ at <= width
  BY <1>1, <1>3 DEF InCall, Bound, Capped, CursorTyped
<1>5. ASSUME NEW A, A \subseteq Terms PROVE Scored(A) /\ Scored(A \cup {Sink})
  <2>1. ScoreOf(Sink) = sink
    BY DEF ScoreOf
  <2>2. QED
    BY <1>1, <1>2, <1>5, <2>1, TermFacts DEF Scored
<1>6. FlatBefore(width) = mask /\ \A n : FlatBefore(n) \subseteq Terms
  BY <1>1, <1>4, FlatFacts
<1>7. ScoresAt(kernel, at, st[0])
  <2>1. CASE kernel \in {"scores_heads", "scores_values"}
    BY <1>1, <2>1 DEF ScoresSound, ScoresAt
  <2>2. CASE kernel = "scores_max"
    <3>1. Largest(st[0].max, { ScoreOf(t) : t \in FlatBefore(at) \cup {Sink} })
          /\ st[0].acc = Nothing
      BY <1>1, <2>2 DEF ScoresSound
    <3>2. Peak(st[0].max, FlatBefore(at) \cup {Sink})
      BY <1>5, <1>6, <3>1, PeakOfSome
    <3>3. QED
      BY <2>2, <3>1, <3>2 DEF ScoresAt
  <2>3. CASE kernel = "scores_sum"
    <3>1. Largest(st[0].max, { ScoreOf(t) : t \in FlatBefore(width) \cup {Sink} })
      BY <1>1, <2>3 DEF ScoresSound
    <3>2. Peak(st[0].max, FlatBefore(width) \cup {Sink})
      BY <1>5, <1>6, <3>1, PeakOfSome
    <3>3. /\ st[0].den = Sum(FlatBefore(at) \cup {Sink}, st[0].max)
          /\ st[0].acc = Sum(FlatBefore(at), st[0].max)
      BY <1>1, <2>3 DEF ScoresSound, Sum
    <3>4. QED
      BY <1>6, <2>3, <3>2, <3>3 DEF ScoresAt
  <2>4. QED
    BY <1>3, <2>1, <2>2, <2>3
<1>8. QED
  BY <1>1, <1>2, <1>3, <1>4, <1>5, <1>7

\* A step of such a kernel that leaves the buffers as they have to be keeps the
\* invariant.
LEMMA ScoresStep ==
  ASSUME Inv, pc = "loop", plan = "scores",
         UNCHANGED <<inputs, pc, part, offset, width, mask, logits, sub, out>>,
         kernel' \in {"scores_heads", "scores_values", "scores_max", "scores_sum"},
         at' \in Nat, at' <= width,
         NEW new \in Buffers, st' = [st EXCEPT ![0] = new], ScoresAt(kernel', at', new)
  PROVE  Inv'
<1>1. /\ InputsTyped /\ CursorTyped /\ DataTyped /\ InputsSound /\ InCall /\ MaskSound /\ Whole
  BY DEF Inv, Typed, Partial
<1>2. /\ UNCHANGED inputs /\ pc' = pc /\ part' = part /\ offset' = offset
      /\ width' = width /\ mask' = mask /\ logits' = logits /\ sub' = sub /\ out' = out
  OBVIOUS
<1>3. /\ plan' = plan /\ parts' = parts /\ index' = index /\ score' = score /\ lens' = lens
      /\ sink' = sink /\ chunk' = chunk
  BY <1>2 DEF inputs
<1>4. /\ mask \subseteq Terms /\ sink \in Int /\ part = 0 /\ offset = 0 /\ width = 2 * K
      /\ parts = 2 /\ \A A : A \subseteq Terms => Scored(A) /\ Scored(A \cup {Sink})
  BY ScoresIs
<1>5. /\ plan \notin OnlinePlans \cup SplitPlans /\ plan \notin StatePlans \cup DcpPlans
      /\ plan \notin {"paged_sink", "chunked", "materialized", "two_subsets", "one_subset",
                      "global_paged_sink", "fused"}
  BY DEF OnlinePlans, SplitPlans, StatePlans, DcpPlans
<1>6. Typed'
  <2>1. InputsTyped'
    BY <1>1, <1>2, InputsKept
  <2>2. CursorTyped'
    BY <1>1, <1>2, <1>4 DEF CursorTyped, Kernels
  <2>3. DataTyped'
    BY <1>1, <1>2 DEF DataTyped
  <2>4. QED
    BY <2>1, <2>2, <2>3 DEF Typed
<1>7. InputsSound'
  BY <1>1, <1>2, InputsSoundKept
<1>8. InCall'
  <2>1. Bound' = width
    BY <1>2 DEF Bound, Capped
  <2>2. QED
    BY <1>1, <1>2, <1>3, <1>4, <1>5, <2>1 DEF InCall, KernelsOf
<1>9. MaskSound'
  BY <1>1, <1>2, <1>3, InputsKept DEF MaskSound
<1>10. OnlineSound' /\ SplitSound' /\ ResultsSound' /\ Exact' /\ Whole'
  BY <1>1, <1>2, <1>3, <1>4, <1>5 DEF OnlineSound, SplitSound, ResultsSound, Exact, Whole
<1>11. ScoresSound'
  <2>1. st'[0] = new
    BY <1>1 DEF DataTyped
  <2>2. /\ \A n : FlatBefore(n)' = FlatBefore(n)
        /\ FlatBefore(at)' = FlatBefore(at') /\ FlatBefore(width)' = mask
        /\ \A t : ScoreOf(t)' = ScoreOf(t)
        /\ \A n : FlatBefore(n) \subseteq Terms
    BY <1>1, <1>2, <1>4, FlatFacts, InputsKept DEF FlatBefore
  <2>3. CASE kernel' \in {"scores_heads", "scores_values"}
    <3>1. IsState(new, FlatBefore(at'), {Sink})
      BY <2>3 DEF ScoresAt
    <3>2. IsState(st[0], FlatBefore(at), {Sink})'
      BY <1>2, <2>1, <2>2, <3>1, StateKept
    <3>3. QED
      BY <2>3, <3>2 DEF ScoresSound
  <2>4. CASE kernel' = "scores_max"
    <3>1. Peak(new.max, FlatBefore(at') \cup {Sink}) /\ new.acc = Nothing
      BY <2>4 DEF ScoresAt
    <3>2. Largest(new.max, { ScoreOf(t) : t \in FlatBefore(at') \cup {Sink} })
      BY <1>4, <2>2, <3>1, PeakOfSome
    <3>3. QED
      BY <2>1, <2>2, <2>4, <3>1, <3>2 DEF ScoresSound
  <2>5. CASE kernel' = "scores_sum"
    <3>1. /\ Peak(new.max, mask \cup {Sink})
          /\ new.den = Sum(FlatBefore(at') \cup {Sink}, new.max)
          /\ new.acc = Sum(FlatBefore(at'), new.max)
      BY <2>5 DEF ScoresAt
    <3>2. Largest(new.max, { ScoreOf(t) : t \in mask \cup {Sink} })
      BY <1>4, <3>1, PeakOfSome
    <3>3. QED
      BY <2>1, <2>2, <2>5, <3>1, <3>2 DEF ScoresSound, Sum
  <2>6. QED
    BY <2>3, <2>4, <2>5
<1>12. QED
  BY <1>6, <1>7, <1>8, <1>9, <1>10, <1>11 DEF Inv, Partial

\* Candidate by candidate: each is counted exactly if the mask marks it.
LEMMA ScoresLoopStep ==
  ASSUME Inv, NEW k \in {"scores_heads", "scores_values"}, ScoresLoop(k)
  PROVE  Inv'
<1>1. pc = "loop" /\ kernel = k /\ at < Bound /\ kernel' = k
  BY DEF ScoresLoop, At, Advance
<1>2. plan = "scores"
  BY <1>1, KernelPlan DEF Inv, Typed, InputsTyped, Partial, InCall
<1>3. /\ InputsTyped /\ CursorTyped /\ DataTyped /\ mask \subseteq Terms
      /\ width = 2 * K /\ Bound = width /\ at \in Nat
      /\ \A A : A \subseteq Terms => Scored(A) /\ Scored(A \cup {Sink})
      /\ ScoresAt(kernel, at, st[0])
  BY <1>1, <1>2, ScoresIs
<1>4. at' = at + 1 /\ at' \in Nat /\ at' <= width
  BY <1>1, <1>3 DEF ScoresLoop, Advance, MinOf
<1>5. PICK t \in Terms :
        /\ Flat(t) = at
        /\ st' = IF t \in mask THEN [st EXCEPT ![0] = Online(@, t, ScoreOf(t))] ELSE st
  BY DEF ScoresLoop
<1> DEFINE now == FlatBefore(at)
           new == IF t \in mask THEN Online(st[0], t, ScoreOf(t)) ELSE st[0]
<1>6. FlatBefore(at') = (IF t \in mask THEN now \cup {t} ELSE now) /\ t \notin now
      /\ now \subseteq Terms
  <2>1. \A u \in Terms : Flat(u) \in Nat /\ (Flat(u) = at <=> u = t)
    BY <1>3, <1>5, FlatFacts
  <2>2. \A u \in Terms : Flat(u) < at' <=> Flat(u) < at \/ u = t
    BY <1>3, <1>4, <2>1
  <2>3. QED
    BY <1>3, <1>5, <2>1, <2>2 DEF FlatBefore
<1>7. IsState(st[0], now, {Sink})
  BY <1>1, <1>3 DEF ScoresAt
<1>8. IsState(new, FlatBefore(at'), {Sink}) /\ new \in Buffers
  <2>1. CASE t \in mask
    <3>1. new = Online(st[0], t, ScoreOf(t)) /\ FlatBefore(at') = now \cup {t}
      BY <1>6, <2>1
    <3>2. Scored(now \cup {Sink}) /\ ScoreOf(t) \in Int /\ t \notin now \cup {Sink}
      BY <1>3, <1>5, <1>6, TermFacts, SinkFacts
    <3>3. IsState(new, now \cup {t}, {Sink})
      BY <1>7, <3>1, <3>2, OnlineState
    <3>4. Scored((now \cup {t}) \cup {Sink}) /\ (now \cup {t}) \cup {Sink} \subseteq AllTerms
      BY <1>3, <1>5, <1>6 DEF AllTerms
    <3>5. new \in Buffers
      BY <3>1, <3>3, <3>4, AbsorbTyped DEF Online
    <3>6. QED
      BY <3>1, <3>3, <3>5
  <2>2. CASE t \notin mask
    BY <1>3, <1>6, <1>7, <2>2 DEF DataTyped
  <2>3. QED
    BY <2>1, <2>2
<1>9. st' = [st EXCEPT ![0] = new]
  BY <1>3, <1>5 DEF DataTyped
<1>10. ScoresAt(kernel', at', new)
  BY <1>1, <1>8 DEF ScoresAt
<1>11. UNCHANGED <<inputs, pc, part, offset, width, mask, logits, sub, out>>
  BY DEF ScoresLoop, Advance
<1>12. kernel' \in {"scores_heads", "scores_values", "scores_max", "scores_sum"}
  BY <1>1
<1>13. QED
  BY <1>1, <1>2, <1>4, <1>8, <1>9, <1>10, <1>11, <1>12, ScoresStep

\* Block by block: the maximum of all candidates and the sink first, then the sums with
\* that maximum, so that no sum is ever rescaled.
LEMMA ScoresBlockStep ==
  ASSUME Inv, finish_materialized_scores_with_sink_candidate_block_kernel
  PROVE  Inv'
<1> DEFINE block == { t \in mask : at <= Flat(t) /\ Flat(t) < at + chunk }
           f     == [t \in block |-> ScoreOf(t)]
           now   == FlatBefore(at)
           s     == st[0]
<1>1. pc = "loop" /\ kernel \in {"scores_max", "scores_sum"}
  BY DEF finish_materialized_scores_with_sink_candidate_block_kernel, At
<1>2. plan = "scores"
  BY <1>1, KernelPlan DEF Inv, Typed, InputsTyped, Partial, InCall
<1>3. /\ InputsTyped /\ CursorTyped /\ DataTyped /\ mask \subseteq Terms /\ sink \in Int
      /\ width = 2 * K /\ Bound = width /\ at \in Nat /\ at <= width
      /\ \A A : A \subseteq Terms => Scored(A) /\ Scored(A \cup {Sink})
      /\ ScoresAt(kernel, at, s)
  BY <1>1, <1>2, ScoresIs
<1>4. chunk \in Nat /\ s \in Buffers
  BY <1>3 DEF InputsTyped, DataTyped
<1>5. now \subseteq Terms /\ now \subseteq mask /\ block \subseteq Terms /\ block \cap now = {}
      /\ Sink \notin block /\ FlatBefore(0) = {} /\ FlatBefore(width) = mask
  <2>1. \A t \in mask : ~(at <= Flat(t) /\ Flat(t) < at)
    BY <1>3, FlatFacts
  <2>2. QED
    BY <1>3, <2>1, FlatFacts, SinkFacts DEF FlatBefore
<1>6. FlatBefore(MinOf(at + chunk, width)) = now \cup block
      /\ MinOf(at + chunk, width) \in Nat /\ MinOf(at + chunk, width) <= width
  <2>1. \A t \in mask : Flat(t) \in Nat /\ Flat(t) < width
    BY <1>3, FlatFacts
  <2>2. MinOf(at + chunk, width) \in Nat /\ MinOf(at + chunk, width) <= width
    BY <1>3, <1>4 DEF MinOf
  <2>3. \A t \in mask : Flat(t) < MinOf(at + chunk, width) <=> Flat(t) < at + chunk
    BY <1>3, <1>4, <2>1 DEF MinOf
  <2>4. \A t \in mask : Flat(t) < at + chunk
                        <=> Flat(t) < at \/ (at <= Flat(t) /\ Flat(t) < at + chunk)
    BY <1>3, <1>4, <2>1
  <2>5. QED
    BY <2>2, <2>3, <2>4 DEF FlatBefore
<1>7. CASE /\ At("scores_max") /\ Advance(chunk)
           /\ \E m \in {s.max} \cup { f[t] : t \in block } :
                /\ Largest(m, {s.max} \cup { f[t] : t \in block })
                /\ st' = [st EXCEPT ![0].max = m]
  <2>1. PICK m : Largest(m, {s.max} \cup { f[t] : t \in block })
                 /\ st' = [st EXCEPT ![0].max = m]
    BY <1>7
  <2>2. kernel = "scores_max" /\ kernel' = "scores_max" /\ at' = MinOf(at + chunk, width)
    BY <1>7 DEF At, Advance
  <2>3. Peak(s.max, now \cup {Sink}) /\ s.acc = Nothing
    BY <1>3, <2>2 DEF ScoresAt
  <2>4. Peak(m, (now \cup {Sink}) \cup block)
    <3>1. { f[t] : t \in block } = { ScoreOf(t) : t \in block }
      OBVIOUS
    <3>2. Scored(now \cup {Sink}) /\ Scored(block)
      BY <1>3, <1>5
    <3>3. Largest(m, {s.max} \cup { ScoreOf(t) : t \in block })
      BY <2>1, <3>1
    <3>4. QED
      BY <2>3, <3>2, <3>3, PeakMore
  <2>5. (now \cup {Sink}) \cup block = (now \cup block) \cup {Sink}
        /\ now \cup block \subseteq Terms
    BY <1>5
  <2>6. Peak(m, (now \cup block) \cup {Sink})
    BY <2>4, <2>5
  <2>7. m \in Extended
    BY <1>3, <2>5, <2>6, PeakFacts DEF Extended
  <2>8. [s EXCEPT !.max = m] \in Buffers /\ [s EXCEPT !.max = m].max = m
        /\ [s EXCEPT !.max = m].acc = s.acc
    BY <1>4, <2>7 DEF Buffers
  <2>9. st' = [st EXCEPT ![0] = [s EXCEPT !.max = m]]
    BY <1>3, <2>1 DEF DataTyped
  <2>10. ScoresAt(kernel', at', [s EXCEPT !.max = m])
    BY <1>6, <2>2, <2>3, <2>6, <2>8 DEF ScoresAt
  <2>11. UNCHANGED <<inputs, pc, part, offset, width, mask, logits, sub, out>>
    BY <1>7 DEF Advance
  <2>12. kernel' \in {"scores_heads", "scores_values", "scores_max", "scores_sum"}
         /\ at' \in Nat /\ at' <= width
    BY <1>6, <2>2
  <2>13. QED
    BY <1>1, <1>2, <2>8, <2>9, <2>10, <2>11, <2>12, ScoresStep
<1>8. CASE /\ pc = "loop" /\ kernel = "scores_max" /\ at = width
           /\ st' = [st EXCEPT ![0].den = SinkWeight(sink, s.max)]
           /\ kernel' = "scores_sum" /\ at' = 0
           /\ UNCHANGED <<inputs, pc, part, offset, width, mask, logits, sub, out>>
  <2> DEFINE new == [s EXCEPT !.den = SinkWeight(sink, s.max)]
  <2>1. Peak(s.max, mask \cup {Sink}) /\ s.acc = Nothing
    BY <1>3, <1>5, <1>8 DEF ScoresAt
  <2>2. SinkWeight(sink, s.max) = Sum({Sink}, s.max)
    BY <1>3, SinkFacts DEF SinkTerm
  <2>3. SinkWeight(sink, s.max) \in Weights
    <3>1. mask \cup {Sink} \subseteq AllTerms /\ Scored(mask \cup {Sink})
      BY <1>3 DEF AllTerms
    <3>2. QED
      BY <2>1, <2>2, <3>1, SumWeights
  <2>4. new \in Buffers /\ new.max = s.max /\ new.acc = Nothing
        /\ new.den = Sum({Sink}, s.max)
    BY <1>4, <2>1, <2>2, <2>3 DEF Buffers
  <2>5. st' = [st EXCEPT ![0] = new]
    BY <1>3, <1>8 DEF DataTyped
  <2>6. ScoresAt("scores_sum", 0, new)
    <3>1. FlatBefore(0) \cup {Sink} = {Sink} /\ Sum(FlatBefore(0), s.max) = Nothing
      BY <1>5, SumNothing
    <3>2. QED
      BY <2>1, <2>4, <3>1 DEF ScoresAt
  <2>7. 0 <= width
    BY <1>3
  <2>8. QED
    BY <1>1, <1>2, <1>8, <2>4, <2>5, <2>6, <2>7, ScoresStep
<1>9. CASE At("scores_sum") /\ st' = [st EXCEPT ![0] = Absorb(@, f, @.max)] /\ Advance(chunk)
  <2> DEFINE m   == s.max
             new == Absorb(s, f, m)
  <2>1. kernel = "scores_sum" /\ kernel' = "scores_sum" /\ at' = MinOf(at + chunk, width)
    BY <1>9 DEF At, Advance
  <2>2. /\ Peak(m, mask \cup {Sink})
        /\ s.den = Sum(now \cup {Sink}, m) /\ s.acc = Sum(now, m)
    BY <1>3, <2>1 DEF ScoresAt
  <2>3. Scored(mask \cup {Sink}) /\ mask \cup {Sink} \subseteq AllTerms
    BY <1>3 DEF AllTerms
  <2>4. m \in Extended /\ m # NegInf
    BY <2>2, <2>3, PeakFacts DEF Extended
  <2>5. /\ Guarded(s.den, m, m) = Sum(now \cup {Sink}, m)
        /\ Guarded(s.acc, m, m) = Sum(now, m)
    <3>1. now \cup {Sink} \subseteq mask \cup {Sink} /\ now \subseteq mask \cup {Sink}
      BY <1>5
    <3>2. QED
      BY <2>2, <2>3, <2>4, <3>1, Rescale
  <2>6. [t \in DOMAIN f |-> f[t] - m] = Sum(block, m)
    BY DEF Sum
  <2>7. /\ Plus(Sum(now \cup {Sink}, m), Sum(block, m)) = Sum((now \cup {Sink}) \cup block, m)
        /\ Plus(Sum(now, m), Sum(block, m)) = Sum(now \cup block, m)
    BY <1>5, PlusSum
  <2>8. (now \cup {Sink}) \cup block = (now \cup block) \cup {Sink}
    OBVIOUS
  <2>9. new = [max |-> m, den |-> Sum((now \cup block) \cup {Sink}, m),
               acc |-> Sum(now \cup block, m)]
    BY <2>5, <2>6, <2>7, <2>8 DEF Absorb
  <2>10. new \in Buffers
    <3>1. (now \cup block) \cup {Sink} \subseteq mask \cup {Sink}
          /\ now \cup block \subseteq mask \cup {Sink}
      BY <1>5
    <3>2. Sum((now \cup block) \cup {Sink}, m) \in Weights /\ Sum(now \cup block, m) \in Weights
      BY <2>2, <2>3, <3>1, SumWeights
    <3>3. QED
      BY <2>4, <2>9, <3>2 DEF Buffers
  <2>11. st' = [st EXCEPT ![0] = new]
    BY <1>3, <1>9 DEF DataTyped
  <2>12. ScoresAt(kernel', at', new)
    <3>1. new.max = m /\ new.den = Sum((now \cup block) \cup {Sink}, m)
          /\ new.acc = Sum(now \cup block, m)
      <4> HIDE DEF new, now, block
      <4> QED
        BY <2>9
    <3>2. now \cup block = FlatBefore(at')
      BY <1>6, <2>1
    <3>3. QED
      BY <2>1, <2>2, <3>1, <3>2 DEF ScoresAt
  <2>13. UNCHANGED <<inputs, pc, part, offset, width, mask, logits, sub, out>>
    BY <1>9 DEF Advance
  <2>14. kernel' \in {"scores_heads", "scores_values", "scores_max", "scores_sum"}
         /\ at' \in Nat /\ at' <= width
    BY <1>6, <2>1
  <2>15. QED
    BY <1>1, <1>2, <2>10, <2>11, <2>12, <2>13, <2>14, ScoresStep
<1>10. QED
  BY <1>7, <1>8, <1>9 DEF finish_materialized_scores_with_sink_candidate_block_kernel

-----------------------------------------------------------------------------
(* The split kernels.                                                      *)

SplitKernels ==
  {"split_score", "split_stats", "split_value", "merge_acc", "merge_state", "split_done"}

\* The candidates that count for the split kernels before column n.
Before(n) == { t \in Terms : t[1] = 0 /\ t[2] < n /\ t[2] < lens[0] }

\* The state of the split kernels in words of maxima and sums.
LEMMA SplitStateIs ==
  ASSUME NEW s, NEW A
  PROVE  /\ IsSplitState(s, A) <=> Peak(s.max, A) /\ s.den = Sum(A, s.max)
                                   /\ s.acc = Sum(Rows(A), s.max)
         /\ Rows(A) \subseteq A
<1>1. Rows(A) \subseteq A /\ Rows(A) \cup (A \ Rows(A)) = A
  BY DEF Rows
<1>2. QED
  BY <1>1, StateIs DEF IsSplitState

\* Rows one by one.
LEMMA RowsUnion ==
  ASSUME NEW A, NEW B
  PROVE  Rows(A) \cup Rows(B) = Rows(A \cup B)
BY DEF Rows

\* While the inputs stay, so does what counts for the split kernels, and its state.
LEMMA SplitKept ==
  ASSUME UNCHANGED inputs
  PROVE  /\ \A A : Rows(A)' = Rows(A)
         /\ SplitSeen' = Before(Reached(0)')
         /\ \A s, A : IsSplitState(s, A)' <=> IsSplitState(s, A)
<1>1. \A A : Rows(A)' = Rows(A)
  BY DEF Rows, IsRow, inputs
<1>2. SplitSeen' = Before(Reached(0)')
  BY DEF SplitSeen, Before, inputs
<1>3. ASSUME NEW s, NEW A PROVE IsSplitState(s, A)' <=> IsSplitState(s, A)
  BY <1>1, StateKept DEF IsSplitState
<1>4. QED
  BY <1>1, <1>2, <1>3

\* The candidates of the launch are those that bring the buffers from the columns before
\* the launch to the columns after it.
LEMMA LaunchedFacts ==
  ASSUME Inv, pc = "loop", plan \in SplitPlans
  PROVE  /\ InputsTyped /\ CursorTyped /\ DataTyped
         /\ part = 0 /\ offset + width <= K /\ kernel \in SplitKernels /\ sink \in Int
         /\ parts = 1 /\ at <= width
         /\ Launched \subseteq Terms
         /\ \A t \in Launched : t[2] - offset \in Cols /\ t[2] - offset < LocalEff
                                /\ t = <<0, offset + (t[2] - offset)>>
         /\ Before(offset) \subseteq Terms /\ Before(offset) \cap Launched = {}
         /\ Before(offset) \cup Launched = Before(offset + width)
         /\ \A A : A \subseteq Terms => Scored(A) /\ A \subseteq AllTerms
         /\ plan # "chunked" => offset = 0 /\ Before(offset) = {}
<1>1. /\ InputsTyped /\ CursorTyped /\ DataTyped /\ InCall /\ InputsSound
      /\ plan \in Plans /\ lens[0] \in 0 .. K /\ offset \in 0 .. K /\ width \in 0 .. 2 * K
  BY DEF Inv, Typed, Partial, InputsTyped, CursorTyped, Subsets
<1>2. part = 0 /\ offset + width <= K /\ parts = 1
  BY <1>1 DEF InCall, InputsSound, SplitPlans
<1>3. sink \in Int
  BY <1>1 DEF InputsSound, InputsTyped, Extended
<1>4. kernel \in SplitKernels
  BY <1>1 DEF InCall, KernelsOf, SplitPlans, StatePlans, SplitKernels
<1>5. at <= width
  BY <1>1, <1>4 DEF InCall, Bound, SplitKernels, Capped
<1>6. /\ LocalEff \in Nat /\ LocalEff <= width
      /\ LocalEff < width => lens[0] <= offset + LocalEff
      /\ \A n \in Nat : n < LocalEff => offset + n < lens[0]
  BY <1>1, <1>2, BoundFacts
<1>7. \A t \in Terms : t[2] \in Nat /\ t[2] < K /\ t[2] \in Cols /\ t = <<t[1], t[2]>>
  BY <1>1, TermFacts DEF Cols
<1>8. Launched \subseteq Terms
  BY DEF Launched
<1>9. ASSUME NEW t \in Launched
      PROVE  /\ t[2] < lens[0] /\ t[2] - offset \in Cols /\ t[2] - offset < LocalEff
             /\ t = <<0, offset + (t[2] - offset)>>
  <2>1. t \in Terms /\ t[1] = 0 /\ offset <= t[2] /\ t[2] < offset + LocalEff
    BY <1>9 DEF Launched
  <2>2. t[2] - offset \in Nat /\ t[2] - offset < LocalEff /\ offset + (t[2] - offset) = t[2]
        /\ t[2] - offset \in Cols
    BY <1>1, <1>6, <1>7, <2>1 DEF Cols
  <2>3. t[2] < lens[0]
    BY <1>6, <2>2
  <2>4. QED
    BY <1>7, <2>1, <2>2, <2>3
<1>10. Before(offset) \subseteq Terms /\ Before(offset) \cap Launched = {}
  <2>1. \A t \in Terms : ~(t[2] < offset /\ offset <= t[2])
    BY <1>1, <1>7
  <2>2. QED
    BY <2>1 DEF Before, Launched
<1>11. Before(offset) \cup Launched = Before(offset + width)
  <2>1. ASSUME NEW t \in Terms, t[1] = 0, t[2] < lens[0]
        PROVE  t[2] < offset + width
               <=> t[2] < offset \/ (offset <= t[2] /\ t[2] < offset + LocalEff)
    <3>1. t[2] \in Nat
      BY <1>7
    <3>2. QED
      BY <1>1, <1>6, <2>1, <3>1
  <2>2. QED
    BY <1>9, <2>1 DEF Before, Launched
<1>12. \A A : A \subseteq Terms => Scored(A) /\ A \subseteq AllTerms
  BY <1>1, TermFacts DEF AllTerms
<1>13. plan # "chunked" => offset = 0 /\ Before(offset) = {}
  <2>1. plan # "chunked" => plan \notin InPieces \cup {"scores"}
    BY DEF SplitPlans, InPieces, StatePlans
  <2>2. plan # "chunked" => offset = 0
    BY <1>1, <2>1 DEF InCall
  <2>3. \A t \in Terms : ~(t[2] < 0)
    BY <1>7
  <2>4. QED
    BY <2>2, <2>3 DEF Before
<1>14. QED
  BY <1>1, <1>2, <1>3, <1>4, <1>5, <1>8, <1>9, <1>10, <1>11, <1>12, <1>13

\* What SplitSound says of the logits l and the buffers s when kernel k is to run.
SplitAt(k, l, s) ==
  /\ plan = "chunked" /\ k \notin {"merge_state", "split_done"} =>
       IsSplitState(s[0], Before(offset))
  /\ k \in {"split_stats", "split_value"} => \A t \in Launched : l[t[2] - offset] = ScoreOf(t)
  /\ k \in {"split_value", "merge_acc", "merge_state"} =>
       /\ Peak(s[SplitInto].max, Launched)
       /\ s[SplitInto].den = Sum(Launched, s[SplitInto].max)
  /\ k \in {"merge_acc", "merge_state"} => plan = "chunked" /\ IsSplitState(s[2], Launched)
  /\ k = "merge_state" =>
       /\ Peak(s[0].max, Before(offset)) /\ s[0].den = Sum(Before(offset), s[0].max)
       /\ s[0].acc = Sum(Rows(Before(offset) \cup Launched), MaxOf(s[0].max, s[2].max))
  /\ k = "split_done" => IsSplitState(s[0], Before(offset) \cup Launched)

\* What the invariant says of a launch of the split kernels is SplitAt.
LEMMA SplitIs ==
  ASSUME Inv, pc = "loop", plan \in SplitPlans
  PROVE  SplitAt(kernel, logits, st)
<1>1. SplitSeen = Before(offset)
  BY LaunchedFacts DEF Reached, SplitSeen, Before
<1>2. SplitSound
  BY DEF Inv, Partial
<1>3. QED
  BY <1>1, <1>2 DEF SplitSound, SplitAt, Peak, Sum, Running, MergedMax

\* A step from one split kernel to the next that leaves the logits and the buffers as
\* they have to be keeps the invariant.
LEMMA SplitStep ==
  ASSUME Inv, pc = "loop", plan \in SplitPlans, NEW k \in SplitKernels, Goto(k),
         logits' \in [Cols -> Int], st' \in [0 .. 2 -> Buffers], SplitAt(k, logits', st')
  PROVE  Inv'
<1>1. /\ InputsTyped /\ CursorTyped /\ DataTyped /\ InputsSound /\ InCall /\ MaskSound /\ Whole
  BY DEF Inv, Typed, Partial
<1>2. /\ UNCHANGED inputs /\ pc' = pc /\ part' = part /\ kernel' = k /\ offset' = offset
      /\ width' = width /\ at' = at /\ mask' = mask /\ sub' = sub /\ out' = out
  BY DEF Goto
<1>3. /\ plan' = plan /\ parts' = parts /\ index' = index /\ score' = score /\ lens' = lens
      /\ sink' = sink /\ chunk' = chunk
  BY <1>2 DEF inputs
<1>4. part = 0 /\ at <= width /\ kernel \in SplitKernels
  BY LaunchedFacts
<1>5. /\ plan \notin OnlinePlans /\ plan \notin DcpPlans \cup StatePlans \cup {"paged_sink"}
      /\ plan \notin {"scores", "materialized", "two_subsets", "one_subset",
                      "global_paged_sink", "fused"}
  BY DEF OnlinePlans, SplitPlans, StatePlans, DcpPlans
<1>6. Typed'
  <2>1. InputsTyped'
    BY <1>1, <1>2, InputsKept
  <2>2. CursorTyped'
    BY <1>1, <1>2 DEF CursorTyped, Kernels, SplitKernels
  <2>3. DataTyped'
    BY <1>1, <1>2 DEF DataTyped
  <2>4. QED
    BY <2>1, <2>2, <2>3 DEF Typed
<1>7. InputsSound'
  BY <1>1, <1>2, InputsSoundKept
<1>8. InCall'
  <2>1. Bound' = width
    BY <1>2 DEF Bound, Capped, SplitKernels
  <2>2. k \in KernelsOf(plan) /\ k \notin {"gathered", "gathered_slots", "slots",
                                           "slots_multihead", "paged", "paged_multihead"}
    BY <1>5 DEF KernelsOf, SplitKernels
  <2>3. QED
    BY <1>1, <1>2, <1>3, <1>4, <2>1, <2>2 DEF InCall
<1>9. MaskSound'
  BY <1>3, <1>5 DEF MaskSound
<1>10. OnlineSound' /\ ScoresSound' /\ ResultsSound' /\ Exact' /\ Whole'
  BY <1>2, <1>3, <1>4, <1>5 DEF OnlineSound, ScoresSound, ResultsSound, Exact, Whole
<1>11. SplitSound'
  <2>1. SplitSeen' = Before(offset)
    BY <1>2, <1>3, <1>4, SplitKept DEF Reached
  <2>2. Launched' = Launched
    BY <1>2, <1>3 DEF Launched, LocalEff
  <2>3. SplitInto' = SplitInto /\ MergedMax' = MaxOf(st'[0].max, st'[2].max)
        /\ \A t : ScoreOf(t)' = ScoreOf(t)
    BY <1>2, <1>3, InputsKept DEF SplitInto, MergedMax
  <2>4. \A t : (t \in Launched => logits'[t[2] - offset] = ScoreOf(t))
               => (t \in Launched' => logits'[t[2] - offset'] = ScoreOf(t)')
    BY <1>2, <2>2, <2>3
  <2>5. IsSplitState(st'[0], Before(offset)) => IsSplitState(st[0], SplitSeen)'
    BY <1>2, <2>1, SplitKept
  <2>6. IsSplitState(st'[2], Launched) => IsSplitState(st[2], Launched)'
    BY <1>2, <2>2, SplitKept
  <2>7. IsSplitState(st'[0], Before(offset) \cup Launched) =>
          IsSplitState(st[0], SplitSeen \cup Launched)'
    BY <1>2, <2>1, <2>2, SplitKept
  <2>8. (plan = "chunked" /\ pc # "done" /\ ~Running("merge_state") /\ ~Running("split_done") =>
           IsSplitState(st[0], SplitSeen))'
    BY <1>2, <1>3, <2>5 DEF SplitAt, Running
  <2>9. (kernel \in {"split_stats", "split_value"} =>
            \A t \in Launched : logits[t[2] - offset] = ScoreOf(t))'
    BY <1>2, <2>4 DEF SplitAt
  <2>10. (kernel \in {"split_value", "merge_acc", "merge_state"} =>
            /\ Largest(st[SplitInto].max, {NegInf} \cup { ScoreOf(t) : t \in Launched })
            /\ st[SplitInto].den = [t \in Launched |-> ScoreOf(t) - st[SplitInto].max])'
    <3> DEFINE b == st'[SplitInto]
    <3>1. (st[SplitInto])' = b
      BY <2>3
    <3>2. k \in {"split_value", "merge_acc", "merge_state"} =>
            /\ Largest(b.max, {NegInf} \cup { ScoreOf(t) : t \in Launched })
            /\ b.den = [t \in Launched |-> ScoreOf(t) - b.max]
      BY DEF SplitAt, Peak, Sum
    <3>3. { ScoreOf(t) : t \in Launched }' = { ScoreOf(t) : t \in Launched }
      BY <2>2, <2>3
    <3>4. [t \in Launched |-> ScoreOf(t) - st[SplitInto].max]' =
            [t \in Launched |-> ScoreOf(t) - b.max]
      BY <2>2, <2>3, <3>1
    <3>5. QED
      BY <1>2, <3>1, <3>2, <3>3, <3>4
  <2>11. (kernel \in {"merge_acc", "merge_state"} =>
            plan = "chunked" /\ IsSplitState(st[2], Launched))'
    BY <1>2, <1>3, <2>6 DEF SplitAt
  <2>12. (kernel = "merge_state" =>
            /\ Largest(st[0].max, {NegInf} \cup { ScoreOf(t) : t \in SplitSeen })
            /\ st[0].den = [t \in SplitSeen |-> ScoreOf(t) - st[0].max]
            /\ st[0].acc = [t \in Rows(SplitSeen \cup Launched) |-> ScoreOf(t) - MergedMax])'
    <3> DEFINE S == Before(offset)
               b == st'[0]
               m == MaxOf(st'[0].max, st'[2].max)
    <3>1. k = "merge_state" =>
            /\ Largest(b.max, {NegInf} \cup { ScoreOf(t) : t \in S })
            /\ b.den = [t \in S |-> ScoreOf(t) - b.max]
            /\ b.acc = [t \in Rows(S \cup Launched) |-> ScoreOf(t) - m]
      BY DEF SplitAt, Peak, Sum
    <3>2. { ScoreOf(t) : t \in SplitSeen }' = { ScoreOf(t) : t \in S }
      BY <2>1, <2>3
    <3>3. [t \in SplitSeen |-> ScoreOf(t) - st[0].max]' = [t \in S |-> ScoreOf(t) - b.max]
      BY <2>1, <2>3
    <3>4. [t \in Rows(SplitSeen \cup Launched) |-> ScoreOf(t) - MergedMax]' =
            [t \in Rows(S \cup Launched) |-> ScoreOf(t) - m]
      BY <1>2, <2>1, <2>2, <2>3, SplitKept
    <3>5. QED
      BY <1>2, <3>1, <3>2, <3>3, <3>4
  <2>13. (kernel = "split_done" => IsSplitState(st[0], SplitSeen \cup Launched))'
    BY <1>2, <2>7 DEF SplitAt
  <2>14. QED
    BY <1>2, <2>8, <2>9, <2>10, <2>11, <2>12, <2>13 DEF SplitSound
<1>12. QED
  BY <1>6, <1>7, <1>8, <1>9, <1>10, <1>11 DEF Inv, Partial

\* The scores of the launch: every candidate of it gets its score.
LEMMA SplitScoreKernel ==
  ASSUME Inv, indexed_d512_split_score_kernel
  PROVE  Inv'
<1>1. pc = "loop" /\ kernel = "split_score" /\ st' = st
  BY DEF indexed_d512_split_score_kernel, Running
<1>2. plan \in SplitPlans
  BY <1>1, KernelPlan DEF Inv, Typed, InputsTyped, Partial, InCall
<1>3. /\ InputsTyped /\ CursorTyped /\ DataTyped /\ part = 0 /\ Launched \subseteq Terms
      /\ \A t \in Launched : t[2] - offset \in Cols /\ t[2] - offset < LocalEff
                             /\ t = <<0, offset + (t[2] - offset)>>
  BY <1>1, <1>2, LaunchedFacts
<1>4. /\ LocalEff \in Nat /\ \A n \in Nat : n < LocalEff => offset + n < lens[0]
      /\ lens[0] \in 0 .. K /\ offset \in 0 .. K
  BY <1>3, BoundFacts DEF InputsTyped, CursorTyped, Subsets
<1>5. logits' = [c \in Cols |->
                   IF c >= LocalEff THEN logits[c] ELSE ScoreOf(<<0, offset + c>>)]
  BY DEF indexed_d512_split_score_kernel
<1>6. logits' \in [Cols -> Int]
  <2>1. \A c \in Cols : logits[c] \in Int
    BY <1>3 DEF DataTyped
  <2>2. ASSUME NEW c \in Cols, ~(c >= LocalEff) PROVE ScoreOf(<<0, offset + c>>) \in Int
    <3>1. c \in Nat /\ c < LocalEff
      BY <1>4, <2>2 DEF Cols
    <3>2. offset + c \in Cols
      <4>1. offset + c < lens[0]
        BY <1>4, <3>1
      <4>2. QED
        BY <1>4, <3>1, <4>1, SparseMlaAssumption DEF Cols
    <3>3. QED
      BY <1>3, <3>2, TermFacts DEF Subsets
  <2>3. QED
    BY <1>5, <2>1, <2>2
<1>7. \A t \in Launched : logits'[t[2] - offset] = ScoreOf(t)
  <2> TAKE t \in Launched
  <2> DEFINE c == t[2] - offset
  <2>1. c \in Cols /\ c < LocalEff /\ t = <<0, offset + c>>
    BY <1>3
  <2>2. ~(c >= LocalEff)
    BY <1>4, <2>1 DEF Cols
  <2>3. logits'[c] = ScoreOf(<<0, offset + c>>)
    BY <1>5, <2>1, <2>2
  <2>4. QED
    BY <2>1, <2>3
<1>8. SplitAt("split_score", logits, st)
  BY <1>1, <1>2, SplitIs
<1>9. SplitAt("split_stats", logits', st')
  BY <1>1, <1>7, <1>8 DEF SplitAt
<1>10. "split_stats" \in SplitKernels /\ Goto("split_stats") /\ st' \in [0 .. 2 -> Buffers]
  BY <1>1, <1>3 DEF SplitKernels, indexed_d512_split_score_kernel, DataTyped
<1>11. QED
  BY <1>1, <1>2, <1>6, <1>9, <1>10, SplitStep

\* The maximum and the sum of the launch.
LEMMA SplitStatsKernel ==
  ASSUME Inv, indexed_d512_split_stats_kernel
  PROVE  Inv'
<1>1. pc = "loop" /\ kernel = "split_stats" /\ logits' = logits
  BY DEF indexed_d512_split_stats_kernel, Running
<1>2. plan \in SplitPlans
  BY <1>1, KernelPlan DEF Inv, Typed, InputsTyped, Partial, InCall
<1>3. /\ DataTyped /\ Launched \subseteq Terms /\ Scored(Launched) /\ Launched \subseteq AllTerms
  BY <1>1, <1>2, LaunchedFacts
<1>4. SplitAt("split_stats", logits, st)
  BY <1>1, <1>2, SplitIs
<1>5. \A t \in Launched : Logits[t] = ScoreOf(t)
  BY <1>4 DEF SplitAt, Logits
<1>6. SplitInto \in {0, 2} /\ (SplitInto = 0 <=> plan # "chunked")
  BY DEF SplitInto
<1>7. PICK m : /\ Largest(m, {NegInf} \cup { Logits[t] : t \in Launched })
               /\ st' = [st EXCEPT ![SplitInto].max = m,
                                   ![SplitInto].den = [t \in Launched |-> Logits[t] - m]]
  BY DEF indexed_d512_split_stats_kernel
<1>8. Peak(m, Launched) /\ m \in Extended
  <2>1. { Logits[t] : t \in Launched } = { ScoreOf(t) : t \in Launched }
    BY <1>5
  <2>2. Peak(m, Launched)
    BY <1>7, <2>1 DEF Peak
  <2>3. QED
    BY <1>3, <2>2, PeakFacts DEF Extended
<1>9. [t \in Launched |-> Logits[t] - m] = Sum(Launched, m) /\ Sum(Launched, m) \in Weights
  BY <1>3, <1>5, <1>8, SumWeights DEF Sum
<1>10. /\ st'[SplitInto] = [st[SplitInto] EXCEPT !.max = m, !.den = Sum(Launched, m)]
       /\ st' = [st EXCEPT ![SplitInto] =
                   [st[SplitInto] EXCEPT !.max = m, !.den = Sum(Launched, m)]]
  <2>1. SplitInto \in 0 .. 2 /\ st \in [0 .. 2 -> Buffers]
    BY <1>3, <1>6 DEF DataTyped
  <2>2. st' = [st EXCEPT ![SplitInto].max = m, ![SplitInto].den = Sum(Launched, m)]
    BY <1>7, <1>9
  <2>3. st'[SplitInto] = [st[SplitInto] EXCEPT !.max = m, !.den = Sum(Launched, m)]
    BY <2>1, <2>2
  <2>4. st' = [st EXCEPT ![SplitInto] = st'[SplitInto]]
    BY <2>1, <2>2
  <2>5. QED
    BY <2>3, <2>4
<1>11. /\ [st[SplitInto] EXCEPT !.max = m, !.den = Sum(Launched, m)] \in Buffers
       /\ st'[SplitInto].max = m /\ st'[SplitInto].den = Sum(Launched, m)
  <2>1. st[SplitInto] \in Buffers
    BY <1>3, <1>6 DEF DataTyped
  <2>2. QED
    BY <1>8, <1>9, <1>10, <2>1 DEF Buffers
<1>12. st' \in [0 .. 2 -> Buffers] /\ (plan = "chunked" => st'[0] = st[0])
  BY <1>3, <1>6, <1>10, <1>11 DEF DataTyped
<1>13. SplitAt("split_value", logits', st')
  BY <1>1, <1>4, <1>8, <1>11, <1>12 DEF SplitAt
<1>14. "split_value" \in SplitKernels /\ Goto("split_value") /\ logits' \in [Cols -> Int]
  BY <1>1, <1>3 DEF SplitKernels, indexed_d512_split_stats_kernel, DataTyped
<1>15. QED
  BY <1>1, <1>2, <1>12, <1>13, <1>14, SplitStep

\* The weighted rows of the launch, with the maximum the statistics kernel has found.
LEMMA SplitValueKernel ==
  ASSUME Inv, indexed_d512_split_value_kernel
  PROVE  Inv'
<1>1. pc = "loop" /\ kernel = "split_value" /\ logits' = logits
  BY DEF indexed_d512_split_value_kernel, Running
<1>2. plan \in SplitPlans
  BY <1>1, KernelPlan DEF Inv, Typed, InputsTyped, Partial, InCall
<1>3. /\ DataTyped /\ Launched \subseteq Terms /\ Scored(Launched) /\ Launched \subseteq AllTerms
      /\ Rows(Launched) \subseteq Launched
      /\ plan # "chunked" => Before(offset) = {}
  BY <1>1, <1>2, LaunchedFacts DEF Rows
<1>4. SplitAt("split_value", logits, st)
  BY <1>1, <1>2, SplitIs
<1>5. SplitInto \in {0, 2} /\ (SplitInto = 0 <=> plan # "chunked")
  BY DEF SplitInto
<1> DEFINE b == st[SplitInto]
<1>6. /\ Peak(b.max, Launched) /\ b.den = Sum(Launched, b.max)
      /\ \A t \in Launched : Logits[t] = ScoreOf(t)
  BY <1>4 DEF SplitAt, Logits
<1>7. st' = [st EXCEPT ![SplitInto].acc = Sum(Rows(Launched), b.max)]
  <2>1. [t \in Rows(Launched) |-> Logits[t] - b.max] = Sum(Rows(Launched), b.max)
    BY <1>3, <1>6 DEF Sum
  <2>2. QED
    BY <2>1 DEF indexed_d512_split_value_kernel
<1>8. Sum(Rows(Launched), b.max) \in Weights /\ b \in Buffers
  BY <1>3, <1>5, <1>6, SumWeights DEF DataTyped
<1>9. /\ st' = [st EXCEPT ![SplitInto] = [b EXCEPT !.acc = Sum(Rows(Launched), b.max)]]
      /\ st'[SplitInto] = [b EXCEPT !.acc = Sum(Rows(Launched), b.max)]
  BY <1>3, <1>5, <1>7 DEF DataTyped
<1>10. /\ [b EXCEPT !.acc = Sum(Rows(Launched), b.max)] \in Buffers
       /\ st'[SplitInto].max = b.max /\ st'[SplitInto].den = Sum(Launched, b.max)
       /\ st'[SplitInto].acc = Sum(Rows(Launched), b.max)
  BY <1>6, <1>8, <1>9 DEF Buffers
<1>11. st' \in [0 .. 2 -> Buffers] /\ (plan = "chunked" => st'[0] = st[0])
  BY <1>3, <1>5, <1>9, <1>10 DEF DataTyped
<1>12. IsSplitState(st'[SplitInto], Launched)
  BY <1>6, <1>10, SplitStateIs
<1>13. logits' \in [Cols -> Int]
  BY <1>1, <1>3 DEF DataTyped
<1>14. CASE plan = "chunked"
  <2>1. IsSplitState(st[0], Before(offset))
    BY <1>4, <1>14 DEF SplitAt
  <2>2. st'[0] = st[0] /\ SplitInto = 2
    BY <1>5, <1>11, <1>14
  <2>3. IsSplitState(st'[0], Before(offset)) /\ IsSplitState(st'[2], Launched)
    BY <1>12, <2>1, <2>2
  <2>4. SplitAt("merge_acc", logits', st')
    BY <1>6, <1>10, <1>14, <2>3 DEF SplitAt
  <2>5. "merge_acc" \in SplitKernels /\ Goto("merge_acc")
    BY <1>14 DEF SplitKernels, indexed_d512_split_value_kernel
  <2>6. QED
    BY <1>1, <1>2, <1>11, <1>13, <2>4, <2>5, SplitStep
<1>15. CASE plan # "chunked"
  <2>1. SplitInto = 0 /\ Before(offset) \cup Launched = Launched
    BY <1>3, <1>5, <1>15
  <2>2. IsSplitState(st'[0], Before(offset) \cup Launched)
    BY <1>12, <2>1
  <2>3. SplitAt("split_done", logits', st')
    BY <1>15, <2>2 DEF SplitAt
  <2>4. "split_done" \in SplitKernels /\ Goto("split_done")
    BY <1>15 DEF SplitKernels, indexed_d512_split_value_kernel
  <2>5. QED
    BY <1>1, <1>2, <1>11, <1>13, <2>3, <2>4, SplitStep
<1>16. QED
  BY <1>14, <1>15

\* What the chunk's buffers and the running ones say before they are merged.
LEMMA MergeFacts ==
  ASSUME Inv, pc = "loop", plan \in SplitPlans, kernel \in {"merge_acc", "merge_state"},
         NEW B, B \subseteq Before(offset), NEW C, C \subseteq Launched,
         Peak(st[0].max, Before(offset)), Peak(st[2].max, Launched)
  PROVE  /\ Peak(MergedMax, Before(offset) \cup Launched) /\ MergedMax \in Extended
         /\ Merged(Sum(B, st[0].max), Sum(C, st[2].max)) = Sum(B \cup C, MergedMax)
<1>1. /\ Before(offset) \subseteq Terms /\ Launched \subseteq Terms
      /\ Before(offset) \cap Launched = {}
      /\ Scored(Before(offset)) /\ Scored(Launched)
  BY LaunchedFacts
<1>2. st[0].max \in Extended /\ st[2].max \in Extended
  BY <1>1, PeakFacts DEF Extended
<1>3. Peak(MergedMax, Before(offset) \cup Launched)
  BY <1>1, PeakUnion DEF MergedMax
<1>4. /\ MergedMax \in Extended
      /\ MergedMax = NegInf => st[0].max = NegInf /\ st[2].max = NegInf
  BY <1>2, MaxFacts DEF MergedMax
<1>5. MergedMax = NegInf => Before(offset) = {} /\ Launched = {}
  BY <1>1, <1>4, PeakFacts
<1>6. /\ Guarded(Sum(B, st[0].max), st[0].max, MergedMax) = Sum(B, MergedMax)
      /\ Guarded(Sum(C, st[2].max), st[2].max, MergedMax) = Sum(C, MergedMax)
  BY <1>1, <1>4, <1>5, Rescale
<1>7. B \cap C = {}
  BY <1>1
<1>8. QED
  BY <1>3, <1>4, <1>6, <1>7, PlusSum DEF Merged

\* The accumulators are merged with the maximum that the next kernel will store.
LEMMA MergeAccKernel ==
  ASSUME Inv, indexed_d512_chunked_merge_acc_kernel
  PROVE  Inv'
<1>1. pc = "loop" /\ kernel = "merge_acc" /\ logits' = logits
  BY DEF indexed_d512_chunked_merge_acc_kernel, Running
<1>2. plan \in SplitPlans
  BY <1>1, KernelPlan DEF Inv, Typed, InputsTyped, Partial, InCall
<1>3. /\ DataTyped /\ Before(offset) \subseteq Terms /\ Launched \subseteq Terms
      /\ Before(offset) \cup Launched \subseteq Terms
      /\ \A A : A \subseteq Terms => Scored(A) /\ A \subseteq AllTerms
  BY <1>1, <1>2, LaunchedFacts
<1>4. SplitAt("merge_acc", logits, st)
  BY <1>1, <1>2, SplitIs
<1>5. /\ plan = "chunked" /\ IsSplitState(st[0], Before(offset)) /\ IsSplitState(st[2], Launched)
      /\ SplitInto = 2
  BY <1>4 DEF SplitAt, SplitInto
<1>6. /\ Peak(st[0].max, Before(offset)) /\ st[0].den = Sum(Before(offset), st[0].max)
      /\ st[0].acc = Sum(Rows(Before(offset)), st[0].max)
      /\ Peak(st[2].max, Launched) /\ st[2].den = Sum(Launched, st[2].max)
      /\ st[2].acc = Sum(Rows(Launched), st[2].max)
      /\ Rows(Before(offset)) \subseteq Before(offset) /\ Rows(Launched) \subseteq Launched
  BY <1>5, SplitStateIs
<1> DEFINE sum == Sum(Rows(Before(offset) \cup Launched), MergedMax)
<1>7. /\ Peak(MergedMax, Before(offset) \cup Launched)
      /\ Merged(st[0].acc, st[2].acc) = sum
  <2> DEFINE B == Rows(Before(offset))
             C == Rows(Launched)
  <2>1. /\ Peak(MergedMax, Before(offset) \cup Launched)
        /\ Merged(Sum(B, st[0].max), Sum(C, st[2].max)) = Sum(B \cup C, MergedMax)
    BY <1>1, <1>2, <1>6, MergeFacts
  <2>2. B \cup C = Rows(Before(offset) \cup Launched)
    BY RowsUnion
  <2>3. QED
    BY <1>6, <2>1, <2>2
<1>8. sum \in Weights /\ st \in [0 .. 2 -> Buffers]
  BY <1>3, <1>7, SplitStateIs, SumWeights DEF DataTyped
<1>9. st' = [st EXCEPT ![0].acc = sum]
  BY <1>7 DEF indexed_d512_chunked_merge_acc_kernel
<1>10. /\ st' = [st EXCEPT ![0] = [st[0] EXCEPT !.acc = sum]]
       /\ [st[0] EXCEPT !.acc = sum] \in Buffers
       /\ st'[0].max = st[0].max /\ st'[0].den = st[0].den /\ st'[0].acc = sum
       /\ st'[2] = st[2]
  BY <1>8, <1>9 DEF Buffers
<1>11. st' \in [0 .. 2 -> Buffers]
  BY <1>8, <1>10
<1>12. SplitAt("merge_state", logits', st')
  BY <1>5, <1>6, <1>10 DEF SplitAt, MergedMax
<1>13. "merge_state" \in SplitKernels /\ Goto("merge_state") /\ logits' \in [Cols -> Int]
  BY <1>1, <1>3 DEF SplitKernels, indexed_d512_chunked_merge_acc_kernel, DataTyped
<1>14. QED
  BY <1>1, <1>2, <1>11, <1>12, <1>13, SplitStep

\* The maximum and the denominator follow, and the buffers are those of all candidates
\* before and in the launch.
LEMMA MergeStateKernel ==
  ASSUME Inv, indexed_d512_chunked_merge_state_kernel
  PROVE  Inv'
<1>1. pc = "loop" /\ kernel = "merge_state" /\ logits' = logits
  BY DEF indexed_d512_chunked_merge_state_kernel, Running
<1>2. plan \in SplitPlans
  BY <1>1, KernelPlan DEF Inv, Typed, InputsTyped, Partial, InCall
<1> DEFINE all == Before(offset) \cup Launched
<1>3. /\ DataTyped /\ all \subseteq Terms /\ all \cup {} = all /\ Scored(all)
      /\ all \subseteq AllTerms
  BY <1>1, <1>2, LaunchedFacts
<1>4. SplitAt("merge_state", logits, st)
  BY <1>1, <1>2, SplitIs
<1>5. /\ Peak(st[2].max, Launched) /\ st[2].den = Sum(Launched, st[2].max)
      /\ Peak(st[0].max, Before(offset)) /\ st[0].den = Sum(Before(offset), st[0].max)
      /\ st[0].acc = Sum(Rows(all), MergedMax)
  BY <1>4 DEF SplitAt, SplitInto, MergedMax
<1>6. /\ Peak(MergedMax, all) /\ MergedMax \in Extended
      /\ Merged(st[0].den, st[2].den) = Sum(all, MergedMax)
  BY <1>1, <1>2, <1>5, MergeFacts
<1>7. Sum(all, MergedMax) \in Weights /\ st \in [0 .. 2 -> Buffers]
  BY <1>3, <1>6, SumWeights DEF DataTyped
<1> DEFINE new == [st[0] EXCEPT !.max = MergedMax, !.den = Sum(all, MergedMax)]
<1>8. st' = [st EXCEPT ![0].max = MergedMax, ![0].den = Sum(all, MergedMax)]
  BY <1>6 DEF indexed_d512_chunked_merge_state_kernel
<1>9. st'[0] = new /\ st' = [st EXCEPT ![0] = new]
  <2>1. st'[0] = new
    BY <1>7, <1>8
  <2>2. st' = [st EXCEPT ![0] = st'[0]]
    BY <1>7, <1>8
  <2>3. QED
    BY <2>1, <2>2
<1>10. /\ new \in Buffers
       /\ st'[0].max = MergedMax /\ st'[0].den = Sum(all, MergedMax)
       /\ st'[0].acc = st[0].acc
  <2>1. st[0] \in Buffers
    BY <1>7
  <2>2. QED
    BY <1>6, <1>7, <1>9, <2>1 DEF Buffers
<1>11. st' \in [0 .. 2 -> Buffers]
  BY <1>7, <1>9, <1>10
<1>12. IsSplitState(st'[0], all)
  <2> DEFINE s == st'[0]
  <2>1. Peak(s.max, all) /\ s.den = Sum(all, s.max) /\ s.acc = Sum(Rows(all), s.max)
    BY <1>5, <1>6, <1>10
  <2>2. QED
    BY <2>1, SplitStateIs
<1>13. SplitAt("split_done", logits', st')
  BY <1>12 DEF SplitAt
<1>14. "split_done" \in SplitKernels /\ Goto("split_done") /\ logits' \in [Cols -> Int]
  BY <1>1, <1>3 DEF SplitKernels, indexed_d512_chunked_merge_state_kernel, DataTyped
<1>15. QED
  BY <1>1, <1>2, <1>11, <1>13, <1>14, SplitStep

\* Every kernel keeps the invariant.
LEMMA KernelStep ==
  ASSUME Inv, Kernel
  PROVE  Inv'
<1>1. CASE \/ finish_materialized_scores_with_sink_kernel
           \/ finish_materialized_scores_with_sink_value_block_kernel
  BY <1>1, ScoresLoopStep DEF finish_materialized_scores_with_sink_kernel,
     finish_materialized_scores_with_sink_value_block_kernel
<1>2. QED
  BY <1>1, CappedKernels, GlobalPagedKernel, MaterializedKernel, FusedKernel, ScoresBlockStep,
     SplitScoreKernel, SplitStatsKernel, SplitValueKernel, MergeAccKernel, MergeStateKernel
     DEF Kernel

-----------------------------------------------------------------------------
(* Calls.                                                                  *)

\* A subset none of whose columns was worked on has no candidate seen.
LEMMA NothingSeen ==
  ASSUME NEW p, Reached(p) = 0
  PROVE  Seen(p) = {}
<1>1. \A t \in Terms : ~(t[2] < 0)
  BY DEF Terms, Cols
<1>2. QED
  BY <1>1 DEF Seen

\* The state without a call.
LEMMA InitInv == Init => Inv
<1> SUFFICES ASSUME Init PROVE Inv
  OBVIOUS
<1>1. plan = "bf16" /\ parts = 1 /\ pc = "idle" /\ part = 0 /\ offset = 0 /\ sink = NegInf
  BY DEF Init
<1>2. /\ plan \notin StatePlans \cup SinkPlans \cup SplitPlans
      /\ plan \notin {"two_subsets", "one_subset", "scores", "paged_sink", "two_states",
                      "global_paged_sink", "materialized", "chunked"}
  BY <1>1 DEF StatePlans, SinkPlans, SplitPlans
<1>3. Nothing \in Weights /\ Fresh \in Buffers /\ NoResult \in Results /\ Zero \in Outputs
  BY WeightsFacts DEF Fresh, Buffers, NoResult, Results, Zero, Out, Outputs, Extended
<1>4. Typed
  <2>1. InputsTyped
    BY DEF Init, InputsTyped, Plans, DcpPlans, Indices, Extended
  <2>2. CursorTyped
    BY DEF Init, CursorTyped, Pcs, Kernels, Subsets
  <2>3. DataTyped
    BY <1>3 DEF Init, DataTyped
  <2>4. QED
    BY <2>1, <2>2, <2>3 DEF Typed
<1>5. InputsSound
  BY <1>1, <1>2 DEF Init, InputsSound, Subsets
<1>6. InCall
  BY <1>1, <1>2 DEF InCall
<1>7. OnlineSound
  <2>1. ASSUME NEW p \in Subsets PROVE IsState(st[p], Seen(p), {})
    <3>1. Reached(p) = 0
      BY <1>1 DEF Reached, Subsets
    <3>2. st[p] = Fresh
      BY DEF Init, Subsets
    <3>3. QED
      BY <3>1, <3>2, NothingSeen, FreshState
  <2>2. QED
    BY <1>2, <2>1 DEF OnlineSound
<1>8. MaskSound /\ ScoresSound /\ SplitSound /\ Exact /\ Whole
  BY <1>1, <1>2 DEF MaskSound, ScoresSound, SplitSound, Exact, Whole
<1>9. ResultsSound
  BY <1>1 DEF ResultsSound, Subsets
<1>10. QED
  BY <1>4, <1>5, <1>6, <1>7, <1>8, <1>9 DEF Inv, Partial

\* The caller takes the output, and nothing is left of the call.
LEMMA ReturnStep ==
  ASSUME Return
  PROVE  Inv'
<1>1. Init'
  BY DEF Return, Init
<1>2. Init' => Inv'
  BY InitInv, PTL
<1>3. QED
  BY <1>1, <1>2

\* A call whose inputs are as its callers see to starts from fresh buffers.
LEMMA CallStep ==
  ASSUME Inv, NEW p \in Plans, NEW n \in 1 .. 2, NEW refers \in [Subsets -> SUBSET Indices],
         NEW sinks, sinks \subseteq Extended, NEW first \in {"launch", "mask"},
         first = "mask" <=> p \in {"materialized", "scores"},
         Call(p, n, refers, sinks, first), InputsSound'
  PROVE  Inv'
<1>1. /\ plan' = p /\ parts' = n /\ pc' = first /\ part' = 0 /\ offset' = 0 /\ at' = 0
      /\ kernel' = "none" /\ width' = 0 /\ mask' = {} /\ st' = [b \in 0 .. 2 |-> Fresh]
      /\ sub' = [s \in Subsets |-> NoResult] /\ out' = Zero /\ logits' = logits
      /\ index' \in [Subsets -> [Cols -> Indices]] /\ score' \in [Subsets -> [Cols -> Scores]]
      /\ lens' \in [Subsets -> 0 .. K] /\ sink' \in sinks
      /\ chunk' \in (IF p \in InPieces THEN 1 .. K ELSE {K})
  BY DEF Call
<1>2. Nothing \in Weights /\ Fresh \in Buffers /\ NoResult \in Results /\ Zero \in Outputs
  BY WeightsFacts DEF Fresh, Buffers, NoResult, Results, Zero, Out, Outputs, Extended
<1>3. Typed'
  <2>1. InputsTyped'
    <3>1. score' \in [Subsets -> [Cols -> Int]]
      <4>1. [Cols -> Scores] \subseteq [Cols -> Int]
        OBVIOUS
      <4>2. QED
        BY <1>1, <4>1
    <3>2. sink' \in Extended /\ chunk' \in 1 .. K
      BY <1>1
    <3>3. QED
      BY <1>1, <3>1, <3>2 DEF InputsTyped
  <2>2. CursorTyped'
    BY <1>1 DEF CursorTyped, Pcs, Kernels, Subsets
  <2>3. DataTyped'
    BY <1>1, <1>2 DEF DataTyped, Inv, Typed
  <2>4. QED
    BY <2>1, <2>2, <2>3 DEF Typed
<1>4. InCall'
  BY <1>1 DEF InCall
<1>5. \A s \in Subsets : IsState(st[s], Seen(s), {})'
  <2> SUFFICES ASSUME NEW s \in Subsets PROVE IsState(st[s], Seen(s), {})'
    OBVIOUS
  <2>1. Reached(s)' = 0
    BY <1>1 DEF Reached, Subsets
  <2>2. \A t \in Terms : ~(t[2] < 0)
    BY DEF Terms, Cols
  <2>3. Seen(s)' = {}
    BY <2>1, <2>2 DEF Seen
  <2>4. st'[s] = Fresh
    BY <1>1 DEF Subsets
  <2>5. IsState(Fresh, {}, {})'
    BY FreshState, PTL
  <2>6. QED
    BY <2>3, <2>4, <2>5
<1>6. OnlineSound'
  <2>1. Seen(0)' = {} /\ Seen(1)' = {} /\ st'[0] = Fresh
    <3>1. Reached(0)' = 0 /\ Reached(1)' = 0
      BY <1>1 DEF Reached
    <3>2. \A t \in Terms : ~(t[2] < 0)
      BY DEF Terms, Cols
    <3>3. QED
      BY <1>1, <3>1, <3>2 DEF Seen
  <2>2. IsState(Fresh, {}, {})'
    BY FreshState, PTL
  <2>3. IsState(st[0], Seen(0) \cup Seen(1), {})'
    <3>1. {} \cup {} = {}
      OBVIOUS
    <3>2. QED
      BY <2>1, <2>2, <3>1
  <2>4. QED
    BY <1>5, <2>3 DEF OnlineSound
<1>7. SplitSound'
  <2>1. (pc # "loop" /\ pc \notin {"subset", "merge"})'
    BY <1>1
  <2>2. SplitSeen' = {} /\ Rows({})' = {} /\ {} \ {} = {} /\ st'[0] = Fresh
    <3>1. Reached(0)' = 0
      BY <1>1 DEF Reached
    <3>2. \A t \in Terms : ~(t[2] < 0)
      BY DEF Terms, Cols
    <3>3. QED
      BY <1>1, <3>1, <3>2 DEF SplitSeen, Rows
  <2>3. IsState(Fresh, {}, {})'
    BY FreshState, PTL
  <2>4. IsSplitState(st[0], SplitSeen)'
    BY <2>2, <2>3 DEF IsSplitState
  <2>5. QED
    BY <2>1, <2>4 DEF SplitSound
<1>8. MaskSound'
  BY <1>1 DEF MaskSound
<1>9. ScoresSound' /\ Exact' /\ Whole' /\ ResultsSound'
  BY <1>1 DEF ScoresSound, Exact, Whole, ResultsSound, Subsets
<1>10. QED
  BY <1>3, <1>4, <1>6, <1>7, <1>8, <1>9 DEF Inv, Partial

\* What the columns of a call refer to.
LEMMA CallInputs ==
  ASSUME NEW p \in Plans, NEW n \in 1 .. 2, NEW refers \in [Subsets -> SUBSET Indices],
         NEW sinks, sinks \subseteq Extended, NEW first \in {"launch", "mask"},
         Call(p, n, refers, sinks, first)
  PROVE  /\ plan' = p /\ parts' = n /\ sink' \in sinks
         /\ \A s \in Subsets : s < n => \A c \in Cols : index'[s][c] \in refers[s]
         /\ \A s \in Subsets : s >= n => lens'[s] = 0 /\ \A c \in Cols : index'[s][c] = "sentinel"
<1>1. /\ plan' = p /\ parts' = n /\ sink' \in sinks
      /\ \A s \in Subsets, c \in Cols :
           index'[s][c] \in (IF s < n THEN refers[s] ELSE {"sentinel"})
      /\ \A s \in Subsets : s >= n => lens'[s] = 0
  BY DEF Call
<1>2. \A s \in Subsets : s >= n <=> ~(s < n)
  BY DEF Subsets
<1>3. QED
  BY <1>1, <1>2

\* Under DCP the kernels get whatever the indexer wrote; two ranks have no sink, and
\* one of them has a candidate.
LEMMA DcpCallStep ==
  ASSUME Inv, NEW p \in DcpPlans, NEW first \in {"launch", "mask"},
         first = "mask" <=> p = "materialized", DcpCall(p, first)
  PROVE  Inv'
<1>1. /\ p \in Plans /\ p \notin StatePlans \cup SinkPlans \cup SplitPlans
      /\ p \notin {"scores", "paged_sink", "two_subsets", "one_subset", "two_states",
                   "global_paged_sink"}
      /\ first = "mask" <=> p \in {"materialized", "scores"}
  BY DEF Plans, DcpPlans, StatePlans, SinkPlans, SplitPlans
<1>2. Everything \in [Subsets -> SUBSET Indices]
  BY DEF Everything
<1>3. Sinks \cup {NegInf} \subseteq Extended /\ {NegInf} \subseteq Extended
  BY DEF Extended
<1>4. CASE Call(p, 1, Everything, Sinks \cup {NegInf}, first)
  <2>1. plan' = p /\ parts' = 1 /\ lens'[1] = 0
    BY <1>1, <1>2, <1>3, <1>4, CallInputs DEF Subsets
  <2>2. InputsSound'
    BY <1>1, <2>1 DEF InputsSound
  <2>3. QED
    BY <1>1, <1>2, <1>3, <1>4, <2>2, CallStep
<1>5. CASE /\ Call(p, 2, Everything, {NegInf}, first)
           /\ \E s \in Subsets, c \in Cols : index'[s][c] = "row" /\ c < lens'[s]
  <2>1. plan' = p /\ parts' = 2 /\ sink' = NegInf
    BY <1>1, <1>2, <1>3, <1>5, CallInputs
  <2>2. \E t \in Terms : Valid(t)'
    <3>1. PICK s \in Subsets, c \in Cols : index'[s][c] = "row" /\ c < lens'[s]
      BY <1>5
    <3>2. <<s, c>> \in Terms /\ <<s, c>>[1] = s /\ <<s, c>>[2] = c
      BY DEF Terms
    <3>3. Valid(<<s, c>>)'
      BY <3>1, <3>2 DEF Valid
    <3>4. QED
      BY <3>2, <3>3
  <2>3. InputsSound'
    BY <1>1, <2>1, <2>2 DEF InputsSound
  <2>4. QED
    BY <1>1, <1>2, <1>3, <1>5, <2>3, CallStep
<1>6. QED
  BY <1>4, <1>5 DEF DcpCall

\* The DeepSeek-V4 backend compresses, so that no index is out of range, fills its
\* window, and gives a sink to the kernels that have no guard for its absence.
LEMMA V4CallStep ==
  ASSUME Inv, V4Call
  PROVE  Inv'
<1>1. Sinks \cup {NegInf} \subseteq Extended /\ Sinks \subseteq Extended /\ NegInf \notin Sinks
  BY DEF Extended
<1>2. /\ CompressedThenWindow \in [Subsets -> SUBSET Indices]
      /\ OnlyWindow \in [Subsets -> SUBSET Indices]
      /\ CompressedThenWindow[0] = Compressed /\ CompressedThenWindow[1] = {"row"}
      /\ OnlyWindow[0] = {"row"} /\ OnlyWindow[1] = {"row"}
      /\ "beyond" \notin Compressed
  BY DEF CompressedThenWindow, OnlyWindow, Compressed, Indices, Subsets
<1>3. 0 \in Subsets /\ 1 \in Subsets /\ \A s \in Subsets : s = 0 \/ s = 1
  BY DEF Subsets
<1>4. ASSUME NEW p \in {"two_states", "two_subsets", "global_paged_sink", "scores"},
             NEW sinks, sinks \subseteq Sinks \cup {NegInf},
             p \in {"two_subsets", "scores"} => NegInf \notin sinks,
             NEW first \in {"launch", "mask"}, first = "mask" <=> p = "scores",
             Call(p, 2, CompressedThenWindow, sinks, first)
      PROVE  Inv'
  <2>1. /\ p \in Plans /\ p \notin DcpPlans \cup SplitPlans
        /\ p \notin {"paged_sink", "one_subset", "materialized"}
        /\ first = "mask" <=> p \in {"materialized", "scores"}
    BY <1>4 DEF Plans, DcpPlans, StatePlans, SinkPlans, SplitPlans
  <2>2. sinks \subseteq Extended /\ Call(p, 2, CompressedThenWindow, sinks, first)
    BY <1>1, <1>4
  <2>3. /\ plan' = p /\ parts' = 2 /\ sink' \in sinks
        /\ \A s \in Subsets : s < 2 => \A c \in Cols : index'[s][c] \in CompressedThenWindow[s]
    BY <1>2, <2>1, <2>2, CallInputs
  <2>4. \A c \in Cols : index'[0][c] \in Compressed /\ index'[1][c] = "row"
    BY <1>2, <1>3, <2>3
  <2>5. p \in {"two_subsets", "scores"} => sink' # NegInf
    BY <1>4, <2>3
  <2>6. \A s \in Subsets, c \in Cols : index'[s][c] # "beyond"
    BY <1>2, <1>3, <2>4
  <2>7. InputsSound'
    BY <2>1, <2>3, <2>4, <2>5, <2>6 DEF InputsSound
  <2>8. QED
    BY <1>2, <2>1, <2>2, <2>7, CallStep
<1>5. ASSUME NEW p \in {"one_subset", "paged_sink"},
             NEW refers \in {CompressedThenWindow, OnlyWindow},
             p # "one_subset" => refers = OnlyWindow,
             NEW sinks, sinks \subseteq Sinks \cup {NegInf},
             p # "paged_sink" => NegInf \notin sinks,
             Call(p, 1, refers, sinks, "launch")
      PROVE  Inv'
  <2>1. /\ p \in Plans /\ p \notin DcpPlans \cup SplitPlans /\ p \notin {"materialized", "scores"}
        /\ p \notin {"two_states", "two_subsets", "global_paged_sink"}
        /\ p # "paged_sink" => p = "one_subset"
        /\ p = "paged_sink" => p # "one_subset"
    BY <1>5 DEF Plans, DcpPlans, StatePlans, SinkPlans, SplitPlans
  <2>2. /\ sinks \subseteq Extended /\ refers \in [Subsets -> SUBSET Indices]
        /\ Call(p, 1, refers, sinks, "launch")
    BY <1>1, <1>2, <1>5
  <2>3. /\ plan' = p /\ parts' = 1 /\ sink' \in sinks
        /\ \A s \in Subsets : s < 1 => \A c \in Cols : index'[s][c] \in refers[s]
        /\ \A s \in Subsets : s >= 1 => lens'[s] = 0 /\ \A c \in Cols : index'[s][c] = "sentinel"
    BY <2>1, <2>2, CallInputs
  <2>4. lens'[1] = 0 /\ \A c \in Cols : index'[0][c] \in refers[0] /\ index'[1][c] = "sentinel"
    BY <1>3, <2>3
  <2>5. \A s \in Subsets, c \in Cols : index'[s][c] # "beyond"
    BY <1>2, <1>3, <1>5, <2>4
  <2>6. p # "one_subset" => \A c \in Cols : index'[0][c] = "row"
    BY <1>2, <1>5, <2>4
  <2>7. p # "paged_sink" => sink' # NegInf
    BY <1>5, <2>3
  <2>8. "paged_sink" \notin {"two_subsets", "one_subset", "scores"}
    OBVIOUS
  <2>9. InputsSound'
    BY <2>1, <2>3, <2>4, <2>5, <2>6, <2>7, <2>8 DEF InputsSound
  <2>10. QED
    BY <2>1, <2>2, <2>9, CallStep
<1>6. CASE Call("two_states", 2, CompressedThenWindow, Sinks \cup {NegInf}, "launch")
  BY <1>4, <1>6
<1>7. CASE Call("two_subsets", 2, CompressedThenWindow, Sinks, "launch")
  BY <1>1, <1>4, <1>7
<1>8. CASE Call("one_subset", 1, CompressedThenWindow, Sinks, "launch")
  BY <1>1, <1>5, <1>8
<1>9. CASE Call("paged_sink", 1, OnlyWindow, Sinks \cup {NegInf}, "launch")
  BY <1>5, <1>9
<1>10. CASE Call("global_paged_sink", 2, CompressedThenWindow, Sinks \cup {NegInf}, "launch")
  BY <1>4, <1>10
<1>11. CASE Call("scores", 2, CompressedThenWindow, Sinks, "mask")
  BY <1>1, <1>4, <1>11
<1>12. CASE \E p \in SplitPlans : Call(p, 1, Everything, Sinks, "launch")
  <2>1. PICK p \in SplitPlans : Call(p, 1, Everything, Sinks, "launch")
    BY <1>12
  <2>2. /\ p \in Plans /\ p \notin DcpPlans \cup StatePlans \cup SinkPlans
        /\ p \notin {"paged_sink", "one_subset", "materialized", "scores"}
        /\ p \notin {"two_states", "two_subsets", "global_paged_sink"}
    BY DEF Plans, DcpPlans, StatePlans, SinkPlans, SplitPlans
  <2>3. Everything \in [Subsets -> SUBSET Indices]
    BY DEF Everything
  <2>4. plan' = p /\ parts' = 1 /\ sink' # NegInf /\ lens'[1] = 0
    BY <1>1, <1>3, <2>1, <2>2, <2>3, CallInputs
  <2>5. InputsSound'
    BY <2>2, <2>4 DEF InputsSound
  <2>6. QED
    BY <1>1, <2>1, <2>2, <2>3, <2>5, CallStep
<1>13. QED
  BY <1>6, <1>7, <1>8, <1>9, <1>10, <1>11, <1>12 DEF V4Call

\* The callers of the pipelines, DCP and not, keep the invariant.
LEMMA CallsStep ==
  ASSUME Inv,
         flash_mla_sparse_fwd_triton \/ flash_mla_with_kvcache_triton \/ V4Call
  PROVE  Inv'
<1>1. {"bf16", "fused", "materialized"} = DcpPlans
  BY DEF DcpPlans
<1>2. CASE flash_mla_sparse_fwd_triton
  BY <1>1, <1>2, DcpCallStep DEF flash_mla_sparse_fwd_triton
<1>3. CASE flash_mla_with_kvcache_triton
  BY <1>1, <1>3, DcpCallStep DEF flash_mla_with_kvcache_triton
<1>4. QED
  BY <1>2, <1>3, V4CallStep

-----------------------------------------------------------------------------
(* Launches.                                                               *)

Gathered == {"gathered", "gathered_slots", "slots", "slots_multihead"}
Paged    == {"paged", "paged_multihead"}

\* A launch of a kernel of the pipeline, over columns that are there, starts with the
\* buffers the previous one left.
LEMMA LaunchStep ==
  ASSUME Inv, plan # "scores", NEW k, NEW w \in 1 .. K, Launch(k, w), st' = st,
         k \in KernelsOf(plan), k \in Kernels, k \in SplitKernels => k = "split_score",
         offset + w <= K,
         k \in Gathered => part = 0, k \in Paged => part = 1,
         k = "gathered" => \A c \in Cols : index[0][c] = "row",
         plan \notin InPieces \/ plan = "fused" => offset = 0 /\ w = K
  PROVE  Inv'
<1>1. /\ InputsTyped /\ CursorTyped /\ DataTyped /\ InputsSound /\ InCall /\ MaskSound
      /\ OnlineSound /\ SplitSound /\ ResultsSound /\ Whole
  BY DEF Inv, Typed, Partial
<1>2. /\ pc = "launch" /\ pc' = "loop" /\ kernel' = k /\ width' = w /\ at' = 0
      /\ UNCHANGED inputs /\ part' = part /\ offset' = offset /\ mask' = mask
      /\ logits' = logits /\ sub' = sub /\ out' = out /\ st' = st
  BY DEF Launch
<1>3. /\ plan' = plan /\ parts' = parts /\ index' = index /\ score' = score /\ lens' = lens
      /\ sink' = sink /\ chunk' = chunk
  BY <1>2 DEF inputs
<1>4. Typed'
  <2>1. InputsTyped'
    BY <1>1, <1>2, InputsKept
  <2>2. CursorTyped'
    BY <1>1, <1>2 DEF CursorTyped, Pcs
  <2>3. DataTyped'
    BY <1>1, <1>2 DEF DataTyped
  <2>4. QED
    BY <2>1, <2>2, <2>3 DEF Typed
<1>5. InputsSound'
  BY <1>1, <1>2, InputsSoundKept
<1>6. InCall'
  <2>1. 0 <= Bound'
    <3>1. offset \in 0 .. K /\ lens[part] \in 0 .. K
      BY <1>1 DEF CursorTyped, InputsTyped
    <3>2. LocalEff' >= 0
      BY <1>2, <1>3, <3>1 DEF LocalEff, MinOf
    <3>3. QED
      BY <1>2, <3>2 DEF Bound
  <2>2. w > 0 /\ KernelsOf(plan)' = KernelsOf(plan)
    BY <1>3 DEF KernelsOf
  <2>3. (pc = "loop" =>
          /\ kernel \in KernelsOf(plan)
          /\ kernel \in {"gathered", "gathered_slots", "slots", "slots_multihead"} => part = 0
          /\ kernel \in {"paged", "paged_multihead"} => part = 1
          /\ kernel = "gathered" => \A c \in Cols : index[0][c] = "row"
          /\ width > 0
          /\ plan # "scores" => offset + width <= K
          /\ plan = "scores" => offset = 0 /\ width = 2 * K
          /\ plan \notin InPieces \cup {"scores"} => offset = 0 /\ width = K
          /\ at <= Bound)'
    BY <1>2, <1>3, <2>1, <2>2 DEF Gathered, Paged
  <2>4. QED
    BY <1>1, <1>2, <1>3, <2>3 DEF InCall
<1>7. MaskSound'
  BY <1>1, <1>2, <1>3, InputsKept DEF MaskSound
<1>8. \A p \in Subsets : Seen(p)' = Seen(p)
  <2>1. \A p \in Subsets : Reached(p)' = Reached(p)
    BY <1>1, <1>2, <1>3 DEF Reached, CursorTyped
  <2>2. QED
    BY <1>2, <2>1, SeenIs, SeenNext
<1>9. OnlineSound' /\ SplitSound'
  <2>1. \A p \in Subsets : IsState(st[p], Seen(p), {})' <=> IsState(st[p], Seen(p), {})
    BY <1>2, <1>8, StateKept
  <2>2. IsState(st[0], Seen(0) \cup Seen(1), {})' <=> IsState(st[0], Seen(0) \cup Seen(1), {})
    BY <1>2, <1>8, StateKept DEF Subsets
  <2>3. OnlineSound'
    BY <1>1, <1>2, <1>3, <2>1, <2>2 DEF OnlineSound
  <2>4. plan = "chunked" => IsSplitState(st[0], SplitSeen)'
    <3>1. Reached(0)' = Reached(0)
      BY <1>1, <1>2, <1>3 DEF Reached, CursorTyped
    <3>2. SplitSeen' = SplitSeen
      BY <1>2, <3>1, SplitKept DEF SplitSeen, Before
    <3>3. QED
      BY <1>1, <1>2, <3>2, SplitKept DEF SplitSound, Running
  <2>5. k \notin {"split_stats", "split_value", "merge_acc", "merge_state", "split_done"}
    BY DEF SplitKernels
  <2>6. SplitSound'
    BY <1>2, <1>3, <2>4, <2>5 DEF SplitSound
  <2>7. QED
    BY <2>3, <2>6
<1>10. ResultsSound'
  BY <1>1, <1>2, <1>3 DEF ResultsSound
<1>11. ScoresSound' /\ Exact' /\ Whole'
  BY <1>2, <1>3 DEF ScoresSound, Exact, Whole, InPieces
<1>12. QED
  BY <1>4, <1>5, <1>6, <1>7, <1>9, <1>10, <1>11 DEF Inv, Partial

\* The next piece is within the columns, and not empty.
LEMMA PieceFacts ==
  ASSUME Inv, pc = "launch"
  PROVE  Piece \in 1 .. K /\ offset + Piece <= K
<1>1. offset \in 0 .. K /\ offset < K /\ chunk \in 1 .. K
  BY DEF Inv, Typed, CursorTyped, InputsTyped, Partial, InCall
<1>2. QED
  BY <1>1 DEF Piece, MinOf

\* The kernels over materialized scores start from the sink.
LEMMA ScoresLaunch ==
  ASSUME Inv, finish_materialized_sparse_mla_scores_with_sink
  PROVE  Inv'
<1>1. PICK k \in {"scores_heads", "scores_values", "scores_max"} : Launch(k, 2 * K)
  BY DEF finish_materialized_sparse_mla_scores_with_sink
<1>2. plan = "scores" /\ st' = [st EXCEPT ![0] = FromSink(sink)]
  BY DEF finish_materialized_sparse_mla_scores_with_sink
<1>3. /\ InputsTyped /\ CursorTyped /\ DataTyped /\ InputsSound /\ InCall /\ MaskSound
      /\ Whole /\ mask \subseteq Terms
  BY DEF Inv, Typed, Partial, DataTyped
<1>4. /\ pc = "launch" /\ pc' = "loop" /\ kernel' = k /\ width' = 2 * K /\ at' = 0
      /\ UNCHANGED inputs /\ part' = part /\ offset' = offset /\ mask' = mask
      /\ logits' = logits /\ sub' = sub /\ out' = out
  BY <1>1 DEF Launch
<1>5. /\ plan' = plan /\ parts' = parts /\ index' = index /\ score' = score /\ lens' = lens
      /\ sink' = sink /\ chunk' = chunk
  BY <1>4 DEF inputs
<1>6. /\ plan \notin OnlinePlans \cup SplitPlans /\ plan \notin StatePlans \cup DcpPlans
      /\ plan \notin {"paged_sink", "chunked", "materialized", "two_subsets", "one_subset",
                      "global_paged_sink", "fused"}
      /\ plan \in SinkPlans
  BY <1>2 DEF OnlinePlans, SplitPlans, StatePlans, DcpPlans, SinkPlans
<1>7. sink \in Int /\ part = 0 /\ offset = 0
  BY <1>2, <1>3, <1>4, <1>6 DEF InputsTyped, InputsSound, Extended, InCall
<1>8. IsState(FromSink(sink), {}, {Sink}) /\ FromSink(sink).max = sink
      /\ FromSink(sink).acc = Nothing
  BY <1>7, FromSinkState DEF FromSink
<1>9. Scored({Sink}) /\ {Sink} \subseteq AllTerms /\ {} \cup {Sink} = {Sink}
  BY <1>7 DEF Scored, ScoreOf, AllTerms
<1>10. FromSink(sink) \in Buffers
  <2>1. FromSink(sink).max \in Extended /\ FromSink(sink).den \in Weights
        /\ FromSink(sink).acc \in Weights
    BY <1>8, <1>9, StateTyped
  <2>2. QED
    BY <2>1 DEF FromSink, Buffers
<1>11. Typed'
  <2>1. InputsTyped'
    BY <1>3, <1>4, InputsKept
  <2>2. CursorTyped'
    BY <1>3, <1>4 DEF CursorTyped, Pcs, Kernels
  <2>3. DataTyped'
    BY <1>2, <1>3, <1>4, <1>10 DEF DataTyped
  <2>4. QED
    BY <2>1, <2>2, <2>3 DEF Typed
<1>12. InputsSound'
  BY <1>3, <1>4, InputsSoundKept
<1>13. InCall'
  <2>1. Bound' = 2 * K
    BY <1>4 DEF Bound, Capped
  <2>2. QED
    BY <1>2, <1>3, <1>4, <1>5, <1>6, <1>7, <2>1 DEF InCall, KernelsOf
<1>14. MaskSound'
  BY <1>3, <1>4, <1>5, InputsKept DEF MaskSound
<1>15. OnlineSound' /\ SplitSound' /\ ResultsSound' /\ Exact' /\ Whole'
  <2>1. ResultsSound'
    BY <1>5, <1>6 DEF ResultsSound
  <2>2. QED
    BY <1>4, <1>5, <1>6, <2>1 DEF OnlineSound, SplitSound, Exact, Whole
<1>16. ScoresSound'
  <2>1. FlatBefore(0) = {}
    BY <1>3, FlatFacts
  <2>2. FlatBefore(at)' = {} /\ \A t : ScoreOf(t)' = ScoreOf(t)
    BY <1>4, <2>1, InputsKept DEF FlatBefore
  <2>3. st'[0] = FromSink(sink)
    BY <1>2, <1>3 DEF DataTyped
  <2>4. IsState(st[0], FlatBefore(at), {Sink})'
    BY <1>4, <1>8, <2>2, <2>3, StateKept
  <2>5. Largest(sink, { ScoreOf(t) : t \in {Sink} })
    <3>1. Peak(sink, {Sink})
      BY <1>8, <1>9, StateIs
    <3>2. QED
      BY <1>9, <3>1, PeakOfSome
  <2>6. { ScoreOf(t) : t \in FlatBefore(at) \cup {Sink} }' = { ScoreOf(t) : t \in {Sink} }
    BY <1>9, <2>2
  <2>7. (kernel = "scores_max" =>
           /\ Largest(st[0].max, { ScoreOf(t) : t \in FlatBefore(at) \cup {Sink} })
           /\ st[0].acc = Nothing)'
    BY <1>8, <2>3, <2>5, <2>6
  <2>8. k # "scores_sum" /\ (k = "scores_max" => k \notin {"scores_heads", "scores_values"})
    OBVIOUS
  <2>9. QED
    BY <1>4, <2>4, <2>7, <2>8 DEF ScoresSound
<1>17. QED
  BY <1>11, <1>12, <1>13, <1>14, <1>15, <1>16 DEF Inv, Partial

\* Every wrapper launches a kernel of its pipeline over columns that are there.
LEMMA WrapperStep ==
  ASSUME Inv, Wrapper
  PROVE  Inv'
<1>1. Inv /\ InCall /\ Whole /\ offset \in 0 .. K
  BY DEF Inv, Partial, Typed, CursorTyped
<1>2. ASSUME plan \in {"bf16", "fused", "materialized", "paged_sink", "global_paged_sink", "split"},
             NEW k \in KernelsOf(plan), k \in Kernels, k \in SplitKernels => k = "split_score",
             Launch(k, K), st' = st
      PROVE  Inv'
  <2>1. pc = "launch" /\ plan # "scores" /\ K \in 1 .. K
    BY <1>2 DEF Launch
  <2>2. offset = 0 /\ offset + K <= K
    BY <1>1, <1>2, <2>1 DEF Whole, StatePlans
  <2>3. k \notin Gathered \cup Paged /\ k # "gathered"
    BY <1>2 DEF KernelsOf, StatePlans, SplitPlans, Gathered, Paged
  <2>4. QED
    BY <1>1, <1>2, <2>1, <2>2, <2>3, LaunchStep
<1>3. ASSUME plan \in StatePlans, NEW k \in Gathered \cup Paged,
             k \in Gathered => part = 0, k \in Paged => part = 1,
             k = "gathered" => \A c \in Cols : index[0][c] = "row",
             Launch(k, Piece), st' = st
      PROVE  Inv'
  <2>1. pc = "launch" /\ Piece \in 1 .. K /\ offset + Piece <= K
    BY <1>1, <1>3, PieceFacts DEF Launch
  <2>2. plan # "scores" /\ plan \in InPieces /\ plan # "fused"
    BY <1>3 DEF StatePlans, InPieces
  <2>3. k \in Kernels /\ k \notin SplitKernels
    BY <1>3 DEF Gathered, Paged, Kernels, Capped, SplitKernels
  <2>4. k \in KernelsOf(plan)
    <3>1. KernelsOf(plan) = {"gathered", "gathered_slots", "slots", "slots_multihead",
                             "paged", "paged_multihead"}
      BY <1>3 DEF StatePlans, SplitPlans, KernelsOf
    <3>2. QED
      BY <1>3, <3>1 DEF Gathered, Paged
  <2>5. QED
    BY <1>1, <1>3, <2>1, <2>2, <2>3, <2>4, LaunchStep
<1>4. CASE accumulate_indexed_sparse_mla_attention_chunk
  <2>1. PICK k \in {"indexed", "indexed_multihead"} : Launch(k, K)
    BY <1>4 DEF accumulate_indexed_sparse_mla_attention_chunk
  <2>2. plan = "bf16" /\ st' = st
    BY <1>4 DEF accumulate_indexed_sparse_mla_attention_chunk
  <2>3. k \in KernelsOf(plan) /\ k \in Kernels /\ k \notin SplitKernels
    BY <2>2 DEF KernelsOf, StatePlans, SplitPlans, Kernels, Capped, SplitKernels
  <2>4. QED
    BY <1>2, <2>1, <2>2, <2>3
<1>5. CASE fused_gather_dequant_attend
  <2>1. plan = "fused" /\ st' = st /\ Launch("fused", K)
    BY <1>5 DEF fused_gather_dequant_attend
  <2>2. "fused" \in KernelsOf(plan) /\ "fused" \in Kernels /\ "fused" \notin SplitKernels
    BY <2>1 DEF KernelsOf, StatePlans, SplitPlans, Kernels, SplitKernels
  <2>3. QED
    BY <1>2, <2>1, <2>2
<1>6. CASE materialized_indexed_accumulate
  <2>1. plan = "materialized" /\ st' = st /\ Launch("materialized", K)
    BY <1>6 DEF materialized_indexed_accumulate
  <2>2. /\ "materialized" \in KernelsOf(plan) /\ "materialized" \in Kernels
        /\ "materialized" \notin SplitKernels
    BY <2>1 DEF KernelsOf, StatePlans, SplitPlans, Kernels, SplitKernels
  <2>3. QED
    BY <1>2, <2>1, <2>2
<1>7. CASE accumulate_gathered_sparse_mla_attention_chunk
  <2>1. plan \in StatePlans /\ part = 0 /\ st' = st
    BY <1>7 DEF accumulate_gathered_sparse_mla_attention_chunk
  <2>2. /\ "gathered_slots" \in Gathered /\ "gathered" \in Gathered
        /\ "gathered_slots" \notin Paged /\ "gathered" \notin Paged
    BY DEF Gathered, Paged
  <2>3. CASE Launch("gathered_slots", Piece)
    BY <1>3, <2>1, <2>2, <2>3
  <2>4. CASE (\A c \in Cols : index[0][c] = "row") /\ Launch("gathered", Piece)
    BY <1>3, <2>1, <2>2, <2>4
  <2>5. QED
    BY <1>7, <2>3, <2>4 DEF accumulate_gathered_sparse_mla_attention_chunk
<1>8. ASSUME plan \in StatePlans, part = 0, st' = st, NEW k \in {"slots", "slots_multihead"},
             Launch(k, Piece)
      PROVE  Inv'
  <2>1. k \in Gathered /\ k \notin Paged /\ k # "gathered"
    BY DEF Gathered, Paged
  <2>2. QED
    BY <1>3, <1>8, <2>1
<1>9. ASSUME plan \in StatePlans, part = 1, st' = st, NEW k \in {"paged", "paged_multihead"},
             Launch(k, Piece)
      PROVE  Inv'
  <2>1. k \in Paged /\ k \notin Gathered /\ k # "gathered"
    BY DEF Gathered, Paged
  <2>2. QED
    BY <1>3, <1>9, <2>1
<1>10. CASE \/ accumulate_fp8ds_global_slots_sparse_mla_attention_chunk
            \/ accumulate_fp8ds_global_slots_sparse_mla_attention_chunk_multihead
  BY <1>8, <1>10 DEF accumulate_fp8ds_global_slots_sparse_mla_attention_chunk,
     accumulate_fp8ds_global_slots_sparse_mla_attention_chunk_multihead
<1>11. CASE \/ accumulate_fp8ds_paged_sparse_mla_attention_chunk
            \/ accumulate_fp8ds_paged_sparse_mla_attention_chunk_multihead
  BY <1>9, <1>11 DEF accumulate_fp8ds_paged_sparse_mla_attention_chunk,
     accumulate_fp8ds_paged_sparse_mla_attention_chunk_multihead
<1>12. CASE fp8ds_paged_sparse_mla_attention_with_sink_multihead
  <2>1. plan = "paged_sink" /\ st' = st /\ Launch("paged_sink", K)
    BY <1>12 DEF fp8ds_paged_sparse_mla_attention_with_sink_multihead
  <2>2. "paged_sink" \in KernelsOf(plan) /\ "paged_sink" \in Kernels
        /\ "paged_sink" \notin SplitKernels
    BY <2>1 DEF KernelsOf, StatePlans, SplitPlans, Kernels, Capped, SplitKernels
  <2>3. QED
    BY <1>2, <2>1, <2>2
<1>13. CASE fp8ds_global_paged_sparse_mla_attention_with_sink_multihead
  <2>1. plan = "global_paged_sink" /\ st' = st /\ Launch("global_paged_sink", K)
    BY <1>13 DEF fp8ds_global_paged_sparse_mla_attention_with_sink_multihead
  <2>2. /\ "global_paged_sink" \in KernelsOf(plan) /\ "global_paged_sink" \in Kernels
        /\ "global_paged_sink" \notin SplitKernels
    BY <2>1 DEF KernelsOf, StatePlans, SplitPlans, Kernels, SplitKernels
  <2>3. QED
    BY <1>2, <2>1, <2>2
<1>14. CASE accumulate_indexed_d512_split_sparse_mla_attention
  <2>1. plan = "split" /\ st' = st /\ Launch("split_score", K)
    BY <1>14 DEF accumulate_indexed_d512_split_sparse_mla_attention
  <2>2. "split_score" \in KernelsOf(plan) /\ "split_score" \in Kernels
    BY <2>1 DEF KernelsOf, StatePlans, SplitPlans, Kernels
  <2>3. QED
    BY <1>2, <2>1, <2>2
<1>15. CASE accumulate_indexed_d512_chunked_sparse_mla_attention
  <2>1. plan = "chunked" /\ st' = st /\ Launch("split_score", Piece)
    BY <1>15 DEF accumulate_indexed_d512_chunked_sparse_mla_attention
  <2>2. /\ "split_score" \in KernelsOf(plan) /\ "split_score" \in Kernels
        /\ plan # "scores" /\ plan # "fused" /\ plan \in InPieces
        /\ "split_score" \notin Gathered \cup Paged /\ "split_score" # "gathered"
    BY <2>1 DEF KernelsOf, StatePlans, SplitPlans, Kernels, InPieces, Gathered, Paged
  <2>3. Piece \in 1 .. K /\ offset + Piece <= K
    BY <1>1, <2>1, PieceFacts DEF Launch
  <2>4. QED
    BY <1>1, <2>1, <2>2, <2>3, LaunchStep
<1>16. QED
  BY <1>1, <1>4, <1>5, <1>6, <1>7, <1>10, <1>11, <1>12, <1>13, <1>14, <1>15, ScoresLaunch
     DEF Wrapper

-----------------------------------------------------------------------------
(* The masks.                                                              *)

\* Before a launch: the mask marks what is valid, and nothing else has changed.
LEMMA MaskStep ==
  ASSUME Inv, pc \in {"mask", "matmul"},
         \/ gather_dequant_fp8ds \/ build_combined_sparse_mla_decode_valid_mask
         \/ matmul_sparse_mla_attention_with_sink
  PROVE  Inv'
<1>1. /\ InputsTyped /\ CursorTyped /\ DataTyped /\ InputsSound /\ InCall /\ MaskSound
      /\ OnlineSound /\ SplitSound /\ ResultsSound /\ Whole
  BY DEF Inv, Typed, Partial
<1>2. /\ UNCHANGED inputs /\ part' = part /\ kernel' = kernel /\ offset' = offset
      /\ width' = width /\ at' = at /\ logits' = logits /\ st' = st /\ sub' = sub /\ out' = out
  BY DEF gather_dequant_fp8ds, build_combined_sparse_mla_decode_valid_mask,
         matmul_sparse_mla_attention_with_sink, cursor
<1>3. /\ plan' = plan /\ parts' = parts /\ index' = index /\ score' = score /\ lens' = lens
      /\ sink' = sink /\ chunk' = chunk
  BY <1>2 DEF inputs
<1>4. /\ plan \in {"materialized", "scores"} /\ offset = 0 /\ plan \notin SplitPlans
      /\ plan \notin StatePlans /\ pc' \in {"launch", "matmul"}
      /\ pc' = "matmul" => plan = "scores"
  <2>1. plan \in {"materialized", "scores"} /\ offset = 0
    BY <1>1 DEF InCall
  <2>2. pc' \in {"launch", "matmul"} /\ (pc' = "matmul" => plan = "scores")
    BY DEF gather_dequant_fp8ds, build_combined_sparse_mla_decode_valid_mask,
           matmul_sparse_mla_attention_with_sink
  <2>3. QED
    BY <2>1, <2>2 DEF SplitPlans, StatePlans
<1>5. /\ mask' \subseteq Terms
      /\ plan = "materialized" => mask' = { t \in Terms : t[1] = part /\ Valid(t) }
      /\ plan = "scores" => mask' = { t \in Terms : Valid(t) }
  <2>1. CASE gather_dequant_fp8ds
    <3>1. plan = "materialized"
          /\ mask' = { t \in Terms : t[1] = part /\ index[part][t[2]] = "row" /\ t[2] < lens[part] }
      BY <2>1 DEF gather_dequant_fp8ds
    <3>2. \A t \in Terms : t[1] = part =>
            (Valid(t) <=> index[part][t[2]] = "row" /\ t[2] < lens[part])
      BY DEF Valid
    <3>3. QED
      BY <3>1, <3>2
  <2>2. CASE build_combined_sparse_mla_decode_valid_mask
    <3>1. plan = "scores" /\ mask' = CombinedMask
      BY <2>2 DEF build_combined_sparse_mla_decode_valid_mask
    <3>2. \A c \in Cols : index[1][c] = "row"
      BY <1>1, <3>1 DEF InputsSound, SinkPlans
    <3>3. ASSUME NEW t \in Terms
          PROVE  (IF t[1] = 0 THEN index[0][t[2]] = "row" /\ t[2] < lens[0] ELSE t[2] < lens[1])
                 <=> Valid(t)
      <4>1. t[1] \in {0, 1} /\ t[2] \in Cols
        BY <1>1, TermFacts DEF Subsets
      <4>2. CASE t[1] = 0
        BY <4>2 DEF Valid
      <4>3. CASE t[1] = 1
        BY <3>2, <4>1, <4>3 DEF Valid
      <4>4. QED
        BY <4>1, <4>2, <4>3
    <3>4. CombinedMask = { t \in Terms : Valid(t) }
      BY <3>3 DEF CombinedMask
    <3>5. QED
      BY <3>1, <3>4
  <2>3. CASE matmul_sparse_mla_attention_with_sink
    <3>1. plan = "scores" /\ mask' = mask /\ pc = "matmul"
      BY <1>1, <2>3 DEF matmul_sparse_mla_attention_with_sink, Whole
    <3>2. QED
      BY <1>1, <3>1 DEF MaskSound
  <2>4. QED
    BY <2>1, <2>2, <2>3
<1>6. Typed'
  <2>1. InputsTyped'
    BY <1>1, <1>2, InputsKept
  <2>2. CursorTyped'
    BY <1>1, <1>2, <1>4 DEF CursorTyped, Pcs
  <2>3. DataTyped'
    BY <1>1, <1>2, <1>5 DEF DataTyped
  <2>4. QED
    BY <2>1, <2>2, <2>3 DEF Typed
<1>7. InputsSound'
  BY <1>1, <1>2, InputsSoundKept
<1>8. InCall'
  BY <1>1, <1>2, <1>3, <1>4 DEF InCall, SinkPlans
<1>9. MaskSound'
  BY <1>2, <1>3, <1>5, InputsKept DEF MaskSound
<1>10. OnlineSound'
  <2>1. \A p \in Subsets : Reached(p)' = Reached(p)
    BY <1>1, <1>2, <1>3, <1>4 DEF Reached, CursorTyped
  <2>2. \A p \in Subsets : Seen(p)' = Seen(p)
    BY <1>2, <2>1, SeenIs, SeenNext
  <2>3. \A p \in Subsets : IsState(st[p], Seen(p), {})' <=> IsState(st[p], Seen(p), {})
    BY <1>2, <2>2, StateKept
  <2>4. plan # "global_paged_sink" /\ pc # "done"
    BY <1>4
  <2>5. QED
    BY <1>1, <1>3, <2>3, <2>4 DEF OnlineSound
<1>11. ResultsSound'
  BY <1>1, <1>2, <1>3, <1>4 DEF ResultsSound
<1>12. ScoresSound' /\ SplitSound' /\ Exact' /\ Whole'
  <2>1. plan # "chunked"
    BY <1>4
  <2>2. QED
    BY <1>2, <1>3, <1>4, <2>1 DEF ScoresSound, SplitSound, Exact, Whole
<1>13. QED
  BY <1>6, <1>7, <1>8, <1>9, <1>10, <1>11, <1>12 DEF Inv, Partial

-----------------------------------------------------------------------------
(* The end of a launch and of a subset.                                    *)

\* A launch that is over has been through its columns, also when it left its loop early:
\* there is nothing valid beyond.
LEMMA EndLaunchStep ==
  ASSUME Inv, EndLaunch
  PROVE  Inv'
<1>1. /\ InputsTyped /\ CursorTyped /\ DataTyped /\ InputsSound /\ InCall /\ MaskSound
      /\ OnlineSound /\ SplitSound /\ ResultsSound /\ Whole /\ plan \in Plans
      /\ part \in Subsets /\ offset \in 0 .. K /\ width \in 0 .. 2 * K
  BY DEF Inv, Typed, Partial, InputsTyped, CursorTyped
<1>2. /\ pc = "loop" /\ offset' = offset + width
      /\ pc' = IF offset + width < K THEN "launch" ELSE "subset"
      /\ UNCHANGED inputs /\ part' = part /\ kernel' = kernel /\ width' = width /\ at' = at
      /\ mask' = mask /\ logits' = logits /\ st' = st /\ sub' = sub /\ out' = out
  BY DEF EndLaunch
<1>3. /\ plan' = plan /\ parts' = parts /\ index' = index /\ score' = score /\ lens' = lens
      /\ sink' = sink /\ chunk' = chunk
  BY <1>2 DEF inputs
<1>4. \/ kernel \in (Capped \cup {"fused", "materialized"}) \ {"paged_sink"} /\ at = Bound
      \/ kernel = "split_done"
  BY DEF EndLaunch
<1>5. kernel \in KernelsOf(plan)
  BY <1>1, <1>2 DEF InCall
<1>6. /\ plan \in DcpPlans \cup StatePlans \cup SplitPlans
      /\ kernel = "split_done" <=> plan \in SplitPlans
  <2>1. CASE kernel = "split_done"
    BY <1>1, <1>5, <2>1, KernelPlan
  <2>2. CASE kernel \in (Capped \cup {"fused", "materialized"}) \ {"paged_sink"} /\ at = Bound
    <3>1. plan \in DcpPlans \cup StatePlans
      BY <1>1, <1>5, <2>2, KernelPlan DEF Capped, DcpPlans
    <3>2. plan \notin SplitPlans /\ kernel # "split_done"
      BY <2>2, <3>1 DEF DcpPlans, StatePlans, SplitPlans, Capped
    <3>3. QED
      BY <3>1, <3>2
  <2>3. QED
    BY <1>4, <2>1, <2>2
<1>7. /\ plan \notin SinkPlans /\ plan \notin {"scores", "paged_sink", "global_paged_sink"}
      /\ offset + width <= K /\ offset + width \in 0 .. K
  <2>1. plan \notin SinkPlans /\ plan \notin {"scores", "paged_sink", "global_paged_sink"}
    BY <1>6 DEF DcpPlans, StatePlans, SplitPlans, SinkPlans
  <2>2. offset + width <= K
    BY <1>1, <1>2, <2>1 DEF InCall
  <2>3. QED
    BY <1>1, <2>1, <2>2
<1>8. Typed'
  <2>1. InputsTyped'
    BY <1>1, <1>2, InputsKept
  <2>2. CursorTyped'
    BY <1>1, <1>2, <1>7 DEF CursorTyped, Pcs
  <2>3. DataTyped'
    BY <1>1, <1>2 DEF DataTyped
  <2>4. QED
    BY <2>1, <2>2, <2>3 DEF Typed
<1>9. InputsSound'
  BY <1>1, <1>2, InputsSoundKept
<1>10. InCall'
  BY <1>1, <1>2, <1>3, <1>7 DEF InCall
<1>11. MaskSound'
  BY <1>1, <1>2, <1>3, InputsKept DEF MaskSound
<1>12. \A p \in Subsets : Seen(p)' = Upto(p, IF p = part THEN offset + width
                                             ELSE IF p < part THEN K ELSE 0)
  <2> SUFFICES ASSUME NEW p \in Subsets
               PROVE  Seen(p)' = Upto(p, IF p = part THEN offset + width
                                         ELSE IF p < part THEN K ELSE 0)
    OBVIOUS
  <2>1. ~(offset + width < K) => offset + width = K
    BY <1>1, <1>7
  <2>2. Reached(p)' = IF p = part THEN offset + width ELSE IF p < part THEN K ELSE 0
    BY <1>2, <1>3, <2>1 DEF Reached
  <2>3. QED
    BY <1>2, <2>2, SeenNext
<1>13. ASSUME plan \notin SplitPlans PROVE OnlineSound' /\ SplitSound'
  <2>1. at = Bound /\ kernel \in Capped \cup {"fused", "materialized"}
        /\ plan \in DcpPlans \cup StatePlans /\ plan # "chunked"
    BY <1>4, <1>6, <1>13 DEF SplitPlans
  <2>2. Upto(part, offset + at) = Upto(part, offset + width)
    <3>1. CASE Bound = width
      BY <2>1, <3>1
    <3>2. CASE Bound # width
      <4>1. /\ Bound = LocalEff /\ LocalEff \in Nat /\ LocalEff <= width
            /\ lens[part] <= offset + LocalEff
        BY <1>1, <3>2, BoundFacts DEF Bound
      <4>2. offset + LocalEff \in Nat /\ offset + width \in Nat
            /\ offset + LocalEff <= offset + width
        BY <1>1, <4>1
      <4>3. QED
        BY <1>1, <2>1, <4>1, <4>2, UptoEnd
    <3>3. QED
      BY <3>1, <3>2
  <2>3. \A p \in Subsets : Seen(p)' = Seen(p)
    BY <1>1, <1>2, <1>12, <1>13, <2>2, SeenIs, ReachedInLoop
  <2>4. \A p \in Subsets : IsState(st[p], Seen(p), {})
    BY <1>1, <1>2, <2>1 DEF OnlineSound
  <2>5. \A p \in Subsets : IsState(st[p], Seen(p), {})'
    BY <1>2, <2>3, <2>4, StateKept
  <2>6. QED
    BY <1>3, <1>7, <1>13, <2>1, <2>5 DEF OnlineSound, SplitSound
<1>14. ASSUME plan \in SplitPlans PROVE OnlineSound' /\ SplitSound'
  <2>1. /\ Before(offset) \cup Launched = Before(offset + width) /\ part = 0
        /\ plan \notin DcpPlans \cup StatePlans \cup {"paged_sink"}
    BY <1>2, <1>14, LaunchedFacts DEF DcpPlans, StatePlans, SplitPlans
  <2>2. SplitAt("split_done", logits, st)
    BY <1>2, <1>6, <1>14, SplitIs
  <2>3. IsSplitState(st[0], Before(offset) \cup Launched)
    BY <2>2 DEF SplitAt
  <2>4. SplitSeen' = Before(offset) \cup Launched
    <3>1. ~(offset + width < K) => offset + width = K
      BY <1>1, <1>7
    <3>2. Reached(0)' = offset + width
      BY <1>2, <1>3, <2>1, <3>1 DEF Reached
    <3>3. QED
      BY <1>2, <2>1, <3>2, SplitKept
  <2>5. IsSplitState(st[0], SplitSeen)'
    BY <1>2, <2>3, <2>4, SplitKept
  <2>6. QED
    BY <1>2, <1>3, <1>7, <2>1, <2>5 DEF OnlineSound, SplitSound
<1>15. OnlineSound' /\ SplitSound'
  BY <1>13, <1>14
<1>16. ResultsSound'
  BY <1>1, <1>2, <1>3 DEF ResultsSound
<1>17. Whole'
  <2>1. plan \notin InPieces \cup {"scores"} \/ plan = "fused" => ~(offset + width < K)
    BY <1>1, <1>2 DEF InCall, Whole
  <2>2. plan \notin StatePlans \cup {"chunked"} =>
          plan \notin InPieces \cup {"scores"} \/ plan = "fused"
    BY <1>7 DEF InPieces
  <2>3. QED
    BY <1>2, <1>3, <2>1, <2>2 DEF Whole
<1>18. ScoresSound' /\ Exact'
  BY <1>2, <1>3, <1>7 DEF ScoresSound, Exact
<1>19. QED
  BY <1>8, <1>9, <1>10, <1>11, <1>15, <1>16, <1>17, <1>18 DEF Inv, Partial

\* What ResultsSound says of the result r of subset p.
ResultIs(p, r) ==
  /\ plan \in DcpPlans /\ parts = 1 => r.out = FinishWithSink(st[p], sink) /\ r.lse = LseOf(st[p])
  /\ plan \in DcpPlans /\ parts = 2 =>
       r.out = FinishWithSink(st[p], NegInf) /\ r.lse = LseOf(st[p])
  /\ plan \in {"two_subsets", "one_subset"} =>
       r.out = Out(st[p].acc, st[p].den) /\ r.lse = LseOf(st[p])

\* On to the next subset or to the merge, with the result of this one.
LEMMA SubsetStep ==
  ASSUME Inv, NextSubset, sub' \in [Subsets -> Results],
         \A p \in Subsets : p < part => sub'[p] = sub[p], ResultIs(part, sub'[part])
  PROVE  Inv'
<1>1. /\ InputsTyped /\ CursorTyped /\ DataTyped /\ InputsSound /\ InCall /\ MaskSound
      /\ OnlineSound /\ SplitSound /\ ResultsSound /\ Whole
      /\ part \in Subsets /\ parts \in 1 .. 2
  BY DEF Inv, Typed, Partial, CursorTyped, InputsTyped
<1>2. /\ pc = "subset" /\ UNCHANGED inputs /\ kernel' = kernel /\ width' = width /\ at' = at
      /\ mask' = mask /\ logits' = logits /\ st' = st /\ out' = out
  BY DEF NextSubset
<1>3. \/ /\ part = 0 /\ parts = 2 /\ part' = 1 /\ offset' = 0
         /\ pc' = IF plan = "materialized" THEN "mask" ELSE "launch"
      \/ /\ part = parts - 1 /\ part' = part /\ offset' = offset /\ pc' = "merge"
  <2>1. part < parts
    BY <1>1 DEF InCall
  <2>2. CASE part + 1 < parts
    <3>1. part = 0 /\ parts = 2
      BY <1>1, <2>2 DEF Subsets
    <3>2. part' = part + 1 /\ offset' = 0
          /\ pc' = IF plan = "materialized" THEN "mask" ELSE "launch"
      BY <2>2 DEF NextSubset
    <3>3. QED
      BY <3>1, <3>2
  <2>3. CASE ~(part + 1 < parts)
    <3>1. part = parts - 1
      BY <1>1, <2>1, <2>3 DEF Subsets
    <3>2. part' = part /\ offset' = offset /\ pc' = "merge"
      BY <2>3 DEF NextSubset
    <3>3. QED
      BY <3>1, <3>2
  <2>4. QED
    BY <2>2, <2>3
<1>4. /\ plan' = plan /\ parts' = parts /\ index' = index /\ score' = score /\ lens' = lens
      /\ sink' = sink /\ chunk' = chunk
  BY <1>2 DEF inputs
<1>5. /\ plan \notin SinkPlans /\ plan \notin {"scores", "paged_sink", "global_paged_sink"}
      /\ plan \in SplitPlans => parts = 1
  BY <1>1, <1>2 DEF InCall, SinkPlans, InputsSound
<1>6. Typed'
  <2>1. InputsTyped'
    BY <1>1, <1>2, InputsKept
  <2>2. CursorTyped'
    BY <1>1, <1>2, <1>3 DEF CursorTyped, Pcs, Subsets
  <2>3. DataTyped'
    BY <1>1, <1>2 DEF DataTyped
  <2>4. QED
    BY <2>1, <2>2, <2>3 DEF Typed
<1>7. InputsSound'
  BY <1>1, <1>2, InputsSoundKept
<1>8. InCall'
  BY <1>1, <1>2, <1>3, <1>4, <1>5 DEF InCall
<1>9. MaskSound'
  BY <1>3, <1>4, <1>5 DEF MaskSound
<1>10. OnlineSound' /\ SplitSound'
  <2>1. \A p \in Subsets : Reached(p)' = Reached(p)
    BY <1>1, <1>2, <1>3, <1>4 DEF Reached, Subsets
  <2>2. \A p \in Subsets : Seen(p)' = Seen(p)
    BY <1>2, <2>1, SeenIs, SeenNext
  <2>3. \A p \in Subsets : IsState(st[p], Seen(p), {})' <=> IsState(st[p], Seen(p), {})
    BY <1>2, <2>2, StateKept
  <2>4. OnlineSound'
    BY <1>1, <1>2, <1>4, <1>5, <2>3 DEF OnlineSound
  <2>5. plan \in SplitPlans => IsSplitState(st[0], SplitSeen)'
    <3>1. SplitSeen' = SplitSeen
      BY <1>2, <2>1, SplitKept DEF SplitSeen, Before, Subsets
    <3>2. QED
      BY <1>1, <1>2, <3>1, SplitKept DEF SplitSound
  <2>6. plan = "chunked" => plan \in SplitPlans
    BY DEF SplitPlans
  <2>7. pc' # "loop"
    BY <1>3
  <2>8. SplitSound'
    BY <1>4, <2>5, <2>6, <2>7 DEF SplitSound
  <2>9. QED
    BY <2>4, <2>8
<1>11. ResultsSound'
  <2>1. ASSUME NEW p \in Subsets, p < part' \/ (p = part' /\ pc' = "merge")
        PROVE  ResultIs(p, sub'[p])
    <3>1. p < part \/ p = part
      BY <1>1, <1>3, <2>1 DEF Subsets
    <3>2. CASE p < part
      BY <1>1, <3>2 DEF ResultsSound, ResultIs
    <3>3. CASE p = part
      BY <3>3
    <3>4. QED
      BY <3>1, <3>2, <3>3
  <2>2. QED
    BY <1>2, <1>4, <2>1 DEF ResultsSound, ResultIs
<1>12. ScoresSound' /\ Exact' /\ Whole'
  BY <1>3, <1>4, <1>5 DEF ScoresSound, Exact, Whole
<1>13. QED
  BY <1>6, <1>7, <1>8, <1>9, <1>10, <1>11, <1>12 DEF Inv, Partial

\* A finished subset of an online pipeline has been through all its columns.
LEMMA SubsetIs ==
  ASSUME Inv, pc \in {"subset", "merge"}, plan \in DcpPlans \cup StatePlans,
         NEW p \in Subsets, p < part \/ p = part
  PROVE  /\ IsState(st[p], Upto(p, K), {}) /\ Upto(p, K) \subseteq Terms
         /\ Scored(Upto(p, K)) /\ st[p] \in Buffers /\ sink \in Extended
         /\ LseOf(st[p]) \in [max : Extended, den : Weights]
<1>1. InputsTyped /\ CursorTyped /\ DataTyped /\ OnlineSound /\ Subsets \subseteq 0 .. 2
  BY DEF Inv, Typed, Partial, Subsets
<1>2. Reached(p) = K
  BY <1>1 DEF Reached, CursorTyped
<1>3. Seen(p) = Upto(p, K)
  BY <1>2, SeenIs
<1>4. IsState(st[p], Upto(p, K), {}) /\ Upto(p, K) \subseteq Terms /\ Scored(Upto(p, K))
  BY <1>1, <1>3, UptoEnd, TermFacts DEF OnlineSound
<1>5. st[p] \in Buffers /\ sink \in Extended
  BY <1>1 DEF DataTyped, InputsTyped
<1>6. LseOf(st[p]) \in [max : Extended, den : Weights]
  BY <1>5 DEF LseOf, Buffers, Extended
<1>7. QED
  BY <1>4, <1>5, <1>6

\* A DCP rank finishes its subset with the sink it was given.
LEMMA FinishRankStep ==
  ASSUME Inv, FinishRank
  PROVE  Inv'
<1> DEFINE r == [out |-> FinishWithSink(st[part], sink), lse |-> LseOf(st[part])]
<1>1. plan \in DcpPlans /\ NextSubset /\ pc = "subset" /\ sub' = [sub EXCEPT ![part] = r]
  BY DEF FinishRank, NextSubset
<1>2. part \in Subsets /\ sub \in [Subsets -> Results] /\ InputsSound
  BY DEF Inv, Typed, CursorTyped, DataTyped, Partial
<1>3. /\ IsState(st[part], Upto(part, K), {}) /\ Upto(part, K) \subseteq Terms
      /\ Scored(Upto(part, K)) /\ sink \in Extended
      /\ LseOf(st[part]) \in [max : Extended, den : Weights]
  BY <1>1, <1>2, SubsetIs
<1>4. FinishWithSink(st[part], sink) \in Outputs
  <2>1. Normal(FinishWithSink(st[part], sink), Upto(part, K))
    BY <1>3, FinishNormal
  <2>2. QED
    BY <1>3, <2>1, NormalTyped DEF FinishWithSink, Normal
<1>5. sub'[part] = r /\ r \in Results /\ sub' \in [Subsets -> Results]
      /\ \A p \in Subsets : p < part => sub'[p] = sub[p]
  <2>1. r \in Results
    BY <1>3, <1>4 DEF Results
  <2>2. \A p \in Subsets : p < part => p # part
    BY <1>2 DEF Subsets
  <2>3. QED
    BY <1>1, <1>2, <2>1, <2>2
<1>6. ResultIs(part, sub'[part])
  <2>1. plan \notin {"two_subsets", "one_subset"}
    BY <1>1 DEF DcpPlans
  <2>2. parts = 2 => sink = NegInf
    BY <1>1, <1>2 DEF InputsSound
  <2>3. QED
    BY <1>5, <2>1, <2>2 DEF ResultIs
<1>7. QED
  BY <1>1, <1>5, <1>6, SubsetStep

\* A subset of the gathered pipeline is finished without the sink.
LEMMA FinishGatheredStep ==
  ASSUME Inv, finish_gathered_sparse_mla_attention
  PROVE  Inv'
<1> DEFINE s == st[part]
           r == [out |-> Out(s.acc, s.den), lse |-> LseOf(s)]
<1>1. /\ plan \in {"two_subsets", "one_subset"} /\ NextSubset /\ pc = "subset"
      /\ sub' = [sub EXCEPT ![part] = FinishState(s)]
  BY DEF finish_gathered_sparse_mla_attention, NextSubset
<1>2. part \in Subsets /\ sub \in [Subsets -> Results]
  BY DEF Inv, Typed, CursorTyped, DataTyped
<1>3. /\ IsState(s, Upto(part, K), {}) /\ Scored(Upto(part, K)) /\ s \in Buffers
      /\ LseOf(s) \in [max : Extended, den : Weights]
  BY <1>1, <1>2, SubsetIs DEF StatePlans
<1>4. s.den = Nothing => s.acc = Nothing
  BY <1>3, StateFacts
<1>5. FinishState(s) = r
  BY <1>4 DEF FinishState, Zero
<1>6. sub'[part] = r /\ r \in Results /\ sub' \in [Subsets -> Results]
      /\ \A p \in Subsets : p < part => sub'[p] = sub[p]
  <2>1. r \in Results
    BY <1>3 DEF Results, Out, Outputs, Buffers
  <2>2. \A p \in Subsets : p < part => p # part
    BY <1>2 DEF Subsets
  <2>3. QED
    BY <1>1, <1>2, <1>5, <2>1, <2>2
<1>7. ResultIs(part, sub'[part])
  <2>1. plan \notin DcpPlans
    BY <1>1 DEF DcpPlans
  <2>2. QED
    BY <1>6, <2>1 DEF ResultIs
<1>8. QED
  BY <1>1, <1>6, <1>7, SubsetStep

\* The pipelines that merge buffers go on to the next subset and write no result.
LEMMA KeepBuffersStep ==
  ASSUME Inv, KeepBuffers
  PROVE  Inv'
<1>1. plan \in {"two_states"} \cup SplitPlans /\ NextSubset /\ sub' = sub
  BY DEF KeepBuffers
<1>2. sub' \in [Subsets -> Results] /\ \A p \in Subsets : p < part => sub'[p] = sub[p]
  BY <1>1 DEF Inv, Typed, DataTyped
<1>3. ResultIs(part, sub'[part])
  BY <1>1 DEF ResultIs, SplitPlans, DcpPlans
<1>4. QED
  BY <1>1, <1>2, <1>3, SubsetStep

-----------------------------------------------------------------------------
(* The output.                                                             *)

\* The candidates attention is to be over.
Selected == { t \in Terms : Valid(t) }

\* The candidates to attend to are those of the two subsets, which do not overlap.
LEMMA SelectedIs ==
  ASSUME InputsTyped
  PROVE  /\ Selected = Upto(0, K) \cup Upto(1, K)
         /\ Upto(0, K) \cap Upto(1, K) = {}
         /\ lens[1] = 0 => Selected = Upto(0, K)
         /\ Selected \subseteq Terms /\ Scored(Selected)
<1>1. \A t \in Terms : t[1] \in {0, 1} /\ t[2] < K /\ t[2] \in Nat
  BY TermFacts DEF Subsets, Cols
<1>2. Selected = Upto(0, K) \cup Upto(1, K)
  BY <1>1 DEF Selected, Upto
<1>3. lens[1] = 0 => Upto(1, K) = {}
  BY <1>1 DEF Upto, Valid
<1>4. Selected \subseteq Terms
  BY DEF Selected
<1>5. QED
  BY <1>2, <1>3, <1>4, UptoApart, TermFacts

\* Delivering a normal result over all valid candidates keeps the invariant, and ends
\* the call with the softmax as its output.
LEMMA DeliverStep ==
  ASSUME Inv, NEW n, NEW d, Deliver(Out(n, d)), NormalIn(Out(n, d), Selected, Selected \cup Strays)
  PROVE  Inv'
<1>1. /\ InputsTyped /\ CursorTyped /\ DataTyped /\ InputsSound /\ InCall /\ MaskSound
      /\ ResultsSound /\ Whole
  BY DEF Inv, Typed, Partial
<1>2. /\ out' = Out(n, d) /\ pc' = "done" /\ UNCHANGED inputs /\ part' = part
      /\ kernel' = kernel /\ offset' = offset /\ width' = width /\ at' = at
      /\ mask' = mask /\ logits' = logits /\ st' = st /\ sub' = sub
  BY DEF Deliver, cursor
<1>3. /\ plan' = plan /\ parts' = parts /\ index' = index /\ score' = score /\ lens' = lens
      /\ sink' = sink /\ chunk' = chunk
  BY <1>2 DEF inputs
<1>4. /\ Selected \cup Strays \subseteq Terms /\ Scored(Selected \cup Strays)
      /\ sink \in Extended
  <2>1. Selected \cup Strays \subseteq Terms
    BY DEF Selected, Strays
  <2>2. QED
    BY <1>1, <2>1, TermFacts DEF InputsTyped
<1>5. Typed'
  <2>1. InputsTyped'
    BY <1>1, <1>2, InputsKept
  <2>2. CursorTyped'
    BY <1>1, <1>2 DEF CursorTyped, Pcs
  <2>3. Out(n, d) \in Outputs
    BY <1>4, NormalTyped
  <2>4. DataTyped'
    BY <1>1, <1>2, <2>3 DEF DataTyped
  <2>5. QED
    BY <2>1, <2>2, <2>4 DEF Typed
<1>6. InputsSound'
  BY <1>1, <1>2, InputsSoundKept
<1>7. InCall'
  BY <1>1, <1>2, <1>3 DEF InCall
<1>8. MaskSound' /\ OnlineSound' /\ ScoresSound' /\ SplitSound' /\ Whole'
  BY <1>2 DEF MaskSound, OnlineSound, ScoresSound, SplitSound, Whole
<1>9. ResultsSound'
  BY <1>1, <1>2, <1>3 DEF ResultsSound
<1>10. Exact'
  <2>1. IsSoftmax(Out(n, d), Selected, Strays)
    BY <1>4, NormalIsSoftmax
  <2>2. /\ Selected' = Selected /\ SinkTerm' = SinkTerm /\ Strays' = Strays
        /\ \A t : ScoreOf(t)' = ScoreOf(t)
    BY <1>2, <1>3, InputsKept DEF Selected, Strays, IsRow
  <2>3. IsSoftmax(out, Selected, Strays)'
    BY <1>2, <2>1, <2>2 DEF IsSoftmax
  <2>4. QED
    BY <2>3 DEF Exact, Selected
<1>11. QED
  BY <1>5, <1>6, <1>7, <1>8, <1>9, <1>10 DEF Inv, Partial

\* Outside the split kernels there is nothing else in the denominator.
LEMMA DeliverNormal ==
  ASSUME Inv, plan \notin SplitPlans, NEW n, NEW d, Deliver(Out(n, d)),
         Normal(Out(n, d), Selected)
  PROVE  Inv'
<1>1. Selected \cup Strays = Selected
  BY DEF Strays
<1>2. QED
  BY <1>1, DeliverStep DEF Normal

\* Without DCP the rank has all candidates.
LEMMA ReturnAloneStep ==
  ASSUME Inv, ReturnAlone
  PROVE  Inv'
<1>1. pc = "merge" /\ plan \in DcpPlans /\ parts = 1 /\ Deliver(sub[0].out)
  BY DEF ReturnAlone
<1>2. InputsTyped /\ InputsSound /\ InCall /\ ResultsSound /\ 0 \in Subsets
  BY DEF Inv, Typed, Partial, Subsets
<1>3. part = 0 /\ lens[1] = 0
  BY <1>1, <1>2 DEF InCall, InputsSound
<1>4. sub[0].out = FinishWithSink(st[0], sink)
  BY <1>1, <1>2, <1>3 DEF ResultsSound
<1>5. /\ IsState(st[0], Upto(0, K), {}) /\ Upto(0, K) \subseteq Terms /\ Scored(Upto(0, K))
      /\ sink \in Extended
  BY <1>1, <1>2, <1>3, SubsetIs
<1>6. Normal(FinishWithSink(st[0], sink), Selected)
  <2>1. Selected = Upto(0, K)
    BY <1>2, <1>3, SelectedIs
  <2>2. QED
    BY <1>5, <2>1, FinishNormal
<1>7. \E n, d : FinishWithSink(st[0], sink) = Out(n, d)
  BY DEF FinishWithSink
<1>8. QED
  BY <1>1, <1>4, <1>6, <1>7, DeliverNormal DEF DcpPlans, StatePlans, SplitPlans

\* The two subsets of a call at its merge.
LEMMA BothSubsets ==
  ASSUME Inv, pc = "merge", plan \in DcpPlans \cup StatePlans, parts = 2
  PROVE  /\ IsState(st[0], Upto(0, K), {}) /\ IsState(st[1], Upto(1, K), {})
         /\ Scored(Upto(0, K)) /\ Scored(Upto(1, K)) /\ sink \in Extended
         /\ Upto(0, K) \cap Upto(1, K) = {} /\ Selected = Upto(0, K) \cup Upto(1, K)
         /\ Upto(0, K) \cup Upto(1, K) \subseteq Terms
         /\ part = 1 /\ 0 \in Subsets /\ 1 \in Subsets
<1>1. InputsTyped /\ InCall /\ 0 \in Subsets /\ 1 \in Subsets
  BY DEF Inv, Typed, Partial, Subsets
<1>2. part = 1
  BY <1>1 DEF InCall
<1>3. /\ IsState(st[0], Upto(0, K), {}) /\ Upto(0, K) \subseteq Terms /\ Scored(Upto(0, K))
      /\ IsState(st[1], Upto(1, K), {}) /\ Upto(1, K) \subseteq Terms /\ Scored(Upto(1, K))
      /\ sink \in Extended
  BY <1>1, <1>2, SubsetIs
<1>4. QED
  BY <1>1, <1>2, <1>3, SelectedIs

\* A merge looks at no more of a result than its output and its log-sum-exp.
LEMMA MergeOfReports ==
  ASSUME NEW r0, NEW r1, NEW s0, NEW s1,
         r0.out = Out(s0.acc, s0.den), r0.lse = LseOf(s0),
         r1.out = Out(s1.acc, s1.den), r1.lse = LseOf(s1), NEW x
  PROVE  /\ MergeTwo(r0, r1, x) = MergeTwo(Report(s0), Report(s1), x)
         /\ MergeSingle(r0, x) = MergeSingle(Report(s0), x)
         /\ \E n, d : MergeTwo(r0, r1, x) = Out(n, d)
         /\ \E n, d : MergeSingle(r0, x) = Out(n, d)
<1>1. /\ Report(s0).out = r0.out /\ Report(s0).lse = r0.lse
      /\ Report(s1).out = r1.out /\ Report(s1).lse = r1.lse
  BY DEF Report
<1>2. MergeTwo(r0, r1, x) = MergeTwo(Report(s0), Report(s1), x)
  BY <1>1 DEF MergeTwo
<1>3. MergeSingle(r0, x) = MergeSingle(Report(s0), x)
  BY <1>1 DEF MergeSingle
<1>4. (\E n, d : MergeTwo(r0, r1, x) = Out(n, d)) /\ (\E n, d : MergeSingle(r0, x) = Out(n, d))
  BY DEF MergeTwo, MergeSingle
<1>5. QED
  BY <1>2, <1>3, <1>4

\* Two ranks have all candidates between them, and at least one.
LEMMA CombineRanksStep ==
  ASSUME Inv, CombineRanks
  PROVE  Inv'
<1>1. /\ pc = "merge" /\ plan \in DcpPlans /\ parts = 2
      /\ Deliver(MergeTwo(sub[0], sub[1], NegInf))
  BY DEF CombineRanks
<1>2. /\ IsState(st[0], Upto(0, K), {}) /\ IsState(st[1], Upto(1, K), {})
      /\ Scored(Upto(0, K)) /\ Scored(Upto(1, K)) /\ sink \in Extended
      /\ Upto(0, K) \cap Upto(1, K) = {} /\ Selected = Upto(0, K) \cup Upto(1, K)
      /\ Upto(0, K) \cup Upto(1, K) \subseteq Terms
      /\ part = 1 /\ 0 \in Subsets /\ 1 \in Subsets
  BY <1>1, BothSubsets
<1>3. sink = NegInf /\ Selected # {}
  BY <1>1 DEF Inv, Partial, InputsSound, Selected
<1>4. /\ sub[0].out = FinishWithSink(st[0], NegInf) /\ sub[0].lse = LseOf(st[0])
      /\ sub[1].out = FinishWithSink(st[1], NegInf) /\ sub[1].lse = LseOf(st[1])
  <2>1. ResultsSound /\ 0 < part /\ 1 = part
    BY <1>2 DEF Inv, Partial
  <2>2. QED
    BY <1>1, <1>2, <2>1 DEF ResultsSound
<1>5. /\ sub[0].out = Out(st[0].acc, st[0].den) /\ sub[1].out = Out(st[1].acc, st[1].den)
  BY <1>2, <1>4, FinishNoSink
<1>6. MergeTwo(sub[0], sub[1], NegInf) = MergeTwo(Report(st[0]), Report(st[1]), sink)
  BY <1>3, <1>4, <1>5, MergeOfReports
<1>7. Normal(MergeTwo(Report(st[0]), Report(st[1]), sink), Selected)
  BY <1>2, <1>3, MergeTwoNormal
<1>8. \E n, d : MergeTwo(sub[0], sub[1], NegInf) = Out(n, d)
  BY <1>4, <1>5, MergeOfReports
<1>9. QED
  BY <1>1, <1>6, <1>7, <1>8, DeliverNormal DEF DcpPlans, StatePlans, SplitPlans

\* The two buffers and the sink, finished in one kernel.
LEMMA FinishTwoStep ==
  ASSUME Inv, finish_two_sparse_mla_attention_states_with_sink
  PROVE  Inv'
<1>1. pc = "merge" /\ plan = "two_states" /\ Deliver(FinishTwo(st[0], st[1], sink))
  BY DEF finish_two_sparse_mla_attention_states_with_sink
<1>2. plan \in StatePlans /\ parts = 2
  BY <1>1 DEF StatePlans, Inv, Partial, InputsSound
<1>3. Normal(FinishTwo(st[0], st[1], sink), Selected)
  BY <1>1, <1>2, BothSubsets, FinishTwoNormal
<1>4. \E n, d : FinishTwo(st[0], st[1], sink) = Out(n, d)
  BY DEF FinishTwo
<1>5. QED
  BY <1>1, <1>3, <1>4, DeliverNormal DEF DcpPlans, StatePlans, SplitPlans

\* The two finished subsets and the sink, merged from their lse.
LEMMA MergeSubsetsStep ==
  ASSUME Inv, merge_two_sparse_mla_subsets_with_sink
  PROVE  Inv'
<1>1. pc = "merge" /\ plan = "two_subsets" /\ Deliver(MergeTwo(sub[0], sub[1], sink))
  BY DEF merge_two_sparse_mla_subsets_with_sink
<1>2. plan \in StatePlans /\ parts = 2 /\ sink # NegInf
  BY <1>1 DEF StatePlans, Inv, Partial, InputsSound
<1>3. /\ IsState(st[0], Upto(0, K), {}) /\ IsState(st[1], Upto(1, K), {})
      /\ Scored(Upto(0, K)) /\ Scored(Upto(1, K)) /\ sink \in Extended
      /\ Upto(0, K) \cap Upto(1, K) = {} /\ Selected = Upto(0, K) \cup Upto(1, K)
      /\ Upto(0, K) \cup Upto(1, K) \subseteq Terms
      /\ part = 1 /\ 0 \in Subsets /\ 1 \in Subsets
  BY <1>1, <1>2, BothSubsets
<1>4. /\ sub[0].out = Out(st[0].acc, st[0].den) /\ sub[0].lse = LseOf(st[0])
      /\ sub[1].out = Out(st[1].acc, st[1].den) /\ sub[1].lse = LseOf(st[1])
  <2>1. ResultsSound /\ 0 < part /\ 1 = part
    BY <1>3 DEF Inv, Partial
  <2>2. QED
    BY <1>1, <1>3, <2>1 DEF ResultsSound
<1>5. /\ MergeTwo(sub[0], sub[1], sink) = MergeTwo(Report(st[0]), Report(st[1]), sink)
      /\ \E n, d : MergeTwo(sub[0], sub[1], sink) = Out(n, d)
  BY <1>4, MergeOfReports
<1>6. Normal(MergeTwo(Report(st[0]), Report(st[1]), sink), Selected)
  BY <1>2, <1>3, MergeTwoNormal
<1>7. QED
  BY <1>1, <1>5, <1>6, DeliverNormal DEF DcpPlans, StatePlans, SplitPlans

\* One finished subset and the sink, merged from its lse.
LEMMA MergeSubsetStep ==
  ASSUME Inv, merge_sparse_mla_subset_with_sink
  PROVE  Inv'
<1>1. pc = "merge" /\ plan = "one_subset" /\ Deliver(MergeSingle(sub[0], sink))
  BY DEF merge_sparse_mla_subset_with_sink
<1>2. /\ InputsTyped /\ InputsSound /\ InCall /\ ResultsSound /\ 0 \in Subsets
      /\ plan \in StatePlans
  BY <1>1 DEF Inv, Typed, Partial, Subsets, StatePlans
<1>3. parts = 1 /\ part = 0 /\ lens[1] = 0 /\ sink # NegInf
  BY <1>1, <1>2 DEF InCall, InputsSound
<1>4. sub[0].out = Out(st[0].acc, st[0].den) /\ sub[0].lse = LseOf(st[0])
  BY <1>1, <1>2, <1>3 DEF ResultsSound
<1>5. /\ IsState(st[0], Upto(0, K), {}) /\ Upto(0, K) \subseteq Terms /\ Scored(Upto(0, K))
      /\ sink \in Extended
  BY <1>1, <1>2, <1>3, SubsetIs
<1>6. Normal(MergeSingle(Report(st[0]), sink), Selected)
  <2>1. Selected = Upto(0, K)
    BY <1>2, <1>3, SelectedIs
  <2>2. QED
    BY <1>3, <1>5, <2>1, MergeSingleNormal
<1>7. /\ MergeSingle(sub[0], sink) = MergeSingle(Report(st[0]), sink)
      /\ \E n, d : MergeSingle(sub[0], sink) = Out(n, d)
  BY <1>4, MergeOfReports
<1>8. QED
  BY <1>1, <1>6, <1>7, DeliverNormal DEF DcpPlans, StatePlans, SplitPlans

\* The buffers of the split kernels, finished with the sink.
LEMMA FinishSplitStep ==
  ASSUME Inv, finish_sparse_mla_attention_with_sink
  PROVE  Inv'
<1>1. pc = "merge" /\ plan \in SplitPlans /\ Deliver(FinishWithSink(st[0], sink))
  BY DEF finish_sparse_mla_attention_with_sink
<1>2. InputsTyped /\ CursorTyped /\ InputsSound /\ InCall /\ SplitSound
  BY DEF Inv, Typed, Partial
<1>3. part = 0 /\ lens[1] = 0 /\ sink \in Extended
  BY <1>1, <1>2 DEF InCall, InputsSound, InputsTyped
<1> DEFINE A == Before(K)
<1>4. IsSplitState(st[0], A)
  <2>1. SplitSeen = A
    BY <1>1, <1>3 DEF SplitSeen, Before, Reached
  <2>2. QED
    BY <1>1, <1>2, <2>1 DEF SplitSound
<1>5. A \subseteq Terms /\ Scored(A) /\ Rows(A) = Selected /\ A = Selected \cup Strays
  <2>1. \A t \in Terms : t[1] \in {0, 1} /\ t[2] \in Nat /\ t[2] < K
    BY <1>2, TermFacts DEF Subsets, Cols
  <2>2. \A t \in Terms : t[2] < lens[t[1]] <=> t \in A
    BY <1>3, <2>1 DEF Before
  <2>3. A \subseteq Terms /\ Scored(A)
    BY <1>2, TermFacts DEF Before
  <2>4. QED
    BY <1>1, <2>2, <2>3 DEF Rows, IsRow, Valid, Selected, Strays
<1>6. NormalIn(FinishWithSink(st[0], sink), Selected, A)
  <2> DEFINE b == st[0]
             m == MaxOf(b.max, sink)
  <2>1. /\ Peak(b.max, A) /\ b.den = Sum(A, b.max) /\ b.acc = Sum(Selected, b.max)
        /\ Selected \subseteq A
    BY <1>4, <1>5, SplitStateIs
  <2>2. b.max \in Extended /\ (b.max = NegInf <=> A = {}) /\ (b.den = Nothing <=> A = {})
    BY <1>5, <2>1, PeakFacts, SumDomain DEF Extended
  <2>3. Peak(m, A \cup SinkTerm)
    BY <1>3, <1>5, <2>1, SinkFacts, PeakUnion
  <2>4. m \in Extended /\ (m = NegInf => A = {} /\ Selected = {})
    BY <1>3, <2>1, <2>2, MaxFacts
  <2>5. (IF b.den # Nothing THEN b.max ELSE NegInf) = b.max
    BY <2>2
  <2>6. /\ (IF b.den # Nothing THEN Times(b.acc, b.max, m) ELSE Nothing) = Sum(Selected, m)
        /\ (IF b.den # Nothing THEN Times(b.den, b.max, m) ELSE Nothing) = Sum(A, m)
    <3>1. CASE A = {}
      BY <2>1, <2>2, <3>1, SumNothing
    <3>2. CASE A # {}
      <4>1. m # NegInf /\ b.den # Nothing
        BY <2>2, <2>4, <3>2
      <4>2. /\ Times(Sum(Selected, b.max), b.max, m) = Sum(Selected, m)
            /\ Times(Sum(A, b.max), b.max, m) = Sum(A, m)
        BY <1>5, <2>1, <2>4, <4>1, Rescale
      <4>3. QED
        BY <2>1, <4>1, <4>2
    <3>3. QED
      BY <3>1, <3>2
  <2>7. FinishWithSink(b, sink) = Out(Sum(Selected, m), Plus(Sum(A, m), SinkWeight(sink, m)))
    BY <2>5, <2>6 DEF FinishWithSink
  <2>8. A \cap SinkTerm = {}
    BY <1>5, SinkFacts
  <2>9. QED
    BY <1>3, <1>5, <2>3, <2>7, <2>8, NormalSums
<1>7. \E n, d : FinishWithSink(st[0], sink) = Out(n, d)
  BY DEF FinishWithSink
<1>8. QED
  BY <1>1, <1>5, <1>6, <1>7, DeliverStep

\* A kernel that finishes by itself has been through all its candidates.
LEMMA FinishInKernelStep ==
  ASSUME Inv, FinishInKernel
  PROVE  Inv'
<1>1. pc = "loop" /\ at = Bound
  BY DEF FinishInKernel
<1>2. /\ InputsTyped /\ CursorTyped /\ InputsSound /\ InCall /\ plan \in Plans
      /\ kernel \in KernelsOf(plan) /\ sink \in Extended
  BY <1>1 DEF Inv, Typed, Partial, InputsTyped, InCall
<1>3. \E n, d : FinishWithSink(st[0], sink) = Out(n, d)
  BY DEF FinishWithSink
<1>4. ASSUME plan \notin SplitPlans, Deliver(FinishWithSink(st[0], sink)),
             IsState(st[0], Selected, {})
      PROVE  Inv'
  <2>1. Selected \subseteq Terms /\ Scored(Selected)
    BY <1>2, SelectedIs
  <2>2. Normal(FinishWithSink(st[0], sink), Selected)
    BY <1>2, <1>4, <2>1, FinishNormal
  <2>3. QED
    BY <1>3, <1>4, <2>2, DeliverNormal
<1>5. CASE kernel = "paged_sink" /\ Deliver(FinishWithSink(st[0], sink))
  <2>1. plan = "paged_sink" /\ plan \in OnlinePlans /\ plan \in SinkPlans
    BY <1>2, <1>5, KernelPlan DEF OnlinePlans, SinkPlans
  <2>2. parts = 1 /\ lens[1] = 0 /\ part = 0 /\ offset = 0 /\ width = K
    BY <1>1, <1>2, <2>1 DEF InputsSound, InCall, CursorTyped, InPieces, StatePlans, Subsets
  <2>3. Bound = LocalEff
    BY <1>5 DEF Bound, Capped
  <2>4. IsState(st[0], Upto(0, at), {})
    <3>1. Buffer = 0 /\ SeenBy(offset + at) = Upto(0, at)
      BY <1>2, <2>1, <2>2 DEF Buffer, SeenBy, CursorTyped
    <3>2. QED
      BY <1>1, <2>1, <3>1, OnlineIs
  <2>5. Upto(0, at) = Upto(0, K)
    <3>1. LocalEff \in Nat /\ LocalEff <= K /\ (LocalEff < K => lens[0] <= LocalEff)
      BY <1>2, <2>2, BoundFacts
    <3>2. CASE LocalEff < K
      BY <1>1, <1>2, <2>3, <3>1, <3>2, UptoEnd DEF Subsets
    <3>3. CASE ~(LocalEff < K)
      BY <1>1, <2>3, <3>1, <3>3
    <3>4. QED
      BY <3>2, <3>3
  <2>6. plan \notin SplitPlans
    BY <2>1 DEF SplitPlans
  <2>7. QED
    BY <1>2, <1>4, <1>5, <2>2, <2>4, <2>5, <2>6, SelectedIs
<1>6. CASE kernel = "global_paged_sink" /\ part = 1 /\ Deliver(FinishWithSink(st[0], sink))
  <2>1. plan = "global_paged_sink" /\ plan \in OnlinePlans
    BY <1>2, <1>6, KernelPlan DEF OnlinePlans
  <2>2. offset = 0 /\ width = K /\ Bound = K
    BY <1>1, <1>2, <1>6, <2>1 DEF InCall, InPieces, StatePlans, Bound, Capped
  <2>3. Buffer = 0 /\ SeenBy(offset + at) = Upto(0, K) \cup Upto(1, K)
    BY <1>1, <1>6, <2>1, <2>2 DEF Buffer, SeenBy
  <2>4. IsState(st[0], Upto(0, K) \cup Upto(1, K), {})
    BY <1>1, <2>1, <2>3, OnlineIs
  <2>5. plan \notin SplitPlans
    BY <2>1 DEF SplitPlans
  <2>6. QED
    BY <1>2, <1>4, <1>6, <2>4, <2>5, SelectedIs
<1>7. CASE kernel \in {"scores_heads", "scores_values", "scores_sum"}
           /\ Deliver(Out(st[0].acc, st[0].den))
  <2>1. plan = "scores"
    BY <1>2, <1>7, KernelPlan
  <2>2. /\ sink \in Int /\ width = 2 * K /\ Bound = width /\ mask \subseteq Terms
        /\ ScoresAt(kernel, at, st[0])
    BY <1>1, <2>1, ScoresIs
  <2>3. mask = Selected /\ FlatBefore(at) = mask
    <3>1. mask = Selected
      BY <1>1, <2>1 DEF Inv, Partial, MaskSound, Selected
    <3>2. QED
      BY <1>1, <1>2, <2>2, <3>1, FlatFacts
  <2>4. IsState(st[0], Selected, {Sink})
    <3>1. CASE kernel \in {"scores_heads", "scores_values"}
      BY <2>2, <2>3, <3>1 DEF ScoresAt
    <3>2. CASE kernel = "scores_sum"
      BY <2>2, <2>3, <3>2, StateIs DEF ScoresAt
    <3>3. QED
      BY <1>7, <3>1, <3>2
  <2>5. Normal(Out(st[0].acc, st[0].den), Selected)
    BY <1>2, <2>2, <2>4, SelectedIs, ScoresNormal
  <2>6. plan \notin SplitPlans
    BY <2>1 DEF SplitPlans
  <2>7. QED
    BY <1>7, <2>5, <2>6, DeliverNormal
<1>8. QED
  BY <1>5, <1>6, <1>7 DEF FinishInKernel

-----------------------------------------------------------------------------
(* The theorems.                                                           *)

\* A step that changes nothing changes nothing that the invariant speaks of.
LEMMA StutterStep ==
  ASSUME Inv, UNCHANGED vars
  PROVE  Inv'
<1>1. /\ UNCHANGED inputs /\ pc' = pc /\ part' = part /\ kernel' = kernel /\ offset' = offset
      /\ width' = width /\ at' = at /\ mask' = mask /\ logits' = logits /\ st' = st
      /\ sub' = sub /\ out' = out
  BY DEF vars, cursor
<1>2. /\ plan' = plan /\ parts' = parts /\ index' = index /\ score' = score /\ lens' = lens
      /\ sink' = sink /\ chunk' = chunk
  BY <1>1 DEF inputs
<1>3. /\ InputsTyped /\ CursorTyped /\ DataTyped /\ InputsSound /\ InCall /\ MaskSound
      /\ OnlineSound /\ ScoresSound /\ SplitSound /\ ResultsSound /\ Exact /\ Whole
  BY DEF Inv, Typed, Partial
<1>4. Typed'
  BY <1>1, <1>2, <1>3 DEF Typed, InputsTyped, CursorTyped, DataTyped
<1>5. InputsSound' /\ MaskSound'
  BY <1>1, <1>2, <1>3, InputsKept, InputsSoundKept DEF MaskSound
<1>6. InCall'
  <2>1. Bound' = Bound
    BY <1>1, <1>2 DEF Bound, LocalEff
  <2>2. QED
    BY <1>1, <1>2, <1>3, <2>1 DEF InCall
<1>7. \A p : Seen(p)' = Seen(p)
  <2>1. \A p : Reached(p)' = Reached(p)
    BY <1>1, <1>2 DEF Reached
  <2>2. QED
    BY <1>1, <2>1, SeenIs, SeenNext
<1>8. OnlineSound'
  <2>1. \A p : IsState(st[p], Seen(p), {})' <=> IsState(st[p], Seen(p), {})
    BY <1>1, <1>7, StateKept
  <2>2. IsState(st[0], Seen(0) \cup Seen(1), {})' <=> IsState(st[0], Seen(0) \cup Seen(1), {})
    BY <1>1, <1>7, StateKept
  <2>3. QED
    BY <1>1, <1>2, <1>3, <2>1, <2>2 DEF OnlineSound
<1>9. ScoresSound'
  BY <1>1, <1>2, <1>3 DEF ScoresSound, FlatBefore, Flat, IsState, ScoreOf, IsRow
<1>10. SplitSound'
  <2>1. Launched' = Launched
    BY <1>1, <1>2 DEF Launched, LocalEff
  <2>2. SplitInto' = SplitInto /\ MergedMax' = MergedMax /\ \A t : ScoreOf(t)' = ScoreOf(t)
    BY <1>1, <1>2 DEF SplitInto, MergedMax, ScoreOf, IsRow
  <2>3. SplitSeen' = SplitSeen
    <3>1. Reached(0)' = Reached(0)
      BY <1>1, <1>2 DEF Reached
    <3>2. QED
      BY <1>1, <3>1, SplitKept DEF SplitSeen, Before
  <2>4. IsSplitState(st[0], SplitSeen)' <=> IsSplitState(st[0], SplitSeen)
    BY <1>1, <2>3, SplitKept
  <2>5. /\ IsSplitState(st[2], Launched)' <=> IsSplitState(st[2], Launched)
        /\ IsSplitState(st[0], SplitSeen \cup Launched)'
             <=> IsSplitState(st[0], SplitSeen \cup Launched)
    BY <1>1, <2>1, <2>3, SplitKept
  <2>6. (\A t \in Launched : logits[t[2] - offset] = ScoreOf(t))'
          <=> \A t \in Launched : logits[t[2] - offset] = ScoreOf(t)
    BY <1>1, <2>1, <2>2
  <2>7. (/\ Largest(st[SplitInto].max, {NegInf} \cup { ScoreOf(t) : t \in Launched })
         /\ st[SplitInto].den = [t \in Launched |-> ScoreOf(t) - st[SplitInto].max])'
          <=> (/\ Largest(st[SplitInto].max, {NegInf} \cup { ScoreOf(t) : t \in Launched })
               /\ st[SplitInto].den = [t \in Launched |-> ScoreOf(t) - st[SplitInto].max])
    <3>1. { ScoreOf(t) : t \in Launched }' = { ScoreOf(t) : t \in Launched }
      BY <2>1, <2>2
    <3>2. (st[SplitInto])' = st[SplitInto]
      BY <1>1, <2>2
    <3>3. [t \in Launched |-> ScoreOf(t) - st[SplitInto].max]' =
            [t \in Launched |-> ScoreOf(t) - st[SplitInto].max]
      BY <2>1, <2>2, <3>2
    <3>4. QED
      BY <3>1, <3>2, <3>3
  <2>8. (/\ Largest(st[0].max, {NegInf} \cup { ScoreOf(t) : t \in SplitSeen })
         /\ st[0].den = [t \in SplitSeen |-> ScoreOf(t) - st[0].max]
         /\ st[0].acc = [t \in Rows(SplitSeen \cup Launched) |-> ScoreOf(t) - MergedMax])'
          <=> (/\ Largest(st[0].max, {NegInf} \cup { ScoreOf(t) : t \in SplitSeen })
               /\ st[0].den = [t \in SplitSeen |-> ScoreOf(t) - st[0].max]
               /\ st[0].acc = [t \in Rows(SplitSeen \cup Launched) |-> ScoreOf(t) - MergedMax])
    <3>1. { ScoreOf(t) : t \in SplitSeen }' = { ScoreOf(t) : t \in SplitSeen }
      BY <2>2, <2>3
    <3>2. [t \in SplitSeen |-> ScoreOf(t) - st[0].max]' =
            [t \in SplitSeen |-> ScoreOf(t) - st[0].max]
      BY <1>1, <2>2, <2>3
    <3>3. Rows(SplitSeen \cup Launched)' = Rows(SplitSeen \cup Launched)
      <4>1. (SplitSeen \cup Launched)' = SplitSeen \cup Launched
        BY <2>1, <2>3
      <4>2. \A t : IsRow(t)' <=> IsRow(t)
        BY <1>1 DEF IsRow, inputs
      <4>3. QED
        BY <4>1, <4>2 DEF Rows
    <3>4. [t \in Rows(SplitSeen \cup Launched) |-> ScoreOf(t) - MergedMax]' =
            [t \in Rows(SplitSeen \cup Launched) |-> ScoreOf(t) - MergedMax]
      BY <2>2, <3>3
    <3>5. QED
      BY <1>1, <3>1, <3>2, <3>4
  <2>9. QED
    BY <1>1, <1>2, <1>3, <2>3, <2>4, <2>5, <2>6, <2>7, <2>8 DEF SplitSound, Running
<1>11. ResultsSound'
  BY <1>1, <1>2, <1>3 DEF ResultsSound
<1>12. Exact' /\ Whole'
  BY <1>1, <1>2, <1>3 DEF Exact, Whole, IsSoftmax, SinkTerm, Strays, Valid, ScoreOf, IsRow
<1>13. QED
  BY <1>4, <1>5, <1>6, <1>8, <1>9, <1>10, <1>11, <1>12 DEF Inv, Partial

\* Every step of the pipelines keeps the invariant.
LEMMA InvStep ==
  ASSUME Inv, [Next]_vars
  PROVE  Inv'
<1>1. CASE \/ gather_dequant_fp8ds \/ build_combined_sparse_mla_decode_valid_mask
           \/ matmul_sparse_mla_attention_with_sink
  <2>1. pc \in {"mask", "matmul"}
    BY <1>1 DEF gather_dequant_fp8ds, build_combined_sparse_mla_decode_valid_mask,
                matmul_sparse_mla_attention_with_sink
  <2>2. QED
    BY <1>1, <2>1, MaskStep
<1>2. CASE flash_mla_sparse_fwd_triton \/ flash_mla_with_kvcache_triton \/ V4Call
  BY <1>2, CallsStep
<1>3. CASE Wrapper \/ Kernel \/ EndLaunch
  BY <1>3, WrapperStep, KernelStep, EndLaunchStep
<1>4. CASE FinishRank \/ finish_gathered_sparse_mla_attention \/ KeepBuffers
  BY <1>4, FinishRankStep, FinishGatheredStep, KeepBuffersStep
<1>5. CASE \/ ReturnAlone \/ CombineRanks \/ finish_two_sparse_mla_attention_states_with_sink
           \/ merge_two_sparse_mla_subsets_with_sink \/ merge_sparse_mla_subset_with_sink
           \/ finish_sparse_mla_attention_with_sink \/ FinishInKernel
  BY <1>5, ReturnAloneStep, CombineRanksStep, FinishTwoStep, MergeSubsetsStep,
     MergeSubsetStep, FinishSplitStep, FinishInKernelStep
<1>6. CASE Return \/ UNCHANGED vars
  BY <1>6, ReturnStep, StutterStep
<1>7. QED
  BY <1>1, <1>2, <1>3, <1>4, <1>5, <1>6 DEF Next

\* The invariant says what the properties say.
LEMMA InvMeans ==
  ASSUME Inv
  PROVE  TypeOK /\ IdleRankWeightsNothing /\ NoOverflow
<1>1. InputsTyped /\ CursorTyped /\ DataTyped /\ InCall /\ ResultsSound
  BY DEF Inv, Typed, Partial
<1>2. /\ st \in [0 .. 2 -> Buffers] /\ sub \in [Subsets -> Results] /\ out \in Outputs
  BY <1>1 DEF DataTyped
<1>3. TypeOK
  <2>1. \A b \in 0 .. 2 : st[b].max \in Extended /\ IsSum(st[b].den) /\ IsSum(st[b].acc)
    BY <1>2, WeightsFacts DEF Buffers
  <2>2. \A p \in Subsets : IsSum(sub[p].out.num) /\ IsSum(sub[p].out.den)
    BY <1>2, WeightsFacts DEF Results, Outputs
  <2>3. IsSum(out.num) /\ IsSum(out.den)
    BY <1>2, WeightsFacts DEF Outputs
  <2>4. QED
    BY <1>1, <2>1, <2>2, <2>3
       DEF TypeOK, InputsTyped, CursorTyped, DataTyped, Extended, IsBuffers, Pcs
<1>4. NoOverflow
  <2>1. \A b \in 0 .. 2 : st[b].den \in Weights /\ st[b].acc \in Weights
    BY <1>2 DEF Buffers
  <2>2. out.den \in Weights
    BY <1>2 DEF Outputs
  <2>3. QED
    BY <2>1, <2>2, WeightsFacts DEF NoOverflow
<1>5. IdleRankWeightsNothing
  <2> SUFFICES ASSUME pc = "merge", plan \in DcpPlans \cup {"two_subsets", "one_subset"},
                      NEW p \in 0 .. parts - 1
               PROVE  (sub[p].lse.max = NegInf) <=> ~ \E t \in Terms : t[1] = p /\ Valid(t)
    BY DEF IdleRankWeightsNothing
  <2>1. p \in Subsets /\ (p < part \/ p = part) /\ parts \in 1 .. 2
    BY <1>1 DEF InCall, InputsTyped, CursorTyped, Subsets
  <2>2. plan \in DcpPlans \cup StatePlans
    BY DEF StatePlans
  <2>3. sub[p].lse = LseOf(st[p])
    <3>1. parts = 1 \/ parts = 2
      BY <2>1
    <3>2. QED
      BY <1>1, <2>1, <3>1 DEF ResultsSound
  <2>4. IsState(st[p], Upto(p, K), {}) /\ Scored(Upto(p, K))
    BY <2>1, <2>2, SubsetIs
  <2>5. LseOf(st[p]).max = NegInf <=> Upto(p, K) = {}
    BY <2>4, StateFacts
  <2>6. Upto(p, K) = { t \in Terms : t[1] = p /\ Valid(t) }
    <3>1. \A t \in Terms : t[2] < K
      BY <1>1, TermFacts DEF Cols
    <3>2. QED
      BY <3>1 DEF Upto
  <2>7. QED
    BY <2>3, <2>5, <2>6
<1>6. QED
  BY <1>3, <1>4, <1>5

\* The invariant holds throughout.
LEMMA InvAlways == Spec => []Inv
<1>1. Inv /\ [Next]_vars => Inv'
  BY InvStep
<1>2. QED
  BY <1>1, InitInv, PTL DEF Spec

\* Whatever the number of columns, scores and sinks: every variable keeps its type, and
\* no sum ever holds a NaN or counts a candidate twice.
THEOREM TypeCorrect == Spec => []TypeOK
<1>1. Inv => TypeOK
  BY InvMeans
<1>2. QED
  BY <1>1, InvAlways, PTL

\* After every iteration, launch, mask, merge and subset of every pipeline the buffers
\* are the softmax of exactly the valid candidates they have been through; those of the
\* split kernels have the invalid ones within the valid length in the denominator, too.
THEOREM PartialAlways == Spec => []Partial
<1>1. Inv => Partial
  BY DEF Inv
<1>2. QED
  BY <1>1, InvAlways, PTL

\* Whatever pipeline runs, in whatever pieces, with or without a sink, on one rank or
\* two: its output is the softmax over exactly the valid candidates, each counted once; and
\* the split kernels weigh besides exactly the invalid ones within the valid length.
THEOREM ExactAlways == Spec => []Exact
<1>1. Inv => Exact
  BY DEF Inv, Partial
<1>2. QED
  BY <1>1, InvAlways, PTL

\* A rank or a subset reports the log-sum-exp -inf exactly if it has no valid candidate,
\* so that the merge gives it no weight.
THEOREM IdleRanks == Spec => []IdleRankWeightsNothing
<1>1. Inv => IdleRankWeightsNothing
  BY InvMeans
<1>2. QED
  BY <1>1, InvAlways, PTL

\* No exponential is ever taken of a positive number.
THEOREM NeverOverflows == Spec => []NoOverflow
<1>1. Inv => NoOverflow
  BY InvMeans
<1>2. QED
  BY <1>1, InvAlways, PTL

=============================================================================
