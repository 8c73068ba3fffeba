--------------------------- MODULE DcpPrefillProofs ---------------------------
(***************************************************************************)
(* Proofs about DcpPrefill, for every group size, number and length of     *)
(* requests, way of cutting them into chunks, workspace and set of scores: *)
(* the ranks never wait for each other in different collectives, and every *)
(* new token attends to the best keys it may see, up to ties.              *)
(***************************************************************************)
EXTENDS DcpPrefill, SharedLemmas, SequenceTheorems

USE NAssumption

\* The constants.
LEMMA ConstantTypes ==
  /\ TopK \in Nat \ {0} /\ MaxReqs \in Nat \ {0} /\ MaxLen \in Nat \ {0}
  /\ Capacity \in Nat \ {0} /\ QuantUnits \in Nat \ {0}
  /\ ScoreTables \subseteq [1 .. MaxReqs -> [Pos -> Int]] /\ StaleScore \in Int
BY PrefillAssumption

-----------------------------------------------------------------------------
(* Sequences laid out one after the other.                                 *)

\* A function on 1..n is a sequence.
LEMMA FunctionIsSeq ==
  ASSUME NEW S, NEW n \in Nat, NEW f \in [1 .. n -> S]
  PROVE  f \in Seq(S) /\ Len(f) = n /\ DOMAIN f = 1 .. n
  OBVIOUS

\* One sequence after another.
LEMMA ConcatAt ==
  ASSUME NEW S, NEW x \in Seq(S), NEW y \in Seq(S)
  PROVE  /\ x \o y \in Seq(S) /\ Len(x \o y) = Len(x) + Len(y)
         /\ \A j \in 1 .. Len(x) : (x \o y)[j] = x[j]
         /\ \A i \in 1 .. Len(y) : (x \o y)[Len(x) + i] = y[i]
<1>1. Len(x) \in Nat /\ Len(y) \in Nat
  BY LenProperties
<1>2. /\ x \o y \in Seq(S) /\ Len(x \o y) = Len(x) + Len(y)
      /\ \A i \in 1 .. Len(x) + Len(y) : (x \o y)[i] = IF i <= Len(x) THEN x[i] ELSE y[i - Len(x)]
  BY ConcatProperties
<1>3. \A i \in 1 .. Len(y) : /\ Len(x) + i \in 1 .. Len(x) + Len(y)
                             /\ ~ (Len(x) + i <= Len(x)) /\ (Len(x) + i) - Len(x) = i
  BY <1>1
<1>4. QED
  BY <1>1, <1>2, <1>3

\* g is the function FlattenSeq is defined by.
FlattenSteps(s, n, g) == g = [i \in 1 .. n |-> IF i = 1 THEN s[i] ELSE g[i - 1] \o s[i]]

\* Such a function exists.
LEMMA FlattenExists ==
  ASSUME NEW s
  PROVE  \A n \in Nat : \E g : FlattenSteps(s, n, g)
<1> DEFINE T == { n \in Nat : \E g : FlattenSteps(s, n, g) }
<1>1. 0 \in T
  <2>1. FlattenSteps(s, 0, [i \in 1 .. 0 |-> 0])
    BY DEF FlattenSteps
  <2>2. QED
    BY <2>1
<1>2. ASSUME NEW n \in Nat, n \in T PROVE n + 1 \in T
  <2>1. PICK g : FlattenSteps(s, n, g)
    BY <1>2
  <2> DEFINE last == IF n = 0 THEN s[1] ELSE g[n] \o s[n + 1]
             h == [i \in 1 .. n + 1 |-> IF i <= n THEN g[i] ELSE last]
             e == [i \in 1 .. n + 1 |-> IF i = 1 THEN s[i] ELSE h[i - 1] \o s[i]]
  <2>2. \A i \in 1 .. n : g[i] = IF i = 1 THEN s[i] ELSE g[i - 1] \o s[i]
    BY <2>1 DEF FlattenSteps
  <2>3. ASSUME NEW i \in 1 .. n + 1 PROVE h[i] = e[i]
    <3>1. CASE i <= n
      <4>1. i \in 1 .. n /\ (i # 1 => i - 1 \in 1 .. n)
        BY <3>1
      <4>2. h[i] = g[i] /\ (i # 1 => h[i - 1] = g[i - 1])
        BY <4>1
      <4>3. QED
        BY <2>2, <4>1, <4>2
    <3>2. CASE i = n + 1 /\ n = 0
      <4>1. i = 1 /\ ~ (i <= n)
        BY <3>2
      <4>2. h[i] = s[1] /\ e[i] = s[1]
        BY <3>2, <4>1
      <4>3. QED
        BY <4>2
    <3>3. CASE i = n + 1 /\ n # 0
      <4>1. i - 1 = n /\ i # 1 /\ ~ (i <= n) /\ n \in 1 .. n + 1 /\ n <= n
        BY <3>3
      <4>2. h[i] = last /\ h[i - 1] = g[n]
        BY <4>1
      <4>3. last = g[n] \o s[n + 1]
        BY <3>3
      <4> HIDE DEF last, h
      <4>4. QED
        BY <3>3, <4>1, <4>2, <4>3
    <3>4. QED
      BY <3>1, <3>2, <3>3
  <2>4. h = e
    BY <2>3
  <2>5. FlattenSteps(s, n + 1, h)
    BY <2>4 DEF FlattenSteps
  <2>6. QED
    BY <2>5
<1>3. Nat \subseteq T
  <2> HIDE DEF T
  <2>1. QED
    BY <1>1, <1>2, Induction
<1>4. QED
  BY <1>3

\* w[a] .. w[b] are sequences over S of lengths f[a] .. f[b].
Sized(w, f, S, a, b) == \A q \in a .. b : w[q] \in Seq(S) /\ f[q] = Len(w[q])

\* F is w[a] .. w[b], of these lengths, one after the other.
LaidOut(F, w, f, S, a, b) ==
  /\ F \in Seq(S)
  /\ Len(F) = SumOver(f, a, b)
  /\ \A q \in a .. b : \A i \in 1 .. f[q] : F[SumOver(f, a, q - 1) + i] = w[q][i]

\* What FlattenSeq computes.
LEMMA FlattenFacts ==
  ASSUME NEW S, NEW n \in Nat \ {0}, NEW s, Len(s) = n, NEW f, Sized(s, f, S, 1, n)
  PROVE  LaidOut(FlattenSeq(s), s, f, S, 1, n)
<1> DEFINE g == CHOOSE h : FlattenSteps(s, n, h)
<1>2. FlattenSteps(s, n, g)
  BY FlattenExists
<1>3. FlattenSeq(s) = g[n]
  BY DEF FlattenSeq, FlattenSteps
<1> HIDE DEF g
<1>4. \A i \in 1 .. n : g[i] = IF i = 1 THEN s[i] ELSE g[i - 1] \o s[i]
  BY <1>2 DEF FlattenSteps
<1>0. \A k \in 1 .. n : s[k] \in Seq(S) /\ f[k] = Len(s[k])
  BY DEF Sized
<1>5. \A k \in 1 .. n : f[k] \in Nat /\ s[k] \in Seq(S) /\ f[k] = Len(s[k])
  BY <1>0, LenProperties
<1>6. /\ SumOver(f, 1, 0) = 0
      /\ \A k \in 0 .. n : SumOver(f, 1, k) \in Nat
      /\ \A k \in 1 .. n : SumOver(f, 1, k) = SumOver(f, 1, k - 1) + f[k]
      /\ \A i, j \in 0 .. n : i <= j => SumOver(f, 1, i) <= SumOver(f, 1, j)
  BY <1>5, SumsFromOne
<1> DEFINE At1(m, k) == \A i \in 1 .. f[k] : g[m][SumOver(f, 1, k - 1) + i] = s[k][i]
           T == { m \in 1 .. n : /\ g[m] \in Seq(S) /\ Len(g[m]) = SumOver(f, 1, m)
                                 /\ \A k \in 1 .. m : At1(m, k) }
<1>7. 1 \in T
  <2>1. g[1] = s[1]
    BY <1>4
  <2>2. SumOver(f, 1, 1 - 1) = 0
    BY <1>6
  <2>3. SumOver(f, 1, 1) = f[1]
    <3>1. SumOver(f, 1, 1) = SumOver(f, 1, 1 - 1) + f[1]
      BY <1>6
    <3>2. QED
      BY <1>5, <2>2, <3>1
  <2>4. At1(1, 1)
    BY <2>1, <2>2
  <2>5. \A k \in 1 .. 1 : At1(1, k)
    BY <2>4
  <2> HIDE DEF At1
  <2>6. QED
    BY <1>5, <2>1, <2>3, <2>5
<1>8. ASSUME NEW m \in 2 .. n, m - 1 \in T PROVE m \in T
  <2>1. m \in 1 .. n /\ m - 1 \in 1 .. n /\ m # 1 /\ m - 1 \in 0 .. n
    OBVIOUS
  <2>2. /\ g[m - 1] \in Seq(S) /\ Len(g[m - 1]) = SumOver(f, 1, m - 1)
        /\ \A k \in 1 .. m - 1 : At1(m - 1, k)
    BY <1>8
  <2>3. g[m] = g[m - 1] \o s[m] /\ s[m] \in Seq(S) /\ Len(s[m]) = f[m] /\ f[m] \in Nat
    BY <1>4, <1>5, <2>1
  <2>4. SumOver(f, 1, m) = SumOver(f, 1, m - 1) + f[m]
    BY <1>6, <2>1
  <2>5. /\ g[m] \in Seq(S) /\ Len(g[m]) = SumOver(f, 1, m)
        /\ \A j \in 1 .. SumOver(f, 1, m - 1) : g[m][j] = g[m - 1][j]
        /\ \A i \in 1 .. f[m] : g[m][SumOver(f, 1, m - 1) + i] = s[m][i]
    <3>1. g[m - 1] \in Seq(S) /\ s[m] \in Seq(S)
      BY <2>2, <2>3
    <3>2. g[m - 1] \o s[m] \in Seq(S) /\ Len(g[m - 1] \o s[m]) = Len(g[m - 1]) + Len(s[m])
      BY <3>1, ConcatAt
    <3>3. ASSUME NEW j \in 1 .. Len(g[m - 1]) PROVE (g[m - 1] \o s[m])[j] = g[m - 1][j]
      <4> DEFINE u == g[m - 1]
                 v == s[m]
      <4>1. u \in Seq(S) /\ v \in Seq(S) /\ j \in 1 .. Len(u)
        BY <3>1
      <4> HIDE DEF u, v
      <4>2. (u \o v)[j] = u[j]
        BY <4>1, ConcatAt
      <4>3. QED
        BY <4>2 DEF u, v
    <3>4. ASSUME NEW i \in 1 .. Len(s[m]) PROVE (g[m - 1] \o s[m])[Len(g[m - 1]) + i] = s[m][i]
      <4> DEFINE u == g[m - 1]
                 v == s[m]
      <4>1. u \in Seq(S) /\ v \in Seq(S) /\ i \in 1 .. Len(v)
        BY <3>1
      <4> HIDE DEF u, v
      <4>2. (u \o v)[Len(u) + i] = v[i]
        BY <4>1, ConcatAt
      <4>3. QED
        BY <4>2 DEF u, v
    <3>5. QED
      BY <2>2, <2>3, <2>4, <3>2, <3>3, <3>4
  <2>6. ASSUME NEW k \in 1 .. m PROVE At1(m, k)
    <3>1. CASE k = m
      BY <2>5, <3>1
    <3>2. CASE k # m
      <4>1. k \in 1 .. m - 1 /\ k \in 1 .. n /\ k - 1 \in 0 .. n
        BY <3>2
      <4>2. SumOver(f, 1, k) = SumOver(f, 1, k - 1) + f[k] /\ SumOver(f, 1, k) <= SumOver(f, 1, m - 1)
        <5>1. k \in 0 .. n /\ m - 1 \in 0 .. n /\ k <= m - 1
          BY <2>1, <4>1
        <5>2. QED
          BY <1>6, <4>1, <5>1
      <4>3. ASSUME NEW i \in 1 .. f[k]
            PROVE  g[m][SumOver(f, 1, k - 1) + i] = s[k][i]
        <5> DEFINE j == SumOver(f, 1, k - 1) + i
        <5>1. j \in 1 .. SumOver(f, 1, m - 1)
          <6>1. /\ SumOver(f, 1, k - 1) \in Nat /\ SumOver(f, 1, m - 1) \in Nat
                /\ f[k] \in Nat
            BY <1>5, <1>6, <2>1, <4>1
          <6>2. QED
            BY <4>2, <6>1
        <5>2. g[m - 1][j] = s[k][i]
          BY <2>2, <4>1
        <5> HIDE DEF j
        <5>3. g[m][j] = g[m - 1][j]
          BY <2>5, <5>1
        <5>4. QED
          BY <5>2, <5>3 DEF j
      <4>4. QED
        BY <4>3
    <3>3. QED
      BY <3>1, <3>2
  <2> HIDE DEF At1
  <2>7. QED
    BY <2>1, <2>5, <2>6
<1>9. n \in T
  <2> DEFINE U == { m \in Nat : m + 1 <= n => m + 1 \in T }
  <2> HIDE DEF T
  <2>1. 0 \in U
    BY <1>7
  <2>2. ASSUME NEW m \in Nat, m \in U PROVE m + 1 \in U
    <3>1. (m + 1) + 1 <= n => (m + 1) + 1 \in 2 .. n /\ ((m + 1) + 1) - 1 = m + 1 /\ m + 1 <= n
      OBVIOUS
    <3>2. QED
      BY <1>8, <2>2, <3>1
  <2>3. Nat \subseteq U
    <3> HIDE DEF U
    <3>1. QED
      BY <2>1, <2>2, Induction
  <2>4. n - 1 \in Nat /\ (n - 1) + 1 = n
    OBVIOUS
  <2>5. n - 1 \in U
    BY <2>3, <2>4
  <2>6. QED
    BY <2>4, <2>5
<1>10. QED
  BY <1>3, <1>9 DEF LaidOut

\* The same for requests lo..hi: where the row i of request q is.
LEMMA Layout ==
  ASSUME NEW S, NEW lo \in Int, NEW hi \in Int, lo <= hi,
         NEW w, NEW f, Sized(w, f, S, lo, hi),
         NEW s, s = [k \in 1 .. hi - lo + 1 |-> w[lo + k - 1]]
  PROVE  LaidOut(FlattenSeq(s), w, f, S, lo, hi)
<1> DEFINE n == hi - lo + 1
           e == [k \in 1 .. n |-> f[lo + k - 1]]
<1>1. n \in Nat \ {0} /\ lo - 1 + n = hi /\ n \in Nat
  OBVIOUS
<1>2. /\ Len(s) = n
      /\ \A k \in 1 .. n : lo + k - 1 \in lo .. hi /\ s[k] = w[lo + k - 1] /\ e[k] = f[lo + k - 1]
  BY <1>1
<1>3. Sized(s, e, S, 1, n)
  BY <1>2 DEF Sized
<1>4. SameParts(f, lo, e, 1, n)
  <2>1. \A k \in 1 .. n : 1 - 1 + k = k /\ lo + k - 1 = lo - 1 + k
    BY <1>1
  <2>2. QED
    BY <1>2, <2>1 DEF SameParts
<1> HIDE DEF n, e
<1>6. LaidOut(FlattenSeq(s), s, e, S, 1, n)
  BY <1>1, <1>2, <1>3, FlattenFacts
<1>7. \A j \in 0 .. n : SumOver(e, 1, j) = SumOver(f, lo, lo - 1 + j)
  BY <1>1, <1>4, SumOfPart
<1> DEFINE F == FlattenSeq(s)
<1>8. /\ F \in Seq(S) /\ Len(F) = SumOver(e, 1, n)
      /\ \A k \in 1 .. n : \A i \in 1 .. e[k] : F[SumOver(e, 1, k - 1) + i] = s[k][i]
  BY <1>6 DEF LaidOut
<1> HIDE DEF F
<1>9. Len(F) = SumOver(f, lo, hi)
  <2>1. n \in 0 .. n
    BY <1>1
  <2>2. SumOver(e, 1, n) = SumOver(f, lo, lo - 1 + n)
    BY <1>7, <2>1
  <2>3. QED
    BY <1>1, <1>8, <2>2
<1>10. ASSUME NEW q \in lo .. hi, NEW i \in 1 .. f[q]
       PROVE  F[SumOver(f, lo, q - 1) + i] = w[q][i]
  <2> DEFINE k == q - lo + 1
  <2>1. k \in 1 .. n /\ lo + k - 1 = q /\ k - 1 \in 0 .. n /\ lo - 1 + (k - 1) = q - 1
    BY <1>1
  <2> HIDE DEF k
  <2>2. SumOver(e, 1, k - 1) = SumOver(f, lo, q - 1)
    BY <1>7, <2>1
  <2>3. s[k] = w[q] /\ e[k] = f[q]
    BY <1>2, <2>1
  <2>4. F[SumOver(e, 1, k - 1) + i] = s[k][i]
    BY <1>8, <2>1, <2>3
  <2>5. QED
    BY <2>2, <2>3, <2>4
<1>11. QED
  BY <1>8, <1>9, <1>10 DEF F, LaidOut

-----------------------------------------------------------------------------
(* Ownership.                                                              *)

\* A column of one rank is one position.
LEMMA SlotUnique ==
  ASSUME NEW r \in Ranks, NEW s \in Ranks, NEW c \in Nat, NEW d \in Nat,
         GlobalPos(r, c) = GlobalPos(s, d)
  PROVE  r = s /\ c = d
  BY RoundUnique DEF GlobalPos, Ranks

\* Every position has one owner and one column there.
LEMMA SlotOf ==
  ASSUME NEW p \in Nat
  PROVE  /\ Owner(p) \in Ranks
         /\ LocalIndex(p) \in Nat
         /\ GlobalPos(Owner(p), LocalIndex(p)) = p
  BY DivMod DEF Owner, LocalIndex, GlobalPos, Ranks

\* A column of rank r is owned by r: owner and column are the inverse of GlobalPos.
LEMMA SlotInverse ==
  ASSUME NEW r \in Ranks, NEW c \in Nat
  PROVE  /\ GlobalPos(r, c) \in Nat
         /\ c <= GlobalPos(r, c)
         /\ Owner(GlobalPos(r, c)) = r
         /\ LocalIndex(GlobalPos(r, c)) = c
  BY RoundInverse DEF Owner, LocalIndex, GlobalPos, Ranks

\* Later columns of a rank are later positions.
LEMMA SlotMonotone ==
  ASSUME NEW r \in Ranks, NEW c \in Nat, NEW d \in Nat, c < d
  PROVE  GlobalPos(r, c) < GlobalPos(r, d)
  BY RoundLater DEF GlobalPos, Ranks

\* Rank r owns exactly its first OwnedCount(g, r) columns of a sequence of g
\* positions: the localized length bounds the live columns, no more, no less.
LEMMA OwnedCountExact ==
  ASSUME NEW g \in Nat, NEW r \in Ranks, NEW c \in Nat
  PROVE  /\ OwnedCount(g, r) \in Nat
         /\ c < OwnedCount(g, r) <=> GlobalPos(r, c) < g
<1>1. g \div N \in Nat /\ g % N \in 0 .. N - 1 /\ r \in 0 .. N - 1
  BY DivMod DEF Ranks
<1>2. OwnedCount(g, r) = IF g % N > r THEN g \div N + 1 ELSE g \div N
  BY <1>1 DEF OwnedCount, ClampUnit
<1>3. c < (IF g % N > r THEN g \div N + 1 ELSE g \div N) <=> c * N + r < g
  BY <1>1, RoundCount
<1>4. QED
  BY <1>1, <1>2, <1>3 DEF GlobalPos

\* The shards of a sequence together hold all of it.
LEMMA CountsAdd ==
  ASSUME NEW g \in Nat, NEW f, \A r \in Ranks : f[r] = OwnedCount(g, r)
  PROVE  SumOver(f, 0, N - 1) = g
<1> DEFINE z == 0
           a == g \div N
           b == g % N
           Least(x, y) == IF x < y THEN x ELSE y
           T == { j \in z - 1 .. N - 1 : SumOver(f, z, j) = (j + 1) * a + Least(b, j + 1) }
<1>1. a \in Nat /\ b \in 0 .. N - 1 /\ g = a * N + b
  BY DivMod
<1>2. \A r \in Ranks : f[r] = a + (IF b > r THEN 1 ELSE 0)
  <2>1. ASSUME NEW r \in Ranks PROVE OwnedCount(g, r) = a + (IF b > r THEN 1 ELSE 0)
    <3>1. OwnedCount(g, r) = a + ClampUnit(b - r)
      BY DEF OwnedCount
    <3>2. b \in Int /\ r \in Int /\ a \in Int
      BY <1>1 DEF Ranks
    <3> HIDE DEF a, b
    <3>3. ClampUnit(b - r) = IF b > r THEN 1 ELSE 0
      BY <3>2 DEF ClampUnit
    <3>4. QED
      BY <3>1, <3>3
  <2>2. QED
    BY <2>1
<1>z. z = 0 /\ z \in Int
  OBVIOUS
<1> HIDE DEF a, b, z
<1>3. z - 1 \in T
  <2>1. SumOver(f, z, z - 1) = 0
    BY <1>z, SumNone
  <2>2. ((z - 1) + 1) * a = 0 /\ Least(b, (z - 1) + 1) = 0
    BY <1>1, <1>z
  <2>3. z - 1 \in z - 1 .. N - 1
    BY <1>z
  <2>4. QED
    BY <2>1, <2>2, <2>3
<1>4. ASSUME NEW j \in z .. N - 1, j - 1 \in T PROVE j \in T
  <2>0. j \in Ranks /\ j \in Nat /\ j \in z - 1 .. N - 1
    BY <1>z DEF Ranks
  <2>1. SumOver(f, z, j) = SumOver(f, z, j - 1) + f[j]
    BY <1>z, <2>0, SumStep
  <2>2. f[j] = a + (IF b > j THEN 1 ELSE 0)
    BY <1>2, <2>0
  <2>3. SumOver(f, z, j - 1) = j * a + Least(b, j)
    <3>1. (j - 1) + 1 = j
      BY <2>0
    <3>2. SumOver(f, z, j - 1) = ((j - 1) + 1) * a + Least(b, (j - 1) + 1)
      BY <1>4
    <3>3. QED
      BY <3>1, <3>2
  <2>4. (j + 1) * a = j * a + a /\ j * a \in Int
    BY <1>1, <2>0
  <2>5. Least(b, j + 1) = Least(b, j) + (IF b > j THEN 1 ELSE 0) /\ Least(b, j) \in Int
    BY <1>1, <2>0
  <2> DEFINE x == j * a
             y == Least(b, j)
             d == IF b > j THEN 1 ELSE 0
  <2>6. x \in Int /\ y \in Int /\ d \in Int /\ a \in Int
    BY <1>1, <2>4, <2>5
  <2> HIDE DEF x, y, d
  <2>7. (x + y) + (a + d) = (x + a) + (y + d)
    BY <2>6
  <2>8. SumOver(f, z, j) = (j + 1) * a + Least(b, j + 1)
    <3> HIDE DEF Least
    <3>1. QED
      BY <2>1, <2>2, <2>3, <2>4, <2>5, <2>7 DEF x, y, d
  <2>9. QED
    BY <2>0, <2>8
<1>5. \A j \in z - 1 .. N - 1 : j \in T
  <2> HIDE DEF T
  <2>1. QED
    BY <1>3, <1>4, <1>z, IntervalInduction
<1>6. N - 1 \in T
  BY <1>5, <1>z
<1>7. SumOver(f, z, N - 1) = N * a + b
  <2>1. (N - 1) + 1 = N /\ Least(b, N) = b
    BY <1>1
  <2>2. SumOver(f, z, N - 1) = ((N - 1) + 1) * a + Least(b, (N - 1) + 1)
    BY <1>6
  <2>3. QED
    BY <2>1, <2>2
<1>8. N * a = a * N
  BY <1>1
<1>9. QED
  BY <1>1, <1>7, <1>8, <1>z

\* A rank's share of a request.
MaxShare == (MaxLen + N - 1) \div N

\* No share is larger.
LEMMA ShareBound ==
  ASSUME NEW g \in 0 .. MaxLen, NEW r \in Ranks
  PROVE  OwnedCount(g, r) \in 0 .. MaxShare /\ MaxShare \in Nat
<1>1. MaxLen \in Nat /\ MaxLen + N - 1 \in Nat
  BY ConstantTypes
<1>2. /\ MaxShare \in Nat
      /\ MaxLen + N - 1 = MaxShare * N + ((MaxLen + N - 1) % N)
      /\ (MaxLen + N - 1) % N \in 0 .. N - 1
  BY <1>1, DivMod DEF MaxShare
<1>3. MaxShare * N >= MaxLen
  <2>1. MaxShare * N \in Int
    BY <1>2
  <2>2. QED
    BY <1>1, <1>2, <2>1
<1>4. ~ (GlobalPos(r, MaxShare) < g)
  <2>1. MaxShare * N \in Int
    BY <1>2
  <2>2. QED
    BY <1>1, <1>3, <2>1 DEF GlobalPos, Ranks
<1>5. OwnedCount(g, r) \in Nat /\ ~ (MaxShare < OwnedCount(g, r))
  BY <1>1, <1>2, <1>4, OwnedCountExact
<1>6. QED
  BY <1>2, <1>5

-----------------------------------------------------------------------------
(* The arena.                                                              *)

Row == Keys \cup {Dead}

\* Sliced for cap rows, the arena holds the keys and the scales of ks.
Holds(a, cap, ks) == GetQuant(a, Len(ks)) = ks /\ GetScale(a, cap, Len(ks)) = ks

Stored(a, cap, ks) == PutScale(PutQuant(a, ks), cap, ks)

\* The units of row i of a quantized key, among those of n rows.
LEMMA QuantBlock ==
  ASSUME NEW n \in Nat, NEW i \in 1 .. n, NEW u \in QuantUnits * (i - 1) .. QuantUnits * (i - 1) + QuantUnits - 1
  PROVE  u \in Nat /\ u < QuantUnits * n /\ u \div QuantUnits = i - 1
<1> DEFINE m == QuantUnits
           d == u - m * (i - 1)
<1>1. m \in Nat \ {0} /\ i - 1 \in Nat /\ m * (i - 1) = (i - 1) * m /\ m * (i - 1) \in Int
  BY ConstantTypes
<1> HIDE DEF m
<1>2. d \in 0 .. m - 1 /\ u = (i - 1) * m + d /\ u \in Int
  BY <1>1 DEF m
<1> HIDE DEF d
<1>3. /\ (i - 1) * m + d \in Nat
      /\ ((i - 1) * m + d) \div m = i - 1
  BY <1>1, <1>2, RoundInverse
<1>4. (i - 1) * m + m <= n * m
  BY <1>1, ScaleMonotone
<1>5. n * m = m * n /\ n * m \in Int
  BY <1>1
<1>6. u < m * n
  BY <1>1, <1>2, <1>4, <1>5
<1>7. QED
  BY <1>2, <1>3, <1>6 DEF m

\* The areas of keys and of scales are disjoint and within the arena.
LEMMA ArenaBounds ==
  ASSUME NEW n \in Nat, NEW cap \in Nat, n <= cap, cap <= Capacity
  PROVE  /\ QuantUnits * n <= QuantUnits * cap /\ QuantUnits * n \in Nat /\ QuantUnits * cap \in Nat
         /\ QuantUnits * cap + n <= (QuantUnits + 1) * Capacity /\ (QuantUnits + 1) * Capacity \in Nat
<1>1. QuantUnits \in Nat \ {0} /\ Capacity \in Nat
  BY ConstantTypes
<1>2. ASSUME NEW x \in Nat, NEW y \in Nat, x <= y PROVE QuantUnits * x <= QuantUnits * y
  <2>1. QuantUnits * (y - x) >= 0 /\ QuantUnits * (y - x) = QuantUnits * y - QuantUnits * x
    BY <1>1, <1>2
  <2>2. QED
    BY <1>1, <2>1
<1>3. (QuantUnits + 1) * Capacity = QuantUnits * Capacity + Capacity
  BY <1>1
<1>4. QuantUnits * n <= QuantUnits * cap /\ QuantUnits * cap <= QuantUnits * Capacity
  BY <1>1, <1>2
<1>5. /\ QuantUnits * n \in Nat /\ QuantUnits * cap \in Nat /\ QuantUnits * Capacity \in Nat
      /\ (QuantUnits + 1) * Capacity \in Nat
  BY <1>1
<1>6. QED
  BY <1>1, <1>3, <1>4, <1>5

\* What is stored is read back.
LEMMA StoredHolds ==
  ASSUME NEW a, NEW cap \in Nat, NEW ks \in Seq(Row), Len(ks) <= cap, cap <= Capacity
  PROVE  Holds(Stored(a, cap, ks), cap, ks)
<1> DEFINE n == Len(ks)
           b == Stored(a, cap, ks)
           s == QuantUnits * cap
<1>1. n \in Nat /\ ks = [i \in 1 .. n |-> ks[i]]
  BY LenProperties
<1>2. /\ QuantUnits * n <= s /\ QuantUnits * n \in Nat /\ s \in Nat
      /\ \A u \in Int : 0 <= u /\ u < s + n => u \in Units
  <2>1. /\ QuantUnits * n <= s /\ QuantUnits * n \in Nat /\ s \in Nat
        /\ s + n <= (QuantUnits + 1) * Capacity /\ (QuantUnits + 1) * Capacity \in Nat
    BY <1>1, ArenaBounds
  <2> DEFINE e == (QuantUnits + 1) * Capacity
  <2> HIDE DEF n, s, e
  <2>2. \A u \in Int : 0 <= u /\ u < s + n => u \in 0 .. e - 1
    BY <1>1, <2>1 DEF e
  <2>3. QED
    BY <2>1, <2>2 DEF Units, e
<1>3. \A u \in Units : b[u] = IF u \in s .. s + n - 1 THEN <<"scale", ks[u - s + 1]>>
                              ELSE IF u < QuantUnits * n THEN <<"quant", ks[(u \div QuantUnits) + 1]>>
                              ELSE a[u]
  BY DEF Stored, PutScale, PutQuant
<1> HIDE DEF n, b, s
<1>4. ASSUME NEW i \in 1 .. n,
             NEW u \in QuantUnits * (i - 1) .. QuantUnits * (i - 1) + QuantUnits - 1
      PROVE  b[u] = <<"quant", ks[i]>>
  <2>1. u \in Nat /\ u < QuantUnits * n /\ u \div QuantUnits = i - 1
    BY <1>1, QuantBlock
  <2>2. u \in Units /\ ~ (u \in s .. s + n - 1)
    BY <1>1, <1>2, <2>1
  <2>3. (u \div QuantUnits) + 1 = i
    BY <2>1
  <2>4. QED
    BY <1>3, <2>1, <2>2, <2>3
<1>5. ASSUME NEW i \in 1 .. n PROVE b[s + i - 1] = <<"scale", ks[i]>>
  <2>1. s + i - 1 \in s .. s + n - 1 /\ s + i - 1 \in Units /\ (s + i - 1) - s + 1 = i
    BY <1>1, <1>2
  <2>2. QED
    BY <1>3, <2>1
<1>6. GetQuant(b, n) = ks
  <2>1. ASSUME NEW i \in 1 .. n PROVE GetQuant(b, n)[i] = ks[i]
    <3> DEFINE x == QuantUnits * (i - 1)
    <3>1. x \in x .. x + QuantUnits - 1
      <4>1. x \in Int /\ QuantUnits \in Nat \ {0}
        BY ConstantTypes
      <4> HIDE DEF x
      <4>2. QED
        BY <4>1
    <3>2. b[x] = <<"quant", ks[i]>> /\ \A u \in x .. x + QuantUnits - 1 : b[u] = b[x]
      BY <1>4, <3>1
    <3>3. QED
      BY <3>2 DEF GetQuant
  <2>2. GetQuant(b, n) = [i \in 1 .. n |-> GetQuant(b, n)[i]]
    BY DEF GetQuant
  <2> DEFINE q == GetQuant(b, n)
  <2> HIDE DEF q
  <2>3. [i \in 1 .. n |-> q[i]] = [i \in 1 .. n |-> ks[i]]
    BY <2>1 DEF q
  <2>4. QED
    BY <1>1, <2>2, <2>3 DEF q
<1>7. GetScale(b, cap, n) = ks
  <2>1. GetScale(b, cap, n) =
          [i \in 1 .. n |-> LET x == b[s + i - 1] IN IF x[1] = "scale" THEN x[2] ELSE Dead]
    BY DEF GetScale, s
  <2>2. [i \in 1 .. n |-> LET x == b[s + i - 1] IN IF x[1] = "scale" THEN x[2] ELSE Dead] =
          [i \in 1 .. n |-> ks[i]]
    BY <1>5
  <2>3. QED
    BY <1>1, <2>1, <2>2
<1>8. QED
  BY <1>6, <1>7 DEF Holds, b, n

ArenaType == [Units -> {"none", "quant", "scale"} \X Row]

\* Storing keys leaves an arena.
LEMMA StoredTyped ==
  ASSUME NEW a \in ArenaType, NEW cap \in Nat, NEW ks \in Seq(Row)
  PROVE  Stored(a, cap, ks) \in ArenaType
<1> DEFINE n == Len(ks)
           s == QuantUnits * cap
<1>1. n \in Nat /\ s \in Nat /\ \A i \in 1 .. n : ks[i] \in Row
  BY LenProperties, ElementOfSeq, ConstantTypes
<1>2. ASSUME NEW u \in Units, u < QuantUnits * n PROVE ks[(u \div QuantUnits) + 1] \in Row
  <2> DEFINE m == QuantUnits
             c == u \div m
  <2>1. m \in Nat \ {0} /\ u \in Nat
    BY ConstantTypes DEF Units
  <2>2. c \in Nat /\ u % m \in 0 .. m - 1 /\ u = c * m + (u % m)
    BY <2>1, DivMod
  <2> HIDE DEF m, c, n
  <2>3. u < m * n /\ m * n = n * m /\ n * m \in Int /\ c * m \in Int
    BY <1>1, <1>2, <2>1, <2>2 DEF m
  <2>4. c < n
    <3>1. CASE n + 1 <= c
      <4>1. n * m + m <= c * m
        BY <1>1, <2>1, <2>2, <3>1, ScaleMonotone
      <4>2. QED
        BY <2>1, <2>2, <2>3, <4>1
    <3>2. CASE n = c
      BY <2>1, <2>2, <2>3, <3>2
    <3>3. QED
      BY <1>1, <2>2, <3>1, <3>2
  <2>5. c + 1 \in 1 .. n
    BY <1>1, <2>2, <2>4
  <2>6. QED
    BY <1>1, <2>5 DEF c, m
<1>3. \A u \in Units : u \in s .. s + n - 1 => ks[u - s + 1] \in Row
  <2>1. \A u \in Units : u \in s .. s + n - 1 => u - s + 1 \in 1 .. n
    <3> HIDE DEF s, n
    <3>1. QED
      BY <1>1
  <2>2. QED
    BY <1>1, <2>1
<1>4. Stored(a, cap, ks) =
        [u \in Units |-> IF u \in s .. s + n - 1 THEN <<"scale", ks[u - s + 1]>>
                         ELSE IF u < QuantUnits * n THEN <<"quant", ks[(u \div QuantUnits) + 1]>>
                         ELSE a[u]]
  BY DEF Stored, PutScale, PutQuant
<1> HIDE DEF n, s
<1>5. \A u \in Units : a[u] \in {"none", "quant", "scale"} \X Row
  BY DEF ArenaType
<1>6. QED
  BY <1>2, <1>3, <1>4, <1>5 DEF ArenaType

-----------------------------------------------------------------------------
(* The inductive invariant.                                                *)

Chunk == [lo : Nat, hi : Nat, from : Nat, to : Nat, skip : BOOLEAN]

\* Query row x of request q is one of chunk ch, f[q] being the rows of request q.
InChunk(ch, f, q, x) ==
  /\ ch.lo <= q /\ q <= ch.hi
  /\ ch.from < SumOver(f, ch.lo, q - 1) + x /\ SumOver(f, ch.lo, q - 1) + x <= ch.to

\* ch is a chunk of requests 1..n.
ChunkOf(ch, n, f) ==
  /\ 1 <= ch.lo /\ ch.lo <= ch.hi /\ ch.hi <= n
  /\ ch.from <= ch.to /\ ch.to <= SumOver(f, ch.lo, ch.hi)

\* Chunk k of the plan brings its keys, or it covers the requests of the one before.
Continues(plan, k) ==
  plan[k].skip => /\ k # 1
                  /\ plan[k].lo = plan[k - 1].lo /\ plan[k].hi = plan[k - 1].hi

\* The chunks of the plan cover the f[1], f[2], ... rows of requests 1..n.
Covers(plan, n, f) ==
  /\ plan \in Seq(Chunk)
  /\ \A k \in 1 .. Len(plan) : ChunkOf(plan[k], n, f) /\ Continues(plan, k)
  /\ \A q \in 1 .. n : \A x \in 1 .. f[q] : \E k \in 1 .. Len(plan) : InChunk(plan[k], f, q, x)

NewRows == [q \in 1 .. Len(len) |-> len[q] - ctx[q]]

\* What is in flight is a batch and a plan for it.
Batch ==
  /\ Len(len) \in 1 .. MaxReqs
  /\ len \in [1 .. Len(len) -> 1 .. MaxLen]
  /\ ctx \in [1 .. Len(len) -> Pos]
  /\ \A q \in 1 .. Len(len) : ctx[q] < len[q]
  /\ Covers(chunks, Len(len), NewRows)

Pass ==
  /\ phase = "ready" => len = <<>> /\ ctx = <<>> /\ chunks = <<>>
  /\ phase # "ready" => Batch

\* What a row is left with after the owned mask, and what the attention reads for it.
Picks == UNION { [D -> Nat] : D \in SUBSET Pos }
Seens == UNION { [D -> Row] : D \in SUBSET Pos }

Typed ==
  /\ ties \in {"any", "lowest"}
  /\ phase \in {"ready", "running", "attended"}
  /\ score \in ScoreTables
  /\ pc \in [Ranks -> PCs]
  /\ ci \in [Ranks -> 0 .. Len(chunks)]
  /\ held \in [Ranks -> [1 .. MaxReqs -> 0 .. MaxLen]]
  /\ arena \in [Ranks -> ArenaType]
  /\ kqAll \in Seq(Row) /\ ksAll \in Seq(Row)
  /\ topk \in [Ranks -> [1 .. MaxReqs -> [Pos -> Picks]]]
  /\ out \in [Ranks -> [1 .. MaxReqs -> [Pos -> Seens]]]

\* The shard of rank r's part of the keys of a chunk, and the keys of all ranks.
FullRows(r, ch) ==
  FlattenSeq([k \in 1 .. ch.hi - ch.lo + 1 |->
    [c \in 1 .. LocalLen(r, ch.lo + k - 1) |-> <<ch.lo + k - 1, GlobalPos(r, c - 1)>>]])

Concat(ch) == FlattenSeq([k \in 1 .. N |-> FullRows(k - 1, ch)])

\* The sets of positions that may be selected for the query token at position p of
\* request q.
Best(q, p) ==
  { S \in SUBSET (0 .. p) :
      IF ties = "lowest" THEN IsStrictTopK(KeyPairs(q, S), KeyPairs(q, 0 .. p), TopK)
                         ELSE IsTopK(KeyPairs(q, S), KeyPairs(q, 0 .. p), TopK) }

\* Where a rank is.
Place(r) ==
  /\ pc[r] # "idle" /\ ci[r] \in 1 .. Len(chunks)
  /\ pc[r] = "insert" => ci[r] = 1
  /\ pc[r] = "attend" => ci[r] = Len(chunks)
  /\ pc[r] \in {"gather_quant", "gather_scale", "reassemble"} => ~ chunks[ci[r]].skip

\* The new keys are in the shard.
Inserted(r) == pc[r] # "insert" => \A q \in 1 .. Len(len) : held[r][q] = len[q]

\* What the arena of a rank holds.
Staged(r) ==
  pc[r] \in {"gather_quant", "gather_scale"} =>
    Holds(arena[r], LocalCapacity, FullRows(r, chunks[ci[r]]))

Kept(r) ==
  /\ pc[r] = "logits" => Holds(arena[r], Capacity, GlobalKeys(chunks[ci[r]]))
  /\ pc[r] = "chunk" /\ ci[r] # 1 => Holds(arena[r], Capacity, GlobalKeys(chunks[ci[r] - 1]))

\* The results of the collectives that have returned.
Gathered(r) ==
  /\ pc[r] \in {"gather_scale", "reassemble"} => kqAll = Concat(chunks[ci[r]])
  /\ pc[r] = "reassemble" => ksAll = Concat(chunks[ci[r]])

\* The rows of the chunks that a rank has scored are masked selections.
Scored(r, k) ==
  \A q \in 1 .. MaxReqs, p \in Pos :
    <<q, p>> \in Range(ChunkRows(chunks[k])) =>
      \E S \in Best(q, p) : topk[r][q][p] = OwnedMask(S, r)

Selected(r) ==
  \A k \in 1 .. Len(chunks) : k < ci[r] \/ pc[r] = "attend" => Scored(r, k)

RankInv(r) ==
  Place(r) /\ Inserted(r) /\ Staged(r) /\ Kept(r) /\ Gathered(r) /\ Selected(r)

\* The chunks whose keys, and whose scales, a rank has exchanged.
QuantDone(r) ==
  { k \in 1 .. Len(chunks) :
      /\ ~ chunks[k].skip
      /\ \/ k < ci[r] \/ pc[r] = "attend"
         \/ k = ci[r] /\ pc[r] \in {"gather_scale", "reassemble", "logits"} }

ScaleDone(r) ==
  { k \in 1 .. Len(chunks) :
      /\ ~ chunks[k].skip
      /\ \/ k < ci[r] \/ pc[r] = "attend"
         \/ k = ci[r] /\ pc[r] \in {"reassemble", "logits"} }

InStep == \A r, s \in Ranks : QuantDone(r) = QuantDone(s) /\ ScaleDone(r) = ScaleDone(s)

\* The keys rank r reads for a row of request q if it selected the positions S.
OwnKeys(S, r, q) == [x \in { y \in S : Owner(y) = r } |-> <<q, x>>]

\* Every row of the pass has read, on every rank, the keys it owns of a selection.
Answered ==
  \A r \in Ranks : \A q \in 1 .. Len(len) : \A p \in ctx[q] .. len[q] - 1 :
    \E S \in Best(q, p) : out[r][q][p] = OwnKeys(S, r, q)

Inv ==
  /\ Typed
  /\ Pass
  /\ phase = "running" => InStep /\ \A r \in Ranks : RankInv(r)
  /\ phase = "attended" => Answered

-----------------------------------------------------------------------------
(* Plans.                                                                  *)

\* A group of chunks that covers the m rows of requests lo..hi.
Group(group, lo, hi, m) ==
  /\ group \in Seq(Chunk)
  /\ \A j \in 1 .. Len(group) :
       /\ group[j].lo = lo /\ group[j].hi = hi
       /\ group[j].from <= group[j].to /\ group[j].to <= m
       /\ group[j].skip => j # 1
  /\ \A x \in 1 .. m : \E j \in 1 .. Len(group) : group[j].from < x /\ x <= group[j].to

LEMMA SlicesCover ==
  ASSUME NEW lo \in Nat, NEW hi \in Nat, NEW m \in Nat, NEW group \in Slices(lo, hi, m)
  PROVE  Group(group, lo, hi, m)
<1> DEFINE whole == [lo |-> lo, hi |-> hi, from |-> 0, to |-> m, skip |-> FALSE]
           one(c) == [whole EXCEPT !.to = c]
           two(c) == [whole EXCEPT !.from = c, !.skip = TRUE]
<1>1. CASE group = <<whole>>
  <2>1. whole \in Chunk
    BY DEF Chunk
  <2>2. group \in Seq(Chunk) /\ Len(group) = 1 /\ group[1] = whole
    <3> HIDE DEF whole
    <3>1. QED
      BY <1>1, <2>1
  <2>3. \A j \in 1 .. Len(group) : group[j] = whole
    BY <2>2
  <2>4. \A j \in 1 .. Len(group) :
          /\ group[j].lo = lo /\ group[j].hi = hi
          /\ group[j].from <= group[j].to /\ group[j].to <= m
          /\ group[j].skip => j # 1
    BY <2>3
  <2>5. ASSUME NEW x \in 1 .. m
        PROVE  \E j \in 1 .. Len(group) : group[j].from < x /\ x <= group[j].to
    <3>1. 1 \in 1 .. Len(group) /\ group[1].from < x /\ x <= group[1].to
      BY <2>2
    <3>2. QED
      BY <3>1
  <2>6. QED
    BY <2>2, <2>4, <2>5 DEF Group
<1>2. ASSUME NEW c \in 1 .. m - 1, group = <<one(c), two(c)>>
      PROVE  Group(group, lo, hi, m)
  <2>0. whole \in Chunk
    BY DEF Chunk
  <2>c. c \in Nat
    OBVIOUS
  <2>1. one(c) \in Chunk /\ two(c) \in Chunk
    <3> HIDE DEF whole
    <3>1. one(c) \in Chunk
      BY <2>0, <2>c DEF Chunk
    <3>2. two(c) \in Chunk
      BY <2>0, <2>c DEF Chunk
    <3>3. QED
      BY <3>1, <3>2
  <2>a. /\ one(c).lo = lo /\ one(c).hi = hi /\ one(c).from = 0 /\ one(c).to = c
        /\ one(c).skip = FALSE
    BY <2>0 DEF Chunk
  <2>b. /\ two(c).lo = lo /\ two(c).hi = hi /\ two(c).from = c /\ two(c).to = m
    BY <2>0 DEF Chunk
  <2> HIDE DEF one, two
  <2>2. group \in Seq(Chunk) /\ Len(group) = 2 /\ group[1] = one(c) /\ group[2] = two(c)
    <3>1. QED
      BY <1>2, <2>1
  <2>3. \A j \in 1 .. Len(group) : (j = 1 /\ group[j] = one(c)) \/ (j = 2 /\ group[j] = two(c))
    <3>1. \A j \in 1 .. Len(group) : j = 1 \/ j = 2
      BY <2>2
    <3>2. QED
      BY <2>2, <3>1
  <2>4. \A j \in 1 .. Len(group) :
          /\ group[j].lo = lo /\ group[j].hi = hi
          /\ group[j].from <= group[j].to /\ group[j].to <= m
          /\ group[j].skip => j # 1
    BY <2>3, <2>a, <2>b, <2>c
  <2>5. ASSUME NEW x \in 1 .. m
        PROVE  \E j \in 1 .. Len(group) : group[j].from < x /\ x <= group[j].to
    <3>1. CASE x <= c
      <4>1. 1 \in 1 .. Len(group) /\ group[1].from < x /\ x <= group[1].to
        BY <2>2, <2>a, <3>1
      <4>2. QED
        BY <4>1
    <3>2. CASE x > c
      <4>1. 2 \in 1 .. Len(group) /\ group[2].from < x /\ x <= group[2].to
        BY <2>2, <2>b, <3>2
      <4>2. QED
        BY <4>1
    <3>3. QED
      BY <3>1, <3>2
  <2>6. QED
    BY <2>2, <2>4, <2>5 DEF Group
<1>3. group = <<whole>> \/ \E c \in 1 .. m - 1 : group = <<one(c), two(c)>>
  BY DEF Slices
<1> HIDE DEF whole, one, two
<1>5. QED
  BY <1>1, <1>2, <1>3

\* A plan for requests 1..lo-1 and a group for requests lo..hi.
LEMMA CoversMore ==
  ASSUME NEW f, NEW hi \in Nat, NEW lo \in 1 .. hi, \A i \in 1 .. hi : f[i] \in Nat,
         NEW plan, Covers(plan, lo - 1, f),
         NEW group, Group(group, lo, hi, SumOver(f, lo, hi))
  PROVE  Covers(plan \o group, hi, f)
<1> DEFINE both == plan \o group
           m == SumOver(f, lo, hi)
           n == Len(plan)
<1>1. plan \in Seq(Chunk) /\ group \in Seq(Chunk)
  BY DEF Covers, Group
<1>2. n \in Nat /\ Len(group) \in Nat
  BY <1>1, LenProperties
<1>3. /\ both \in Seq(Chunk) /\ Len(both) = n + Len(group)
      /\ \A k \in 1 .. n : both[k] = plan[k]
      /\ \A j \in 1 .. Len(group) : both[n + j] = group[j]
  BY <1>1, ConcatAt
<1>4. /\ \A k \in 1 .. n : ChunkOf(plan[k], lo - 1, f) /\ Continues(plan, k)
      /\ \A q \in 1 .. lo - 1 : \A x \in 1 .. f[q] : \E k \in 1 .. n : InChunk(plan[k], f, q, x)
  BY DEF Covers
<1>5. /\ \A j \in 1 .. Len(group) :
           /\ group[j].lo = lo /\ group[j].hi = hi
           /\ group[j].from <= group[j].to /\ group[j].to <= m
           /\ group[j].skip => j # 1
      /\ \A x \in 1 .. m : \E j \in 1 .. Len(group) : group[j].from < x /\ x <= group[j].to
  BY DEF Group
<1>6. m = SumOver(f, lo, hi)
  OBVIOUS
<1> HIDE DEF both, m, n
<1>7. ASSUME NEW k \in 1 .. Len(both) PROVE ChunkOf(both[k], hi, f) /\ Continues(both, k)
  <2>1. CASE k <= n
    <3>1. k \in 1 .. n /\ both[k] = plan[k] /\ (k # 1 => k - 1 \in 1 .. n)
      BY <1>2, <1>3, <2>1
    <3>2. ChunkOf(plan[k], lo - 1, f) /\ Continues(plan, k)
      BY <1>4, <3>1
    <3>3. ChunkOf(both[k], hi, f)
      <4>1. plan[k] \in Chunk
        BY <1>1, <3>1, ElementOfSeq DEF n
      <4>2. plan[k].hi \in Nat
        BY <4>1 DEF Chunk
      <4>3. QED
        BY <3>1, <3>2, <4>2 DEF ChunkOf
    <3>4. k # 1 => both[k - 1] = plan[k - 1]
      BY <1>3, <3>1
    <3>5. Continues(both, k)
      BY <3>1, <3>2, <3>4 DEF Continues
    <3>6. QED
      BY <3>3, <3>5
  <2>2. CASE k > n
    <3> DEFINE j == k - n
    <3>1. j \in 1 .. Len(group) /\ n + j = k
      BY <1>2, <1>3, <2>2
    <3>2. both[k] = group[j]
      BY <1>3, <3>1
    <3>3. /\ group[j].lo = lo /\ group[j].hi = hi
          /\ group[j].from <= group[j].to /\ group[j].to <= m
          /\ group[j].skip => j # 1
      BY <1>5, <3>1
    <3>4. ChunkOf(both[k], hi, f)
      BY <1>6, <3>2, <3>3 DEF ChunkOf
    <3>5. ASSUME both[k].skip
          PROVE  k # 1 /\ both[k].lo = both[k - 1].lo /\ both[k].hi = both[k - 1].hi
      <4>1. j # 1
        BY <3>2, <3>3, <3>5
      <4>2. j - 1 \in 1 .. Len(group) /\ n + (j - 1) = k - 1 /\ k # 1
        BY <1>2, <3>1, <4>1
      <4>3. both[k - 1] = group[j - 1]
        BY <1>3, <4>2
      <4>4. group[j - 1].lo = lo /\ group[j - 1].hi = hi
        BY <1>5, <4>2
      <4>5. QED
        BY <3>2, <3>3, <4>2, <4>3, <4>4
    <3>6. QED
      BY <3>4, <3>5 DEF Continues
  <2>3. QED
    BY <1>2, <1>3, <2>1, <2>2
<1>8. ASSUME NEW q \in 1 .. hi, NEW x \in 1 .. f[q]
      PROVE  \E k \in 1 .. Len(both) : InChunk(both[k], f, q, x)
  <2>1. CASE q < lo
    <3>1. q \in 1 .. lo - 1
      BY <2>1
    <3>2. PICK k \in 1 .. n : InChunk(plan[k], f, q, x)
      BY <1>4, <3>1
    <3>3. k \in 1 .. Len(both) /\ both[k] = plan[k]
      BY <1>2, <1>3
    <3>4. QED
      BY <3>2, <3>3
  <2>2. CASE q >= lo
    <3> DEFINE y == SumOver(f, lo, q - 1) + x
    <3>1. y \in 1 .. m
      <4>1. q \in lo .. hi /\ \A i \in lo .. hi : f[i] \in Nat
        BY <2>2
      <4>2. QED
        BY <1>6, <4>1, SumIn
    <3> HIDE DEF y
    <3>2. PICK j \in 1 .. Len(group) : group[j].from < y /\ y <= group[j].to
      BY <1>5, <3>1
    <3>3. n + j \in 1 .. Len(both) /\ both[n + j] = group[j]
      BY <1>2, <1>3
    <3>4. group[j].lo = lo /\ group[j].hi = hi
      BY <1>5
    <3>5. InChunk(group[j], f, q, x)
      BY <2>2, <3>2, <3>4 DEF InChunk, y
    <3>6. QED
      BY <3>3, <3>5
  <2>3. QED
    BY <2>1, <2>2
<1>9. QED
  BY <1>3, <1>7, <1>8 DEF Covers, both

\* What Plans makes of plans A for requests 1..lo-1, and of the plans g for fewer requests.
Appended(f, A, lo, k) == { plan \o group : plan \in A, group \in Slices(lo, k, SumOver(f, lo, k)) }

Extend(f, g, k) == UNION { Appended(f, g[lo - 1], lo, k) : lo \in 1 .. k }

\* g is the function Plans is defined by.
PlanSteps(f, n, g) == g = [k \in 0 .. n |-> IF k = 0 THEN {<<>>} ELSE Extend(f, g, k)]

\* Functions that agree below k are extended alike.
LEMMA ExtendSame ==
  ASSUME NEW f, NEW g, NEW h, NEW k \in Nat, \A i \in 0 .. k - 1 : g[i] = h[i]
  PROVE  Extend(f, g, k) = Extend(f, h, k)
<1>1. \A lo \in 1 .. k : g[lo - 1] = h[lo - 1]
  BY \A lo \in 1 .. k : lo - 1 \in 0 .. k - 1
<1>2. \A lo \in 1 .. k : Appended(f, g[lo - 1], lo, k) = Appended(f, h[lo - 1], lo, k)
  BY <1>1
<1>3. QED
  BY <1>2 DEF Extend

\* Such a function exists.
LEMMA PlansExist ==
  ASSUME NEW f
  PROVE  \A n \in Nat : \E g : PlanSteps(f, n, g)
<1> DEFINE T == { n \in Nat : \E g : PlanSteps(f, n, g) }
<1>1. 0 \in T
  <2> DEFINE g == [k \in 0 .. 0 |-> {<<>>}]
             e == [k \in 0 .. 0 |-> IF k = 0 THEN {<<>>} ELSE Extend(f, g, k)]
  <2>1. g = e
    <3>1. \A k \in 0 .. 0 : {<<>>} = IF k = 0 THEN {<<>>} ELSE Extend(f, g, k)
      <4> HIDE DEF g
      <4>1. \A k \in 0 .. 0 : k = 0
        OBVIOUS
      <4>2. QED
        BY <4>1
    <3>2. QED
      BY <3>1
  <2>2. PlanSteps(f, 0, g)
    BY <2>1 DEF PlanSteps
  <2> HIDE DEF g
  <2>3. QED
    BY <2>2
<1>2. ASSUME NEW n \in Nat, n \in T PROVE n + 1 \in T
  <2>1. PICK g : PlanSteps(f, n, g)
    BY <1>2
  <2> DEFINE h == [k \in 0 .. n + 1 |-> IF k <= n THEN g[k] ELSE Extend(f, g, n + 1)]
             e == [k \in 0 .. n + 1 |-> IF k = 0 THEN {<<>>} ELSE Extend(f, h, k)]
  <2>2. \A k \in 0 .. n : g[k] = IF k = 0 THEN {<<>>} ELSE Extend(f, g, k)
    BY <2>1 DEF PlanSteps
  <2>3. \A k \in 0 .. n : h[k] = g[k]
    BY \A k \in 0 .. n : k \in 0 .. n + 1 /\ k <= n
  <2>4. h[n + 1] = Extend(f, g, n + 1)
    BY n + 1 \in 0 .. n + 1 /\ ~ (n + 1 <= n)
  <2>0. /\ h = [k \in 0 .. n + 1 |-> h[k]]
        /\ e = [k \in 0 .. n + 1 |-> IF k = 0 THEN {<<>>} ELSE Extend(f, h, k)]
    OBVIOUS
  <2> HIDE DEF h, e
  <2>5. ASSUME NEW k \in 0 .. n + 1 PROVE h[k] = IF k = 0 THEN {<<>>} ELSE Extend(f, h, k)
    <3>1. k \in Nat /\ \A i \in 0 .. k - 1 : i \in 0 .. n
      OBVIOUS
    <3>2. Extend(f, g, k) = Extend(f, h, k)
      BY <2>3, <3>1, ExtendSame
    <3>3. CASE k <= n
      <4>1. k \in 0 .. n
        BY <3>3
      <4>2. QED
        BY <2>2, <2>3, <3>2, <4>1
    <3>4. CASE k = n + 1
      <4>1. k # 0
        BY <3>4
      <4>2. QED
        BY <2>4, <3>2, <3>4, <4>1
    <3>5. QED
      BY <3>3, <3>4
  <2>6. h = e
    BY <2>0, <2>5
  <2>7. PlanSteps(f, n + 1, h)
    BY <2>0, <2>6 DEF PlanSteps
  <2>8. QED
    BY <2>7
<1>3. Nat \subseteq T
  <2> HIDE DEF T
  <2>1. QED
    BY <1>1, <1>2, Induction
<1>4. QED
  BY <1>3

\* A plan that ends with a group is one before it and the group.
LEMMA AppendedIs ==
  ASSUME NEW f, NEW A, NEW lo, NEW k, NEW p \in Appended(f, A, lo, k)
  PROVE  \E plan \in A, group \in Slices(lo, k, SumOver(f, lo, k)) : p = plan \o group
  BY DEF Appended

\* What the metadata builder makes covers the batch.
LEMMA PlansCover ==
  ASSUME NEW n \in Nat, NEW c, NEW l, \A q \in 1 .. n : l[q] - c[q] \in Nat,
         NEW plan \in Plans(n, c, l)
  PROVE  Covers(plan, n, [q \in 1 .. n |-> l[q] - c[q]])
<1> DEFINE f == [q \in 1 .. n |-> l[q] - c[q]]
           g == CHOOSE h : PlanSteps(f, n, h)
<1>1. \A q \in 1 .. n : f[q] \in Nat
  OBVIOUS
<1>2. PlanSteps(f, n, g)
  <2> HIDE DEF f
  <2>1. QED
    BY PlansExist
<1>3. Plans(n, c, l) = g[n]
  BY DEF Plans, PlanSteps, Extend, Appended
<1> HIDE DEF f, g
<1>4. \A k \in 0 .. n : g[k] = IF k = 0 THEN {<<>>} ELSE Extend(f, g, k)
  BY <1>2 DEF PlanSteps
<1> DEFINE T == { k \in Nat : \A j \in 0 .. k : j <= n => \A p \in g[j] : Covers(p, j, f) }
<1>5. 0 \in T
  <2>1. ASSUME NEW p \in g[0] PROVE Covers(p, 0, f)
    <3>1. p = <<>>
      BY <1>4
    <3>2. p \in Seq(Chunk) /\ Len(p) = 0
      BY <3>1
    <3>3. QED
      BY <3>2 DEF Covers
  <2>2. \A j \in 0 .. 0 : j = 0
    OBVIOUS
  <2>3. QED
    BY <2>1, <2>2
<1>6. ASSUME NEW k \in Nat, k \in T PROVE k + 1 \in T
  <2>1. ASSUME NEW j \in 0 .. k + 1, j <= n, NEW p \in g[j] PROVE Covers(p, j, f)
    <3>1. CASE j <= k
      <4>1. j \in 0 .. k
        BY <3>1
      <4>2. QED
        BY <1>6, <2>1, <4>1
    <3>2. CASE j = k + 1
      <4>1. j # 0 /\ j \in 0 .. n /\ j \in Nat
        BY <2>1, <3>2
      <4>2. p \in Extend(f, g, j)
        BY <1>4, <2>1, <4>1
      <4>0. PICK lo \in 1 .. j : p \in Appended(f, g[lo - 1], lo, j)
        BY <4>2 DEF Extend
      <4>3. PICK b \in g[lo - 1], group \in Slices(lo, j, SumOver(f, lo, j)) : p = b \o group
        BY <4>0, AppendedIs
      <4>4. lo - 1 \in 0 .. k /\ lo - 1 <= n /\ lo \in Nat
        BY <2>1, <3>2
      <4>5. Covers(b, lo - 1, f)
        BY <1>6, <4>3, <4>4
      <4>6. \A i \in 1 .. j : f[i] \in Nat
        BY <1>1, <4>1
      <4>7. SumOver(f, lo, j) \in Nat
        <5>1. j \in lo - 1 .. j /\ (\A i \in lo .. j : f[i] \in Nat) /\ lo \in Int /\ j \in Int
          BY <4>1, <4>4, <4>6
        <5>2. \A x \in lo - 1 .. j : SumOver(f, lo, x) \in Nat
          BY <5>1, SumGrows
        <5>3. QED
          BY <5>1, <5>2
      <4>8. Group(group, lo, j, SumOver(f, lo, j))
        BY <4>1, <4>3, <4>4, <4>7, SlicesCover
      <4>9. QED
        BY <4>1, <4>3, <4>5, <4>6, <4>8, CoversMore
    <3>3. QED
      BY <3>1, <3>2
  <2>2. QED
    BY <2>1
<1>7. Nat \subseteq T
  <2> HIDE DEF T
  <2>1. QED
    BY <1>5, <1>6, Induction
<1>8. n \in T /\ n \in 0 .. n /\ n <= n
  BY <1>7
<1>9. \A p \in g[n] : Covers(p, n, f)
  BY <1>8
<1>10. QED
  BY <1>3, <1>9 DEF f

\* A batch has a chunk.
LEMMA CoversSome ==
  ASSUME NEW n \in Nat \ {0}, NEW f, \A q \in 1 .. n : f[q] \in Nat \ {0},
         NEW plan, Covers(plan, n, f)
  PROVE  Len(plan) \in Nat /\ 1 \in 1 .. Len(plan)
<1>1. 1 \in 1 .. n
  OBVIOUS
<1>2. 1 \in 1 .. f[1]
  BY <1>1
<1>3. PICK k \in 1 .. Len(plan) : InChunk(plan[k], f, 1, 1)
  BY <1>1, <1>2 DEF Covers
<1>4. Len(plan) \in Nat
  BY LenProperties DEF Covers
<1>5. QED
  BY <1>3, <1>4

-----------------------------------------------------------------------------
(* The rows and the keys of a chunk.                                       *)

GoodChunk(ch) ==
  /\ ch.lo \in 1 .. Len(len) /\ ch.hi \in ch.lo .. Len(len)
  /\ ch.from \in Nat /\ ch.to \in Nat /\ ch.from <= ch.to
  /\ ch.to <= SumOver(NewRows, ch.lo, ch.hi)

\* The requests of a batch.
LEMMA BatchFacts ==
  ASSUME Batch
  PROVE  /\ Len(len) \in Nat \ {0} /\ Len(len) <= MaxReqs /\ MaxReqs \in Nat /\ MaxLen \in Nat
         /\ DOMAIN len = 1 .. Len(len)
         /\ \A q \in 1 .. Len(len) :
              /\ q \in 1 .. MaxReqs
              /\ len[q] \in Nat \ {0} /\ len[q] <= MaxLen
              /\ ctx[q] \in Nat /\ ctx[q] < len[q]
              /\ NewRows[q] = len[q] - ctx[q] /\ NewRows[q] \in Nat \ {0}
<1>1. MaxReqs \in Nat /\ MaxLen \in Nat
  BY ConstantTypes
<1> DEFINE n == Len(len)
<1>2. /\ n \in 1 .. MaxReqs /\ len \in [1 .. n -> 1 .. MaxLen] /\ ctx \in [1 .. n -> Pos]
      /\ \A q \in 1 .. n : ctx[q] < len[q]
      /\ NewRows = [q \in 1 .. n |-> len[q] - ctx[q]]
  BY DEF Batch, NewRows
<1> HIDE DEF n
<1>3. ASSUME NEW q \in 1 .. n
      PROVE  /\ q \in 1 .. MaxReqs
             /\ len[q] \in Nat \ {0} /\ len[q] <= MaxLen
             /\ ctx[q] \in Nat /\ ctx[q] < len[q]
             /\ NewRows[q] = len[q] - ctx[q] /\ NewRows[q] \in Nat \ {0}
  <2>1. len[q] \in 1 .. MaxLen /\ ctx[q] \in 0 .. MaxLen - 1 /\ ctx[q] < len[q]
    BY <1>2 DEF Pos
  <2>2. NewRows[q] = len[q] - ctx[q]
    BY <1>2
  <2>3. QED
    BY <1>1, <1>2, <2>1, <2>2
<1>4. QED
  BY <1>1, <1>2, <1>3 DEF n

\* The chunks of a batch.
LEMMA ChunkFacts ==
  ASSUME Batch
  PROVE  /\ Len(chunks) \in Nat \ {0}
         /\ \A k \in 1 .. Len(chunks) : GoodChunk(chunks[k]) /\ Continues(chunks, k)
<1>1. Covers(chunks, Len(len), NewRows)
  BY DEF Batch
<1>2. Len(chunks) \in Nat /\ 1 \in 1 .. Len(chunks)
  BY <1>1, BatchFacts, CoversSome
<1>3. ASSUME NEW k \in 1 .. Len(chunks) PROVE GoodChunk(chunks[k]) /\ Continues(chunks, k)
  <2>1. chunks[k] \in Chunk
    BY <1>1, ElementOfSeq DEF Covers
  <2>2. ChunkOf(chunks[k], Len(len), NewRows) /\ Continues(chunks, k)
    BY <1>1 DEF Covers
  <2>3. /\ chunks[k].lo \in Nat /\ chunks[k].hi \in Nat /\ chunks[k].from \in Nat /\ chunks[k].to \in Nat
    BY <2>1 DEF Chunk
  <2>4. Len(len) \in Nat
    BY BatchFacts
  <2>5. GoodChunk(chunks[k])
    BY <2>2, <2>3, <2>4 DEF ChunkOf, GoodChunk
  <2>6. QED
    BY <2>2, <2>5
<1>4. QED
  BY <1>2, <1>3

\* The requests of a chunk.
LEMMA ChunkRange ==
  ASSUME Batch, NEW ch, GoodChunk(ch)
  PROVE  /\ ch.lo \in Nat \ {0} /\ ch.hi \in Nat /\ ch.lo <= ch.hi
         /\ ch.hi - ch.lo + 1 \in Nat /\ ch.hi - ch.lo + 1 <= MaxReqs
         /\ \A q \in ch.lo .. ch.hi : q \in 1 .. Len(len) /\ q \in 1 .. MaxReqs
         /\ \A k \in 1 .. ch.hi - ch.lo + 1 : ch.lo + k - 1 \in ch.lo .. ch.hi
<1> DEFINE n == Len(len)
           lo == ch.lo
           hi == ch.hi
<1>1. n \in Nat /\ n <= MaxReqs /\ MaxReqs \in Nat
  BY BatchFacts
<1>2. lo \in 1 .. n /\ hi \in lo .. n
  BY DEF GoodChunk
<1> HIDE DEF n, lo, hi
<1>3. /\ lo \in Nat \ {0} /\ hi \in Nat /\ lo <= hi
      /\ hi - lo + 1 \in Nat /\ hi - lo + 1 <= MaxReqs
      /\ \A q \in lo .. hi : q \in 1 .. n /\ q \in 1 .. MaxReqs
      /\ \A k \in 1 .. hi - lo + 1 : lo + k - 1 \in lo .. hi
  BY <1>1, <1>2
<1>4. QED
  BY <1>3 DEF n, lo, hi

\* The share of a request that a rank has.
LEMMA Share ==
  ASSUME Batch, NEW r \in Ranks, NEW q \in 1 .. Len(len)
  PROVE  /\ LocalLen(r, q) \in Nat /\ LocalLen(r, q) \in 0 .. MaxShare
         /\ \A c \in Nat : c < LocalLen(r, q) <=> GlobalPos(r, c) < len[q]
<1>1. len[q] \in Nat /\ len[q] \in 0 .. MaxLen
  BY BatchFacts
<1>2. \A c \in Nat : /\ OwnedCount(len[q], r) \in Nat
                     /\ c < OwnedCount(len[q], r) <=> GlobalPos(r, c) < len[q]
  BY <1>1, OwnedCountExact
<1>3. OwnedCount(len[q], r) \in 0 .. MaxShare
  BY <1>1, ShareBound
<1>4. 0 \in Nat
  OBVIOUS
<1>5. QED
  BY <1>2, <1>3, <1>4 DEF LocalLen

Lens(r) == [q \in DOMAIN len |-> LocalLen(r, q)]

\* The part of request q that a rank has, and all of it.
RankPart(r) ==
  [q \in 1 .. Len(len) |-> [c \in 1 .. LocalLen(r, q) |-> <<q, GlobalPos(r, c - 1)>>]]

Whole == [q \in 1 .. Len(len) |-> [i \in 1 .. len[q] |-> <<q, i - 1>>]]

\* They are keys.
LEMMA PartsSized ==
  ASSUME Batch, NEW r \in Ranks, NEW a \in Nat \ {0}, NEW b \in Nat, b <= Len(len)
  PROVE  Sized(RankPart(r), Lens(r), Row, a, b) /\ Sized(Whole, len, Row, a, b)
<1>0. \A q \in a .. b : q \in 1 .. Len(len)
  BY BatchFacts
<1>1. ASSUME NEW q \in a .. b
      PROVE  RankPart(r)[q] \in Seq(Row) /\ Lens(r)[q] = Len(RankPart(r)[q])
  <2> DEFINE m == LocalLen(r, q)
             f == [c \in 1 .. m |-> <<q, GlobalPos(r, c - 1)>>]
  <2>1. q \in 1 .. Len(len)
    BY <1>0
  <2>2. /\ q \in DOMAIN len /\ q \in 1 .. MaxReqs
        /\ len[q] \in Nat /\ len[q] <= MaxLen /\ MaxLen \in Nat
    BY <2>1, BatchFacts
  <2>3. RankPart(r)[q] = f /\ Lens(r)[q] = m
    BY <2>1, <2>2 DEF RankPart, Lens
  <2>4. m \in Nat /\ \A c \in Nat : c < m <=> GlobalPos(r, c) < len[q]
    BY <2>1, Share
  <2> HIDE DEF m
  <2>5. ASSUME NEW c \in 1 .. m PROVE <<q, GlobalPos(r, c - 1)>> \in Row
    <3>1. c - 1 \in Nat /\ c - 1 < m
      BY <2>4
    <3>2. GlobalPos(r, c - 1) \in Nat /\ GlobalPos(r, c - 1) < len[q]
      BY <2>4, <3>1, SlotInverse
    <3>3. GlobalPos(r, c - 1) \in Pos
      BY <2>2, <3>2 DEF Pos
    <3>4. QED
      BY <2>2, <3>3 DEF Row, Keys
  <2>6. f \in [1 .. m -> Row]
    BY <2>5
  <2> HIDE DEF f
  <2>7. f \in Seq(Row) /\ Len(f) = m
    BY <2>4, <2>6, FunctionIsSeq
  <2>8. QED
    BY <2>3, <2>7
<1>2. ASSUME NEW q \in a .. b
      PROVE  Whole[q] \in Seq(Row) /\ len[q] = Len(Whole[q])
  <2> DEFINE m == len[q]
             f == [i \in 1 .. m |-> <<q, i - 1>>]
  <2>1. q \in 1 .. Len(len)
    BY <1>0
  <2>2. q \in 1 .. MaxReqs /\ m \in Nat /\ m <= MaxLen /\ MaxLen \in Nat
    BY <2>1, BatchFacts
  <2>3. Whole[q] = f
    BY <2>1 DEF Whole
  <2> HIDE DEF m
  <2>4. ASSUME NEW i \in 1 .. m PROVE <<q, i - 1>> \in Row
    <3>1. i - 1 \in Pos
      BY <2>2 DEF Pos
    <3>2. QED
      BY <2>2, <3>1 DEF Row, Keys
  <2>5. f \in [1 .. m -> Row]
    BY <2>4
  <2> HIDE DEF f
  <2>6. f \in Seq(Row) /\ Len(f) = m
    BY <2>2, <2>5, FunctionIsSeq
  <2>7. QED
    BY <2>3, <2>6 DEF m
<1>3. QED
  BY <1>1, <1>2 DEF Sized

\* The rows a rank has of a chunk: those of its requests, one after the other.
LEMMA FullRowsLaid ==
  ASSUME Batch, NEW r \in Ranks, NEW ch, GoodChunk(ch)
  PROVE  LaidOut(FullRows(r, ch), RankPart(r), Lens(r), Row, ch.lo, ch.hi)
<1> DEFINE s == [k \in 1 .. ch.hi - ch.lo + 1 |->
                  [c \in 1 .. LocalLen(r, ch.lo + k - 1) |-> <<ch.lo + k - 1, GlobalPos(r, c - 1)>>]]
<1>1. /\ ch.lo \in Nat \ {0} /\ ch.hi \in Nat /\ ch.lo <= ch.hi /\ ch.hi <= Len(len)
      /\ \A q \in ch.lo .. ch.hi : q \in 1 .. Len(len)
      /\ \A k \in 1 .. ch.hi - ch.lo + 1 : ch.lo + k - 1 \in ch.lo .. ch.hi
  BY ChunkRange DEF GoodChunk
<1>2. Sized(RankPart(r), Lens(r), Row, ch.lo, ch.hi)
  BY <1>1, PartsSized
<1>3. s = [k \in 1 .. ch.hi - ch.lo + 1 |-> RankPart(r)[ch.lo + k - 1]]
  <2>1. \A q \in 1 .. Len(len) :
          RankPart(r)[q] = [c \in 1 .. LocalLen(r, q) |-> <<q, GlobalPos(r, c - 1)>>]
    BY DEF RankPart
  <2>2. \A k \in 1 .. ch.hi - ch.lo + 1 : ch.lo + k - 1 \in 1 .. Len(len)
    BY <1>1
  <2>3. QED
    BY <2>1, <2>2
<1>4. FullRows(r, ch) = FlattenSeq(s)
  BY DEF FullRows
<1> HIDE DEF s
<1>5. ch.lo \in Int /\ ch.hi \in Int
  BY <1>1
<1>6. LaidOut(FlattenSeq(s), RankPart(r), Lens(r), Row, ch.lo, ch.hi)
  BY <1>1, <1>2, <1>3, <1>5, Layout
<1>7. QED
  BY <1>4, <1>6

\* The keys of a chunk in GLOBAL order: those of its requests, one after the other.
LEMMA KeysLaid ==
  ASSUME Batch, NEW ch, GoodChunk(ch)
  PROVE  LaidOut(GlobalKeys(ch), Whole, len, Row, ch.lo, ch.hi)
<1> DEFINE s == [k \in 1 .. ch.hi - ch.lo + 1 |->
                  [i \in 1 .. len[ch.lo + k - 1] |-> <<ch.lo + k - 1, i - 1>>]]
<1>1. /\ ch.lo \in Nat \ {0} /\ ch.hi \in Nat /\ ch.lo <= ch.hi /\ ch.hi <= Len(len)
      /\ \A q \in ch.lo .. ch.hi : q \in 1 .. Len(len)
      /\ \A k \in 1 .. ch.hi - ch.lo + 1 : ch.lo + k - 1 \in ch.lo .. ch.hi
  BY ChunkRange DEF GoodChunk
<1>0. 0 \in Ranks
  BY DEF Ranks
<1>2. Sized(Whole, len, Row, ch.lo, ch.hi)
  BY <1>0, <1>1, PartsSized
<1>3. s = [k \in 1 .. ch.hi - ch.lo + 1 |-> Whole[ch.lo + k - 1]]
  <2>1. \A q \in 1 .. Len(len) : Whole[q] = [i \in 1 .. len[q] |-> <<q, i - 1>>]
    BY DEF Whole
  <2>2. \A k \in 1 .. ch.hi - ch.lo + 1 : ch.lo + k - 1 \in 1 .. Len(len)
    BY <1>1
  <2>3. QED
    BY <2>1, <2>2
<1>4. GlobalKeys(ch) = FlattenSeq(s)
  BY DEF GlobalKeys
<1> HIDE DEF s
<1>5. ch.lo \in Int /\ ch.hi \in Int
  BY <1>1
<1>6. LaidOut(FlattenSeq(s), Whole, len, Row, ch.lo, ch.hi)
  BY <1>1, <1>2, <1>3, <1>5, Layout
<1>7. QED
  BY <1>4, <1>6

\* Multiplication is monotone.
LEMMA TimesMonotone ==
  ASSUME NEW m \in Nat, NEW x \in Nat, NEW y \in Nat, x <= y
  PROVE  x * m <= y * m
<1>1. (y - x) * m >= 0
  OBVIOUS
<1>2. (y - x) * m = y * m - x * m
  OBVIOUS
<1>3. QED
  BY <1>1, <1>2

\* The staging buffer is no larger than the buffer of all keys.
LEMMA LocalFits ==
  LocalCapacity \in Nat /\ LocalCapacity <= Capacity /\ Capacity \in Nat
<1> DEFINE x == LocalCapacity
           e == Capacity
<1>1. e \in Nat \ {0} /\ e + N - 1 \in Nat
  BY ConstantTypes
<1>2. x \in Nat /\ (e + N - 1) % N \in 0 .. N - 1 /\ e + N - 1 = x * N + ((e + N - 1) % N)
  BY <1>1, DivMod DEF LocalCapacity
<1> HIDE DEF x, e
<1>3. CASE e + 1 <= x
  <2>1. e * N + N <= x * N
    BY <1>1, <1>2, <1>3, ScaleMonotone
  <2>2. 1 * e <= N * e /\ N * e = e * N /\ e * N \in Int /\ 1 * e = e /\ x * N \in Int
    BY <1>1, <1>2, TimesMonotone
  <2>3. FALSE
    BY <1>1, <1>2, <2>1, <2>2
  <2>4. QED
    BY <2>3
<1>4. CASE x <= e
  BY <1>1, <1>2, <1>4 DEF x, e
<1>5. QED
  BY <1>1, <1>2, <1>3, <1>4

\* The buffers are large enough for every chunk.
LEMMA ChunkFits ==
  ASSUME Batch, NEW ch, GoodChunk(ch)
  PROVE  /\ Total(ch) \in Nat /\ Total(ch) <= Capacity
         /\ GlobalKeys(ch) \in Seq(Row) /\ Len(GlobalKeys(ch)) = Total(ch)
         /\ \A r \in Ranks :
              /\ LocalTotal(ch, r) \in Nat /\ LocalTotal(ch, r) <= LocalCapacity
              /\ FullRows(r, ch) \in Seq(Row) /\ Len(FullRows(r, ch)) = LocalTotal(ch, r)
<1> DEFINE lo == ch.lo
           hi == ch.hi
           k == hi - lo + 1
<1>1. /\ lo \in Nat \ {0} /\ hi \in Nat /\ lo <= hi /\ k \in Nat /\ k <= MaxReqs
      /\ \A q \in lo .. hi : q \in 1 .. Len(len)
  BY ChunkRange
<1>2. /\ MaxReqs \in Nat /\ MaxLen \in Nat /\ Capacity \in Nat /\ LocalCapacity \in Nat
      /\ MaxReqs * MaxLen <= Capacity /\ MaxReqs * MaxShare <= LocalCapacity
  BY PrefillAssumption, LocalFits DEF MaxShare
<1>3. ASSUME NEW f, NEW m \in Nat, \A q \in lo .. hi : f[q] \in 0 .. m
      PROVE  SumOver(f, lo, hi) \in Nat /\ SumOver(f, lo, hi) <= MaxReqs * m
  <2>1. lo \in Int /\ hi \in Int /\ lo - 1 <= hi /\ hi \in lo - 1 .. hi /\ \A q \in lo .. hi : f[q] \in Nat
    BY <1>1, <1>3
  <2> HIDE DEF lo, hi, k
  <2>2. \A j \in lo - 1 .. hi : SumOver(f, lo, j) \in Nat
    BY <2>1, SumGrows
  <2>3. SumOver(f, lo, hi) <= (hi - lo + 1) * m
    BY <1>3, <2>1, SumBound
  <2>4. k = hi - lo + 1
    BY DEF k
  <2>5. k * m <= MaxReqs * m /\ k * m \in Int /\ MaxReqs * m \in Int
    BY <1>1, <1>2, TimesMonotone
  <2>6. SumOver(f, lo, hi) <= k * m
    BY <2>3, <2>4
  <2>7. SumOver(f, lo, hi) \in Nat
    BY <2>1, <2>2
  <2>8. QED
    BY <2>5, <2>6, <2>7
<1>4. Total(ch) \in Nat /\ Total(ch) <= Capacity
  <2>1. \A q \in lo .. hi : len[q] \in 0 .. MaxLen
    BY <1>1, BatchFacts
  <2>2. SumOver(len, lo, hi) \in Nat /\ SumOver(len, lo, hi) <= MaxReqs * MaxLen
    BY <1>2, <1>3, <2>1
  <2>3. MaxReqs * MaxLen \in Int
    BY <1>2
  <2>4. QED
    BY <1>2, <2>2, <2>3 DEF Total
<1>5. GlobalKeys(ch) \in Seq(Row) /\ Len(GlobalKeys(ch)) = Total(ch)
  BY KeysLaid DEF LaidOut, Total
<1>6. ASSUME NEW r \in Ranks
      PROVE  /\ LocalTotal(ch, r) \in Nat /\ LocalTotal(ch, r) <= LocalCapacity
             /\ FullRows(r, ch) \in Seq(Row) /\ Len(FullRows(r, ch)) = LocalTotal(ch, r)
  <2>0. MaxShare \in Nat
    <3>1. 0 \in 0 .. MaxLen
      BY <1>2
    <3>2. QED
      BY <3>1, ShareBound
  <2>1. ASSUME NEW q \in lo .. hi PROVE Lens(r)[q] \in 0 .. MaxShare
    <3>1. q \in 1 .. Len(len) /\ q \in DOMAIN len
      BY <1>1, BatchFacts
    <3>2. Lens(r)[q] = LocalLen(r, q)
      BY <3>1 DEF Lens
    <3>3. QED
      BY <3>1, <3>2, Share
  <2>2. SumOver(Lens(r), lo, hi) \in Nat /\ SumOver(Lens(r), lo, hi) <= MaxReqs * MaxShare
    BY <1>3, <2>0, <2>1
  <2>3. MaxReqs * MaxShare \in Int
    BY <1>2, <2>0
  <2>4. LocalTotal(ch, r) = SumOver(Lens(r), lo, hi)
    BY DEF LocalTotal, Lens
  <2>5. FullRows(r, ch) \in Seq(Row) /\ Len(FullRows(r, ch)) = SumOver(Lens(r), lo, hi)
    BY FullRowsLaid DEF LaidOut
  <2>6. QED
    BY <1>2, <2>2, <2>3, <2>4, <2>5
<1>7. QED
  BY <1>4, <1>5, <1>6

Totals(ch) == [s \in Ranks |-> LocalTotal(ch, s)]
Shards(ch) == [s \in Ranks |-> FullRows(s, ch)]

\* The result of a collective: the rows of the ranks, one after the other.
LEMMA ConcatLaid ==
  ASSUME Batch, NEW ch, GoodChunk(ch)
  PROVE  LaidOut(Concat(ch), Shards(ch), Totals(ch), Row, 0, N - 1)
<1> DEFINE z == 0
           s == [k \in 1 .. (N - 1) - z + 1 |-> Shards(ch)[z + k - 1]]
<1>1. z = 0 /\ z \in Int /\ N - 1 \in Int /\ z <= N - 1 /\ (N - 1) - z + 1 = N
  OBVIOUS
<1>2. Sized(Shards(ch), Totals(ch), Row, z, N - 1)
  <2>1. \A q \in Ranks : Shards(ch)[q] \in Seq(Row) /\ Totals(ch)[q] = Len(Shards(ch)[q])
    BY ChunkFits DEF Shards, Totals
  <2>2. QED
    BY <2>1 DEF Sized, Ranks
<1>3. Concat(ch) = FlattenSeq(s)
  <2>1. [k \in 1 .. N |-> FullRows(k - 1, ch)] = s
    <3>1. ASSUME NEW k \in 1 .. N PROVE Shards(ch)[z + k - 1] = FullRows(k - 1, ch)
      <4>1. z + k - 1 = k - 1 /\ k - 1 \in Ranks
        BY DEF Ranks
      <4>2. QED
        BY <4>1 DEF Shards
    <3>2. 1 .. N = 1 .. (N - 1) - z + 1
      BY <1>1
    <3> HIDE DEF z
    <3>3. QED
      BY <3>1, <3>2
  <2>2. QED
    BY <2>1 DEF Concat
<1> HIDE DEF z
<1>4. s = [k \in 1 .. (N - 1) - z + 1 |-> Shards(ch)[z + k - 1]]
  OBVIOUS
<1> HIDE DEF s
<1>5. LaidOut(FlattenSeq(s), Shards(ch), Totals(ch), Row, z, N - 1)
  BY <1>1, <1>2, <1>4, Layout
<1>6. QED
  BY <1>1, <1>3, <1>5

\* The row of the concatenation that holds a key of the chunk.
LEMMA GatheredRowHolds ==
  ASSUME Batch, NEW ch, GoodChunk(ch), NEW q \in ch.lo .. ch.hi, NEW p \in 0 .. len[q] - 1
  PROVE  /\ GatheredRow(ch, q, p) \in Nat
         /\ Concat(ch)[GatheredRow(ch, q, p)] = <<q, p>>
<1> DEFINE o == Owner(p)
           c == LocalIndex(p)
<1>1. /\ q \in 1 .. Len(len) /\ ch.lo \in Int /\ ch.hi \in Int
      /\ \A k \in ch.lo .. ch.hi : k \in 1 .. Len(len)
  BY ChunkRange
<1>2. len[q] \in Nat /\ p \in Nat /\ p < len[q]
  BY <1>1, BatchFacts
<1>3. o \in Ranks /\ c \in Nat /\ GlobalPos(o, c) = p
  BY <1>2, SlotOf
<1> HIDE DEF o, c
<1>4. LocalLen(o, q) \in Nat /\ c < LocalLen(o, q)
  BY <1>1, <1>2, <1>3, Share
<1> DEFINE i == c + 1
           f == Lens(o)
           x == SumOver(f, ch.lo, q - 1)
           t == Totals(ch)
           y == SumOver(t, 0, o - 1)
<1>5. f[q] = LocalLen(o, q) /\ i \in 1 .. f[q] /\ \A k \in ch.lo .. ch.hi : f[k] \in Nat
  <2>1. \A k \in 1 .. Len(len) : f[k] = LocalLen(o, k) /\ LocalLen(o, k) \in Nat
    BY <1>3, BatchFacts, Share DEF Lens
  <2>2. QED
    BY <1>1, <1>3, <1>4, <2>1
<1>6. RankPart(o)[q][i] = <<q, p>>
  <2>1. RankPart(o)[q] = [d \in 1 .. LocalLen(o, q) |-> <<q, GlobalPos(o, d - 1)>>]
    BY <1>1 DEF RankPart
  <2>2. i \in 1 .. LocalLen(o, q) /\ i - 1 = c
    BY <1>3, <1>4
  <2>3. QED
    BY <1>3, <2>1, <2>2
<1>0. LaidOut(FullRows(o, ch), RankPart(o), f, Row, ch.lo, ch.hi)
  BY <1>3, FullRowsLaid
<1> HIDE DEF i, f
<1>7. x \in Nat /\ x + i \in 1 .. SumOver(f, ch.lo, ch.hi)
  BY <1>1, <1>5, SumIn
<1> HIDE DEF x
<1>8. SumOver(f, ch.lo, ch.hi) = LocalTotal(ch, o)
  BY DEF LocalTotal, f, Lens
<1>9. FullRows(o, ch)[x + i] = <<q, p>>
  <2>1. FullRows(o, ch)[SumOver(f, ch.lo, q - 1) + i] = RankPart(o)[q][i]
    BY <1>0, <1>5 DEF LaidOut
  <2>2. QED
    BY <1>6, <2>1 DEF x
<1>10. /\ \A s \in Ranks : t[s] = LocalTotal(ch, s) /\ t[s] \in Nat
       /\ Shards(ch)[o] = FullRows(o, ch)
  BY <1>3, ChunkFits DEF Totals, Shards
<1>11. LaidOut(Concat(ch), Shards(ch), t, Row, 0, N - 1)
  BY ConcatLaid
<1> HIDE DEF t
<1>12. y \in Nat
  <2> DEFINE z == 0
             j == x + i
  <2>1. z = 0 /\ z \in Int /\ N - 1 \in Int /\ o \in z .. N - 1 /\ j \in 1 .. t[o]
        /\ \A s \in z .. N - 1 : t[s] \in Nat
    BY <1>3, <1>7, <1>8, <1>10 DEF Ranks
  <2> HIDE DEF z, j, y
  <2>2. SumOver(t, z, o - 1) \in Nat
    BY <2>1, SumIn
  <2>3. QED
    BY <2>1, <2>2 DEF y
<1>13. Concat(ch)[y + (x + i)] = <<q, p>>
  <2> DEFINE j == x + i
  <2>1. o \in 0 .. N - 1 /\ j \in 1 .. t[o]
    BY <1>3, <1>7, <1>8, <1>10 DEF Ranks
  <2> HIDE DEF j
  <2>2. Concat(ch)[SumOver(t, 0, o - 1) + j] = Shards(ch)[o][j]
    BY <1>11, <2>1 DEF LaidOut
  <2>3. QED
    BY <1>9, <1>10, <2>2 DEF j, y
<1>14. GatheredRow(ch, q, p) = y + x + c + 1
  <2>1. GatheredRow(ch, q, p) = RankBase(ch, o) + ReqOff(ch, o, q) + c + 1
    BY DEF GatheredRow, o, c
  <2>2. RankBase(ch, o) = y /\ ReqOff(ch, o, q) = x
    BY DEF RankBase, ReqOff, y, x, t, Totals, f, Lens
  <2>3. QED
    BY <2>1, <2>2
<1> HIDE DEF y
<1>15. y + x + c + 1 = y + (x + i) /\ y + (x + i) \in Nat
  BY <1>3, <1>7, <1>12 DEF i
<1>16. QED
  BY <1>13, <1>14, <1>15

\* The gather index brings the concatenation into GLOBAL order.
LEMMA Reassembled ==
  ASSUME Batch, NEW ch, GoodChunk(ch)
  PROVE  [g \in 1 .. Len(ReasmIdx(ch)) |-> Concat(ch)[ReasmIdx(ch)[g]]] = GlobalKeys(ch)
<1> DEFINE lo == ch.lo
           hi == ch.hi
           w == [q \in 1 .. Len(len) |-> [g \in 1 .. len[q] |-> GatheredRow(ch, q, g - 1)]]
           s == [k \in 1 .. hi - lo + 1 |-> w[lo + k - 1]]
<1>1. /\ lo \in Nat \ {0} /\ hi \in Nat /\ lo <= hi /\ lo \in Int /\ hi \in Int /\ lo - 1 <= hi
      /\ \A q \in lo .. hi : q \in 1 .. Len(len)
      /\ \A k \in 1 .. hi - lo + 1 : lo + k - 1 \in lo .. hi
  BY ChunkRange
<1>2. \A q \in lo .. hi : len[q] \in Nat
  BY <1>1, BatchFacts
<1>3. \A q \in lo .. hi : w[q] = [g \in 1 .. len[q] |-> GatheredRow(ch, q, g - 1)]
  BY <1>1
<1>4. ReasmIdx(ch) = FlattenSeq(s)
  <2> DEFINE glen(q) == SumOver([o \in Ranks |-> LocalLen(o, q)], 0, N - 1)
             e(k) == [g \in 1 .. glen(lo + k - 1) |-> GatheredRow(ch, lo + k - 1, g - 1)]
  <2>1. ASSUME NEW q \in lo .. hi PROVE glen(q) = len[q]
    <3> DEFINE f == [o \in Ranks |-> LocalLen(o, q)]
    <3>1. \A o \in Ranks : f[o] = OwnedCount(len[q], o)
      BY DEF LocalLen
    <3> HIDE DEF f
    <3>2. SumOver(f, 0, N - 1) = len[q]
      BY <1>2, <3>1, CountsAdd
    <3>3. QED
      BY <3>2 DEF f
  <2>2. \A q \in lo .. hi :
          [g \in 1 .. glen(q) |-> GatheredRow(ch, q, g - 1)] = [g \in 1 .. len[q] |-> GatheredRow(ch, q, g - 1)]
    <3> HIDE DEF glen
    <3>1. QED
      BY <2>1
  <2>3. \A k \in 1 .. hi - lo + 1 : e(k) = w[lo + k - 1]
    <3> HIDE DEF glen, w
    <3>1. QED
      BY <1>1, <1>3, <2>2
  <2>4. ReasmIdx(ch) = FlattenSeq([k \in 1 .. hi - lo + 1 |-> e(k)])
    BY DEF ReasmIdx
  <2>5. s = [k \in 1 .. hi - lo + 1 |-> w[lo + k - 1]]
    OBVIOUS
  <2> HIDE DEF e, w, s
  <2>6. [k \in 1 .. hi - lo + 1 |-> e(k)] = s
    BY <2>3, <2>5
  <2>7. QED
    BY <2>4, <2>6
<1>0. s = [k \in 1 .. hi - lo + 1 |-> w[lo + k - 1]]
  OBVIOUS
<1> HIDE DEF s, w
<1>5. Sized(w, len, Int, lo, hi)
  <2>1. ASSUME NEW q \in lo .. hi PROVE w[q] \in Seq(Int) /\ len[q] = Len(w[q])
    <3>1. ASSUME NEW g \in 1 .. len[q] PROVE GatheredRow(ch, q, g - 1) \in Int
      <4>1. g - 1 \in 0 .. len[q] - 1
        BY <1>2
      <4>2. QED
        BY <4>1, GatheredRowHolds
    <3>2. w[q] \in [1 .. len[q] -> Int]
      BY <1>3, <3>1
    <3>3. QED
      BY <1>2, <3>2, FunctionIsSeq
  <2>2. QED
    BY <2>1 DEF Sized
<1> DEFINE idx == FlattenSeq(s)
           keys == GlobalKeys(ch)
<1>6. LaidOut(idx, w, len, Int, lo, hi)
  BY <1>0, <1>1, <1>5, Layout
<1>7. LaidOut(keys, Whole, len, Row, lo, hi)
  BY KeysLaid
<1> HIDE DEF idx, keys, lo, hi
<1> DEFINE m == SumOver(len, lo, hi)
<1>8. idx \in Seq(Int) /\ Len(idx) = m /\ keys \in Seq(Row) /\ Len(keys) = m
  BY <1>6, <1>7 DEF LaidOut
<1>9. ASSUME NEW g \in 1 .. m PROVE Concat(ch)[idx[g]] = keys[g]
  <2>1. PICK q \in lo .. hi : \E i \in 1 .. len[q] : g = SumOver(len, lo, q - 1) + i
    BY <1>1, <1>2, SumPlace
  <2>2. PICK i \in 1 .. len[q] : g = SumOver(len, lo, q - 1) + i
    BY <2>1
  <2>3. idx[g] = w[q][i]
    BY <1>6, <2>2 DEF LaidOut
  <2>4. keys[g] = Whole[q][i]
    BY <1>7, <2>2 DEF LaidOut
  <2>5. w[q][i] = GatheredRow(ch, q, i - 1)
    BY <1>3
  <2>6. Whole[q][i] = <<q, i - 1>>
    BY <1>1 DEF Whole
  <2>7. Concat(ch)[GatheredRow(ch, q, i - 1)] = <<q, i - 1>>
    <3>1. i - 1 \in 0 .. len[q] - 1
      BY <1>2
    <3>2. QED
      BY <3>1, GatheredRowHolds DEF lo, hi
  <2>8. QED
    BY <2>3, <2>4, <2>5, <2>6, <2>7
<1>10. keys = [g \in 1 .. m |-> keys[g]]
  BY <1>8
<1>11. [g \in 1 .. Len(idx) |-> Concat(ch)[idx[g]]] = keys
  <2> HIDE DEF m
  <2>1. [g \in 1 .. m |-> Concat(ch)[idx[g]]] = [g \in 1 .. m |-> keys[g]]
    BY <1>9
  <2>2. QED
    BY <1>8, <1>10, <2>1
<1>12. QED
  BY <1>4, <1>11 DEF idx, keys

RowPart ==
  [q \in 1 .. Len(len) |-> [i \in 1 .. len[q] - ctx[q] |-> <<q, ctx[q] + i - 1>>]]

\* The query rows of a chunk's requests, one after the other.
LEMMA QueryRowsLaid ==
  ASSUME Batch, NEW ch, GoodChunk(ch)
  PROVE  LaidOut(QueryRows(ch.lo, ch.hi), RowPart, NewRows, Row, ch.lo, ch.hi)
<1> DEFINE lo == ch.lo
           hi == ch.hi
           s == [k \in 1 .. hi - lo + 1 |->
                  [i \in 1 .. len[lo + k - 1] - ctx[lo + k - 1] |-> <<lo + k - 1, ctx[lo + k - 1] + i - 1>>]]
<1>1. /\ lo \in Int /\ hi \in Int /\ lo <= hi
      /\ \A q \in lo .. hi : q \in 1 .. Len(len)
      /\ \A k \in 1 .. hi - lo + 1 : lo + k - 1 \in lo .. hi
  BY ChunkRange
<1>2. \A q \in 1 .. Len(len) :
        RowPart[q] = [i \in 1 .. len[q] - ctx[q] |-> <<q, ctx[q] + i - 1>>]
  BY DEF RowPart
<1>3. Sized(RowPart, NewRows, Row, lo, hi)
  <2>1. ASSUME NEW q \in lo .. hi PROVE RowPart[q] \in Seq(Row) /\ NewRows[q] = Len(RowPart[q])
    <3> DEFINE m == len[q] - ctx[q]
    <3>1. /\ q \in 1 .. Len(len) /\ q \in 1 .. MaxReqs /\ m \in Nat
          /\ len[q] \in Nat /\ len[q] <= MaxLen /\ MaxLen \in Nat /\ ctx[q] \in Nat
          /\ NewRows[q] = m
      BY <1>1, BatchFacts
    <3>2. ASSUME NEW i \in 1 .. m PROVE <<q, ctx[q] + i - 1>> \in Row
      <4>1. ctx[q] + i - 1 \in Pos
        BY <3>1 DEF Pos
      <4>2. QED
        BY <3>1, <4>1 DEF Row, Keys
    <3>3. RowPart[q] \in [1 .. m -> Row]
      BY <1>2, <3>1, <3>2
    <3> HIDE DEF m
    <3>4. QED
      BY <3>1, <3>3, FunctionIsSeq
  <2>2. QED
    BY <2>1 DEF Sized
<1>4. s = [k \in 1 .. hi - lo + 1 |-> RowPart[lo + k - 1]]
  <2>1. \A k \in 1 .. hi - lo + 1 : lo + k - 1 \in 1 .. Len(len)
    BY <1>1
  <2>2. QED
    BY <1>2, <2>1
<1>5. QueryRows(lo, hi) = FlattenSeq(s)
  BY DEF QueryRows
<1> HIDE DEF s, lo, hi
<1>6. LaidOut(FlattenSeq(s), RowPart, NewRows, Row, lo, hi)
  BY <1>1, <1>3, <1>4, Layout
<1>7. QED
  BY <1>5, <1>6 DEF lo, hi

\* The rows of a chunk are new rows of its requests, and those that lie in it.
LEMMA RowsOfChunk ==
  ASSUME Batch, NEW ch, GoodChunk(ch)
  PROVE  /\ \A q, p : <<q, p>> \in Range(ChunkRows(ch)) =>
              q \in ch.lo .. ch.hi /\ p \in ctx[q] .. len[q] - 1
         /\ \A q \in 1 .. Len(len) : \A x \in 1 .. NewRows[q] :
              InChunk(ch, NewRows, q, x) => <<q, ctx[q] + x - 1>> \in Range(ChunkRows(ch))
<1> DEFINE lo == ch.lo
           hi == ch.hi
           from == ch.from
           to == ch.to
           F == QueryRows(lo, hi)
           C == ChunkRows(ch)
           m == SumOver(NewRows, lo, hi)
<1>1. /\ lo \in Int /\ hi \in Int /\ lo <= hi /\ lo - 1 <= hi
      /\ \A q \in lo .. hi : q \in 1 .. Len(len)
  BY ChunkRange
<1>2. \A q \in lo .. hi : /\ NewRows[q] \in Nat /\ NewRows[q] = len[q] - ctx[q]
                          /\ len[q] \in Nat /\ ctx[q] \in Nat
  BY <1>1, BatchFacts
<1>3. /\ F \in Seq(Row) /\ Len(F) = m
      /\ \A q \in lo .. hi : \A i \in 1 .. NewRows[q] :
           F[SumOver(NewRows, lo, q - 1) + i] = RowPart[q][i]
  BY QueryRowsLaid DEF LaidOut
<1>4. \A q \in lo .. hi : \A i \in 1 .. NewRows[q] : RowPart[q][i] = <<q, ctx[q] + i - 1>>
  <2>1. ASSUME NEW q \in lo .. hi, NEW i \in 1 .. NewRows[q] PROVE RowPart[q][i] = <<q, ctx[q] + i - 1>>
    <3>1. RowPart[q] = [j \in 1 .. len[q] - ctx[q] |-> <<q, ctx[q] + j - 1>>]
      BY <1>1 DEF RowPart
    <3>2. i \in 1 .. len[q] - ctx[q]
      BY <1>2
    <3>3. QED
      BY <3>1, <3>2
  <2>2. QED
    BY <2>1
<1>5. from \in Nat /\ to \in Nat /\ from <= to /\ to <= m
  BY DEF GoodChunk
<1>6. C = SubSeq(F, from + 1, to)
  BY DEF ChunkRows
<1>0. m \in Nat
  BY <1>3, LenProperties
<1> HIDE DEF lo, hi, from, to, F, C, m
<1>7. \A i \in from + 1 .. to : F[i] \in Row
  <2>1. \A i \in from + 1 .. to : i \in 1 .. Len(F)
    BY <1>0, <1>3, <1>5
  <2>2. QED
    BY <1>3, <2>1, ElementOfSeq
<1> DEFINE b == from + 1
<1>8. /\ C \in Seq(Row) /\ Len(C) = to - from
      /\ \A i \in 1 .. to - from : C[i] = F[from + i]
  <2>1. b \in Int /\ to \in Int /\ to - b + 1 = to - from /\ \A i \in b .. to : F[i] \in Row
    BY <1>5, <1>7
  <2>2. (IF b <= to THEN to - b + 1 ELSE 0) = to - from /\ \A i \in 1 .. to - from : b + i - 1 = from + i
    BY <1>5
  <2>3. C = SubSeq(F, b, to)
    BY <1>6
  <2> HIDE DEF b
  <2>4. /\ C \in Seq(Row) /\ Len(C) = IF b <= to THEN to - b + 1 ELSE 0
        /\ \A i \in 1 .. to - b + 1 : C[i] = F[b + i - 1]
    BY <2>1, <2>3, SubSeqProperties
  <2>5. QED
    BY <2>1, <2>2, <2>4
<1>9. DOMAIN C = 1 .. to - from
  BY <1>8, LenProperties
<1>10. ASSUME NEW q, NEW p, <<q, p>> \in Range(C)
       PROVE  q \in lo .. hi /\ p \in ctx[q] .. len[q] - 1
  <2>1. PICK j \in 1 .. to - from : C[j] = <<q, p>>
    BY <1>9, <1>10 DEF Range
  <2> DEFINE x == from + j
  <2>2. x \in 1 .. m /\ F[x] = <<q, p>>
    BY <1>0, <1>5, <1>8, <2>1
  <2> HIDE DEF x
  <2>3. PICK k \in lo .. hi : \E i \in 1 .. NewRows[k] : x = SumOver(NewRows, lo, k - 1) + i
    BY <1>1, <1>2, <2>2, SumPlace DEF m
  <2>4. PICK i \in 1 .. NewRows[k] : x = SumOver(NewRows, lo, k - 1) + i
    BY <2>3
  <2>5. F[x] = <<k, ctx[k] + i - 1>>
    BY <1>3, <1>4, <2>4
  <2>6. q = k /\ p = ctx[k] + i - 1
    BY <2>2, <2>5
  <2>7. ctx[k] + i - 1 \in ctx[k] .. len[k] - 1
    BY <1>2
  <2>8. QED
    BY <2>6, <2>7
<1>11. ASSUME NEW q \in 1 .. Len(len), NEW x \in 1 .. NewRows[q], InChunk(ch, NewRows, q, x)
       PROVE  <<q, ctx[q] + x - 1>> \in Range(C)
  <2> DEFINE y == SumOver(NewRows, lo, q - 1) + x
             j == y - from
  <2>1. lo <= q /\ q <= hi /\ from < y /\ y <= to
    BY <1>11 DEF InChunk, lo, hi, from, to
  <2>2. q \in lo .. hi
    BY <1>1, <2>1
  <2>3. y \in Int
    <3>1. x \in 1 .. NewRows[q] /\ x \in Int /\ \A k \in lo .. hi : NewRows[k] \in Nat
      BY <1>2, <2>2
    <3>2. SumOver(NewRows, lo, q - 1) \in Nat
      BY <1>1, <2>2, <3>1, SumIn
    <3>3. QED
      BY <3>1, <3>2
  <2>4. F[y] = <<q, ctx[q] + x - 1>>
    BY <1>3, <1>4, <2>2
  <2> HIDE DEF y
  <2>5. j \in 1 .. to - from /\ from + j = y
    BY <1>5, <2>1, <2>3
  <2>6. C[j] = F[from + j]
    BY <1>8, <2>5
  <2>7. QED
    BY <1>9, <2>4, <2>5, <2>6 DEF Range
<1>12. QED
  BY <1>10, <1>11 DEF lo, hi, C

-----------------------------------------------------------------------------
(* Selections.                                                             *)

\* The scored positions are finitely many, each with one score.
LEMMA PairsAre ==
  ASSUME score \in ScoreTables, NEW q \in 1 .. MaxReqs, NEW n, NEW A \in SUBSET (0 .. n), n \in Pos
  PROVE  /\ Scored2(KeyPairs(q, A)) /\ Keyed(KeyPairs(q, A))
         /\ \A s \in KeyPairs(q, A) : s[1] \in A /\ s = <<s[1], score[q][s[1]]>>
         /\ IsFiniteSet(A) /\ IsFiniteSet(KeyPairs(q, A))
         /\ Cardinality(KeyPairs(q, A)) = Cardinality(A)
         /\ \A x \in A : score[q][x] \in Int
<1> DEFINE S == KeyPairs(q, A)
<1>1. n \in Nat /\ \A x \in A : x \in Nat /\ x \in Pos
  BY ConstantTypes DEF Pos
<1>2. \A x \in A : score[q][x] \in Int
  <2>1. score \in [1 .. MaxReqs -> [Pos -> Int]]
    BY ConstantTypes
  <2>2. QED
    BY <1>1, <2>1
<1>3. \A s \in S : s[1] \in A /\ s = <<s[1], score[q][s[1]]>>
  BY DEF KeyPairs
<1>4. \A s \in S : s[1] \in Int /\ s[2] \in Int
  <2>1. \A s \in S : s[2] = score[q][s[1]]
    BY <1>3
  <2>2. QED
    BY <1>1, <1>2, <1>3, <2>1
<1>5. \A x, y \in S : x[1] = y[1] => x = y
  BY <1>3
<1>6. IsFiniteSet(A)
  <2>1. IsFiniteSet(0 .. n)
    BY <1>1, FS_Interval
  <2>2. QED
    BY <2>1, FS_Subset
<1>7. IsFiniteSet(S) /\ Cardinality(S) = Cardinality(A)
  <2> DEFINE f == [x \in A |-> <<x, score[q][x]>>]
  <2>1. f \in [A -> S] /\ S = { f[x] : x \in A } /\ \A x, y \in A : f[x] = f[y] => x = y
    BY DEF KeyPairs
  <2> HIDE DEF f, S
  <2>2. QED
    BY <1>6, <2>1, InjectiveImage
<1>8. QED
  BY <1>2, <1>3, <1>4, <1>5, <1>6, <1>7 DEF Scored2, Keyed

\* There is a selection, and it is some of the positions seen, and the best.
LEMMA BestIs ==
  ASSUME score \in ScoreTables, NEW q \in 1 .. MaxReqs, NEW p \in Pos
  PROVE  /\ Best(q, p) # {}
         /\ \A S \in Best(q, p) :
              /\ S \subseteq 0 .. p
              /\ IsTopK(KeyPairs(q, S), KeyPairs(q, 0 .. p), TopK)
              /\ ties = "lowest" => IsStrictTopK(KeyPairs(q, S), KeyPairs(q, 0 .. p), TopK)
<1> DEFINE A == KeyPairs(q, 0 .. p)
<1>1. TopK \in Nat
  BY ConstantTypes
<1>2. /\ Scored2(A) /\ Keyed(A) /\ IsFiniteSet(A)
      /\ \A s \in A : s[1] \in 0 .. p /\ s = <<s[1], score[q][s[1]]>>
  BY PairsAre
<1>3. \A T : IsStrictTopK(T, A, TopK) => IsTopK(T, A, TopK)
  <2> HIDE DEF A
  <2>1. QED
    BY <1>1, <1>2, StrictIsTopK
<1>4. PICK T : IsStrictTopK(T, A, TopK)
  <2> HIDE DEF A
  <2>1. QED
    BY <1>1, <1>2, StrictTopKExists
<1>5. T \subseteq A
  BY <1>4 DEF IsStrictTopK
<1> DEFINE S == { t[1] : t \in T }
<1>6. KeyPairs(q, S) = T
  <2>1. ASSUME NEW t \in T PROVE t \in KeyPairs(q, S)
    BY <1>2, <1>5 DEF KeyPairs
  <2>2. ASSUME NEW k \in KeyPairs(q, S) PROVE k \in T
    <3>1. PICK t \in T : k = <<t[1], score[q][t[1]]>>
      BY DEF KeyPairs
    <3>2. QED
      BY <1>2, <1>5, <3>1
  <2>3. QED
    BY <2>1, <2>2
<1>7. S \subseteq 0 .. p
  BY <1>2, <1>5
<1> HIDE DEF S
<1>8. S \in Best(q, p)
  BY <1>3, <1>4, <1>6, <1>7 DEF Best, A
<1>9. QED
  BY <1>3, <1>8 DEF Best, A

\* Over the keys of its request in GLOBAL order a row may get the selections of the best.
LEMMA KernelBest ==
  ASSUME Batch, NEW ch, GoodChunk(ch), NEW q \in ch.lo .. ch.hi, NEW p \in 0 .. len[q] - 1
  PROVE  KernelTopK(GlobalKeys(ch), GlobalKeys(ch), RowStart(ch, q), p) = Best(q, p)
<1> DEFINE keys == GlobalKeys(ch)
           base == RowStart(ch, q)
           seen(S) == { <<i, RowScore(keys[base + i + 1], keys[base + i + 1])>> : i \in S }
<1>1. /\ q \in 1 .. Len(len) /\ q # 0
      /\ ch.lo \in Int /\ ch.hi \in Int /\ \A k \in ch.lo .. ch.hi : k \in 1 .. Len(len)
  BY ChunkRange
<1>2. len[q] \in Nat /\ p \in Nat /\ \A k \in ch.lo .. ch.hi : len[k] \in Nat
  BY <1>1, BatchFacts
<1>3. ASSUME NEW i \in 0 .. p PROVE keys[base + i + 1] = <<q, i>>
  <2> DEFINE j == i + 1
  <2>1. j \in 1 .. len[q] /\ j - 1 = i
    BY <1>2
  <2>2. base = SumOver(len, ch.lo, q - 1)
    BY DEF RowStart
  <2> HIDE DEF j, keys, base
  <2>3. keys[base + j] = Whole[q][j]
    BY <2>1, <2>2, KeysLaid DEF LaidOut, keys
  <2>4. Whole[q] = [x \in 1 .. len[q] |-> <<q, x - 1>>]
    BY <1>1 DEF Whole
  <2>5. base \in Nat
    BY <1>1, <1>2, <2>1, <2>2, SumIn
  <2>6. base + j = base + i + 1
    BY <1>2, <2>5 DEF j
  <2>7. QED
    BY <2>1, <2>3, <2>4, <2>6
<1>4. ASSUME NEW i \in 0 .. p PROVE RowScore(keys[base + i + 1], keys[base + i + 1]) = score[q][i]
  <2> DEFINE k == keys[base + i + 1]
  <2>1. k = <<q, i>>
    BY <1>3
  <2> HIDE DEF k
  <2>2. k # Dead /\ k[1] = q /\ k[2] = i
    BY <1>1, <2>1 DEF Dead
  <2>3. RowScore(k, k) = score[q][i]
    BY <2>2 DEF RowScore
  <2>4. QED
    BY <2>3 DEF k
<1>5. ASSUME NEW S \in SUBSET (0 .. p) PROVE seen(S) = KeyPairs(q, S)
  <2> HIDE DEF keys, base
  <2>1. QED
    BY <1>4 DEF KeyPairs
<1>6. KernelTopK(keys, keys, base, p) =
        { S \in SUBSET (0 .. p) :
            IF ties = "lowest" THEN IsStrictTopK(seen(S), seen(0 .. p), TopK)
                               ELSE IsTopK(seen(S), seen(0 .. p), TopK) }
  BY DEF KernelTopK
<1> HIDE DEF seen, keys, base
<1>7. seen(0 .. p) = KeyPairs(q, 0 .. p)
  BY <1>5
<1>8. KernelTopK(keys, keys, base, p) = Best(q, p)
  BY <1>5, <1>6, <1>7 DEF Best
<1>9. QED
  BY <1>8 DEF keys, base

\* The answer for a row is one of those it may get.
LEMMA AnswersChoice ==
  ASSUME NEW may, NEW sel \in Answers(may), NEW x \in DOMAIN may, may[x] # {}
  PROVE  sel[x] \in may[x]
<1> DEFINE tied == { y \in DOMAIN may : Cardinality(may[y]) > 1 }
           choices == { f \in [tied -> UNION { may[y] : y \in tied }] :
                          \A y \in tied : f[y] \in may[y] }
<1>1. PICK f \in choices :
        sel = [y \in DOMAIN may |-> IF y \in tied THEN f[y] ELSE CHOOSE S \in may[y] : TRUE]
  BY DEF Answers
<1>2. \A y \in tied : f[y] \in may[y]
  OBVIOUS
<1> HIDE DEF tied, choices
<1>3. sel[x] = IF x \in tied THEN f[x] ELSE CHOOSE S \in may[x] : TRUE
  BY <1>1
<1>4. QED
  BY <1>2, <1>3

\* A rank that reads its masked selection reads the selected keys it owns.
LEMMA ReadsOwned ==
  ASSUME NEW r \in Ranks, NEW q, NEW p, NEW S, NEW n \in Nat, S \subseteq 0 .. n - 1,
         held[r][q] = n, topk[r][q][p] = OwnedMask(S, r)
  PROVE  Reads(r, q, p) = OwnKeys(S, r, q)
<1> DEFINE own == { y \in S : Owner(y) = r }
<1>1. \A x \in S : x \in Nat /\ x >= 0 /\ x < n
  BY \A x \in 0 .. n - 1 : x \in Nat /\ x >= 0 /\ x < n
<1>2. ASSUME NEW x \in S, Owner(x) = r PROVE Shard(r, q, LocalIndex(x)) = <<q, x>>
  <2>1. GlobalPos(r, LocalIndex(x)) = x
    BY <1>1, <1>2, SlotOf
  <2>2. QED
    BY <1>1, <2>1 DEF Shard
<1>3. { y \in S : Owner(y) = r /\ y >= 0 } = own
  BY <1>1
<1>4. OwnedMask(S, r) = [x \in own |-> LocalIndex(x)]
  BY <1>3 DEF OwnedMask
<1>5. \A x \in own : x \in S /\ Owner(x) = r
  OBVIOUS
<1> HIDE DEF own
<1>6. Reads(r, q, p) = [x \in own |-> Shard(r, q, LocalIndex(x))]
  BY <1>4 DEF Reads
<1>7. QED
  BY <1>2, <1>5, <1>6 DEF OwnKeys, own

\* What these types say.
LEMMA OfPos ==
  /\ \A f : f \in Picks <=> IsOfPos(f, Nat)
  /\ \A f : f \in Seens <=> IsOfPos(f, Row)
BY DEF Picks, Seens, IsOfPos

\* A masked selection gives some positions a column.
LEMMA MaskTyped ==
  ASSUME NEW r, NEW p \in Pos, NEW S, S \subseteq 0 .. p
  PROVE  OwnedMask(S, r) \in Picks
<1>1. \A x \in S : x \in Nat /\ x \in Pos
  BY ConstantTypes DEF Pos
<1>2. \A x \in S : LocalIndex(x) \in Nat
  BY <1>1, SlotOf
<1>3. IsOfPos(OwnedMask(S, r), Nat)
  BY <1>1, <1>2 DEF OwnedMask, IsOfPos
<1>4. QED
  BY <1>3, OfPos

-----------------------------------------------------------------------------
(* Every step preserves the invariant.                                     *)

\* What is derived from the batch stays while the batch stays.
LEMMA SameBatch ==
  ASSUME UNCHANGED <<ties, ctx, len, chunks, score>>
  PROVE  /\ Batch' = Batch
         /\ \A ch : GlobalKeys(ch)' = GlobalKeys(ch)
         /\ \A r, ch : FullRows(r, ch)' = FullRows(r, ch)
         /\ \A ch : Concat(ch)' = Concat(ch)
         /\ \A ch : ChunkRows(ch)' = ChunkRows(ch)
         /\ \A q, p : Best(q, p)' = Best(q, p)
<1>1. Batch' = Batch
  BY DEF Batch, NewRows
<1>2. \A ch : GlobalKeys(ch)' = GlobalKeys(ch)
  BY DEF GlobalKeys
<1>3. \A r, ch : FullRows(r, ch)' = FullRows(r, ch)
  BY DEF FullRows, LocalLen
<1>4. \A ch : Concat(ch)' = Concat(ch)
  BY <1>3 DEF Concat
<1>5. \A ch : ChunkRows(ch)' = ChunkRows(ch)
  BY DEF ChunkRows, QueryRows
<1>6. \A q, p : Best(q, p)' = Best(q, p)
  BY DEF Best, KeyPairs
<1>7. QED
  BY <1>1, <1>2, <1>3, <1>4, <1>5, <1>6

\* A rank keeps its invariant while it and the results of the collectives stay.
LEMMA RankStays ==
  ASSUME NEW s \in Ranks, RankInv(s), UNCHANGED <<ties, ctx, len, chunks, score, kqAll, ksAll>>,
         pc'[s] = pc[s], ci'[s] = ci[s], held'[s] = held[s], arena'[s] = arena[s], topk'[s] = topk[s]
  PROVE  RankInv(s)' /\ QuantDone(s)' = QuantDone(s) /\ ScaleDone(s)' = ScaleDone(s)
<1>1. Place(s)' /\ Inserted(s)'
  BY DEF RankInv, Place, Inserted
<1>2. Staged(s)'
  BY SameBatch DEF RankInv, Staged
<1>3. Kept(s)'
  BY SameBatch DEF RankInv, Kept
<1>4. Gathered(s)'
  BY SameBatch DEF RankInv, Gathered
<1>5. Selected(s)'
  BY SameBatch DEF RankInv, Selected, Scored
<1>6. QuantDone(s)' = QuantDone(s) /\ ScaleDone(s)' = ScaleDone(s)
  BY DEF QuantDone, ScaleDone
<1>7. QED
  BY <1>1, <1>2, <1>3, <1>4, <1>5, <1>6 DEF RankInv

\* A step of rank r that leaves the others alone.
Alone(r) ==
  /\ UNCHANGED <<ties, phase, ctx, len, chunks, score, kqAll, ksAll, out>>
  /\ \A s \in Ranks \ {r} :
       /\ pc'[s] = pc[s] /\ ci'[s] = ci[s] /\ held'[s] = held[s]
       /\ arena'[s] = arena[s] /\ topk'[s] = topk[s]

\* It is enough to look at that rank.
LEMMA RankAlone ==
  ASSUME Inv, NEW r \in Ranks, phase = "running", Alone(r), Typed', RankInv(r)',
         QuantDone(r)' = QuantDone(r), ScaleDone(r)' = ScaleDone(r)
  PROVE  Inv'
<1>1. UNCHANGED <<ties, phase, ctx, len, chunks, score, kqAll, ksAll, out>>
  BY DEF Alone
<1>2. \A s \in Ranks : RankInv(s)
  BY DEF Inv
<1>3. ASSUME NEW s \in Ranks
      PROVE  RankInv(s)' /\ QuantDone(s)' = QuantDone(s) /\ ScaleDone(s)' = ScaleDone(s)
  <2>1. CASE s = r
    BY <2>1
  <2>2. CASE s # r
    <3>1. /\ pc'[s] = pc[s] /\ ci'[s] = ci[s] /\ held'[s] = held[s]
          /\ arena'[s] = arena[s] /\ topk'[s] = topk[s]
      BY <2>2 DEF Alone
    <3>2. QED
      BY <1>1, <1>2, <3>1, RankStays
  <2>3. QED
    BY <2>1, <2>2
<1>4. InStep'
  BY <1>3 DEF Inv, InStep
<1>5. Pass'
  BY <1>1, SameBatch DEF Inv, Pass
<1>6. QED
  BY <1>1, <1>3, <1>4, <1>5 DEF Inv

\* Where a rank is while a pass runs.
LEMMA RankFacts ==
  ASSUME Inv, phase = "running", NEW r \in Ranks
  PROVE  /\ Typed /\ Batch /\ RankInv(r) /\ Len(chunks) \in Nat \ {0}
         /\ ci[r] \in 1 .. Len(chunks) /\ ci[r] \in Nat
         /\ GoodChunk(chunks[ci[r]]) /\ Continues(chunks, ci[r])
<1>1. Typed /\ Batch /\ RankInv(r)
  BY DEF Inv, Pass
<1>2. ci[r] \in 1 .. Len(chunks)
  BY <1>1 DEF RankInv, Place
<1>3. QED
  BY <1>1, <1>2, ChunkFacts

\* Rows that are scored stay so.
LEMMA SelectedStays ==
  ASSUME NEW r \in Ranks, Selected(r), UNCHANGED <<ties, ctx, len, chunks, score>>,
         topk'[r] = topk[r], ci'[r] = ci[r], pc'[r] # "attend"
  PROVE  Selected(r)'
<1>1. \A k \in 1 .. Len(chunks) : Scored(r, k)' = Scored(r, k)
  BY SameBatch DEF Scored
<1>2. QED
  BY <1>1 DEF Selected

LEMMA InsertKeysStep ==
  ASSUME Inv, NEW r \in Ranks, InsertKeys(r)
  PROVE  Inv'
<1>1. /\ phase = "running" /\ pc[r] = "insert"
      /\ held' = [held EXCEPT ![r] = [q \in 1 .. MaxReqs |-> IF q <= Len(len) THEN len[q] ELSE 0]]
      /\ pc' = [pc EXCEPT ![r] = "chunk"]
      /\ UNCHANGED <<ties, phase, ctx, len, chunks, score, ci, arena, kqAll, ksAll, topk, out>>
  BY DEF InsertKeys, At, Goto
<1>2. /\ Typed /\ Batch /\ RankInv(r) /\ ci[r] = 1 /\ ci[r] \in 1 .. Len(chunks)
      /\ pc \in [Ranks -> PCs] /\ held \in [Ranks -> [1 .. MaxReqs -> 0 .. MaxLen]]
  BY <1>1, RankFacts DEF RankInv, Place, Typed
<1> DEFINE new == [q \in 1 .. MaxReqs |-> IF q <= Len(len) THEN len[q] ELSE 0]
<1>3. new \in [1 .. MaxReqs -> 0 .. MaxLen] /\ \A q \in 1 .. Len(len) : new[q] = len[q]
  <2>1. ASSUME NEW q \in 1 .. MaxReqs PROVE (IF q <= Len(len) THEN len[q] ELSE 0) \in 0 .. MaxLen
    <3>1. CASE q <= Len(len)
      <4>1. q \in 1 .. Len(len)
        BY <1>2, <3>1, BatchFacts
      <4>2. QED
        BY <1>2, <3>1, <4>1, BatchFacts
    <3>2. CASE ~ (q <= Len(len))
      BY <3>2, ConstantTypes
    <3>3. QED
      BY <3>1, <3>2
  <2>2. ASSUME NEW q \in 1 .. Len(len) PROVE new[q] = len[q]
    <3>1. q \in 1 .. MaxReqs /\ q <= Len(len)
      BY <1>2, BatchFacts
    <3>2. QED
      BY <3>1
  <2>3. QED
    BY <2>1, <2>2
<1> HIDE DEF new
<1>4. /\ pc'[r] = "chunk" /\ held'[r] = new
      /\ \A s \in Ranks \ {r} : pc'[s] = pc[s] /\ held'[s] = held[s]
      /\ pc' \in [Ranks -> PCs] /\ held' \in [Ranks -> [1 .. MaxReqs -> 0 .. MaxLen]]
  BY <1>1, <1>2, <1>3 DEF PCs, new
<1>5. Typed'
  BY <1>1, <1>2, <1>4 DEF Typed
<1>6. RankInv(r)'
  <2>1. Place(r)' /\ Inserted(r)' /\ Staged(r)' /\ Kept(r)' /\ Gathered(r)'
    BY <1>1, <1>2, <1>3, <1>4 DEF Place, Inserted, Staged, Kept, Gathered
  <2>2. Selected(r)'
    BY <1>1, <1>2, <1>4, SelectedStays DEF RankInv
  <2>3. QED
    BY <2>1, <2>2 DEF RankInv
<1>7. QuantDone(r)' = QuantDone(r) /\ ScaleDone(r)' = ScaleDone(r)
  BY <1>1, <1>4 DEF QuantDone, ScaleDone
<1>8. Alone(r)
  BY <1>1, <1>4 DEF Alone
<1>9. QED
  BY <1>1, <1>5, <1>6, <1>7, <1>8, RankAlone

\* A shard into which the batch is inserted has all its rows of a chunk.
LEMMA ShardIsFull ==
  ASSUME Batch, NEW r \in Ranks, NEW ch, GoodChunk(ch),
         \A q \in 1 .. Len(len) : held[r][q] = len[q]
  PROVE  ShardRows(r, ch) = FullRows(r, ch)
<1> DEFINE part(q) == [c \in 1 .. LocalLen(r, q) |-> Shard(r, q, c - 1)]
           full(q) == [c \in 1 .. LocalLen(r, q) |-> <<q, GlobalPos(r, c - 1)>>]
           n == ch.hi - ch.lo + 1
<1>1. \A k \in 1 .. n : ch.lo + k - 1 \in 1 .. Len(len)
  BY ChunkRange
<1>2. ASSUME NEW q \in 1 .. Len(len) PROVE part(q) = full(q)
  <2>1. ASSUME NEW c \in 1 .. LocalLen(r, q) PROVE Shard(r, q, c - 1) = <<q, GlobalPos(r, c - 1)>>
    <3>1. LocalLen(r, q) \in Nat /\ \A d \in Nat : d < LocalLen(r, q) <=> GlobalPos(r, d) < len[q]
      BY Share
    <3>2. c - 1 \in Nat /\ c - 1 < LocalLen(r, q)
      BY <3>1
    <3>3. GlobalPos(r, c - 1) < held[r][q]
      BY <3>1, <3>2
    <3>4. QED
      BY <3>3 DEF Shard
  <2>2. QED
    BY <2>1
<1>3. ShardRows(r, ch) = FlattenSeq([k \in 1 .. n |-> part(ch.lo + k - 1)])
  BY DEF ShardRows
<1>4. FullRows(r, ch) = FlattenSeq([k \in 1 .. n |-> full(ch.lo + k - 1)])
  BY DEF FullRows
<1> HIDE DEF part, full, n
<1>5. [k \in 1 .. n |-> part(ch.lo + k - 1)] = [k \in 1 .. n |-> full(ch.lo + k - 1)]
  BY <1>1, <1>2
<1>6. QED
  BY <1>3, <1>4, <1>5

LEMMA GatherShardStep ==
  ASSUME Inv, NEW r \in Ranks, GatherShard(r)
  PROVE  Inv'
<1> DEFINE ch == chunks[ci[r]]
           rows == FullRows(r, ch)
           new == Stored(arena[r], LocalCapacity, rows)
<1>1. /\ phase = "running" /\ pc[r] = "chunk" /\ ~ ch.skip
      /\ arena' = [arena EXCEPT ![r] = Stored(arena[r], LocalCapacity, ShardRows(r, ch))]
      /\ pc' = [pc EXCEPT ![r] = "gather_quant"]
      /\ UNCHANGED <<ties, phase, ctx, len, chunks, score, ci, held, kqAll, ksAll, topk, out>>
  BY DEF GatherShard, At, Goto, Stored
<1>2. /\ Typed /\ Batch /\ RankInv(r) /\ ci[r] \in 1 .. Len(chunks) /\ GoodChunk(ch)
      /\ pc \in [Ranks -> PCs] /\ arena \in [Ranks -> ArenaType]
      /\ \A q \in 1 .. Len(len) : held[r][q] = len[q]
  BY <1>1, RankFacts DEF RankInv, Inserted, Typed
<1>3. ShardRows(r, ch) = rows
  BY <1>2, ShardIsFull
<1>4. rows \in Seq(Row) /\ Len(rows) <= LocalCapacity /\ LocalCapacity \in Nat /\ LocalCapacity <= Capacity
  BY <1>2, ChunkFits, LocalFits
<1> HIDE DEF ch, rows
<1>5. Holds(new, LocalCapacity, rows) /\ new \in ArenaType
  BY <1>2, <1>4, StoredHolds, StoredTyped
<1> HIDE DEF new
<1>6. arena' = [arena EXCEPT ![r] = new]
  BY <1>1, <1>3 DEF new
<1>7. /\ pc'[r] = "gather_quant" /\ arena'[r] = new
      /\ \A s \in Ranks \ {r} : pc'[s] = pc[s] /\ arena'[s] = arena[s]
      /\ pc' \in [Ranks -> PCs] /\ arena' \in [Ranks -> ArenaType]
  BY <1>1, <1>2, <1>5, <1>6 DEF PCs
<1>8. Typed'
  BY <1>1, <1>2, <1>7 DEF Typed
<1>9. RankInv(r)'
  <2>1. Place(r)'
    BY <1>1, <1>2, <1>7 DEF Place, RankInv, ch
  <2>2. Inserted(r)' /\ Kept(r)' /\ Gathered(r)'
    BY <1>1, <1>2, <1>7 DEF Inserted, Kept, Gathered
  <2>3. Staged(r)'
    <3>1. FullRows(r, ch)' = FullRows(r, ch) /\ ch' = ch
      BY <1>1, SameBatch DEF ch
    <3>2. QED
      BY <1>1, <1>5, <1>7, <3>1, SameBatch DEF Staged, ch, rows
  <2>4. Selected(r)'
    BY <1>1, <1>2, <1>7, SelectedStays DEF RankInv
  <2>5. QED
    BY <2>1, <2>2, <2>3, <2>4 DEF RankInv
<1>10. QuantDone(r)' = QuantDone(r) /\ ScaleDone(r)' = ScaleDone(r)
  BY <1>1, <1>7 DEF QuantDone, ScaleDone
<1>11. Alone(r)
  BY <1>1, <1>7 DEF Alone
<1>12. QED
  BY <1>1, <1>8, <1>9, <1>10, <1>11, RankAlone

LEMMA ReuseKeysStep ==
  ASSUME Inv, NEW r \in Ranks, ReuseKeys(r)
  PROVE  Inv'
<1> DEFINE k == ci[r]
<1>1. /\ phase = "running" /\ pc[r] = "chunk" /\ chunks[k].skip
      /\ pc' = [pc EXCEPT ![r] = "logits"]
      /\ UNCHANGED <<ties, phase, ctx, len, chunks, score, ci, held, arena, kqAll, ksAll, topk, out>>
  BY DEF ReuseKeys, At, Goto
<1>2. /\ Typed /\ RankInv(r) /\ k \in 1 .. Len(chunks) /\ Continues(chunks, k)
      /\ pc \in [Ranks -> PCs]
  BY <1>1, RankFacts DEF Typed
<1>3. /\ pc'[r] = "logits"
      /\ \A s \in Ranks \ {r} : pc'[s] = pc[s]
      /\ pc' \in [Ranks -> PCs]
  BY <1>1, <1>2 DEF PCs
<1>4. k # 1 /\ chunks[k].lo = chunks[k - 1].lo /\ chunks[k].hi = chunks[k - 1].hi
  BY <1>1, <1>2 DEF Continues
<1>5. GlobalKeys(chunks[k]) = GlobalKeys(chunks[k - 1])
  BY <1>4 DEF GlobalKeys
<1>6. Typed'
  BY <1>1, <1>2, <1>3 DEF Typed
<1>7. RankInv(r)'
  <2>1. Place(r)' /\ Inserted(r)' /\ Staged(r)' /\ Gathered(r)'
    BY <1>1, <1>2, <1>3 DEF RankInv, Place, Inserted, Staged, Gathered
  <2>2. Kept(r)'
    <3>1. Holds(arena[r], Capacity, GlobalKeys(chunks[k]))
      BY <1>1, <1>2, <1>4, <1>5 DEF RankInv, Kept
    <3>2. QED
      BY <1>1, <1>3, <3>1, SameBatch DEF Kept
  <2>3. Selected(r)'
    BY <1>1, <1>2, <1>3, SelectedStays DEF RankInv
  <2>4. QED
    BY <2>1, <2>2, <2>3 DEF RankInv
<1>8. QuantDone(r)' = QuantDone(r) /\ ScaleDone(r)' = ScaleDone(r)
  BY <1>1, <1>3 DEF QuantDone, ScaleDone
<1>9. Alone(r)
  BY <1>1, <1>3 DEF Alone
<1>10. QED
  BY <1>1, <1>6, <1>7, <1>8, <1>9, RankAlone

LEMMA ReassembleStep ==
  ASSUME Inv, NEW r \in Ranks, Reassemble(r)
  PROVE  Inv'
<1> DEFINE ch == chunks[ci[r]]
           keys == GlobalKeys(ch)
           new == Stored(arena[r], Capacity, keys)
           pick(rows) == [g \in 1 .. Len(ReasmIdx(ch)) |-> rows[ReasmIdx(ch)[g]]]
<1>1. /\ phase = "running" /\ pc[r] = "reassemble"
      /\ arena' = [arena EXCEPT ![r] = PutScale(PutQuant(arena[r], pick(kqAll)), Capacity, pick(ksAll))]
      /\ pc' = [pc EXCEPT ![r] = "logits"]
      /\ UNCHANGED <<ties, phase, ctx, len, chunks, score, ci, held, kqAll, ksAll, topk, out>>
  BY DEF Reassemble, At, Goto
<1>2. /\ Typed /\ Batch /\ RankInv(r) /\ ci[r] \in 1 .. Len(chunks) /\ GoodChunk(ch)
      /\ pc \in [Ranks -> PCs] /\ arena \in [Ranks -> ArenaType]
      /\ kqAll = Concat(ch) /\ ksAll = Concat(ch)
  BY <1>1, RankFacts DEF RankInv, Gathered, Typed
<1>3. pick(kqAll) = keys /\ pick(ksAll) = keys
  BY <1>2, Reassembled
<1>4. keys \in Seq(Row) /\ Len(keys) <= Capacity /\ Capacity \in Nat /\ Capacity <= Capacity
  BY <1>2, ChunkFits, LocalFits
<1> HIDE DEF ch, keys, pick
<1>5. Holds(new, Capacity, keys) /\ new \in ArenaType
  BY <1>2, <1>4, StoredHolds, StoredTyped
<1>6. arena' = [arena EXCEPT ![r] = new]
  BY <1>1, <1>3 DEF Stored
<1> HIDE DEF new
<1>7. /\ pc'[r] = "logits" /\ arena'[r] = new
      /\ \A s \in Ranks \ {r} : pc'[s] = pc[s] /\ arena'[s] = arena[s]
      /\ pc' \in [Ranks -> PCs] /\ arena' \in [Ranks -> ArenaType]
  BY <1>1, <1>2, <1>5, <1>6 DEF PCs
<1>8. Typed'
  BY <1>1, <1>2, <1>7 DEF Typed
<1>9. RankInv(r)'
  <2>1. Place(r)' /\ Inserted(r)' /\ Staged(r)' /\ Gathered(r)'
    BY <1>1, <1>2, <1>7 DEF RankInv, Place, Inserted, Staged, Gathered
  <2>2. Kept(r)'
    BY <1>1, <1>5, <1>7, SameBatch DEF Kept, ch, keys
  <2>3. Selected(r)'
    BY <1>1, <1>2, <1>7, SelectedStays DEF RankInv
  <2>4. QED
    BY <2>1, <2>2, <2>3 DEF RankInv
<1>10. QuantDone(r)' = QuantDone(r) /\ ScaleDone(r)' = ScaleDone(r)
  BY <1>1, <1>7 DEF QuantDone, ScaleDone
<1>11. Alone(r)
  BY <1>1, <1>7 DEF Alone
<1>12. QED
  BY <1>1, <1>8, <1>9, <1>10, <1>11, RankAlone

\* The rows of rank r once those of the chunk it is at have the selections sel.
Picked(sel, r) ==
  [q \in 1 .. MaxReqs |-> [p \in Pos |->
     IF <<q, p>> \in Range(ChunkRows(chunks[ci[r]])) THEN OwnedMask(sel[<<q, p>>], r)
     ELSE topk[r][q][p]]]

\* Rank r leaves the rows of its chunk masked selections.
MayPick(sel, r) ==
  /\ \A q, p : <<q, p>> \in Range(ChunkRows(chunks[ci[r]])) => sel[<<q, p>>] \in Best(q, p)
  /\ topk' = [topk EXCEPT ![r] = Picked(sel, r)]

\* What a rank leaves for the rows of the chunk it scores.
LEMMA ScoredChunk ==
  ASSUME Inv, NEW r \in Ranks, At(r, "logits"), ScoreChunk(r)
  PROVE  \E sel : MayPick(sel, r)
<1> DEFINE ch == chunks[ci[r]]
           keys == GlobalKeys(ch)
           rows == Range(ChunkRows(ch))
           quant == GetQuant(arena[r], Total(ch))
           scale == GetScale(arena[r], Capacity, Total(ch))
           may == [x \in rows |-> KernelTopK(quant, scale, RowStart(ch, x[1]), x[2])]
<1>1. /\ Batch /\ GoodChunk(ch) /\ Holds(arena[r], Capacity, keys) /\ score \in ScoreTables
  BY RankFacts DEF RankInv, Kept, At, Typed
<1>2. Len(keys) = Total(ch)
  BY <1>1, ChunkFits
<1>3. quant = keys /\ scale = keys
  BY <1>1, <1>2 DEF Holds
<1>4. PICK sel \in Answers(may) :
        topk' = [topk EXCEPT ![r] = [q \in 1 .. MaxReqs |-> [p \in Pos |->
                   IF <<q, p>> \in rows THEN OwnedMask(sel[<<q, p>>], r) ELSE topk[r][q][p]]]]
  BY DEF ScoreChunk
<1> HIDE DEF keys, quant, scale
<1>5. ASSUME NEW q, NEW p, <<q, p>> \in rows PROVE sel[<<q, p>>] \in Best(q, p)
  <2>1. q \in ch.lo .. ch.hi /\ p \in ctx[q] .. len[q] - 1
    BY <1>1, <1>5, RowsOfChunk
  <2>2. q \in 1 .. Len(len)
    BY <1>1, <2>1, ChunkRange
  <2>3. p \in 0 .. len[q] - 1 /\ p \in Pos /\ q \in 1 .. MaxReqs
    <3>1. /\ q \in 1 .. MaxReqs /\ len[q] \in Nat /\ len[q] <= MaxLen /\ MaxLen \in Nat
          /\ ctx[q] \in Nat
      BY <1>1, <2>2, BatchFacts
    <3>2. QED
      BY <2>1, <3>1 DEF Pos
  <2>4. KernelTopK(keys, keys, RowStart(ch, q), p) = Best(q, p)
    BY <1>1, <2>1, <2>3, KernelBest DEF keys
  <2> DEFINE x == <<q, p>>
  <2>5. x \in rows /\ x[1] = q /\ x[2] = p
    BY <1>5
  <2> HIDE DEF x, rows
  <2>6. may[x] = Best(q, p) /\ DOMAIN may = rows
    BY <1>3, <2>4, <2>5
  <2>7. Best(q, p) # {}
    BY <1>1, <2>3, BestIs
  <2> HIDE DEF may
  <2>8. sel[x] \in may[x]
    BY <2>5, <2>6, <2>7, AnswersChoice
  <2>9. QED
    BY <2>6, <2>8 DEF x
<1>6. topk' = [topk EXCEPT ![r] = Picked(sel, r)]
  BY <1>4 DEF Picked
<1>7. QED
  BY <1>5, <1>6 DEF MayPick

LEMMA ScoreChunkStep ==
  ASSUME Inv, NEW r \in Ranks, ScoreChunk(r)
  PROVE  Inv'
<1> DEFINE n == Len(chunks)
           last == ci[r]
           rows(k) == Range(ChunkRows(chunks[k]))
           more == last < n
<1>1. /\ At(r, "logits") /\ phase = "running" /\ pc[r] = "logits"
      /\ UNCHANGED <<ties, phase, ctx, len, chunks, score, held, arena, kqAll, ksAll, out>>
      /\ IF more THEN ci' = [ci EXCEPT ![r] = last + 1] /\ pc' = [pc EXCEPT ![r] = "chunk"]
                 ELSE ci' = ci /\ pc' = [pc EXCEPT ![r] = "attend"]
  BY DEF ScoreChunk, At, NextChunk, Goto
<1>s. PICK sel : MayPick(sel, r)
  BY <1>1, ScoredChunk
<1> DEFINE new == Picked(sel, r)
<1>2. topk' = [topk EXCEPT ![r] = new]
  BY <1>s DEF MayPick
<1>3. /\ Typed /\ Batch /\ RankInv(r) /\ last \in 1 .. n /\ n \in Nat /\ score \in ScoreTables
      /\ pc \in [Ranks -> PCs] /\ ci \in [Ranks -> 0 .. n]
      /\ topk \in [Ranks -> [1 .. MaxReqs -> [Pos -> Picks]]]
  BY <1>1, RankFacts DEF Typed
<1>4. new \in [1 .. MaxReqs -> [Pos -> Picks]]
  <2>1. ASSUME NEW q \in 1 .. MaxReqs, NEW p \in Pos, <<q, p>> \in rows(last)
        PROVE  OwnedMask(sel[<<q, p>>], r) \in Picks
    <3>1. sel[<<q, p>>] \in Best(q, p)
      BY <1>s, <2>1 DEF MayPick
    <3>2. sel[<<q, p>>] \subseteq 0 .. p
      BY <1>3, <3>1, BestIs
    <3>3. QED
      BY <3>2, MaskTyped
  <2>2. ASSUME NEW q \in 1 .. MaxReqs, NEW p \in Pos PROVE topk[r][q][p] \in Picks
    <3>1. topk[r] \in [1 .. MaxReqs -> [Pos -> Picks]]
      BY <1>3
    <3>2. topk[r][q] \in [Pos -> Picks]
      BY <3>1
    <3>3. QED
      BY <3>2
  <2>3. new = [q \in 1 .. MaxReqs |-> [p \in Pos |->
                 IF <<q, p>> \in rows(last) THEN OwnedMask(sel[<<q, p>>], r) ELSE topk[r][q][p]]]
    BY DEF Picked
  <2> HIDE DEF rows, new
  <2>4. QED
    BY <2>1, <2>2, <2>3
<1>5. \A q \in 1 .. MaxReqs, p \in Pos :
        /\ <<q, p>> \in rows(last) => \E S \in Best(q, p) : new[q][p] = OwnedMask(S, r)
        /\ ~ (<<q, p>> \in rows(last)) => new[q][p] = topk[r][q][p]
  <2>1. \A q \in 1 .. MaxReqs, p \in Pos :
          new[q][p] = IF <<q, p>> \in rows(last) THEN OwnedMask(sel[<<q, p>>], r) ELSE topk[r][q][p]
    BY DEF Picked
  <2>2. \A q \in 1 .. MaxReqs, p \in Pos : <<q, p>> \in rows(last) => sel[<<q, p>>] \in Best(q, p)
    BY <1>s DEF MayPick
  <2> HIDE DEF rows, new
  <2>3. QED
    BY <2>1, <2>2
<1> HIDE DEF new, rows, n, last
<1>6. /\ \A s \in Ranks \ {r} : pc'[s] = pc[s] /\ ci'[s] = ci[s] /\ topk'[s] = topk[s]
      /\ topk'[r] = new /\ topk' \in [Ranks -> [1 .. MaxReqs -> [Pos -> Picks]]]
  BY <1>1, <1>2, <1>3, <1>4
<1>7. /\ pc' \in [Ranks -> PCs] /\ ci' \in [Ranks -> 0 .. n]
      /\ more => ci'[r] = last + 1 /\ pc'[r] = "chunk"
      /\ ~ more => ci'[r] = last /\ last = n /\ pc'[r] = "attend"
  <2>1. CASE more
    <3>1. last + 1 \in 0 .. n
      BY <1>3, <2>1
    <3>2. ci' = [ci EXCEPT ![r] = last + 1] /\ pc' = [pc EXCEPT ![r] = "chunk"]
      BY <1>1, <2>1
    <3>3. QED
      BY <1>3, <2>1, <3>1, <3>2 DEF PCs
  <2>2. CASE ~ more
    <3>1. ci' = ci /\ pc' = [pc EXCEPT ![r] = "attend"]
      BY <1>1, <2>2
    <3>2. last = n
      BY <1>3, <2>2
    <3>3. QED
      BY <1>3, <2>2, <3>1, <3>2 DEF PCs, last
  <2>3. QED
    BY <2>1, <2>2
<1>8. Typed'
  BY <1>1, <1>3, <1>6, <1>7 DEF Typed, n
<1>9. RankInv(r)'
  <2>1. Place(r)' /\ Inserted(r)' /\ Staged(r)' /\ Gathered(r)'
    <3>1. Place(r)'
      BY <1>1, <1>3, <1>7 DEF RankInv, Place, n
    <3>2. Inserted(r)' /\ Staged(r)' /\ Gathered(r)'
      BY <1>1, <1>3, <1>7 DEF RankInv, Inserted, Staged, Gathered
    <3>3. QED
      BY <3>1, <3>2
  <2>2. Kept(r)'
    <3>1. Holds(arena[r], Capacity, GlobalKeys(chunks[last]))
      BY <1>1, <1>3 DEF RankInv, Kept, last
    <3>2. more => ci'[r] - 1 = last
      BY <1>3, <1>7
    <3>3. pc'[r] # "logits" /\ (pc'[r] = "chunk" => ci'[r] - 1 = last)
      BY <1>7, <3>2
    <3>4. QED
      BY <1>1, <3>1, <3>3, SameBatch DEF Kept
  <2>3. Selected(r)'
    <3>1. ASSUME NEW k \in 1 .. n, k < ci'[r] \/ pc'[r] = "attend"
          PROVE  k < last \/ k = last
      BY <1>3, <1>7, <3>1
    <3>2. ASSUME NEW k \in 1 .. n, k < last \/ k = last PROVE Scored(r, k)'
      <4>1. \A q \in 1 .. MaxReqs, p \in Pos :
              <<q, p>> \in rows(k) => \E S \in Best(q, p) : new[q][p] = OwnedMask(S, r)
        <5>1. CASE k = last
          BY <1>5, <5>1
        <5>2. CASE k < last
          <6>1. \A q \in 1 .. MaxReqs, p \in Pos :
                  <<q, p>> \in rows(k) => \E S \in Best(q, p) : topk[r][q][p] = OwnedMask(S, r)
            BY <1>3, <5>2 DEF RankInv, Selected, Scored, rows, n, last
          <6>2. QED
            BY <1>5, <6>1
        <5>3. QED
          BY <3>2, <5>1, <5>2
      <4>2. QED
        BY <1>1, <1>6, <4>1, SameBatch DEF Scored, rows
    <3>3. QED
      BY <1>1, <3>1, <3>2 DEF Selected, n
  <2>4. QED
    BY <2>1, <2>2, <2>3 DEF RankInv
<1>10. QuantDone(r)' = QuantDone(r) /\ ScaleDone(r)' = ScaleDone(r)
  <2>1. \A k \in 1 .. n : k \in Int /\ (k <= n)
    BY <1>3
  <2>2. \A k \in 1 .. n : (k < ci'[r] \/ pc'[r] = "attend") <=> (k < last \/ k = last)
    BY <1>3, <1>7
  <2>3. \A k \in 1 .. n : k = ci'[r] => pc'[r] \notin {"gather_scale", "reassemble", "logits"}
    BY <1>7
  <2>4. QuantDone(r)' = { k \in 1 .. n : ~ chunks[k].skip /\ (k < last \/ k = last) }
    BY <1>1, <2>2, <2>3 DEF QuantDone, n
  <2>5. ScaleDone(r)' = { k \in 1 .. n : ~ chunks[k].skip /\ (k < last \/ k = last) }
    BY <1>1, <2>2, <2>3 DEF ScaleDone, n
  <2>6. QuantDone(r) = { k \in 1 .. n : ~ chunks[k].skip /\ (k < last \/ k = last) }
    BY <1>1 DEF QuantDone, n, last
  <2>7. ScaleDone(r) = { k \in 1 .. n : ~ chunks[k].skip /\ (k < last \/ k = last) }
    BY <1>1 DEF ScaleDone, n, last
  <2>8. QED
    BY <2>4, <2>5, <2>6, <2>7
<1>11. Alone(r)
  BY <1>1, <1>6 DEF Alone
<1>12. QED
  BY <1>1, <1>8, <1>9, <1>10, <1>11, RankAlone

\* Ranks that wait in collectives wait in the same one of the same chunk.
LEMMA SameCollective ==
  ASSUME Inv, phase = "running", NEW r \in Ranks, NEW s \in Ranks,
         pc[r] \in {"gather_quant", "gather_scale"}, pc[s] \in {"gather_quant", "gather_scale"}
  PROVE  ci[r] = ci[s] /\ pc[r] = pc[s]
<1>1. ASSUME NEW t \in Ranks, pc[t] \in {"gather_quant", "gather_scale"}
      PROVE  ci[t] \in 1 .. Len(chunks) /\ ci[t] \in Nat /\ ~ chunks[ci[t]].skip
  BY <1>1, RankFacts DEF RankInv, Place
<1>2. QuantDone(r) = QuantDone(s) /\ ScaleDone(r) = ScaleDone(s)
  BY DEF Inv, InStep
<1>3. ASSUME NEW t \in Ranks, NEW u \in Ranks, ScaleDone(t) = ScaleDone(u),
             pc[t] \in {"gather_quant", "gather_scale"}, pc[u] \in {"gather_quant", "gather_scale"},
             ci[t] < ci[u]
      PROVE  FALSE
  <2>1. ci[t] \in ScaleDone(u)
    BY <1>1, <1>3 DEF ScaleDone
  <2>2. ci[t] \notin ScaleDone(t)
    BY <1>1, <1>3 DEF ScaleDone
  <2>3. QED
    BY <1>3, <2>1, <2>2
<1>4. ci[r] = ci[s]
  <2>1. ~ (ci[r] < ci[s]) /\ ~ (ci[s] < ci[r])
    BY <1>2, <1>3
  <2>2. ci[r] \in Nat /\ ci[s] \in Nat
    BY <1>1
  <2>3. QED
    BY <2>1, <2>2
<1>5. ASSUME NEW t \in Ranks, NEW u \in Ranks, QuantDone(t) = QuantDone(u), ci[t] = ci[u],
             pc[t] = "gather_quant", pc[u] = "gather_scale"
      PROVE  FALSE
  <2>1. ci[u] \in QuantDone(u)
    BY <1>1, <1>5 DEF QuantDone
  <2>2. ci[t] \notin QuantDone(t)
    BY <1>1, <1>5 DEF QuantDone
  <2>3. QED
    BY <1>5, <2>1, <2>2
<1>6. QED
  BY <1>2, <1>4, <1>5

\* Ranks at the same chunk bring what the others expect, and it fits.
LEMMA SameAgrees ==
  ASSUME Inv, phase = "running", \A r, s \in Ranks : ci[r] = ci[s]
  PROVE  Agreed
<1>1. ASSUME NEW r \in Ranks, NEW s \in Ranks
      PROVE  /\ LocalTotal(chunks[ci[r]], r) <= LocalCapacity
             /\ LocalTotal(chunks[ci[r]], r) = Sizes(chunks[ci[s]])[r]
  <2>1. Batch /\ GoodChunk(chunks[ci[r]])
    BY RankFacts
  <2>2. LocalTotal(chunks[ci[r]], r) <= LocalCapacity
    BY <2>1, ChunkFits
  <2>3. ci[r] = ci[s]
    OBVIOUS
  <2>4. QED
    BY <2>2, <2>3 DEF Sizes
<1>2. QED
  BY <1>1 DEF Agreed

LEMMA AllGathervQuantStep ==
  ASSUME Inv, AllGathervQuant
  PROVE  Inv'
<1> DEFINE mine(r) == GetQuant(arena[r], LocalTotal(chunks[ci[r]], r))
<1>1. /\ \A r \in Ranks : phase = "running" /\ pc[r] = "gather_quant"
      /\ kqAll' = FlattenSeq([k \in 1 .. N |-> mine(k - 1)])
      /\ pc' = [r \in Ranks |-> "gather_scale"]
      /\ UNCHANGED <<ties, phase, ctx, len, chunks, score, ci, held, arena, ksAll, topk, out>>
  BY DEF AllGathervQuant, At, RankMajor
<1>0. 0 \in Ranks
  BY DEF Ranks
<1>2. phase = "running"
  BY <1>0, <1>1
<1>3. \A r, s \in Ranks : ci[r] = ci[s]
  BY <1>1, <1>2, SameCollective
<1>4. Typed /\ Batch /\ InStep /\ \A r \in Ranks : RankInv(r) /\ GoodChunk(chunks[ci[r]])
  BY <1>0, <1>2, RankFacts DEF Inv
<1>5. ASSUME NEW s \in Ranks PROVE kqAll' = Concat(chunks[ci[s]]) /\ kqAll' \in Seq(Row)
  <2> DEFINE ch == chunks[ci[s]]
  <2>1. ASSUME NEW r \in Ranks PROVE mine(r) = FullRows(r, ch)
    <3>1. ci[r] = ci[s]
      BY <1>3
    <3>2. Holds(arena[r], LocalCapacity, FullRows(r, chunks[ci[r]]))
      BY <1>1, <1>4 DEF RankInv, Staged
    <3>3. Len(FullRows(r, ch)) = LocalTotal(ch, r)
      BY <1>4, ChunkFits
    <3>4. QED
      BY <3>1, <3>2, <3>3 DEF Holds
  <2>2. Concat(ch) \in Seq(Row)
    BY <1>4, ConcatLaid DEF LaidOut
  <2> HIDE DEF mine, ch
  <2>3. \A k \in 1 .. N : mine(k - 1) = FullRows(k - 1, ch)
    BY <2>1, \A k \in 1 .. N : k - 1 \in Ranks DEF Ranks
  <2>4. [k \in 1 .. N |-> mine(k - 1)] = [k \in 1 .. N |-> FullRows(k - 1, ch)]
    BY <2>3
  <2>5. QED
    BY <1>1, <2>2, <2>4 DEF Concat, ch
<1> HIDE DEF mine
<1>6. \A r \in Ranks : pc'[r] = "gather_scale"
  BY <1>1
<1>7. Typed'
  <2>1. pc' \in [Ranks -> PCs]
    BY <1>1 DEF PCs
  <2>2. QED
    BY <1>0, <1>1, <1>4, <1>5, <2>1 DEF Typed
<1>8. Pass'
  BY <1>1, SameBatch DEF Inv, Pass
<1>9. ASSUME NEW r \in Ranks PROVE RankInv(r)'
  <2>0. pc[r] = "gather_quant" /\ pc'[r] = "gather_scale"
    BY <1>1, <1>6
  <2>1. Place(r)' /\ Inserted(r)' /\ Kept(r)'
    BY <1>1, <1>4, <2>0 DEF RankInv, Place, Inserted, Kept
  <2>2. Staged(r)'
    BY <1>1, <1>4, <2>0, SameBatch DEF RankInv, Staged
  <2>3. Gathered(r)'
    BY <1>1, <1>5, <2>0, SameBatch DEF Gathered
  <2>4. Selected(r)'
    BY <1>1, <1>4, <2>0, SelectedStays DEF RankInv
  <2>5. QED
    BY <2>1, <2>2, <2>3, <2>4 DEF RankInv
<1>10. InStep'
  <2>1. ASSUME NEW r \in Ranks, NEW s \in Ranks
        PROVE  QuantDone(r)' = QuantDone(s)' /\ ScaleDone(r)' = ScaleDone(s)'
    <3>1. ci'[r] = ci'[s] /\ pc'[r] = pc'[s]
      BY <1>1, <1>3, <1>6
    <3>2. QED
      BY <3>1 DEF QuantDone, ScaleDone
  <2>2. QED
    BY <2>1 DEF InStep
<1>11. QED
  BY <1>1, <1>2, <1>7, <1>8, <1>9, <1>10 DEF Inv

LEMMA AllGathervScaleStep ==
  ASSUME Inv, AllGathervScale
  PROVE  Inv'
<1> DEFINE mine(r) == GetScale(arena[r], LocalCapacity, LocalTotal(chunks[ci[r]], r))
<1>1. /\ \A r \in Ranks : phase = "running" /\ pc[r] = "gather_scale"
      /\ ksAll' = FlattenSeq([k \in 1 .. N |-> mine(k - 1)])
      /\ pc' = [r \in Ranks |-> "reassemble"]
      /\ UNCHANGED <<ties, phase, ctx, len, chunks, score, ci, held, arena, kqAll, topk, out>>
  BY DEF AllGathervScale, At, RankMajor
<1>0. 0 \in Ranks
  BY DEF Ranks
<1>2. phase = "running"
  BY <1>0, <1>1
<1>3. \A r, s \in Ranks : ci[r] = ci[s]
  BY <1>1, <1>2, SameCollective
<1>4. Typed /\ Batch /\ InStep /\ \A r \in Ranks : RankInv(r) /\ GoodChunk(chunks[ci[r]])
  BY <1>0, <1>2, RankFacts DEF Inv
<1>5. ASSUME NEW s \in Ranks PROVE ksAll' = Concat(chunks[ci[s]]) /\ ksAll' \in Seq(Row)
  <2> DEFINE ch == chunks[ci[s]]
  <2>1. ASSUME NEW r \in Ranks PROVE mine(r) = FullRows(r, ch)
    <3>1. ci[r] = ci[s]
      BY <1>3
    <3>2. Holds(arena[r], LocalCapacity, FullRows(r, chunks[ci[r]]))
      BY <1>1, <1>4 DEF RankInv, Staged
    <3>3. Len(FullRows(r, ch)) = LocalTotal(ch, r)
      BY <1>4, ChunkFits
    <3>4. QED
      BY <3>1, <3>2, <3>3 DEF Holds
  <2>2. Concat(ch) \in Seq(Row)
    BY <1>4, ConcatLaid DEF LaidOut
  <2> HIDE DEF mine, ch
  <2>3. \A k \in 1 .. N : mine(k - 1) = FullRows(k - 1, ch)
    BY <2>1, \A k \in 1 .. N : k - 1 \in Ranks DEF Ranks
  <2>4. [k \in 1 .. N |-> mine(k - 1)] = [k \in 1 .. N |-> FullRows(k - 1, ch)]
    BY <2>3
  <2>5. QED
    BY <1>1, <2>2, <2>4 DEF Concat, ch
<1> HIDE DEF mine
<1>6. \A r \in Ranks : pc'[r] = "reassemble"
  BY <1>1
<1>7. Typed'
  <2>1. pc' \in [Ranks -> PCs]
    BY <1>1 DEF PCs
  <2>2. QED
    BY <1>0, <1>1, <1>4, <1>5, <2>1 DEF Typed
<1>8. Pass'
  BY <1>1, SameBatch DEF Inv, Pass
<1>9. ASSUME NEW r \in Ranks PROVE RankInv(r)'
  <2>0. pc[r] = "gather_scale" /\ pc'[r] = "reassemble"
    BY <1>1, <1>6
  <2>1. Place(r)' /\ Inserted(r)' /\ Staged(r)' /\ Kept(r)'
    BY <1>1, <1>4, <2>0 DEF RankInv, Place, Inserted, Staged, Kept
  <2>2. Gathered(r)'
    <3>1. kqAll = Concat(chunks[ci[r]])
      BY <1>4, <2>0 DEF RankInv, Gathered
    <3>2. QED
      BY <1>1, <1>5, <2>0, <3>1, SameBatch DEF Gathered
  <2>3. Selected(r)'
    BY <1>1, <1>4, <2>0, SelectedStays DEF RankInv
  <2>4. QED
    BY <2>1, <2>2, <2>3 DEF RankInv
<1>10. InStep'
  <2>1. ASSUME NEW r \in Ranks, NEW s \in Ranks
        PROVE  QuantDone(r)' = QuantDone(s)' /\ ScaleDone(r)' = ScaleDone(s)'
    <3>1. ci'[r] = ci'[s] /\ pc'[r] = pc'[s]
      BY <1>1, <1>3, <1>6
    <3>2. QED
      BY <3>1 DEF QuantDone, ScaleDone
  <2>2. QED
    BY <2>1 DEF InStep
<1>11. QED
  BY <1>1, <1>2, <1>7, <1>8, <1>9, <1>10 DEF Inv

\* What a shard reads is a key or Dead.
LEMMA ShardTyped ==
  ASSUME Typed, NEW r \in Ranks, NEW q \in 1 .. MaxReqs, NEW c \in Nat
  PROVE  Shard(r, q, c) \in Row
<1>1. held[r][q] \in 0 .. MaxLen
  <2>1. held[r] \in [1 .. MaxReqs -> 0 .. MaxLen]
    BY DEF Typed
  <2>2. QED
    BY <2>1
<1>2. GlobalPos(r, c) \in Nat
  BY SlotInverse
<1>3. CASE GlobalPos(r, c) < held[r][q]
  <2>1. GlobalPos(r, c) \in Pos
    BY <1>1, <1>2, <1>3, ConstantTypes DEF Pos
  <2>2. QED
    BY <1>3, <2>1 DEF Shard, Row, Keys
<1>4. CASE ~ (GlobalPos(r, c) < held[r][q])
  BY <1>4 DEF Shard, Row
<1>5. QED
  BY <1>3, <1>4

\* Every new row of the batch is scored when all chunks are.
LEMMA RowScored ==
  ASSUME Inv, phase = "running", NEW r \in Ranks, pc[r] = "attend",
         NEW q \in 1 .. Len(len), NEW p \in ctx[q] .. len[q] - 1
  PROVE  \E S \in Best(q, p) : topk[r][q][p] = OwnedMask(S, r)
<1>1. Batch /\ RankInv(r)
  BY RankFacts
<1>2. /\ q \in 1 .. MaxReqs /\ len[q] \in Nat /\ len[q] <= MaxLen /\ MaxLen \in Nat
      /\ ctx[q] \in Nat /\ NewRows[q] = len[q] - ctx[q]
  BY <1>1, BatchFacts
<1> DEFINE x == p - ctx[q] + 1
<1>3. x \in 1 .. NewRows[q] /\ ctx[q] + x - 1 = p
  BY <1>2
<1>4. p \in Pos
  BY <1>2 DEF Pos
<1> HIDE DEF x
<1>5. PICK k \in 1 .. Len(chunks) : InChunk(chunks[k], NewRows, q, x)
  BY <1>1, <1>3 DEF Batch, Covers
<1>6. GoodChunk(chunks[k])
  BY <1>1, ChunkFacts
<1>7. <<q, ctx[q] + x - 1>> \in Range(ChunkRows(chunks[k]))
  BY <1>1, <1>3, <1>5, <1>6, RowsOfChunk
<1>8. Scored(r, k)
  BY <1>1 DEF RankInv, Selected
<1>9. QED
  BY <1>2, <1>3, <1>4, <1>7, <1>8 DEF Scored

LEMMA AttendStep ==
  ASSUME Inv, Attend
  PROVE  Inv'
<1>1. /\ \A r \in Ranks : phase = "running" /\ pc[r] = "attend"
      /\ out' = [r \in Ranks |-> [q \in 1 .. MaxReqs |-> [p \in Pos |-> Reads(r, q, p)]]]
      /\ phase' = "attended"
      /\ UNCHANGED <<ties, ctx, len, chunks, score, pc, ci, held, arena, kqAll, ksAll, topk>>
  BY DEF Attend, At
<1>0. 0 \in Ranks
  BY DEF Ranks
<1>2. phase = "running" /\ Typed /\ Batch /\ score \in ScoreTables
  BY <1>0, <1>1, RankFacts DEF Typed
<1>3. ASSUME NEW r \in Ranks, NEW q \in 1 .. MaxReqs, NEW p \in Pos PROVE Reads(r, q, p) \in Seens
  <2>1. topk[r] \in [1 .. MaxReqs -> [Pos -> Picks]]
    BY <1>2 DEF Typed
  <2>2. topk[r][q] \in [Pos -> Picks]
    BY <2>1
  <2>3. IsOfPos(topk[r][q][p], Nat)
    BY <2>2, OfPos
  <2>4. \A x \in DOMAIN topk[r][q][p] : x \in Pos /\ topk[r][q][p][x] \in Nat
    BY <2>3 DEF IsOfPos
  <2>5. \A x \in DOMAIN topk[r][q][p] : Shard(r, q, topk[r][q][p][x]) \in Row
    BY <1>2, <2>4, ShardTyped
  <2>6. IsOfPos(Reads(r, q, p), Row)
    BY <2>4, <2>5 DEF Reads, IsOfPos
  <2>7. QED
    BY <2>6, OfPos
<1>4. ASSUME NEW r \in Ranks, NEW q \in 1 .. Len(len), NEW p \in ctx[q] .. len[q] - 1
      PROVE  /\ q \in 1 .. MaxReqs /\ p \in Pos
             /\ \E S \in Best(q, p) : Reads(r, q, p) = OwnKeys(S, r, q)
  <2>1. q \in 1 .. MaxReqs /\ len[q] \in Nat /\ len[q] <= MaxLen /\ MaxLen \in Nat /\ ctx[q] \in Nat
    BY <1>2, BatchFacts
  <2>2. p \in Pos /\ \A x \in 0 .. p : x \in 0 .. len[q] - 1
    BY <2>1 DEF Pos
  <2>3. PICK S \in Best(q, p) : topk[r][q][p] = OwnedMask(S, r)
    BY <1>1, <1>2, RowScored
  <2>4. S \subseteq 0 .. len[q] - 1
    BY <1>2, <2>1, <2>2, BestIs
  <2>5. held[r][q] = len[q]
    BY <1>1, <1>2, RankFacts DEF RankInv, Inserted
  <2>6. Reads(r, q, p) = OwnKeys(S, r, q)
    BY <2>1, <2>3, <2>4, <2>5, ReadsOwned
  <2>7. QED
    BY <2>1, <2>2, <2>6
<1>5. Typed'
  <2>1. out' \in [Ranks -> [1 .. MaxReqs -> [Pos -> Seens]]]
    BY <1>1, <1>3
  <2>2. QED
    BY <1>1, <1>2, <2>1 DEF Typed
<1>6. Pass'
  BY <1>1, <1>2, SameBatch DEF Pass
<1>7. Answered'
  <2>1. ASSUME NEW r \in Ranks, NEW q \in 1 .. Len(len), NEW p \in ctx[q] .. len[q] - 1
        PROVE  \E S \in Best(q, p)' : out'[r][q][p] = OwnKeys(S, r, q)
    <3>1. out'[r][q][p] = Reads(r, q, p)
      BY <1>1, <1>4
    <3>2. Best(q, p)' = Best(q, p)
      BY <1>1, SameBatch
    <3>3. QED
      BY <1>4, <3>1, <3>2
  <2>2. QED
    BY <1>1, <2>1 DEF Answered, OwnKeys
<1>8. QED
  BY <1>1, <1>5, <1>6, <1>7 DEF Inv

\* Empty tensors and an arena with no keys.
LEMMA EmptyTyped ==
  /\ [r \in Ranks |-> Nowhere] \in [Ranks -> ArenaType]
  /\ [r \in Ranks |-> NoRows] \in [Ranks -> [1 .. MaxReqs -> [Pos -> Picks]]]
  /\ [r \in Ranks |-> NoRows] \in [Ranks -> [1 .. MaxReqs -> [Pos -> Seens]]]
  /\ [r \in Ranks |-> [q \in 1 .. MaxReqs |-> 0]] \in [Ranks -> [1 .. MaxReqs -> 0 .. MaxLen]]
<1>1. <<"none", Dead>> \in {"none", "quant", "scale"} \X Row
  BY DEF Row
<1>2. Nowhere \in ArenaType
  BY <1>1 DEF Nowhere, ArenaType
<1>3. 0 \in 0 .. MaxLen
  BY ConstantTypes
<1>4. /\ NoRows \in [1 .. MaxReqs -> [Pos -> Picks]]
      /\ NoRows \in [1 .. MaxReqs -> [Pos -> Seens]]
  <2>1. {} \in SUBSET Pos /\ <<>> \in [{} -> Nat] /\ <<>> \in [{} -> Row]
    OBVIOUS
  <2>2. <<>> \in Picks /\ <<>> \in Seens
    BY <2>1 DEF Picks, Seens
  <2>3. QED
    BY <2>2 DEF NoRows
<1>5. QED
  BY <1>2, <1>3, <1>4

LEMMA InitInv ==
  ASSUME Init
  PROVE  Inv
<1>1. Typed
  <2>1. pc \in [Ranks -> PCs]
    BY DEF Init, PCs
  <2>2. ci \in [Ranks -> 0 .. Len(chunks)]
    BY DEF Init
  <2>3. kqAll \in Seq(Row) /\ ksAll \in Seq(Row)
    BY DEF Init
  <2>4. QED
    BY <2>1, <2>2, <2>3, EmptyTyped DEF Init, Typed
<1>2. Pass
  BY DEF Init, Pass
<1>3. QED
  BY <1>1, <1>2 DEF Init, Inv

LEMMA FinishStep ==
  ASSUME Inv, Finish
  PROVE  Inv'
<1>1. Typed'
  <2>1. pc' \in [Ranks -> PCs]
    BY DEF Finish, PCs
  <2>2. ci' \in [Ranks -> 0 .. Len(chunks')]
    BY DEF Finish
  <2>3. kqAll' \in Seq(Row) /\ ksAll' \in Seq(Row)
    BY DEF Finish
  <2>4. score' \in ScoreTables /\ ties' \in {"any", "lowest"}
    BY DEF Finish, Inv, Typed
  <2>5. QED
    BY <2>1, <2>2, <2>3, <2>4, EmptyTyped DEF Finish, Typed
<1>2. Pass'
  BY DEF Finish, Pass
<1>3. QED
  BY <1>1, <1>2 DEF Finish, Inv

LEMMA IssueStep ==
  ASSUME Inv, Issue
  PROVE  Inv'
<1>1. PICK n \in 1 .. MaxReqs : \E c \in [1 .. n -> Pos], l \in [1 .. n -> 1 .. MaxLen] :
        /\ \A q \in 1 .. n : c[q] < l[q]
        /\ ctx' = c /\ len' = l /\ chunks' \in Plans(n, c, l)
        /\ held' = [r \in Ranks |-> [q \in 1 .. MaxReqs |-> IF q <= n THEN c[q] ELSE 0]]
  BY DEF Issue
<1>2. PICK c \in [1 .. n -> Pos], l \in [1 .. n -> 1 .. MaxLen] :
        /\ \A q \in 1 .. n : c[q] < l[q]
        /\ ctx' = c /\ len' = l /\ chunks' \in Plans(n, c, l)
        /\ held' = [r \in Ranks |-> [q \in 1 .. MaxReqs |-> IF q <= n THEN c[q] ELSE 0]]
  BY <1>1
<1>3. /\ score' \in ScoreTables /\ phase' = "running"
      /\ pc' = [r \in Ranks |-> "insert"] /\ ci' = [r \in Ranks |-> 1]
      /\ UNCHANGED <<ties, arena, kqAll, ksAll, topk, out>>
  BY DEF Issue
<1>4. n \in Nat \ {0} /\ MaxReqs \in Nat /\ MaxLen \in Nat \ {0}
  BY ConstantTypes
<1>5. Len(l) = n
  BY <1>4, FunctionIsSeq
<1>6. \A q \in 1 .. n : c[q] \in 0 .. MaxLen - 1 /\ l[q] \in 1 .. MaxLen /\ l[q] - c[q] \in Nat \ {0}
  <2>1. ASSUME NEW q \in 1 .. n
        PROVE  c[q] \in 0 .. MaxLen - 1 /\ l[q] \in 1 .. MaxLen /\ l[q] - c[q] \in Nat \ {0}
    <3>1. c[q] \in 0 .. MaxLen - 1 /\ l[q] \in 1 .. MaxLen /\ c[q] < l[q]
      BY <1>2 DEF Pos
    <3>2. QED
      BY <1>4, <3>1
  <2>2. QED
    BY <2>1
<1> DEFINE f == [q \in 1 .. n |-> l[q] - c[q]]
<1>7. NewRows' = f
  BY <1>2, <1>5 DEF NewRows
<1>8. Covers(chunks', n, f)
  BY <1>2, <1>4, <1>6, PlansCover
<1>9. Batch'
  BY <1>2, <1>5, <1>7, <1>8 DEF Batch
<1>10. Len(chunks') \in Nat /\ 1 \in 1 .. Len(chunks')
  <2>1. \A q \in 1 .. n : f[q] \in Nat \ {0}
    BY <1>6
  <2> HIDE DEF f
  <2>2. QED
    BY <1>4, <1>8, <2>1, CoversSome
<1>11. Typed'
  <2>1. pc' \in [Ranks -> PCs]
    BY <1>3 DEF PCs
  <2>2. ci' \in [Ranks -> 0 .. Len(chunks')]
    <3>1. 1 \in 0 .. Len(chunks')
      BY <1>10
    <3>2. QED
      BY <1>3, <3>1
  <2>3. held' \in [Ranks -> [1 .. MaxReqs -> 0 .. MaxLen]]
    <3>1. ASSUME NEW q \in 1 .. MaxReqs PROVE (IF q <= n THEN c[q] ELSE 0) \in 0 .. MaxLen
      <4>1. CASE q <= n
        <5>1. q \in 1 .. n
          BY <1>4, <4>1
        <5>2. c[q] \in 0 .. MaxLen - 1
          BY <1>6, <5>1
        <5>3. QED
          BY <1>4, <4>1, <5>2
      <4>2. CASE ~ (q <= n)
        BY <1>4, <4>2
      <4>3. QED
        BY <4>1, <4>2
    <3>2. QED
      BY <1>2, <3>1
  <2>4. QED
    BY <1>3, <2>1, <2>2, <2>3 DEF Inv, Typed
<1>12. Pass'
  BY <1>3, <1>9 DEF Pass
<1>13. ASSUME NEW r \in Ranks PROVE RankInv(r)'
  <2>1. pc'[r] = "insert" /\ ci'[r] = 1
    BY <1>3
  <2>2. Place(r)'
    BY <1>10, <2>1 DEF Place
  <2>3. Inserted(r)' /\ Staged(r)' /\ Kept(r)' /\ Gathered(r)'
    BY <2>1 DEF Inserted, Staged, Kept, Gathered
  <2>4. Selected(r)'
    <3>1. \A k \in 1 .. Len(chunks') : ~ (k < 1)
      BY <1>10
    <3>2. QED
      BY <2>1, <3>1 DEF Selected
  <2>5. QED
    BY <2>2, <2>3, <2>4 DEF RankInv
<1>14. InStep'
  <2>1. ASSUME NEW r \in Ranks, NEW s \in Ranks
        PROVE  QuantDone(r)' = QuantDone(s)' /\ ScaleDone(r)' = ScaleDone(s)'
    <3>1. ci'[r] = ci'[s] /\ pc'[r] = pc'[s]
      BY <1>3
    <3>2. QED
      BY <3>1 DEF QuantDone, ScaleDone
  <2>2. QED
    BY <2>1 DEF InStep
<1>15. QED
  BY <1>3, <1>11, <1>12, <1>13, <1>14 DEF Inv

LEMMA StutterStep ==
  ASSUME Inv, UNCHANGED vars
  PROVE  Inv'
<1>1. UNCHANGED <<ties, phase, ctx, len, chunks, score, pc, ci, held, arena, kqAll, ksAll, topk, out>>
  BY DEF vars
<1>2. Typed'
  BY <1>1 DEF Inv, Typed
<1>3. Pass'
  BY <1>1, SameBatch DEF Inv, Pass
<1>4. ASSUME phase = "running", NEW s \in Ranks
      PROVE  RankInv(s)' /\ QuantDone(s)' = QuantDone(s) /\ ScaleDone(s)' = ScaleDone(s)
  <2>1. RankInv(s)
    BY <1>4 DEF Inv
  <2>2. QED
    BY <1>1, <2>1, RankStays
<1>5. phase = "running" => InStep'
  BY <1>4 DEF Inv, InStep
<1>6. phase = "attended" => Answered'
  BY <1>1, SameBatch DEF Inv, Answered
<1>7. QED
  BY <1>1, <1>2, <1>3, <1>4, <1>5, <1>6 DEF Inv

LEMMA NextInv ==
  ASSUME Inv, [Next]_vars
  PROVE  Inv'
<1>1. CASE Issue
  BY <1>1, IssueStep
<1>2. CASE Finish
  BY <1>2, FinishStep
<1>3. CASE AllGathervQuant
  BY <1>3, AllGathervQuantStep
<1>4. CASE AllGathervScale
  BY <1>4, AllGathervScaleStep
<1>5. CASE Attend
  BY <1>5, AttendStep
<1>6. ASSUME NEW r \in Ranks, RankStep(r) PROVE Inv'
  <2>1. CASE InsertKeys(r)
    BY <2>1, InsertKeysStep
  <2>2. CASE GatherShard(r)
    BY <2>2, GatherShardStep
  <2>3. CASE ReuseKeys(r)
    BY <2>3, ReuseKeysStep
  <2>4. CASE Reassemble(r)
    BY <2>4, ReassembleStep
  <2>5. CASE ScoreChunk(r)
    BY <2>5, ScoreChunkStep
  <2>6. QED
    BY <1>6, <2>1, <2>2, <2>3, <2>4, <2>5 DEF RankStep
<1>7. CASE UNCHANGED vars
  BY <1>7, StutterStep
<1>8. QED
  BY <1>1, <1>2, <1>3, <1>4, <1>5, <1>6, <1>7 DEF Next, Collective

LEMMA InvHolds == Spec => []Inv
<1>1. Init => Inv
  BY InitInv
<1>2. Inv /\ [Next]_vars => Inv'
  BY NextInv
<1>3. QED
  BY <1>1, <1>2, PTL DEF Spec

-----------------------------------------------------------------------------
(* What follows from it.                                                   *)

\* Every variable keeps its type: requests, chunks, program counters, the units of the
\* arenas, the gathered rows and the selections.
THEOREM TypeCorrect == Spec => []TypeOK
<1>1. Inv => TypeOK
  <2> SUFFICES ASSUME Inv PROVE TypeOK
    OBVIOUS
  <2>1. Typed /\ Pass
    BY DEF Inv
  <2>2. ASSUME NEW q \in DOMAIN len PROVE ctx[q] \in Pos /\ len[q] \in 1 .. MaxLen
    <3>1. CASE phase = "ready"
      <4>1. len = <<>>
        BY <2>1, <3>1 DEF Pass
      <4>2. FALSE
        BY <4>1
      <4>3. QED
        BY <4>2
    <3>2. CASE phase # "ready"
      <4>1. /\ len \in [1 .. Len(len) -> 1 .. MaxLen]
            /\ ctx \in [1 .. Len(len) -> Pos]
        BY <2>1, <3>2 DEF Pass, Batch
      <4>2. q \in 1 .. Len(len)
        BY <4>1
      <4>3. QED
        BY <4>1, <4>2
    <3>3. QED
      BY <3>1, <3>2
  <2>3. ASSUME NEW k \in DOMAIN chunks
        PROVE  /\ chunks[k].lo \in DOMAIN len /\ chunks[k].hi \in DOMAIN len
               /\ chunks[k].from \in Nat /\ chunks[k].to \in Nat /\ chunks[k].skip \in BOOLEAN
    <3>1. CASE phase = "ready"
      <4>1. chunks = <<>>
        BY <2>1, <3>1 DEF Pass
      <4>2. FALSE
        BY <4>1
      <4>3. QED
        BY <4>2
    <3>2. CASE phase # "ready"
      <4>1. Batch /\ chunks \in Seq(Chunk)
        BY <2>1, <3>2 DEF Pass, Batch, Covers
      <4>2. k \in 1 .. Len(chunks) /\ chunks[k] \in Chunk
        BY <4>1, LenProperties, ElementOfSeq
      <4>3. GoodChunk(chunks[k]) /\ DOMAIN len = 1 .. Len(len) /\ Len(len) \in Nat
        BY <4>1, <4>2, ChunkFacts, BatchFacts
      <4>4. chunks[k].lo \in DOMAIN len /\ chunks[k].hi \in DOMAIN len
        BY <4>3 DEF GoodChunk
      <4>5. chunks[k].from \in Nat /\ chunks[k].to \in Nat /\ chunks[k].skip \in BOOLEAN
        BY <4>2 DEF Chunk
      <4>6. QED
        BY <4>4, <4>5
    <3>3. QED
      BY <3>1, <3>2
  <2>4. ASSUME NEW r \in Ranks, NEW q \in 1 .. MaxReqs, NEW p \in Pos
        PROVE  IsOfPos(topk[r][q][p], Nat) /\ IsOfPos(out[r][q][p], Row)
    <3>1. topk[r] \in [1 .. MaxReqs -> [Pos -> Picks]] /\ out[r] \in [1 .. MaxReqs -> [Pos -> Seens]]
      BY <2>1 DEF Typed
    <3>2. topk[r][q] \in [Pos -> Picks] /\ out[r][q] \in [Pos -> Seens]
      BY <3>1
    <3>3. topk[r][q][p] \in Picks /\ out[r][q][p] \in Seens
      BY <3>2
    <3>4. QED
      BY <3>3, OfPos
  <2>5. QED
    BY <2>1, <2>2, <2>3, <2>4 DEF Typed, TypeOK, ArenaType, Row
<1>2. QED
  BY <1>1, InvHolds, PTL

\* When a rank scores a chunk, the keys and the scales it reads from its arena are
\* those of the chunk's requests, all of them, in GLOBAL order: the ragged exchange,
\* the gather index and the reuse of the previous chunk's keys lose and mix up none.
THEOREM KeysOrdered == Spec => []KeysInOrder
<1>1. Inv => KeysInOrder
  <2> SUFFICES ASSUME Inv, NEW r \in Ranks, At(r, "logits")
               PROVE  /\ GetQuant(arena[r], Total(chunks[ci[r]])) = GlobalKeys(chunks[ci[r]])
                      /\ GetScale(arena[r], Capacity, Total(chunks[ci[r]])) = GlobalKeys(chunks[ci[r]])
    BY DEF KeysInOrder
  <2> DEFINE ch == chunks[ci[r]]
  <2>1. phase = "running" /\ pc[r] = "logits"
    BY DEF At
  <2>2. Batch /\ GoodChunk(ch) /\ Holds(arena[r], Capacity, GlobalKeys(ch))
    BY <2>1, RankFacts DEF RankInv, Kept
  <2>3. Len(GlobalKeys(ch)) = Total(ch)
    BY <2>2, ChunkFits
  <2>4. QED
    BY <2>2, <2>3 DEF Holds
<1>2. QED
  BY <1>1, InvHolds, PTL

\* Ranks that are all in a collective are in the same one, of the same chunk, and each
\* brings the number of rows the others expect: none waits for ever.
THEOREM NobodyWaits == Spec => []CollectivesMatch
<1>1. Inv => CollectivesMatch
  <2> SUFFICES ASSUME Inv, \A r \in Ranks : At(r, "gather_quant") \/ At(r, "gather_scale")
               PROVE  Agreed /\ \A r, s \in Ranks : ci[r] = ci[s] /\ pc[r] = pc[s]
    BY DEF CollectivesMatch
  <2>1. 0 \in Ranks
    BY DEF Ranks
  <2>2. phase = "running" /\ \A r \in Ranks : pc[r] \in {"gather_quant", "gather_scale"}
    BY <2>1 DEF At
  <2>3. \A r, s \in Ranks : ci[r] = ci[s] /\ pc[r] = pc[s]
    BY <2>2, SameCollective
  <2>4. Agreed
    BY <2>2, <2>3, SameAgrees
  <2>5. QED
    BY <2>3, <2>4
<1>2. QED
  BY <1>1, InvHolds, PTL

-----------------------------------------------------------------------------
(* Up to ties.                                                             *)

\* The positions that score better than x, and those that score as well.
Above(q, p, x) == { y \in 0 .. p : score[q][y] > score[q][x] }
Level(q, p, x) == { y \in 0 .. p : score[q][y] >= score[q][x] }

\* What a selection of the best must have, and what it cannot.
LEMMA TopKCounts ==
  ASSUME score \in ScoreTables, NEW q \in 1 .. MaxReqs, NEW p \in Pos,
         NEW S \in Best(q, p), NEW x \in 0 .. p
  PROVE  /\ Cardinality(Level(q, p, x)) <= TopK => x \in S
         /\ x \in S => Cardinality(Above(q, p, x)) < TopK
<1> DEFINE All == 0 .. p
           above == { y \in All : score[q][y] > score[q][x] }
           level == { y \in All : score[q][y] >= score[q][x] }
           A == KeyPairs(q, All)
           T == KeyPairs(q, S)
<1>1. TopK \in Nat
  BY ConstantTypes
<1>2. S \in SUBSET All /\ IsTopK(T, A, TopK)
  BY BestIs
<1>3. /\ IsFiniteSet(All) /\ IsFiniteSet(A) /\ \A y \in All : score[q][y] \in Int
      /\ IsFiniteSet(S) /\ Cardinality(T) = Cardinality(S)
  BY <1>2, PairsAre
<1>4. \A t \in T, s \in A \ T : s[2] <= t[2]
  BY <1>2 DEF IsTopK
<1>5. \A y \in All : <<y, score[q][y]>> \in A /\ (<<y, score[q][y]>> \in T <=> y \in S)
  BY <1>2 DEF KeyPairs
<1>6. T \in SUBSET A /\ Cardinality(T) = AtMost(TopK, A)
  BY <1>2 DEF IsTopK
<1> HIDE DEF A, T, All
<1>7. ASSUME NEW y \in S, NEW z \in All \ S PROVE score[q][z] <= score[q][y]
  <2> DEFINE t == <<y, score[q][y]>>
             s == <<z, score[q][z]>>
  <2>1. t \in T /\ s \in A \ T /\ t[2] = score[q][y] /\ s[2] = score[q][z]
    BY <1>2, <1>5
  <2> HIDE DEF t, s
  <2>2. QED
    BY <1>4, <2>1
<1>8. Cardinality(S) <= TopK /\ (T # A => Cardinality(S) = TopK)
  BY <1>1, <1>3, <1>6, AtMostCases
<1>9. Cardinality(S) \in Nat
  BY <1>3, FS_CardinalityType
<1>10. x \in All
  BY DEF All
<1>11. ASSUME x \in S PROVE Cardinality(above) < TopK
  <2>1. above \in SUBSET (S \ {x})
    <3>1. ASSUME NEW y \in above PROVE y \in S \ {x}
      <4>1. y \in All /\ score[q][y] > score[q][x]
        OBVIOUS
      <4>2. score[q][y] \in Int /\ score[q][x] \in Int
        BY <1>3, <1>10, <4>1
      <4>3. QED
        BY <1>7, <1>11, <4>1, <4>2
    <3>2. QED
      BY <3>1
  <2>2. IsFiniteSet(S \ {x}) /\ Cardinality(S \ {x}) = Cardinality(S) - 1
    BY <1>3, <1>11, FS_RemoveElement
  <2> HIDE DEF above
  <2>3. Cardinality(above) <= Cardinality(S \ {x}) /\ IsFiniteSet(above)
    BY <2>1, <2>2, FS_Subset
  <2>4. Cardinality(above) \in Nat
    BY <2>3, FS_CardinalityType
  <2>5. QED
    BY <1>1, <1>8, <1>9, <2>2, <2>3, <2>4
<1>12. ASSUME x \notin S PROVE ~ (Cardinality(level) <= TopK)
  <2>1. S \cup {x} \in SUBSET level
    <3>1. ASSUME NEW y \in S PROVE y \in level
      <4>1. y \in All /\ score[q][x] <= score[q][y]
        BY <1>2, <1>7, <1>10, <1>12
      <4>2. score[q][y] \in Int /\ score[q][x] \in Int
        BY <1>3, <1>10, <4>1
      <4>3. QED
        BY <4>1, <4>2
    <3>2. x \in level
      BY <1>3, <1>10
    <3>3. QED
      BY <3>1, <3>2
  <2>2. Cardinality(S \cup {x}) = Cardinality(S) + 1
    BY <1>3, <1>12, FS_AddElement
  <2>3. Cardinality(S) = TopK
    BY <1>5, <1>8, <1>10, <1>12
  <2>4. level \in SUBSET All
    OBVIOUS
  <2> HIDE DEF level
  <2>5. IsFiniteSet(level)
    BY <1>3, <2>4, FS_Subset
  <2>6. Cardinality(S \cup {x}) <= Cardinality(level) /\ Cardinality(level) \in Nat
    BY <2>1, <2>5, FS_Subset, FS_CardinalityType
  <2>7. QED
    BY <1>1, <2>2, <2>3, <2>6
<1>13. QED
  BY <1>11, <1>12 DEF All, Above, Level

\* A selection each rank made.
Made(r, q, p) == CHOOSE S \in Best(q, p) : out[r][q][p] = OwnKeys(S, r, q)

\* What two ranks read of their own differs.
LEMMA OwnKeysApart ==
  ASSUME NEW q, NEW r, NEW s, NEW S, NEW T, NEW f, NEW g,
         f = OwnKeys(S, r, q), g = OwnKeys(T, s, q),
         NEW x \in DOMAIN f, NEW y \in DOMAIN g, f[x] = g[y]
  PROVE  r = s /\ x = y
<1>1. f[x] = <<q, x>> /\ Owner(x) = r
  BY DEF OwnKeys
<1>2. g[y] = <<q, y>> /\ Owner(y) = s
  BY DEF OwnKeys
<1>3. <<q, x>>[2] = <<q, y>>[2]
  <2>1. <<q, x>> = <<q, y>>
    BY <1>1, <1>2
  <2>2. QED
    BY <2>1, Zenon
<1>4. QED
  BY <1>1, <1>2, <1>3

\* The keys read for a row: those whose owner selected them.
LEMMA SeenIs ==
  ASSUME Inv, phase = "attended", NEW q \in DOMAIN len, NEW p \in ctx[q] .. len[q] - 1
  PROVE  /\ score \in ScoreTables /\ q \in 1 .. MaxReqs /\ p \in Pos
         /\ \A r \in Ranks : /\ Made(r, q, p) \in Best(q, p)
                             /\ out[r][q][p] = OwnKeys(Made(r, q, p), r, q)
         /\ \A x \in 0 .. p : Owner(x) \in Ranks
         /\ Seen(q, p) \subseteq {q} \X (0 .. p)
         /\ \A x \in 0 .. p : <<q, x>> \in Seen(q, p) <=> x \in Made(Owner(x), q, p)
<1>1. Typed /\ Batch /\ Answered /\ score \in ScoreTables
  BY DEF Inv, Pass, Typed
<1>2. /\ q \in 1 .. Len(len) /\ q \in 1 .. MaxReqs
      /\ len[q] \in Nat /\ len[q] <= MaxLen /\ MaxLen \in Nat /\ ctx[q] \in Nat
  BY <1>1, BatchFacts
<1>3. p \in Pos /\ \A x \in 0 .. p : x \in Nat
  BY <1>2 DEF Pos
<1>4. \A x \in 0 .. p : Owner(x) \in Ranks
  BY <1>3, SlotOf
<1>5. ASSUME NEW r \in Ranks
      PROVE  Made(r, q, p) \in Best(q, p) /\ out[r][q][p] = OwnKeys(Made(r, q, p), r, q)
  <2>1. \E S \in Best(q, p) : out[r][q][p] = OwnKeys(S, r, q)
    BY <1>1, <1>2 DEF Answered
  <2>2. QED
    BY <2>1 DEF Made
<1>6. \A r \in Ranks : Made(r, q, p) \subseteq 0 .. p
  BY <1>1, <1>2, <1>3, <1>5, BestIs
<1>7. ASSUME NEW r \in Ranks
      PROVE  /\ \A k \in { out[r][q][p][x] : x \in DOMAIN out[r][q][p] } :
                  \E x \in 0 .. p : k = <<q, x>> /\ Owner(x) = r /\ x \in Made(r, q, p)
             /\ \A x \in Made(r, q, p) : Owner(x) = r =>
                  <<q, x>> \in { out[r][q][p][y] : y \in DOMAIN out[r][q][p] }
  <2> DEFINE S == Made(r, q, p)
             f == out[r][q][p]
  <2>1. f = [x \in { y \in S : Owner(y) = r } |-> <<q, x>>] /\ S \subseteq 0 .. p
    BY <1>5, <1>6 DEF OwnKeys
  <2> HIDE DEF S, f
  <2>2. /\ \A k \in { f[x] : x \in DOMAIN f } : \E x \in 0 .. p : k = <<q, x>> /\ Owner(x) = r /\ x \in S
        /\ \A x \in S : Owner(x) = r => <<q, x>> \in { f[y] : y \in DOMAIN f }
    BY <2>1
  <2>3. QED
    BY <2>2 DEF S, f
<1> DEFINE read(r) == { out[r][q][p][x] : x \in DOMAIN out[r][q][p] }
<1>8. Seen(q, p) = UNION { read(r) : r \in Ranks }
  BY DEF Seen
<1>9. ASSUME NEW r \in Ranks
      PROVE  /\ \A k \in read(r) : \E x \in 0 .. p : k = <<q, x>> /\ Owner(x) = r /\ x \in Made(r, q, p)
             /\ \A x \in Made(r, q, p) : Owner(x) = r => <<q, x>> \in read(r)
  BY <1>7
<1> HIDE DEF read
<1>10. \A k \in Seen(q, p) : \E x \in 0 .. p : k = <<q, x>> /\ x \in Made(Owner(x), q, p)
  BY <1>8, <1>9
<1>11. ASSUME NEW x \in 0 .. p PROVE <<q, x>> \in Seen(q, p) <=> x \in Made(Owner(x), q, p)
  <2>1. <<q, x>> \in Seen(q, p) => x \in Made(Owner(x), q, p)
    BY <1>10
  <2>2. x \in Made(Owner(x), q, p) => <<q, x>> \in Seen(q, p)
    BY <1>4, <1>8, <1>9
  <2>3. QED
    BY <2>1, <2>2
<1>12. Seen(q, p) \subseteq {q} \X (0 .. p)
  BY <1>10
<1>13. QED
  BY <1>1, <1>2, <1>3, <1>4, <1>5, <1>11, <1>12

\* However the kernel breaks ties on each rank, every new token reads keys of positions
\* it may see, each once, every one that is among the TopK best whichever way the ties
\* go, and none that is not.
THEOREM PrefillSelects == Spec => []PrefillUpToTies
<1>1. Inv => PrefillUpToTies
  <2> SUFFICES ASSUME Inv, phase = "attended", NEW q \in DOMAIN len, NEW p \in ctx[q] .. len[q] - 1
               PROVE  /\ Seen(q, p) \subseteq {q} \X (0 .. p)
                      /\ \A r, s \in Ranks : \A x \in DOMAIN out[r][q][p], y \in DOMAIN out[s][q][p] :
                           out[r][q][p][x] = out[s][q][p][y] => r = s /\ x = y
                      /\ \A x \in 0 .. p :
                           /\ Cardinality(Level(q, p, x)) <= TopK => <<q, x>> \in Seen(q, p)
                           /\ <<q, x>> \in Seen(q, p) => Cardinality(Above(q, p, x)) < TopK
    BY DEF PrefillUpToTies, Above, Level
  <2>1. /\ score \in ScoreTables /\ q \in 1 .. MaxReqs /\ p \in Pos
        /\ \A r \in Ranks : /\ Made(r, q, p) \in Best(q, p)
                            /\ out[r][q][p] = OwnKeys(Made(r, q, p), r, q)
        /\ \A x \in 0 .. p : Owner(x) \in Ranks
        /\ Seen(q, p) \subseteq {q} \X (0 .. p)
        /\ \A x \in 0 .. p : <<q, x>> \in Seen(q, p) <=> x \in Made(Owner(x), q, p)
    BY SeenIs
  <2>2. ASSUME NEW r \in Ranks, NEW s \in Ranks,
               NEW x \in DOMAIN out[r][q][p], NEW y \in DOMAIN out[s][q][p],
               out[r][q][p][x] = out[s][q][p][y]
        PROVE  r = s /\ x = y
    <3> DEFINE f == out[r][q][p]
               g == out[s][q][p]
               S == Made(r, q, p)
               T == Made(s, q, p)
    <3>1. f = OwnKeys(S, r, q) /\ g = OwnKeys(T, s, q)
      BY <2>1
    <3>2. x \in DOMAIN f /\ y \in DOMAIN g /\ f[x] = g[y]
      BY <2>2
    <3> HIDE DEF f, g, S, T
    <3>3. QED
      BY <3>1, <3>2, OwnKeysApart
  <2>3. ASSUME NEW x \in 0 .. p
        PROVE  /\ Cardinality(Level(q, p, x)) <= TopK => <<q, x>> \in Seen(q, p)
               /\ <<q, x>> \in Seen(q, p) => Cardinality(Above(q, p, x)) < TopK
    <3> DEFINE S == Made(Owner(x), q, p)
    <3>1. S \in Best(q, p) /\ (<<q, x>> \in Seen(q, p) <=> x \in S)
      BY <2>1
    <3> HIDE DEF S
    <3>2. /\ Cardinality(Level(q, p, x)) <= TopK => x \in S
          /\ x \in S => Cardinality(Above(q, p, x)) < TopK
      BY <2>1, <3>1, TopKCounts
    <3>3. QED
      BY <3>1, <3>2
  <2>4. QED
    BY <2>1, <2>2, <2>3
<1>2. QED
  BY <1>1, InvHolds, PTL

\* If the kernel breaks ties by position, every new token attends to exactly the TopK
\* best of the positions it may see: the ranks, each selecting for itself, agree.
THEOREM PrefillIsExact == Spec => []PrefillExact
<1>1. Inv => PrefillExact
  <2> SUFFICES ASSUME Inv, ties = "lowest", phase = "attended",
                      NEW q \in DOMAIN len, NEW p \in ctx[q] .. len[q] - 1
               PROVE  IsStrictTopK(KeyPairs(q, { k[2] : k \in Seen(q, p) }), KeyPairs(q, 0 .. p), TopK)
    BY DEF PrefillExact
  <2>1. /\ score \in ScoreTables /\ q \in 1 .. MaxReqs /\ p \in Pos
        /\ \A r \in Ranks : Made(r, q, p) \in Best(q, p)
        /\ \A x \in 0 .. p : Owner(x) \in Ranks
        /\ Seen(q, p) \subseteq {q} \X (0 .. p)
        /\ \A x \in 0 .. p : <<q, x>> \in Seen(q, p) <=> x \in Made(Owner(x), q, p)
    BY SeenIs
  <2> DEFINE A == KeyPairs(q, 0 .. p)
             S == Made(0, q, p)
  <2>2. 0 \in Ranks
    BY DEF Ranks
  <2>3. \A r \in Ranks : /\ Made(r, q, p) \subseteq 0 .. p
                         /\ IsStrictTopK(KeyPairs(q, Made(r, q, p)), A, TopK)
    BY <2>1, BestIs
  <2>4. IsFiniteSet(A) /\ Scored2(A) /\ TopK \in Nat
    BY <2>1, PairsAre, ConstantTypes
  <2>5. ASSUME NEW r \in Ranks PROVE Made(r, q, p) = S
    <3> DEFINE B == Made(r, q, p)
    <3>1. IsStrictTopK(KeyPairs(q, B), A, TopK) /\ IsStrictTopK(KeyPairs(q, S), A, TopK)
      BY <2>2, <2>3
    <3> HIDE DEF A, S, B
    <3>2. KeyPairs(q, B) = KeyPairs(q, S)
      BY <2>4, <3>1, StrictTopKUnique
    <3>3. B = S
      <4>1. ASSUME NEW x \in B PROVE x \in S
        <5>1. <<x, score[q][x]>> \in KeyPairs(q, S)
          BY <3>2 DEF KeyPairs
        <5>2. QED
          BY <5>1 DEF KeyPairs
      <4>2. ASSUME NEW x \in S PROVE x \in B
        <5>1. <<x, score[q][x]>> \in KeyPairs(q, B)
          BY <3>2 DEF KeyPairs
        <5>2. QED
          BY <5>1 DEF KeyPairs
      <4>3. QED
        BY <4>1, <4>2
    <3>4. QED
      BY <3>3 DEF B
  <2>6. S \subseteq 0 .. p /\ IsStrictTopK(KeyPairs(q, S), A, TopK)
    BY <2>2, <2>3
  <2> HIDE DEF S
  <2>7. \A x \in 0 .. p : <<q, x>> \in Seen(q, p) <=> x \in S
    BY <2>1, <2>5
  <2>8. { k[2] : k \in Seen(q, p) } = S
    <3>1. ASSUME NEW x \in S PROVE x \in { k[2] : k \in Seen(q, p) }
      <4>1. <<q, x>> \in Seen(q, p) /\ <<q, x>>[2] = x
        BY <2>6, <2>7
      <4>2. QED
        BY <4>1
    <3>2. ASSUME NEW k \in Seen(q, p) PROVE k[2] \in S
      <4>1. k = <<q, k[2]>> /\ k[2] \in 0 .. p
        BY <2>1
      <4>2. QED
        BY <2>7, <4>1
    <3>3. QED
      BY <3>1, <3>2
  <2>9. QED
    BY <2>6, <2>8
<1>2. QED
  BY <1>1, InvHolds, PTL

=============================================================================
