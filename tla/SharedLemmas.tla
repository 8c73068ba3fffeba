----------------------------- MODULE SharedLemmas -----------------------------
(***************************************************************************)
(* Facts that the proofs of several components rest on: induction over the *)
(* numbers, sums, positions dealt out in rounds, and selections (the       *)
(* strict one is unique, renaming keeps it, and the best of the parts'     *)
(* best are the best of all).                                              *)
(***************************************************************************)
EXTENDS TopKSets, Sums, FiniteSetTheorems, WellFoundedInduction, TLAPS

-----------------------------------------------------------------------------
(* Induction over the numbers.                                             *)

Less == { r \in Nat \X Nat : r[1] < r[2] }

\* A set of naturals has a smallest element.
LEMMA Smallest ==
  ASSUME NEW T, T \subseteq Nat, T # {}
  PROVE  \E x \in T : \A y \in T : x <= y
<1>1. IsWellFoundedOn(Less, Nat)
  <2>1. Less = OpToRel(<, Nat)
    BY DEF Less, OpToRel
  <2>2. QED
    BY <2>1, NatLessThanWellFounded
<1>2. PICK x \in T : \A y \in T : ~ (<<y, x>> \in Less)
  BY <1>1, WFMin
<1>3. ASSUME NEW y \in T PROVE x <= y
  <2>1. x \in Nat /\ y \in Nat /\ <<y, x>> \notin Less
    BY <1>2
  <2>2. y < x => <<y, x>> \in Less
    BY <2>1 DEF Less
  <2>3. QED
    BY <2>1, <2>2
<1>4. QED
  BY <1>3

\* Induction, over a set instead of a predicate.
LEMMA Induction ==
  ASSUME NEW T, 0 \in T, \A n \in Nat : n \in T => n + 1 \in T
  PROVE  Nat \subseteq T
<1> SUFFICES ASSUME Nat \ T # {} PROVE FALSE
  OBVIOUS
<1>1. PICK x \in Nat \ T : \A y \in Nat \ T : x <= y
  BY Smallest
<1>2. x # 0 /\ x - 1 \in Nat /\ ~ (x <= x - 1) /\ (x - 1) + 1 = x
  BY <1>1
<1>3. QED
  BY <1>1, <1>2

-----------------------------------------------------------------------------
(* Sums.                                                                   *)

\* g is the function SumOver is defined by.
SumSteps(f, a, b, g) == g = [i \in a - 1 .. b |-> IF i = a - 1 THEN 0 ELSE g[i - 1] + f[i]]

\* Such a function exists.
LEMMA SumExists ==
  ASSUME NEW f, NEW a \in Int
  PROVE  \A n \in Nat : \E g : SumSteps(f, a, a - 1 + n, g)
<1> DEFINE T == { n \in Nat : \E g : SumSteps(f, a, a - 1 + n, g) }
<1>1. 0 \in T
  <2>1. SumSteps(f, a, a - 1 + 0, [i \in a - 1 .. a - 1 |-> 0])
    BY DEF SumSteps
  <2>2. QED
    BY <2>1
<1>2. ASSUME NEW n \in Nat, n \in T PROVE n + 1 \in T
  <2> DEFINE b == a - 1 + n
  <2>1. PICK g : SumSteps(f, a, b, g)
    BY <1>2
  <2>2. b \in Int /\ a - 1 <= b /\ a - 1 + (n + 1) = b + 1
    OBVIOUS
  <2> HIDE DEF b
  <2> DEFINE h == [i \in a - 1 .. b + 1 |-> IF i <= b THEN g[i] ELSE g[b] + f[b + 1]]
             e == [i \in a - 1 .. b + 1 |-> IF i = a - 1 THEN 0 ELSE h[i - 1] + f[i]]
  <2>3. \A i \in a - 1 .. b : g[i] = IF i = a - 1 THEN 0 ELSE g[i - 1] + f[i]
    BY <2>1 DEF SumSteps
  <2>4. ASSUME NEW i \in a - 1 .. b + 1 PROVE h[i] = e[i]
    <3>1. CASE i = a - 1
      BY <2>2, <2>3, <3>1
    <3>2. CASE i \in a .. b
      <4>1. i \in a - 1 .. b /\ i - 1 \in a - 1 .. b /\ i # a - 1
        BY <2>2, <3>2
      <4>2. h[i] = g[i] /\ h[i - 1] = g[i - 1]
        BY <2>2, <4>1
      <4>3. QED
        BY <2>3, <4>1, <4>2
    <3>3. CASE i = b + 1
      <4>1. i - 1 = b /\ i # a - 1 /\ ~ (i <= b) /\ b \in a - 1 .. b + 1 /\ b <= b
        BY <2>2, <3>3
      <4>2. h[i] = g[b] + f[b + 1] /\ h[i - 1] = g[b]
        BY <4>1
      <4>3. QED
        BY <3>3, <4>1, <4>2
    <3>4. QED
      BY <2>2, <3>1, <3>2, <3>3
  <2>5. h = e
    BY <2>4
  <2>6. SumSteps(f, a, b + 1, h)
    BY <2>5 DEF SumSteps
  <2>7. QED
    BY <2>2, <2>6
<1>3. Nat \subseteq T
  <2> HIDE DEF T
  <2>1. QED
    BY <1>1, <1>2, Induction
<1>4. QED
  BY <1>3

\* All such functions agree where they are defined.
LEMMA SumAgree ==
  ASSUME NEW f, NEW a \in Int, NEW b \in Int, NEW c \in Int,
         NEW g, SumSteps(f, a, b, g), NEW h, SumSteps(f, a, c, h)
  PROVE  \A i \in Nat : a - 1 + i <= b /\ a - 1 + i <= c => g[a - 1 + i] = h[a - 1 + i]
<1> DEFINE T == { i \in Nat : a - 1 + i <= b /\ a - 1 + i <= c => g[a - 1 + i] = h[a - 1 + i] }
<1>1. \A i \in a - 1 .. b : g[i] = IF i = a - 1 THEN 0 ELSE g[i - 1] + f[i]
  BY DEF SumSteps
<1>2. \A i \in a - 1 .. c : h[i] = IF i = a - 1 THEN 0 ELSE h[i - 1] + f[i]
  BY DEF SumSteps
<1>3. 0 \in T
  BY <1>1, <1>2
<1>4. ASSUME NEW i \in Nat, i \in T PROVE i + 1 \in T
  <2> DEFINE k == a - 1 + (i + 1)
  <2> SUFFICES ASSUME k <= b, k <= c PROVE g[k] = h[k]
    OBVIOUS
  <2>1. k \in a - 1 .. b /\ k \in a - 1 .. c /\ k # a - 1 /\ k - 1 = a - 1 + i
    OBVIOUS
  <2>2. g[k - 1] = h[k - 1]
    BY <1>4, <2>1
  <2> HIDE DEF k
  <2>3. QED
    BY <1>1, <1>2, <2>1, <2>2
<1>5. Nat \subseteq T
  <2> HIDE DEF T
  <2>1. QED
    BY <1>3, <1>4, Induction
<1>6. QED
  BY <1>5

\* What SumOver computes.
LEMMA SumIs ==
  ASSUME NEW f, NEW a \in Int
  PROVE  /\ SumOver(f, a, a - 1) = 0
         /\ \A b \in Int : a <= b + 1 => SumOver(f, a, b + 1) = SumOver(f, a, b) + f[b + 1]
<1> DEFINE G(b) == CHOOSE g : SumSteps(f, a, b, g)
<1>1. ASSUME NEW b \in Int, a - 1 <= b PROVE SumSteps(f, a, b, G(b))
  <2>1. b - (a - 1) \in Nat /\ a - 1 + (b - (a - 1)) = b
    BY <1>1
  <2>2. \E g : SumSteps(f, a, b, g)
    BY <2>1, SumExists
  <2>3. QED
    BY <2>2
<1>2. \A b : SumOver(f, a, b) = G(b)[b]
  BY DEF SumOver, SumSteps
<1> HIDE DEF G
<1>3. SumOver(f, a, a - 1) = 0
  <2>1. G(a - 1) = [i \in a - 1 .. a - 1 |-> IF i = a - 1 THEN 0 ELSE G(a - 1)[i - 1] + f[i]]
    BY <1>1 DEF SumSteps
  <2>2. QED
    BY <1>2, <2>1
<1>4. ASSUME NEW b \in Int, a <= b + 1 PROVE SumOver(f, a, b + 1) = SumOver(f, a, b) + f[b + 1]
  <2> DEFINE g == G(b + 1)
  <2>1. SumSteps(f, a, b + 1, g) /\ SumSteps(f, a, b, G(b))
    BY <1>1, <1>4
  <2>2. g[b] = G(b)[b]
    <3> HIDE DEF g
    <3> DEFINE i == b - (a - 1)
    <3>1. i \in Nat /\ a - 1 + i = b /\ b + 1 \in Int /\ b <= b + 1
      BY <1>4
    <3> HIDE DEF i
    <3>2. g[a - 1 + i] = G(b)[a - 1 + i]
      BY <2>1, <3>1, SumAgree
    <3>3. QED
      BY <3>1, <3>2
  <2>3. b + 1 \in a - 1 .. b + 1 /\ b + 1 # a - 1 /\ (b + 1) - 1 = b
    BY <1>4
  <2>4. g[b + 1] = g[b] + f[b + 1]
    <3> HIDE DEF g
    <3>1. g = [i \in a - 1 .. b + 1 |-> IF i = a - 1 THEN 0 ELSE g[i - 1] + f[i]]
      BY <2>1 DEF SumSteps
    <3>2. QED
      BY <2>3, <3>1
  <2>5. QED
    BY <1>2, <2>2, <2>4
<1>5. QED
  BY <1>3, <1>4

\* Induction over an interval.
LEMMA IntervalInduction ==
  ASSUME NEW T, NEW a \in Int, NEW b \in Int, a - 1 \in T,
         \A i \in a .. b : i - 1 \in T => i \in T
  PROVE  \A i \in a - 1 .. b : i \in T
<1> DEFINE U == { n \in Nat : a - 1 + n <= b => a - 1 + n \in T }
<1>1. 0 \in U
  OBVIOUS
<1>2. ASSUME NEW n \in Nat, n \in U PROVE n + 1 \in U
  <2> DEFINE i == a - 1 + (n + 1)
  <2>1. i \in Int /\ i - 1 = a - 1 + n /\ a <= i /\ i - 1 <= i
    OBVIOUS
  <2>2. i <= b => i - 1 \in T
    BY <1>2, <2>1
  <2> HIDE DEF i
  <2>3. i <= b => i \in T
    BY <2>1, <2>2
  <2>4. QED
    BY <2>3 DEF i
<1>3. Nat \subseteq U
  <2> HIDE DEF U
  <2>1. QED
    BY <1>1, <1>2, Induction
<1>4. ASSUME NEW i \in a - 1 .. b PROVE i \in T
  <2>1. i - (a - 1) \in Nat /\ a - 1 + (i - (a - 1)) = i /\ i <= b
    OBVIOUS
  <2>2. i - (a - 1) \in U
    BY <1>3, <2>1
  <2>3. QED
    BY <2>1, <2>2
<1>5. QED
  BY <1>4

\* A sum up to i is the sum up to i - 1 and one more.
LEMMA SumStep ==
  ASSUME NEW f, NEW a \in Int, NEW i \in Int, a <= i
  PROVE  SumOver(f, a, i) = SumOver(f, a, i - 1) + f[i]
<1>1. i - 1 \in Int /\ a <= (i - 1) + 1 /\ (i - 1) + 1 = i
  OBVIOUS
<1>2. QED
  BY <1>1, SumIs

\* The empty sum.
LEMMA SumNone ==
  ASSUME NEW f, NEW a \in Int
  PROVE  SumOver(f, a, a - 1) = 0
  BY SumIs

\* Sums of naturals are naturals and grow.
LEMMA SumGrows ==
  ASSUME NEW f, NEW a \in Int, NEW b \in Int, \A i \in a .. b : f[i] \in Nat
  PROVE  /\ \A j \in a - 1 .. b : SumOver(f, a, j) \in Nat
         /\ \A i, j \in a - 1 .. b : i <= j => SumOver(f, a, i) <= SumOver(f, a, j)
<1> DEFINE T == { j \in a - 1 .. b : SumOver(f, a, j) \in Nat }
           U == { j \in a - 1 .. b : \A i \in a - 1 .. j : SumOver(f, a, i) <= SumOver(f, a, j) }
<1>1. a - 1 <= b => \A j \in a - 1 .. b : SumOver(f, a, j) \in Nat
  <2> SUFFICES ASSUME a - 1 <= b PROVE \A j \in a - 1 .. b : j \in T
    OBVIOUS
  <2>1. a - 1 \in T
    BY SumNone
  <2>2. ASSUME NEW j \in a .. b, j - 1 \in T PROVE j \in T
    <3>1. SumOver(f, a, j) = SumOver(f, a, j - 1) + f[j]
      BY SumStep
    <3>2. QED
      BY <2>2, <3>1
  <2> HIDE DEF T
  <2>3. QED
    BY <2>1, <2>2, IntervalInduction
<1>2. a - 1 <= b => \A j \in a - 1 .. b : j \in U
  <2> SUFFICES ASSUME a - 1 <= b PROVE \A j \in a - 1 .. b : j \in U
    OBVIOUS
  <2>1. a - 1 \in U
    <3>1. \A i \in a - 1 .. a - 1 : i = a - 1
      OBVIOUS
    <3>2. SumOver(f, a, a - 1) = 0 /\ a - 1 \in a - 1 .. b
      BY SumNone
    <3>3. QED
      BY <3>1, <3>2
  <2>2. ASSUME NEW j \in a .. b, j - 1 \in U PROVE j \in U
    <3>1. SumOver(f, a, j) = SumOver(f, a, j - 1) + f[j] /\ f[j] \in Nat
      BY SumStep
    <3>2. j \in a - 1 .. b /\ j - 1 \in a - 1 .. b
      BY <2>2
    <3>3. SumOver(f, a, j) \in Nat /\ SumOver(f, a, j - 1) \in Nat
      BY <1>1, <3>2
    <3>4. ASSUME NEW i \in a - 1 .. j PROVE SumOver(f, a, i) <= SumOver(f, a, j)
      <4>1. i = j \/ i \in a - 1 .. j - 1
        OBVIOUS
      <4>2. ASSUME i \in a - 1 .. j - 1 PROVE SumOver(f, a, i) <= SumOver(f, a, j - 1)
        BY <2>2, <4>2
      <4>3. i \in a - 1 .. b
        OBVIOUS
      <4>4. SumOver(f, a, i) \in Nat
        BY <1>1, <4>3
      <4>5. QED
        BY <3>1, <3>3, <4>1, <4>2, <4>4
    <3>5. QED
      BY <3>2, <3>4
  <2> HIDE DEF U
  <2>3. QED
    BY <2>1, <2>2, IntervalInduction
<1>3. QED
  BY <1>1, <1>2

\* g has from c on the n summands f has from a on.
SameParts(f, a, g, c, n) == \A i \in 1 .. n : g[c - 1 + i] = f[a - 1 + i]

\* The same summands give the same sums, wherever they are.
LEMMA SumShift ==
  ASSUME NEW f, NEW g, NEW a \in Int, NEW c \in Int, NEW n \in Nat, SameParts(f, a, g, c, n)
  PROVE  \A j \in 0 .. n : SumOver(g, c, c - 1 + j) = SumOver(f, a, a - 1 + j)
<1> USE DEF SameParts
<1> DEFINE T == { j \in 0 .. n : SumOver(g, c, c - 1 + j) = SumOver(f, a, a - 1 + j) }
<1>1. 1 - 1 \in T
  <2>1. c - 1 + 0 = c - 1 /\ a - 1 + 0 = a - 1
    OBVIOUS
  <2>2. QED
    BY <2>1, SumNone
<1>2. ASSUME NEW j \in 1 .. n, j - 1 \in T PROVE j \in T
  <2> DEFINE x == c - 1 + j
             y == a - 1 + j
  <2>1. /\ x \in Int /\ y \in Int /\ c <= x /\ a <= y
        /\ x - 1 = c - 1 + (j - 1) /\ y - 1 = a - 1 + (j - 1)
    OBVIOUS
  <2>2. SumOver(g, c, x - 1) = SumOver(f, a, y - 1) /\ g[x] = f[y]
    BY <1>2, <2>1
  <2> HIDE DEF x, y
  <2>3. SumOver(g, c, x) = SumOver(f, a, y)
    BY <2>1, <2>2, SumStep
  <2>4. QED
    BY <2>3 DEF x, y
<1>3. \A j \in 1 - 1 .. n : j \in T
  <2> HIDE DEF T
  <2>1. QED
    BY <1>1, <1>2, IntervalInduction
<1>4. QED
  BY <1>3

\* Summands of at most m.
LEMMA SumBound ==
  ASSUME NEW f, NEW a \in Int, NEW b \in Int, a - 1 <= b, NEW m \in Nat,
         \A i \in a .. b : f[i] \in 0 .. m
  PROVE  SumOver(f, a, b) <= (b - a + 1) * m
<1> DEFINE T == { j \in a - 1 .. b : SumOver(f, a, j) <= (j - a + 1) * m }
<1>1. a - 1 \in T
  <2>1. ((a - 1) - a + 1) * m = 0
    <3>1. (a - 1) - a + 1 = 0
      OBVIOUS
    <3>2. QED
      BY <3>1
  <2>2. QED
    BY <2>1, SumNone
<1>2. ASSUME NEW j \in a .. b, j - 1 \in T PROVE j \in T
  <2>1. SumOver(f, a, j) = SumOver(f, a, j - 1) + f[j] /\ f[j] \in 0 .. m
    BY SumStep
  <2>2. (j - a + 1) * m = ((j - 1) - a + 1) * m + m
    <3> DEFINE k == j - a
    <3>1. k \in Int /\ j - a + 1 = k + 1 /\ (j - 1) - a + 1 = k
      OBVIOUS
    <3> HIDE DEF k
    <3>2. (k + 1) * m = k * m + m
      BY <3>1
    <3>3. QED
      BY <3>1, <3>2
  <2>3. SumOver(f, a, j - 1) \in Nat /\ ((j - 1) - a + 1) * m \in Int
    <3>1. j - 1 \in a - 1 .. b
      OBVIOUS
    <3>2. QED
      BY <3>1, SumGrows
  <2>4. SumOver(f, a, j - 1) <= ((j - 1) - a + 1) * m
    BY <1>2
  <2> DEFINE x == ((j - 1) - a + 1) * m
             y == SumOver(f, a, j - 1)
  <2> HIDE DEF x, y
  <2>5. y + f[j] <= x + m
    BY <2>1, <2>3, <2>4 DEF x, y
  <2>6. QED
    BY <2>1, <2>2, <2>5 DEF x, y
<1>3. \A j \in a - 1 .. b : j \in T
  <2> HIDE DEF T
  <2>1. QED
    BY <1>1, <1>2, IntervalInduction
<1>4. b \in T
  BY <1>3
<1>5. QED
  BY <1>4

\* Every number up to a sum lies in one of its summands.
LEMMA SumPlace ==
  ASSUME NEW f, NEW a \in Int, NEW b \in Int, a - 1 <= b, \A i \in a .. b : f[i] \in Nat,
         NEW x \in 1 .. SumOver(f, a, b)
  PROVE  \E k \in a .. b : \E i \in 1 .. f[k] : x = SumOver(f, a, k - 1) + i
<1> DEFINE Place(k, y) == \E i \in 1 .. f[k] : y = SumOver(f, a, k - 1) + i
           T == { j \in a - 1 .. b : \A y \in 1 .. SumOver(f, a, j) : \E k \in a .. j : Place(k, y) }
<1>1. a - 1 \in T
  BY SumNone
<1>2. ASSUME NEW j \in a .. b, j - 1 \in T PROVE j \in T
  <2>1. SumOver(f, a, j) = SumOver(f, a, j - 1) + f[j] /\ f[j] \in Nat
    BY SumStep
  <2>2. SumOver(f, a, j - 1) \in Nat
    <3>1. j - 1 \in a - 1 .. b
      OBVIOUS
    <3>2. QED
      BY <3>1, SumGrows
  <2>3. ASSUME NEW y \in 1 .. SumOver(f, a, j) PROVE \E k \in a .. j : Place(k, y)
    <3>1. CASE y <= SumOver(f, a, j - 1)
      <4>1. y \in 1 .. SumOver(f, a, j - 1)
        BY <2>1, <2>2, <3>1
      <4>2. PICK k \in a .. j - 1 : Place(k, y)
        BY <1>2, <4>1
      <4>3. QED
        BY <4>2
    <3>2. CASE ~(y <= SumOver(f, a, j - 1))
      <4> DEFINE i == y - SumOver(f, a, j - 1)
      <4>1. i \in 1 .. f[j] /\ y = SumOver(f, a, j - 1) + i
        BY <2>1, <2>2, <3>2
      <4> HIDE DEF i
      <4>2. Place(j, y)
        BY <4>1
      <4>3. QED
        BY <4>2
    <3>3. QED
      BY <3>1, <3>2
  <2>4. j \in a - 1 .. b
    OBVIOUS
  <2>5. QED
    BY <2>3, <2>4
<1>3. \A j \in a - 1 .. b : j \in T
  <2> HIDE DEF T
  <2>1. QED
    BY <1>1, <1>2, IntervalInduction
<1>4. b \in T
  BY <1>3
<1>5. QED
  BY <1>4

\* The sums from 1 on.
LEMMA SumsFromOne ==
  ASSUME NEW f, NEW n \in Nat, \A k \in 1 .. n : f[k] \in Nat
  PROVE  /\ SumOver(f, 1, 0) = 0
         /\ \A k \in 0 .. n : SumOver(f, 1, k) \in Nat
         /\ \A k \in 1 .. n : SumOver(f, 1, k) = SumOver(f, 1, k - 1) + f[k]
         /\ \A i, j \in 0 .. n : i <= j => SumOver(f, 1, i) <= SumOver(f, 1, j)
<1> DEFINE a == 1
<1>1. a \in Int /\ \A k \in a .. n : f[k] \in Nat
  OBVIOUS
<1> HIDE DEF a
<1>2. SumOver(f, a, a - 1) = 0
  BY <1>1, SumNone
<1>3. /\ \A k \in a - 1 .. n : SumOver(f, a, k) \in Nat
      /\ \A i, j \in a - 1 .. n : i <= j => SumOver(f, a, i) <= SumOver(f, a, j)
  BY <1>1, SumGrows
<1>4. \A k \in a .. n : SumOver(f, a, k) = SumOver(f, a, k - 1) + f[k]
  BY <1>1, SumStep
<1>5. a = 1 /\ a - 1 = 0
  BY DEF a
<1>6. QED
  BY <1>2, <1>3, <1>4, <1>5

\* The sums of a part, counted from 1.
LEMMA SumOfPart ==
  ASSUME NEW f, NEW g, NEW a \in Int, NEW n \in Nat, SameParts(f, a, g, 1, n)
  PROVE  \A j \in 0 .. n : SumOver(g, 1, j) = SumOver(f, a, a - 1 + j)
<1> DEFINE c == 1
<1>1. c \in Int /\ SameParts(f, a, g, c, n)
  OBVIOUS
<1> HIDE DEF c
<1>2. \A j \in 0 .. n : SumOver(g, c, c - 1 + j) = SumOver(f, a, a - 1 + j)
  BY <1>1, SumShift
<1>3. \A j \in 0 .. n : c - 1 + j = j
  BY DEF c
<1>4. QED
  BY <1>2, <1>3 DEF c

\* Where summand q is in the whole.
LEMMA SumIn ==
  ASSUME NEW f, NEW a \in Int, NEW b \in Int, \A i \in a .. b : f[i] \in Nat,
         NEW q \in a .. b, NEW i \in 1 .. f[q]
  PROVE  /\ SumOver(f, a, q - 1) \in Nat
         /\ SumOver(f, a, q - 1) + i \in 1 .. SumOver(f, a, b)
<1>1. /\ q \in a - 1 .. b /\ q - 1 \in a - 1 .. b /\ b \in a - 1 .. b
      /\ q <= b /\ a <= q /\ q \in Int
  OBVIOUS
<1>2. SumOver(f, a, q) = SumOver(f, a, q - 1) + f[q]
  BY <1>1, SumStep
<1>3. /\ SumOver(f, a, q - 1) \in Nat /\ SumOver(f, a, q) \in Nat /\ SumOver(f, a, b) \in Nat
      /\ SumOver(f, a, q) <= SumOver(f, a, b)
  BY <1>1, SumGrows
<1>4. QED
  BY <1>2, <1>3

-----------------------------------------------------------------------------
(* Positions dealt out in rounds of n: the one with place r in round c is  *)
(* c * n + r.                                                              *)

\* Division with remainder, as Z3 knows it.
LEMMA DivMod ==
  ASSUME NEW n \in Nat \ {0}, NEW p \in Nat
  PROVE  /\ p \div n \in Nat
         /\ p % n \in 0 .. n - 1
         /\ p = (p \div n) * n + (p % n)
  OBVIOUS

\* Scaling is monotone: the only nonlinear step of the proofs below.
LEMMA ScaleMonotone ==
  ASSUME NEW n \in Nat \ {0}, NEW a \in Int, NEW b \in Int, a + 1 <= b
  PROVE  a * n + n <= b * n
<1>1. (b - a - 1) * n >= 0
  OBVIOUS
<1>2. (b - a - 1) * n = b * n - a * n - n
  OBVIOUS
<1>3. QED
  BY <1>1, <1>2

\* Round and place are unique.
LEMMA RoundUnique ==
  ASSUME NEW n \in Nat \ {0}, NEW r \in 0 .. n - 1, NEW s \in 0 .. n - 1,
         NEW c \in Nat, NEW d \in Nat, c * n + r = d * n + s
  PROVE  r = s /\ c = d
<1>1. c * n \in Int /\ d * n \in Int
  OBVIOUS
<1>2. ~(c + 1 <= d)
  BY <1>1, ScaleMonotone
<1>3. ~(d + 1 <= c)
  BY <1>1, ScaleMonotone
<1>4. c = d
  BY <1>2, <1>3
<1>5. QED
  BY <1>1, <1>4

\* The place of round c is found again by division.
LEMMA RoundInverse ==
  ASSUME NEW n \in Nat \ {0}, NEW r \in 0 .. n - 1, NEW c \in Nat
  PROVE  /\ c * n + r \in Nat /\ c <= c * n + r
         /\ (c * n + r) \div n = c /\ (c * n + r) % n = r
<1>1. c * n \in Nat /\ c <= c * n
  <2>1. c * (n - 1) >= 0 /\ c * n = c * (n - 1) + c
    OBVIOUS
  <2>2. QED
    BY <2>1
<1> DEFINE p == c * n + r
<1>2. p \in Nat /\ c <= p
  BY <1>1
<1> HIDE DEF p
<1>3. /\ p \div n \in Nat /\ p % n \in 0 .. n - 1
      /\ p = (p \div n) * n + (p % n)
  BY <1>2, DivMod
<1>4. p = c * n + r
  BY DEF p
<1>5. p \div n = c /\ p % n = r
  BY <1>3, <1>4, RoundUnique
<1>6. QED
  BY <1>2, <1>5 DEF p

\* Later rounds are later.
LEMMA RoundLater ==
  ASSUME NEW n \in Nat \ {0}, NEW r \in 0 .. n - 1, NEW c \in Nat, NEW d \in Nat, c < d
  PROVE  c * n + r < d * n + r
<1>1. c * n + n <= d * n
  BY ScaleMonotone
<1>2. c * n \in Int /\ d * n \in Int
  OBVIOUS
<1>3. QED
  BY <1>1, <1>2

\* How many of the first g positions have place r.
LEMMA RoundCount ==
  ASSUME NEW n \in Nat \ {0}, NEW g \in Nat, NEW r \in 0 .. n - 1, NEW c \in Nat
  PROVE  c < (IF g % n > r THEN g \div n + 1 ELSE g \div n) <=> c * n + r < g
<1> DEFINE a == g \div n
           b == g % n
           k == IF g % n > r THEN g \div n + 1 ELSE g \div n
<1>1. a \in Nat /\ b \in 0 .. n - 1 /\ g = a * n + b
  BY DivMod
<1>2. k = IF b > r THEN a + 1 ELSE a
  OBVIOUS
<1>0. r \in 0 .. n - 1 /\ k \in Int /\ c \in Nat /\ n \in Nat \ {0} /\ a \in Nat /\ b \in 0 .. n - 1
  BY <1>1, <1>2
<1> HIDE DEF a, b, k
<1>3. a * n \in Int /\ c * n \in Int
  BY <1>1
<1>4. c <= a => c * n <= a * n
  <2>1. CASE c = a
    BY <2>1, <1>3
  <2>2. CASE c + 1 <= a
    BY <2>2, <1>1, <1>3, ScaleMonotone
  <2>3. QED
    BY <2>1, <2>2, <1>1
<1>5. a + 1 <= c => a * n + n <= c * n
  BY <1>1, ScaleMonotone
<1>6. c + 1 <= a => c * n + n <= a * n
  BY <1>1, ScaleMonotone
<1> SUFFICES c < k <=> c * n + r < g
  BY DEF k
<1>7. CASE b > r
  BY <1>0, <1>1, <1>2, <1>3, <1>4, <1>5, <1>7
<1>8. CASE b <= r
  BY <1>1, <1>2, <1>3, <1>4, <1>5, <1>6, <1>8
<1>9. QED
  BY <1>0, <1>7, <1>8

-----------------------------------------------------------------------------
(* Selections.                                                             *)

\* Pairs <<key, score>> that the orders are defined on.
Scored2(S) == \A s \in S : s[1] \in Int /\ s[2] \in Int

\* A mapping that is one-to-one on a finite set preserves its cardinality.
LEMMA InjectiveImage ==
  ASSUME NEW S, IsFiniteSet(S), NEW T, NEW f \in [S -> T],
         \A x, y \in S : f[x] = f[y] => x = y,
         T = { f[x] : x \in S }
  PROVE  IsFiniteSet(T) /\ Cardinality(T) = Cardinality(S)
<1>1. f \in Surjection(S, T)
  BY DEF Surjection
<1>2. f \in Injection(S, T)
  BY DEF Injection, IsInjective
<1>3. QED
  BY <1>1, <1>2, FS_Surjection

\* What a selection of at most k is: either everything, or exactly k.
LEMMA AtMostCases ==
  ASSUME NEW S, IsFiniteSet(S), NEW k \in Nat, NEW T \in SUBSET S,
         Cardinality(T) = AtMost(k, S)
  PROVE  /\ IsFiniteSet(T)
         /\ Cardinality(T) <= k
         /\ Cardinality(T) < k => T = S
         /\ T # S => Cardinality(T) = k
<1>1. IsFiniteSet(T) /\ Cardinality(T) \in Nat /\ Cardinality(S) \in Nat
  BY FS_Subset, FS_CardinalityType
<1>2. Cardinality(S) = Cardinality(T) => T = S
  BY FS_Subset
<1>3. QED
  BY <1>1, <1>2 DEF AtMost

\* Two finite sets of the same size, one with an element the other lacks.
LEMMA MissingElement ==
  ASSUME NEW A, NEW B, IsFiniteSet(A), IsFiniteSet(B),
         Cardinality(A) = Cardinality(B), NEW b \in B, b \notin A
  PROVE  \E a \in A : a \notin B
<1>1. SUFFICES ASSUME A \subseteq B PROVE FALSE
  OBVIOUS
<1>2. A = B
  BY <1>1, FS_Subset
<1>3. QED
  BY <1>2

\* The selection by the strict order is unique: ranks that see the same lanes
\* select the same positions, whatever ties there are.
LEMMA StrictTopKUnique ==
  ASSUME NEW S, IsFiniteSet(S), Scored2(S), NEW k \in Nat,
         NEW T, NEW U, IsStrictTopK(T, S, k), IsStrictTopK(U, S, k)
  PROVE  T = U
<1>1. T \in SUBSET S /\ U \in SUBSET S /\ Cardinality(T) = Cardinality(U)
  BY DEF IsStrictTopK
<1>2. IsFiniteSet(T) /\ IsFiniteSet(U)
  BY <1>1, FS_Subset
<1>3. SUFFICES ASSUME T # U PROVE FALSE
  OBVIOUS
<1>4. PICK t \in T : t \notin U
  <2>1. CASE \E u \in U : u \notin T
    BY <2>1, <1>1, <1>2, MissingElement
  <2>2. QED
    BY <2>1, <1>3
<1>5. PICK u \in U : u \notin T
  BY <1>1, <1>2, <1>4, MissingElement
<1>6. Ahead(t, u) /\ Ahead(u, t)
  BY <1>1, <1>4, <1>5 DEF IsStrictTopK
<1>7. t[1] \in Int /\ t[2] \in Int /\ u[1] \in Int /\ u[2] \in Int
  BY <1>1, <1>4, <1>5 DEF Scored2
<1>8. QED
  BY <1>6, <1>7 DEF Ahead

\* Keys tell the pairs of S apart.
Keyed(S) == \A x, y \in S : x[1] = y[1] => x = y

\* A finite set of pairs has one that is ahead of all others.
LEMMA BestExists ==
  ASSUME NEW S, IsFiniteSet(S), Scored2(S), Keyed(S)
  PROVE  \A A \in SUBSET S : A # {} => \E b \in A : \A a \in A \ {b} : Ahead(b, a)
<1> DEFINE Best(A) == \E b \in A : \A a \in A \ {b} : Ahead(b, a)
           T == { n \in Nat : \A A \in SUBSET S : A # {} /\ Cardinality(A) = n => Best(A) }
<1>1. 0 \in T
  <2>1. \A A \in SUBSET S : Cardinality(A) = 0 => A = {}
    BY FS_Subset, FS_EmptySet
  <2>2. QED
    BY <2>1
<1>2. ASSUME NEW n \in Nat, n \in T PROVE n + 1 \in T
  <2>1. ASSUME NEW A \in SUBSET S, Cardinality(A) = n + 1, NEW a \in A PROVE Best(A)
    <3> DEFINE B == A \ {a}
    <3>1. IsFiniteSet(A) /\ B \in SUBSET S
      BY FS_Subset
    <3>2. Cardinality(B) = n
      <4>1. Cardinality(B) = Cardinality(A) - 1
        BY <3>1, FS_RemoveElement
      <4>2. QED
        BY <2>1, <4>1
    <3>3. CASE B = {}
      BY <3>3
    <3>4. CASE B # {}
      <4>1. PICK b \in B : \A x \in B \ {b} : Ahead(b, x)
        BY <1>2, <3>1, <3>2, <3>4
      <4>2. /\ a[1] \in Int /\ a[2] \in Int /\ b[1] \in Int /\ b[2] \in Int /\ a[1] # b[1]
            /\ \A x \in B : x[1] \in Int /\ x[2] \in Int
        BY <4>1 DEF Scored2, Keyed
      <4>3. CASE Ahead(b, a)
        <5>1. \A x \in A \ {b} : Ahead(b, x)
          BY <4>1, <4>3
        <5>2. QED
          BY <5>1
      <4>4. CASE ~Ahead(b, a)
        <5>1. Ahead(a, b)
          BY <4>2, <4>4 DEF Ahead
        <5>2. ASSUME NEW x \in A \ {a} PROVE Ahead(a, x)
          <6>1. x = b \/ Ahead(b, x)
            BY <4>1
          <6>2. QED
            BY <4>2, <5>1, <6>1 DEF Ahead
        <5>3. QED
          BY <5>2
      <4>5. QED
        BY <4>3, <4>4
    <3>5. QED
      BY <3>3, <3>4
  <2>2. ASSUME NEW A \in SUBSET S, A # {}, Cardinality(A) = n + 1 PROVE Best(A)
    <3>1. PICK a \in A : TRUE
      BY <2>2
    <3>2. QED
      BY <2>1, <2>2
  <2>3. QED
    BY <2>2
<1>3. Nat \subseteq T
  <2> HIDE DEF T
  <2>1. QED
    BY <1>1, <1>2, Induction
<1>4. ASSUME NEW A \in SUBSET S, A # {} PROVE Best(A)
  <2>1. Cardinality(A) \in Nat
    BY FS_Subset, FS_CardinalityType
  <2>2. Cardinality(A) \in T
    BY <1>3, <2>1
  <2>3. QED
    BY <1>4, <2>2
<1>5. QED
  BY <1>4

\* There is a strict selection.
LEMMA StrictTopKExists ==
  ASSUME NEW S, IsFiniteSet(S), Scored2(S), Keyed(S)
  PROVE  \A k \in Nat : \E T : IsStrictTopK(T, S, k)
<1> DEFINE U == { k \in Nat : \E T : IsStrictTopK(T, S, k) }
<1>0. Cardinality(S) \in Nat
  BY FS_CardinalityType
<1>1. 0 \in U
  <2>1. Cardinality({}) = 0
    BY FS_EmptySet
  <2>2. IsStrictTopK({}, S, 0)
    BY <1>0, <2>1 DEF IsStrictTopK, AtMost
  <2>3. QED
    BY <2>2
<1>2. ASSUME NEW k \in Nat, k \in U PROVE k + 1 \in U
  <2>1. PICK T : IsStrictTopK(T, S, k)
    BY <1>2
  <2>2. T \in SUBSET S /\ Cardinality(T) = AtMost(k, S)
    BY <2>1 DEF IsStrictTopK
  <2>3. CASE T = S
    <3>1. IsStrictTopK(S, S, k + 1)
      BY <1>0, <2>2, <2>3 DEF IsStrictTopK, AtMost
    <3>2. QED
      BY <3>1
  <2>4. CASE T # S
    <3>1. IsFiniteSet(T) /\ Cardinality(T) = k
      BY <2>2, <2>4, AtMostCases
    <3>2. PICK b \in S \ T : \A a \in (S \ T) \ {b} : Ahead(b, a)
      <4>1. S \ T \in SUBSET S /\ S \ T # {}
        BY <2>2, <2>4
      <4> HIDE DEF U
      <4>2. \A A \in SUBSET S : A # {} => \E b \in A : \A a \in A \ {b} : Ahead(b, a)
        BY BestExists
      <4>3. QED
        BY <4>1, <4>2
    <3> DEFINE V == T \cup {b}
    <3>3. Cardinality(V) = k + 1 /\ V \in SUBSET S
      BY <2>2, <3>1, <3>2, FS_AddElement
    <3>4. Cardinality(V) <= Cardinality(S)
      BY <3>3, FS_Subset
    <3>5. Cardinality(V) = AtMost(k + 1, S)
      BY <1>0, <3>3, <3>4 DEF AtMost
    <3>6. \A t \in V, s \in S \ V : Ahead(t, s)
      BY <2>1, <3>2 DEF IsStrictTopK
    <3>7. IsStrictTopK(V, S, k + 1)
      BY <3>3, <3>5, <3>6 DEF IsStrictTopK
    <3>8. QED
      BY <3>7
  <2>5. QED
    BY <2>3, <2>4
<1>3. Nat \subseteq U
  <2> HIDE DEF U
  <2>1. QED
    BY <1>1, <1>2, Induction
<1>4. QED
  BY <1>3

\* A strict selection is a selection.
LEMMA StrictIsTopK ==
  ASSUME NEW S, Scored2(S), NEW k \in Nat, NEW T, IsStrictTopK(T, S, k)
  PROVE  IsTopK(T, S, k)
  BY DEF IsStrictTopK, IsTopK, Ahead, Scored2

\* f renames the keys of S, and V is what becomes of S.
Renaming(f, S, V) ==
  /\ f \in [S -> V] /\ V = { f[x] : x \in S }
  /\ \A x, y \in S : f[x] = f[y] => x = y
  /\ \A x \in S : f[x][2] = x[2]

\* A renaming of keys takes a selection to a selection.
LEMMA RenamedTopK ==
  ASSUME NEW S, IsFiniteSet(S), NEW V, NEW f, Renaming(f, S, V),
         NEW k \in Nat, NEW T, IsTopK(T, S, k)
  PROVE  IsTopK({ f[x] : x \in T }, V, k)
<1> DEFINE W == { f[x] : x \in T }
<1>1. T \in SUBSET S /\ IsFiniteSet(T)
  BY FS_Subset DEF IsTopK
<1>2. W \subseteq V
  BY <1>1 DEF Renaming
<1>3. Cardinality(V) = Cardinality(S)
  BY InjectiveImage DEF Renaming
<1>4. Cardinality(W) = Cardinality(T)
  <2> DEFINE g == [x \in T |-> f[x]]
  <2>1. g \in [T -> W] /\ W = { g[x] : x \in T } /\ \A x, y \in T : g[x] = g[y] => x = y
    BY <1>1 DEF Renaming
  <2> HIDE DEF g, W
  <2>2. QED
    BY <1>1, <2>1, InjectiveImage
<1>5. Cardinality(W) = AtMost(k, V)
  BY <1>3, <1>4 DEF IsTopK, AtMost
<1>6. \A w \in W, v \in V \ W : v[2] <= w[2]
  BY <1>1 DEF IsTopK, Renaming
<1>7. QED
  BY <1>2, <1>5, <1>6 DEF IsTopK

\* A renaming that keeps the order of the keys takes a strict selection to one.
LEMMA RenamedStrictTopK ==
  ASSUME NEW S, IsFiniteSet(S), Scored2(S),
         NEW V, NEW f, Renaming(f, S, V),
         \A x, y \in S : x[1] < y[1] => f[x][1] < f[y][1],
         NEW k \in Nat, NEW T, IsStrictTopK(T, S, k)
  PROVE  IsStrictTopK({ f[x] : x \in T }, V, k)
<1> DEFINE W == { f[x] : x \in T }
<1>1. T \in SUBSET S
  BY DEF IsStrictTopK
<1>2. IsTopK(W, V, k)
  BY StrictIsTopK, RenamedTopK
<1>3. ASSUME NEW w \in W, NEW v \in V \ W PROVE Ahead(w, v)
  <2>1. PICK x \in T : w = f[x]
    OBVIOUS
  <2>2. PICK y \in S : v = f[y]
    BY DEF Renaming
  <2>3. Ahead(x, y)
    BY <2>1, <2>2 DEF IsStrictTopK
  <2>4. QED
    BY <1>1, <2>1, <2>2, <2>3 DEF Ahead, Renaming, Scored2
<1>4. QED
  BY <1>2, <1>3 DEF IsTopK, IsStrictTopK

\* Parts of S contribute C[r], k or all of theirs; U is what was contributed, and
\* T is k or all of U.
Contribution(R, S, k, part, C, U, T) ==
  /\ IsFiniteSet(S) /\ k \in Nat
  /\ part \in [R -> SUBSET S] /\ C \in [R -> SUBSET S]
  /\ \A s \in S : \E r \in R : s \in part[r]
  /\ \A r \in R : C[r] \subseteq part[r] /\ Cardinality(C[r]) = AtMost(k, part[r])
  /\ U \in SUBSET S
  /\ \A r \in R : C[r] \subseteq U
  /\ \A u \in U : \E r \in R : u \in C[r]
  /\ T \in SUBSET U /\ Cardinality(T) = AtMost(k, U)

\* The counting both exactness theorems rest on.  T has k elements, or all of S;
\* and if an s of S was not even contributed, its part contributed k others, of
\* which one is t itself or lost against t.
LEMMA UnionCounting ==
  ASSUME NEW R, NEW S, NEW k, NEW part, NEW C, NEW U, NEW T,
         Contribution(R, S, k, part, C, U, T)
  PROVE  /\ Cardinality(T) = AtMost(k, S)
         /\ \A t \in T, s \in S \ U :
              \E r \in R : /\ s \in part[r] \ C[r]
                           /\ \E c \in C[r] : c = t \/ c \in U \ T
<1> USE DEF Contribution
<1>1. U \in SUBSET S /\ T \in SUBSET U
  OBVIOUS
<1>2. IsFiniteSet(U) /\ IsFiniteSet(T) /\ Cardinality(U) \in Nat /\ Cardinality(T) \in Nat
      /\ Cardinality(S) \in Nat /\ Cardinality(U) <= Cardinality(S)
  BY <1>1, FS_Subset, FS_CardinalityType
<1>3. \A r \in R : /\ IsFiniteSet(C[r]) /\ IsFiniteSet(part[r])
                   /\ C[r] \in SUBSET U /\ C[r] \in SUBSET part[r]
                   /\ Cardinality(C[r]) = AtMost(k, part[r])
                   /\ Cardinality(C[r]) <= Cardinality(U)
                   /\ Cardinality(C[r]) \in Nat
  BY <1>1, <1>2, FS_Subset, FS_CardinalityType
<1>4. ASSUME NEW r \in R
      PROVE  /\ Cardinality(C[r]) < k => C[r] = part[r]
             /\ C[r] # part[r] => Cardinality(C[r]) = k
  <2>1. IsFiniteSet(part[r]) /\ C[r] \in SUBSET part[r] /\ Cardinality(C[r]) = AtMost(k, part[r])
    BY <1>3
  <2>2. QED
    BY <2>1, AtMostCases
<1>5. CASE Cardinality(U) < k
  <2>1. \A r \in R : C[r] = part[r]
    BY <1>2, <1>3, <1>4, <1>5
  <2>2. U = S
    BY <2>1
  <2>3. QED
    BY <2>2
<1>6. CASE ~(Cardinality(U) < k)
  <2>1. Cardinality(T) = k /\ AtMost(k, S) = k
    BY <1>2, <1>6 DEF AtMost
  <2>2. ASSUME NEW t \in T, NEW s \in S \ U
        PROVE  \E r \in R : /\ s \in part[r] \ C[r]
                            /\ \E c \in C[r] : c = t \/ c \in U \ T
    <3>1. PICK r \in R : s \in part[r]
      OBVIOUS
    <3>2. s \notin C[r]
      BY <1>3
    <3>3. Cardinality(C[r]) = k
      BY <1>4, <3>1, <3>2
    <3>4. \E c \in C[r] : c = t \/ c \in U \ T
      <4>1. CASE t \in C[r]
        BY <4>1
      <4>2. CASE t \notin C[r]
        <5>1. PICK c \in C[r] : c \notin T
          BY <1>2, <1>3, <2>1, <3>3, <4>2, MissingElement
        <5>2. QED
          BY <1>3, <5>1
      <4>3. QED
        BY <4>1, <4>2
    <3>5. QED
      BY <3>1, <3>2, <3>4
  <2>3. QED
    BY <2>1, <2>2
<1>7. QED
  BY <1>5, <1>6

\* PERF2-DECODE-SPEC.md, "Why it is EXACT", without its assumption on ties: if
\* every part of S contributes k of its best pairs, chosen with any tie-break,
\* then the k best of the contributions are k best pairs of S.
THEOREM UnionTopK ==
  ASSUME NEW R, NEW S, IsFiniteSet(S), Scored2(S), NEW k \in Nat,
         NEW part \in [R -> SUBSET S], S = UNION { part[r] : r \in R },
         NEW C \in [R -> SUBSET S], \A r \in R : IsTopK(C[r], part[r], k),
         NEW U, U = UNION { C[r] : r \in R },
         NEW T, IsTopK(T, U, k)
  PROVE  IsTopK(T, S, k)
<1>0. Contribution(R, S, k, part, C, U, T)
  BY DEF IsTopK, Contribution
<1>1. T \in SUBSET U /\ U \in SUBSET S
  BY <1>0 DEF Contribution
<1>2. /\ Cardinality(T) = AtMost(k, S)
      /\ \A t \in T, s \in S \ U :
           \E r \in R : /\ s \in part[r] \ C[r]
                        /\ \E c \in C[r] : c = t \/ c \in U \ T
  BY <1>0, UnionCounting
<1>3. ASSUME NEW t \in T, NEW s \in S \ T PROVE s[2] <= t[2]
  <2>1. CASE s \in U
    BY <2>1 DEF IsTopK
  <2>2. CASE s \notin U
    <3>0. PICK r \in R : s \in part[r] \ C[r] /\ \E c \in C[r] : c = t \/ c \in U \ T
      BY <1>2, <2>2
    <3>1. PICK c \in C[r] : s \in part[r] \ C[r] /\ (c = t \/ c \in U \ T)
      BY <3>0
    <3>2. s[2] <= c[2] /\ c[2] <= t[2]
      <4>1. s[2] <= c[2]
        BY <3>1 DEF IsTopK
      <4>2. c[2] \in Int /\ t[2] \in Int
        BY <1>1, <3>1 DEF Scored2
      <4>3. c \in U \ T => c[2] <= t[2]
        BY DEF IsTopK
      <4>4. QED
        BY <3>1, <4>1, <4>2, <4>3
    <3>3. s[2] \in Int /\ c[2] \in Int /\ t[2] \in Int
      BY <1>1, <3>1 DEF Scored2
    <3>4. QED
      BY <3>2, <3>3
  <2>3. QED
    BY <2>1, <2>2
<1>4. QED
  BY <1>1, <1>2, <1>3 DEF IsTopK

\* The same for the strict order: when the local selections break ties by key as
\* well, the selection out of the contributions is the strict one out of S.
THEOREM UnionStrictTopK ==
  ASSUME NEW R, NEW S, IsFiniteSet(S), Scored2(S), NEW k \in Nat,
         NEW part \in [R -> SUBSET S], S = UNION { part[r] : r \in R },
         NEW C \in [R -> SUBSET S], \A r \in R : IsStrictTopK(C[r], part[r], k),
         NEW U, U = UNION { C[r] : r \in R },
         NEW T, IsStrictTopK(T, U, k)
  PROVE  IsStrictTopK(T, S, k)
<1>0. Contribution(R, S, k, part, C, U, T)
  BY DEF IsStrictTopK, Contribution
<1>1. T \in SUBSET U /\ U \in SUBSET S
  BY <1>0 DEF Contribution
<1>2. /\ Cardinality(T) = AtMost(k, S)
      /\ \A t \in T, s \in S \ U :
           \E r \in R : /\ s \in part[r] \ C[r]
                        /\ \E c \in C[r] : c = t \/ c \in U \ T
  BY <1>0, UnionCounting
<1>3. ASSUME NEW t \in T, NEW s \in S \ T PROVE Ahead(t, s)
  <2>1. CASE s \in U
    BY <2>1 DEF IsStrictTopK
  <2>2. CASE s \notin U
    <3>0. PICK r \in R : s \in part[r] \ C[r] /\ \E c \in C[r] : c = t \/ c \in U \ T
      BY <1>2, <2>2
    <3>1. PICK c \in C[r] : s \in part[r] \ C[r] /\ (c = t \/ c \in U \ T)
      BY <3>0
    <3>2. Ahead(c, s)
      BY <3>1 DEF IsStrictTopK
    <3>3. c \in U \ T => Ahead(t, c)
      BY DEF IsStrictTopK
    <3>4. /\ s[1] \in Int /\ c[1] \in Int /\ t[1] \in Int
          /\ s[2] \in Int /\ c[2] \in Int /\ t[2] \in Int
      BY <1>1, <3>1 DEF Scored2
    <3>5. QED
      BY <3>1, <3>2, <3>3, <3>4 DEF Ahead
  <2>3. QED
    BY <2>1, <2>2
<1>4. QED
  BY <1>1, <1>2, <1>3 DEF IsStrictTopK

=============================================================================
