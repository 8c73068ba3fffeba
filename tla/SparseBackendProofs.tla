---------------------------- MODULE SparseBackendProofs ----------------------------
(***************************************************************************)
(* Proofs about the attention backend: whatever batch is scheduled, every  *)
(* path attends, for every token and layer, to exactly the keys the        *)
(* indexer selected and the rank owns, and the chunks of the prefills fit  *)
(* the workspace.                                                          *)
(***************************************************************************)
EXTENDS SparseBackend, SharedLemmas, SequenceTheorems

-----------------------------------------------------------------------------
(* What the recursive definitions compute.                                 *)

\* What Total computes.
LEMMA TotalIs ==
  ASSUME NEW f
  PROVE  /\ Total(f, 0) = 0
         /\ \A n \in Nat : Total(f, n + 1) = Total(f, n) + f[n + 1]
<1>1. SumOver(f, 1, 1 - 1) = 0
  BY SumNone
<1>2. ASSUME NEW n \in Nat PROVE SumOver(f, 1, n + 1) = SumOver(f, 1, n) + f[n + 1]
  BY SumStep
<1>3. QED
  BY <1>1, <1>2 DEF Total

\* Sums of naturals are naturals and grow.
LEMMA TotalGrows ==
  ASSUME NEW f, NEW n \in Nat, \A i \in 1 .. n : f[i] \in Nat
  PROVE  /\ \A j \in 0 .. n : Total(f, j) \in Nat
         /\ \A i, j \in 0 .. n : i <= j => Total(f, i) <= Total(f, j)
<1> DEFINE T == { j \in Nat : j <= n => /\ Total(f, j) \in Nat
                                        /\ \A i \in 0 .. j : Total(f, i) <= Total(f, j) }
<1>1. 0 \in T
  BY TotalIs
<1>2. ASSUME NEW j \in Nat, j \in T PROVE j + 1 \in T
  <2> SUFFICES ASSUME j + 1 <= n
               PROVE  /\ Total(f, j + 1) \in Nat
                      /\ \A i \in 0 .. j + 1 : Total(f, i) <= Total(f, j + 1)
    OBVIOUS
  <2>1. Total(f, j) \in Nat /\ \A i \in 0 .. j : Total(f, i) <= Total(f, j)
    BY <1>2
  <2>2. Total(f, j + 1) = Total(f, j) + f[j + 1] /\ f[j + 1] \in Nat
    BY TotalIs
  <2>3. ASSUME NEW i \in 0 .. j PROVE Total(f, i) \in Int /\ Total(f, i) <= Total(f, j + 1)
    <3>1. Total(f, i) <= Total(f, j)
      BY <2>1
    <3>2. QED
      <4>1. Total(f, i) \in Int
        <5> DEFINE U == { k \in Nat : k <= n => Total(f, k) \in Int }
        <5>1. 0 \in U
          BY TotalIs
        <5>2. ASSUME NEW k \in Nat, k \in U PROVE k + 1 \in U
          BY <5>2, TotalIs
        <5>3. Nat \subseteq U
          <6> HIDE DEF U
          <6>1. QED
            BY <5>1, <5>2, Induction
        <5>4. QED
          BY <5>3
      <4>2. QED
        BY <2>1, <2>2, <3>1, <4>1
  <2>4. QED
    BY <2>1, <2>2, <2>3
<1>3. Nat \subseteq T
  <2> HIDE DEF T
  <2>1. QED
    BY <1>1, <1>2, Induction
<1>4. QED
  BY <1>3

\* The sum of a part is the difference of two sums of the whole.
LEMMA TotalPart ==
  ASSUME NEW f, NEW m \in Nat, NEW n \in Nat, \A i \in 1 .. m + n : f[i] \in Nat,
         NEW g, \A j \in 1 .. n : g[j] = f[m + j]
  PROVE  Total(g, n) = Total(f, m + n) - Total(f, m)
<1> DEFINE T == { j \in Nat : j <= n => Total(g, j) = Total(f, m + j) - Total(f, m) }
<1>1. \A j \in 0 .. m + n : Total(f, j) \in Nat
  BY TotalGrows
<1>2. 0 \in T
  <2>1. Total(g, 0) = 0 /\ m + 0 = m /\ Total(f, m) \in Nat
    BY <1>1, TotalIs
  <2>2. QED
    BY <2>1
<1>3. ASSUME NEW j \in Nat, j \in T PROVE j + 1 \in T
  <2> SUFFICES ASSUME j + 1 <= n PROVE Total(g, j + 1) = Total(f, m + (j + 1)) - Total(f, m)
    OBVIOUS
  <2>1. Total(g, j) = Total(f, m + j) - Total(f, m)
    BY <1>3
  <2>2. Total(g, j + 1) = Total(g, j) + g[j + 1]
    BY TotalIs
  <2>3. m + j \in Nat /\ m + (j + 1) = (m + j) + 1
    OBVIOUS
  <2>4. Total(f, m + (j + 1)) = Total(f, m + j) + f[m + (j + 1)]
    BY <2>3, TotalIs
  <2>5. g[j + 1] = f[m + (j + 1)] /\ f[m + (j + 1)] \in Nat
    OBVIOUS
  <2>6. Total(f, m + j) \in Nat /\ Total(f, m) \in Nat
    BY <1>1
  <2>7. QED
    BY <2>1, <2>2, <2>4, <2>5, <2>6
<1>4. Nat \subseteq T
  <2> HIDE DEF T
  <2>1. QED
    BY <1>2, <1>3, Induction
<1>5. QED
  BY <1>4

\* The sum of equal numbers.
LEMMA TotalEqual ==
  ASSUME NEW f, NEW n \in Nat, NEW q \in Nat, \A i \in 1 .. n : f[i] = q
  PROVE  \A j \in 0 .. n : Total(f, j) = j * q
<1> DEFINE T == { j \in Nat : j <= n => Total(f, j) = j * q }
<1>1. 0 \in T
  BY TotalIs
<1>2. ASSUME NEW j \in Nat, j \in T PROVE j + 1 \in T
  <2> SUFFICES ASSUME j + 1 <= n PROVE Total(f, j + 1) = (j + 1) * q
    OBVIOUS
  <2>1. Total(f, j) = j * q /\ Total(f, j + 1) = Total(f, j) + f[j + 1] /\ f[j + 1] = q
    BY <1>2, TotalIs
  <2>2. (j + 1) * q = j * q + q
    OBVIOUS
  <2>3. QED
    BY <2>1, <2>2
<1>3. Nat \subseteq T
  <2> HIDE DEF T
  <2>1. QED
    BY <1>1, <1>2, Induction
<1>4. QED
  BY <1>3

\* g is the function SeenBy is defined by.
SeenSteps(order, pos, n, g) ==
  g = [i \in 0 .. n |-> IF i = 0 THEN <<>>
                        ELSE IF order[i] <= pos THEN Append(g[i - 1], order[i]) ELSE g[i - 1]]

\* Such a function exists.
LEMMA SeenExists ==
  ASSUME NEW order, NEW pos
  PROVE  \A n \in Nat : \E g : SeenSteps(order, pos, n, g)
<1> DEFINE T == { n \in Nat : \E g : SeenSteps(order, pos, n, g) }
<1>1. 0 \in T
  <2>1. SeenSteps(order, pos, 0, [i \in 0 .. 0 |-> <<>>])
    BY DEF SeenSteps
  <2>2. QED
    BY <2>1
<1>2. ASSUME NEW n \in Nat, n \in T PROVE n + 1 \in T
  <2>1. PICK g : SeenSteps(order, pos, n, g)
    BY <1>2
  <2> DEFINE next(s, i) == IF order[i] <= pos THEN Append(s, order[i]) ELSE s
             h == [i \in 0 .. n + 1 |-> IF i <= n THEN g[i] ELSE next(g[n], n + 1)]
             e == [i \in 0 .. n + 1 |-> IF i = 0 THEN <<>> ELSE next(h[i - 1], i)]
  <2>2. \A i \in 0 .. n : g[i] = IF i = 0 THEN <<>> ELSE next(g[i - 1], i)
    BY <2>1 DEF SeenSteps
  <2>3. ASSUME NEW i \in 0 .. n + 1 PROVE h[i] = e[i]
    <3> HIDE DEF next
    <3>1. CASE i = 0
      BY <2>2, <3>1
    <3>2. CASE i \in 1 .. n
      <4>1. i \in 0 .. n /\ i - 1 \in 0 .. n /\ i # 0
        BY <3>2
      <4>2. h[i] = g[i] /\ h[i - 1] = g[i - 1]
        BY <4>1
      <4>3. QED
        BY <2>2, <4>1, <4>2
    <3>3. CASE i = n + 1
      <4>1. i - 1 = n /\ i # 0 /\ ~ (i <= n) /\ n \in 0 .. n + 1 /\ n <= n
        BY <3>3
      <4>2. h[i] = next(g[n], n + 1) /\ h[i - 1] = g[n]
        BY <4>1
      <4>3. QED
        BY <3>3, <4>1, <4>2
    <3>4. QED
      BY <3>1, <3>2, <3>3
  <2>4. h = e
    BY <2>3
  <2>5. SeenSteps(order, pos, n + 1, h)
    BY <2>4 DEF SeenSteps
  <2>6. QED
    BY <2>5
<1>3. Nat \subseteq T
  <2> HIDE DEF T
  <2>1. QED
    BY <1>1, <1>2, Induction
<1>4. QED
  BY <1>3

\* s holds positions up to pos from the first n of the order, none twice.
SeenSound(order, pos, n, s) ==
  /\ s \in Seq(Nat)
  /\ \A k \in 1 .. Len(s) : s[k] <= pos /\ \E j \in 1 .. n : order[j] = s[k]
  /\ \A k, l \in 1 .. Len(s) : s[k] = s[l] => k = l

\* The positions seen are positions of the order, none beyond pos and none twice.
LEMMA SeenByFacts ==
  ASSUME NEW order \in Seq(Nat), NEW pos \in Int,
         \A i, j \in DOMAIN order : order[i] = order[j] => i = j
  PROVE  SeenSound(order, pos, Len(order), SeenBy(order, pos, Len(order)))
<1> DEFINE n == Len(order)
           G == CHOOSE g : SeenSteps(order, pos, n, g)
           T == { i \in Nat : i <= n => SeenSound(order, pos, i, G[i]) }
<1>1. n \in Nat /\ DOMAIN order = 1 .. n /\ \A i \in 1 .. n : order[i] \in Nat
  OBVIOUS
<1>2. SeenBy(order, pos, n) = G[n]
  BY DEF SeenBy, SeenSteps
<1>3. SeenSteps(order, pos, n, G)
  BY <1>1, SeenExists
<1> HIDE DEF G
<1>4. \A i \in 0 .. n :
        G[i] = IF i = 0 THEN <<>>
               ELSE IF order[i] <= pos THEN Append(G[i - 1], order[i]) ELSE G[i - 1]
  BY <1>3 DEF SeenSteps
<1>5. 0 \in T
  <2>1. G[0] = <<>>
    BY <1>1, <1>4
  <2>2. SeenSound(order, pos, 0, <<>>)
    BY DEF SeenSound
  <2>3. QED
    BY <2>1, <2>2
<1>6. ASSUME NEW i \in Nat, i \in T PROVE i + 1 \in T
  <2> DEFINE s == G[i]
             x == order[i + 1]
  <2> SUFFICES ASSUME i + 1 <= n
               PROVE  SeenSound(order, pos, i + 1, G[i + 1])
    OBVIOUS
  <2>1. /\ s \in Seq(Nat)
        /\ \A k \in 1 .. Len(s) : s[k] <= pos /\ \E j \in 1 .. i : order[j] = s[k]
        /\ \A k, l \in 1 .. Len(s) : s[k] = s[l] => k = l
    <3>1. SeenSound(order, pos, i, s)
      BY <1>6
    <3>2. QED
      BY <3>1 DEF SeenSound
  <2>2. G[i + 1] = IF x <= pos THEN Append(s, x) ELSE s
    BY <1>1, <1>4
  <2>3. x \in Nat
    BY <1>1
  <2> HIDE DEF s, n
  <2>4. CASE ~ (x <= pos)
    <3>1. \A k \in 1 .. Len(s) : s[k] <= pos /\ \E j \in 1 .. i + 1 : order[j] = s[k]
      BY <2>1
    <3>2. QED
      BY <2>1, <2>2, <2>4, <3>1 DEF SeenSound
  <2>5. CASE x <= pos
    <3>1. /\ G[i + 1] \in Seq(Nat) /\ Len(G[i + 1]) = Len(s) + 1 /\ Len(s) \in Nat
          /\ \A k \in 1 .. Len(s) : G[i + 1][k] = s[k]
          /\ G[i + 1][Len(s) + 1] = x
      BY <2>1, <2>2, <2>3, <2>5
    <3>2. \A k \in 1 .. Len(s) : s[k] # x
      <4> TAKE k \in 1 .. Len(s)
      <4>1. PICK j \in 1 .. i : order[j] = s[k]
        BY <2>1
      <4>2. j \in DOMAIN order /\ i + 1 \in DOMAIN order /\ j # i + 1
        BY <1>1
      <4>3. QED
        BY <4>1, <4>2
    <3>3. \A k \in 1 .. Len(s) + 1 :
            G[i + 1][k] <= pos /\ \E j \in 1 .. i + 1 : order[j] = G[i + 1][k]
      <4> TAKE k \in 1 .. Len(s) + 1
      <4>1. CASE k = Len(s) + 1
        <5>1. i + 1 \in 1 .. i + 1 /\ order[i + 1] = x /\ G[i + 1][k] = x
          BY <3>1, <4>1
        <5>2. QED
          BY <2>5, <5>1
      <4>2. CASE k \in 1 .. Len(s)
        <5>1. PICK j \in 1 .. i : order[j] = s[k]
          BY <2>1, <4>2
        <5>2. j \in 1 .. i + 1 /\ G[i + 1][k] = s[k] /\ s[k] <= pos
          BY <2>1, <3>1, <4>2
        <5>3. QED
          BY <5>1, <5>2
      <4>3. QED
        BY <3>1, <4>1, <4>2
    <3>4. ASSUME NEW k \in 1 .. Len(s) + 1, NEW l \in 1 .. Len(s) + 1,
                 G[i + 1][k] = G[i + 1][l]
          PROVE  k = l
      <4>1. k \in 1 .. Len(s) \/ k = Len(s) + 1
        BY <3>1
      <4>2. l \in 1 .. Len(s) \/ l = Len(s) + 1
        BY <3>1
      <4>3. QED
        BY <2>1, <3>1, <3>2, <3>4, <4>1, <4>2
    <3>5. QED
      BY <3>1, <3>3, <3>4 DEF SeenSound
  <2>6. QED
    BY <2>4, <2>5
<1>7. Nat \subseteq T
  <2> HIDE DEF T
  <2>1. QED
    BY <1>5, <1>6, Induction
<1>8. n \in T
  BY <1>1, <1>7
<1>9. SeenSound(order, pos, n, G[n])
  <2> HIDE DEF n
  <2>1. QED
    BY <1>1, <1>8
<1>10. QED
  BY <1>2, <1>9

-----------------------------------------------------------------------------
(* The batch: whose token is whose, and where the decodes end.             *)

\* The calls the backend is deployed for: without context parallelism, heads the BF16
\* kernel can pad; with it, on an FP8 cache, heads that fill the kernel, and no prefill
\* of its own path.
Supported(c) ==
  /\ c.ranks = 1 => c.heads % HeadUnit = 0 \/ HeadUnit % c.heads = 0
  /\ c.ranks > 1 /\ c.fp8 =>
       /\ c.heads * c.ranks >= IF c.heads <= HeadUnit THEN HeadUnit ELSE 2 * HeadUnit
       /\ c.heads >= MinHeads =>
            \A j \in DOMAIN c.batch :
              c.batch[j].query = c.batch[1].query /\ c.batch[1].query <= Threshold

AllSupported == \A c \in Calls : Supported(c)

\* The call is one of Calls, on one of its ranks.
Called ==
  \E c \in Calls : \E rank \in 0 .. c.ranks - 1, order \in Orders :
    call = [heads |-> c.heads, ranks |-> c.ranks, fp8 |-> c.fp8, batch |-> c.batch,
            rank |-> rank, order |-> order]

Size == Len(Batch)

\* What is known of a call.
LEMMA CallFacts ==
  Called =>
    /\ call.heads \in Nat \ {0} /\ call.ranks \in Nat \ {0} /\ call.fp8 \in BOOLEAN
    /\ call.rank \in 0 .. call.ranks - 1
    /\ call.order \in Seq(0 .. MaxModelLen - 1)
    /\ \A i, j \in DOMAIN call.order : call.order[i] = call.order[j] => i = j
    /\ Size \in Nat \ {0} /\ Requests = 1 .. Size
    /\ \A j \in 1 .. Size : /\ Batch[j].query \in Nat \ {0} /\ Batch[j].seq \in 1 .. MaxModelLen
                            /\ Batch[j].query <= Batch[j].seq
<1> SUFFICES ASSUME Called
             PROVE  /\ call.heads \in Nat \ {0} /\ call.ranks \in Nat \ {0}
                    /\ call.fp8 \in BOOLEAN
                    /\ call.rank \in 0 .. call.ranks - 1
                    /\ call.order \in Seq(0 .. MaxModelLen - 1)
                    /\ \A i, j \in DOMAIN call.order : call.order[i] = call.order[j] => i = j
                    /\ Size \in Nat \ {0} /\ Requests = 1 .. Size
                    /\ \A j \in 1 .. Size :
                         /\ Batch[j].query \in Nat \ {0} /\ Batch[j].seq \in 1 .. MaxModelLen
                         /\ Batch[j].query <= Batch[j].seq
  OBVIOUS
<1>1. PICK c \in Calls : \E rank \in 0 .. c.ranks - 1, order \in Orders :
        call = [heads |-> c.heads, ranks |-> c.ranks, fp8 |-> c.fp8, batch |-> c.batch,
                rank |-> rank, order |-> order]
  BY DEF Called
<1>2. PICK rank \in 0 .. c.ranks - 1, order \in Orders :
        call = [heads |-> c.heads, ranks |-> c.ranks, fp8 |-> c.fp8, batch |-> c.batch,
                rank |-> rank, order |-> order]
  BY <1>1
<1>3. /\ call.heads = c.heads /\ call.ranks = c.ranks /\ call.fp8 = c.fp8
      /\ Batch = c.batch /\ call.rank = rank /\ call.order = order
  BY <1>2 DEF Batch
<1>4. /\ c.heads \in Nat \ {0} /\ c.ranks \in Nat \ {0} /\ c.fp8 \in BOOLEAN
      /\ c.batch \in Seq([query : Nat \ {0}, seq : 1 .. MaxModelLen]) \ {<<>>}
      /\ \A j \in DOMAIN c.batch : c.batch[j].query <= c.batch[j].seq
  BY SparseBackendAssumption
<1>5. /\ order \in Seq(0 .. MaxModelLen - 1)
      /\ \A i, j \in DOMAIN order : order[i] = order[j] => i = j
  BY SparseBackendAssumption
<1>6. /\ Len(c.batch) \in Nat \ {0} /\ DOMAIN c.batch = 1 .. Len(c.batch)
      /\ \A j \in 1 .. Len(c.batch) : c.batch[j] \in [query : Nat \ {0}, seq : 1 .. MaxModelLen]
  BY <1>4, EmptySeq, LenProperties, ElementOfSeq
<1>7. QED
  BY <1>3, <1>4, <1>5, <1>6 DEF Size, Requests

\* Tokens of a request follow those of the one before.
LEMMA StartFacts ==
  Called =>
    /\ QueryStart(1) = 0 /\ QueryStart(Size + 1) = TokenCount(Batch)
    /\ \A j \in 1 .. Size + 1 : QueryStart(j) \in Nat
    /\ \A j, k \in 1 .. Size + 1 : j <= k => QueryStart(j) <= QueryStart(k)
    /\ \A j \in 1 .. Size : QueryStart(j + 1) = QueryStart(j) + Batch[j].query
<1> SUFFICES ASSUME Called
             PROVE  /\ QueryStart(1) = 0 /\ QueryStart(Size + 1) = TokenCount(Batch)
                    /\ \A j \in 1 .. Size + 1 : QueryStart(j) \in Nat
                    /\ \A j, k \in 1 .. Size + 1 : j <= k => QueryStart(j) <= QueryStart(k)
                    /\ \A j \in 1 .. Size : QueryStart(j + 1) = QueryStart(j) + Batch[j].query
  OBVIOUS
<1> DEFINE f == Queries(Batch)
<1>1. Size \in Nat /\ \A j \in 1 .. Size : f[j] = Batch[j].query /\ f[j] \in Nat
  BY CallFacts DEF Queries, Requests, Size
<1> HIDE DEF f
<1>2. \A j : QueryStart(j) = Total(f, j - 1)
  BY DEF QueryStart, f
<1>3. TokenCount(Batch) = Total(f, Size)
  BY DEF TokenCount, f, Size
<1>4. /\ \A j \in 0 .. Size : Total(f, j) \in Nat
      /\ \A i, j \in 0 .. Size : i <= j => Total(f, i) <= Total(f, j)
  BY <1>1, TotalGrows
<1>5. \A j \in 1 .. Size + 1 : j - 1 \in 0 .. Size
  BY <1>1
<1>6. QueryStart(1) = 0 /\ QueryStart(Size + 1) = TokenCount(Batch)
  <2>1. 1 - 1 = 0 /\ (Size + 1) - 1 = Size
    BY <1>1
  <2>2. QED
    BY <1>2, <1>3, <2>1, TotalIs
<1>7. ASSUME NEW j \in 1 .. Size PROVE QueryStart(j + 1) = QueryStart(j) + Batch[j].query
  <2>1. j - 1 \in Nat /\ (j + 1) - 1 = (j - 1) + 1 /\ (j - 1) + 1 = j
    BY <1>1
  <2>2. Total(f, (j - 1) + 1) = Total(f, j - 1) + f[(j - 1) + 1]
    BY <2>1, TotalIs
  <2>3. QED
    BY <1>1, <1>2, <2>1, <2>2
<1>8. \A j, k \in 1 .. Size + 1 : j <= k => QueryStart(j) <= QueryStart(k)
  <2> TAKE j, k \in 1 .. Size + 1
  <2>1. j - 1 \in 0 .. Size /\ k - 1 \in 0 .. Size /\ (j <= k => j - 1 <= k - 1)
    BY <1>1
  <2>2. QED
    BY <1>2, <1>4, <2>1
<1>9. QED
  BY <1>2, <1>4, <1>5, <1>6, <1>7, <1>8

\* Every token is of one request, at a position of it.
LEMMA RequestFacts ==
  Called =>
    \A t \in Tokens :
      /\ t \in Nat \ {0} /\ RequestOf(t) \in 1 .. Size
      /\ QueryStart(RequestOf(t)) < t /\ t <= QueryStart(RequestOf(t) + 1)
      /\ PositionOf(t) \in Nat /\ PositionOf(t) < Batch[RequestOf(t)].seq
<1> SUFFICES ASSUME Called, NEW t \in Tokens
             PROVE  /\ t \in Nat \ {0} /\ RequestOf(t) \in 1 .. Size
                    /\ QueryStart(RequestOf(t)) < t /\ t <= QueryStart(RequestOf(t) + 1)
                    /\ PositionOf(t) \in Nat /\ PositionOf(t) < Batch[RequestOf(t)].seq
  OBVIOUS
<1>1. /\ Size \in Nat \ {0} /\ Requests = 1 .. Size
      /\ \A j \in 1 .. Size : /\ Batch[j].query \in Nat \ {0} /\ Batch[j].seq \in 1 .. MaxModelLen
                              /\ Batch[j].query <= Batch[j].seq
  BY CallFacts
<1>2. /\ QueryStart(1) = 0 /\ QueryStart(Size + 1) = TokenCount(Batch)
      /\ \A j \in 1 .. Size + 1 : QueryStart(j) \in Nat
      /\ \A j \in 1 .. Size : QueryStart(j + 1) = QueryStart(j) + Batch[j].query
  BY StartFacts
<1>3. 1 \in 1 .. Size + 1 /\ Size + 1 \in 1 .. Size + 1
  BY <1>1
<1>4. t \in Nat \ {0} /\ t <= QueryStart(Size + 1)
  BY <1>2, <1>3 DEF Tokens
<1> DEFINE T == { j \in 1 .. Size + 1 : t <= QueryStart(j) }
<1>5. PICK j \in T : \A k \in T : j <= k
  <2>1. T \subseteq Nat /\ Size + 1 \in T
    BY <1>1, <1>3, <1>4
  <2>2. QED
    BY <2>1, Smallest
<1>6. j - 1 \in 1 .. Size /\ QueryStart(j - 1) < t
  <2>1. j # 1
    BY <1>2, <1>4, <1>5
  <2>2. j - 1 \in 1 .. Size + 1 /\ j - 1 \in 1 .. Size /\ j - 1 < j
    BY <1>1, <1>5, <2>1
  <2>3. j - 1 \notin T
    BY <1>1, <1>5, <2>2
  <2>4. ~ (t <= QueryStart(j - 1)) /\ QueryStart(j - 1) \in Nat
    BY <1>2, <2>2, <2>3
  <2>5. QED
    BY <1>4, <2>2, <2>4
<1>7. t <= QueryStart(j - 1) + Batch[j - 1].query
  <2>1. t <= QueryStart(j) /\ (j - 1) + 1 = j
    BY <1>1, <1>5
  <2>2. QED
    BY <1>2, <1>6, <2>1
<1> DEFINE r == RequestOf(t)
<1>8. r \in 1 .. Size /\ QueryStart(r) < t /\ t <= QueryStart(r) + Batch[r].query
  BY <1>1, <1>6, <1>7 DEF RequestOf
<1> HIDE DEF r
<1>9. r \in 1 .. Size + 1 /\ QueryStart(r + 1) = QueryStart(r) + Batch[r].query
      /\ QueryStart(r) \in Nat
  BY <1>1, <1>2, <1>8
<1>10. PositionOf(t) = Batch[r].seq - Batch[r].query + (t - QueryStart(r)) - 1
  BY DEF PositionOf, r
<1>11. PositionOf(t) \in Nat /\ PositionOf(t) < Batch[r].seq
  <2>1. Batch[r].query \in Nat /\ Batch[r].seq \in Nat /\ Batch[r].query <= Batch[r].seq
    BY <1>1, <1>8
  <2>2. /\ t \in Nat /\ QueryStart(r) \in Nat
        /\ QueryStart(r) < t /\ t <= QueryStart(r) + Batch[r].query
    BY <1>4, <1>8, <1>9
  <2>3. QED
    BY <1>10, <2>1, <2>2
<1>12. QED
  BY <1>4, <1>8, <1>9, <1>11 DEF r

\* A token is of no other request.
LEMMA RequestUnique ==
  Called =>
    \A t \in Tokens : \A j \in 1 .. Size :
      QueryStart(j) < t /\ t <= QueryStart(j + 1) => j = RequestOf(t)
<1> SUFFICES ASSUME Called, NEW t \in Tokens, NEW j \in 1 .. Size,
                    QueryStart(j) < t, t <= QueryStart(j + 1)
             PROVE  j = RequestOf(t)
  OBVIOUS
<1> DEFINE r == RequestOf(t)
<1>1. r \in 1 .. Size /\ QueryStart(r) < t /\ t <= QueryStart(r + 1) /\ t \in Nat
  BY RequestFacts
<1>2. /\ Size \in Nat
      /\ \A i \in 1 .. Size + 1 : QueryStart(i) \in Nat
      /\ \A i, k \in 1 .. Size + 1 : i <= k => QueryStart(i) <= QueryStart(k)
  BY CallFacts, StartFacts
<1> HIDE DEF r
<1>3. j \in 1 .. Size + 1 /\ j + 1 \in 1 .. Size + 1 /\ r \in 1 .. Size + 1 /\ r + 1 \in 1 .. Size + 1
  BY <1>1, <1>2
<1>4. ~ (j + 1 <= r)
  BY <1>1, <1>2, <1>3
<1>5. ~ (r + 1 <= j)
  BY <1>1, <1>2, <1>3
<1>6. j = r
  BY <1>1, <1>2, <1>4, <1>5
<1>7. QED
  BY <1>6 DEF r

\* The decodes are the requests in front, all as long as the first.
LEMMA DecodeFacts ==
  Called =>
    /\ NumDecodes \in 0 .. Size /\ NumPrefills = Size - NumDecodes /\ NumPrefills \in Nat
    /\ \A j \in 1 .. NumDecodes : Batch[j].query = Batch[1].query
    /\ Batch[1].query <= Threshold =>
         /\ NumDecodes # 0
         /\ NumDecodes # Size => Batch[NumDecodes + 1].query # Batch[1].query
<1> SUFFICES ASSUME Called
             PROVE  /\ NumDecodes \in 0 .. Size /\ NumPrefills = Size - NumDecodes
                    /\ NumPrefills \in Nat
                    /\ \A j \in 1 .. NumDecodes : Batch[j].query = Batch[1].query
                    /\ Batch[1].query <= Threshold =>
                         /\ NumDecodes # 0
                         /\ NumDecodes # Size => Batch[NumDecodes + 1].query # Batch[1].query
  OBVIOUS
<1>1. /\ Size \in Nat \ {0} /\ Requests = 1 .. Size /\ Len(Batch) = Size
      /\ \A j \in 1 .. Size : Batch[j].query \in Nat
  BY CallFacts DEF Size
<1>2. CASE Batch[1].query > Threshold
  <2>1. NumDecodes = 0
    BY <1>2 DEF NumDecodes
  <2>2. ~ (Batch[1].query <= Threshold)
    <3>1. Threshold \in Nat /\ 1 \in 1 .. Size
      BY <1>1, SparseBackendAssumption
    <3>2. QED
      BY <1>1, <1>2, <3>1
  <2>3. QED
    BY <1>1, <2>1, <2>2 DEF NumPrefills
<1>3. CASE ~ (Batch[1].query > Threshold)
  <2> DEFINE q == Batch[1].query
             Last(n) == n = Size \/ Batch[n + 1].query # q
             T == { n \in 1 .. Size : Last(n) }
  <2>1. PICK n \in T : \A k \in T : n <= k
    <3>1. T \subseteq Nat /\ Size \in T
      BY <1>1
    <3>2. QED
      BY <3>1, Smallest
  <2>2. \A j \in 1 .. n : Batch[j].query = q
    <3> TAKE j \in 1 .. n
    <3>1. CASE j = 1
      BY <3>1
    <3>2. CASE j # 1
      <4>1. j - 1 \in 1 .. Size /\ j - 1 < n /\ (j - 1) + 1 = j /\ n \in Nat
        BY <1>1, <2>1, <3>2
      <4>2. j - 1 \notin T
        BY <2>1, <4>1
      <4>3. QED
        BY <4>1, <4>2
    <3>3. QED
      BY <3>1, <3>2
  <2> DEFINE Decodes(m) == /\ \A j \in 1 .. m : Batch[j].query = q
                           /\ Last(m)
  <2>3. NumDecodes = CHOOSE m \in 1 .. Size : Decodes(m)
    BY <1>1, <1>3 DEF NumDecodes
  <2>4. n \in 1 .. Size /\ Decodes(n)
    BY <2>1, <2>2
  <2>5. NumDecodes \in 1 .. Size /\ Decodes(NumDecodes)
    <3> HIDE DEF Decodes
    <3>1. QED
      BY <2>3, <2>4
  <2>6. QED
    BY <1>1, <2>5 DEF NumPrefills
<1>4. QED
  BY <1>2, <1>3

\* The tokens of the decodes come first.
LEMMA DecodeTokens ==
  Called =>
    /\ NumDecodeTokens \in 0 .. TokenCount(Batch) /\ TokenCount(Batch) \in Nat \ {0}
    /\ \A t \in Tokens : t <= NumDecodeTokens <=> RequestOf(t) <= NumDecodes
    /\ NumDecodes = Size => NumDecodeTokens = TokenCount(Batch)
    /\ NumDecodes = 0 => NumDecodeTokens = 0
    /\ NumDecodes # 0 => NumDecodeTokens = NumDecodes * Batch[1].query
<1> SUFFICES ASSUME Called
             PROVE  /\ NumDecodeTokens \in 0 .. TokenCount(Batch)
                    /\ TokenCount(Batch) \in Nat \ {0}
                    /\ \A t \in Tokens : t <= NumDecodeTokens <=> RequestOf(t) <= NumDecodes
                    /\ NumDecodes = Size => NumDecodeTokens = TokenCount(Batch)
                    /\ NumDecodes = 0 => NumDecodeTokens = 0
                    /\ NumDecodes # 0 => NumDecodeTokens = NumDecodes * Batch[1].query
  OBVIOUS
<1>1. /\ Size \in Nat \ {0} /\ NumDecodes \in 0 .. Size
      /\ \A j \in 1 .. Size : Batch[j].query \in Nat \ {0}
  BY CallFacts, DecodeFacts
<1>2. /\ QueryStart(1) = 0 /\ QueryStart(Size + 1) = TokenCount(Batch)
      /\ \A j \in 1 .. Size + 1 : QueryStart(j) \in Nat
      /\ \A j, k \in 1 .. Size + 1 : j <= k => QueryStart(j) <= QueryStart(k)
      /\ \A j \in 1 .. Size : QueryStart(j + 1) = QueryStart(j) + Batch[j].query
  BY StartFacts
<1>3. NumDecodeTokens = QueryStart(NumDecodes + 1) /\ NumDecodes + 1 \in 1 .. Size + 1
  BY <1>1 DEF NumDecodeTokens
<1>4. NumDecodeTokens \in 0 .. TokenCount(Batch)
  BY <1>1, <1>2, <1>3
<1>5. TokenCount(Batch) \in Nat \ {0}
  <2>1. Size + 1 \in 1 .. Size + 1 /\ 1 \in 1 .. Size /\ 2 \in 1 .. Size + 1 /\ 2 <= Size + 1
    BY <1>1
  <2>2. QueryStart(1 + 1) = QueryStart(1) + Batch[1].query
    BY <1>2, <2>1
  <2>3. QueryStart(2) > 0
    BY <1>1, <1>2, <2>1, <2>2
  <2>4. QED
    BY <1>2, <2>1, <2>3
<1>6. ASSUME NEW t \in Tokens PROVE t <= NumDecodeTokens <=> RequestOf(t) <= NumDecodes
  <2> DEFINE r == RequestOf(t)
  <2>1. /\ t \in Nat /\ r \in 1 .. Size /\ QueryStart(r) < t /\ t <= QueryStart(r + 1)
    BY RequestFacts
  <2> HIDE DEF r
  <2>2. r \in 1 .. Size + 1 /\ r + 1 \in 1 .. Size + 1
    BY <1>1, <2>1
  <2>3. r <= NumDecodes => t <= NumDecodeTokens
    <3>1. r <= NumDecodes => r + 1 <= NumDecodes + 1
      BY <1>1, <2>1
    <3>2. QED
      BY <1>2, <1>3, <2>1, <2>2, <3>1
  <2>4. ~ (r <= NumDecodes) => ~ (t <= NumDecodeTokens)
    <3>1. ~ (r <= NumDecodes) => NumDecodes + 1 <= r
      BY <1>1, <2>1
    <3>2. QED
      BY <1>2, <1>3, <2>1, <2>2, <3>1
  <2>5. QED
    BY <2>3, <2>4 DEF r
<1>7. NumDecodes # 0 => NumDecodeTokens = NumDecodes * Batch[1].query
  <2> SUFFICES ASSUME NumDecodes # 0 PROVE NumDecodeTokens = NumDecodes * Batch[1].query
    OBVIOUS
  <2> DEFINE f == Queries(Batch)
             q == Batch[1].query
  <2>1. \A j \in 1 .. NumDecodes : f[j] = q
    BY <1>1, DecodeFacts, CallFacts DEF Queries, Requests
  <2>2. q \in Nat /\ NumDecodes \in Nat /\ NumDecodes \in 0 .. NumDecodes
    BY <1>1
  <2> HIDE DEF f, q
  <2>3. Total(f, NumDecodes) = NumDecodes * q
    BY <2>1, <2>2, TotalEqual
  <2>4. NumDecodeTokens = Total(f, (NumDecodes + 1) - 1) /\ (NumDecodes + 1) - 1 = NumDecodes
    BY <1>1, <1>3 DEF QueryStart, f
  <2>5. QED
    BY <2>3, <2>4 DEF q
<1>8. QED
  BY <1>1, <1>2, <1>3, <1>4, <1>5, <1>6, <1>7

\* The lengths of the prefills, and what comes before prefill i in one workspace.
PrefillLens == [k \in 1 .. NumPrefills |-> PrefillLen(k)]

Before(i) == Total(PrefillLens, i - 1)

\* Where the prefills would start in a workspace for all of them.
LEMMA BeforeFacts ==
  Called =>
    /\ \A i \in 1 .. NumPrefills + 1 : Before(i) \in Nat
    /\ \A i, k \in 1 .. NumPrefills + 1 : i <= k => Before(i) <= Before(k)
    /\ \A i \in 1 .. NumPrefills :
         /\ PrefillLen(i) \in 1 .. MaxModelLen /\ PrefillLen(i) = Batch[NumDecodes + i].seq
         /\ Before(i + 1) = Before(i) + PrefillLen(i)
<1> SUFFICES ASSUME Called
             PROVE  /\ \A i \in 1 .. NumPrefills + 1 : Before(i) \in Nat
                    /\ \A i, k \in 1 .. NumPrefills + 1 : i <= k => Before(i) <= Before(k)
                    /\ \A i \in 1 .. NumPrefills :
                         /\ PrefillLen(i) \in 1 .. MaxModelLen
                         /\ PrefillLen(i) = Batch[NumDecodes + i].seq
                         /\ Before(i + 1) = Before(i) + PrefillLen(i)
  OBVIOUS
<1> DEFINE f == PrefillLens
           P == NumPrefills
<1>1. /\ Size \in Nat /\ NumDecodes \in 0 .. Size /\ P = Size - NumDecodes /\ P \in Nat
      /\ \A j \in 1 .. Size : Batch[j].seq \in 1 .. MaxModelLen
  BY CallFacts, DecodeFacts
<1>2. \A i \in 1 .. P : PrefillLen(i) \in 1 .. MaxModelLen
                        /\ PrefillLen(i) = Batch[NumDecodes + i].seq
  <2>1. \A i \in 1 .. P : NumDecodes + i \in 1 .. Size
    BY <1>1
  <2>2. QED
    BY <1>1, <2>1 DEF PrefillLen
<1>3. \A i \in 1 .. P : f[i] = PrefillLen(i) /\ f[i] \in Nat
  <2>1. MaxModelLen \in Nat
    BY SparseBackendAssumption
  <2>2. QED
    BY <1>2, <2>1 DEF PrefillLens
<1> HIDE DEF f, P
<1>4. \A i : Before(i) = Total(f, i - 1)
  BY DEF Before, f
<1>5. /\ \A j \in 0 .. P : Total(f, j) \in Nat
      /\ \A i, j \in 0 .. P : i <= j => Total(f, i) <= Total(f, j)
  BY <1>1, <1>3, TotalGrows
<1>6. \A i \in 1 .. P + 1 : i - 1 \in 0 .. P /\ Before(i) \in Nat
  BY <1>1, <1>4, <1>5
<1>7. \A i, k \in 1 .. P + 1 : i <= k => Before(i) <= Before(k)
  <2> TAKE i, k \in 1 .. P + 1
  <2>1. i - 1 \in 0 .. P /\ k - 1 \in 0 .. P /\ (i <= k => i - 1 <= k - 1)
    BY <1>1
  <2>2. QED
    BY <1>4, <1>5, <2>1
<1>8. ASSUME NEW i \in 1 .. P PROVE Before(i + 1) = Before(i) + PrefillLen(i)
  <2>1. i - 1 \in Nat /\ (i + 1) - 1 = (i - 1) + 1 /\ (i - 1) + 1 = i
    BY <1>1
  <2>2. Total(f, (i - 1) + 1) = Total(f, i - 1) + f[(i - 1) + 1]
    BY <2>1, TotalIs
  <2>3. QED
    BY <1>3, <1>4, <2>1, <2>2
<1>9. QED
  BY <1>2, <1>6, <1>7, <1>8 DEF P

\* Prefills i .. k take what lies between their places.
LEMMA LensFacts ==
  Called =>
    \A i, k \in 1 .. NumPrefills : i <= k => Lens(i, k) = Before(k + 1) - Before(i)
<1> SUFFICES ASSUME Called, NEW i \in 1 .. NumPrefills, NEW k \in 1 .. NumPrefills, i <= k
             PROVE  Lens(i, k) = Before(k + 1) - Before(i)
  OBVIOUS
<1> DEFINE f == PrefillLens
           m == i - 1
           n == k - i + 1
           g == [j \in 1 .. n |-> PrefillLen(i + j - 1)]
<1>1. m \in Nat /\ n \in Nat /\ m + n = k /\ (k + 1) - 1 = k
  BY DecodeFacts
<1>2. \A j \in 1 .. k : f[j] \in Nat
  <2>1. MaxModelLen \in Nat /\ \A j \in 1 .. k : j \in 1 .. NumPrefills
    BY DecodeFacts, SparseBackendAssumption
  <2>2. QED
    BY <2>1, BeforeFacts DEF PrefillLens
<1>3. \A j \in 1 .. n : g[j] = f[m + j]
  <2> TAKE j \in 1 .. n
  <2>1. m + j \in 1 .. NumPrefills /\ m + j = i + j - 1
    BY DecodeFacts
  <2>2. QED
    BY <2>1 DEF PrefillLens
<1>4. Lens(i, k) = Total(g, n)
  BY DEF Lens
<1>5. Before(k + 1) = Total(f, k) /\ Before(i) = Total(f, m)
  BY <1>1 DEF Before
<1> HIDE DEF f, m, n, g
<1>6. Total(g, n) = Total(f, m + n) - Total(f, m)
  <2>1. \A j \in 1 .. m + n : f[j] \in Nat
    BY <1>1, <1>2
  <2>2. QED
    BY <1>1, <1>3, <2>1, TotalPart
<1>7. QED
  BY <1>1, <1>4, <1>5, <1>6

-----------------------------------------------------------------------------
(* While the call stays, so does all that is computed from it.             *)

\* The batch, its requests and its tokens.
LEMMA CallKept ==
  ASSUME call' = call
  PROVE  /\ Batch' = Batch /\ Size' = Size /\ Tokens' = Tokens /\ WantLse' = WantLse
         /\ QHeads' = QHeads /\ Separate' = Separate /\ Mixed' = Mixed
         /\ (Called' <=> Called)
         /\ \A j : QueryStart(j)' = QueryStart(j)
         /\ NumDecodes' = NumDecodes /\ NumPrefills' = NumPrefills
         /\ NumDecodeTokens' = NumDecodeTokens
         /\ \A t : RequestOf(t)' = RequestOf(t) /\ PositionOf(t)' = PositionOf(t)
         /\ \A t : PrefillRequestId(t)' = PrefillRequestId(t)
         /\ \A i : PrefillLen(i)' = PrefillLen(i) /\ Before(i)' = Before(i)
         /\ \A i, k : Lens(i, k)' = Lens(i, k) /\ TokensSlice(i, k)' = TokensSlice(i, k)
<1>1. Batch' = Batch
  BY DEF Batch
<1>2. Size' = Size /\ Tokens' = Tokens /\ WantLse' = WantLse /\ QHeads' = QHeads
      /\ Separate' = Separate /\ Mixed' = Mixed /\ Requests' = Requests
  BY <1>1 DEF Size, Tokens, WantLse, QHeads, Separate, Mixed, Requests
<1>3. Called' <=> Called
  BY DEF Called
<1>4. \A j : QueryStart(j)' = QueryStart(j)
  BY <1>1 DEF QueryStart
<1>5. NumDecodes' = NumDecodes
  BY <1>1, <1>2 DEF NumDecodes
<1>6. NumPrefills' = NumPrefills /\ NumDecodeTokens' = NumDecodeTokens
  BY <1>1, <1>4, <1>5 DEF NumPrefills, NumDecodeTokens
<1>7. \A t : RequestOf(t)' = RequestOf(t)
  BY <1>1, <1>2, <1>4 DEF RequestOf
<1>8. \A t : PositionOf(t)' = PositionOf(t)
  BY <1>1, <1>4, <1>7 DEF PositionOf
<1>9. \A t : PrefillRequestId(t)' = PrefillRequestId(t)
  BY <1>5, <1>7 DEF PrefillRequestId
<1>10. \A i : PrefillLen(i)' = PrefillLen(i)
  BY <1>1, <1>5 DEF PrefillLen
<1>11. \A i : Before(i)' = Before(i)
  <2>1. PrefillLens' = PrefillLens
    BY <1>6, <1>10 DEF PrefillLens
  <2>2. QED
    BY <2>1 DEF Before
<1>12. \A i, k : Lens(i, k)' = Lens(i, k) /\ TokensSlice(i, k)' = TokensSlice(i, k)
  <2>1. \A i, k : [j \in 1 .. k - i + 1 |-> PrefillLen(i + j - 1)]' =
                  [j \in 1 .. k - i + 1 |-> PrefillLen(i + j - 1)]
    BY <1>10
  <2>2. \A i, k : Lens(i, k)' = Lens(i, k)
    BY <2>1 DEF Lens
  <2>3. QED
    BY <1>4, <1>5, <2>2 DEF TokensSlice
<1>13. QED
  BY <1>1, <1>2, <1>3, <1>4, <1>5, <1>6, <1>7, <1>8, <1>9, <1>10, <1>11, <1>12

-----------------------------------------------------------------------------
(* What holds while a batch is built and served.                           *)

\* Whether the prefills go through the workspace.
Chunked == Separate /\ NumPrefills > 0

ChunkOf(i, k) ==
  [first |-> i, last |-> k, tokens |-> TokensSlice(i, k), size |-> Lens(i, k)]

ChunkSet ==
  { ChunkOf(r[1], r[2]) : r \in { q \in (1 .. NumPrefills) \X (1 .. NumPrefills) : q[1] <= q[2] } }

\* The chunks so far are consecutive, fit the workspace and hold the first prefills, and
\* each of these starts where those of its chunk before it end.
ChunksSound ==
  /\ meta.chunks \in Seq(ChunkSet) /\ cpu \in [1 .. NumPrefills -> Int]
  /\ \A k \in DOMAIN meta.chunks : LET c == meta.chunks[k] IN
       /\ c.size <= WorkspaceSize
       /\ \A i \in c.first .. c.last : cpu[i] = Before(i) - Before(c.first)
  /\ \A k, l \in DOMAIN meta.chunks : k < l => meta.chunks[k].last < meta.chunks[l].first
  /\ \A i \in 1 .. ChunksEnd :
       \E k \in DOMAIN meta.chunks : meta.chunks[k].first <= i /\ i <= meta.chunks[k].last
  /\ \A i \in ChunksEnd + 1 .. NumPrefills : cpu[i] = Before(i)

\* The metadata, while it is built and after.
MetaSound ==
  pc # "idle" =>
    IF Chunked
      THEN /\ meta = [requestIds |-> [t \in Tokens |-> PrefillRequestId(t)],
                      starts |-> meta.starts, chunks |-> meta.chunks]
           /\ ChunksSound
           /\ IF pc = "chunking" THEN meta.starts = <<>>
                                 ELSE meta.starts = cpu /\ ChunksEnd = NumPrefills
      ELSE meta = NoMeta /\ pc # "chunking"

Pcs == {"idle", "chunking", "ready", "convert", "decode", "gather", "attend",
        "returned", "raised"}

Built ==
  /\ pc \in Pcs /\ layer \in 1 .. Layers /\ chunk \in 1 .. Len(meta.chunks) + 1
  /\ pc = "attend" => chunk <= Len(meta.chunks)
  /\ pc = "idle" => call = NoCall /\ meta = NoMeta
  /\ pc # "idle" => Called
  /\ DOMAIN lanes \in {{}, Tokens} /\ DOMAIN out \in {{}, Tokens}
  /\ MetaSound

\* A row is as it should be for t: each of its keys once and nothing else.
RightRow(t, row) ==
  /\ { row.keys[i] : i \in DOMAIN row.keys } = Selected(t)
  /\ \A i, j \in DOMAIN row.keys : row.keys[i] = row.keys[j] => i = j
  /\ row.heads = QHeads

RowRight(t) == RightRow(t, out[t])

LseRight(t) == lse[t] = [h \in 1 .. out[t].heads |-> <<t, h, "e">>]

\* What the indexer, and the owned mask, leave for token t.
LanesOf(t) ==
  IF WantLse THEN OwnedRow(Ranked(t, call.order), call) ELSE Ranked(t, call.order)

\* Prefill i is in a chunk the loop is through with.
Through(i) ==
  \E k \in 1 .. chunk - 1 : meta.chunks[k].first <= i /\ i <= meta.chunks[k].last

\* The workspace holds the keys of the chunk's prefills, each from its start.
GatheredRight ==
  LET c == meta.chunks[chunk]
  IN  \A i \in c.first .. c.last : \A p \in 0 .. PrefillLen(i) - 1 :
        workspace[meta.starts[i] + p] = Cached(layer, NumDecodes + i, p)

Serving == {"convert", "decode", "gather", "attend"}

\* Rows that are written are right, on every path.
Answered ==
  /\ DOMAIN workspace = 0 .. WorkspaceSize - 1
  /\ pc \in Serving \cup {"returned"} => DOMAIN out = Tokens
  /\ pc \in Serving => lanes = [t \in Tokens |-> LanesOf(t)] /\ (WantLse => call.fp8)
  /\ pc \in {"convert", "decode"} => chunk = 1
  /\ pc \in {"decode", "gather", "attend"} =>
       Separate /\ indices = Converted /\ counts = ValidCounts
  /\ pc = "decode" => NumDecodeTokens > 0
  /\ pc \in {"gather", "attend"} =>
       /\ NumPrefills > 0 /\ chunk <= Len(meta.chunks)
       /\ \A t \in Tokens : RequestOf(t) <= NumDecodes => RowRight(t)
       /\ \A t \in Tokens : Through(RequestOf(t) - NumDecodes) => RowRight(t)
  /\ pc = "attend" => GatheredRight
  /\ pc = "returned" => \A t \in Tokens : RowRight(t) /\ (WantLse => LseRight(t))

\* A chunk of the list.
LEMMA ChunkFacts ==
  ASSUME Called, ChunksSound
  PROVE  /\ Len(meta.chunks) \in Nat /\ DOMAIN meta.chunks = 1 .. Len(meta.chunks)
         /\ ChunksEnd \in 0 .. NumPrefills
         /\ \A k \in DOMAIN meta.chunks : LET c == meta.chunks[k] IN
              /\ c = ChunkOf(c.first, c.last)
              /\ c.first \in 1 .. NumPrefills /\ c.last \in 1 .. NumPrefills
              /\ c.first <= c.last /\ c.last <= ChunksEnd
              /\ c.size = Before(c.last + 1) - Before(c.first)
<1>1. /\ meta.chunks \in Seq(ChunkSet)
      /\ \A k, l \in DOMAIN meta.chunks : k < l => meta.chunks[k].last < meta.chunks[l].first
  BY DEF ChunksSound
<1>2. /\ Len(meta.chunks) \in Nat /\ DOMAIN meta.chunks = 1 .. Len(meta.chunks)
      /\ \A k \in DOMAIN meta.chunks : meta.chunks[k] \in ChunkSet
      /\ meta.chunks # <<>> => Len(meta.chunks) # 0
  BY <1>1, EmptySeq, LenProperties, ElementOfSeq
<1>3. \A c \in ChunkSet : /\ c = ChunkOf(c.first, c.last)
                          /\ c.first \in 1 .. NumPrefills /\ c.last \in 1 .. NumPrefills
                          /\ c.first <= c.last /\ c.size = Lens(c.first, c.last)
  BY DEF ChunkSet, ChunkOf
<1>4. NumPrefills \in Nat
  BY DecodeFacts
<1>5. \A k \in DOMAIN meta.chunks : meta.chunks[k].last <= ChunksEnd
  <2> SUFFICES ASSUME NEW k \in DOMAIN meta.chunks PROVE meta.chunks[k].last <= ChunksEnd
    OBVIOUS
  <2> DEFINE n == Len(meta.chunks)
  <2>1. k \in 1 .. n /\ n \in 1 .. n /\ meta.chunks # <<>>
    <3>1. k \in 1 .. n /\ n \in Nat
      BY <1>2
    <3>2. meta.chunks # <<>>
      <4>1. DOMAIN <<>> = {}
        OBVIOUS
      <4>2. QED
        BY <4>1
    <3>3. QED
      BY <3>1, <3>2
  <2>2. ChunksEnd = meta.chunks[n].last
    BY <2>1 DEF ChunksEnd
  <2>3. meta.chunks[k].last \in Nat /\ meta.chunks[n].first \in Nat /\ meta.chunks[n].last \in Nat
        /\ meta.chunks[n].first <= meta.chunks[n].last
    BY <1>2, <1>3, <1>4, <2>1
  <2>4. CASE k = n
    BY <2>2, <2>3, <2>4
  <2>5. CASE k # n
    <3>1. k < n
      BY <1>2, <2>1, <2>5
    <3>2. meta.chunks[k].last < meta.chunks[n].first
      BY <1>1, <1>2, <2>1, <3>1
    <3>3. QED
      BY <2>2, <2>3, <3>2
  <2>6. QED
    BY <2>4, <2>5
<1>6. ChunksEnd \in 0 .. NumPrefills
  <2>1. CASE meta.chunks = <<>>
    BY <1>4, <2>1 DEF ChunksEnd
  <2>2. CASE meta.chunks # <<>>
    <3>1. Len(meta.chunks) \in DOMAIN meta.chunks
      BY <1>2, <2>2
    <3>2. QED
      BY <1>2, <1>3, <1>4, <2>2, <3>1 DEF ChunksEnd
  <2>3. QED
    BY <2>1, <2>2
<1>7. QED
  BY <1>2, <1>3, <1>5, <1>6, LensFacts

\* Before the first chunk every prefill starts after those in front of it.
LEMMA NoChunks ==
  Called /\ meta.chunks = <<>> /\ cpu = [i \in 1 .. NumPrefills |-> Before(i)] => ChunksSound
<1> SUFFICES ASSUME Called, meta.chunks = <<>>, cpu = [i \in 1 .. NumPrefills |-> Before(i)]
             PROVE  ChunksSound
  OBVIOUS
<1>1. NumPrefills \in Nat /\ ChunksEnd = 0
  BY DecodeFacts DEF ChunksEnd
<1>2. \A i \in 1 .. NumPrefills : i \in 1 .. NumPrefills + 1 /\ Before(i) \in Int
  <2>1. \A i \in 1 .. NumPrefills : i \in 1 .. NumPrefills + 1
    BY <1>1
  <2>2. QED
    BY <2>1, BeforeFacts
<1>3. cpu \in [1 .. NumPrefills -> Int]
  BY <1>2
<1>4. <<>> \in Seq(ChunkSet) /\ DOMAIN <<>> = {}
  BY EmptySeq
<1>5. QED
  BY <1>1, <1>3, <1>4 DEF ChunksSound

\* The chunk the loop comes to next: it fits, and one prefill always does.
LEMMA NextChunk ==
  ASSUME Called, NEW first \in 1 .. NumPrefills
  PROVE  LET last == CHOOSE k \in first .. NumPrefills :
                       ChunkFits(first, k) /\ (k = NumPrefills \/ ~ChunkFits(first, k + 1))
         IN  last \in first .. NumPrefills /\ ChunkFits(first, last)
<1>1. NumPrefills \in Nat
  BY DecodeFacts
<1>2. ChunkFits(first, first)
  <2>1. Lens(first, first) = Before(first + 1) - Before(first)
    BY <1>1, LensFacts
  <2>2. first \in 1 .. NumPrefills + 1 /\ first + 1 \in 1 .. NumPrefills + 1
    BY <1>1
  <2>3. /\ Before(first) \in Nat /\ Before(first + 1) = Before(first) + PrefillLen(first)
        /\ PrefillLen(first) \in 1 .. MaxModelLen
    BY <2>2, BeforeFacts
  <2>4. MaxModelLen \in Nat /\ WorkspaceSize \in Nat /\ MaxModelLen <= WorkspaceSize
    <3>1. MaxModelLen \in Nat /\ WorkspaceFactor \in Nat \ {0}
      BY SparseBackendAssumption
    <3>2. WorkspaceFactor * MaxModelLen = MaxModelLen + (WorkspaceFactor - 1) * MaxModelLen
      BY <3>1
    <3>3. (WorkspaceFactor - 1) * MaxModelLen \in Nat
      BY <3>1
    <3>4. QED
      BY <3>1, <3>2, <3>3 DEF WorkspaceSize
  <2>5. Lens(first, first) = PrefillLen(first)
    BY <2>1, <2>3, <2>4
  <2>6. QED
    BY <2>3, <2>4, <2>5 DEF ChunkFits
<1> DEFINE End(k) == ChunkFits(first, k) /\ (k = NumPrefills \/ ~ChunkFits(first, k + 1))
<1>3. \E k \in first .. NumPrefills : End(k)
  <2> SUFFICES ASSUME \A k \in first .. NumPrefills : ~ End(k) PROVE FALSE
    OBVIOUS
  <2> DEFINE T == { n \in Nat : first + n <= NumPrefills => ChunkFits(first, first + n) }
  <2>1. 0 \in T
    BY <1>1, <1>2
  <2>2. ASSUME NEW n \in Nat, n \in T PROVE n + 1 \in T
    <3> SUFFICES ASSUME first + (n + 1) <= NumPrefills PROVE ChunkFits(first, first + (n + 1))
      OBVIOUS
    <3>1. first + n \in first .. NumPrefills /\ first + n # NumPrefills
          /\ (first + n) + 1 = first + (n + 1)
      BY <1>1
    <3>2. ChunkFits(first, first + n)
      BY <2>2, <3>1
    <3>3. ~ End(first + n)
      BY <3>1
    <3>4. QED
      BY <3>1, <3>2, <3>3
  <2>3. Nat \subseteq T
    <3> HIDE DEF T
    <3>1. QED
      BY <2>1, <2>2, Induction
  <2>4. NumPrefills - first \in Nat /\ first + (NumPrefills - first) = NumPrefills
        /\ NumPrefills \in first .. NumPrefills
    BY <1>1
  <2>5. ChunkFits(first, NumPrefills)
    <3>1. NumPrefills - first \in T
      BY <2>3, <2>4
    <3>2. first + (NumPrefills - first) <= NumPrefills
            => ChunkFits(first, first + (NumPrefills - first))
      BY <3>1
    <3>3. QED
      BY <1>1, <2>4, <3>2
  <2>6. QED
    BY <2>4, <2>5
<1> DEFINE last == CHOOSE k \in first .. NumPrefills : End(k)
<1>4. last \in first .. NumPrefills /\ End(last)
  <2> HIDE DEF End
  <2>1. QED
    BY <1>3
<1>5. QED
  BY <1>4

-----------------------------------------------------------------------------
(* Building a batch.                                                       *)

\* Nothing is scheduled at first.
LEMMA InitBuilt == Init => Built
<1> SUFFICES ASSUME Init PROVE Built
  OBVIOUS
<1>1. Layers \in Nat \ {0}
  BY SparseBackendAssumption
<1>2. /\ pc = "idle" /\ layer = 1 /\ chunk = 1 /\ call = NoCall /\ meta = NoMeta
      /\ lanes = <<>> /\ out = <<>>
  BY DEF Init
<1>3. Len(meta.chunks) = 0
  BY <1>2 DEF NoMeta
<1>4. DOMAIN lanes = {} /\ DOMAIN out = {}
  BY <1>2
<1>5. QED
  BY <1>1, <1>2, <1>3, <1>4 DEF Built, Pcs, MetaSound

\* Scheduling a batch starts its chunks, if it needs any.
LEMMA BuildStep ==
  ASSUME Built, build
  PROVE  Built'
<1>1. pc = "idle" /\ layer' = 1 /\ chunk' = 1 /\ lanes' = lanes /\ out' = out
  BY DEF build
<1>2. Called'
  BY DEF build, Called
<1>3. DOMAIN lanes = {} /\ DOMAIN out = {}
  <2>1. call = NoCall /\ DOMAIN lanes \in {{}, Tokens} /\ DOMAIN out \in {{}, Tokens}
    BY <1>1 DEF Built
  <2>2. Tokens = {}
    <3>1. TokenCount(Batch) = 0
      BY <2>1, TotalIs DEF TokenCount, Batch, NoCall
    <3>2. QED
      BY <3>1 DEF Tokens
  <2>3. QED
    BY <2>1, <2>2
<1>4. Layers \in Nat \ {0}
  BY SparseBackendAssumption
<1>5. CASE Chunked'
  <2>1. /\ pc' = "chunking" /\ cpu' = [i \in 1 .. NumPrefills |-> Before(i)]'
        /\ meta' = [requestIds |-> [t \in Tokens |-> PrefillRequestId(t)]',
                    starts |-> <<>>, chunks |-> <<>>]
    BY <1>5 DEF build, Chunked, Before, PrefillLens
  <2>2. meta'.chunks = <<>> /\ meta'.starts = <<>> /\ Len(meta'.chunks) = 0
        /\ meta' = [requestIds |-> [t \in Tokens |-> PrefillRequestId(t)]',
                    starts |-> meta'.starts, chunks |-> meta'.chunks]
    BY <2>1
  <2>3. ChunksSound'
    <3>1. (Called /\ meta.chunks = <<>> /\ cpu = [i \in 1 .. NumPrefills |-> Before(i)]
             => ChunksSound)'
      BY NoChunks, PTL
    <3>2. QED
      BY <1>2, <2>1, <2>2, <3>1
  <2>4. MetaSound'
    BY <1>5, <2>1, <2>2, <2>3 DEF MetaSound
  <2>5. QED
    BY <1>1, <1>2, <1>3, <1>4, <2>1, <2>2, <2>4 DEF Built, Pcs
<1>6. CASE ~ Chunked'
  <2>1. pc' = "ready" /\ meta' = NoMeta
    BY <1>6 DEF build, Chunked
  <2>2. Len(meta'.chunks) = 0
    BY <2>1 DEF NoMeta
  <2>3. MetaSound'
    BY <1>6, <2>1 DEF MetaSound
  <2>4. QED
    BY <1>1, <1>2, <1>3, <1>4, <2>1, <2>2, <2>3 DEF Built, Pcs
<1>7. QED
  BY <1>5, <1>6

\* One more chunk.
LEMMA AppendChunkStep ==
  ASSUME Built, AppendChunk
  PROVE  Built'
<1> DEFINE first == ChunksEnd + 1
           last  == CHOOSE k \in first .. NumPrefills :
                      ChunkFits(first, k) /\ (k = NumPrefills \/ ~ChunkFits(first, k + 1))
           c == ChunkOf(first, last)
           n == Len(meta.chunks)
<1>1. /\ pc = "chunking" /\ ChunksEnd < NumPrefills
      /\ cpu' = Adjusted(first, last)
      /\ meta' = [meta EXCEPT !.chunks = Append(@, c)]
      /\ call' = call /\ pc' = pc /\ lanes' = lanes /\ layer' = layer /\ chunk' = chunk
      /\ out' = out
  BY DEF AppendChunk, ChunkOf
<1>2. Called /\ Chunked /\ ChunksSound /\ meta.starts = <<>>
      /\ meta = [requestIds |-> [t \in Tokens |-> PrefillRequestId(t)],
                 starts |-> meta.starts, chunks |-> meta.chunks]
  BY <1>1 DEF Built, MetaSound
<1>3. NumPrefills \in Nat /\ ChunksEnd \in 0 .. NumPrefills /\ first \in 1 .. NumPrefills
      /\ n \in Nat /\ DOMAIN meta.chunks = 1 .. n
  BY <1>1, <1>2, ChunkFacts, DecodeFacts
<1>4. last \in first .. NumPrefills /\ ChunkFits(first, last)
  BY <1>2, <1>3, NextChunk
<1> HIDE DEF last
<1>5. c \in ChunkSet
  <2>1. <<first, last>> \in { q \in (1 .. NumPrefills) \X (1 .. NumPrefills) : q[1] <= q[2] }
    BY <1>3, <1>4
  <2>2. QED
    BY <2>1 DEF ChunkSet
<1>6. /\ meta'.requestIds = meta.requestIds /\ meta'.starts = meta.starts
      /\ meta'.chunks = Append(meta.chunks, c)
      /\ meta' = [requestIds |-> meta'.requestIds, starts |-> meta'.starts,
                  chunks |-> meta'.chunks]
  BY <1>1, <1>2
<1>7. /\ meta'.chunks \in Seq(ChunkSet) /\ Len(meta'.chunks) = n + 1
      /\ DOMAIN meta'.chunks = 1 .. n + 1
      /\ \A k \in 1 .. n : meta'.chunks[k] = meta.chunks[k]
      /\ meta'.chunks[n + 1] = c
  <2>1. meta.chunks \in Seq(ChunkSet)
    BY <1>2 DEF ChunksSound
  <2> HIDE DEF c
  <2>2. QED
    BY <1>3, <1>5, <1>6, <2>1, AppendProperties
<1>8. c.first = first /\ c.last = last /\ c.size = Lens(first, last)
  BY DEF ChunkOf
<1> HIDE DEF c
<1>9. ChunksEnd' = last
  <2>1. meta'.chunks # <<>>
    BY <1>3, <1>7
  <2>2. QED
    BY <1>7, <1>8, <2>1 DEF ChunksEnd
<1>10. /\ NumPrefills' = NumPrefills /\ ChunkSet' = ChunkSet /\ Tokens' = Tokens
       /\ (Chunked' <=> Chunked) /\ (Called' <=> Called) /\ \A i : Before(i)' = Before(i)
       /\ \A t : PrefillRequestId(t)' = PrefillRequestId(t)
  <2>1. \A i, k : ChunkOf(i, k)' = ChunkOf(i, k)
    BY <1>1, CallKept DEF ChunkOf
  <2>2. ChunkSet' = ChunkSet
    BY <1>1, <2>1, CallKept DEF ChunkSet
  <2>3. QED
    BY <1>1, <2>2, CallKept DEF Chunked
<1>11. /\ cpu \in [1 .. NumPrefills -> Int]
       /\ cpu' = [i \in 1 .. NumPrefills |->
                    IF first <= i /\ i <= last THEN cpu[i] - cpu[first] ELSE cpu[i]]
  BY <1>1, <1>2 DEF ChunksSound, Adjusted
<1>12. cpu' \in [1 .. NumPrefills -> Int]
  BY <1>3, <1>11
<1>13. \A i \in first .. NumPrefills : cpu[i] = Before(i)
  BY <1>2 DEF ChunksSound
<1>14. \A k \in 1 .. n + 1 : LET d == meta'.chunks[k] IN
         /\ d.size <= WorkspaceSize
         /\ \A i \in d.first .. d.last : cpu'[i] = Before(i) - Before(d.first)
  <2> SUFFICES ASSUME NEW k \in 1 .. n + 1
               PROVE  /\ meta'.chunks[k].size <= WorkspaceSize
                      /\ \A i \in meta'.chunks[k].first .. meta'.chunks[k].last :
                           cpu'[i] = Before(i) - Before(meta'.chunks[k].first)
    OBVIOUS
  <2>1. CASE k = n + 1
    <3>1. c.size <= WorkspaceSize
      BY <1>4, <1>8 DEF ChunkFits
    <3>2. \A i \in first .. last : cpu'[i] = Before(i) - Before(first)
      <4> TAKE i \in first .. last
      <4>1. i \in 1 .. NumPrefills /\ i \in first .. NumPrefills /\ first \in first .. NumPrefills
            /\ first <= i /\ i <= last
        BY <1>3, <1>4
      <4>2. QED
        BY <1>11, <1>13, <4>1
    <3>3. QED
      BY <1>7, <1>8, <2>1, <3>1, <3>2
  <2>2. CASE k \in 1 .. n
    <3> DEFINE d == meta.chunks[k]
    <3>1. meta'.chunks[k] = d
      BY <1>7, <2>2
    <3>2. /\ d.size <= WorkspaceSize
          /\ \A i \in d.first .. d.last : cpu[i] = Before(i) - Before(d.first)
      BY <1>2, <1>3, <2>2 DEF ChunksSound
    <3>3. /\ d.first \in 1 .. NumPrefills /\ d.last \in 1 .. NumPrefills /\ d.last <= ChunksEnd
      BY <1>2, <1>3, <2>2, ChunkFacts
    <3> HIDE DEF d
    <3>4. \A i \in d.first .. d.last : cpu'[i] = cpu[i]
      <4> TAKE i \in d.first .. d.last
      <4>1. i \in 1 .. NumPrefills /\ ~ (first <= i)
        BY <1>3, <3>3
      <4>2. QED
        BY <1>11, <4>1
    <3>5. QED
      BY <3>1, <3>2, <3>4
  <2>3. QED
    BY <1>3, <2>1, <2>2
<1>15. \A k, l \in 1 .. n + 1 : k < l => meta'.chunks[k].last < meta'.chunks[l].first
  <2> TAKE k, l \in 1 .. n + 1
  <2> HAVE k < l
  <2>1. k \in 1 .. n /\ (l = n + 1 \/ l \in 1 .. n)
    BY <1>3
  <2>2. CASE l = n + 1
    <3>1. meta.chunks[k].last \in 1 .. NumPrefills /\ meta.chunks[k].last <= ChunksEnd
      BY <1>2, <1>3, <2>1, ChunkFacts
    <3>2. meta.chunks[k].last < first
      BY <1>3, <3>1
    <3>3. QED
      BY <1>7, <1>8, <2>1, <2>2, <3>2
  <2>3. CASE l \in 1 .. n
    <3>1. meta.chunks[k].last < meta.chunks[l].first
      BY <1>2, <1>3, <2>1, <2>3 DEF ChunksSound
    <3>2. QED
      BY <1>7, <2>1, <2>3, <3>1
  <2>4. QED
    BY <2>1, <2>2, <2>3
<1>16. \A i \in 1 .. last : \E k \in 1 .. n + 1 :
         meta'.chunks[k].first <= i /\ i <= meta'.chunks[k].last
  <2> TAKE i \in 1 .. last
  <2>1. CASE i <= ChunksEnd
    <3>1. i \in 1 .. ChunksEnd
      BY <1>3, <1>4, <2>1
    <3>2. PICK k \in 1 .. n : meta.chunks[k].first <= i /\ i <= meta.chunks[k].last
      BY <1>2, <1>3, <3>1 DEF ChunksSound
    <3>3. k \in 1 .. n + 1
      BY <1>3
    <3>4. QED
      BY <1>7, <3>2, <3>3
  <2>2. CASE ~ (i <= ChunksEnd)
    <3>1. first <= i /\ i <= last /\ n + 1 \in 1 .. n + 1
      BY <1>3, <1>4, <2>2
    <3>2. QED
      BY <1>7, <1>8, <3>1
  <2>3. QED
    BY <2>1, <2>2
<1>17. \A i \in last + 1 .. NumPrefills : cpu'[i] = Before(i)
  <2> TAKE i \in last + 1 .. NumPrefills
  <2>1. i \in 1 .. NumPrefills /\ i \in first .. NumPrefills /\ ~ (i <= last)
    BY <1>3, <1>4
  <2>2. QED
    BY <1>11, <1>13, <2>1
<1>18. ChunksSound'
  BY <1>7, <1>9, <1>10, <1>12, <1>14, <1>15, <1>16, <1>17 DEF ChunksSound
<1>19. MetaSound'
  <2>1. meta'.requestIds = [t \in Tokens |-> PrefillRequestId(t)]'
    BY <1>2, <1>6, <1>10
  <2>2. meta' = [requestIds |-> [t \in Tokens |-> PrefillRequestId(t)]',
                 starts |-> meta'.starts, chunks |-> meta'.chunks]
    BY <1>6, <2>1
  <2>3. meta'.starts = <<>> /\ pc' = "chunking" /\ Chunked'
    BY <1>1, <1>2, <1>6, <1>10
  <2>4. QED
    BY <1>18, <2>2, <2>3 DEF MetaSound
<1>20. chunk' \in 1 .. Len(meta'.chunks) + 1
  BY <1>1, <1>3, <1>7 DEF Built
<1>21. QED
  BY <1>1, <1>2, <1>10, <1>19, <1>20 DEF Built

\* The metadata is done.
LEMMA FinishBuildStep ==
  ASSUME Built, FinishBuild
  PROVE  Built'
<1>1. /\ pc = "chunking" /\ pc' = "ready" /\ ChunksEnd = NumPrefills
      /\ meta' = [meta EXCEPT !.starts = cpu]
      /\ call' = call /\ cpu' = cpu /\ lanes' = lanes /\ layer' = layer /\ chunk' = chunk
      /\ out' = out
  BY DEF FinishBuild
<1>2. Called /\ Chunked /\ ChunksSound
      /\ meta = [requestIds |-> [t \in Tokens |-> PrefillRequestId(t)],
                 starts |-> meta.starts, chunks |-> meta.chunks]
  BY <1>1 DEF Built, MetaSound
<1>3. /\ meta'.requestIds = meta.requestIds /\ meta'.starts = cpu
      /\ meta'.chunks = meta.chunks
      /\ meta' = [requestIds |-> meta'.requestIds, starts |-> meta'.starts,
                  chunks |-> meta'.chunks]
  BY <1>1, <1>2
<1>4. /\ NumPrefills' = NumPrefills /\ ChunkSet' = ChunkSet /\ Tokens' = Tokens
      /\ (Chunked' <=> Chunked) /\ (Called' <=> Called) /\ \A i : Before(i)' = Before(i)
      /\ \A t : PrefillRequestId(t)' = PrefillRequestId(t)
  <2>1. \A i, k : ChunkOf(i, k)' = ChunkOf(i, k)
    BY <1>1, CallKept DEF ChunkOf
  <2>2. ChunkSet' = ChunkSet
    BY <1>1, <2>1, CallKept DEF ChunkSet
  <2>3. QED
    BY <1>1, <2>2, CallKept DEF Chunked
<1>5. ChunksEnd' = ChunksEnd
  BY <1>3 DEF ChunksEnd
<1>6. ChunksSound'
  BY <1>1, <1>2, <1>3, <1>4, <1>5 DEF ChunksSound
<1>7. MetaSound'
  BY <1>1, <1>2, <1>3, <1>4, <1>5, <1>6 DEF MetaSound
<1>8. QED
  BY <1>1, <1>2, <1>3, <1>4, <1>7 DEF Built, Pcs

\* Serving a layer leaves the metadata alone.
LEMMA ServeStep ==
  ASSUME Built, UNCHANGED <<call, meta, cpu>>, layer' \in 1 .. Layers,
         pc \notin {"idle", "chunking"}, pc' \in Pcs \ {"idle", "chunking"},
         chunk' \in 1 .. Len(meta.chunks) + 1, pc' = "attend" => chunk' <= Len(meta.chunks),
         DOMAIN lanes' \in {{}, Tokens}, DOMAIN out' \in {{}, Tokens}
  PROVE  Built'
<1>1. /\ NumPrefills' = NumPrefills /\ ChunkSet' = ChunkSet /\ Tokens' = Tokens
      /\ (Chunked' <=> Chunked) /\ (Called' <=> Called) /\ \A i : Before(i)' = Before(i)
      /\ \A t : PrefillRequestId(t)' = PrefillRequestId(t)
  <2>1. \A i, k : ChunkOf(i, k)' = ChunkOf(i, k)
    BY CallKept DEF ChunkOf
  <2>2. ChunkSet' = ChunkSet
    BY <2>1, CallKept DEF ChunkSet
  <2>3. QED
    BY <2>2, CallKept DEF Chunked
<1>2. ChunksEnd' = ChunksEnd
  BY DEF ChunksEnd
<1>3. ChunksSound => ChunksSound'
  BY <1>1, <1>2 DEF ChunksSound
<1>4. MetaSound'
  BY <1>1, <1>2, <1>3 DEF MetaSound, Built, Pcs
<1>5. QED
  BY <1>1, <1>4 DEF Built, Pcs

\* A batch is only what it is while it is served, and gone afterwards.
LEMMA NextLayerBuilt ==
  ASSUME Built, NextLayer
  PROVE  Built'
<1>1. pc = "returned" /\ chunk' = 1 /\ Layers \in Nat \ {0} /\ layer \in 1 .. Layers
  BY SparseBackendAssumption DEF NextLayer, Built
<1>2. CASE layer < Layers
  <2>1. /\ layer' = layer + 1 /\ pc' = "ready" /\ UNCHANGED <<call, meta, cpu>>
        /\ lanes' = lanes /\ out' = out
    BY <1>2 DEF NextLayer
  <2>2. chunk' \in 1 .. Len(meta.chunks) + 1
    BY <1>1 DEF Built
  <2>3. QED
    BY <1>1, <1>2, <2>1, <2>2, ServeStep DEF Pcs, Built
<1>3. CASE ~ (layer < Layers)
  <2>1. /\ layer' = 1 /\ pc' = "idle" /\ call' = NoCall /\ meta' = NoMeta
        /\ lanes' = <<>> /\ out' = <<>>
    BY <1>3 DEF NextLayer
  <2>2. Len(meta'.chunks) = 0 /\ DOMAIN lanes' = {} /\ DOMAIN out' = {}
    BY <2>1 DEF NoMeta
  <2>3. QED
    BY <1>1, <2>1, <2>2 DEF Built, Pcs, MetaSound
<1>4. QED
  BY <1>2, <1>3

\* Every step keeps what is known of the metadata.
LEMMA BuiltStep ==
  ASSUME Built, [Next]_vars
  PROVE  Built'
<1>1. CASE build
  BY <1>1, BuildStep
<1>2. CASE AppendChunk \/ FinishBuild
  BY <1>2, AppendChunkStep, FinishBuildStep
<1>3. CASE forward_mqa
  <2>1. /\ pc = "ready" /\ pc' \in {"raised", "convert"} /\ chunk' = 1
        /\ UNCHANGED <<call, meta, cpu, layer>>
        /\ DOMAIN lanes' = Tokens /\ DOMAIN out' = Tokens
    BY <1>3 DEF forward_mqa, NothingYet
  <2>2. chunk' \in 1 .. Len(meta.chunks) + 1
    BY <2>1 DEF Built
  <2>3. QED
    BY <2>1, <2>2, ServeStep DEF Built, Pcs
<1>4. CASE forward_bf16_kv
  <2>1. /\ pc = "convert" /\ pc' \in {"raised", "returned"} /\ chunk' = chunk
        /\ UNCHANGED <<call, meta, cpu, layer, lanes>>
        /\ (DOMAIN out' = Tokens \/ out' = out)
    BY <1>4 DEF forward_bf16_kv
  <2>2. QED
    BY <2>1, ServeStep DEF Built, Pcs
<1>5. CASE forward_fp8_kv_mixed_batch
  <2>1. /\ pc = "convert" /\ pc' = "returned" /\ chunk' = chunk
        /\ UNCHANGED <<call, meta, cpu, layer, lanes>> /\ DOMAIN out' = Tokens
    BY <1>5 DEF forward_fp8_kv_mixed_batch
  <2>2. QED
    BY <2>1, ServeStep DEF Built, Pcs
<1>6. CASE forward_fp8_kv_separate_prefill_decode
  <2>1. /\ pc = "convert" /\ pc' \in {"decode", "gather"} /\ chunk' = chunk
        /\ UNCHANGED <<call, meta, cpu, layer, lanes, out>>
    BY <1>6 DEF forward_fp8_kv_separate_prefill_decode
  <2>2. QED
    BY <2>1, ServeStep DEF Built, Pcs
<1>7. CASE fp8_decode
  <2>1. /\ pc = "decode" /\ pc' \in {"raised", "gather", "returned"} /\ chunk' = chunk
        /\ UNCHANGED <<call, meta, cpu, layer, lanes>>
        /\ (DOMAIN out' = Tokens \/ out' = out)
    BY <1>7 DEF fp8_decode, AfterDecode
  <2>2. QED
    BY <2>1, ServeStep DEF Built, Pcs
<1>8. CASE GatherChunk
  <2>1. /\ pc = "gather" /\ pc' = "attend" /\ chunk' = chunk /\ chunk <= Len(meta.chunks)
        /\ UNCHANGED <<call, meta, cpu, layer, lanes, out>>
    BY <1>8 DEF GatherChunk
  <2>2. QED
    BY <2>1, ServeStep DEF Built, Pcs
<1>9. CASE AttendChunk
  <2>1. /\ pc = "attend" /\ pc' \in {"raised", "gather", "returned"} /\ chunk' = chunk + 1
        /\ UNCHANGED <<call, meta, cpu, layer, lanes>>
        /\ (DOMAIN out' = Tokens \/ out' = out)
    BY <1>9 DEF AttendChunk
  <2>2. chunk' \in 1 .. Len(meta.chunks) + 1
    <3>1. chunk \in 1 .. Len(meta.chunks) + 1 /\ chunk <= Len(meta.chunks)
      BY <2>1 DEF Built
    <3>2. Len(meta.chunks) \in Nat
      <4>1. CASE Chunked
        BY <2>1, <4>1, ChunkFacts DEF Built, MetaSound
      <4>2. CASE ~ Chunked
        <5>1. meta = NoMeta
          BY <2>1, <4>2 DEF Built, MetaSound
        <5>2. QED
          BY <5>1 DEF NoMeta
      <4>3. QED
        BY <4>1, <4>2
    <3>3. QED
      BY <2>1, <3>1, <3>2
  <2>3. QED
    BY <2>1, <2>2, ServeStep DEF Built, Pcs
<1>10. CASE NextLayer
  BY <1>10, NextLayerBuilt
<1>11. CASE UNCHANGED vars
  <2>1. UNCHANGED <<call, meta, cpu, layer, pc, chunk, lanes, out>>
    BY <1>11 DEF vars
  <2>2. CASE pc \notin {"idle", "chunking"}
    BY <2>1, <2>2, ServeStep DEF Built
  <2>3. CASE pc = "idle"
    BY <2>1, <2>3, CallKept DEF Built, MetaSound
  <2>4. CASE pc = "chunking"
    <3>1. ChunkSet' = ChunkSet
      <4>1. \A i, k : ChunkOf(i, k)' = ChunkOf(i, k)
        BY <2>1, CallKept DEF ChunkOf
      <4>2. QED
        BY <2>1, <4>1, CallKept DEF ChunkSet
    <3>2. ChunksSound => ChunksSound'
      BY <2>1, <3>1, CallKept DEF ChunksSound, ChunksEnd
    <3>3. (Chunked' <=> Chunked) /\ ChunksEnd' = ChunksEnd
      BY <2>1, CallKept DEF Chunked, ChunksEnd
    <3>4. [t \in Tokens |-> PrefillRequestId(t)]' = [t \in Tokens |-> PrefillRequestId(t)]
      BY <2>1, CallKept
    <3>5. MetaSound'
      BY <2>1, <2>4, <3>2, <3>3, <3>4 DEF Built, MetaSound
    <3>6. QED
      BY <2>1, <3>5, CallKept DEF Built
  <2>5. QED
    BY <2>2, <2>3, <2>4
<1>12. QED
  BY <1>1, <1>2, <1>3, <1>4, <1>5, <1>6, <1>7, <1>8, <1>9, <1>10, <1>11 DEF Next, Step

\* Where the prefills of a chunk are: after one another, within the chunk's part of the
\* workspace; and the chunk's tokens are tokens of the batch.
LEMMA ChunkPlaces ==
  ASSUME Called, ChunksSound, NEW k \in DOMAIN meta.chunks
  PROVE  LET c == meta.chunks[k] IN
         /\ c.size <= WorkspaceSize /\ c.size \in Nat
         /\ c.tokens[1] \in Tokens /\ c.tokens[2] \in Tokens
         /\ \A i \in c.first .. c.last :
              /\ cpu[i] \in Nat /\ PrefillLen(i) \in Nat \ {0} /\ cpu[i] + PrefillLen(i) <= c.size
              /\ \A j \in c.first .. c.last : i < j => cpu[i] + PrefillLen(i) <= cpu[j]
<1> DEFINE c == meta.chunks[k]
<1>1. /\ c = ChunkOf(c.first, c.last)
      /\ c.first \in 1 .. NumPrefills /\ c.last \in 1 .. NumPrefills /\ c.first <= c.last
      /\ c.size = Before(c.last + 1) - Before(c.first)
  BY ChunkFacts
<1>2. /\ c.size <= WorkspaceSize
      /\ \A i \in c.first .. c.last : cpu[i] = Before(i) - Before(c.first)
  BY DEF ChunksSound
<1>3. /\ Size \in Nat /\ NumDecodes \in 0 .. Size /\ NumPrefills = Size - NumDecodes
      /\ NumPrefills \in Nat /\ MaxModelLen \in Nat
      /\ \A j \in 1 .. Size : Batch[j].query \in Nat \ {0}
  BY CallFacts, DecodeFacts, SparseBackendAssumption
<1>4. /\ \A i \in 1 .. NumPrefills + 1 : Before(i) \in Nat
      /\ \A i, j \in 1 .. NumPrefills + 1 : i <= j => Before(i) <= Before(j)
      /\ \A i \in 1 .. NumPrefills : /\ PrefillLen(i) \in 1 .. MaxModelLen
                                     /\ Before(i + 1) = Before(i) + PrefillLen(i)
  BY BeforeFacts
<1>5. c.tokens = <<QueryStart(NumDecodes + c.first) + 1, QueryStart(NumDecodes + c.last + 1)>>
  BY <1>1 DEF ChunkOf, TokensSlice
<1> HIDE DEF c
<1>6. c.size \in Nat
  <2>1. c.last + 1 \in 1 .. NumPrefills + 1 /\ c.first \in 1 .. NumPrefills + 1
        /\ c.first <= c.last + 1
    BY <1>1, <1>3
  <2>2. QED
    BY <1>1, <1>4, <2>1
<1>7. c.tokens[1] \in Tokens /\ c.tokens[2] \in Tokens
  <2> DEFINE a == NumDecodes + c.first
             b == NumDecodes + c.last
  <2>1. a \in 1 .. Size /\ b \in 1 .. Size /\ a \in 1 .. Size + 1 /\ a + 1 \in 1 .. Size + 1
        /\ b + 1 \in 1 .. Size + 1 /\ Size + 1 \in 1 .. Size + 1
        /\ a + 1 <= b + 1 /\ b + 1 <= Size + 1
    BY <1>1, <1>3
  <2>2. /\ QueryStart(Size + 1) = TokenCount(Batch)
        /\ \A j \in 1 .. Size + 1 : QueryStart(j) \in Nat
        /\ \A j, l \in 1 .. Size + 1 : j <= l => QueryStart(j) <= QueryStart(l)
        /\ \A j \in 1 .. Size : QueryStart(j + 1) = QueryStart(j) + Batch[j].query
    BY StartFacts
  <2> HIDE DEF a, b
  <2>3. QueryStart(a) + 1 <= QueryStart(a + 1) /\ QueryStart(a) \in Nat /\ QueryStart(a + 1) \in Nat
    <3>1. QueryStart(a + 1) = QueryStart(a) + Batch[a].query /\ Batch[a].query \in Nat \ {0}
      BY <1>3, <2>1, <2>2
    <3>2. QED
      BY <2>1, <2>2, <3>1
  <2>4. QueryStart(a + 1) <= QueryStart(b + 1) /\ QueryStart(b + 1) <= TokenCount(Batch)
        /\ QueryStart(b + 1) \in Nat /\ TokenCount(Batch) \in Nat
    BY <2>1, <2>2
  <2>5. c.tokens[1] = QueryStart(a) + 1 /\ c.tokens[2] = QueryStart(b + 1)
    BY <1>5 DEF a, b
  <2>6. QED
    BY <2>3, <2>4, <2>5 DEF Tokens
<1>8. ASSUME NEW i \in c.first .. c.last
      PROVE  /\ cpu[i] \in Nat /\ PrefillLen(i) \in Nat \ {0}
             /\ cpu[i] + PrefillLen(i) <= c.size
             /\ \A j \in c.first .. c.last : i < j => cpu[i] + PrefillLen(i) <= cpu[j]
  <2>1. /\ i \in 1 .. NumPrefills /\ i \in 1 .. NumPrefills + 1 /\ i + 1 \in 1 .. NumPrefills + 1
        /\ c.first \in 1 .. NumPrefills + 1 /\ c.last + 1 \in 1 .. NumPrefills + 1
        /\ c.first <= i /\ i + 1 <= c.last + 1
    BY <1>1, <1>3
  <2>2. /\ cpu[i] = Before(i) - Before(c.first) /\ Before(c.first) <= Before(i)
        /\ Before(i + 1) = Before(i) + PrefillLen(i) /\ Before(i + 1) <= Before(c.last + 1)
        /\ Before(i) \in Nat /\ Before(c.first) \in Nat /\ Before(i + 1) \in Nat
        /\ Before(c.last + 1) \in Nat /\ PrefillLen(i) \in Nat \ {0}
    BY <1>2, <1>3, <1>4, <2>1
  <2>3. ASSUME NEW j \in c.first .. c.last, i < j PROVE cpu[i] + PrefillLen(i) <= cpu[j]
    <3>1. j \in 1 .. NumPrefills + 1 /\ i + 1 <= j
      BY <1>1, <1>3, <2>3
    <3>2. cpu[j] = Before(j) - Before(c.first) /\ Before(i + 1) <= Before(j) /\ Before(j) \in Nat
      BY <1>2, <1>4, <2>1, <3>1
    <3>3. QED
      BY <2>2, <3>2
  <2>4. QED
    BY <1>1, <2>2, <2>3
<1>9. QED
  BY <1>2, <1>6, <1>7, <1>8 DEF c

\* What is known of the metadata says its type and that the chunks fit.
LEMMA BuiltMeans ==
  ASSUME Built
  PROVE  TypeOK /\ ChunksFit
<1>1. TypeOK
  <2>1. call.rank \in 0 .. call.ranks - 1
    <3>1. CASE pc = "idle"
      BY <3>1 DEF Built, NoCall
    <3>2. CASE pc # "idle"
      BY <3>2, CallFacts DEF Built
    <3>3. QED
      BY <3>1, <3>2
  <2>2. CASE pc = "idle" \/ ~ Chunked
    <3>1. meta = NoMeta
      BY <2>2 DEF Built, MetaSound
    <3>2. DOMAIN meta.starts = {} /\ DOMAIN meta.chunks = {}
      BY <3>1 DEF NoMeta
    <3>3. QED
      BY <2>1, <3>2 DEF Built, TypeOK, Pcs
  <2>3. CASE pc # "idle" /\ Chunked
    <3>1. Called /\ ChunksSound
          /\ (meta.starts = <<>> \/ (meta.starts = cpu /\ ChunksEnd = NumPrefills))
      BY <2>3 DEF Built, MetaSound
    <3>2. \A i \in DOMAIN meta.starts : meta.starts[i] \in 0 .. WorkspaceSize - 1
      <4>1. CASE meta.starts = <<>>
        <5>1. DOMAIN meta.starts = {}
          BY <4>1
        <5>2. QED
          BY <5>1
      <4>2. CASE meta.starts = cpu /\ ChunksEnd = NumPrefills
        <5> TAKE i \in DOMAIN meta.starts
        <5>1. i \in 1 .. ChunksEnd /\ NumPrefills \in Nat
          BY <3>1, <4>2, DecodeFacts DEF ChunksSound
        <5>2. PICK k \in DOMAIN meta.chunks :
                meta.chunks[k].first <= i /\ i <= meta.chunks[k].last
          BY <3>1, <5>1 DEF ChunksSound
        <5> DEFINE c == meta.chunks[k]
        <5>3. c.first \in 1 .. NumPrefills /\ c.last \in 1 .. NumPrefills
          BY <3>1, ChunkFacts
        <5>4. i \in c.first .. c.last
          BY <5>1, <5>2, <5>3
        <5>5. /\ c.size <= WorkspaceSize /\ c.size \in Nat /\ cpu[i] \in Nat
              /\ PrefillLen(i) \in Nat \ {0} /\ cpu[i] + PrefillLen(i) <= c.size
          BY <3>1, <5>4, ChunkPlaces
        <5>6. WorkspaceSize \in Nat
          BY SparseBackendAssumption DEF WorkspaceSize
        <5>7. QED
          BY <4>2, <5>5, <5>6
      <4>3. QED
        BY <3>1, <4>1, <4>2
    <3>3. \A k \in DOMAIN meta.chunks : LET c == meta.chunks[k] IN
            c.first <= c.last /\ c.last <= NumPrefills /\ c.tokens[1] \in Tokens
            /\ c.tokens[2] \in Tokens
      <4> TAKE k \in DOMAIN meta.chunks
      <4>1. /\ meta.chunks[k].first <= meta.chunks[k].last
            /\ meta.chunks[k].last \in 1 .. NumPrefills /\ NumPrefills \in Nat
        BY <3>1, ChunkFacts, DecodeFacts
      <4>2. meta.chunks[k].tokens[1] \in Tokens /\ meta.chunks[k].tokens[2] \in Tokens
        BY <3>1, ChunkPlaces
      <4>3. QED
        BY <4>1, <4>2
    <3>4. QED
      BY <2>1, <3>2, <3>3 DEF Built, TypeOK, Pcs
  <2>4. QED
    BY <2>2, <2>3
<1>2. ChunksFit
  <2> SUFFICES ASSUME Chunked, pc \notin {"idle", "chunking"}
               PROVE  /\ \A i \in 1 .. NumPrefills :
                           Cardinality({ k \in DOMAIN meta.chunks :
                             meta.chunks[k].first <= i /\ i <= meta.chunks[k].last }) = 1
                      /\ \A k \in DOMAIN meta.chunks : LET c == meta.chunks[k] IN
                           /\ c.size <= WorkspaceSize
                           /\ \A i \in c.first .. c.last :
                                /\ 0 <= meta.starts[i]
                                /\ meta.starts[i] + PrefillLen(i) <= c.size
                                /\ \A j \in c.first .. c.last :
                                     i < j => meta.starts[i] + PrefillLen(i) <= meta.starts[j]
    BY DEF ChunksFit, Chunked
  <2>1. Called /\ ChunksSound /\ meta.starts = cpu /\ ChunksEnd = NumPrefills
    BY DEF Built, MetaSound
  <2>2. ASSUME NEW i \in 1 .. NumPrefills
        PROVE  Cardinality({ k \in DOMAIN meta.chunks :
                 meta.chunks[k].first <= i /\ i <= meta.chunks[k].last }) = 1
    <3> DEFINE S == { k \in DOMAIN meta.chunks :
                      meta.chunks[k].first <= i /\ i <= meta.chunks[k].last }
    <3>1. PICK k \in DOMAIN meta.chunks :
            meta.chunks[k].first <= i /\ i <= meta.chunks[k].last
      BY <2>1 DEF ChunksSound
    <3>2. ASSUME NEW l \in S PROVE l = k
      <4>1. /\ DOMAIN meta.chunks = 1 .. Len(meta.chunks) /\ Len(meta.chunks) \in Nat
            /\ meta.chunks[k].first \in 1 .. NumPrefills /\ meta.chunks[k].last \in 1 .. NumPrefills
            /\ meta.chunks[l].first \in 1 .. NumPrefills /\ meta.chunks[l].last \in 1 .. NumPrefills
        BY <2>1, ChunkFacts
      <4>2. /\ k < l => meta.chunks[k].last < meta.chunks[l].first
            /\ l < k => meta.chunks[l].last < meta.chunks[k].first
        BY <2>1 DEF ChunksSound
      <4>3. NumPrefills \in Nat
        BY <2>1, DecodeFacts
      <4>4. ~ (k < l) /\ ~ (l < k)
        BY <3>1, <4>1, <4>2, <4>3
      <4>5. QED
        BY <4>1, <4>4
    <3>3. S = {k}
      BY <3>1, <3>2
    <3>4. Cardinality(S) = 1
      BY <3>3, FS_Singleton
    <3>5. QED
      BY <3>4
  <2>3. QED
    BY <2>1, <2>2, ChunkPlaces
<1>3. QED
  BY <1>1, <1>2

\* Whatever batches are scheduled: every variable keeps its type, the chunks name tokens
\* of the batch and the requests start in the workspace.
THEOREM TypeCorrect == Spec => []TypeOK
<1>1. Built /\ [Next]_vars => Built'
  BY BuiltStep
<1>2. Built => TypeOK
  BY BuiltMeans
<1>3. QED
  BY <1>1, <1>2, InitBuilt, PTL DEF Spec

\* Whatever the lengths of the prefills: each is in exactly one chunk, and the parts of a
\* chunk's requests fit the workspace and do not overlap.
THEOREM ChunksAlwaysFit == Spec => []ChunksFit
<1>1. Built /\ [Next]_vars => Built'
  BY BuiltStep
<1>2. Built => ChunksFit
  BY BuiltMeans
<1>3. QED
  BY <1>1, <1>2, InitBuilt, PTL DEF Spec

-----------------------------------------------------------------------------
(* The keys of a row.                                                      *)

\* The indexer's row holds positions the token sees, none twice, in front of the padding.
LEMMA RankedFacts ==
  ASSUME Called, NEW t \in Tokens
  PROVE  LET R == Ranked(t, call.order)
         IN  \E n \in 0 .. TopK :
               /\ \A i \in 1 .. n : R[i] \in 0 .. MaxModelLen - 1 /\ R[i] <= PositionOf(t)
               /\ \A i \in n + 1 .. TopK : R[i] = -1
               /\ \A i, j \in 1 .. n : R[i] = R[j] => i = j
<1> DEFINE s == SeenBy(call.order, PositionOf(t), Len(call.order))
           R == Ranked(t, call.order)
<1>1. /\ call.order \in Seq(0 .. MaxModelLen - 1)
      /\ \A i, j \in DOMAIN call.order : call.order[i] = call.order[j] => i = j
      /\ PositionOf(t) \in Nat /\ MaxModelLen \in Nat /\ TopK \in Nat
  BY CallFacts, RequestFacts, SparseBackendAssumption
<1>2. call.order \in Seq(Nat)
  <2>1. 0 .. MaxModelLen - 1 \subseteq Nat
    BY <1>1
  <2>2. QED
    BY <1>1, <2>1, SeqMonotonic
<1>3. SeenSound(call.order, PositionOf(t), Len(call.order), s)
  BY <1>1, <1>2, SeenByFacts
<1>4. R = [i \in 1 .. TopK |-> IF i <= Len(s) THEN s[i] ELSE -1]
  BY DEF Ranked
<1>5. \A j \in 1 .. Len(call.order) : call.order[j] \in 0 .. MaxModelLen - 1
  BY <1>1, ElementOfSeq
<1> HIDE DEF s, R
<1>6. /\ Len(s) \in Nat
      /\ \A k \in 1 .. Len(s) : s[k] \in 0 .. MaxModelLen - 1 /\ s[k] <= PositionOf(t)
      /\ \A k, l \in 1 .. Len(s) : s[k] = s[l] => k = l
  BY <1>3, <1>5, LenProperties DEF SeenSound
<1> DEFINE n == IF Len(s) <= TopK THEN Len(s) ELSE TopK
<1>7. n \in 0 .. TopK /\ n <= Len(s) /\ (\A i \in 1 .. TopK : i <= n <=> i <= Len(s))
  BY <1>1, <1>6
<1> HIDE DEF n
<1>8. \A i \in 1 .. n : R[i] = s[i] /\ i \in 1 .. Len(s)
  <2> TAKE i \in 1 .. n
  <2>1. i \in 1 .. TopK /\ i <= Len(s) /\ i \in 1 .. Len(s)
    BY <1>1, <1>6, <1>7
  <2>2. QED
    BY <1>4, <2>1
<1>9. \A i \in n + 1 .. TopK : R[i] = -1
  <2> TAKE i \in n + 1 .. TopK
  <2>1. i \in 1 .. TopK /\ ~ (i <= n)
    BY <1>1, <1>7
  <2>2. QED
    BY <1>4, <1>7, <2>1
<1>10. /\ \A i \in 1 .. n : R[i] \in 0 .. MaxModelLen - 1 /\ R[i] <= PositionOf(t)
       /\ \A i, j \in 1 .. n : R[i] = R[j] => i = j
  BY <1>6, <1>8
<1>11. QED
  BY <1>7, <1>9, <1>10 DEF R

\* A lane holds a candidate if the rank owns the position, and it says which.
LEMMA LaneFacts ==
  ASSUME Called, NEW t \in Tokens
  PROVE  LET R == Ranked(t, call.order)
             L == LanesOf(t)
         IN  \A i \in 1 .. TopK :
               /\ R[i] = -1 \/ R[i] \in Nat
               /\ L[i] = -1 \/ L[i] \in Nat
               /\ L[i] # -1 <=> Owned(R[i], call)
               /\ L[i] # -1 => L[i] * call.ranks + call.rank = R[i]
               /\ ~ WantLse => L[i] = R[i]
<1> DEFINE R == Ranked(t, call.order)
           L == LanesOf(t)
<1>1. call.ranks \in Nat \ {0} /\ call.rank \in 0 .. call.ranks - 1 /\ TopK \in Nat
      /\ MaxModelLen \in Nat
  BY CallFacts, SparseBackendAssumption
<1>2. \A i \in 1 .. TopK : R[i] = -1 \/ R[i] \in Nat
  <2>1. PICK n \in 0 .. TopK : /\ \A i \in 1 .. n : R[i] \in 0 .. MaxModelLen - 1
                               /\ \A i \in n + 1 .. TopK : R[i] = -1
    BY RankedFacts
  <2>2. \A i \in 1 .. TopK : i \in 1 .. n \/ i \in n + 1 .. TopK
    BY <1>1, <2>1
  <2>3. QED
    BY <1>1, <2>1, <2>2
<1>3. L = IF WantLse THEN OwnedRow(R, call) ELSE R
  BY DEF LanesOf
<1> HIDE DEF R, L
<1>4. ASSUME NEW i \in 1 .. TopK
      PROVE  /\ L[i] = -1 \/ L[i] \in Nat
             /\ L[i] # -1 <=> Owned(R[i], call)
             /\ L[i] # -1 => L[i] * call.ranks + call.rank = R[i]
             /\ ~ WantLse => L[i] = R[i]
  <2>1. CASE WantLse
    <3>1. L[i] = IF Owned(R[i], call) THEN R[i] \div call.ranks ELSE -1
      BY <1>3, <2>1 DEF OwnedRow
    <3>2. CASE Owned(R[i], call)
      <4>1. R[i] \in Nat /\ R[i] % call.ranks = call.rank
        BY <1>2, <3>2 DEF Owned
      <4>2. L[i] \in Nat /\ L[i] * call.ranks + call.rank = R[i]
        BY <1>1, <3>1, <3>2, <4>1, DivMod
      <4>3. QED
        BY <2>1, <3>2, <4>2
    <3>3. CASE ~ Owned(R[i], call)
      BY <2>1, <3>1, <3>3
    <3>4. QED
      BY <3>2, <3>3
  <2>2. CASE ~ WantLse
    <3>1. call.ranks = 1 /\ call.rank = 0 /\ L[i] = R[i]
      BY <1>1, <1>3, <2>2 DEF WantLse
    <3>2. R[i] \in Nat => R[i] % 1 = 0
      OBVIOUS
    <3>3. QED
      BY <1>2, <3>1, <3>2 DEF Owned
  <2>3. QED
    BY <2>1, <2>2
<1>5. QED
  BY <1>2, <1>4 DEF R, L

\* The lanes of token t that hold a candidate, and the key each stands for.
LanesUsed(t) == { i \in 1 .. TopK : LanesOf(t)[i] # -1 }

KeysOf(t) == [i \in LanesUsed(t) |-> <<layer, RequestOf(t), Ranked(t, call.order)[i]>>]

\* A row over these keys is right.
LEMMA KeysRight ==
  ASSUME Called, NEW t \in Tokens
  PROVE  RightRow(t, Row(KeysOf(t), QHeads))
<1> DEFINE R == Ranked(t, call.order)
           row == Row(KeysOf(t), QHeads)
<1>1. PICK n \in 0 .. TopK :
        /\ \A i \in 1 .. n : R[i] \in 0 .. MaxModelLen - 1 /\ R[i] <= PositionOf(t)
        /\ \A i \in n + 1 .. TopK : R[i] = -1
        /\ \A i, j \in 1 .. n : R[i] = R[j] => i = j
  BY RankedFacts
<1>2. \A i \in 1 .. TopK : i \in LanesUsed(t) <=> Owned(R[i], call)
  BY LaneFacts DEF LanesUsed
<1>3. TopK \in Nat /\ MaxModelLen \in Nat
  BY SparseBackendAssumption
<1>4. row.keys = KeysOf(t) /\ row.heads = QHeads
  BY DEF Row
<1>5. KeysOf(t) = [i \in LanesUsed(t) |-> <<layer, RequestOf(t), R[i]>>]
      /\ LanesUsed(t) \subseteq 1 .. TopK
  BY DEF KeysOf, LanesUsed
<1>6. Selected(t) = { <<layer, RequestOf(t), p>> : p \in { q \in 0 .. MaxModelLen - 1 :
        Owned(q, call) /\ \E i \in 1 .. TopK : R[i] = q } }
  BY DEF Selected
<1> HIDE DEF R, row
<1>7. \A i \in LanesUsed(t) : i \in 1 .. n /\ R[i] \in 0 .. MaxModelLen - 1
  <2> TAKE i \in LanesUsed(t)
  <2>1. i \in 1 .. TopK /\ Owned(R[i], call)
    BY <1>2, <1>5
  <2>2. i \notin n + 1 .. TopK
    <3>1. ~ (-1 >= 0)
      OBVIOUS
    <3>2. QED
      BY <1>1, <2>1, <3>1 DEF Owned
  <2>3. i \in 1 .. n
    BY <1>1, <1>3, <2>1, <2>2
  <2>4. QED
    BY <1>1, <2>3
<1>8. { row.keys[i] : i \in DOMAIN row.keys } = Selected(t)
  <2>1. ASSUME NEW x \in { row.keys[i] : i \in DOMAIN row.keys } PROVE x \in Selected(t)
    <3>1. PICK i \in LanesUsed(t) : x = <<layer, RequestOf(t), R[i]>>
      BY <1>4, <1>5
    <3>2. R[i] \in 0 .. MaxModelLen - 1 /\ Owned(R[i], call) /\ i \in 1 .. TopK
      BY <1>2, <1>5, <1>7
    <3>3. QED
      BY <1>6, <3>1, <3>2
  <2>2. ASSUME NEW x \in Selected(t) PROVE x \in { row.keys[i] : i \in DOMAIN row.keys }
    <3>1. PICK q \in 0 .. MaxModelLen - 1 :
            /\ Owned(q, call) /\ \E i \in 1 .. TopK : R[i] = q
            /\ x = <<layer, RequestOf(t), q>>
      BY <1>6
    <3>2. PICK i \in 1 .. TopK : R[i] = q
      BY <3>1
    <3>3. i \in LanesUsed(t)
      BY <1>2, <3>1, <3>2
    <3>4. QED
      BY <1>4, <1>5, <3>1, <3>2, <3>3
  <2>3. QED
    BY <2>1, <2>2
<1>9. \A i, j \in DOMAIN row.keys : row.keys[i] = row.keys[j] => i = j
  BY <1>1, <1>4, <1>5, <1>7
<1>10. QED
  BY <1>4, <1>8, <1>9 DEF RightRow, row

\* A lane in use stands for a position of the token's request.
LEMMA LaneSeen ==
  ASSUME Called, NEW t \in Tokens, NEW i \in LanesUsed(t)
  PROVE  LET p == Ranked(t, call.order)[i]
         IN  p \in Nat /\ p < Batch[RequestOf(t)].seq
<1> DEFINE R == Ranked(t, call.order)
           r == RequestOf(t)
<1>1. TopK \in Nat /\ MaxModelLen \in Nat
  BY SparseBackendAssumption
<1>2. i \in 1 .. TopK /\ Owned(R[i], call)
  BY LaneFacts DEF LanesUsed
<1>3. PICK m \in 0 .. TopK : /\ \A j \in 1 .. m : R[j] \in 0 .. MaxModelLen - 1
                                                  /\ R[j] <= PositionOf(t)
                             /\ \A j \in m + 1 .. TopK : R[j] = -1
  BY RankedFacts
<1>4. i \in 1 .. m
  <2>1. ~ (-1 >= 0)
    OBVIOUS
  <2>2. i \notin m + 1 .. TopK
    BY <1>2, <1>3, <2>1 DEF Owned
  <2>3. QED
    BY <1>1, <1>2, <1>3, <2>2
<1>5. PositionOf(t) \in Nat /\ PositionOf(t) < Batch[r].seq /\ Batch[r].seq \in Nat
  <2>1. r \in 1 .. Size
    BY RequestFacts
  <2>2. QED
    BY <1>1, <2>1, RequestFacts, CallFacts
<1>6. QED
  BY <1>1, <1>3, <1>4, <1>5

\* Token t's indices point into the cache, not into the workspace.
InCache(t) == meta.requestIds = <<>> \/ meta.requestIds[t] = -1

\* What is read from the cache is what the lanes stand for, as long as no lane in use is
\* cut off.
LEMMA CacheRow ==
  ASSUME Called, NEW t \in Tokens, lanes[t] = LanesOf(t), InCache(t),
         NEW n \in 0 .. TopK, LanesUsed(t) \subseteq 1 .. n
  PROVE  AttendCache(Converted[t], n) = KeysOf(t)
<1> DEFINE L == LanesOf(t)
           R == Ranked(t, call.order)
           r == RequestOf(t)
           x == Converted[t]
<1>1. \A i \in 1 .. TopK : x[i] = IF L[i] = -1 THEN <<"none">> ELSE <<"cache", r, L[i]>>
  BY DEF Converted, Convert, InCache
<1>2. /\ \A i \in 1 .. TopK : /\ L[i] # -1 => L[i] * call.ranks + call.rank = R[i]
                              /\ L[i] # -1 <=> Owned(R[i], call)
  BY LaneFacts
<1>3. TopK \in Nat
  BY SparseBackendAssumption
<1>4. \A i \in LanesUsed(t) : R[i] < Batch[r].seq
  BY LaneSeen
<1> HIDE DEF L, R, r, x
<1>5. Candidates(x, n) = LanesUsed(t)
  <2>1. LanesUsed(t) = { i \in 1 .. TopK : L[i] # -1 }
    BY DEF LanesUsed, L
  <2>2. \A i \in 1 .. TopK : IsCandidate(x[i]) <=> L[i] # -1
    <3> TAKE i \in 1 .. TopK
    <3>1. L[i] = -1 => x[i][1] = "none"
      <4>1. L[i] = -1 => x[i] = <<"none">>
        BY <1>1
      <4>2. <<"none">>[1] = "none"
        OBVIOUS
      <4>3. QED
        BY <4>1, <4>2
    <3>2. L[i] # -1 => x[i][1] = "cache"
      <4>1. L[i] # -1 => x[i] = <<"cache", r, L[i]>>
        BY <1>1
      <4>2. <<"cache", r, L[i]>>[1] = "cache"
        OBVIOUS
      <4>3. QED
        BY <4>1, <4>2
    <3>3. QED
      BY <3>1, <3>2 DEF IsCandidate
  <2>3. \A i \in 1 .. n : i \in 1 .. TopK
    BY <1>3
  <2>4. QED
    BY <2>1, <2>2, <2>3 DEF Candidates
<1>6. \A i \in LanesUsed(t) : Cached(layer, x[i][2], x[i][3]) = <<layer, r, R[i]>>
  <2> TAKE i \in LanesUsed(t)
  <2>1. i \in 1 .. TopK /\ L[i] # -1
    BY DEF LanesUsed, L
  <2>2. x[i] = <<"cache", r, L[i]>> /\ L[i] * call.ranks + call.rank = R[i]
    BY <1>1, <1>2, <2>1
  <2>3. x[i][2] = r /\ x[i][3] = L[i]
    BY <2>2
  <2>4. QED
    BY <1>4, <2>2, <2>3 DEF Cached
<1>7. AttendCache(x, n) = [i \in LanesUsed(t) |-> Cached(layer, x[i][2], x[i][3])]
  BY <1>5 DEF AttendCache
<1>8. KeysOf(t) = [i \in LanesUsed(t) |-> <<layer, r, R[i]>>]
  BY DEF KeysOf, r, R
<1>9. QED
  BY <1>6, <1>7, <1>8 DEF x

\* Without context parallelism the lanes in use are in front, and topk_length counts them.
LEMMA CountFacts ==
  ASSUME Called, ~ WantLse, NEW t \in Tokens, lanes[t] = LanesOf(t)
  PROVE  ValidCounts[t] \in 0 .. TopK /\ LanesUsed(t) = 1 .. ValidCounts[t]
<1> DEFINE R == Ranked(t, call.order)
           L == LanesOf(t)
<1>1. PICK n \in 0 .. TopK : /\ \A i \in 1 .. n : R[i] \in 0 .. MaxModelLen - 1
                             /\ \A i \in n + 1 .. TopK : R[i] = -1
  BY RankedFacts
<1>2. \A i \in 1 .. TopK : L[i] = R[i]
  BY LaneFacts
<1>3. TopK \in Nat /\ MaxModelLen \in Nat
  BY SparseBackendAssumption
<1>4. \A i \in 1 .. TopK : L[i] # -1 <=> i \in 1 .. n
  <2> TAKE i \in 1 .. TopK
  <2>1. i \in 1 .. n \/ i \in n + 1 .. TopK
    BY <1>1, <1>3
  <2>2. i \in 1 .. n => R[i] # -1 /\ i \notin n + 1 .. TopK
    BY <1>1, <1>3
  <2>3. QED
    BY <1>1, <1>2, <2>1, <2>2
<1>5. { i \in 1 .. TopK : L[i] # -1 } = 1 .. n
  <2>1. 1 .. n \subseteq 1 .. TopK
    BY <1>1, <1>3
  <2>2. QED
    BY <1>4, <2>1
<1>6. Cardinality(1 .. n) = n
  BY <1>1, FS_Interval
<1>7. ValidCounts[t] = Cardinality({ i \in 1 .. TopK : L[i] # -1 })
  BY DEF ValidCounts
<1>8. QED
  BY <1>1, <1>5, <1>6, <1>7 DEF LanesUsed

\* What is read from the workspace is what the lanes stand for, too.
LEMMA WorkspaceRow ==
  ASSUME Called, ~ WantLse, ChunksSound, meta.starts = cpu, chunk \in DOMAIN meta.chunks,
         GatheredRight, NEW t \in Tokens, lanes[t] = LanesOf(t),
         meta.requestIds = [u \in Tokens |-> PrefillRequestId(u)],
         RequestOf(t) - NumDecodes \in meta.chunks[chunk].first .. meta.chunks[chunk].last
  PROVE  AttendWorkspace(Converted[t], ValidCounts[t], meta.chunks[chunk].size) = KeysOf(t)
<1> DEFINE c == meta.chunks[chunk]
           r == RequestOf(t)
           q == r - NumDecodes
           R == Ranked(t, call.order)
           x == Converted[t]
           n == ValidCounts[t]
<1>1. c.first \in 1 .. NumPrefills /\ c.last \in 1 .. NumPrefills /\ NumPrefills \in Nat
      /\ NumDecodes \in Nat /\ NumDecodes \in 0 .. Size /\ Size \in Nat /\ r \in 1 .. Size
  BY ChunkFacts, DecodeFacts, CallFacts, RequestFacts
<1>2. q \in 1 .. NumPrefills /\ q \in c.first .. c.last /\ r = NumDecodes + q
      /\ ~ (r <= NumDecodes) /\ q # -1
  BY <1>1
<1>3. cpu[q] \in Nat /\ PrefillLen(q) \in Nat /\ cpu[q] + PrefillLen(q) <= c.size /\ c.size \in Nat
  BY <1>2, ChunkPlaces
<1>4. meta.requestIds[t] = q /\ meta.requestIds # <<>>
  <2>1. meta.requestIds[t] = q
    BY <1>2 DEF PrefillRequestId
  <2>2. DOMAIN meta.requestIds # {} /\ DOMAIN <<>> = {}
    OBVIOUS
  <2>3. QED
    BY <2>1, <2>2
<1>5. \A i \in 1 .. TopK : LanesOf(t)[i] = R[i]
  BY LaneFacts
<1>6. \A i \in 1 .. TopK :
        x[i] = IF R[i] = -1 THEN <<"none">> ELSE <<"workspace", cpu[q] + R[i]>>
  BY <1>2, <1>4, <1>5 DEF Converted, Convert
<1>7. PrefillLen(q) = Batch[r].seq
  BY <1>2, BeforeFacts
<1>8. \A i \in LanesUsed(t) : i \in 1 .. TopK /\ R[i] # -1 /\ R[i] \in Nat /\ R[i] < PrefillLen(q)
  BY <1>5, <1>7, LaneSeen DEF LanesUsed
<1>9. n \in 0 .. TopK /\ LanesUsed(t) = 1 .. n /\ TopK \in Nat
  BY CountFacts, SparseBackendAssumption
<1>10. call.ranks = 1 /\ call.rank = 0
  BY CallFacts DEF WantLse
<1>11. \A p \in 0 .. PrefillLen(q) - 1 : workspace[cpu[q] + p] = <<layer, r, p>>
  <2> TAKE p \in 0 .. PrefillLen(q) - 1
  <2>1. workspace[meta.starts[q] + p] = Cached(layer, NumDecodes + q, p)
    BY <1>2 DEF GatheredRight
  <2>2. p * call.ranks + call.rank = p /\ p < Batch[r].seq
    BY <1>3, <1>7, <1>10
  <2>3. Cached(layer, r, p) = <<layer, r, p>>
    BY <2>2 DEF Cached
  <2>4. QED
    BY <1>2, <2>1, <2>3
<1> HIDE DEF c, r, q, R, x, n
<1>12. Candidates(x, n) = LanesUsed(t)
  <2>1. \A i \in 1 .. n : IsCandidate(x[i])
    <3> TAKE i \in 1 .. n
    <3>1. x[i] = <<"workspace", cpu[q] + R[i]>>
      BY <1>6, <1>8, <1>9
    <3>2. x[i][1] = "workspace"
      BY <3>1
    <3>3. QED
      BY <3>2 DEF IsCandidate
  <2>2. QED
    BY <1>9, <2>1 DEF Candidates
<1>13. \A i \in LanesUsed(t) :
         /\ x[i][1] = "workspace" /\ x[i][2] < c.size
         /\ workspace[x[i][2]] = <<layer, r, R[i]>>
  <2> TAKE i \in LanesUsed(t)
  <2>1. x[i] = <<"workspace", cpu[q] + R[i]>>
    BY <1>6, <1>8
  <2>2. x[i][1] = "workspace" /\ x[i][2] = cpu[q] + R[i]
    BY <2>1
  <2>3. R[i] \in 0 .. PrefillLen(q) - 1 /\ cpu[q] + R[i] < c.size
    BY <1>3, <1>8
  <2>4. QED
    BY <1>11, <2>2, <2>3
<1>14. AttendWorkspace(x, n, c.size) = [i \in LanesUsed(t) |-> <<layer, r, R[i]>>]
  BY <1>12, <1>13 DEF AttendWorkspace
<1>15. KeysOf(t) = [i \in LanesUsed(t) |-> <<layer, r, R[i]>>]
  BY DEF KeysOf, r, R
<1>16. QED
  BY <1>14, <1>15 DEF c, x, n

\* The tokens of a chunk are those of its requests.
LEMMA SliceFacts ==
  ASSUME Called, NEW i \in 1 .. NumPrefills, NEW k \in 1 .. NumPrefills, i <= k,
         NEW t \in Tokens
  PROVE  t \in QueryStart(NumDecodes + i) + 1 .. QueryStart(NumDecodes + k + 1)
           <=> RequestOf(t) - NumDecodes \in i .. k
<1> DEFINE r == RequestOf(t)
           a == NumDecodes + i
           b == NumDecodes + k + 1
<1>1. /\ NumPrefills \in Nat /\ NumDecodes \in 0 .. Size /\ Size \in Nat
      /\ NumPrefills = Size - NumDecodes
  BY DecodeFacts, CallFacts
<1>2. /\ \A j \in 1 .. Size + 1 : QueryStart(j) \in Nat
      /\ \A j, l \in 1 .. Size + 1 : j <= l => QueryStart(j) <= QueryStart(l)
  BY StartFacts
<1>3. t \in Nat /\ r \in 1 .. Size /\ QueryStart(r) < t /\ t <= QueryStart(r + 1)
  BY RequestFacts
<1>4. a \in 1 .. Size + 1 /\ b \in 1 .. Size + 1 /\ r \in 1 .. Size + 1 /\ r + 1 \in 1 .. Size + 1
  BY <1>1, <1>3
<1>5. (r - NumDecodes \in i .. k) <=> (a <= r /\ r + 1 <= b)
  BY <1>1, <1>3
<1> HIDE DEF r, a, b
<1>6. t \in QueryStart(a) + 1 .. QueryStart(b) <=> QueryStart(a) < t /\ t <= QueryStart(b)
  BY <1>2, <1>3, <1>4
<1>7. QueryStart(a) < t <=> a <= r
  <2>1. a <= r => QueryStart(a) < t
    BY <1>2, <1>3, <1>4
  <2>2. ~ (a <= r) => r + 1 <= a
    BY <1>1, <1>3, <1>4
  <2>3. r + 1 <= a => ~ (QueryStart(a) < t)
    BY <1>2, <1>3, <1>4
  <2>4. QED
    BY <2>1, <2>2, <2>3
<1>8. t <= QueryStart(b) <=> r + 1 <= b
  <2>1. r + 1 <= b => t <= QueryStart(b)
    BY <1>2, <1>3, <1>4
  <2>2. ~ (r + 1 <= b) => b <= r
    BY <1>1, <1>3, <1>4
  <2>3. b <= r => ~ (t <= QueryStart(b))
    BY <1>2, <1>3, <1>4
  <2>4. QED
    BY <2>1, <2>2, <2>3
<1>9. QED
  BY <1>5, <1>6, <1>7, <1>8 DEF a, b, r

\* What a supported call implies.
LEMMA SupportedFacts ==
  ASSUME AllSupported, Called
  PROVE  /\ ~ WantLse => call.ranks = 1 /\ QHeads = call.heads /\ PrefillHeadsFit
         /\ WantLse /\ call.fp8 => KernelHeads = QHeads
         /\ Separate /\ NumPrefills > 0 => ~ WantLse
<1>1. PICK c \in Calls : /\ call.heads = c.heads /\ call.ranks = c.ranks
                         /\ call.fp8 = c.fp8 /\ Batch = c.batch
  BY DEF Called, Batch
<1>2. Supported(c)
  BY DEF AllSupported
<1>3. /\ call.heads \in Nat \ {0} /\ call.ranks \in Nat \ {0} /\ Requests = 1 .. Size
      /\ Size \in Nat \ {0} /\ HeadUnit \in Nat \ {0} /\ MinHeads \in Nat
  BY CallFacts, SparseBackendAssumption
<1>4. ASSUME ~ WantLse PROVE call.ranks = 1 /\ QHeads = call.heads /\ PrefillHeadsFit
  <2>1. call.ranks = 1
    BY <1>3, <1>4 DEF WantLse
  <2>2. QHeads = call.heads
    BY <1>3, <2>1 DEF QHeads
  <2>3. call.heads % HeadUnit = 0 \/ HeadUnit % call.heads = 0
    BY <1>1, <1>2, <2>1 DEF Supported
  <2>4. QED
    BY <2>1, <2>2, <2>3 DEF PrefillHeadsFit
<1>5. ASSUME WantLse, call.fp8 PROVE KernelHeads = QHeads
  <2>1. QHeads >= PaddedHeads
    BY <1>1, <1>2, <1>5 DEF Supported, WantLse, QHeads, PaddedHeads
  <2>2. QED
    BY <2>1 DEF KernelHeads, MaxOf
<1>6. ASSUME WantLse, Separate PROVE ~ (NumPrefills > 0)
  <2>1. call.ranks > 1 /\ call.fp8 /\ call.heads >= MinHeads
    BY <1>3, <1>6 DEF WantLse, Separate, Mixed
  <2>2. \A j \in 1 .. Size : Batch[j].query = Batch[1].query /\ Batch[1].query <= Threshold
    BY <1>1, <1>2, <1>3, <2>1 DEF Supported, Requests
  <2>3. 1 \in 1 .. Size /\ NumDecodes \in 0 .. Size
    BY <1>3, DecodeFacts
  <2>4. NumDecodes # Size => NumDecodes + 1 \in 1 .. Size
    BY <1>3, <2>3
  <2>5. NumDecodes = Size
    BY <2>2, <2>3, <2>4, DecodeFacts
  <2>6. NumPrefills = 0
    BY <1>3, <2>5, DecodeFacts
  <2>7. QED
    BY <2>6
<1>7. QED
  BY <1>4, <1>5, <1>6

-----------------------------------------------------------------------------
(* Serving a call.                                                         *)

\* While the call, its metadata and the layer stay, so does what is right for them.
LEMMA ServeKept ==
  ASSUME UNCHANGED <<call, meta, layer>>
  PROVE  /\ \A t : RowRight(t)' <=> RightRow(t, out'[t])
         /\ \A t : LanesOf(t)' = LanesOf(t)
         /\ \A l, j, i : Cached(l, j, i)' = Cached(l, j, i)
         /\ lanes' = lanes => Converted' = Converted /\ ValidCounts' = ValidCounts
<1>1. \A t, order : Ranked(t, order)' = Ranked(t, order)
  BY CallKept DEF Ranked
<1>2. \A t : Selected(t)' = Selected(t)
  BY <1>1, CallKept DEF Selected, Owned
<1>3. \A t : RowRight(t)' <=> RightRow(t, out'[t])
  BY <1>2, CallKept DEF RowRight, RightRow
<1>4. \A t : LanesOf(t)' = LanesOf(t)
  <2> TAKE t
  <2>1. Ranked(t, call.order)' = Ranked(t, call.order) /\ WantLse' = WantLse
    BY <1>1, CallKept
  <2>2. OwnedRow(Ranked(t, call.order), call)' = OwnedRow(Ranked(t, call.order), call)
    BY <2>1 DEF OwnedRow, Owned
  <2>3. QED
    BY <2>1, <2>2 DEF LanesOf
<1>5. \A l, j, i : Cached(l, j, i)' = Cached(l, j, i)
  BY CallKept DEF Cached
<1>6. ASSUME lanes' = lanes PROVE Converted' = Converted /\ ValidCounts' = ValidCounts
  <2>1. \A t, p : Convert(t, p)' = Convert(t, p)
    BY CallKept DEF Convert
  <2>2. Tokens' = Tokens
    BY CallKept
  <2>3. QED
    BY <1>6, <2>1, <2>2 DEF Converted, ValidCounts
<1>7. QED
  BY <1>3, <1>4, <1>5, <1>6

\* Between the calls of forward_mqa there is nothing to be right.
LEMMA QuietStep ==
  ASSUME DOMAIN workspace' = 0 .. WorkspaceSize - 1, pc' \in {"idle", "chunking", "ready"}
  PROVE  Answered'
BY DEF Answered, Serving

\* A quotient and a remainder are unique.
LEMMA QuotientOf ==
  ASSUME NEW a \in Nat, NEW n \in Nat \ {0}, NEW r \in 0 .. n - 1
  PROVE  (a * n + r) \div n = a /\ (a * n + r) % n = r
<1> DEFINE p == a * n + r
           b == p \div n
           s == p % n
<1>1. a * n \in Nat /\ p \in Nat
  OBVIOUS
<1>2. b \in Nat /\ s \in 0 .. n - 1 /\ b * n + s = p
  BY <1>1, DivMod
<1>3. p = a * n + r
  OBVIOUS
<1> HIDE DEF p, b, s
<1>4. b * n \in Int
  BY <1>2
<1>5. ASSUME a + 1 <= b PROVE FALSE
  <2>1. (b - a - 1) * n >= 0
    BY <1>2, <1>5
  <2>2. (b - a - 1) * n = b * n - a * n - n
    BY <1>2
  <2>3. QED
    BY <1>1, <1>2, <1>3, <1>4, <2>1, <2>2
<1>6. ASSUME b + 1 <= a PROVE FALSE
  <2>1. (a - b - 1) * n >= 0
    BY <1>2, <1>6
  <2>2. (a - b - 1) * n = a * n - b * n - n
    BY <1>2
  <2>3. QED
    BY <1>1, <1>2, <1>3, <1>4, <2>1, <2>2
<1>7. b = a
  BY <1>2, <1>5, <1>6
<1>8. s = r
  BY <1>1, <1>2, <1>3, <1>7
<1>9. QED
  BY <1>7, <1>8 DEF b, s, p

\* The LSE of the decode kernel, transposed and reshaped, is at its row and head.
LEMMA DecodeLseRight ==
  ASSUME Called, KernelHeads = QHeads, NumDecodes = Size, NEW base,
         NEW t \in Tokens
  PROVE  DecodeLse(base)[t] = [h \in 1 .. QHeads |-> <<t, h, base>>]
<1> DEFINE H == QHeads
           S == SpecLen
           q == Batch[1].query
           d == (t - 1) \div S
           s == (t - 1) % S
<1>1. /\ Size \in Nat \ {0} /\ H \in Nat \ {0} /\ q \in Nat \ {0}
      /\ NumDecodeTokens = TokenCount(Batch) /\ NumDecodeTokens = Size * q
  <2>1. call.heads \in Nat \ {0} /\ call.ranks \in Nat \ {0} /\ Size \in Nat \ {0}
        /\ \A j \in 1 .. Size : Batch[j].query \in Nat \ {0}
    BY CallFacts
  <2>2. H \in Nat \ {0}
    BY <2>1 DEF QHeads
  <2>3. 1 \in 1 .. Size
    BY <2>1
  <2>4. QED
    BY <2>1, <2>2, <2>3, DecodeTokens
<1>2. S = q
  <2>1. q * Size + 0 = Size * q /\ 0 \in 0 .. Size - 1 /\ q \in Nat
    BY <1>1
  <2>2. (q * Size + 0) \div Size = q
    BY <1>1, <2>1, QuotientOf
  <2>3. QED
    BY <1>1, <2>1, <2>2 DEF SpecLen
<1>3. t \in 1 .. NumDecodeTokens /\ t - 1 \in Nat
  BY <1>1, DecodeTokens DEF Tokens
<1>4. S \in Nat \ {0} /\ d \in Nat /\ s \in 0 .. S - 1 /\ d * S + s = t - 1
  BY <1>1, <1>2, <1>3, DivMod
<1> HIDE DEF H, S, d, s, q
<1>5. ASSUME NEW h \in 1 .. H
      PROVE  LET flat == (t - 1) * H + h - 1
             IN  /\ flat \div (S * H) = d /\ flat % H = h - 1 /\ (flat \div H) % S = s
  <2> DEFINE flat == (t - 1) * H + h - 1
             m    == s * H + (h - 1)
  <2>1. h - 1 \in 0 .. H - 1 /\ flat = (t - 1) * H + (h - 1)
    BY <1>1, <1>3
  <2>2. flat \div H = t - 1 /\ flat % H = h - 1
    BY <1>1, <1>3, <2>1, QuotientOf
  <2>3. S * H \in Nat \ {0}
    BY <1>1, <1>4
  <2>4. m \in 0 .. S * H - 1
    <3>1. s * H \in Nat
      BY <1>1, <1>4
    <3>2. (S - s - 1) * H >= 0 /\ (S - s - 1) * H = S * H - s * H - H
      BY <1>1, <1>4
    <3>3. QED
      BY <1>1, <2>1, <2>3, <3>1, <3>2
  <2>5. flat = d * (S * H) + m
    <3>1. (d * S + s) * H = d * (S * H) + s * H
      BY <1>1, <1>4
    <3>2. d * (S * H) \in Int /\ s * H \in Int
      BY <1>1, <1>4
    <3>3. flat = (d * S + s) * H + (h - 1)
      BY <1>4, <2>1
    <3>4. QED
      BY <2>1, <3>1, <3>2, <3>3
  <2> HIDE DEF m, flat
  <2>6. flat \div (S * H) = d
    BY <1>4, <2>3, <2>4, <2>5, QuotientOf
  <2>7. (flat \div H) % S = s
    BY <2>2 DEF s
  <2>8. QED
    BY <2>2, <2>6, <2>7 DEF flat
<1>6. ASSUME NEW h \in 1 .. H
      PROVE  LET flat == (t - 1) * H + h - 1
             IN  KernelLse(flat \div (S * H) + 1, (flat % H) + 1,
                           ((flat \div H) % S) + 1, base) = <<t, h, base>>
  <2> DEFINE flat == (t - 1) * H + h - 1
  <2>1. /\ flat \div (S * H) = d /\ flat % H = h - 1 /\ (flat \div H) % S = s
    BY <1>5
  <2> HIDE DEF flat
  <2>2. (d + 1) - 1 = d /\ (h - 1) + 1 = h /\ d * S + (s + 1) = t
    <3>1. d * S \in Int
      BY <1>4
    <3>2. QED
      BY <1>1, <1>3, <1>4, <3>1
  <2>3. KernelLse(d + 1, h, s + 1, base) = <<t, h, base>>
    BY <2>2 DEF KernelLse, S
  <2>4. QED
    BY <2>1, <2>2, <2>3 DEF flat
<1>7. DecodeLse(base)[t] =
        [h \in 1 .. H |->
           LET flat == (t - 1) * H + h - 1
           IN  KernelLse(flat \div (S * H) + 1, (flat % H) + 1,
                         ((flat \div H) % S) + 1, base)]
  BY <1>3 DEF DecodeLse, H, S
<1>8. QED
  BY <1>6, <1>7 DEF H

\* Nothing is answered at first.
LEMMA InitAnswered == Init => Answered
BY DEF Init, Answered, Serving

\* A batch is built, or the next layer begins: nothing is being answered.
LEMMA QuietSteps ==
  ASSUME Answered, build \/ AppendChunk \/ FinishBuild \/ NextLayer
  PROVE  Answered'
<1>1. DOMAIN workspace = 0 .. WorkspaceSize - 1
  BY DEF Answered
<1>2. CASE build
  <2>1. pc' \in {"idle", "chunking", "ready"} /\ workspace' = workspace
    BY <1>2 DEF build
  <2>2. QED
    BY <1>1, <2>1, QuietStep
<1>3. CASE AppendChunk
  <2>1. pc' \in {"idle", "chunking", "ready"} /\ workspace' = workspace
    BY <1>3 DEF AppendChunk
  <2>2. QED
    BY <1>1, <2>1, QuietStep
<1>4. CASE FinishBuild
  <2>1. pc' \in {"idle", "chunking", "ready"} /\ workspace' = workspace
    BY <1>4 DEF FinishBuild
  <2>2. QED
    BY <1>1, <2>1, QuietStep
<1>5. CASE NextLayer
  <2>1. pc' \in {"idle", "chunking", "ready"} /\ DOMAIN workspace' = DOMAIN workspace
    BY <1>5 DEF NextLayer
  <2>2. QED
    BY <1>1, <2>1, QuietStep
<1>6. QED
  BY <1>2, <1>3, <1>4, <1>5

\* forward_mqa begins with the indexer's rows.
LEMMA ForwardStep ==
  ASSUME Built, Answered, forward_mqa
  PROVE  Answered'
<1>1. /\ UNCHANGED <<call, meta, layer, workspace>> /\ chunk' = 1
      /\ pc' = IF WantLse /\ ~call.fp8 THEN "raised" ELSE "convert"
      /\ lanes' = [t \in Tokens |-> LanesOf(t)] /\ DOMAIN out' = Tokens
  BY DEF forward_mqa, LanesOf, NothingYet
<1>2. DOMAIN workspace' = 0 .. WorkspaceSize - 1
  BY <1>1 DEF Answered
<1>3. Tokens' = Tokens /\ WantLse' = WantLse /\ \A t : LanesOf(t)' = LanesOf(t)
  BY <1>1, CallKept, ServeKept
<1>4. lanes' = [t \in Tokens |-> LanesOf(t)]'
  BY <1>1, <1>3
<1>5. QED
  BY <1>1, <1>2, <1>3, <1>4 DEF Answered, Serving

\* A path that writes the row of every token and returns.
LEMMA ReturnStep ==
  ASSUME Built, Answered, pc \in Serving, UNCHANGED <<call, meta, layer, workspace>>,
         pc' = "returned", DOMAIN out' = Tokens,
         \A t \in Tokens : /\ RightRow(t, out'[t])
                           /\ WantLse => lse'[t] = [h \in 1 .. QHeads |-> <<t, h, "e">>]
  PROVE  Answered'
<1>1. Tokens' = Tokens /\ WantLse' = WantLse /\ \A t : RowRight(t)' <=> RightRow(t, out'[t])
  BY CallKept, ServeKept
<1>2. ASSUME NEW t \in Tokens, WantLse PROVE LseRight(t)'
  <2>1. out'[t].heads = QHeads
    BY DEF RightRow
  <2>2. QED
    BY <1>2, <2>1 DEF LseRight
<1>3. \A t \in Tokens' : RowRight(t)' /\ (WantLse' => LseRight(t)')
  BY <1>1, <1>2
<1>4. DOMAIN workspace' = 0 .. WorkspaceSize - 1
  BY DEF Answered
<1>5. QED
  BY <1>1, <1>3, <1>4 DEF Answered, Serving

\* What is known of every token while a call is served.
LEMMA LanesFacts ==
  ASSUME Built, Answered, pc \in Serving
  PROVE  /\ Called /\ \A t \in Tokens : lanes[t] = LanesOf(t)
         /\ WantLse => call.fp8
         /\ ~ Chunked => \A t \in Tokens : InCache(t)
         /\ \A t \in Tokens : RequestOf(t) <= NumDecodes => InCache(t)
<1>1. Called /\ MetaSound
  BY DEF Built, Serving
<1>2. lanes = [t \in Tokens |-> LanesOf(t)] /\ (WantLse => call.fp8)
  BY DEF Answered
<1>3. ASSUME ~ Chunked, NEW t \in Tokens PROVE InCache(t)
  <2>1. meta = NoMeta
    BY <1>1, <1>3 DEF MetaSound, Serving
  <2>2. QED
    BY <2>1 DEF InCache, NoMeta
<1>4. ASSUME Chunked, NEW t \in Tokens, RequestOf(t) <= NumDecodes PROVE InCache(t)
  <2>1. meta.requestIds = [u \in Tokens |-> PrefillRequestId(u)]
    BY <1>1, <1>4 DEF MetaSound, Serving
  <2>2. QED
    BY <1>4, <2>1 DEF InCache, PrefillRequestId
<1>5. QED
  BY <1>1, <1>2, <1>3, <1>4

\* The BF16 cache: every row is written from the cache, over its count of lanes.
LEMMA Bf16Step ==
  ASSUME AllSupported, Built, Answered, forward_bf16_kv
  PROVE  Answered'
<1>1. /\ pc = "convert" /\ ~ call.fp8 /\ UNCHANGED <<call, meta, layer, workspace>>
      /\ PrefillHeadsFit =>
           /\ pc' = "returned"
           /\ out' = [t \in Tokens |-> Row(AttendCache(Converted[t], ValidCounts[t]), call.heads)]
  BY DEF forward_bf16_kv
<1>2. pc \in Serving
  BY <1>1 DEF Serving
<1>3. Called /\ ~ WantLse /\ \A t \in Tokens : lanes[t] = LanesOf(t) /\ InCache(t)
  <2>1. ~ Chunked
    BY <1>1 DEF Chunked, Separate
  <2>2. QED
    BY <1>1, <1>2, <2>1, LanesFacts
<1>4. PrefillHeadsFit /\ QHeads = call.heads
  BY <1>3, SupportedFacts
<1>5. ASSUME NEW t \in Tokens PROVE RightRow(t, out'[t])
  <2>1. ValidCounts[t] \in 0 .. TopK /\ LanesUsed(t) = 1 .. ValidCounts[t]
    BY <1>3, CountFacts
  <2>2. AttendCache(Converted[t], ValidCounts[t]) = KeysOf(t)
    BY <1>3, <2>1, CacheRow
  <2>3. out'[t] = Row(KeysOf(t), QHeads)
    BY <1>1, <1>4, <2>2
  <2>4. QED
    BY <1>3, <2>3, KeysRight
<1>6. DOMAIN out' = Tokens /\ pc' = "returned"
  BY <1>1, <1>4
<1>7. QED
  BY <1>1, <1>2, <1>3, <1>5, <1>6, ReturnStep

\* The FP8 kernel's row for a token whose keys are in the cache.
LEMMA Fp8Row ==
  ASSUME Called, NEW t \in Tokens, lanes[t] = LanesOf(t), InCache(t)
  PROVE  RightRow(t, Fp8Out(Converted[t]))
<1>1. TopK \in Nat
  BY SparseBackendAssumption
<1>2. TopK \in 0 .. TopK /\ LanesUsed(t) \subseteq 1 .. TopK
  BY <1>1 DEF LanesUsed
<1>3. AttendCache(Converted[t], TopK) = KeysOf(t)
  BY <1>2, CacheRow
<1>4. QED
  BY <1>3, KeysRight DEF Fp8Out

\* The LSE is natural whichever kernel served.
LEMMA BaseNatural == \A r : Base(r) = "e"
BY DEF Base, TimesLogTwo

\* The mixed batch: every row is written from the cache, over all lanes.
LEMMA MixedStep ==
  ASSUME AllSupported, Built, Answered, forward_fp8_kv_mixed_batch
  PROVE  Answered'
<1>1. /\ pc = "convert" /\ Mixed /\ UNCHANGED <<call, meta, layer, workspace>>
      /\ pc' = "returned" /\ out' = [t \in Tokens |-> Fp8Out(Converted[t])]
      /\ WantLse => lse' = MixedLse("e")
  BY BaseNatural DEF forward_fp8_kv_mixed_batch
<1>2. pc \in Serving
  BY <1>1 DEF Serving
<1>3. Called /\ (WantLse => call.fp8) /\ \A t \in Tokens : lanes[t] = LanesOf(t) /\ InCache(t)
  <2>1. ~ Chunked
    BY <1>1 DEF Chunked, Separate
  <2>2. QED
    BY <1>2, <2>1, LanesFacts
<1>4. ASSUME NEW t \in Tokens PROVE RightRow(t, out'[t])
  <2>1. RightRow(t, Fp8Out(Converted[t])) /\ out'[t] = Fp8Out(Converted[t])
    BY <1>1, <1>3, Fp8Row
  <2>2. QED
    BY <2>1
<1>5. ASSUME NEW t \in Tokens, WantLse
      PROVE  lse'[t] = [h \in 1 .. QHeads |-> <<t, h, "e">>]
  <2>1. KernelHeads = QHeads
    BY <1>3, <1>5, SupportedFacts
  <2>2. QED
    BY <1>1, <1>5, <2>1 DEF MixedLse
<1>6. QED
  BY <1>1, <1>2, <1>4, <1>5, ReturnStep

\* The chunks of a batch that has prefills, once it is built.
LEMMA ServedChunks ==
  ASSUME Built, pc \in Serving, Chunked
  PROVE  /\ ChunksSound /\ meta.starts = cpu /\ ChunksEnd = NumPrefills
         /\ meta.requestIds = [t \in Tokens |-> PrefillRequestId(t)]
         /\ Len(meta.chunks) \in Nat \ {0}
<1>1. Called /\ ChunksSound /\ meta.starts = cpu /\ ChunksEnd = NumPrefills
      /\ meta.requestIds = [t \in Tokens |-> PrefillRequestId(t)]
  BY DEF Built, Serving, MetaSound
<1>2. meta.chunks # <<>> /\ meta.chunks \in Seq(ChunkSet)
  BY <1>1 DEF ChunksEnd, ChunksSound, Chunked
<1>3. Len(meta.chunks) \in Nat \ {0}
  BY <1>2
<1>4. QED
  BY <1>1, <1>3

\* Before the decodes nothing is written; without decodes the chunks are next.
LEMMA SeparateStep ==
  ASSUME Built, Answered, forward_fp8_kv_separate_prefill_decode
  PROVE  Answered'
<1>1. /\ pc = "convert" /\ Separate /\ UNCHANGED <<call, meta, layer, workspace>>
      /\ lanes' = lanes /\ chunk' = chunk /\ out' = out
      /\ indices' = Converted /\ counts' = ValidCounts
      /\ pc' = IF NumDecodeTokens > 0 THEN "decode" ELSE "gather"
  BY DEF forward_fp8_kv_separate_prefill_decode
<1>2. pc \in Serving
  BY <1>1 DEF Serving
<1>3. /\ Called /\ chunk = 1 /\ lanes = [t \in Tokens |-> LanesOf(t)] /\ (WantLse => call.fp8)
      /\ DOMAIN out = Tokens /\ DOMAIN workspace = 0 .. WorkspaceSize - 1
  BY <1>1, <1>2, LanesFacts DEF Answered
<1>4. /\ Converted' = Converted /\ ValidCounts' = ValidCounts /\ Tokens' = Tokens
      /\ Separate' = Separate /\ NumDecodeTokens' = NumDecodeTokens /\ WantLse' = WantLse
      /\ NumDecodes' = NumDecodes /\ NumPrefills' = NumPrefills
      /\ [t \in Tokens |-> LanesOf(t)]' = [t \in Tokens |-> LanesOf(t)]
  BY <1>1, CallKept, ServeKept
<1>5. CASE NumDecodeTokens > 0
  BY <1>1, <1>3, <1>4, <1>5 DEF Answered, Serving
<1>6. CASE ~ (NumDecodeTokens > 0)
  <2>1. NumDecodeTokens \in Nat /\ NumDecodeTokens = 0
    <3>1. NumDecodeTokens \in 0 .. TokenCount(Batch) /\ TokenCount(Batch) \in Nat
      BY <1>3, DecodeTokens
    <3>2. QED
      BY <1>6, <3>1
  <2>2. NumPrefills > 0
    BY <1>3, <2>1, DecodeFacts, DecodeTokens, CallFacts
  <2>3. chunk <= Len(meta.chunks)
    <3>1. Chunked
      BY <1>1, <2>2 DEF Chunked
    <3>2. Len(meta.chunks) \in Nat \ {0}
      BY <1>2, <3>1, ServedChunks
    <3>3. QED
      BY <1>3, <3>2
  <2>4. \A t \in Tokens : ~ (RequestOf(t) <= NumDecodes)
    BY <1>3, <2>1, DecodeTokens, RequestFacts
  <2>5. \A t \in Tokens' : RequestOf(t)' <= NumDecodes' => RowRight(t)'
    BY <1>1, <1>4, <2>4, CallKept
  <2>6. \A i : ~ Through(i)'
    BY <1>1, <1>3 DEF Through
  <2>7. pc' = "gather"
    BY <1>1, <1>6
  <2>8. QED
    BY <1>1, <1>3, <1>4, <2>2, <2>3, <2>5, <2>6, <2>7 DEF Answered, Serving
<1>7. QED
  BY <1>5, <1>6

\* The decodes: their rows are written; without prefills that is all.
LEMMA DecodeStep ==
  ASSUME AllSupported, Built, Answered, fp8_decode
  PROVE  Answered'
<1>1. /\ pc = "decode" /\ UNCHANGED <<call, meta, layer, workspace>>
      /\ lanes' = lanes /\ chunk' = chunk /\ indices' = indices /\ counts' = counts
      /\ DecodeShapesFit =>
           /\ pc' = IF NumPrefills > 0 THEN "gather" ELSE "returned"
           /\ out' = [t \in Tokens |-> IF t <= NumDecodeTokens THEN Fp8Out(indices[t])
                                                                ELSE out[t]]
           /\ WantLse => lse' = DecodeLse("e")
  BY BaseNatural DEF fp8_decode, AfterDecode
<1>2. pc \in Serving
  BY <1>1 DEF Serving
<1>3. /\ Called /\ chunk = 1 /\ lanes = [t \in Tokens |-> LanesOf(t)] /\ (WantLse => call.fp8)
      /\ DOMAIN out = Tokens /\ DOMAIN workspace = 0 .. WorkspaceSize - 1
      /\ Separate /\ indices = Converted /\ counts = ValidCounts
  BY <1>1, <1>2, LanesFacts DEF Answered
<1>4. DecodeShapesFit
  <2>1. WantLse => KernelHeads = QHeads
    BY <1>3, SupportedFacts
  <2>2. NumPrefills > 0 => QHeads = call.heads
    BY <1>3, SupportedFacts
  <2>3. QED
    BY <2>1, <2>2 DEF DecodeShapesFit
<1>5. ASSUME NEW t \in Tokens, t <= NumDecodeTokens PROVE RightRow(t, out'[t])
  <2>1. InCache(t) /\ lanes[t] = LanesOf(t)
    BY <1>2, <1>3, <1>5, LanesFacts, DecodeTokens
  <2>2. RightRow(t, Fp8Out(Converted[t]))
    BY <1>3, <2>1, Fp8Row
  <2>3. out'[t] = Fp8Out(Converted[t])
    BY <1>1, <1>3, <1>4, <1>5
  <2>4. QED
    BY <2>2, <2>3
<1>6. DOMAIN out' = Tokens
  BY <1>1, <1>4
<1>7. NumPrefills \in Nat /\ NumDecodes \in 0 .. Size /\ NumPrefills = Size - NumDecodes
      /\ Size \in Nat
  BY <1>3, DecodeFacts, CallFacts
<1>8. CASE NumPrefills > 0
  <2>1. /\ Converted' = Converted /\ ValidCounts' = ValidCounts /\ Tokens' = Tokens
        /\ Separate' = Separate /\ WantLse' = WantLse
        /\ NumDecodes' = NumDecodes /\ NumPrefills' = NumPrefills
        /\ [t \in Tokens |-> LanesOf(t)]' = [t \in Tokens |-> LanesOf(t)]
    BY <1>1, CallKept, ServeKept
  <2>2. chunk <= Len(meta.chunks)
    <3>1. Chunked
      BY <1>3, <1>8 DEF Chunked
    <3>2. Len(meta.chunks) \in Nat \ {0}
      BY <1>2, <3>1, ServedChunks
    <3>3. QED
      BY <1>3, <3>2
  <2>3. ASSUME NEW t \in Tokens', RequestOf(t)' <= NumDecodes' PROVE RowRight(t)'
    <3>1. t \in Tokens /\ RequestOf(t) <= NumDecodes
      BY <1>1, <2>1, <2>3, CallKept
    <3>2. t <= NumDecodeTokens
      BY <1>3, <3>1, DecodeTokens
    <3>3. QED
      BY <1>1, <1>5, <3>1, <3>2, ServeKept
  <2>4. \A i : ~ Through(i)'
    BY <1>1, <1>3 DEF Through
  <2>5. pc' = "gather"
    BY <1>1, <1>4, <1>8
  <2>6. QED
    BY <1>1, <1>3, <1>6, <1>8, <2>1, <2>2, <2>3, <2>4, <2>5 DEF Answered, Serving
<1>9. CASE ~ (NumPrefills > 0)
  <2>1. NumDecodes = Size /\ pc' = "returned"
    BY <1>1, <1>4, <1>7, <1>9
  <2>2. \A t \in Tokens : t <= NumDecodeTokens
    BY <1>3, <1>7, <2>1, DecodeTokens, RequestFacts
  <2>3. ASSUME NEW t \in Tokens, WantLse
        PROVE  lse'[t] = [h \in 1 .. QHeads |-> <<t, h, "e">>]
    <3>1. KernelHeads = QHeads /\ lse' = DecodeLse("e")
      BY <1>1, <1>3, <1>4, <2>3, SupportedFacts
    <3>2. QED
      BY <1>3, <2>1, <2>3, <3>1, DecodeLseRight
  <2>4. QED
    BY <1>1, <1>2, <1>5, <1>6, <2>1, <2>2, <2>3, ReturnStep
<1>10. QED
  BY <1>8, <1>9

\* In the workspace the chunk's requests have parts of their own: each is what is gathered
\* for it.
LEMMA GatherStep ==
  ASSUME Built, Answered, GatherChunk
  PROVE  Answered'
<1> DEFINE c == meta.chunks[chunk]
           In(a, i) == meta.starts[i] <= a /\ a < meta.starts[i] + PrefillLen(i)
<1>1. /\ pc = "gather" /\ pc' = "attend" /\ UNCHANGED <<call, meta, layer>>
      /\ lanes' = lanes /\ chunk' = chunk /\ indices' = indices /\ counts' = counts /\ out' = out
      /\ workspace' =
           [a \in DOMAIN workspace |->
              IF \E i \in c.first .. c.last : In(a, i)
                THEN LET i == CHOOSE i \in c.first .. c.last : In(a, i)
                     IN  Cached(layer, NumDecodes + i, a - meta.starts[i])
                ELSE workspace[a]]
  BY DEF GatherChunk
<1>2. pc \in Serving
  BY <1>1 DEF Serving
<1>3. /\ Called /\ lanes = [t \in Tokens |-> LanesOf(t)] /\ (WantLse => call.fp8)
      /\ DOMAIN out = Tokens /\ DOMAIN workspace = 0 .. WorkspaceSize - 1
      /\ Separate /\ indices = Converted /\ counts = ValidCounts
      /\ NumPrefills > 0 /\ chunk <= Len(meta.chunks)
      /\ \A t \in Tokens : RequestOf(t) <= NumDecodes => RowRight(t)
      /\ \A t \in Tokens : Through(RequestOf(t) - NumDecodes) => RowRight(t)
  BY <1>1, <1>2, LanesFacts DEF Answered
<1>4. ChunksSound /\ meta.starts = cpu /\ Len(meta.chunks) \in Nat \ {0}
  BY <1>2, <1>3, ServedChunks DEF Chunked
<1>5. chunk \in DOMAIN meta.chunks
  <2>1. DOMAIN meta.chunks = 1 .. Len(meta.chunks)
    BY <1>3, <1>4, ChunkFacts
  <2>2. QED
    BY <1>3, <1>4, <2>1 DEF Built
<1>6. /\ c.size <= WorkspaceSize /\ c.size \in Nat
      /\ \A i \in c.first .. c.last :
           /\ cpu[i] \in Nat /\ PrefillLen(i) \in Nat \ {0} /\ cpu[i] + PrefillLen(i) <= c.size
           /\ \A j \in c.first .. c.last : i < j => cpu[i] + PrefillLen(i) <= cpu[j]
  BY <1>3, <1>4, <1>5, ChunkPlaces
<1>7. WorkspaceSize \in Nat /\ c.first \in Nat /\ c.last \in Nat
  <2>1. WorkspaceSize \in Nat
    BY SparseBackendAssumption DEF WorkspaceSize
  <2>2. c.first \in 1 .. NumPrefills /\ c.last \in 1 .. NumPrefills
    BY <1>3, <1>4, <1>5, ChunkFacts
  <2>3. QED
    BY <2>1, <2>2
<1> HIDE DEF c
<1>8. ASSUME NEW i \in c.first .. c.last, NEW p \in 0 .. PrefillLen(i) - 1
      PROVE  workspace'[meta.starts[i] + p] = Cached(layer, NumDecodes + i, p)
  <2> DEFINE a == meta.starts[i] + p
             j == CHOOSE k \in c.first .. c.last : In(a, k)
  <2>1. /\ meta.starts[i] \in Nat /\ p \in Nat /\ p < PrefillLen(i) /\ PrefillLen(i) \in Nat
        /\ meta.starts[i] + PrefillLen(i) <= c.size
    BY <1>4, <1>6, <1>8
  <2>2. In(a, i) /\ a \in Nat /\ a < c.size
    BY <1>6, <2>1
  <2>3. j \in c.first .. c.last /\ In(a, j)
    <3> HIDE DEF a, In
    <3>1. QED
      BY <2>2
  <2>4. j = i
    <3>1. /\ j \in Nat /\ i \in Nat /\ meta.starts[j] \in Nat /\ PrefillLen(j) \in Nat
          /\ meta.starts[j] <= a /\ a < meta.starts[j] + PrefillLen(j)
      BY <1>4, <1>6, <1>7, <2>3
    <3> HIDE DEF j
    <3>2. i < j => meta.starts[i] + PrefillLen(i) <= meta.starts[j]
      BY <1>4, <1>6, <2>3
    <3>3. j < i => meta.starts[j] + PrefillLen(j) <= meta.starts[i]
      BY <1>4, <1>6, <2>3
    <3>4. meta.starts[i] <= a /\ a < meta.starts[i] + PrefillLen(i)
      BY <2>2
    <3> HIDE DEF a
    <3>5. QED
      BY <2>1, <2>2, <3>1, <3>2, <3>3, <3>4
  <2>5. a \in DOMAIN workspace /\ a - meta.starts[i] = p
    <3>1. a - meta.starts[i] = p
      BY <2>1
    <3>2. a \in Nat /\ a < c.size
      BY <2>2
    <3>3. DOMAIN workspace = 0 .. WorkspaceSize - 1 /\ c.size \in Nat /\ c.size <= WorkspaceSize
      BY <1>3, <1>6
    <3> HIDE DEF a, In
    <3>4. a \in DOMAIN workspace
      BY <1>7, <3>2, <3>3
    <3>5. QED
      BY <3>1, <3>4
  <2> HIDE DEF a, In
  <2>6. workspace'[a] = Cached(layer, NumDecodes + j, a - meta.starts[j])
    BY <1>1, <2>2, <2>5 DEF j
  <2>7. QED
    BY <2>4, <2>5, <2>6 DEF a
<1>9. GatheredRight'
  <2>1. \A l, j, i : Cached(l, j, i)' = Cached(l, j, i)
    BY <1>1, ServeKept
  <2>2. \A i : PrefillLen(i)' = PrefillLen(i)
    BY <1>1, CallKept
  <2>3. NumDecodes' = NumDecodes /\ meta'.chunks[chunk'] = c /\ meta' = meta /\ layer' = layer
    BY <1>1, CallKept DEF c
  <2>4. QED
    BY <1>8, <2>1, <2>2, <2>3 DEF GatheredRight
<1>10. DOMAIN workspace' = 0 .. WorkspaceSize - 1
  BY <1>1, <1>3
<1>11. /\ Converted' = Converted /\ ValidCounts' = ValidCounts /\ Tokens' = Tokens
       /\ Separate' = Separate /\ WantLse' = WantLse
       /\ NumDecodes' = NumDecodes /\ NumPrefills' = NumPrefills
       /\ [t \in Tokens |-> LanesOf(t)]' = [t \in Tokens |-> LanesOf(t)]
  BY <1>1, CallKept, ServeKept
<1>12. \A t : RowRight(t)' <=> RowRight(t)
  BY <1>1, ServeKept DEF RowRight
<1>13. \A i : Through(i)' <=> Through(i)
  BY <1>1 DEF Through
<1>14. /\ \A t \in Tokens' : RequestOf(t)' <= NumDecodes' => RowRight(t)'
       /\ \A t \in Tokens' : Through(RequestOf(t) - NumDecodes)' => RowRight(t)'
  <2>1. \A t : RequestOf(t)' = RequestOf(t)
    BY <1>1, CallKept
  <2>2. \A t : Through(RequestOf(t) - NumDecodes)' <=> Through(RequestOf(t) - NumDecodes)
    BY <1>1, <1>11, <2>1 DEF Through
  <2>3. QED
    BY <1>3, <1>11, <1>12, <2>1, <2>2
<1>15. QED
  BY <1>1, <1>3, <1>9, <1>10, <1>11, <1>14 DEF Answered, Serving

\* A chunk's tokens attend over its part of the workspace; after the last chunk every
\* prefill has been through one.
LEMMA AttendStep ==
  ASSUME AllSupported, Built, Answered, AttendChunk
  PROVE  Answered'
<1> DEFINE c == meta.chunks[chunk]
           slice == c.tokens[1] .. c.tokens[2]
<1>1. /\ pc = "attend" /\ UNCHANGED <<call, meta, layer, workspace>>
      /\ lanes' = lanes /\ chunk' = chunk + 1 /\ indices' = indices /\ counts' = counts
      /\ PrefillHeadsFit =>
           /\ out' = [t \in Tokens |->
                        IF t \in slice
                          THEN Row(AttendWorkspace(indices[t], counts[t], c.size), call.heads)
                          ELSE out[t]]
           /\ pc' = IF chunk = Len(meta.chunks) THEN "returned" ELSE "gather"
  BY DEF AttendChunk
<1>2. pc \in Serving
  BY <1>1 DEF Serving
<1>3. /\ Called /\ lanes = [t \in Tokens |-> LanesOf(t)] /\ (WantLse => call.fp8)
      /\ DOMAIN workspace = 0 .. WorkspaceSize - 1
      /\ Separate /\ indices = Converted /\ counts = ValidCounts
      /\ NumPrefills > 0 /\ chunk <= Len(meta.chunks) /\ GatheredRight
      /\ \A t \in Tokens : RequestOf(t) <= NumDecodes => RowRight(t)
      /\ \A t \in Tokens : Through(RequestOf(t) - NumDecodes) => RowRight(t)
  BY <1>1, <1>2, LanesFacts DEF Answered
<1>4. /\ ChunksSound /\ meta.starts = cpu /\ ChunksEnd = NumPrefills
      /\ meta.requestIds = [t \in Tokens |-> PrefillRequestId(t)]
      /\ Len(meta.chunks) \in Nat \ {0}
  BY <1>2, <1>3, ServedChunks DEF Chunked
<1>5. DOMAIN meta.chunks = 1 .. Len(meta.chunks) /\ chunk \in DOMAIN meta.chunks
      /\ chunk \in Nat \ {0}
  <2>1. DOMAIN meta.chunks = 1 .. Len(meta.chunks)
    BY <1>3, <1>4, ChunkFacts
  <2>2. QED
    BY <1>3, <1>4, <2>1 DEF Built
<1>6. /\ c.first \in 1 .. NumPrefills /\ c.last \in 1 .. NumPrefills /\ c.first <= c.last
      /\ c.tokens = TokensSlice(c.first, c.last)
  <2>1. /\ c = ChunkOf(c.first, c.last)
        /\ c.first \in 1 .. NumPrefills /\ c.last \in 1 .. NumPrefills /\ c.first <= c.last
    BY <1>3, <1>4, <1>5, ChunkFacts
  <2>2. ChunkOf(c.first, c.last).tokens = TokensSlice(c.first, c.last)
    BY DEF ChunkOf
  <2> HIDE DEF c
  <2>3. QED
    BY <2>1, <2>2
<1>7. ~ WantLse /\ QHeads = call.heads /\ PrefillHeadsFit
  <2>1. ~ WantLse
    BY <1>3, SupportedFacts
  <2>2. QED
    BY <1>3, <2>1, SupportedFacts
<1>8. \A t \in Tokens : t \in slice <=> RequestOf(t) - NumDecodes \in c.first .. c.last
  <2>1. slice = QueryStart(NumDecodes + c.first) + 1 .. QueryStart(NumDecodes + c.last + 1)
    BY <1>6 DEF TokensSlice
  <2> HIDE DEF c, slice
  <2>2. QED
    BY <1>3, <1>6, <2>1, SliceFacts
<1>9. ASSUME NEW t \in Tokens, RequestOf(t) - NumDecodes \in c.first .. c.last
      PROVE  RightRow(t, out'[t])
  <2>1. AttendWorkspace(Converted[t], ValidCounts[t], c.size) = KeysOf(t)
    BY <1>3, <1>4, <1>5, <1>7, <1>9, WorkspaceRow
  <2>2. out'[t] = Row(AttendWorkspace(indices[t], counts[t], c.size), call.heads)
    <3>1. t \in slice
      BY <1>8, <1>9
    <3> HIDE DEF c, slice
    <3>2. QED
      BY <1>1, <1>7, <3>1
  <2>3. out'[t] = Row(KeysOf(t), QHeads)
    BY <1>3, <1>7, <2>1, <2>2
  <2>4. QED
    BY <1>3, <2>3, KeysRight
<1>10. ASSUME NEW t \in Tokens, ~ (RequestOf(t) - NumDecodes \in c.first .. c.last), RowRight(t)
       PROVE  RightRow(t, out'[t])
  <2>1. out'[t] = out[t]
    <3>1. t \notin slice
      BY <1>8, <1>10
    <3> HIDE DEF c, slice
    <3>2. QED
      BY <1>1, <1>7, <3>1
  <2>2. QED
    BY <1>10, <2>1 DEF RowRight
<1>11. \A t \in Tokens : RowRight(t) => RightRow(t, out'[t])
  BY <1>9, <1>10
<1>12. DOMAIN out' = Tokens
  BY <1>1, <1>7
<1> HIDE DEF slice
<1>13. NumPrefills \in Nat /\ NumDecodes \in 0 .. Size /\ NumPrefills = Size - NumDecodes
       /\ Size \in Nat /\ \A t \in Tokens : RequestOf(t) \in 1 .. Size
  BY <1>3, DecodeFacts, CallFacts, RequestFacts
<1>14. CASE chunk = Len(meta.chunks)
  <2>1. pc' = "returned"
    BY <1>1, <1>7, <1>14
  <2>2. ASSUME NEW t \in Tokens PROVE RightRow(t, out'[t])
    <3> DEFINE q == RequestOf(t) - NumDecodes
    <3>1. RequestOf(t) <= NumDecodes \/ q \in 1 .. NumPrefills
      BY <1>13
    <3>2. ASSUME q \in 1 .. NumPrefills PROVE RightRow(t, out'[t])
      <4>1. PICK k \in DOMAIN meta.chunks : meta.chunks[k].first <= q /\ q <= meta.chunks[k].last
        BY <1>4, <3>2 DEF ChunksSound
      <4>2. CASE k = chunk
        <5>1. q \in c.first .. c.last
          BY <1>6, <3>2, <4>1, <4>2
        <5>2. QED
          BY <1>9, <5>1
      <4>3. CASE k # chunk
        <5>1. k \in 1 .. chunk - 1
          BY <1>5, <1>14, <4>3
        <5>2. Through(q)
          BY <4>1, <5>1 DEF Through
        <5>3. QED
          BY <1>3, <1>11, <5>2
      <4>4. QED
        BY <4>2, <4>3
    <3>3. QED
      BY <1>3, <1>11, <3>1, <3>2
  <2>3. QED
    BY <1>1, <1>2, <1>7, <1>12, <2>1, <2>2, ReturnStep
<1>15. CASE chunk # Len(meta.chunks)
  <2>1. pc' = "gather"
    BY <1>1, <1>7, <1>15
  <2>2. /\ Converted' = Converted /\ ValidCounts' = ValidCounts /\ Tokens' = Tokens
        /\ Separate' = Separate /\ WantLse' = WantLse
        /\ NumDecodes' = NumDecodes /\ NumPrefills' = NumPrefills
        /\ [t \in Tokens |-> LanesOf(t)]' = [t \in Tokens |-> LanesOf(t)]
        /\ \A t : RequestOf(t)' = RequestOf(t)
        /\ \A t : RowRight(t)' <=> RightRow(t, out'[t])
    BY <1>1, CallKept, ServeKept
  <2>3. chunk' <= Len(meta'.chunks)
    BY <1>1, <1>3, <1>4, <1>5, <1>15
  <2>4. \A t \in Tokens' : RequestOf(t)' <= NumDecodes' => RowRight(t)'
    BY <1>3, <1>11, <2>2
  <2>5. ASSUME NEW t \in Tokens', Through(RequestOf(t) - NumDecodes)' PROVE RowRight(t)'
    <3> DEFINE q == RequestOf(t) - NumDecodes
    <3>1. t \in Tokens /\ q \in Int
      BY <1>13, <2>2
    <3>2. PICK k \in 1 .. chunk : meta.chunks[k].first <= q /\ q <= meta.chunks[k].last
      <4>1. chunk' - 1 = chunk /\ q' = q
        BY <1>1, <1>5, <2>2
      <4>2. QED
        BY <1>1, <2>5, <4>1 DEF Through
    <3>3. CASE k = chunk
      <4>1. q \in c.first .. c.last
        BY <1>6, <3>1, <3>2, <3>3
      <4>2. QED
        BY <1>9, <2>2, <3>1, <4>1
    <3>4. CASE k # chunk
      <4>1. k \in 1 .. chunk - 1
        BY <1>5, <3>4
      <4>2. Through(q)
        BY <3>2, <4>1 DEF Through
      <4>3. QED
        BY <1>3, <1>11, <2>2, <3>1, <4>2
    <3>5. QED
      BY <3>3, <3>4
  <2>6. DOMAIN workspace' = 0 .. WorkspaceSize - 1 /\ DOMAIN out' = Tokens'
    BY <1>1, <1>3, <1>12, <2>2
  <2>7. QED
    BY <1>1, <1>3, <2>1, <2>2, <2>3, <2>4, <2>5, <2>6 DEF Answered, Serving
<1>16. QED
  BY <1>14, <1>15

\* Every step keeps the rows right.
LEMMA AnsweredStep ==
  ASSUME AllSupported, Built, Answered, [Next]_vars
  PROVE  Answered'
<1>1. CASE build \/ AppendChunk \/ FinishBuild \/ NextLayer
  BY <1>1, QuietSteps
<1>2. CASE forward_mqa
  BY <1>2, ForwardStep
<1>3. CASE forward_bf16_kv
  BY <1>3, Bf16Step
<1>4. CASE forward_fp8_kv_mixed_batch
  BY <1>4, MixedStep
<1>5. CASE forward_fp8_kv_separate_prefill_decode
  BY <1>5, SeparateStep
<1>6. CASE fp8_decode
  BY <1>6, DecodeStep
<1>7. CASE GatherChunk
  BY <1>7, GatherStep
<1>8. CASE AttendChunk
  BY <1>8, AttendStep
<1>9. CASE UNCHANGED vars
  <2>1. UNCHANGED vars
    BY <1>9
  <2>2. /\ UNCHANGED <<call, meta, layer>> /\ lanes' = lanes /\ chunk' = chunk /\ pc' = pc
        /\ indices' = indices /\ counts' = counts /\ out' = out /\ lse' = lse
        /\ workspace' = workspace
    BY <2>1 DEF vars
  <2>3. /\ Converted' = Converted /\ ValidCounts' = ValidCounts /\ Tokens' = Tokens
        /\ Separate' = Separate /\ WantLse' = WantLse /\ NumDecodeTokens' = NumDecodeTokens
        /\ NumDecodes' = NumDecodes /\ NumPrefills' = NumPrefills
        /\ [t \in Tokens |-> LanesOf(t)]' = [t \in Tokens |-> LanesOf(t)]
        /\ \A t : RequestOf(t)' = RequestOf(t)
    BY <2>2, CallKept, ServeKept
  <2>4. \A t : (RowRight(t)' <=> RowRight(t)) /\ (LseRight(t)' <=> LseRight(t))
    BY <2>2, ServeKept DEF RowRight, LseRight
  <2>5. \A t : Through(RequestOf(t) - NumDecodes)' <=> Through(RequestOf(t) - NumDecodes)
    BY <2>2, <2>3 DEF Through
  <2>6. GatheredRight => GatheredRight'
    <3>1. \A l, j, i : Cached(l, j, i)' = Cached(l, j, i)
      BY <2>2, ServeKept
    <3>2. \A i : PrefillLen(i)' = PrefillLen(i)
      BY <2>2, CallKept
    <3>3. QED
      BY <2>2, <2>3, <3>1, <3>2 DEF GatheredRight
  <2>7. QED
    BY <2>2, <2>3, <2>4, <2>5, <2>6 DEF Answered, Serving
<1>10. QED
  BY <1>1, <1>2, <1>3, <1>4, <1>5, <1>6, <1>7, <1>8, <1>9 DEF Next, Step

\* What Answered says of a call that has returned.
LEMMA AnsweredMeans ==
  ASSUME Answered
  PROVE  AttendsSelected /\ LsePerRow
BY DEF Answered, Serving, RowRight, RightRow, LseRight, AttendsSelected, LsePerRow

\* For the calls the backend is deployed for, on every path and layer: a row is computed
\* from the selected keys its rank owns, each once, and from nothing else.
THEOREM AttendsAlways == ASSUME AllSupported PROVE Spec => []AttendsSelected
<1>1. Built /\ Answered /\ [Next]_vars => Built' /\ Answered'
  BY BuiltStep, AnsweredStep
<1>2. Answered => AttendsSelected
  BY AnsweredMeans
<1>3. QED
  BY <1>1, <1>2, InitBuilt, InitAnswered, PTL DEF Spec

\* For these calls, under context parallelism, there is a natural LSE for every row and
\* head, at its place.
THEOREM LseAlways == ASSUME AllSupported PROVE Spec => []LsePerRow
<1>1. Built /\ Answered /\ [Next]_vars => Built' /\ Answered'
  BY BuiltStep, AnsweredStep
<1>2. Answered => LsePerRow
  BY AnsweredMeans
<1>3. QED
  BY <1>1, <1>2, InitBuilt, InitAnswered, PTL DEF Spec

=============================================================================
