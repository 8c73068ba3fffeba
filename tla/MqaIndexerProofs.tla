--------------------------- MODULE MqaIndexerProofs ---------------------------
(***************************************************************************)
(* Proofs about MqaIndexer, for every shape of a call, every number of     *)
(* keys, every size of chunk and tile and every order of a grid's programs.*)
(***************************************************************************)
EXTENDS MqaIndexer, SharedLemmas

\* The types of the constants.
LEMMA ConstantTypes ==
  /\ MaxKeys \in Nat /\ Heads \in Nat \ {0} /\ TopK \in Nat /\ Budget \in Nat
  /\ TileM \in Nat \ {0} /\ TileN \in Nat \ {0} /\ DefaultChunk \in Nat \ {0}
  /\ Configured \subseteq Int /\ Shapes \subseteq Nat \X (Nat \ {0})
  /\ Wrong \in Int /\ NegInf \notin Int /\ Unset # NegInf
  BY MqaAssumption

-----------------------------------------------------------------------------
(* Arithmetic.                                                             *)

\* What a quotient is.
LEMMA Quotient ==
  ASSUME NEW a \in Nat, NEW n \in Nat \ {0}
  PROVE  a \div n \in Nat /\ (a \div n) * n <= a /\ a < (a \div n + 1) * n
  OBVIOUS

\* Scaling keeps the order.
LEMMA Monotone ==
  ASSUME NEW a \in Int, NEW b \in Int, NEW n \in Nat, a <= b
  PROVE  a * n <= b * n
  OBVIOUS

\* A quotient is the only number between its bounds.
LEMMA QuotientUnique ==
  ASSUME NEW a \in Nat, NEW n \in Nat \ {0}, NEW q \in Int, q * n <= a, a < (q + 1) * n
  PROVE  q = a \div n
  OBVIOUS

\* A quotient is below what bounds its dividend.
LEMMA QuotientBelow ==
  ASSUME NEW a \in Nat, NEW n \in Nat \ {0}, NEW q \in Int, a < q * n
  PROVE  a \div n < q
  OBVIOUS

\* Every row is in a tile of the grid.
LEMMA CDivCovers ==
  ASSUME NEW rows \in Nat, NEW h \in Nat \ {0}, NEW r \in 0 .. rows - 1
  PROVE  r \div h \in 0 .. CDiv(rows, h) - 1
<1> DEFINE q == r \div h
           d == (rows + h - 1) \div h
<1>1. q \in Nat /\ q * h <= r
  BY Quotient
<1>2. rows + h - 1 \in Nat
  OBVIOUS
<1>3. d \in Nat /\ rows + h - 1 < (d + 1) * h
  BY <1>2, Quotient
<1> HIDE DEF q, d
<1>4. (d + 1) * h = d * h + h
  BY <1>3
<1>5. r < d * h
  BY <1>3, <1>4
<1>6. d <= q => d * h <= q * h
  BY <1>1, <1>3, Monotone
<1>7. q < d
  BY <1>1, <1>3, <1>5, <1>6
<1>8. QED
  BY <1>1, <1>3, <1>7 DEF CDiv, q, d

\* The sizes of chunks are positive, whatever the budget.
LEMMA ChunkSizes ==
  ASSUME NEW rows \in Nat, NEW keys \in Nat
  PROVE  /\ HeadChunkSize(rows, keys) \in Nat \ {0}
         /\ \A heads \in Nat : KChunkSize(rows, keys, heads) \in Nat \ {0}
<1>1. \A x \in Nat : MaxOf(1, x) \in Nat \ {0} /\ Budget \div MaxOf(1, x) \in Nat
  BY ConstantTypes, Quotient DEF MaxOf
<1>2. \A a, b \in Nat : MinOf(a, b) \in Nat
  BY DEF MinOf
<1>3. \A a, b \in Nat : a * b \in Nat
  OBVIOUS
<1>4. Heads \in Nat /\ 8 \in Nat
  BY ConstantTypes
<1>5. HeadChunkSize(rows, keys) \in Nat \ {0}
  <2>1. rows * keys \in Nat
    BY <1>3
  <2>2. MinOf(MinOf(8, Heads), Budget \div MaxOf(1, rows * keys)) \in Nat
    BY <1>1, <1>2, <1>4, <2>1
  <2>3. QED
    BY <1>1, <2>2 DEF HeadChunkSize
<1>6. ASSUME NEW heads \in Nat PROVE KChunkSize(rows, keys, heads) \in Nat \ {0}
  <2>1. rows * heads \in Nat
    BY <1>3
  <2>2. MinOf(keys, Budget \div MaxOf(1, rows * heads)) \in Nat
    BY <1>1, <1>2, <2>1
  <2>3. QED
    BY <1>1, <2>2 DEF KChunkSize
<1>7. QED
  BY <1>5, <1>6

-----------------------------------------------------------------------------
(* Selections with lanes of value -inf.                                    *)

Valued(S) == \A s \in S : s[2] \in Int \cup {NegInf}

\* The finite part of what torch.topk selects is a selection from the finite part.
LEMMA TorchIsTopK ==
  ASSUME NEW S, IsFiniteSet(S), Valued(S), NEW k \in Nat, NEW T, TorchTopK(T, S, k)
  PROVE  IsTopK(Finite(T), Finite(S), k)
<1>1. T \in SUBSET S /\ IsFiniteSet(T) /\ Cardinality(T) <= k
      /\ (Cardinality(T) < k => T = S)
  BY AtMostCases DEF TorchTopK
<1>2. Finite(T) \in SUBSET T /\ Finite(S) \in SUBSET S /\ Finite(T) \in SUBSET Finite(S)
  BY <1>1 DEF Finite
<1>3. IsFiniteSet(Finite(S)) /\ IsFiniteSet(Finite(T))
      /\ Cardinality(Finite(S)) \in Nat /\ Cardinality(Finite(T)) \in Nat
      /\ Cardinality(Finite(T)) <= Cardinality(T) /\ Cardinality(T) \in Nat
      /\ Cardinality(Finite(T)) <= Cardinality(Finite(S))
  BY <1>1, <1>2, FS_Subset, FS_CardinalityType
<1>4. \A t \in Finite(T), s \in Finite(S) \ Finite(T) : s[2] <= t[2]
  BY <1>1 DEF TorchTopK, Finite, AtMostAs
<1>5. Cardinality(Finite(T)) = AtMost(k, Finite(S))
  <2>1. CASE \E t \in T : t[2] = NegInf
    <3>1. Finite(S) \subseteq T
      BY <2>1 DEF TorchTopK, Finite, AtMostAs
    <3>2. Finite(S) = Finite(T)
      BY <3>1, <1>2 DEF Finite
    <3>3. QED
      BY <3>2, <1>1, <1>3 DEF AtMost
  <2>2. CASE ~ \E t \in T : t[2] = NegInf
    <3>1. Finite(T) = T
      BY <2>2 DEF Finite
    <3>2. T = S => Finite(S) = S
      BY <3>1
    <3>3. QED
      BY <3>1, <3>2, <1>1, <1>3 DEF AtMost
  <2>3. QED
    BY <2>1, <2>2
<1>6. QED
  BY <1>2, <1>4, <1>5 DEF IsTopK

-----------------------------------------------------------------------------
(* The inductive invariant.                                                *)

\* The arguments of a call: every key has a row of the cache, and every row of the
\* cache a score.
JobOK ==
  /\ job.entry \in {"mqa_topk", "paged_topk", "mqa_logits", "paged_logits"}
  /\ \A r \in Rows, p \in 0 .. job.keys - 1 : CacheRow(r, p) \in CacheRows
  /\ \A r \in Rows, k \in CacheRows : job.score[r][k] \in Int
  /\ ~job.clean => job.entry = "mqa_logits"
  /\ Paged => \A r \in Rows : job.lo[r] = 0

\* Which call is where.
FlowOK ==
  /\ pc \in {"chunk", "heads", "topk", "merge"} => Streaming
  /\ pc = "idle" => count = 0
  /\ pc \in {"matmul", "rows"} => ~Streaming /\ count = job.keys
  /\ pc \in {"heads", "matmul", "mask"} => ~Paged
  /\ pc = "rows" => Paged
  /\ pc = "mask" => job.clean
  /\ pc \in {"chunk", "topk", "merge"} /\ Paged => job.path \in {"paged", "rowwise"}
  /\ pc = "grid" => \/ job.path = "dense" /\ ~Streaming
                    \/ job.path \in {"paged", "rowwise"} /\ Paged
  /\ pc \in {"heads", "grid", "mask", "topk", "merge"} /\ Streaming =>
       start < job.keys /\ count = ChunkColumns
  /\ pc = "merge" => \A r \in Rows : IsFiniteSet(chosen[r])
  /\ pc = "rows" => DOMAIN logits = Rows

\* The sizes a call computes at its start.
Sizes ==
  pc # "idle" =>
    /\ job.heads = HeadChunkSize(RowCount, job.keys)
    /\ job.entry = "mqa_topk" => job.chunk = KChunkSize(RowCount, job.keys, job.heads)

Inv == TypeOK /\ JobOK /\ FlowOK /\ Progress /\ Streamed

-----------------------------------------------------------------------------
(* Facts about a call.                                                     *)

\* A call has rows, counted from zero.
LEMMA ShapeType ==
  ASSUME TypeOK
  PROVE  /\ job.shape[1] \in Nat /\ job.shape[2] \in Nat \ {0}
         /\ RowCount \in Nat /\ Rows = 0 .. RowCount - 1
<1>1. job.shape \in Nat \X (Nat \ {0})
  BY ConstantTypes DEF TypeOK
<1>2. \A a, b \in Nat : a * b \in Nat
  OBVIOUS
<1>3. QED
  BY <1>1, <1>2 DEF RowCount, Rows, RowsOf

\* The row of the cache the kernels read is the one that holds the key.
LEMMA HomeIsCacheRow ==
  ASSUME TypeOK, NEW r \in Rows, NEW p
  PROVE  Home(r, p) = CacheRow(r, p)
<1> DEFINE n == job.shape[2]
           q == r \div n
<1>1. r \in Nat /\ n \in Nat \ {0} /\ job.shape[1] \in Nat /\ r < job.shape[1] * n
  BY ShapeType DEF RowCount
<1>2. q \in Nat /\ q * n <= r /\ r < (q + 1) * n
  BY <1>1, Quotient
<1>3. q < job.shape[1]
  <2> HIDE DEF n
  <2>1. QED
    BY <1>1, QuotientBelow
<1>4. \A b \in 0 .. job.shape[1] - 1 : b * n <= r /\ r < (b + 1) * n => b = q
  <2> HIDE DEF n
  <2>1. TAKE b \in 0 .. job.shape[1] - 1
  <2>2. b \in Int
    BY <1>1
  <2>3. QED
    BY <1>1, <2>2, QuotientUnique
<1> HIDE DEF q
<1>5. RequestOf(r) = q
  <2>1. q \in 0 .. job.shape[1] - 1
    BY <1>1, <1>2, <1>3
  <2>2. QED
    BY <1>2, <1>4, <2>1 DEF RequestOf
<1>6. QED
  BY <1>5 DEF Home, CacheRow, q

\* A call's arguments do not change while it runs, nor does what they say.
LEMMA JobFrame ==
  ASSUME job' = job
  PROVE  /\ Rows' = Rows /\ RowCount' = RowCount /\ Paged' = Paged /\ Streaming' = Streaming
         /\ \A r, p : Home(r, p)' = Home(r, p) /\ Full(r, p)' = Full(r, p)
                      /\ Visible(r, p)' = Visible(r, p) /\ CacheRow(r, p)' = CacheRow(r, p)
         /\ \A r, n : KeysBefore(r, n)' = KeysBefore(r, n)
         /\ \A n : MinKeys(n)' = MinKeys(n)
         /\ \A S : IsPairs(S)' = IsPairs(S)
         /\ JobOK => JobOK'
<1>1. /\ Rows' = Rows /\ RowCount' = RowCount /\ Paged' = Paged /\ Streaming' = Streaming
  BY DEF Rows, RowCount, Paged, Streaming
<1>2. \A r, p : Home(r, p)' = Home(r, p) /\ Full(r, p)' = Full(r, p)
                /\ Visible(r, p)' = Visible(r, p) /\ CacheRow(r, p)' = CacheRow(r, p)
  BY <1>1 DEF RequestOf, Home, Full, Visible, CacheRow
<1>3. \A r, n : KeysBefore(r, n)' = KeysBefore(r, n)
  BY <1>2 DEF KeysBefore
<1>4. \A n : MinKeys(n)' = MinKeys(n)
  BY DEF MinKeys
<1>5. \A S : IsPairs(S)' = IsPairs(S)
  BY DEF IsPairs
<1>6. JobOK => JobOK'
  BY <1>1, <1>2 DEF JobOK
<1>7. QED
  BY <1>1, <1>2, <1>3, <1>4, <1>5, <1>6

\* What a step has to show to keep the types, if it keeps the arguments.
LEMMA TypeFrame ==
  ASSUME TypeOK, UNCHANGED job,
         pc' \in {"idle", "chunk", "heads", "matmul", "rows", "mask", "grid", "topk", "merge",
                  "done"},
         row' \in Nat, start' \in Nat, count' \in 0 .. job.keys, head' \in 0 .. Heads,
         answer' \in BOOLEAN,
         Streaming /\ pc' \in {"heads", "grid", "mask", "topk", "merge"} =>
           start' + count' <= job.keys,
         pc' \in {"heads", "matmul", "rows", "mask", "grid", "topk"} =>
           \A r \in Rows, c \in 0 .. count' - 1 : IsCell(logits'[r][c]),
         \A r \in Rows : IsPairs(chosen'[r]) /\ IsPairs(best'[r]),
         \A r \in Rows : \A s \in best'[r] : s[2] \in Int
  PROVE  TypeOK'
<1>1. Rows' = Rows /\ Streaming' = Streaming /\ \A S : IsPairs(S)' = IsPairs(S)
  BY JobFrame
<1>2. Cols' = 0 .. count' - 1
  BY DEF Cols
<1>3. pc' \in {"heads", "matmul", "rows", "mask", "grid", "topk"} =>
        \A r \in Rows', c \in Cols' : IsCell(logits'[r][c])
  BY <1>1, <1>2
<1>4. QED
  BY <1>1, <1>3 DEF TypeOK

\* Sums over all heads tell the rows of the cache apart, and are no markers.
LEMMA WholeSums ==
  ASSUME NEW k \in CacheRows
  PROVE  /\ Products(k, HeadSet) \in SUBSET (CacheRows \X HeadSet)
         /\ Products(k, HeadSet) # NegInf
         /\ \A l : Products(k, HeadSet) = Products(l, HeadSet) => k = l
<1>1. Products(k, HeadSet) \in SUBSET (CacheRows \X HeadSet)
  BY DEF Products
<1>2. 0 \in HeadSet
  BY ConstantTypes DEF HeadSet
<1>3. <<k, 0>> \in Products(k, HeadSet)
  BY <1>2 DEF Products
<1>4. \A l : <<k, 0>> \in Products(l, HeadSet) => k = l
  BY DEF Products
<1>5. Products(k, HeadSet) # NegInf
  BY <1>1, MqaAssumption
<1>6. QED
  BY <1>1, <1>3, <1>4, <1>5

\* A right cell comes to the score of its key, or to -inf.
LEMMA RightValue ==
  ASSUME TypeOK, JobOK, Streaming, NEW r \in Rows, NEW c \in Cols, KeyOf(c) \in 0 .. job.keys - 1,
         Right(r, c)
  PROVE  Value(r, logits[r][c]) =
           IF Visible(r, start + c) THEN job.score[r][Home(r, start + c)] ELSE NegInf
<1> DEFINE k == Home(r, start + c)
<1>1. KeyOf(c) = start + c /\ job.clean
  BY DEF KeyOf, JobOK, Streaming, TypeOK
<1>2. k \in CacheRows
  BY <1>1, HomeIsCacheRow DEF JobOK
<1>3. CASE ~Visible(r, start + c)
  BY <1>1, <1>3 DEF Right, Value
<1>4. CASE Visible(r, start + c)
  <2>1. logits[r][c] = Products(k, HeadSet)
    BY <1>1, <1>4 DEF Right, Full
  <2>2. (CHOOSE l \in CacheRows : Products(k, HeadSet) = Products(l, HeadSet)) = k
    BY <1>2, WholeSums
  <2>3. QED
    BY <1>2, <1>4, <2>1, <2>2, WholeSums DEF Value
<1>5. QED
  BY <1>3, <1>4

-----------------------------------------------------------------------------
(* Programs of a grid.                                                     *)

\* What a finished cell holds.
Wanted(r, c) == IF Visible(r, KeyOf(c)) \/ ~job.clean THEN Full(r, KeyOf(c)) ELSE NegInf

\* A column of the chunk is a key of the call.
LEMMA GridKeys ==
  ASSUME TypeOK, FlowOK, pc \in {"grid", "topk", "heads", "mask"}, NEW c \in Cols
  PROVE  /\ c \in 0 .. count - 1 /\ KeyOf(c) = Position(c)
         /\ KeyOf(c) \in 0 .. job.keys - 1
<1>1. c \in 0 .. count - 1 /\ count \in 0 .. job.keys /\ start \in Nat /\ job.keys \in Nat
  BY DEF Cols, TypeOK
<1>2. Streaming => start + count <= job.keys
  BY DEF TypeOK, FlowOK
<1>3. QED
  BY <1>1, <1>2 DEF KeyOf, Position

\* What a finished cell holds is the whole sum over the key's home in the cache.
LEMMA WantedIsCell ==
  ASSUME TypeOK, JobOK, FlowOK, pc \in {"grid", "topk", "heads", "mask"},
         NEW r \in Rows, NEW c \in Cols
  PROVE  /\ IsCell(Wanted(r, c))
         /\ Full(r, KeyOf(c)) = Sum(r, Position(c))
         /\ IsCell(Full(r, KeyOf(c)))
<1>1. KeyOf(c) = Position(c) /\ KeyOf(c) \in 0 .. job.keys - 1
  BY GridKeys
<1>2. Home(r, KeyOf(c)) = CacheRow(r, Position(c)) /\ Home(r, KeyOf(c)) \in CacheRows
  BY <1>1, HomeIsCacheRow DEF JobOK
<1>3. QED
  BY <1>2, WholeSums DEF Full, Sum, IsCell, Wanted

\* A program of the grid that stores what its tile wants leaves the other cells right or to
\* the programs that are pending.
LEMMA StoreStep ==
  ASSUME Inv, NEW p \in pending, NEW cells, Store(p, cells),
         \A r \in Rows, c \in Cols : <<r, c>> \in Tile(p) => cells[r][c] = Wanted(r, c)
  PROVE  Inv'
<1> USE DEF Inv
<1>0. /\ UNCHANGED <<job, pc, row, start, count, head, chosen, best, answer>>
      /\ pc = "grid" /\ pending' = pending \ {p}
  BY DEF Store
<1>1. /\ Rows' = Rows /\ Cols' = Cols /\ Streaming' = Streaming /\ Paged' = Paged
      /\ ChunkColumns' = ChunkColumns /\ JobOK'
  BY <1>0, JobFrame DEF Cols, ChunkColumns
<1>2. \A r \in Rows, c \in Cols :
        logits'[r][c] = IF <<r, c>> \in Tile(p) THEN cells[r][c] ELSE logits[r][c]
  BY DEF Store
<1>3. TypeOK'
  <2>1. ASSUME NEW r \in Rows, NEW c \in Cols PROVE IsCell(logits'[r][c])
    <3>1. IsCell(logits[r][c])
      BY <1>0 DEF TypeOK
    <3>2. IsCell(Wanted(r, c))
      BY <1>0, WantedIsCell
    <3>3. QED
      BY <1>2, <3>1, <3>2
  <2>2. \A c : IsCell(c)' = IsCell(c)
    BY DEF IsCell
  <2>3. \A S : IsPairs(S)' = IsPairs(S)
    BY <1>0, JobFrame
  <2>4. QED
    BY <1>0, <1>1, <2>1, <2>2, <2>3 DEF TypeOK
<1>4. FlowOK'
  BY <1>0, <1>1 DEF FlowOK
<1>5. Progress'
  <2>1. ASSUME NEW r \in Rows, NEW c \in Cols
        PROVE  Right(r, c)' \/ \E q \in pending' : <<r, c>> \in Tile(q)'
    <3>1. \A q : Tile(q)' = Tile(q)
      BY <1>0, <1>1, JobFrame DEF Tile
    <3>2. Wanted(r, c)' = Wanted(r, c)
      BY <1>0, <1>1, JobFrame DEF Wanted, KeyOf
    <3>3. CASE <<r, c>> \in Tile(p)
      BY <1>2, <3>2, <3>3 DEF Right, Wanted
    <3>4. CASE <<r, c>> \notin Tile(p)
      <4>1. Right(r, c) \/ \E q \in pending : <<r, c>> \in Tile(q)
        BY <1>0 DEF Progress
      <4>2. Right(r, c) => Right(r, c)'
        BY <1>2, <3>2, <3>4 DEF Right, Wanted
      <4>3. QED
        BY <1>0, <3>1, <3>4, <4>1, <4>2
    <3>5. QED
      BY <3>3, <3>4
  <2>2. QED
    BY <1>0, <1>1, <2>1 DEF Progress
<1>6. Streamed'
  BY <1>0, <1>1, JobFrame DEF Streamed
<1>7. QED
  BY <1>1, <1>3, <1>4, <1>5, <1>6

\* Every program stores what its tile has to hold: also one that returns early.
LEMMA GridStep ==
  ASSUME Inv, \/ fp8_mqa_logits_kernel \/ fp8_paged_mqa_logits_kernel
              \/ fp8_paged_mqa_logits_rowwise_kernel
  PROVE  Inv'
<1> USE DEF Inv
<1>0. pc = "grid"
  BY DEF fp8_mqa_logits_kernel, fp8_paged_mqa_logits_kernel,
         fp8_paged_mqa_logits_rowwise_kernel, Store
<1>1. \A r \in Rows, c \in Cols :
        /\ Unmasked[r][c] = Full(r, KeyOf(c))
        /\ Masked[r][c] = IF Visible(r, KeyOf(c)) THEN Full(r, KeyOf(c)) ELSE NegInf
  BY <1>0, GridKeys, WantedIsCell DEF Unmasked, Masked
<1>2. Paged => job.clean
  BY DEF JobOK, Paged
<1>3. CASE fp8_mqa_logits_kernel
  <2>1. PICK p \in pending : IF job.clean THEN Store(p, Masked) ELSE Store(p, Unmasked)
    BY <1>3 DEF fp8_mqa_logits_kernel
  <2>2. QED
    BY <1>1, <2>1, StoreStep DEF Wanted
<1>4. CASE fp8_paged_mqa_logits_kernel
  <2>1. Paged
    BY <1>0, <1>4 DEF FlowOK, fp8_paged_mqa_logits_kernel
  <2>2. QED
    BY <1>1, <1>2, <1>4, <2>1, StoreStep DEF Wanted, fp8_paged_mqa_logits_kernel
<1>5. CASE fp8_paged_mqa_logits_rowwise_kernel
  <2>1. Paged /\ job.path = "rowwise"
    BY <1>0, <1>5 DEF FlowOK, fp8_paged_mqa_logits_rowwise_kernel
  <2>2. PICK p \in pending : \/ Beyond(p)  /\ Store(p, Filled(NegInf, RowCount, count))
                             \/ ~Beyond(p) /\ Store(p, Masked)
    BY <1>5 DEF fp8_paged_mqa_logits_rowwise_kernel
  <2>3. CASE ~Beyond(p)
    BY <1>1, <1>2, <2>1, <2>2, <2>3, StoreStep DEF Wanted
  <2>4. CASE Beyond(p)
    <3>1. ASSUME NEW r \in Rows, NEW c \in Cols, <<r, c>> \in Tile(p)
          PROVE  ~Visible(r, KeyOf(c))
      <4>1. r \in Nat /\ c \in Nat /\ TileN \in Nat \ {0} /\ start \in Nat
        BY ShapeType, ConstantTypes DEF Cols, TypeOK
      <4>2. r \div 1 = r
        BY <4>1
      <4>3. p[1] = r /\ p[2] = c \div TileN
        BY <2>1, <3>1, <4>2 DEF Tile, TileHeight
      <4>4. p[2] \in Nat /\ p[2] * TileN <= c /\ p[2] * TileN \in Nat
        BY <4>1, <4>3, Quotient
      <4>5. Position(p[2] * TileN) <= Position(c) /\ Position(p[2] * TileN) \in Nat
            /\ Position(c) \in Nat
        BY <4>1, <4>4 DEF Position
      <4>6. job.hi[r] \in Nat
        BY DEF TypeOK
      <4>7. job.hi[r] <= Position(c)
        BY <2>4, <4>3, <4>5, <4>6 DEF Beyond
      <4>8. QED
        BY <1>0, <4>5, <4>6, <4>7, GridKeys DEF Visible
    <3>2. \A r \in Rows, c \in Cols : Filled(NegInf, RowCount, count)[r][c] = NegInf
      BY ShapeType DEF Filled, Cols
    <3>3. QED
      BY <1>2, <2>1, <2>2, <2>4, <3>1, <3>2, StoreStep DEF Wanted
  <2>5. QED
    BY <2>3, <2>4
<1>6. QED
  BY <1>3, <1>4, <1>5

-----------------------------------------------------------------------------
(* Launches and chunks.                                                    *)

\* The grid of a launch has a program for every cell, and writes none yet.
LEMMA LaunchCovers ==
  ASSUME NEW path, NEW rows \in Nat, NEW columns \in Nat, Launch(path, rows, columns),
         NEW r \in 0 .. rows - 1, NEW c \in 0 .. columns - 1
  PROVE  /\ count' = columns /\ logits'[r][c] = Unset
         /\ \E p \in pending' : p[1] = r \div TileHeight(path, rows) /\ p[2] = c \div TileN
<1>1. TileHeight(path, rows) \in Nat \ {0} /\ TileN \in Nat \ {0}
  BY ConstantTypes DEF TileHeight, AdaptiveM
<1>2. /\ r \div TileHeight(path, rows) \in 0 .. CDiv(rows, TileHeight(path, rows)) - 1
      /\ c \div TileN \in 0 .. CDiv(columns, TileN) - 1
  BY <1>1, CDivCovers
<1>3. <<r \div TileHeight(path, rows), c \div TileN>> \in pending'
  BY <1>2 DEF Launch
<1>4. QED
  BY <1>3 DEF Launch, Filled

\* The columns of the next chunk.
LEMMA ChunkType ==
  ASSUME TypeOK, start < job.keys
  PROVE  /\ ChunkColumns \in Nat /\ ChunkColumns <= job.keys /\ start + ChunkColumns <= job.keys
         /\ MinKeys(start) = start /\ MinKeys(start + job.chunk) = start + ChunkColumns
  BY DEF TypeOK, ChunkColumns, MinOf, MinKeys

\* A chunk begins behind the last one; the carried selection is what it was.
LEMMA NextChunkStep ==
  ASSUME Inv, NextChunk
  PROVE  Inv'
<1> USE DEF Inv
<1>0. /\ pc = "chunk" /\ start < job.keys /\ head' = 0 /\ Streaming /\ job.clean
      /\ UNCHANGED <<job, row, start, chosen, best, answer>>
  BY DEF NextChunk, FlowOK, JobOK, Streaming, TypeOK
<1>1. /\ Rows' = Rows /\ RowCount' = RowCount /\ Streaming' = Streaming /\ Paged' = Paged
      /\ ChunkColumns' = ChunkColumns /\ JobOK'
      /\ \A r, n : KeysBefore(r, n)' = KeysBefore(r, n) /\ MinKeys(n)' = MinKeys(n)
      /\ \A S : IsPairs(S)' = IsPairs(S)
      /\ \A c : IsCell(c)' = IsCell(c)
  BY <1>0, JobFrame DEF ChunkColumns, IsCell
<1>2. /\ ChunkColumns \in Nat /\ ChunkColumns <= job.keys /\ start + ChunkColumns <= job.keys
      /\ RowCount \in Nat /\ Rows = 0 .. RowCount - 1
  BY <1>0, ChunkType, ShapeType
<1>3. Streamed'
  BY <1>0, <1>1 DEF Streamed, NextChunk
<1>4. CASE Paged
  <2>1. Launch(job.path, RowCount, ChunkColumns) /\ pc' = "grid"
    BY <1>0, <1>4 DEF NextChunk, FlowOK, fp8_paged_mqa_logits_triton,
                      fp8_paged_mqa_logits_rowwise_triton
  <2>2. count' = ChunkColumns /\ Cols' = 0 .. ChunkColumns - 1
    BY <2>1 DEF Launch, Cols
  <2>3. \A r \in Rows, c \in Cols' :
          logits'[r][c] = Unset /\ \E p \in pending' : <<r, c>> \in Tile(p)'
    <3>1. TAKE r \in Rows, c \in Cols'
    <3>1a. r \in 0 .. RowCount - 1 /\ c \in 0 .. ChunkColumns - 1
      BY <1>2, <2>2
    <3>2. /\ logits'[r][c] = Unset
          /\ \E p \in pending' : /\ p[1] = r \div TileHeight(job.path, RowCount)
                                 /\ p[2] = c \div TileN
      BY <1>2, <2>1, <3>1a, LaunchCovers
    <3>3. PICK p \in pending' : /\ p[1] = r \div TileHeight(job.path, RowCount)
                                /\ p[2] = c \div TileN
      BY <3>2
    <3>4. <<r, c>> \in Tile(p)'
      BY <1>0, <1>1, <3>3 DEF Tile
    <3>5. QED
      BY <3>2, <3>4
  <2>4. TypeOK'
    <3>1. \A r \in Rows, c \in 0 .. count' - 1 : IsCell(logits'[r][c])
      BY <2>2, <2>3 DEF IsCell
    <3>2. count' \in 0 .. job.keys /\ head' \in 0 .. Heads /\ start + count' <= job.keys
      BY <1>0, <1>2, <2>2, ConstantTypes
    <3>3. QED
      BY <1>0, <2>1, <3>1, <3>2, TypeFrame DEF TypeOK
  <2>5. FlowOK'
    BY <1>0, <1>1, <1>4, <2>1, <2>2 DEF FlowOK
  <2>6. Progress'
    BY <1>0, <1>1, <2>1, <2>3 DEF Progress
  <2>7. QED
    BY <1>1, <1>3, <2>4, <2>5, <2>6
<1>5. CASE ~Paged
  <2>1. /\ count' = ChunkColumns /\ pc' = "heads"
        /\ logits' = Filled({}, RowCount, ChunkColumns)
    BY <1>5 DEF NextChunk
  <2>2. \A r \in Rows, c \in Cols' : logits'[r][c] = {}
    BY <1>2, <2>1 DEF Filled, Cols
  <2>3. TypeOK'
    <3>1. \A r \in Rows, c \in 0 .. count' - 1 : IsCell(logits'[r][c])
      BY <2>2 DEF IsCell, Cols
    <3>2. count' \in 0 .. job.keys /\ head' \in 0 .. Heads /\ start + count' <= job.keys
      BY <1>0, <1>2, <2>1, ConstantTypes
    <3>3. QED
      BY <1>0, <2>1, <3>1, <3>2, TypeFrame DEF TypeOK
  <2>4. FlowOK'
    BY <1>0, <1>1, <1>5, <2>1 DEF FlowOK
  <2>5. \A k : Products(k, 0 .. head' - 1) = {}
    BY <1>0 DEF Products
  <2>6. Progress'
    BY <1>1, <2>1, <2>2, <2>5 DEF Progress
  <2>7. QED
    BY <1>1, <1>3, <2>3, <2>4, <2>6
<1>6. QED
  BY <1>4, <1>5

\* Adding the products of the next heads to those of the first.
LEMMA PlusProducts ==
  ASSUME NEW k, NEW a \in Nat, NEW b \in Nat, a <= b
  PROVE  Plus(Products(k, 0 .. a - 1), Products(k, a .. b - 1)) = Products(k, 0 .. b - 1)
<1>1. Products(k, 0 .. a - 1) \cap Products(k, a .. b - 1) = {}
  BY DEF Products
<1>2. (0 .. a - 1) \cup (a .. b - 1) = 0 .. b - 1
  OBVIOUS
<1>3. Products(k, 0 .. a - 1) \cup Products(k, a .. b - 1) = Products(k, 0 .. b - 1)
  BY <1>2 DEF Products
<1>4. QED
  BY <1>1, <1>3 DEF Plus

\* A sum over the first heads is a sum over heads.
LEMMA PartIsCell ==
  ASSUME NEW k \in CacheRows, NEW b \in Nat, b <= Heads
  PROVE  IsCell(Products(k, 0 .. b - 1))
<1>1. 0 .. b - 1 \subseteq HeadSet
  BY ConstantTypes DEF HeadSet
<1>2. QED
  BY <1>1 DEF Products, IsCell

\* A block of heads is not empty and ends with the heads.
LEMMA HeadEndType ==
  ASSUME TypeOK, head < Heads
  PROVE  HeadEnd \in Nat /\ head < HeadEnd /\ HeadEnd <= Heads /\ head \in Nat
  BY ConstantTypes DEF TypeOK, HeadEnd, MinOf

\* A block of heads is added to what every cell holds of the heads before it.
LEMMA AddHeadsStep ==
  ASSUME Inv, AddHeads
  PROVE  Inv'
<1> USE DEF Inv
<1>0. /\ pc = "heads" /\ Streaming /\ ~Paged /\ job.clean
      /\ UNCHANGED <<job, row, start, count, pending, chosen, best, answer>>
  BY DEF AddHeads, FlowOK, JobOK, Streaming, TypeOK
<1>1. /\ Rows' = Rows /\ Cols' = Cols /\ Streaming' = Streaming /\ Paged' = Paged
      /\ ChunkColumns' = ChunkColumns /\ JobOK'
      /\ \A r, n : KeysBefore(r, n)' = KeysBefore(r, n) /\ MinKeys(n)' = MinKeys(n)
      /\ \A r, p : Home(r, p)' = Home(r, p) /\ Full(r, p)' = Full(r, p)
      /\ \A S : IsPairs(S)' = IsPairs(S)
      /\ \A c : IsCell(c)' = IsCell(c)
  BY <1>0, JobFrame DEF ChunkColumns, IsCell, Cols
<1>2. \A r \in Rows, c \in Cols :
        /\ KeyOf(c) = start + c /\ Home(r, start + c) \in CacheRows
        /\ CacheRow(r, Position(c)) = Home(r, start + c)
  BY <1>0, GridKeys, HomeIsCacheRow DEF KeyOf, JobOK
<1>3. \A r \in Rows, c \in Cols :
        logits[r][c] = Products(Home(r, start + c), 0 .. head - 1)
  BY <1>0 DEF Progress
<1>4. CASE head < Heads
  <2>1. /\ head' = HeadEnd /\ pc' = "heads"
        /\ \A r \in Rows, c \in Cols :
             logits'[r][c] = Plus(logits[r][c],
                                  Products(CacheRow(r, Position(c)), head .. HeadEnd - 1))
    BY <1>0, <1>4 DEF AddHeads
  <2>2. HeadEnd \in Nat /\ head <= HeadEnd /\ HeadEnd <= Heads /\ head \in Nat
    BY <1>4, HeadEndType
  <2>3. \A r \in Rows, c \in Cols :
          logits'[r][c] = Products(Home(r, start + c), 0 .. HeadEnd - 1)
    BY <1>2, <1>3, <2>1, <2>2, PlusProducts
  <2>4. \A r \in Rows, c \in Cols : IsCell(logits'[r][c])
    BY <1>2, <2>2, <2>3, PartIsCell
  <2>5. TypeOK'
    <3>1. \A r \in Rows, c \in 0 .. count' - 1 : IsCell(logits'[r][c])
      BY <1>0, <2>4 DEF Cols
    <3>2. count' \in 0 .. job.keys /\ start' + count' <= job.keys
      BY <1>0 DEF TypeOK
    <3>3. head' \in 0 .. Heads
      BY <2>1, <2>2, ConstantTypes
    <3>4. QED
      BY <1>0, <2>1, <3>1, <3>2, <3>3, TypeFrame DEF TypeOK
  <2>6. FlowOK' /\ Streamed'
    BY <1>0, <1>1, <2>1 DEF FlowOK, Streamed
  <2>7. Progress'
    BY <1>0, <1>1, <2>1, <2>3 DEF Progress
  <2>8. QED
    BY <1>1, <2>5, <2>6, <2>7
<1>5. CASE ~(head < Heads)
  <2>1. pc' = "mask" /\ logits' = logits /\ head' = head
    BY <1>5 DEF AddHeads
  <2>2. head = Heads
    BY <1>5, ConstantTypes DEF TypeOK
  <2>3. \A r \in Rows, c \in Cols : logits[r][c] = Full(r, KeyOf(c))
    BY <1>2, <1>3, <2>2 DEF Full, HeadSet
  <2>4. TypeOK'
    <3>1. \A r \in Rows, c \in 0 .. count' - 1 : IsCell(logits'[r][c])
      BY <1>0, <2>1 DEF TypeOK, Cols
    <3>2. count' \in 0 .. job.keys /\ head' \in 0 .. Heads /\ start' + count' <= job.keys
      BY <1>0, <2>1 DEF TypeOK
    <3>3. QED
      BY <1>0, <2>1, <3>1, <3>2, TypeFrame DEF TypeOK
  <2>5. FlowOK' /\ Streamed'
    BY <1>0, <1>1, <2>1 DEF FlowOK, Streamed
  <2>6. \A c : KeyOf(c)' = KeyOf(c)
    BY <1>0, <1>1 DEF KeyOf
  <2>7. Progress'
    BY <1>0, <1>1, <2>1, <2>3, <2>6 DEF Progress
  <2>8. QED
    BY <1>1, <2>4, <2>5, <2>7
<1>6. QED
  BY <1>4, <1>5

\* The mask comes when every head is in, and hides what a row may not see.
LEMMA MaskStep ==
  ASSUME Inv, MaskLogits
  PROVE  Inv'
<1> USE DEF Inv
<1>0. /\ pc = "mask" /\ job.clean
      /\ pc' = IF Streaming THEN "topk" ELSE "done"
      /\ answer' = ~Streaming
      /\ UNCHANGED <<job, row, start, count, head, pending, chosen, best>>
  BY DEF MaskLogits, FlowOK
<1>1. /\ Rows' = Rows /\ Cols' = Cols /\ Streaming' = Streaming /\ Paged' = Paged
      /\ ChunkColumns' = ChunkColumns /\ JobOK'
      /\ \A r, n : KeysBefore(r, n)' = KeysBefore(r, n) /\ MinKeys(n)' = MinKeys(n)
      /\ \A r, p : Full(r, p)' = Full(r, p) /\ Visible(r, p)' = Visible(r, p)
      /\ \A S : IsPairs(S)' = IsPairs(S)
      /\ \A c : IsCell(c)' = IsCell(c) /\ KeyOf(c)' = KeyOf(c)
  BY <1>0, JobFrame DEF ChunkColumns, IsCell, Cols, KeyOf
<1>2. \A r \in Rows, c \in Cols : logits'[r][c] = Wanted(r, c)
  BY <1>0, GridKeys DEF MaskLogits, Progress, Wanted
<1>3. \A r \in Rows, c \in Cols : Right(r, c)'
  BY <1>0, <1>1, <1>2 DEF Right, Wanted
<1>4. \A r \in Rows, c \in Cols : IsCell(Wanted(r, c))
  BY <1>0, WantedIsCell
<1>5. TypeOK'
  BY <1>0, <1>1, <1>2, <1>4 DEF TypeOK, Streaming
<1>6. FlowOK' /\ Streamed' /\ Progress'
  BY <1>0, <1>1, <1>3 DEF FlowOK, Streamed, Progress
<1>7. QED
  BY <1>1, <1>5, <1>6

-----------------------------------------------------------------------------
(* The torch paths.                                                        *)

\* Head chunk by head chunk and key chunk by key chunk, every cell gets every head's
\* product once.
LEMMA TorchStep ==
  ASSUME Inv, fp8_mqa_logits_torch
  PROVE  Inv'
<1> USE DEF Inv
<1>0. /\ pc = "matmul" /\ ~Streaming /\ count = job.keys
      /\ UNCHANGED <<job, row, count, pending, chosen, best>>
  BY DEF fp8_mqa_logits_torch, FlowOK
<1>1. /\ Rows' = Rows /\ Cols' = Cols /\ Streaming' = Streaming /\ Paged' = Paged /\ JobOK'
      /\ \A r, p : Home(r, p)' = Home(r, p) /\ Full(r, p)' = Full(r, p)
                   /\ Visible(r, p)' = Visible(r, p)
      /\ \A c : KeyOf(c) = c /\ KeyOf(c)' = c
  BY <1>0, JobFrame DEF Cols, KeyOf
<1>2. \A r \in Rows, c \in Cols :
        /\ c \in Nat /\ Home(r, c) \in CacheRows /\ CacheRow(r, c) = Home(r, c)
  BY <1>0, HomeIsCacheRow DEF Cols, JobOK, TypeOK
<1>3. \A r \in Rows, c \in Cols :
        logits[r][c] =
          Products(Home(r, c), 0 .. (IF c < start /\ head < Heads THEN HeadEnd ELSE head) - 1)
  BY <1>0 DEF Progress
<1>4. start \in Nat /\ head \in 0 .. Heads /\ Heads \in Nat /\ count \in Nat
      /\ \A r \in Rows, c \in Cols : IsCell(logits[r][c])
  BY <1>0, ConstantTypes DEF TypeOK
<1>5. CASE head < Heads /\ start < job.keys
  <2>1. /\ pc' = pc /\ head' = head /\ answer' = answer /\ start' = start + KeyStep
        /\ \A r \in Rows, c \in Cols :
             logits'[r][c] =
               IF start <= c /\ c < start + KeyStep
                 THEN Plus(logits[r][c], Products(CacheRow(r, c), head .. HeadEnd - 1))
                 ELSE logits[r][c]
    BY <1>5 DEF fp8_mqa_logits_torch
  <2>2. HeadEnd \in Nat /\ head <= HeadEnd /\ HeadEnd <= Heads /\ head \in Nat
    BY <1>5, HeadEndType
  <2>3. KeyStep \in Nat
    <3>1. HeadEnd - head \in Nat
      BY <2>2
    <3>2. RowCount \in Nat /\ job.keys \in Nat
      BY ShapeType DEF TypeOK
    <3>3. QED
      BY <3>1, <3>2, ChunkSizes DEF KeyStep
  <2>4. ASSUME NEW r \in Rows, NEW c \in Cols
        PROVE  logits'[r][c] =
                 Products(Home(r, c), 0 .. (IF c < start' THEN HeadEnd ELSE head) - 1)
    <3>1. c \in Nat /\ CacheRow(r, c) = Home(r, c)
      BY <1>2
    <3>2. CASE c < start
      BY <1>3, <1>4, <1>5, <2>1, <2>3, <3>1, <3>2
    <3>3. CASE start <= c /\ c < start + KeyStep
      <4>1. logits[r][c] = Products(Home(r, c), 0 .. head - 1)
        BY <1>3, <1>4, <3>1, <3>3
      <4>2. QED
        BY <2>1, <2>2, <3>1, <3>3, <4>1, PlusProducts
    <3>4. CASE start + KeyStep <= c
      BY <1>3, <1>4, <2>1, <2>3, <3>1, <3>4
    <3>5. QED
      BY <1>4, <2>3, <3>1, <3>2, <3>3, <3>4
  <2>5. HeadEnd' = HeadEnd
    BY <1>0, <2>1 DEF HeadEnd
  <2>6. ASSUME NEW r \in Rows, NEW c \in Cols PROVE IsCell(logits'[r][c])
    <3>1. Home(r, c) \in CacheRows
      BY <1>2
    <3>2. CASE c < start'
      <4>1. logits'[r][c] = Products(Home(r, c), 0 .. HeadEnd - 1)
        BY <2>4, <3>2
      <4>2. QED
        BY <2>2, <3>1, <4>1, PartIsCell
    <3>3. CASE ~(c < start')
      <4>1. logits'[r][c] = Products(Home(r, c), 0 .. head - 1) /\ head <= Heads
        BY <1>4, <2>4, <3>3
      <4>2. QED
        BY <2>2, <3>1, <4>1, PartIsCell
    <3>4. QED
      BY <3>2, <3>3
  <2>7. TypeOK'
    <3>1. \A r \in Rows, c \in 0 .. count' - 1 : IsCell(logits'[r][c])
      BY <1>0, <2>6 DEF Cols
    <3>2. start' \in Nat
      BY <1>4, <2>1, <2>3
    <3>3. QED
      BY <1>0, <2>1, <3>1, <3>2, TypeFrame DEF TypeOK
  <2>8. FlowOK' /\ Streamed'
    BY <1>0, <1>1, <2>1 DEF FlowOK, Streamed
  <2>9. Progress'
    BY <1>0, <1>1, <1>5, <2>1, <2>4, <2>5 DEF Progress
  <2>10. QED
    BY <1>1, <2>7, <2>8, <2>9
<1>6. CASE head < Heads /\ ~(start < job.keys)
  <2>1. pc' = pc /\ head' = HeadEnd /\ start' = 0 /\ answer' = answer /\ logits' = logits
    BY <1>6 DEF fp8_mqa_logits_torch
  <2>2. HeadEnd \in Nat /\ HeadEnd <= Heads
    BY <1>6, HeadEndType
  <2>3. \A r \in Rows, c \in Cols :
          /\ c < start /\ ~(c < start')
          /\ logits'[r][c] = Products(Home(r, c), 0 .. head' - 1)
    BY <1>0, <1>3, <1>4, <1>6, <2>1 DEF Cols
  <2>4. TypeOK'
    <3>1. \A r \in Rows, c \in 0 .. count' - 1 : IsCell(logits'[r][c])
      BY <1>0, <1>4, <2>1 DEF Cols
    <3>2. head' \in 0 .. Heads
      BY <2>1, <2>2, <1>4
    <3>3. QED
      BY <1>0, <2>1, <3>1, <3>2, TypeFrame DEF TypeOK
  <2>5. FlowOK' /\ Streamed'
    BY <1>0, <1>1, <2>1 DEF FlowOK, Streamed
  <2>6. Progress'
    BY <1>0, <1>1, <2>1, <2>3 DEF Progress
  <2>7. QED
    BY <1>1, <2>4, <2>5, <2>6
<1>7. CASE ~(head < Heads)
  <2>1. /\ pc' = IF job.clean THEN "mask" ELSE "done"
        /\ answer' = ~job.clean
        /\ head' = head /\ start' = start /\ logits' = logits
    BY <1>7 DEF fp8_mqa_logits_torch
  <2>2. head = Heads
    BY <1>4, <1>7
  <2>3. \A r \in Rows, c \in Cols : logits'[r][c] = Full(r, c)
    BY <1>3, <1>7, <2>1, <2>2 DEF Full, HeadSet
  <2>4. TypeOK'
    <3>1. \A r \in Rows, c \in 0 .. count' - 1 : IsCell(logits'[r][c])
      BY <1>0, <1>4, <2>1 DEF Cols
    <3>2. QED
      BY <1>0, <2>1, <3>1, TypeFrame DEF TypeOK
  <2>5. FlowOK' /\ Streamed'
    BY <1>0, <1>1, <2>1 DEF FlowOK, Streamed
  <2>6. Progress'
    BY <1>0, <1>1, <2>1, <2>3 DEF Progress, Right
  <2>7. QED
    BY <1>1, <2>4, <2>5, <2>6
<1>8. QED
  BY <1>5, <1>6, <1>7

\* Row by row, up to the context of its request.
LEMMA PagedTorchStep ==
  ASSUME Inv, fp8_paged_mqa_logits_torch
  PROVE  Inv'
<1> USE DEF Inv
<1>0. /\ pc = "rows" /\ ~Streaming /\ Paged /\ job.clean /\ count = job.keys
      /\ UNCHANGED <<job, count, head, pending, chosen, best>>
  BY DEF fp8_paged_mqa_logits_torch, FlowOK, JobOK, Paged, TypeOK
<1>1. /\ Rows' = Rows /\ Cols' = Cols /\ Streaming' = Streaming /\ Paged' = Paged /\ JobOK'
      /\ \A r, p : Full(r, p)' = Full(r, p) /\ Visible(r, p)' = Visible(r, p)
      /\ \A c : KeyOf(c) = c /\ KeyOf(c)' = c
  BY <1>0, JobFrame DEF Cols, KeyOf
<1>2. ASSUME NEW r \in Rows, NEW c \in Cols
      PROVE  /\ c \in Nat /\ r \in Nat /\ job.hi[r] \in Nat
             /\ Visible(r, c) <=> c < job.hi[r]
             /\ Sum(r, c) = Full(r, c) /\ IsCell(Sum(r, c))
  <2>1. c \in Nat /\ r \in Nat /\ c \in 0 .. job.keys - 1
    BY <1>0, ShapeType DEF Cols
  <2>2. job.lo[r] = 0 /\ job.hi[r] \in Nat
    BY <1>0 DEF JobOK, TypeOK
  <2>3. Home(r, c) = CacheRow(r, c) /\ CacheRow(r, c) \in CacheRows
    BY <2>1, HomeIsCacheRow DEF JobOK
  <2>4. QED
    BY <2>1, <2>2, <2>3, WholeSums DEF Visible, Sum, Full, IsCell
<1>3. \A r \in Rows, c \in Cols :
        logits[r][c] = IF Visible(r, c) /\ (r < row \/ (r = row /\ c < start))
                         THEN Full(r, c) ELSE NegInf
  BY <1>0 DEF Progress
<1>4. start \in Nat /\ row \in Nat /\ \A r \in Rows, c \in Cols : IsCell(logits[r][c])
  BY <1>0 DEF TypeOK
<1>5. TokensPerChunk \in Nat
  BY ConstantTypes DEF TokensPerChunk, MaxOf
<1>6. CASE row \in Rows /\ start < job.hi[row]
  <2>1. /\ pc' = pc /\ row' = row /\ answer' = answer /\ start' = start + TokensPerChunk
        /\ logits' = [logits EXCEPT ![row] = [c \in Cols |->
                        IF start <= c /\ c < MinOf(job.hi[row], start + TokensPerChunk)
                          THEN Sum(row, c) ELSE @[c]]]
    BY <1>6 DEF fp8_paged_mqa_logits_torch
  <2>2. ASSUME NEW r \in Rows, NEW c \in Cols
        PROVE  logits'[r][c] =
                 IF r = row /\ start <= c /\ c < MinOf(job.hi[r], start + TokensPerChunk)
                   THEN Sum(r, c) ELSE logits[r][c]
    BY <1>0, <2>1 DEF FlowOK
  <2>3. ASSUME NEW r \in Rows, NEW c \in Cols
        PROVE  logits'[r][c] = IF Visible(r, c) /\ (r < row \/ (r = row /\ c < start'))
                                 THEN Full(r, c) ELSE NegInf
    <3>1. /\ c \in Nat /\ r \in Nat /\ job.hi[r] \in Nat
          /\ Visible(r, c) <=> c < job.hi[r]
          /\ Sum(r, c) = Full(r, c)
      BY <1>2
    <3>2. CASE r = row /\ start <= c /\ c < MinOf(job.hi[r], start + TokensPerChunk)
      BY <1>4, <1>5, <2>1, <2>2, <3>1, <3>2 DEF MinOf
    <3>3. CASE ~(r = row /\ start <= c /\ c < MinOf(job.hi[r], start + TokensPerChunk))
      BY <1>3, <1>4, <1>5, <2>1, <2>2, <3>1, <3>3 DEF MinOf
    <3>4. QED
      BY <3>2, <3>3
  <2>4. \A r \in Rows, c \in Cols : IsCell(logits'[r][c])
    BY <1>2, <1>4, <2>2
  <2>5. TypeOK'
    <3>1. \A r \in Rows, c \in 0 .. count' - 1 : IsCell(logits'[r][c])
      BY <1>0, <2>4 DEF Cols
    <3>2. start' \in Nat
      BY <1>4, <1>5, <2>1
    <3>3. QED
      BY <1>0, <2>1, <3>1, <3>2, TypeFrame DEF TypeOK
  <2>6. FlowOK'
    <3>1. DOMAIN logits' = Rows'
      BY <1>0, <1>1, <2>1 DEF FlowOK
    <3>2. QED
      BY <1>0, <1>1, <2>1, <3>1 DEF FlowOK
  <2>7. Progress' /\ Streamed'
    BY <1>0, <1>1, <2>1, <2>3 DEF Progress, Streamed
  <2>8. QED
    BY <1>1, <2>5, <2>6, <2>7
<1>7. CASE row \in Rows /\ ~(start < job.hi[row])
  <2>1. pc' = pc /\ row' = row + 1 /\ start' = 0 /\ logits' = logits /\ answer' = answer
    BY <1>7 DEF fp8_paged_mqa_logits_torch
  <2>2. ASSUME NEW r \in Rows, NEW c \in Cols
        PROVE  logits'[r][c] = IF Visible(r, c) /\ (r < row' \/ (r = row' /\ c < start'))
                                 THEN Full(r, c) ELSE NegInf
    <3>1. /\ c \in Nat /\ r \in Nat /\ job.hi[r] \in Nat
          /\ Visible(r, c) <=> c < job.hi[r]
      BY <1>2
    <3>2. QED
      BY <1>3, <1>4, <1>7, <2>1, <3>1
  <2>3. TypeOK'
    <3>1. \A r \in Rows, c \in 0 .. count' - 1 : IsCell(logits'[r][c])
      BY <1>0, <1>4, <2>1 DEF Cols
    <3>2. row' \in Nat
      BY <1>4, <2>1
    <3>3. QED
      BY <1>0, <2>1, <3>1, <3>2, TypeFrame DEF TypeOK
  <2>4. FlowOK' /\ Streamed'
    BY <1>0, <1>1, <2>1 DEF FlowOK, Streamed
  <2>5. Progress'
    BY <1>0, <1>1, <2>1, <2>2 DEF Progress
  <2>6. QED
    BY <1>1, <2>3, <2>4, <2>5
<1>8. CASE row \notin Rows
  <2>1. pc' = "done" /\ answer' = TRUE /\ UNCHANGED <<row, start, logits>>
    BY <1>8 DEF fp8_paged_mqa_logits_torch
  <2>2. \A r \in Rows : r < row
    BY <1>4, <1>8, ShapeType
  <2>3. \A r \in Rows, c \in Cols : Right(r, c)'
    BY <1>0, <1>1, <1>3, <2>1, <2>2 DEF Right
  <2>4. TypeOK'
    BY <1>0, <2>1, TypeFrame DEF TypeOK
  <2>5. FlowOK' /\ Progress' /\ Streamed'
    BY <1>0, <1>1, <2>1, <2>3 DEF FlowOK, Progress, Streamed
  <2>6. QED
    BY <1>1, <2>4, <2>5
<1>9. QED
  BY <1>6, <1>7, <1>8

-----------------------------------------------------------------------------
(* The streamed top-k.                                                     *)

\* Tagging the elements of a set by an injective function keeps it finite.
LEMMA KeysBeforeType ==
  ASSUME TypeOK, JobOK, NEW r \in Rows, NEW n \in 0 .. job.keys
  PROVE  IsFiniteSet(KeysBefore(r, n)) /\ Scored2(KeysBefore(r, n))
<1> DEFINE P == { q \in 0 .. n - 1 : Visible(r, q) }
           f == [p \in P |-> <<p, job.score[r][Home(r, p)]>>]
           T == { f[p] : p \in P }
<1>1. IsFiniteSet(P)
  <2>1. IsFiniteSet(0 .. n - 1)
    BY FS_Interval
  <2>2. QED
    BY <2>1, FS_Subset
<1>2. f \in [P -> T] /\ \A x, y \in P : f[x] = f[y] => x = y
  OBVIOUS
<1>3. IsFiniteSet(T)
  <2> HIDE DEF P, f
  <2>1. QED
    BY <1>1, <1>2, InjectiveImage
<1>4. T = KeysBefore(r, n)
  BY DEF KeysBefore
<1>5. ASSUME NEW p \in P PROVE p \in Int /\ job.score[r][Home(r, p)] \in Int
  <2>1. p \in 0 .. job.keys - 1
    <3>1. job.keys \in Nat /\ p \in 0 .. n - 1
      BY DEF TypeOK
    <3>2. QED
      BY <3>1
  <2>2. Home(r, p) \in CacheRows
    BY <2>1, HomeIsCacheRow DEF JobOK
  <2>3. QED
    BY <2>1, <2>2 DEF JobOK
<1>6. Scored2(KeysBefore(r, n))
  BY <1>5 DEF KeysBefore, Scored2
<1>7. QED
  BY <1>3, <1>4, <1>6

\* The keys of the chunk.
NewKeys(r) == KeysBefore(r, start + count) \ KeysBefore(r, start)

\* The keys a chunk brings are those of its visible columns.
LEMMA NewKeysAre ==
  ASSUME TypeOK, NEW r \in Rows
  PROVE  NewKeys(r) = { <<start + c, job.score[r][Home(r, start + c)]>> :
                          c \in { d \in Cols : Visible(r, start + d) } }
<1> DEFINE K(p) == <<p, job.score[r][Home(r, p)]>>
<1>1. start \in Nat /\ count \in Nat
  BY DEF TypeOK
<1>2. \A x : x \in NewKeys(r) <=>
        \E p \in 0 .. start + count - 1 : Visible(r, p) /\ x = K(p) /\ ~(p < start)
  BY <1>1 DEF NewKeys, KeysBefore
<1>3. \A p \in 0 .. start + count - 1 :
        ~(p < start) => p - start \in Cols /\ start + (p - start) = p
  BY <1>1 DEF Cols
<1>4. \A c \in Cols : start + c \in 0 .. start + count - 1 /\ ~(start + c < start)
  BY <1>1 DEF Cols
<1>5. \A x : (\E p \in 0 .. start + count - 1 : Visible(r, p) /\ x = K(p) /\ ~(p < start))
             <=> \E c \in Cols : Visible(r, start + c) /\ x = K(start + c)
  BY <1>3, <1>4
<1>6. QED
  BY <1>2, <1>5

\* What a chunk offers: its keys and lanes of value -inf.
LEMMA ChunkPairsType ==
  ASSUME Inv, pc = "topk" \/ (pc = "grid" /\ pending = {} /\ Streaming), NEW r \in Rows
  PROVE  /\ IsFiniteSet(ChunkPairs(r)) /\ Cardinality(ChunkPairs(r)) = count
         /\ IsPairs(ChunkPairs(r)) /\ Valued(ChunkPairs(r))
         /\ Finite(ChunkPairs(r)) = NewKeys(r)
<1> USE DEF Inv
<1> DEFINE f == [c \in Cols |-> <<start + c, Value(r, logits[r][c])>>]
           T == { f[c] : c \in Cols }
<1>0. Streaming /\ start \in Nat /\ count \in Nat /\ start + count <= job.keys
      /\ job.keys \in Nat /\ Cols = 0 .. count - 1
  BY DEF FlowOK, TypeOK, Cols
<1>1. \A c \in Cols : Right(r, c) /\ KeyOf(c) = start + c /\ start + c \in 0 .. job.keys - 1
  <2>1. \A c \in Cols : Right(r, c)
    BY DEF Progress
  <2>2. \A c \in Cols : KeyOf(c) = start + c
    BY <1>0 DEF KeyOf
  <2>3. \A c \in Cols : start + c \in 0 .. job.keys - 1
    <3> HIDE DEF Inv
    <3>1. QED
      BY <1>0
  <2>4. QED
    BY <2>1, <2>2, <2>3
<1>2. \A c \in Cols : Value(r, logits[r][c]) =
        IF Visible(r, start + c) THEN job.score[r][Home(r, start + c)] ELSE NegInf
  BY <1>0, <1>1, RightValue
<1>3. \A c \in Cols : job.score[r][Home(r, start + c)] \in Int
  BY <1>1, HomeIsCacheRow DEF JobOK
<1>4. T = ChunkPairs(r)
  BY DEF ChunkPairs
<1>5. IsFiniteSet(Cols) /\ Cardinality(Cols) = count
  BY <1>0, FS_Interval
<1>6. f \in [Cols -> T] /\ \A x, y \in Cols : f[x] = f[y] => x = y
  BY <1>0
<1>7. IsFiniteSet(T) /\ Cardinality(T) = count
  <2> HIDE DEF f
  <2>1. QED
    BY <1>5, <1>6, InjectiveImage
<1>8. IsPairs(ChunkPairs(r)) /\ Valued(ChunkPairs(r))
  BY <1>1, <1>2, <1>3 DEF ChunkPairs, IsPairs, Valued
<1>9. Finite(ChunkPairs(r)) = NewKeys(r)
  <2>1. \A x : x \in Finite(ChunkPairs(r)) <=>
          \E c \in Cols : /\ x = <<start + c, Value(r, logits[r][c])>>
                          /\ Value(r, logits[r][c]) # NegInf
    BY DEF Finite, ChunkPairs
  <2>2. \A c \in Cols : Value(r, logits[r][c]) # NegInf <=> Visible(r, start + c)
    BY <1>2, <1>3, ConstantTypes
  <2>3. \A x : x \in NewKeys(r) <=>
          \E c \in Cols :
            Visible(r, start + c) /\ x = <<start + c, job.score[r][Home(r, start + c)]>>
    BY NewKeysAre
  <2>4. QED
    BY <1>2, <2>1, <2>2, <2>3
<1>10. QED
  BY <1>4, <1>7, <1>8, <1>9

\* The top-k of a chunk is one of the keys the chunk brings.
LEMMA ChunkTopKStep ==
  ASSUME Inv, ChunkTopK
  PROVE  Inv'
<1> USE DEF Inv
<1>0. /\ pc = "topk" \/ (pc = "grid" /\ pending = {} /\ Streaming)
      /\ pc' = "merge" /\ Streaming
      /\ UNCHANGED <<job, row, start, count, head, pending, logits, best, answer>>
      /\ \A r \in Rows : chosen'[r] \in Selections(ChunkPairs(r), MinOf(TopK, count))
  BY DEF ChunkTopK, FlowOK
<1>1. /\ Rows' = Rows /\ Streaming' = Streaming /\ Paged' = Paged
      /\ ChunkColumns' = ChunkColumns /\ JobOK'
      /\ \A r, n : KeysBefore(r, n)' = KeysBefore(r, n) /\ MinKeys(n)' = MinKeys(n)
  BY <1>0, JobFrame DEF ChunkColumns
<1>2. TopK \in Nat /\ count \in Nat
  BY ConstantTypes DEF TypeOK
<1>3. ASSUME NEW r \in Rows
      PROVE  /\ IsPairs(chosen'[r]) /\ IsFiniteSet(chosen'[r])
             /\ IsTopK(Finite(chosen'[r]), NewKeys(r), TopK)
  <2>1. /\ IsFiniteSet(ChunkPairs(r)) /\ Cardinality(ChunkPairs(r)) = count
        /\ IsPairs(ChunkPairs(r)) /\ Valued(ChunkPairs(r))
        /\ Finite(ChunkPairs(r)) = NewKeys(r)
    BY <1>0, ChunkPairsType
  <2>2. AtMost(MinOf(TopK, count), ChunkPairs(r)) = AtMost(TopK, ChunkPairs(r))
    BY <1>2, <2>1 DEF AtMost, MinOf
  <2>3. TorchTopK(chosen'[r], ChunkPairs(r), MinOf(TopK, count))
    BY <1>0 DEF Selections
  <2>4. TorchTopK(chosen'[r], ChunkPairs(r), TopK)
    BY <2>2, <2>3 DEF TorchTopK
  <2>5. chosen'[r] \subseteq ChunkPairs(r)
    BY <2>3 DEF TorchTopK
  <2>6. IsFiniteSet(chosen'[r]) /\ IsPairs(chosen'[r])
    BY <2>1, <2>5, FS_Subset DEF IsPairs
  <2>7. QED
    BY <1>2, <2>1, <2>4, <2>6, TorchIsTopK
<1>4. TypeOK'
  <2>1. start' + count' <= job.keys
    BY <1>0 DEF TypeOK
  <2>2. QED
    BY <1>0, <1>3, <2>1, TypeFrame DEF TypeOK
<1>5. FlowOK'
  BY <1>0, <1>1, <1>3 DEF FlowOK
<1>6. Progress'
  BY <1>0 DEF Progress
<1>7. Streamed'
  BY <1>0, <1>1, <1>3 DEF Streamed, NewKeys
<1>8. QED
  BY <1>1, <1>4, <1>5, <1>6, <1>7

\* The merge makes a top-k of all keys so far out of the carried and the chunk's.
LEMMA MergeChunkStep ==
  ASSUME Inv, MergeChunk
  PROVE  Inv'
<1> USE DEF Inv
<1>0. /\ pc = "merge" /\ pc' = "chunk" /\ Streaming /\ start' = start + job.chunk
      /\ UNCHANGED <<job, row, count, head, pending, logits, chosen, answer>>
  BY DEF MergeChunk, FlowOK
<1>1. /\ Rows' = Rows /\ Streaming' = Streaming /\ Paged' = Paged /\ JobOK'
      /\ \A r, n : KeysBefore(r, n)' = KeysBefore(r, n) /\ MinKeys(n)' = MinKeys(n)
      /\ \A S : IsPairs(S)' = IsPairs(S)
  BY <1>0, JobFrame
<1>2. /\ start < job.keys /\ count = ChunkColumns /\ TopK \in Nat
      /\ start \in Nat /\ count \in Nat /\ job.chunk \in Nat /\ job.keys \in Nat
  BY <1>0, ConstantTypes DEF FlowOK, TypeOK
<1>3. start + count <= job.keys /\ MinKeys(start) = start /\ MinKeys(start') = start + count
  BY <1>0, <1>2, ChunkType
<1>4. PICK f : /\ \A r \in Rows : f[r] \in Selections(Lanes(best[r]) \cup chosen[r], TopK)
               /\ best' = [r \in Rows |-> Finite(f[r])]
  BY DEF MergeChunk
<1>5. ASSUME NEW r \in Rows
      PROVE  /\ IsTopK(best'[r], KeysBefore(r, start + count), TopK)
             /\ IsPairs(best'[r]) /\ \A s \in best'[r] : s[2] \in Int
  <2> DEFINE S == Lanes(best[r]) \cup chosen[r]
             A == KeysBefore(r, start + count)
             B == KeysBefore(r, start)
             U == best[r] \cup Finite(chosen[r])
  <2>1. /\ IsTopK(best[r], B, TopK) /\ IsTopK(Finite(chosen[r]), A \ B, TopK)
    BY <1>0, <1>3 DEF Streamed
  <2>2. /\ IsFiniteSet(A) /\ Scored2(A) /\ B \subseteq A
    <3>1. start + count \in 0 .. job.keys
      BY <1>2, <1>3
    <3>2. B \subseteq A
      BY <1>2 DEF KeysBefore
    <3>3. QED
      BY <3>1, <3>2, KeysBeforeType
  <2>3. best[r] \subseteq B /\ Finite(chosen[r]) \subseteq A \ B
    BY <2>1 DEF IsTopK
  <2>4. IsFiniteSet(best[r]) /\ IsFiniteSet(chosen[r])
    BY <1>0, <2>2, <2>3, FS_Subset DEF FlowOK
  <2>5. IsFiniteSet(S)
    <3> DEFINE I == 1 .. TopK - Cardinality(best[r])
               g == [i \in I |-> <<-i, NegInf>>]
               T == { g[i] : i \in I }
    <3>1. Cardinality(best[r]) \in Nat
      BY <2>4, FS_CardinalityType
    <3>2. IsFiniteSet(I)
      BY <1>2, <3>1, FS_Interval
    <3>3. g \in [I -> T] /\ \A x, y \in I : g[x] = g[y] => x = y
      OBVIOUS
    <3>4. IsFiniteSet(T)
      <4> HIDE DEF I, g
      <4>1. QED
        BY <3>2, <3>3, InjectiveImage
    <3>5. S = (best[r] \cup T) \cup chosen[r]
      BY DEF Lanes
    <3>6. QED
      BY <2>4, <3>4, <3>5, FS_Union
  <2>6. \A s \in best[r] : s[2] \in Int
    BY DEF TypeOK
  <2>7. Valued(S)
    BY <2>6 DEF Valued, Lanes, TypeOK, IsPairs
  <2>8. Finite(S) = U
    BY <2>6, ConstantTypes DEF Finite, Lanes
  <2>9. TorchTopK(f[r], S, TopK) /\ best'[r] = Finite(f[r])
    BY <1>4 DEF Selections
  <2>10. IsTopK(best'[r], U, TopK)
    BY <1>2, <2>5, <2>7, <2>8, <2>9, TorchIsTopK
  <2>11. IsTopK(best'[r], A, TopK)
    <3> DEFINE part == [i \in {1, 2} |-> IF i = 1 THEN B ELSE A \ B]
               C    == [i \in {1, 2} |-> IF i = 1 THEN best[r] ELSE Finite(chosen[r])]
    <3>1. part \in [{1, 2} -> SUBSET A] /\ C \in [{1, 2} -> SUBSET A]
      BY <2>2, <2>3
    <3>2. A = UNION { part[i] : i \in {1, 2} } /\ U = UNION { C[i] : i \in {1, 2} }
      BY <2>2
    <3>3. \A i \in {1, 2} : IsTopK(C[i], part[i], TopK)
      BY <2>1
    <3> HIDE DEF A, B, U, part, C
    <3>4. QED
      BY <1>2, <2>2, <2>10, <3>1, <3>2, <3>3, UnionTopK
  <2>12. best'[r] \subseteq U
    BY <2>10 DEF IsTopK
  <2>13. IsPairs(best'[r])
    BY <2>12 DEF TypeOK, IsPairs, Finite
  <2>14. \A s \in best'[r] : s[2] \in Int
    BY <2>2, <2>3, <2>12 DEF Scored2
  <2>15. QED
    BY <2>11, <2>13, <2>14
<1>6. TypeOK'
  <2>1. start' \in Nat
    BY <1>0, <1>2
  <2>2. \A r \in Rows : IsPairs(chosen'[r]) /\ IsPairs(best'[r])
    BY <1>0, <1>5 DEF TypeOK
  <2>3. QED
    BY <1>0, <1>5, <2>1, <2>2, TypeFrame DEF TypeOK
<1>7. FlowOK'
  <2>1. Paged => job.path \in {"paged", "rowwise"}
    BY <1>0 DEF FlowOK
  <2>2. QED
    BY <1>0, <1>1, <2>1 DEF FlowOK
<1>8. Progress'
  BY <1>0 DEF Progress
<1>9. Streamed'
  BY <1>0, <1>1, <1>3, <1>5 DEF Streamed
<1>10. QED
  BY <1>1, <1>6, <1>7, <1>8, <1>9

-----------------------------------------------------------------------------
(* Calls.                                                                  *)

\* The chunks a call may be cut into are not empty.
LEMMA ChunksType ==
  ASSUME NEW entry, NEW rows \in Nat, NEW keys \in Nat
  PROVE  Chunks(entry, rows, keys) \subseteq Nat \ {0}
<1>1. HeadChunkSize(rows, keys) \in Nat
  BY ChunkSizes
<1>2. KChunkSize(rows, keys, HeadChunkSize(rows, keys)) \in Nat \ {0}
  <2> HIDE DEF HeadChunkSize
  <2>1. QED
    BY <1>1, ChunkSizes
<1>3. \A c \in Configured : PagedChunkSize(c) \in Nat \ {0}
  BY ConstantTypes DEF PagedChunkSize, MaxOf
<1>4. QED
  BY <1>2, <1>3, ConstantTypes DEF Chunks

\* What every call starts from.
LEMMA BeginFacts ==
  ASSUME NEW entry \in {"mqa_topk", "paged_topk", "mqa_logits", "paged_logits"}, NEW path,
         NEW first, Begin(entry, path, first)
  PROVE  /\ pc = "idle" /\ pc' = first /\ row' = 0 /\ start' = 0 /\ head' = 0 /\ answer' = FALSE
         /\ job'.entry = entry /\ job'.path = path
         /\ job'.shape \in Shapes /\ job'.keys \in 0 .. MaxKeys
         /\ job'.lo \in [Rows' -> 0 .. job'.keys] /\ job'.hi \in [Rows' -> 0 .. job'.keys]
         /\ job'.clean \in BOOLEAN /\ job'.chunk \in Nat \ {0} /\ job'.heads \in Nat \ {0}
         /\ RowsOfCall \in Nat /\ Rows' = 0 .. RowsOfCall - 1
         /\ best' = [r \in Rows' |-> {}] /\ chosen' = [r \in Rows' |-> {}]
         /\ JobOK' /\ Sizes'
<1> DEFINE paged == entry \in {"paged_topk", "paged_logits"}
<1>1. PICK shape \in Shapes, keys \in 0 .. MaxKeys :
        /\ \E hi \in [RowsOf(shape) -> 0 .. keys], table \in BlockTables, score \in ScoreTables,
              chunk \in Chunks(entry, shape[1] * shape[2], keys),
              clean \in (IF entry = "mqa_logits" THEN BOOLEAN ELSE {TRUE}) :
             \E lo \in (IF paged THEN {[r \in RowsOf(shape) |-> 0]}
                                 ELSE { f \in [RowsOf(shape) -> 0 .. keys] :
                                          \A r \in RowsOf(shape) : f[r] <= hi[r] }) :
               job' = [entry |-> entry, path |-> path, shape |-> shape, keys |-> keys,
                       lo |-> lo, hi |-> hi, clean |-> clean, chunk |-> chunk,
                       heads |-> HeadChunkSize(shape[1] * shape[2], keys),
                       table |-> table, score |-> score]
        /\ best' = [r \in RowsOf(shape) |-> {}] /\ chosen' = [r \in RowsOf(shape) |-> {}]
  BY DEF Begin
<1>2. PICK hi \in [RowsOf(shape) -> 0 .. keys], table \in BlockTables, score \in ScoreTables,
           chunk \in Chunks(entry, shape[1] * shape[2], keys),
           clean \in (IF entry = "mqa_logits" THEN BOOLEAN ELSE {TRUE}) :
        \E lo \in (IF paged THEN {[r \in RowsOf(shape) |-> 0]}
                            ELSE { f \in [RowsOf(shape) -> 0 .. keys] :
                                     \A r \in RowsOf(shape) : f[r] <= hi[r] }) :
          job' = [entry |-> entry, path |-> path, shape |-> shape, keys |-> keys,
                  lo |-> lo, hi |-> hi, clean |-> clean, chunk |-> chunk,
                  heads |-> HeadChunkSize(shape[1] * shape[2], keys),
                  table |-> table, score |-> score]
  BY <1>1
<1>3. PICK lo \in (IF paged THEN {[r \in RowsOf(shape) |-> 0]}
                            ELSE { f \in [RowsOf(shape) -> 0 .. keys] :
                                     \A r \in RowsOf(shape) : f[r] <= hi[r] }) :
        job' = [entry |-> entry, path |-> path, shape |-> shape, keys |-> keys,
                lo |-> lo, hi |-> hi, clean |-> clean, chunk |-> chunk,
                heads |-> HeadChunkSize(shape[1] * shape[2], keys),
                table |-> table, score |-> score]
  BY <1>2
<1>4. /\ job'.entry = entry /\ job'.path = path /\ job'.shape = shape /\ job'.keys = keys
      /\ job'.lo = lo /\ job'.hi = hi /\ job'.clean = clean /\ job'.chunk = chunk
      /\ job'.heads = HeadChunkSize(shape[1] * shape[2], keys)
      /\ job'.table = table /\ job'.score = score
  BY <1>3
<1>5. /\ pc = "idle" /\ pc' = first /\ row' = 0 /\ start' = 0 /\ head' = 0 /\ answer' = FALSE
  BY DEF Begin
<1>6. /\ shape[1] \in Nat /\ shape[2] \in Nat \ {0} /\ shape[1] * shape[2] \in Nat
      /\ keys \in Nat /\ keys <= MaxKeys /\ MaxKeys <= Slots /\ Slots \in Nat
  <2>1. shape[1] \in Nat /\ shape[2] \in Nat \ {0}
    BY ConstantTypes
  <2>2. \A a, b \in Nat : a * b \in Nat
    OBVIOUS
  <2>3. QED
    BY <2>1, <2>2, MqaAssumption
<1>7. Rows' = RowsOf(shape) /\ RowsOfCall = shape[1] * shape[2]
      /\ RowsOf(shape) = 0 .. RowsOfCall - 1
  BY <1>4 DEF Rows, RowsOf, RowsOfCall
<1>8. lo \in [RowsOf(shape) -> 0 .. keys] /\ (paged => lo = [r \in RowsOf(shape) |-> 0])
  <2>1. 0 \in 0 .. keys
    BY <1>6
  <2>2. CASE paged
    BY <2>1, <2>2
  <2>3. CASE ~paged
    BY <2>3
  <2>4. QED
    BY <2>2, <2>3
<1>9. chunk \in Nat \ {0} /\ HeadChunkSize(shape[1] * shape[2], keys) \in Nat \ {0}
  BY <1>6, ChunksType, ChunkSizes
<1>10. Paged' <=> paged
  BY <1>4 DEF Paged
<1>11. ASSUME NEW r \in RowsOf(shape), NEW p \in 0 .. keys - 1
       PROVE  CacheRow(r, p)' \in CacheRows
  <2>1. p \in 0 .. MaxKeys - 1 /\ p \in 0 .. Slots - 1
    <3>1. p \in Int /\ 0 <= p /\ p < keys
      BY <1>6
    <3>2. QED
      BY <1>6, <3>1, ConstantTypes
  <2>2. CASE ~paged
    BY <1>10, <2>1, <2>2 DEF CacheRow, CacheRows
  <2>3. CASE paged
    <3> DEFINE b == r \div shape[2]
    <3>1. r \in Nat /\ r < shape[1] * shape[2]
      BY <1>6 DEF RowsOf
    <3>2. b \in Nat
      BY <1>6, <3>1, Quotient
    <3>3. b < shape[1]
      BY <1>6, <3>1, QuotientBelow
    <3>4. b \in 0 .. shape[1] - 1
      BY <1>6, <3>2, <3>3
    <3>5. CacheRow(r, p)' = table[b][p \div BlockKV] * BlockKV + (p % BlockKV)
      BY <1>4, <1>10, <2>3 DEF CacheRow
    <3> HIDE DEF b
    <3>6. QED
      BY <2>1, <3>4, <3>5, MqaAssumption
  <2>4. QED
    BY <2>2, <2>3
<1>12. \A r \in RowsOf(shape), k \in CacheRows : score[r][k] \in Int
  BY MqaAssumption
<1>13. ~clean => entry = "mqa_logits"
  OBVIOUS
<1>14. JobOK'
  <2>1. \A r \in Rows', p \in 0 .. job'.keys - 1 : CacheRow(r, p)' \in CacheRows
    BY <1>4, <1>7, <1>11
  <2>2. Paged' => \A r \in Rows' : job'.lo[r] = 0
    BY <1>4, <1>7, <1>8, <1>10
  <2>3. QED
    BY <1>4, <1>7, <1>12, <1>13, <2>1, <2>2 DEF JobOK
<1>15. Sizes'
  <2>1. entry = "mqa_topk" => chunk = KChunkSize(shape[1] * shape[2], keys, job'.heads)
    BY <1>4 DEF Chunks
  <2>2. RowCount' = shape[1] * shape[2]
    BY <1>4 DEF RowCount
  <2>3. QED
    BY <1>4, <2>1, <2>2 DEF Sizes
<1>16. QED
  BY <1>1, <1>4, <1>5, <1>6, <1>7, <1>8, <1>9, <1>14, <1>15

\* What a call has to show of its tensor of logits.
LEMMA CallFrame ==
  ASSUME NEW entry \in {"mqa_topk", "paged_topk", "mqa_logits", "paged_logits"}, NEW path,
         NEW first \in {"chunk", "done", "grid", "matmul", "rows"}, Begin(entry, path, first),
         count' \in 0 .. job'.keys,
         first \in {"grid", "matmul", "rows"} =>
           /\ ~Streaming' /\ \A r \in Rows', c \in 0 .. count' - 1 : IsCell(logits'[r][c])
  PROVE  TypeOK'
<1>1. /\ pc' = first /\ row' = 0 /\ start' = 0 /\ head' = 0 /\ answer' = FALSE
      /\ job'.shape \in Shapes /\ job'.keys \in 0 .. MaxKeys
      /\ job'.lo \in [Rows' -> 0 .. job'.keys] /\ job'.hi \in [Rows' -> 0 .. job'.keys]
      /\ job'.clean \in BOOLEAN /\ job'.chunk \in Nat \ {0} /\ job'.heads \in Nat \ {0}
      /\ best' = [r \in Rows' |-> {}] /\ chosen' = [r \in Rows' |-> {}]
  BY BeginFacts
<1>2. Cols' = 0 .. count' - 1 /\ \A c : IsCell(c)' = IsCell(c)
  BY DEF Cols, IsCell
<1>3. \A r \in Rows' : IsPairs(chosen[r])' /\ IsPairs(best[r])' /\ best'[r] = {}
  <2>1. \A r \in Rows' : chosen'[r] = {} /\ best'[r] = {}
    BY <1>1
  <2>2. QED
    BY <2>1 DEF IsPairs
<1>4. 0 \in 0 .. Heads
  BY ConstantTypes
<1>5. QED
  BY <1>1, <1>2, <1>3, <1>4 DEF TypeOK

\* The streaming entry points start with nothing selected, or answer FALSE.
LEMMA StreamingCallStep ==
  ASSUME Inv, NEW entry \in {"mqa_topk", "paged_topk"}, NEW path, NEW first \in {"chunk", "done"},
         Begin(entry, path, first), UNCHANGED <<count, pending, logits>>,
         entry = "paged_topk" /\ first = "chunk" => path \in {"paged", "rowwise"}
  PROVE  Inv' /\ StreamedTopK'
<1> USE DEF Inv
<1>1. /\ pc = "idle" /\ pc' = first /\ start' = 0 /\ answer' = FALSE /\ JobOK'
      /\ job'.entry = entry /\ job'.path = path /\ job'.keys \in 0 .. MaxKeys
      /\ best' = [r \in Rows' |-> {}]
  <2>1. entry \in {"mqa_topk", "paged_topk", "mqa_logits", "paged_logits"}
    OBVIOUS
  <2>2. QED
    BY <2>1, BeginFacts
<1>2. count' = 0 /\ job'.keys \in Nat
  BY <1>1, ConstantTypes DEF FlowOK
<1>3. TypeOK'
  <2>1. count' \in 0 .. job'.keys
    BY <1>2
  <2>2. QED
    BY <2>1, CallFrame
<1>4. Streaming' /\ (Paged' <=> entry = "paged_topk")
  BY <1>1 DEF Streaming, Paged
<1>5. FlowOK'
  BY <1>1, <1>4 DEF FlowOK
<1>6. Progress'
  BY <1>1, <1>4 DEF Progress
<1>7. \A r \in Rows' : IsTopK(best[r], KeysBefore(r, MinKeys(start)), TopK)'
  <2>1. MinKeys(start)' = 0
    BY <1>1, <1>2 DEF MinKeys, MinOf
  <2>2. \A r : KeysBefore(r, MinKeys(start))' = {}
    BY <2>1 DEF KeysBefore
  <2>3. IsTopK({}, {}, TopK)
    BY ConstantTypes, FS_EmptySet DEF IsTopK, AtMost
  <2>4. QED
    BY <1>1, <2>2, <2>3
<1>8. Streamed'
  BY <1>1, <1>7 DEF Streamed
<1>9. QED
  BY <1>1, <1>3, <1>5, <1>6, <1>8 DEF StreamedTopK

\* The entry points that return logits launch a grid, or start a torch path.
LEMMA LogitsCallStep ==
  ASSUME Inv, fp8_mqa_logits_sm12x \/ fp8_paged_mqa_logits_sm12x
  PROVE  Inv' /\ StreamedTopK'
<1> USE DEF Inv
<1>1. PICK entry \in {"mqa_logits", "paged_logits"},
           path \in {"dense", "torch", "paged", "rowwise"},
           first \in {"grid", "matmul", "rows"} :
        /\ Begin(entry, path, first)
        /\ \/ /\ first = "grid" /\ Launch(path, RowsOfCall, job'.keys)
              /\ \/ entry = "mqa_logits" /\ path = "dense"
                 \/ entry = "paged_logits" /\ path \in {"paged", "rowwise"}
           \/ first = "matmul" /\ FromAll({}) /\ entry = "mqa_logits"
           \/ first = "rows" /\ FromAll(NegInf) /\ entry = "paged_logits"
  BY DEF fp8_mqa_logits_sm12x, fp8_paged_mqa_logits_sm12x, fp8_mqa_logits_triton,
         fp8_paged_mqa_logits_triton, fp8_paged_mqa_logits_rowwise_triton
<1>2. /\ pc' = first /\ row' = 0 /\ start' = 0 /\ head' = 0 /\ answer' = FALSE /\ JobOK'
      /\ job'.entry = entry /\ job'.path = path /\ job'.keys \in 0 .. MaxKeys
      /\ RowsOfCall \in Nat /\ Rows' = 0 .. RowsOfCall - 1
  <2>1. entry \in {"mqa_topk", "paged_topk", "mqa_logits", "paged_logits"}
    OBVIOUS
  <2>2. Begin(entry, path, first)
    BY <1>1
  <2>3. QED
    BY <2>1, <2>2, BeginFacts
<1>3. ~Streaming' /\ (Paged' <=> entry = "paged_logits")
  BY <1>2 DEF Streaming, Paged
<1>4. job'.keys \in Nat /\ count' = job'.keys /\ Cols' = 0 .. job'.keys - 1
  BY <1>1, <1>2, ConstantTypes DEF Launch, FromAll, Cols
<1>5. \A r \in Rows', c \in Cols' :
        /\ first = "grid" => logits'[r][c] = Unset /\ \E p \in pending' : <<r, c>> \in Tile(p)'
        /\ first = "matmul" => logits'[r][c] = {}
        /\ first = "rows" => logits'[r][c] = NegInf
  <2>1. TAKE r \in Rows', c \in Cols'
  <2>2. r \in 0 .. RowsOfCall - 1 /\ c \in 0 .. job'.keys - 1
    BY <1>2, <1>4
  <2>3. ASSUME first = "grid"
        PROVE  logits'[r][c] = Unset /\ \E p \in pending' : <<r, c>> \in Tile(p)'
    <3>1. Launch(path, RowsOfCall, job'.keys)
      BY <1>1, <2>3
    <3>2. /\ logits'[r][c] = Unset
          /\ \E p \in pending' : /\ p[1] = r \div TileHeight(path, RowsOfCall)
                                 /\ p[2] = c \div TileN
      <4>1. job'.keys \in Nat /\ RowsOfCall \in Nat
        BY <1>2, <1>4
      <4> HIDE DEF RowsOfCall
      <4>2. QED
        BY <2>2, <3>1, <4>1, LaunchCovers
    <3>3. PICK p \in pending' : /\ p[1] = r \div TileHeight(path, RowsOfCall)
                                /\ p[2] = c \div TileN
      BY <3>2
    <3>4. <<r, c>> \in Tile(p)'
      BY <1>2, <2>1, <3>3 DEF Tile, RowCount, RowsOfCall
    <3>5. QED
      BY <3>2, <3>4
  <2>4. ASSUME first # "grid" PROVE logits'[r][c] = IF first = "matmul" THEN {} ELSE NegInf
    BY <1>1, <2>2, <2>4 DEF FromAll, Filled
  <2>5. QED
    BY <2>3, <2>4
<1>6. TypeOK'
  <2>1. \A r \in Rows', c \in 0 .. count' - 1 : IsCell(logits'[r][c])
    BY <1>4, <1>5 DEF IsCell
  <2>2. count' \in 0 .. job'.keys
    BY <1>4
  <2>3. QED
    BY <1>1, <1>3, <2>1, <2>2, CallFrame
<1>7. FlowOK'
  <2>1. first = "rows" => DOMAIN logits' = Rows'
    BY <1>1, <1>2 DEF FromAll, Filled
  <2>2. first = "grid" => \/ path = "dense" /\ entry = "mqa_logits"
                          \/ path \in {"paged", "rowwise"} /\ entry = "paged_logits"
    BY <1>1
  <2>3. (first = "matmul" => entry = "mqa_logits") /\ (first = "rows" => entry = "paged_logits")
    BY <1>1
  <2>4. QED
    BY <1>2, <1>3, <1>4, <2>1, <2>2, <2>3 DEF FlowOK
<1>8. Progress'
  <2>1. \A k : Products(k, 0 .. 0 - 1) = {}
    BY DEF Products
  <2>2. \A r \in Rows', c \in Cols' : r \in Nat /\ c \in Nat
    BY <1>2, <1>4
  <2>3. pc' = "matmul" =>
          \A r \in Rows', c \in Cols' :
            logits'[r][c] =
              Products(Home(r, c)',
                       0 .. (IF c < start' /\ head' < Heads THEN HeadEnd' ELSE head') - 1)
    <3>1. \A c \in Cols' :
            (IF c < start' /\ head' < Heads THEN HeadEnd' ELSE head') = 0
      BY <1>2, <1>4
    <3>2. QED
      BY <1>2, <1>5, <2>1, <3>1
  <2>4. pc' = "rows" =>
          \A r \in Rows', c \in Cols' :
            logits'[r][c] = IF Visible(r, c)' /\ (r < row' \/ (r = row' /\ c < start'))
                              THEN Full(r, c)' ELSE NegInf
    BY <1>2, <1>5, <2>2
  <2>5. QED
    BY <1>2, <1>5, <2>3, <2>4 DEF Progress
<1>9. Streamed'
  BY <1>2, <1>3 DEF Streamed
<1>10. QED
  BY <1>2, <1>3, <1>6, <1>7, <1>8, <1>9 DEF StreamedTopK

\* Every entry point begins with nothing selected and nothing scored.
LEMMA CallStep ==
  ASSUME Inv, Call
  PROVE  Inv' /\ StreamedTopK'
<1>1. CASE fp8_fp4_mqa_topk_indices
  BY <1>1, StreamingCallStep DEF fp8_fp4_mqa_topk_indices
<1>2. CASE fp8_fp4_paged_mqa_topk_indices
  BY <1>2, StreamingCallStep DEF fp8_fp4_paged_mqa_topk_indices
<1>3. QED
  BY <1>1, <1>2, LogitsCallStep DEF Call

-----------------------------------------------------------------------------
(* Ends of calls.                                                          *)

\* Logits are returned when the last program has run; the loop over chunks ends with
\* the keys.
LEMMA EndStep ==
  ASSUME Inv, ReturnLogits \/ LastChunk
  PROVE  Inv' /\ StreamedTopK'
<1> USE DEF Inv
<1>1. /\ pc' = "done" /\ answer' = TRUE
      /\ UNCHANGED <<job, row, start, count, head, pending, logits, chosen, best>>
  BY DEF ReturnLogits, LastChunk
<1>2. /\ Rows' = Rows /\ Cols' = Cols /\ Streaming' = Streaming /\ Paged' = Paged /\ JobOK'
      /\ \A r, n : KeysBefore(r, n)' = KeysBefore(r, n)
      /\ \A r, p : Full(r, p)' = Full(r, p) /\ Visible(r, p)' = Visible(r, p)
      /\ \A c : KeyOf(c)' = KeyOf(c)
  BY <1>1, JobFrame DEF Cols, KeyOf
<1>3. TypeOK'
  BY <1>1, TypeFrame DEF TypeOK
<1>4. FlowOK' /\ Streamed'
  BY <1>1 DEF FlowOK, Streamed
<1>5. CASE ReturnLogits
  <2>1. ~Streaming /\ \A r \in Rows, c \in Cols : Right(r, c)
    BY <1>5 DEF ReturnLogits, Progress
  <2>2. \A r \in Rows, c \in Cols : Right(r, c)'
    BY <1>1, <1>2, <2>1 DEF Right
  <2>3. QED
    BY <1>1, <1>2, <1>3, <1>4, <2>1, <2>2 DEF Progress, StreamedTopK
<1>6. CASE LastChunk
  <2>1. Streaming /\ \A r \in Rows : IsTopK(best[r], KeysBefore(r, MinKeys(start)), TopK)
    BY <1>6 DEF LastChunk, FlowOK, Streamed
  <2>2. MinKeys(start) = job.keys
    BY <1>6 DEF LastChunk, MinKeys, MinOf, TypeOK
  <2>3. Progress'
    BY <1>1, <1>2, <2>1 DEF Progress
  <2>4. QED
    BY <1>1, <1>2, <1>3, <1>4, <2>1, <2>2, <2>3 DEF StreamedTopK
<1>7. QED
  BY <1>5, <1>6

\* Between calls there are no rows.
LEMMA IdleInv ==
  /\ Init => Inv /\ StreamedTopK
  /\ Return => Inv' /\ StreamedTopK'
<1>1. Init => Inv /\ StreamedTopK
  <2> SUFFICES ASSUME Init PROVE Inv /\ StreamedTopK
    OBVIOUS
  <2>1. job = NoJob /\ pc = "idle" /\ row = 0 /\ start = 0 /\ count = 0 /\ head = 0
        /\ answer = FALSE
    BY DEF Init
  <2>2. /\ job.shape = <<0, 1>> /\ job.keys = 0 /\ job.clean = TRUE /\ job.chunk = 1
        /\ job.heads = 1 /\ job.entry = "mqa_logits"
        /\ job.lo = [r \in {} |-> 0] /\ job.hi = [r \in {} |-> 0]
    BY <2>1 DEF NoJob
  <2>3. Rows = {}
    BY <2>2 DEF Rows, RowsOf
  <2>4. TypeOK
    <3>1. job.lo \in [Rows -> 0 .. job.keys] /\ job.hi \in [Rows -> 0 .. job.keys]
      BY <2>2, <2>3
    <3>2. MaxKeys \in Nat /\ Heads \in Nat /\ 0 \in 0 .. MaxKeys /\ 0 \in 0 .. Heads
          /\ 0 \in 0 .. 0 /\ 0 \in Nat /\ 1 \in Nat \ {0}
      BY ConstantTypes
    <3>3. QED
      BY <2>1, <2>2, <2>3, <3>1, <3>2 DEF TypeOK
  <2>5. JobOK /\ FlowOK /\ Progress /\ Streamed /\ StreamedTopK
    BY <2>1, <2>2, <2>3 DEF JobOK, FlowOK, Progress, Streamed, StreamedTopK, Paged, Streaming
  <2>6. QED
    BY <2>4, <2>5 DEF Inv
<1>2. Return => Inv' /\ StreamedTopK'
  <2> SUFFICES ASSUME Return PROVE Inv' /\ StreamedTopK'
    OBVIOUS
  <2>1. job' = NoJob /\ pc' = "idle" /\ row' = 0 /\ start' = 0 /\ count' = 0 /\ head' = 0
        /\ answer' = FALSE
    BY DEF Return
  <2>2. /\ job'.shape = <<0, 1>> /\ job'.keys = 0 /\ job'.clean = TRUE /\ job'.chunk = 1
        /\ job'.heads = 1 /\ job'.entry = "mqa_logits"
        /\ job'.lo = [r \in {} |-> 0] /\ job'.hi = [r \in {} |-> 0]
    BY <2>1 DEF NoJob
  <2>3. Rows' = {}
    BY <2>2 DEF Rows, RowsOf
  <2>4. TypeOK'
    <3>1. job'.lo \in [Rows' -> 0 .. job'.keys] /\ job'.hi \in [Rows' -> 0 .. job'.keys]
      BY <2>2, <2>3
    <3>2. MaxKeys \in Nat /\ Heads \in Nat /\ 0 \in 0 .. MaxKeys /\ 0 \in 0 .. Heads
          /\ 0 \in 0 .. 0 /\ 0 \in Nat /\ 1 \in Nat \ {0}
      BY ConstantTypes
    <3>3. QED
      BY <2>1, <2>2, <2>3, <3>1, <3>2 DEF TypeOK
  <2>5. JobOK' /\ FlowOK' /\ Progress' /\ Streamed' /\ StreamedTopK'
    BY <2>1, <2>2, <2>3 DEF JobOK, FlowOK, Progress, Streamed, StreamedTopK, Paged, Streaming
  <2>6. QED
    BY <2>4, <2>5 DEF Inv
<1>3. QED
  BY <1>1, <1>2

\* What else ends a call returns logits, not selections.
LEMMA OtherEnds ==
  ASSUME Inv, Step, ~(ReturnLogits \/ LastChunk)
  PROVE  StreamedTopK'
<1> USE DEF Inv
<1>1. pc # "done" /\ job' = job
  BY DEF Step, fp8_mqa_logits_kernel, fp8_paged_mqa_logits_kernel,
         fp8_paged_mqa_logits_rowwise_kernel, Store, fp8_mqa_logits_torch,
         fp8_paged_mqa_logits_torch, MaskLogits, NextChunk, AddHeads, ChunkTopK, MergeChunk
<1>2. Streaming' = Streaming
  BY <1>1, JobFrame
<1>3. pc' = "done" => ~Streaming
  BY <1>1 DEF Step, fp8_mqa_logits_kernel, fp8_paged_mqa_logits_kernel,
         fp8_paged_mqa_logits_rowwise_kernel, Store, fp8_mqa_logits_torch,
         fp8_paged_mqa_logits_torch, MaskLogits, NextChunk, AddHeads, ChunkTopK, MergeChunk, FlowOK
<1>4. QED
  BY <1>2, <1>3 DEF StreamedTopK

\* Every step keeps the invariant, and what finished calls have selected.
LEMMA InvStep ==
  ASSUME Inv, StreamedTopK, [Next]_vars
  PROVE  Inv' /\ StreamedTopK'
<1>1. CASE Call
  BY <1>1, CallStep
<1>2. CASE Step
  <2>1. Inv'
    BY <1>2, GridStep, EndStep, TorchStep, PagedTorchStep, MaskStep, NextChunkStep,
       AddHeadsStep, ChunkTopKStep, MergeChunkStep DEF Step
  <2>2. QED
    BY <1>2, <2>1, EndStep, OtherEnds
<1>3. CASE Return
  BY <1>3, IdleInv
<1>4. CASE UNCHANGED vars
  <2>1. UNCHANGED <<job, pc, row, start, count, head, pending, logits, chosen, best, answer>>
    BY <1>4 DEF vars
  <2>2. /\ Rows' = Rows /\ Cols' = Cols /\ Streaming' = Streaming /\ Paged' = Paged
        /\ ChunkColumns' = ChunkColumns /\ HeadEnd' = HeadEnd
        /\ \A r, n : KeysBefore(r, n)' = KeysBefore(r, n) /\ MinKeys(n)' = MinKeys(n)
        /\ \A r, p : /\ Home(r, p)' = Home(r, p) /\ Full(r, p)' = Full(r, p)
                     /\ Visible(r, p)' = Visible(r, p)
        /\ \A c : KeyOf(c)' = KeyOf(c)
        /\ \A p : Tile(p)' = Tile(p)
    BY <2>1, JobFrame DEF Cols, ChunkColumns, HeadEnd, KeyOf, Tile
  <2>3. \A r, c : Right(r, c)' = Right(r, c)
    BY <2>1, <2>2 DEF Right
  <2>4. TypeOK' /\ JobOK'
    BY <2>1, TypeFrame, JobFrame DEF Inv, TypeOK, Cols
  <2>5. FlowOK' /\ Streamed' /\ StreamedTopK'
    BY <2>1, <2>2 DEF Inv, FlowOK, Streamed, StreamedTopK
  <2>6. Progress'
    BY <2>1, <2>2, <2>3 DEF Inv, Progress
  <2>7. QED
    BY <2>4, <2>5, <2>6 DEF Inv
<1>5. QED
  BY <1>1, <1>2, <1>3, <1>4 DEF Next

-----------------------------------------------------------------------------
(* Theorems.                                                               *)

\* The invariant: what a call has computed of its logits and selected from its chunks.
THEOREM Invariance == Spec => [](Inv /\ StreamedTopK)
<1>1. Init => Inv /\ StreamedTopK
  BY IdleInv
<1>2. Inv /\ StreamedTopK /\ [Next]_vars => (Inv /\ StreamedTopK)'
  BY InvStep
<1>3. QED
  BY <1>1, <1>2, PTL DEF Spec

\* Types: a chunk ends with the keys, and what is selected are keys with finite values.
THEOREM TypeCorrect == Spec => []TypeOK
<1>1. Inv => TypeOK
  BY DEF Inv
<1>2. QED
  BY <1>1, Invariance, PTL

\* Every cell holds what the steps so far had to add to it.
THEOREM CellsInProgress == Spec => []Progress
<1>1. Inv => Progress
  BY DEF Inv
<1>2. QED
  BY <1>1, Invariance, PTL

\* After every chunk, the best are a top-k of the keys so far.
THEOREM BestSoFar == Spec => []Streamed
<1>1. Inv => Streamed
  BY DEF Inv
<1>2. QED
  BY <1>1, Invariance, PTL

\* Whoever reads logits finds every cell written, by all heads once, from the key of
\* its own position (sm12x_mqa.py), in whatever order the programs of a grid ran.
THEOREM LogitsAreExact == Spec => []LogitsExact
<1>1. Inv => LogitsExact
  BY DEF Inv, Progress, LogitsExact
<1>2. QED
  BY <1>1, Invariance, PTL

\* The chunks a streaming entry point cuts the keys into do not show in what it
\* selects (sm12x_deep_gemm_fallbacks.py).
THEOREM StreamsExactly == Spec => []StreamedTopK
  BY Invariance, PTL

-----------------------------------------------------------------------------
(* The scratch tensor.                                                     *)

\* The chunk sizes of a call are those computed from its shape.
LEMMA SizesInvariant == Spec => []Sizes
<1>1. Init => Sizes
  BY DEF Init, Sizes
<1>2. Sizes /\ [Next]_vars => Sizes'
  <2> SUFFICES ASSUME Sizes, [Next]_vars PROVE Sizes'
    OBVIOUS
  <2>1. CASE Call
    <3>1. PICK entry \in {"mqa_topk", "paged_topk", "mqa_logits", "paged_logits"},
               path \in {"torch", "none", "paged", "rowwise", "dense"},
               first \in {"chunk", "done", "grid", "matmul", "rows"} : Begin(entry, path, first)
      BY <2>1 DEF Call, fp8_fp4_mqa_topk_indices, fp8_fp4_paged_mqa_topk_indices,
                  fp8_mqa_logits_sm12x, fp8_paged_mqa_logits_sm12x
    <3>2. QED
      BY <3>1, BeginFacts
  <2>2. CASE Step
    <3>1. pc # "idle" /\ job' = job
      BY <2>2 DEF Step, fp8_mqa_logits_kernel, fp8_paged_mqa_logits_kernel,
         fp8_paged_mqa_logits_rowwise_kernel, Store, ReturnLogits, fp8_mqa_logits_torch,
         fp8_paged_mqa_logits_torch, MaskLogits, NextChunk, AddHeads, ChunkTopK, MergeChunk,
         LastChunk
    <3>2. QED
      BY <3>1, JobFrame DEF Sizes
  <2>3. CASE Return
    BY <2>3 DEF Return, Sizes
  <2>4. CASE UNCHANGED vars
    BY <2>4, JobFrame DEF vars, Sizes
  <2>5. QED
    BY <2>1, <2>2, <2>3, <2>4 DEF Next
<1>3. QED
  BY <1>1, <1>2, PTL DEF Spec

\* A product of smaller factors is smaller.
LEMMA ProductBounds ==
  ASSUME NEW a \in Nat, NEW b \in Nat, NEW c \in Nat, NEW d \in Nat, a <= c, b <= d
  PROVE  a * b \in Nat /\ a * b <= c * d
<1>1. a * b <= c * b
  BY Monotone
<1>2. c * b <= c * d
  OBVIOUS
<1>3. a * b \in Nat /\ c * b \in Nat /\ c * d \in Nat
  OBVIOUS
<1>4. QED
  BY <1>1, <1>2, <1>3

\* h heads, at most those of a head chunk, by n keys, at most those of a key chunk cut
\* for g >= h heads.
LEMMA ScratchFits ==
  ASSUME NEW rows \in Nat, NEW keys \in Nat \ {0}, NEW h \in Nat \ {0}, NEW g \in Nat,
         NEW n \in Nat,
         h <= g, g <= HeadChunkSize(rows, keys), n <= KChunkSize(rows, keys, g)
  PROVE  h * rows * n <= Budget \/ (h = 1 /\ n = 1)
<1> DEFINE w == rows * g
           q == Budget \div MaxOf(1, w)
           v == rows * keys
           u == Budget \div MaxOf(1, v)
<1>1. w \in Nat /\ v \in Nat /\ Budget \in Nat /\ Heads \in Nat \ {0}
  BY ConstantTypes
<1>2. /\ MaxOf(1, w) \in Nat \ {0} /\ w <= MaxOf(1, w)
      /\ MaxOf(1, v) \in Nat \ {0} /\ v <= MaxOf(1, v)
  <2> HIDE DEF w, v
  <2>1. QED
    BY <1>1 DEF MaxOf
<1>3. q \in Nat /\ q * MaxOf(1, w) <= Budget /\ u \in Nat /\ u * MaxOf(1, v) <= Budget
  <2> HIDE DEF w, v
  <2>1. QED
    BY <1>1, <1>2, Quotient
<1>4. n <= MaxOf(1, MinOf(keys, q)) /\ g <= MaxOf(1, MinOf(MinOf(8, Heads), u))
  BY DEF KChunkSize, HeadChunkSize
<1>5. h * rows <= w /\ h * rows \in Nat
  <2>1. rows * h <= rows * g /\ rows * h = h * rows /\ h * rows \in Nat
    OBVIOUS
  <2>2. QED
    BY <2>1
<1> HIDE DEF w, q, u, v
<1>6. CASE n <= q
  <2>1. (h * rows) * n <= MaxOf(1, w) * q
    <3>1. h * rows <= MaxOf(1, w)
      BY <1>1, <1>2, <1>5
    <3>2. QED
      BY <1>2, <1>3, <1>5, <1>6, <3>1, ProductBounds
  <2>2. MaxOf(1, w) * q = q * MaxOf(1, w)
    BY <1>2, <1>3
  <2>3. (h * rows) * n \in Nat /\ MaxOf(1, w) * q \in Nat
    <3>1. \A a, b \in Nat : a * b \in Nat
      OBVIOUS
    <3>2. QED
      BY <1>2, <1>3, <1>5, <3>1
  <2>4. QED
    BY <1>1, <1>3, <2>1, <2>2, <2>3
<1>7. CASE ~(n <= q)
  <2>1. n = 1 /\ q = 0
    BY <1>3, <1>4, <1>7 DEF MaxOf, MinOf
  <2>2. CASE g <= 1
    BY <2>1, <2>2
  <2>3. CASE g > 1
    <3>1. g <= u
      BY <1>1, <1>3, <1>4, <2>3 DEF MaxOf, MinOf
    <3>2. rows <= v
      BY DEF v
    <3>3. g * rows <= u * MaxOf(1, v)
      <4>1. rows <= MaxOf(1, v)
        BY <1>1, <1>2, <3>2
      <4>2. QED
        BY <1>2, <1>3, <3>1, <4>1, ProductBounds
    <3>4. h * rows <= g * rows /\ g * rows \in Nat
      BY ProductBounds
    <3>5. h * rows * n = h * rows
      BY <1>5, <2>1
    <3>6. u * MaxOf(1, v) \in Nat
      <4>1. \A a, b \in Nat : a * b \in Nat
        OBVIOUS
      <4>2. QED
        BY <1>2, <1>3, <4>1
    <3>7. QED
      BY <1>1, <1>3, <1>5, <3>3, <3>4, <3>5, <3>6
  <2>4. QED
    BY <2>2, <2>3
<1>8. QED
  BY <1>6, <1>7

\* "Keep the transient score tensor bounded": whatever the budget, the scores of a step
\* fit in it, or are those of one head and one key (_fp8_mqa_logits_head_chunk_size and
\* _fp8_mqa_logits_k_chunk_size).
THEOREM ScratchIsBounded == Spec => []ScratchBounded
<1>1. Inv /\ Sizes => ScratchBounded
  <2> SUFFICES ASSUME Inv, Sizes PROVE ScratchBounded
    OBVIOUS
  <2> USE DEF Inv
  <2>1. RowCount \in Nat /\ job.keys \in Nat /\ start \in Nat /\ count \in Nat
        /\ job.heads \in Nat \ {0} /\ job.chunk \in Nat
    BY ShapeType DEF TypeOK
  <2>2. ASSUME head < Heads
        PROVE  /\ HeadEnd - head \in Nat \ {0} /\ HeadEnd - head <= job.heads
    <3>1. HeadEnd \in Nat /\ head < HeadEnd /\ head \in Nat
      BY <2>2, HeadEndType
    <3>2. HeadEnd <= head + job.heads
      BY <2>1, <3>1, ConstantTypes DEF HeadEnd, MinOf
    <3> HIDE DEF Inv
    <3>3. QED
      BY <2>1, <3>1, <3>2
  <2>3. ASSUME pc = "heads", head < Heads
        PROVE  (HeadEnd - head) * RowCount * count <= Budget \/ (HeadEnd - head = 1 /\ count = 1)
    <3>1. /\ job.keys \in Nat \ {0} /\ count <= job.chunk
          /\ job.entry = "mqa_topk"
      <4>1. Streaming /\ ~Paged /\ start < job.keys /\ count = ChunkColumns
        BY <2>3 DEF FlowOK
      <4>2. job.entry = "mqa_topk"
        BY <4>1 DEF Streaming, Paged
      <4>3. count <= job.chunk
        BY <2>1, <4>1 DEF ChunkColumns, MinOf
      <4> HIDE DEF Inv
      <4>4. QED
        BY <2>1, <4>1, <4>2, <4>3
    <3>2. /\ job.heads = HeadChunkSize(RowCount, job.keys)
          /\ job.chunk = KChunkSize(RowCount, job.keys, job.heads)
      BY <2>3, <3>1 DEF Sizes
    <3>3. job.heads <= HeadChunkSize(RowCount, job.keys)
          /\ count <= KChunkSize(RowCount, job.keys, job.heads)
      BY <2>1, <3>1, <3>2
    <3> HIDE DEF Inv
    <3>4. QED
      BY <2>1, <2>2, <2>3, <3>1, <3>3, ScratchFits
  <2>4. ASSUME pc = "matmul", head < Heads, start < job.keys,
               NEW n \in Nat, n = MinOf(KeyStep, job.keys - start)
        PROVE  (HeadEnd - head) * RowCount * n <= Budget \/ (HeadEnd - head = 1 /\ n = 1)
    <3>1. job.keys \in Nat \ {0} /\ HeadEnd - head \in Nat \ {0}
      BY <2>1, <2>2, <2>4
    <3>2. job.heads = HeadChunkSize(RowCount, job.keys)
      BY <2>4 DEF Sizes
    <3>3. HeadEnd - head <= HeadChunkSize(RowCount, job.keys)
      BY <2>2, <2>4, <3>2
    <3>4. KeyStep \in Nat
      BY <2>1, <3>1, ChunkSizes DEF KeyStep
    <3>5. n <= KChunkSize(RowCount, job.keys, HeadEnd - head)
      BY <2>1, <2>4, <3>4 DEF KeyStep, MinOf
    <3> DEFINE h == HeadEnd - head
    <3> HIDE DEF Inv, h
    <3>6. h \in Nat \ {0} /\ h <= h
      BY <3>1 DEF h
    <3>7. h * RowCount * n <= Budget \/ (h = 1 /\ n = 1)
      BY <2>1, <3>1, <3>3, <3>5, <3>6, ScratchFits DEF h
    <3>8. QED
      BY <3>7 DEF h
  <2>5. ASSUME pc = "matmul", head < Heads, start < job.keys
        PROVE  MinOf(KeyStep, job.keys - start) \in Nat
    <3>1. HeadEnd - head \in Nat
      BY <2>2, <2>5
    <3>2. KeyStep \in Nat
      BY <2>1, <3>1, ChunkSizes DEF KeyStep
    <3>3. QED
      BY <2>1, <2>5, <3>2 DEF MinOf
  <2>6. QED
    BY <2>3, <2>4, <2>5 DEF ScratchBounded
<1>2. QED
  BY <1>1, Invariance, SizesInvariant, PTL

=============================================================================
