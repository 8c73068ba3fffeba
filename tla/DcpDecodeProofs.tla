--------------------------- MODULE DcpDecodeProofs ---------------------------
(***************************************************************************)
(* Proofs about DcpDecode, for every group size, selection size, number of *)
(* rows, sequence length and set of scores, and for a kernel that breaks   *)
(* ties at will.                                                           *)
(*                                                                         *)
(* IInv is inductive (IInvInit, IInvStep); everything else follows from it.*)
(***************************************************************************)
EXTENDS DcpDecode, SharedLemmas

USE DecodeAssumption, NAssumption

-----------------------------------------------------------------------------
(* Ownership.                                                              *)

\* A column of one rank is one position.
LEMMA SlotUnique ==
  ASSUME NEW r \in Ranks, NEW s \in Ranks, NEW c \in Nat, NEW d \in Nat,
         GlobalPos(r, c) = GlobalPos(s, d)
  PROVE  r = s /\ c = d
  BY RoundUnique DEF GlobalPos, Ranks

\* Every position has one owner and one column there.
LEMMA SlotOf ==
  ASSUME NEW p \in Nat
  PROVE  /\ Owner(p) \in Ranks
         /\ LocalIndex(p) \in Nat
         /\ GlobalPos(Owner(p), LocalIndex(p)) = p
  BY DivMod DEF Owner, LocalIndex, GlobalPos, Ranks

\* A column of rank r is owned by r: owner and column are the inverse of GlobalPos.
LEMMA SlotInverse ==
  ASSUME NEW r \in Ranks, NEW c \in Nat
  PROVE  /\ GlobalPos(r, c) \in Nat
         /\ c <= GlobalPos(r, c)
         /\ Owner(GlobalPos(r, c)) = r
         /\ LocalIndex(GlobalPos(r, c)) = c
  BY RoundInverse DEF Owner, LocalIndex, GlobalPos, Ranks

\* Later columns of a rank are later positions.
LEMMA SlotMonotone ==
  ASSUME NEW r \in Ranks, NEW c \in Nat, NEW d \in Nat, c < d
  PROVE  GlobalPos(r, c) < GlobalPos(r, d)
  BY RoundLater DEF GlobalPos, Ranks

\* Rank r owns exactly its first OwnedCount(g, r) columns of a sequence of g
\* positions: the localized length bounds the live columns, no more, no less.
LEMMA OwnedCountExact ==
  ASSUME NEW g \in Nat, NEW r \in Ranks, NEW c \in Nat
  PROVE  /\ OwnedCount(g, r) \in Nat
         /\ c < OwnedCount(g, r) <=> GlobalPos(r, c) < g
<1>1. g \div N \in Nat /\ g % N \in 0 .. N - 1 /\ r \in 0 .. N - 1
  BY DivMod DEF Ranks
<1>2. OwnedCount(g, r) = IF g % N > r THEN g \div N + 1 ELSE g \div N
  BY <1>1 DEF OwnedCount, ClampUnit
<1>3. c < (IF g % N > r THEN g \div N + 1 ELSE g \div N) <=> c * N + r < g
  BY <1>1, RoundCount
<1>4. QED
  BY <1>1, <1>2, <1>3 DEF GlobalPos

-----------------------------------------------------------------------------
(* Types.                                                                  *)

\* Scores are integers, so the order on them is total.
LEMMA ScoresInt == \A x \in Scores : x \in Int
  OBVIOUS

\* What a column of a shard holds is an entry.
LEMMA EntryAt ==
  ASSUME NEW r \in Ranks, NEW c \in Cols, NEW t \in [Pos -> 0 .. Versions - 1],
         GlobalPos(r, c) \in Pos
  PROVE  [pos |-> GlobalPos(r, c), ver |-> t[GlobalPos(r, c)]] \in Entry
  BY DEF Entry

\* A logit is a score: dead keys score StaleScore.
LEMMA LogitType ==
  ASSUME TypeOK, NEW r \in Ranks, NEW j \in Rows, NEW c \in Cols
  PROVE  Logit(r, j, c) \in Scores
<1>1. kv[r][c] \in Entry
  BY DEF TypeOK
<1>2. QED
  BY <1>1 DEF TypeOK, Logit, Entry

\* New tokens keep the versions in range.
LEMMA RenewType ==
  ASSUME TypeOK, NEW Q
  PROVE  Renew(Q) \in [Pos -> 0 .. Versions - 1]
<1>1. \A p \in Pos : (tok[p] + 1) % Versions \in 0 .. Versions - 1
  BY DEF TypeOK
<1>2. QED
  BY <1>1 DEF Renew, TypeOK

\* Writing keys keeps a shard a shard.
LEMMA WriteKeysType ==
  ASSUME TypeOK, NEW r \in Ranks, NEW Q \in SUBSET Pos,
         NEW t \in [Pos -> 0 .. Versions - 1]
  PROVE  WriteKeys(r, Q, t) \in [Cols -> Entry]
<1>1. \A c \in Cols : GlobalPos(r, c) \in Q =>
        [pos |-> GlobalPos(r, c), ver |-> t[GlobalPos(r, c)]] \in Entry
  BY EntryAt
<1>2. \A c \in Cols : kv[r][c] \in Entry
  BY DEF TypeOK
<1>3. QED
  BY <1>1, <1>2 DEF WriteKeys

\* The owned mask of lanes maps some of them to columns.
LEMMA OwnedLanesType ==
  ASSUME NEW T \in SUBSET Lane, NEW r \in Ranks
  PROVE  IsOfLanes(OwnedLanes(T, r), Nat)
<1>1. \A t \in T : LocalIndex(t[1]) \in Nat
  BY SlotOf DEF Lane
<1>2. QED
  BY <1>1 DEF OwnedLanes, IsOfLanes

\* A choice for each row is what it says.
LEMMA PerRowChoice ==
  ASSUME NEW choices, NEW f \in PerRow(choices)
  PROVE  /\ f = [j \in Rows |-> f[j]]
         /\ \A j \in Rows : f[j] \in choices[j]
  BY DEF PerRow

-----------------------------------------------------------------------------
(* What the selections are, in a state that satisfies the invariant.       *)

Indexed == {"index", "gather_scores", "gather_positions", "merge", "attend"}

\* The live columns of rank r: its localized length bounds exactly the columns
\* of visible positions, and each is scored with the score of its position.
LEMMA LiveColumns ==
  ASSUME IInv, NEW r \in Ranks, pc[r] \in Indexed, NEW j \in Rows, NEW c \in Cols
  PROVE  /\ c < lsl[r][j] <=> GlobalPos(r, c) < SeqLen(j)
         /\ GlobalPos(r, c) < SeqLen(j) =>
              /\ kv[r][c] = [pos |-> GlobalPos(r, c), ver |-> tok[GlobalPos(r, c)]]
              /\ Logit(r, j, c) = score[j][GlobalPos(r, c)]
<1>1. SeqLen(j) \in Nat /\ SeqLen(j) <= len + NextN
  BY DEF IInv, TypeOK, SeqLen, Rows
<1>2. lsl[r][j] = OwnedCount(SeqLen(j), r)
  BY DEF IInv, Localized, Indexed
<1>3. c < lsl[r][j] <=> GlobalPos(r, c) < SeqLen(j)
  BY <1>1, <1>2, OwnedCountExact DEF Cols, Pos
<1>4. KeysDue(r) = len + NextN
  BY DEF IInv, InStep, KeysDue, Indexed
<1>5. ASSUME GlobalPos(r, c) < SeqLen(j)
      PROVE  kv[r][c] = [pos |-> GlobalPos(r, c), ver |-> tok[GlobalPos(r, c)]]
  <2>1. GlobalPos(r, c) \in Nat
    BY SlotInverse DEF Cols, Pos
  <2>2. GlobalPos(r, c) < KeysDue(r)
    BY <1>1, <1>4, <1>5, <2>1 DEF IInv, TypeOK
  <2>3. QED
    BY <2>2 DEF IInv, ShardsCurrent
<1>6. QED
  BY <1>3, <1>5 DEF Logit

\* Pairing positions with the scores of a row loses none, and the scores compare.
LEMMA PairsScored ==
  ASSUME TypeOK, NEW j \in Rows, NEW S \in SUBSET Pos
  PROVE  /\ IsFiniteSet(S) /\ IsFiniteSet(Pairs(score[j], S)) /\ Scored2(Pairs(score[j], S))
         /\ Cardinality(Pairs(score[j], S)) = Cardinality(S)
<1>1. IsFiniteSet(S)
  <2>1. IsFiniteSet(Pos)
    BY FS_Interval DEF Pos
  <2>2. QED
    BY <2>1, FS_Subset
<1> DEFINE f == [p \in S |-> <<p, score[j][p]>>]
<1>2. /\ f \in [S -> Pairs(score[j], S)] /\ Pairs(score[j], S) = { f[p] : p \in S }
      /\ \A p, q \in S : f[p] = f[q] => p = q
  BY DEF Pairs
<1> HIDE DEF f
<1>3. IsFiniteSet(Pairs(score[j], S)) /\ Cardinality(Pairs(score[j], S)) = Cardinality(S)
  BY <1>1, <1>2, InjectiveImage
<1>4. Scored2(Pairs(score[j], S))
  <2>0. score[j] \in [Pos -> Scores]
    BY DEF TypeOK
  <2>1. \A p \in S : p \in Int /\ score[j][p] \in Scores
    BY <2>0 DEF Pos
  <2>2. ASSUME NEW x \in Pairs(score[j], S) PROVE x[1] \in Int /\ x[2] \in Int
    <3>1. PICK p \in S : x = <<p, score[j][p]>>
      BY DEF Pairs
    <3>2. p \in Int /\ score[j][p] \in Int
      BY <2>1, ScoresInt
    <3>3. QED
      BY <3>1, <3>2
  <2>3. QED
    BY <2>2 DEF Scored2
<1>5. QED
  BY <1>1, <1>3, <1>4

\* The positions of columns of rank r.
PositionsOf(r, C) == { GlobalPos(r, c) : c \in C }

LiveCols(r, j) == { c \in Cols : c < lsl[r][j] }

\* The candidates of rank r are best among the visible positions it owns, in any
\* order of ties; and strictly so if the kernel breaks ties by column.
LEMMA LocalSelection ==
  ASSUME IInv, NEW r \in Ranks, pc[r] \in Indexed, NEW j \in Rows,
         NEW C \in KernelTopK(r, j)
  PROVE  /\ IsTopK(Pairs(score[j], PositionsOf(r, C)),
                   Pairs(score[j], PositionsOf(r, LiveCols(r, j))), TopK)
         /\ ties = "lowest" =>
              IsStrictTopK(Pairs(score[j], PositionsOf(r, C)),
                           Pairs(score[j], PositionsOf(r, LiveCols(r, j))), TopK)
<1> DEFINE L == LiveCols(r, j)
           S == Scored(r, j, L)
           V == Pairs(score[j], PositionsOf(r, L))
           f == [x \in S |-> <<GlobalPos(r, x[1]), x[2]>>]
<1>1. C \in SUBSET L /\ L \in SUBSET Cols
  BY DEF KernelTopK, LiveCols
<1>2. \A c \in L : /\ Logit(r, j, c) = score[j][GlobalPos(r, c)]
                   /\ GlobalPos(r, c) \in Pos
  <2>1. ASSUME NEW c \in L
        PROVE Logit(r, j, c) = score[j][GlobalPos(r, c)] /\ GlobalPos(r, c) \in Pos
    <3>1. c \in Cols /\ c < lsl[r][j]
      BY DEF LiveCols
    <3>2. GlobalPos(r, c) < SeqLen(j) /\ Logit(r, j, c) = score[j][GlobalPos(r, c)]
      BY <3>1, LiveColumns
    <3>3. GlobalPos(r, c) \in Nat
      BY <3>1, SlotInverse DEF Cols, Pos
    <3>4. SeqLen(j) <= MaxLen
      BY DEF IInv, TypeOK, InStep, SeqLen, Rows, Indexed
    <3>5. QED
      BY <3>2, <3>3, <3>4 DEF Pos, IInv, TypeOK, SeqLen, Rows
  <2>2. QED
    BY <2>1
<1>3. \A c, d \in L : GlobalPos(r, c) = GlobalPos(r, d) => c = d
  BY <1>1, SlotUnique DEF Cols, Pos
<1>4. \A c, d \in L : c < d => GlobalPos(r, c) < GlobalPos(r, d)
  BY <1>1, SlotMonotone DEF Cols, Pos
<1>a. \A c \in L : <<c, Logit(r, j, c)>> \in S /\
                   f[<<c, Logit(r, j, c)>>] = <<GlobalPos(r, c), score[j][GlobalPos(r, c)]>>
  BY <1>2 DEF Scored
<1>b. \A x \in S : \E c \in L : x = <<c, Logit(r, j, c)>>
  BY DEF Scored
<1>c. \A v : v \in V <=> \E c \in L : v = <<GlobalPos(r, c), score[j][GlobalPos(r, c)]>>
  BY DEF Pairs, PositionsOf
<1>5. Renaming(f, S, V)
  <2>0. f = [x \in S |-> f[x]]
    OBVIOUS
  <2>d. \A x \in S : f[x] = <<GlobalPos(r, x[1]), x[2]>>
    OBVIOUS
  <2> HIDE DEF f, S, V, L
  <2>1. f \in [S -> V]
    <3>1. ASSUME NEW x \in S PROVE f[x] \in V
      <4>1. PICK c \in L : x = <<c, Logit(r, j, c)>>
        BY <1>b
      <4>2. f[x] = <<GlobalPos(r, c), score[j][GlobalPos(r, c)]>>
        BY <1>a, <4>1
      <4>3. QED
        BY <1>c, <4>2
    <3>2. QED
      BY <2>0, <3>1
  <2>2. V = { f[x] : x \in S }
    <3>1. \A x \in S : f[x] \in V
      BY <2>1
    <3>2. ASSUME NEW v \in V PROVE \E x \in S : v = f[x]
      <4>1. PICK c \in L : v = <<GlobalPos(r, c), score[j][GlobalPos(r, c)]>>
        BY <1>c
      <4>2. v = f[<<c, Logit(r, j, c)>>] /\ <<c, Logit(r, j, c)>> \in S
        BY <1>a, <4>1
      <4>3. QED
        BY <4>2
    <3>3. QED
      BY <3>1, <3>2
  <2>3. \A x, y \in S : f[x] = f[y] => x = y
    BY <1>a, <1>b, <1>3
  <2>4. \A x \in S : f[x][2] = x[2]
    BY <2>d
  <2>5. QED
    BY <2>1, <2>2, <2>3, <2>4 DEF Renaming
<1>6. IsFiniteSet(S) /\ Scored2(S)
  <2>1. IsFiniteSet(L)
    <3>1. IsFiniteSet(Cols)
      BY FS_Interval DEF Cols, Pos
    <3>2. QED
      BY <1>1, <3>1, FS_Subset
  <2> DEFINE g == [c \in L |-> <<c, Logit(r, j, c)>>]
  <2>2. g \in [L -> S] /\ S = { g[c] : c \in L } /\ \A c, d \in L : g[c] = g[d] => c = d
    BY DEF Scored
  <2> HIDE DEF g
  <2>3. IsFiniteSet(S)
    BY <2>1, <2>2, InjectiveImage
  <2>4. \A c \in L : c \in Int /\ Logit(r, j, c) \in Int
    <3>1. \A c \in L : c \in Cols
      BY <1>1
    <3>2. \A c \in Cols : Logit(r, j, c) \in Scores
      BY LogitType DEF IInv
    <3> HIDE DEF L
    <3>3. ASSUME NEW c \in L PROVE c \in Int /\ Logit(r, j, c) \in Int
      <4>1. c \in Int
        BY <3>1 DEF Cols, Pos
      <4>2. Logit(r, j, c) \in Int
        BY <3>1, <3>2, ScoresInt
      <4>3. QED
        BY <4>1, <4>2
    <3>4. QED
      BY <3>3
  <2>5. QED
    BY <2>3, <2>4 DEF Scored, Scored2
<1>7. { f[x] : x \in Scored(r, j, C) } = Pairs(score[j], PositionsOf(r, C))
  <2>1. \A x \in Scored(r, j, C) : \E c \in C : x = <<c, Logit(r, j, c)>>
    BY DEF Scored
  <2>2. \A c \in C : <<c, Logit(r, j, c)>> \in Scored(r, j, C)
    BY DEF Scored
  <2>3. \A v : v \in Pairs(score[j], PositionsOf(r, C)) <=>
                 \E c \in C : v = <<GlobalPos(r, c), score[j][GlobalPos(r, c)]>>
    BY DEF Pairs, PositionsOf
  <2>4. \A c \in C : f[<<c, Logit(r, j, c)>>] = <<GlobalPos(r, c), score[j][GlobalPos(r, c)]>>
    BY <1>1, <1>a
  <2> DEFINE A == { f[x] : x \in Scored(r, j, C) }
             B == Pairs(score[j], PositionsOf(r, C))
  <2>5. \A v : v \in A <=> \E x \in Scored(r, j, C) : v = f[x]
    OBVIOUS
  <2> HIDE DEF f, S, V, L, A
  <2>6. ASSUME NEW v PROVE v \in A <=> v \in B
    <3>1. ASSUME v \in A PROVE v \in B
      <4>1. PICK x \in Scored(r, j, C) : v = f[x]
        BY <2>5, <3>1
      <4>2. PICK c \in C : x = <<c, Logit(r, j, c)>>
        BY <2>1
      <4>3. v = <<GlobalPos(r, c), score[j][GlobalPos(r, c)]>>
        BY <2>4, <4>1, <4>2
      <4>4. QED
        BY <2>3, <4>3
    <3>2. ASSUME v \in B PROVE v \in A
      <4>1. PICK c \in C : v = <<GlobalPos(r, c), score[j][GlobalPos(r, c)]>>
        BY <2>3, <3>2
      <4>2. v = f[<<c, Logit(r, j, c)>>]
        BY <2>4, <4>1
      <4>3. QED
        BY <2>2, <2>5, <4>2
    <3>3. QED
      BY <3>1, <3>2
  <2> HIDE DEF B
  <2>7. A = B
    BY <2>6
  <2>8. QED
    BY <2>7 DEF A, B
<1>8. \A x, y \in S : x[1] < y[1] => f[x][1] < f[y][1]
  BY <1>4 DEF Scored
<1> HIDE DEF f
<1>9. IF ties = "lowest" THEN IsStrictTopK(Scored(r, j, C), S, TopK)
                               ELSE IsTopK(Scored(r, j, C), S, TopK)
  BY DEF KernelTopK, LiveCols
<1>10. CASE ties = "lowest"
  <2>1. IsStrictTopK({ f[x] : x \in Scored(r, j, C) }, V, TopK)
    BY <1>5, <1>6, <1>8, <1>9, <1>10, RenamedStrictTopK
  <2>2. Scored2(V)
    BY <1>2, PairsScored DEF PositionsOf, IInv
  <2>3. IsTopK({ f[x] : x \in Scored(r, j, C) }, V, TopK)
    BY <2>1, <2>2, StrictIsTopK
  <2>4. QED
    BY <1>7, <2>1, <2>3
<1>11. CASE ties # "lowest"
  <2>1. IsTopK({ f[x] : x \in Scored(r, j, C) }, V, TopK)
    BY <1>5, <1>6, <1>9, <1>11, RenamedTopK
  <2>2. QED
    BY <1>7, <1>11, <2>1
<1>12. QED
  BY <1>10, <1>11

\* The lane of candidate c of rank r.
LaneOf(j, r, c) == <<GlobalPos(r, c), score[j][GlobalPos(r, c)], r, c>>

\* The gathered lanes are the candidates of the ranks, with their global positions
\* and scores.
LEMMA LanesAreCandidates ==
  ASSUME IInv, \A r \in Ranks : pc[r] \in Merging, NEW j \in Rows
  PROVE  /\ \A r \in Ranks : cand[r][j] \subseteq Cols
         /\ \A t : t \in Lanes(j) <=> \E r \in Ranks : \E c \in cand[r][j] : t = LaneOf(j, r, c)
<1>1. ASSUME NEW r \in Ranks
      PROVE  /\ cand[r][j] \subseteq Cols
             /\ DOMAIN allpos[j][r] = cand[r][j]
             /\ \A c \in cand[r][j] :
                  /\ allpos[j][r][c] = GlobalPos(r, c)
                  /\ allsc[j][r][c] = score[j][GlobalPos(r, c)]
  <2>1. /\ allpos[j][r] = [c \in cand[r][j] |-> GlobalPos(r, c)]
        /\ allsc[j][r] = [c \in cand[r][j] |-> Logit(r, j, c)]
    BY DEF IInv, PositionsGathered, ScoresGathered
  <2>2. ASSUME NEW c \in cand[r][j]
        PROVE  c \in Cols /\ Logit(r, j, c) = score[j][GlobalPos(r, c)]
    <3>1. cand[r][j] \in KernelTopK(r, j)
      BY DEF IInv, CandidatesLocal
    <3>2. c \in Cols /\ c < lsl[r][j]
      BY <3>1 DEF KernelTopK
    <3>3. QED
      BY <3>2, LiveColumns DEF Merging, Indexed
  <2>3. QED
    BY <2>1, <2>2
<1>2. ASSUME NEW t
      PROVE  t \in Lanes(j) <=>
               \E r \in Ranks : \E c \in DOMAIN allpos[j][r] :
                 t = <<allpos[j][r][c], allsc[j][r][c], r, c>>
  BY DEF Lanes
<1>3. QED
  BY <1>1, <1>2 DEF LaneOf

\* Positions tell the lanes apart, and forgetting where a lane came from leaves the
\* candidates with their positions and scores.
LEMMA LanesRenamed ==
  ASSUME IInv, \A r \in Ranks : pc[r] \in Merging, NEW j \in Rows,
         NEW f, f = [t \in Lanes(j) |-> <<t[1], t[2]>>],
         NEW V, V = UNION { Pairs(score[j], PositionsOf(r, cand[r][j])) : r \in Ranks }
  PROVE  /\ Renaming(f, Lanes(j), V)
         /\ \A t, u \in Lanes(j) : t[1] = u[1] => t = u
         /\ \A t \in Lanes(j) : t[2] = score[j][t[1]]
<1>1. \A v : v \in V <=>
        \E r \in Ranks : \E c \in cand[r][j] : v = <<GlobalPos(r, c), score[j][GlobalPos(r, c)]>>
  <2>1. ASSUME NEW r \in Ranks, NEW v
        PROVE  v \in Pairs(score[j], PositionsOf(r, cand[r][j])) <=>
                 \E c \in cand[r][j] : v = <<GlobalPos(r, c), score[j][GlobalPos(r, c)]>>
    BY DEF Pairs, PositionsOf
  <2>2. QED
    BY <2>1
<1>2. ASSUME NEW t \in Lanes(j)
      PROVE  \E r \in Ranks : \E c \in cand[r][j] :
               /\ c \in Nat /\ t = LaneOf(j, r, c)
               /\ f[t] = <<GlobalPos(r, c), score[j][GlobalPos(r, c)]>>
  <2>1. PICK r \in Ranks : \E c \in cand[r][j] : t = LaneOf(j, r, c)
    BY LanesAreCandidates
  <2>2. PICK c \in cand[r][j] : t = LaneOf(j, r, c)
    BY <2>1
  <2>3. c \in Nat
    BY LanesAreCandidates DEF Cols, Pos
  <2>4. f[t] = <<t[1], t[2]>>
    OBVIOUS
  <2>5. t[1] = GlobalPos(r, c) /\ t[2] = score[j][GlobalPos(r, c)]
    BY <2>2 DEF LaneOf
  <2>6. QED
    BY <2>2, <2>3, <2>4, <2>5
<1>3. ASSUME NEW t \in Lanes(j), NEW u \in Lanes(j), t[1] = u[1] PROVE t = u
  <2>1. PICK r \in Ranks, c \in Nat : t = LaneOf(j, r, c)
    BY <1>2
  <2>2. PICK s \in Ranks, d \in Nat : u = LaneOf(j, s, d)
    BY <1>2
  <2>3. GlobalPos(r, c) = GlobalPos(s, d)
    BY <1>3, <2>1, <2>2 DEF LaneOf
  <2>4. r = s /\ c = d
    BY <2>3, SlotUnique
  <2>5. QED
    BY <2>1, <2>2, <2>4
<1>4. \A t \in Lanes(j) : t[2] = score[j][t[1]]
  BY <1>2 DEF LaneOf
<1>5. \A t \in Lanes(j) : f[t][1] = t[1] /\ f[t][2] = t[2]
  OBVIOUS
<1>6. f \in [Lanes(j) -> V]
  <2>1. \A t \in Lanes(j) : f[t] \in V
    BY <1>1, <1>2
  <2>2. f = [t \in Lanes(j) |-> f[t]]
    OBVIOUS
  <2>3. QED
    BY <2>1, <2>2
<1>7. V = { f[t] : t \in Lanes(j) }
  <2>1. ASSUME NEW v \in V PROVE \E t \in Lanes(j) : v = f[t]
    <3>1. PICK r \in Ranks : \E c \in cand[r][j] :
            v = <<GlobalPos(r, c), score[j][GlobalPos(r, c)]>>
      BY <1>1
    <3>2. PICK c \in cand[r][j] : v = <<GlobalPos(r, c), score[j][GlobalPos(r, c)]>>
      BY <3>1
    <3>3. LaneOf(j, r, c) \in Lanes(j)
      BY LanesAreCandidates
    <3>4. f[LaneOf(j, r, c)] = v
      BY <3>2, <3>3 DEF LaneOf
    <3>5. QED
      BY <3>3, <3>4
  <2>2. \A t \in Lanes(j) : f[t] \in V
    BY <1>6
  <2> HIDE <1>6
  <2>3. QED
    BY <2>1, <2>2
<1>8. \A t, u \in Lanes(j) : f[t] = f[u] => t = u
  BY <1>3, <1>5
<1>9. QED
  BY <1>3, <1>4, <1>5, <1>6, <1>7, <1>8 DEF Renaming

\* The visible positions are the live columns of the ranks, each in one of them.
LEMMA VisibleAreLive ==
  ASSUME IInv, \A r \in Ranks : pc[r] \in Indexed, NEW j \in Rows
  PROVE  /\ 0 .. len + j \in SUBSET Pos
         /\ \A p \in 0 .. len + j :
              LocalIndex(p) \in LiveCols(Owner(p), j) /\ Owner(p) \in Ranks
         /\ \A r \in Ranks : PositionsOf(r, LiveCols(r, j)) \in SUBSET (0 .. len + j)
<1>0. phase # "ready"
  <2>1. 0 \in Ranks
    BY DEF Ranks
  <2>2. pc[0] # "idle"
    BY <2>1 DEF Indexed
  <2>3. QED
    BY <2>1, <2>2 DEF IInv, InStep
<1>1. len + NextN <= MaxLen /\ len \in Nat /\ j \in Nat /\ j < NextN
  BY <1>0 DEF IInv, InStep, TypeOK, Rows
<1>2. 0 .. len + j \in SUBSET Pos
  BY <1>1 DEF Pos
<1>3. ASSUME NEW p \in 0 .. len + j
      PROVE  LocalIndex(p) \in LiveCols(Owner(p), j) /\ Owner(p) \in Ranks
  <2>1. p \in Nat /\ p < SeqLen(j) /\ p < MaxLen
    BY <1>1 DEF SeqLen
  <2>2. /\ Owner(p) \in Ranks /\ LocalIndex(p) \in Nat
        /\ GlobalPos(Owner(p), LocalIndex(p)) = p
    BY <2>1, SlotOf
  <2>3. LocalIndex(p) <= p
    BY <2>2, SlotInverse
  <2>4. LocalIndex(p) \in Cols
    BY <2>1, <2>2, <2>3 DEF Cols, Pos
  <2>5. LocalIndex(p) < lsl[Owner(p)][j]
    BY <2>1, <2>2, <2>4, LiveColumns
  <2>6. QED
    BY <2>2, <2>4, <2>5 DEF LiveCols
<1>4. ASSUME NEW r \in Ranks, NEW c \in LiveCols(r, j) PROVE GlobalPos(r, c) \in 0 .. len + j
  <2>1. c \in Cols /\ c < lsl[r][j]
    BY DEF LiveCols
  <2>2. GlobalPos(r, c) < SeqLen(j)
    BY <2>1, LiveColumns
  <2>3. GlobalPos(r, c) \in Nat
    BY <2>1, SlotInverse DEF Cols, Pos
  <2>4. QED
    BY <1>1, <2>2, <2>3 DEF SeqLen
<1>5. QED
  BY <1>2, <1>3, <1>4 DEF PositionsOf

\* The second selection picks best visible positions; strictly so if the kernel
\* breaks ties by column.
LEMMA MergedSelection ==
  ASSUME IInv, \A r \in Ranks : pc[r] \in Merging, NEW j \in Rows, NEW T \in MergeTopK(j)
  PROVE  /\ PositionsIn(T) \subseteq 0 .. len + j
         /\ \A t, u \in T : t[1] = u[1] => t = u
         /\ IsTopK(Pairs(score[j], PositionsIn(T)), Pairs(score[j], 0 .. len + j), TopK)
         /\ ties = "lowest" =>
              IsStrictTopK(Pairs(score[j], PositionsIn(T)), Pairs(score[j], 0 .. len + j), TopK)
         /\ IsFiniteSet(Lanes(j)) /\ Scored2(Lanes(j))
<1> DEFINE S    == Pairs(score[j], 0 .. len + j)
           part == [r \in Ranks |-> Pairs(score[j], PositionsOf(r, LiveCols(r, j)))]
           C    == [r \in Ranks |-> Pairs(score[j], PositionsOf(r, cand[r][j]))]
           V    == UNION { Pairs(score[j], PositionsOf(r, cand[r][j])) : r \in Ranks }
           f    == [t \in Lanes(j) |-> <<t[1], t[2]>>]
           W    == { f[t] : t \in T }
<1>0. \A r \in Ranks : pc[r] \in Indexed
  BY DEF Merging, Indexed
<1>1. IsFiniteSet(S) /\ Scored2(S)
  BY <1>0, VisibleAreLive, PairsScored DEF IInv
<1>2. \A r \in Ranks : part[r] \in SUBSET S
  <2>1. \A r \in Ranks : PositionsOf(r, LiveCols(r, j)) \in SUBSET (0 .. len + j)
    BY <1>0, VisibleAreLive
  <2>2. QED
    BY <2>1 DEF Pairs
<1>3. S = UNION { part[r] : r \in Ranks }
  <2>1. ASSUME NEW s \in S PROVE \E r \in Ranks : s \in part[r]
    <3>1. PICK p \in 0 .. len + j : s = <<p, score[j][p]>>
      BY DEF Pairs
    <3>2. /\ Owner(p) \in Ranks /\ LocalIndex(p) \in LiveCols(Owner(p), j)
          /\ GlobalPos(Owner(p), LocalIndex(p)) = p
      BY <1>0, VisibleAreLive, SlotOf
    <3>3. p \in PositionsOf(Owner(p), LiveCols(Owner(p), j))
      BY <3>2 DEF PositionsOf
    <3>4. s \in part[Owner(p)]
      BY <3>1, <3>2, <3>3 DEF Pairs
    <3>5. QED
      BY <3>2, <3>4
  <2> HIDE DEF S, part
  <2>2. QED
    BY <1>2, <2>1
<1>4. \A r \in Ranks : /\ IsTopK(C[r], part[r], TopK)
                       /\ ties = "lowest" => IsStrictTopK(C[r], part[r], TopK)
  <2>1. ASSUME NEW r \in Ranks
        PROVE  /\ IsTopK(Pairs(score[j], PositionsOf(r, cand[r][j])),
                         Pairs(score[j], PositionsOf(r, LiveCols(r, j))), TopK)
               /\ ties = "lowest" =>
                    IsStrictTopK(Pairs(score[j], PositionsOf(r, cand[r][j])),
                                 Pairs(score[j], PositionsOf(r, LiveCols(r, j))), TopK)
    <3>1. cand[r][j] \in KernelTopK(r, j)
      BY DEF IInv, CandidatesLocal
    <3>2. QED
      BY <1>0, <3>1, LocalSelection
  <2>2. QED
    BY <2>1
<1>5. \A r \in Ranks : C[r] \in SUBSET S
  <2> HIDE DEF C, part, S
  <2>1. QED
    BY <1>2, <1>4 DEF IsTopK
<1>6. V = UNION { C[r] : r \in Ranks }
  OBVIOUS
<1>7. part \in [Ranks -> SUBSET S] /\ C \in [Ranks -> SUBSET S]
  BY <1>2, <1>5
<1>8. /\ Renaming(f, Lanes(j), V)
      /\ \A t, u \in Lanes(j) : t[1] = u[1] => t = u
      /\ \A t \in Lanes(j) : t[2] = score[j][t[1]]
  BY LanesRenamed
<1>9. T \in SUBSET Lanes(j) /\ IsStrictTopK(T, Lanes(j), TopK)
  BY DEF MergeTopK
<1>10. W = Pairs(score[j], PositionsIn(T))
  <2>1. ASSUME NEW t \in T PROVE f[t] = <<t[1], score[j][t[1]]>>
    <3>1. t \in Lanes(j) /\ t[2] = score[j][t[1]]
      BY <1>8, <1>9
    <3>2. f[t] = <<t[1], t[2]>>
      BY <3>1
    <3>3. QED
      BY <3>1, <3>2
  <2>0. \A v : v \in W <=> \E t \in T : v = f[t]
    OBVIOUS
  <2> HIDE DEF f, W
  <2>2. ASSUME NEW v PROVE v \in W <=> \E t \in T : v = <<t[1], score[j][t[1]]>>
    <3>1. ASSUME v \in W PROVE \E t \in T : v = <<t[1], score[j][t[1]]>>
      <4>1. PICK t \in T : v = f[t]
        BY <2>0, <3>1
      <4>2. v = <<t[1], score[j][t[1]]>>
        BY <2>1, <4>1
      <4>3. QED
        BY <4>2, Zenon
    <3>2. (\E t \in T : v = <<t[1], score[j][t[1]]>>) => v \in W
      BY <2>0, <2>1, Zenon
    <3>3. QED
      BY <3>1, <3>2
  <2>3. \A v : v \in Pairs(score[j], PositionsIn(T)) <=> \E t \in T : v = <<t[1], score[j][t[1]]>>
    BY DEF Pairs, PositionsIn
  <2>4. QED
    BY <2>2, <2>3
<1>11. \A t \in Lanes(j) : f[t][1] = t[1] /\ f[t][2] = t[2]
  OBVIOUS
<1> HIDE DEF S, part, C, V, f, W
<1>12. V \in SUBSET S /\ IsFiniteSet(V)
  BY <1>1, <1>5, <1>6, FS_Subset
<1>13. IsFiniteSet(Lanes(j))
  <2>1. f \in Injection(Lanes(j), V)
    BY <1>8 DEF Renaming, Injection, IsInjective
  <2>2. QED
    BY <1>12, <2>1, FS_Injection
<1>14. Scored2(Lanes(j))
  <2>1. \A t \in Lanes(j) : f[t] \in S
    BY <1>8, <1>12 DEF Renaming
  <2>2. QED
    BY <1>1, <1>11, <2>1 DEF Scored2
<1>15. W = { f[t] : t \in T } /\ \A t, u \in Lanes(j) : t[1] < u[1] => f[t][1] < f[u][1]
  BY <1>11 DEF W
<1>16. IsStrictTopK(W, V, TopK)
  BY <1>8, <1>9, <1>13, <1>14, <1>15, RenamedStrictTopK
<1>17. Scored2(V)
  BY <1>1, <1>12 DEF Scored2
<1>18. IsTopK(W, V, TopK)
  BY <1>16, <1>17, StrictIsTopK
<1>19. IsTopK(W, S, TopK)
  BY <1>1, <1>3, <1>4, <1>6, <1>7, <1>18, UnionTopK
<1>20. ASSUME ties = "lowest" PROVE IsStrictTopK(W, S, TopK)
  <2>1. \A r \in Ranks : IsStrictTopK(C[r], part[r], TopK)
    BY <1>4, <1>20
  <2>2. QED
    BY <1>1, <1>3, <2>1, <1>6, <1>7, <1>16, UnionStrictTopK
<1>21. PositionsIn(T) \subseteq 0 .. len + j
  <2>1. ASSUME NEW t \in T PROVE t[1] \in 0 .. len + j
    <3>1. f[t] \in W /\ t \in Lanes(j)
      BY <1>9, <1>15
    <3>2. f[t] \in S
      BY <1>19, <3>1 DEF IsTopK
    <3>3. f[t][1] \in 0 .. len + j
      BY <3>2 DEF S, Pairs
    <3>4. QED
      BY <1>11, <3>1, <3>3
  <2>2. QED
    BY <2>1 DEF PositionsIn
<1>22. \A t, u \in T : t[1] = u[1] => t = u
  BY <1>8, <1>9
<1>23. QED
  BY <1>10, <1>13, <1>14, <1>19, <1>20, <1>21, <1>22 DEF S

-----------------------------------------------------------------------------
(* What the ranks have selected when they are about to attend.             *)

\* Ranks that have merged the lanes have picked the same ones, of different visible
\* positions that are a selection of them.
LEMMA PickedSelection ==
  ASSUME IInv, NEW r \in Ranks, NEW s \in Ranks, NEW j \in Rows,
         \A q \in Ranks : pc[q] \in Merging, pc[r] = "attend", pc[s] = "attend"
  PROVE  /\ picked[r][j] = picked[s][j]
         /\ PositionsIn(picked[r][j]) \subseteq 0 .. len + j
         /\ \A t, u \in picked[r][j] : t[1] = u[1] => t = u
         /\ IsTopK(Pairs(score[j], PositionsIn(picked[r][j])),
                   Pairs(score[j], 0 .. len + j), TopK)
         /\ ties = "lowest" =>
              IsStrictTopK(Pairs(score[j], PositionsIn(picked[r][j])),
                           Pairs(score[j], 0 .. len + j), TopK)
<1>1. picked[r][j] \in MergeTopK(j) /\ picked[s][j] \in MergeTopK(j)
  BY DEF IInv, Masked
<1>2. IsFiniteSet(Lanes(j)) /\ Scored2(Lanes(j))
  BY <1>1, MergedSelection
<1>3. picked[r][j] = picked[s][j]
  BY <1>1, <1>2, StrictTopKUnique DEF MergeTopK
<1>4. QED
  BY <1>1, <1>3, MergedSelection

\* A selection of scored positions is one in the sense of the abstract
\* specification.
LEMMA SelectionOfSpec ==
  ASSUME TypeOK, NEW j \in Rows, 0 .. len + j \subseteq Pos, NEW S \in SUBSET (0 .. len + j),
         IsTopK(Pairs(score[j], S), Pairs(score[j], 0 .. len + j), TopK)
  PROVE  Sparse!IsSelection(S, j)
<1> DEFINE V == Pairs(score[j], 0 .. len + j)
           T == Pairs(score[j], S)
<1>1. Cardinality(V) = len + j + 1 /\ Cardinality(T) = Cardinality(S)
  <2>1. Cardinality(0 .. len + j) = len + j + 1
    BY FS_Interval DEF TypeOK, Rows
  <2>2. QED
    BY <2>1, PairsScored
<1>2. Cardinality(S) = IF len + j + 1 < TopK THEN len + j + 1 ELSE TopK
  BY <1>1 DEF IsTopK, AtMost
<1>3. ASSUME NEW p \in S, NEW q \in (0 .. len + j) \ S
      PROVE  score[j][q] <= score[j][p]
  <2>1. <<p, score[j][p]>> \in T /\ <<q, score[j][q]>> \in V
    BY DEF Pairs
  <2>2. <<q, score[j][q]>> \notin T
    BY DEF Pairs
  <2>3. <<q, score[j][q]>>[2] <= <<p, score[j][p]>>[2]
    BY <2>1, <2>2 DEF IsTopK
  <2>4. QED
    BY <2>3
<1>4. Sparse!Cardinality(S) = Cardinality(S)
  BY DEF Sparse!Cardinality, Cardinality
<1>5. QED
  BY <1>2, <1>3, <1>4 DEF Sparse!IsSelection, Sparse!Visible

\* The reads of a rank are of the lanes it owns, at their positions.
LEMMA OwnReadsAt ==
  ASSUME NEW T, NEW r, NEW o, o = OwnReads(T, r)
  PROVE  /\ \A t : t \in DOMAIN o <=> t \in T /\ Owner(t[1]) = r
         /\ \A t : t \in DOMAIN o => o[t].pos = t[1] /\ o[t].ver = tok[t[1]]
<1> DEFINE A == { u \in T : Owner(u[1]) = r }
           e(t) == [pos |-> t[1], ver |-> tok[t[1]]]
<1>1. o = [t \in A |-> e(t)]
  BY DEF OwnReads
<1>2. \A t : t \in A <=> t \in T /\ Owner(t[1]) = r
  OBVIOUS
<1>3. \A t : e(t).pos = t[1] /\ e(t).ver = tok[t[1]]
  OBVIOUS
<1> HIDE DEF A, e
<1>4. DOMAIN o = A /\ \A t \in A : o[t] = e(t)
  BY <1>1
<1>5. QED
  BY <1>2, <1>3, <1>4

\* What rank r attends to are the live keys of the picked positions it owns.
LEMMA ReadsOwned ==
  ASSUME IInv, NEW r \in Ranks, pc[r] = "attend", NEW j \in Rows,
         \A q \in Ranks : pc[q] \in Merging
  PROVE  Reads(r, j) = OwnReads(picked[r][j], r)
<1>1. PositionsIn(picked[r][j]) \subseteq 0 .. len + j
  BY PickedSelection
<1> DEFINE mine == { u \in picked[r][j] : Owner(u[1]) = r }
<1>2. ASSUME NEW t \in mine
      PROVE  kv[r][LocalIndex(t[1])] = [pos |-> t[1], ver |-> tok[t[1]]]
  <2>1. t[1] \in 0 .. len + j
    BY <1>1 DEF PositionsIn
  <2>2. /\ LocalIndex(t[1]) \in LiveCols(r, j) /\ GlobalPos(r, LocalIndex(t[1])) = t[1]
        /\ t[1] \in Nat
    BY <2>1, VisibleAreLive, SlotOf DEF Merging, Indexed
  <2>3. LocalIndex(t[1]) \in Cols /\ LocalIndex(t[1]) < lsl[r][j]
    BY <2>2 DEF LiveCols
  <2>4. QED
    BY <2>2, <2>3, LiveColumns DEF Indexed
<1>3. mine = { u \in picked[r][j] : Owner(u[1]) = r /\ u[1] >= 0 }
  <2>1. \A u \in picked[r][j] : u[1] >= 0
    BY <1>1 DEF PositionsIn
  <2>2. QED
    BY <2>1
<1>4. idx[r][j] = [t \in mine |-> LocalIndex(t[1])]
  <2>1. idx[r][j] = OwnedLanes(picked[r][j], r)
    BY DEF IInv, Masked
  <2>2. QED
    BY <1>3, <2>1 DEF OwnedLanes
<1>5. Reads(r, j) = [t \in mine |-> kv[r][LocalIndex(t[1])]]
  <2> HIDE DEF mine
  <2>1. QED
    BY <1>4 DEF Reads
<1>6. QED
  BY <1>2, <1>5 DEF OwnReads

\* The initial state has its types and runs no step.
LEMMA TypeInit == Init => TypeOK /\ InStep
<1> SUFFICES ASSUME Init PROVE TypeOK /\ InStep
  OBVIOUS
<1>1. \A j \in Rows, r \in Ranks : /\ allsc[j][r] = <<>> /\ allpos[j][r] = <<>>
                                  /\ idx[r][j] = <<>> /\ out[j][r] = <<>>
  BY DEF Init, NoLanes, NoIndex
<1>2. \A T : IsLanes(<<>>, T) /\ IsOfLanes(<<>>, T)
  BY DEF IsLanes, IsOfLanes
<1>3. [pos |-> 0, ver |-> 0] \in Entry
  BY DEF Entry, Pos
<1>4. QED
  BY <1>1, <1>2, <1>3 DEF Init, TypeOK, InStep, NoTensor, PCs, Cols

\* Every step keeps the types, and the collectives keep the ranks together.
LEMMA TypeStep == IInv /\ [Next]_vars => TypeOK' /\ InStep'
<1> SUFFICES ASSUME TypeOK, InStep, IInv, [Next]_vars PROVE TypeOK' /\ InStep'
  BY DEF IInv
<1> USE DEF Scoring, Merging
<1>1. CASE Admit
  <2>1. PICK n \in 0 .. MaxLen :
          /\ len' = n
          /\ tok' = Renew(0 .. n - 1)
          /\ kv' = [r \in Ranks |-> WriteKeys(r, 0 .. n - 1, tok')]
    BY <1>1 DEF Admit
  <2>2. 0 .. n - 1 \in SUBSET Pos
    BY DEF Pos
  <2>3. tok' \in [Pos -> 0 .. Versions - 1]
    BY <2>1, RenewType
  <2>4. kv' \in [Ranks -> [Cols -> Entry]]
    BY <2>1, <2>2, <2>3, WriteKeysType
  <2>5. QED
    BY <1>1, <2>1, <2>3, <2>4 DEF Admit, TypeOK, InStep, stepVars
<1>2. CASE IssueStep
  <2>1. tok' \in [Pos -> 0 .. Versions - 1]
    BY <1>2, RenewType DEF IssueStep
  <2>2. score' \in [Rows -> [Pos -> Scores]]
    <3>1. PICK s \in [Rows -> RowScores] :
            score' = [j \in Rows |-> [p \in Pos |-> IF p < SeqLen(j) THEN s[j][p] ELSE StaleScore]]
      BY <1>2 DEF IssueStep
    <3>2. ASSUME NEW j \in Rows, NEW p \in Pos, p < SeqLen(j) PROVE s[j][p] \in Scores
      BY DEF Pos
    <3>3. QED
      BY <3>1, <3>2
  <2>3. QED
    BY <1>2, <2>1, <2>2 DEF IssueStep, TypeOK, InStep, stepVars, PCs
<1>3. CASE Accept
  <2>1. \A j \in Rows, r \in Ranks : idx'[r][j] = <<>> /\ out'[j][r] = <<>>
    BY <1>3 DEF Accept, NoIndex
  <2>2. \A T : IsOfLanes(<<>>, T)
    BY DEF IsOfLanes
  <2>3. DOMAIN idx' = Ranks /\ DOMAIN out' = Rows /\ picked' \in [Ranks -> [Rows -> SUBSET Lane]]
    BY <1>3 DEF Accept, NoTensor
  <2>4. QED
    BY <1>3, <2>1, <2>2, <2>3 DEF Accept, TypeOK, InStep
<1>4. CASE AllGatherScores
  <2>1. \A j \in Rows, r \in Ranks : IsLanes(allsc'[j][r], Scores)
    BY <1>4, LogitType DEF AllGatherScores, IsLanes, TypeOK
  <2>2. QED
    BY <1>4, <2>1 DEF AllGatherScores, TypeOK, InStep, PCs, Ranks
<1>5. CASE AllGatherPositions
  <2>a. \A r \in Ranks, c \in Cols : GlobalPos(r, c) \in Nat
    BY SlotInverse DEF Cols, Pos
  <2>1. \A j \in Rows, r \in Ranks : IsLanes(allpos'[j][r], Nat)
    BY <1>5, <2>a DEF AllGatherPositions, IsLanes, TypeOK
  <2>2. QED
    BY <1>5, <2>1 DEF AllGatherPositions, TypeOK, InStep, PCs, Ranks
<1>6. CASE Combine
  <2>a. \A r \in Ranks : pc[r] \in Merging /\ pc[r] = "attend"
    BY <1>6 DEF Combine
  <2>1. ASSUME NEW j \in Rows, NEW r \in Ranks PROVE IsOfLanes(OwnReads(picked[r][j], r), Entry)
    <3>1. PositionsIn(picked[r][j]) \subseteq 0 .. len + j /\ 0 .. len + j \subseteq Pos
      BY <2>a, PickedSelection, VisibleAreLive DEF Merging, Indexed
    <3>2. \A t \in picked[r][j] : t[1] \in Pos /\ t \in Lane
      <4>1. \A t \in picked[r][j] : t[1] \in PositionsIn(picked[r][j])
        BY DEF PositionsIn
      <4>2. picked[r][j] \in SUBSET Lane
        BY DEF TypeOK
      <4>3. QED
        BY <3>1, <4>1, <4>2
    <3>3. \A t \in picked[r][j] : [pos |-> t[1], ver |-> tok[t[1]]] \in Entry
      BY <3>2 DEF TypeOK, Entry
    <3>4. QED
      BY <3>2, <3>3 DEF OwnReads, IsOfLanes
  <2>2. DOMAIN out' = Rows /\ \A j \in Rows, r \in Ranks : IsOfLanes(out'[j][r], Entry)
    <3>1. \A j \in Rows, r \in Ranks : out'[j][r] = OwnReads(picked[r][j], r)
      BY <1>6, <2>a, ReadsOwned DEF Combine
    <3>2. QED
      BY <1>6, <2>1, <3>1 DEF Combine
  <2>3. \A j \in Rows, r \in Ranks : allsc'[j][r] = <<>> /\ allpos'[j][r] = <<>>
    BY <1>6 DEF Combine, NoLanes
  <2>4. \A T : IsLanes(<<>>, T)
    BY DEF IsLanes
  <2>5. cand' \in [Ranks -> [Rows -> SUBSET Cols]] /\ lsl' \in [Ranks -> [Rows -> Nat]]
    BY <1>6 DEF Combine, NoTensor
  <2>c. /\ \A j \in Rows, r \in Ranks :
             IsLanes(allsc'[j][r], Scores) /\ IsLanes(allpos'[j][r], Nat)
        /\ pc' \in [Ranks -> PCs] /\ phase' = "verify"
    BY <1>6, <2>3, <2>4 DEF Combine, PCs
  <2>d. /\ UNCHANGED <<ties, len, tok, score, kv, idx, picked>>
        /\ ties \in {"any", "lowest"} /\ len \in 0 .. MaxLen
        /\ tok \in [Pos -> 0 .. Versions - 1] /\ score \in [Rows -> [Pos -> Scores]]
        /\ kv \in [Ranks -> [Cols -> Entry]] /\ picked \in [Ranks -> [Rows -> SUBSET Lane]]
        /\ DOMAIN idx = Ranks /\ \A j \in Rows, r \in Ranks : IsOfLanes(idx[r][j], Nat)
    BY <1>6 DEF Combine, TypeOK
  <2>6. TypeOK'
    BY <2>2, <2>5, <2>c, <2>d DEF TypeOK
  <2>7. phase = "running"
    <3>1. 0 \in Ranks /\ pc[0] = "attend"
      BY <2>a DEF Ranks
    <3>2. QED
      BY <3>1 DEF InStep
  <2>8. InStep'
    BY <1>6, <2>7 DEF Combine, InStep
  <2>9. QED
    BY <2>6, <2>8
<1>7. ASSUME NEW r \in Ranks, BuildMetadata(r) PROVE TypeOK' /\ InStep'
  <2>0. \A j \in Rows : SeqLen(j) \in Nat
    BY DEF SeqLen, Rows, TypeOK
  <2>1. \A j \in Rows : OwnedCount(SeqLen(j), r) \in Nat
    BY <2>0, OwnedCountExact
  <2>a. [j \in Rows |-> LocalSeqLen(r, j)] \in [Rows -> Nat]
    BY <2>1 DEF LocalSeqLen
  <2>2. lsl' \in [Ranks -> [Rows -> Nat]]
    BY <1>7, <2>a DEF BuildMetadata, TypeOK
  <2>3. pc' \in [Ranks -> PCs]
    BY <1>7 DEF BuildMetadata, TypeOK, PCs
  <2>4. TypeOK'
    BY <1>7, <2>2, <2>3 DEF BuildMetadata, TypeOK
  <2>5. InStep'
    BY <1>7, <2>3 DEF BuildMetadata, TypeOK, InStep
  <2>6. QED
    BY <2>4, <2>5
<1>8. ASSUME NEW r \in Ranks, InsertKeys(r) PROVE TypeOK' /\ InStep'
  <2>1. len .. len + NextN - 1 \in SUBSET Pos
    BY <1>8 DEF InsertKeys, TypeOK, InStep, Pos
  <2>2. WriteKeys(r, len .. len + NextN - 1, tok) \in [Cols -> Entry]
    BY <2>1, WriteKeysType DEF TypeOK
  <2>3. QED
    BY <1>8, <2>2 DEF InsertKeys, TypeOK, InStep, PCs
<1>9. ASSUME NEW r \in Ranks, LocalTopK(r) PROVE TypeOK' /\ InStep'
  <2>1. PICK C \in PerRow([j \in Rows |-> KernelTopK(r, j)]) : cand' = [cand EXCEPT ![r] = C]
    BY <1>9 DEF LocalTopK
  <2>a. C = [j \in Rows |-> C[j]] /\ \A j \in Rows : C[j] \in KernelTopK(r, j)
    BY PerRowChoice
  <2>b. \A j \in Rows : C[j] \in SUBSET Cols
    BY <2>a DEF KernelTopK
  <2>2. C \in [Rows -> SUBSET Cols]
    BY <2>a, <2>b
  <2>3. QED
    BY <1>9, <2>1, <2>2 DEF LocalTopK, TypeOK, InStep, PCs
<1>10. ASSUME NEW r \in Ranks, Merge(r) PROVE TypeOK' /\ InStep'
  <2>1. PICK T \in PerRow([j \in Rows |-> MergeTopK(j)]) :
          /\ picked' = [picked EXCEPT ![r] = T]
          /\ idx' = [idx EXCEPT ![r] = [j \in Rows |-> OwnedLanes(T[j], r)]]
    BY <1>10 DEF Merge
  <2>2. T = [j \in Rows |-> T[j]] /\ \A j \in Rows : T[j] \in MergeTopK(j)
    BY PerRowChoice
  <2>3. ASSUME NEW j \in Rows, NEW t \in T[j] PROVE t \in Lane
    <3>1. t \in Lanes(j)
      BY <2>2 DEF MergeTopK
    <3>2. PICK q \in Ranks : \E c \in DOMAIN allpos[j][q] :
            t = <<allpos[j][q][c], allsc[j][q][c], q, c>>
      BY <3>1 DEF Lanes
    <3>3. PICK c \in DOMAIN allpos[j][q] : t = <<allpos[j][q][c], allsc[j][q][c], q, c>>
      BY <3>2
    <3>4. pc[q] \in Merging
      BY <1>10 DEF Merge, InStep
    <3>5. /\ allpos[j][q] = [d \in cand[q][j] |-> GlobalPos(q, d)]
          /\ allsc[j][q] = [d \in cand[q][j] |-> Logit(q, j, d)]
      BY <3>4 DEF IInv, ScoresGathered, PositionsGathered
    <3>6. c \in DOMAIN allsc[j][q]
      BY <3>3, <3>5
    <3>7. allpos[j][q][c] \in Nat /\ allsc[j][q][c] \in Scores /\ c \in Cols
      BY <3>3, <3>6 DEF TypeOK, IsLanes
    <3>8. QED
      BY <3>3, <3>7 DEF Lane
  <2>4. T \in [Rows -> SUBSET Lane]
    BY <2>2, <2>3
  <2>5. \A j \in Rows : IsOfLanes(OwnedLanes(T[j], r), Nat)
    BY <2>4, OwnedLanesType
  <2>6. picked' \in [Ranks -> [Rows -> SUBSET Lane]]
    BY <2>1, <2>4 DEF TypeOK
  <2>7. DOMAIN idx' = Ranks /\ \A j \in Rows, q \in Ranks : IsOfLanes(idx'[q][j], Nat)
    BY <2>1, <2>5 DEF TypeOK
  <2>8. QED
    BY <1>10, <2>6, <2>7 DEF Merge, TypeOK, InStep, PCs
<1>11. CASE UNCHANGED vars
  BY <1>11 DEF vars, TypeOK, InStep
<1>12. QED
  BY <1>1, <1>2, <1>3, <1>4, <1>5, <1>6, <1>7, <1>8, <1>9, <1>10, <1>11
     DEF Next, Collective, RankStep

-----------------------------------------------------------------------------
(* The shards.                                                             *)

\* The global position of a column is a natural number.
LEMMA PositionNat ==
  ASSUME NEW r \in Ranks, NEW c \in Cols
  PROVE  GlobalPos(r, c) \in Nat
  BY SlotInverse DEF Cols, Pos

\* No step of the scheduler or of a rank leaves a due column without its key:
\* accepting fewer tokens than were inserted, and admitting a sequence over the
\* columns of another, are the cases that matter.
LEMMA ShardsStep == IInv /\ [Next]_vars => ShardsCurrent'
<1> SUFFICES ASSUME IInv, TypeOK, InStep, ShardsCurrent, [Next]_vars,
                    NEW r \in Ranks, NEW c \in Cols, GlobalPos(r, c) < KeysDue(r)'
             PROVE  kv'[r][c] = [pos |-> GlobalPos(r, c), ver |-> tok'[GlobalPos(r, c)]]
  BY DEF IInv, ShardsCurrent
<1> DEFINE g == GlobalPos(r, c)
<1>0. g \in Nat
  BY PositionNat
<1>1. /\ kv[r][c] \in Entry /\ kv \in [Ranks -> [Cols -> Entry]] /\ pc \in [Ranks -> PCs]
      /\ len \in Nat
      /\ g < KeysDue(r) => kv[r][c] = [pos |-> g, ver |-> tok[g]]
  BY DEF TypeOK, ShardsCurrent
<1>2. CASE Admit
  <2>1. PICK n \in 0 .. MaxLen :
          /\ len' = n
          /\ kv' = [q \in Ranks |-> WriteKeys(q, 0 .. n - 1, tok')]
    BY <1>2 DEF Admit
  <2>2. g \in 0 .. n - 1
    BY <1>0, <1>2, <2>1 DEF Admit, KeysDue
  <2>3. QED
    BY <2>1, <2>2 DEF WriteKeys
<1>3. CASE IssueStep
  <2>1. g < len
    BY <1>3 DEF IssueStep, KeysDue
  <2>2. g < KeysDue(r)
    BY <1>3, <2>1 DEF IssueStep, KeysDue
  <2>3. g \in Pos /\ g \notin len .. len + NextN - 1
    BY <1>0, <1>1, <1>3, <2>1 DEF IssueStep, Pos
  <2>4. tok'[g] = tok[g]
    BY <1>3, <2>3 DEF IssueStep, Renew
  <2>5. QED
    BY <1>1, <1>3, <2>2, <2>4 DEF IssueStep
<1>4. CASE Accept
  <2>1. PICK a \in 1 .. NextN : len' = len + a
    BY <1>4 DEF Accept
  <2>2. g < len + NextN
    BY <1>0, <1>1, <1>4, <2>1 DEF Accept, KeysDue
  <2>3. g < KeysDue(r)
    BY <1>4, <2>2 DEF Accept, KeysDue, InStep
  <2>4. QED
    BY <1>1, <1>4, <2>3 DEF Accept
<1>5. CASE AllGatherScores \/ AllGatherPositions
  <2>1. phase' = phase /\ len' = len /\ kv' = kv /\ tok' = tok
    BY <1>5 DEF AllGatherScores, AllGatherPositions
  <2>2. KeysDue(r)' = KeysDue(r)
    BY <1>5, <2>1 DEF KeysDue, AllGatherScores, AllGatherPositions
  <2>3. QED
    BY <1>1, <2>1, <2>2
<1>6. CASE Combine
  <2>1. phase = "running"
    BY <1>6, NAssumption DEF Combine, InStep, Ranks
  <2>2. KeysDue(r)' = KeysDue(r)
    BY <1>6, <2>1 DEF Combine, KeysDue
  <2>3. QED
    BY <1>1, <1>6, <2>2 DEF Combine
<1>7. ASSUME NEW q \in Ranks, BuildMetadata(q) \/ LocalTopK(q) \/ Merge(q)
      PROVE  kv'[r][c] = [pos |-> g, ver |-> tok'[g]]
  <2>1. phase' = phase /\ len' = len /\ kv' = kv /\ tok' = tok
    BY <1>7 DEF BuildMetadata, LocalTopK, Merge
  <2>2. KeysDue(r)' = KeysDue(r)
    BY <1>1, <1>7, <2>1 DEF KeysDue, BuildMetadata, LocalTopK, Merge
  <2>3. QED
    BY <1>1, <2>1, <2>2
<1>8. ASSUME NEW q \in Ranks, InsertKeys(q)
      PROVE  kv'[r][c] = [pos |-> g, ver |-> tok'[g]]
  <2>1. CASE q = r
    <3>1. kv'[r][c] = WriteKeys(r, len .. len + NextN - 1, tok)[c] /\ tok' = tok
      BY <1>1, <1>8, <2>1 DEF InsertKeys
    <3>2. KeysDue(r) = len /\ KeysDue(r)' = len + NextN
      BY <1>1, <1>8, <2>1 DEF InsertKeys, KeysDue, InStep
    <3>3. CASE g \in len .. len + NextN - 1
      BY <3>1, <3>3 DEF WriteKeys
    <3>4. CASE g \notin len .. len + NextN - 1
      <4>1. g < KeysDue(r)
        BY <1>0, <1>1, <3>2, <3>4
      <4>2. QED
        BY <1>1, <3>1, <3>4, <4>1 DEF WriteKeys
    <3>5. QED
      BY <3>3, <3>4
  <2>2. CASE q # r
    <3>1. kv'[r] = kv[r] /\ pc'[r] = pc[r] /\ phase' = phase /\ len' = len /\ tok' = tok
      BY <1>1, <1>8, <2>2 DEF InsertKeys
    <3>2. QED
      BY <1>1, <3>1 DEF KeysDue
  <2>3. QED
    BY <2>1, <2>2
<1>9. CASE UNCHANGED vars
  BY <1>1, <1>9 DEF vars, KeysDue
<1>10. QED
  BY <1>2, <1>3, <1>4, <1>5, <1>6, <1>7, <1>8, <1>9 DEF Next, Collective, RankStep

-----------------------------------------------------------------------------
(* The tensors of the step.                                                *)

\* A rank's kernels see the same as before as long as its shard, its lengths and
\* the step's scores stay.
LEMMA KernelFrame ==
  ASSUME NEW r \in Ranks, NEW j \in Rows,
         kv'[r] = kv[r], lsl'[r] = lsl[r], tok' = tok, score' = score, len' = len,
         ties' = ties
  PROVE  /\ \A c \in Cols : Logit(r, j, c)' = Logit(r, j, c)
         /\ KernelTopK(r, j)' = KernelTopK(r, j)
<1>1. \A c : Logit(r, j, c)' = Logit(r, j, c)
  BY DEF Logit, SeqLen
<1>2. \A C : Scored(r, j, C)' = Scored(r, j, C)
  BY <1>1 DEF Scored
<1>3. QED
  BY <1>1, <1>2 DEF KernelTopK

\* The scheduler's steps find the ranks outside a step, or leave them so.
LEMMA SchedulerIdle ==
  ASSUME InStep, Admit \/ IssueStep \/ Accept \/ Combine, NEW r \in Ranks
  PROVE  pc'[r] \in {"idle", "build"}
  BY DEF InStep, Admit, IssueStep, Accept, Combine

\* No step disturbs the localized lengths of a rank that uses them.
LEMMA LocalizedStep == IInv /\ [Next]_vars => Localized'
<1> SUFFICES ASSUME TypeOK, InStep, Localized, [Next]_vars,
                    NEW r \in Ranks, pc'[r] \notin {"idle", "build"}, NEW j \in Rows
             PROVE  lsl'[r][j] = OwnedCount(SeqLen(j)', r)
  BY DEF IInv, Localized
<1>1. ~(Admit \/ IssueStep \/ Accept \/ Combine)
  BY SchedulerIdle
<1>2. CASE AllGatherScores \/ AllGatherPositions
  BY <1>2 DEF AllGatherScores, AllGatherPositions, Localized, SeqLen
<1>3. ASSUME NEW q \in Ranks, BuildMetadata(q)
      PROVE  lsl'[r][j] = OwnedCount(SeqLen(j)', r)
  <2>1. SeqLen(j)' = SeqLen(j)
    BY <1>3 DEF BuildMetadata, SeqLen
  <2>2. CASE q = r
    BY <1>3, <2>1, <2>2 DEF BuildMetadata, LocalSeqLen, TypeOK
  <2>3. CASE q # r
    BY <1>3, <2>1, <2>3 DEF BuildMetadata, TypeOK, Localized
  <2>4. QED
    BY <2>2, <2>3
<1>4. ASSUME NEW q \in Ranks, InsertKeys(q) \/ LocalTopK(q) \/ Merge(q)
      PROVE  lsl'[r][j] = OwnedCount(SeqLen(j)', r)
  BY <1>4 DEF InsertKeys, LocalTopK, Merge, TypeOK, Localized, SeqLen
<1>5. CASE UNCHANGED vars
  BY <1>5 DEF vars, Localized, SeqLen
<1>6. QED
  BY <1>1, <1>2, <1>3, <1>4, <1>5 DEF Next, Collective, RankStep

Selected == {"gather_scores", "gather_positions", "merge", "attend"}

\* The candidates stay a local selection: nothing a rank's kernels read changes
\* between its own selection and the end of the step.
LEMMA CandidatesStep == IInv /\ [Next]_vars => CandidatesLocal'
<1> SUFFICES ASSUME TypeOK, InStep, CandidatesLocal, [Next]_vars,
                    NEW r \in Ranks, pc'[r] \in Selected, NEW j \in Rows
             PROVE  cand'[r][j] \in KernelTopK(r, j)'
  BY DEF IInv, CandidatesLocal, Selected, Merging
<1> USE DEF Selected
<1>1. ~(Admit \/ IssueStep \/ Accept \/ Combine)
  BY SchedulerIdle
<1>0. pc[r] \in Selected => cand[r][j] \in KernelTopK(r, j)
  BY DEF CandidatesLocal, Merging
<1>2. CASE AllGatherScores \/ AllGatherPositions
  <2>1. /\ kv' = kv /\ lsl' = lsl /\ tok' = tok /\ score' = score /\ len' = len
        /\ ties' = ties /\ cand' = cand /\ pc[r] \in Selected
    BY <1>2 DEF AllGatherScores, AllGatherPositions
  <2>2. QED
    BY <1>0, <2>1, KernelFrame
<1>3. ASSUME NEW q \in Ranks, RankStep(q), q # r \/ Merge(q)
      PROVE  cand'[r][j] \in KernelTopK(r, j)'
  <2>1. /\ kv'[r] = kv[r] /\ lsl'[r] = lsl[r] /\ tok' = tok /\ score' = score /\ len' = len
        /\ ties' = ties /\ cand'[r] = cand[r] /\ pc[r] \in Selected
    BY <1>3 DEF RankStep, BuildMetadata, InsertKeys, LocalTopK, Merge, TypeOK
  <2>2. QED
    BY <1>0, <2>1, KernelFrame
<1>4. CASE BuildMetadata(r) \/ InsertKeys(r)
  BY <1>4 DEF BuildMetadata, InsertKeys, TypeOK
<1>5. CASE LocalTopK(r)
  <2>1. PICK C \in PerRow([i \in Rows |-> KernelTopK(r, i)]) : cand' = [cand EXCEPT ![r] = C]
    BY <1>5 DEF LocalTopK
  <2>2. C[j] \in KernelTopK(r, j)
    BY PerRowChoice
  <2>3. cand'[r][j] = C[j]
    BY <2>1 DEF TypeOK
  <2>4. KernelTopK(r, j)' = KernelTopK(r, j)
    BY <1>5, KernelFrame DEF LocalTopK
  <2>5. QED
    BY <2>2, <2>3, <2>4
<1>6. CASE UNCHANGED vars
  <2>1. /\ kv' = kv /\ lsl' = lsl /\ tok' = tok /\ score' = score /\ len' = len
        /\ ties' = ties /\ cand' = cand /\ pc' = pc
    BY <1>6 DEF vars
  <2>2. QED
    BY <1>0, <2>1, KernelFrame
<1>7. QED
  BY <1>1, <1>2, <1>3, <1>4, <1>5, <1>6 DEF Next, Collective, RankStep

\* Once gathered, the tensors stay what the candidates and the logits were.
LEMMA GatheredStep == IInv /\ [Next]_vars => ScoresGathered' /\ PositionsGathered'
<1> SUFFICES ASSUME IInv, TypeOK, InStep, [Next]_vars, NEW r \in Ranks, NEW j \in Rows
             PROVE  /\ pc'[r] \in {"gather_positions"} \cup Merging =>
                         allsc'[j][r] = [c \in cand'[r][j] |-> Logit(r, j, c)']
                    /\ pc'[r] \in Merging =>
                         allpos'[j][r] = [c \in cand'[r][j] |-> GlobalPos(r, c)]
  BY DEF IInv, ScoresGathered, PositionsGathered
<1> USE DEF Merging
<1>0. /\ pc[r] \in {"gather_positions"} \cup Merging =>
           allsc[j][r] = [c \in cand[r][j] |-> Logit(r, j, c)]
      /\ pc[r] \in Merging => allpos[j][r] = [c \in cand[r][j] |-> GlobalPos(r, c)]
  BY DEF IInv, ScoresGathered, PositionsGathered
<1>1. CASE Admit \/ IssueStep \/ Accept \/ Combine
  BY <1>1, SchedulerIdle
<1>2. CASE AllGatherScores
  <2>1. \A c : Logit(r, j, c)' = Logit(r, j, c)
    BY <1>2 DEF AllGatherScores, Logit, SeqLen
  <2>2. QED
    BY <1>2, <2>1 DEF AllGatherScores
<1>3. CASE AllGatherPositions
  <2>1. \A c : Logit(r, j, c)' = Logit(r, j, c)
    BY <1>3 DEF AllGatherPositions, Logit, SeqLen
  <2>2. QED
    BY <1>0, <1>3, <2>1 DEF AllGatherPositions
<1>4. ASSUME NEW q \in Ranks, RankStep(q)
      PROVE  /\ pc'[r] \in {"gather_positions"} \cup Merging =>
                  allsc'[j][r] = [c \in cand'[r][j] |-> Logit(r, j, c)']
             /\ pc'[r] \in Merging => allpos'[j][r] = [c \in cand'[r][j] |-> GlobalPos(r, c)]
  <2>1. CASE q # r \/ Merge(q)
    <3>1. /\ kv'[r] = kv[r] /\ tok' = tok /\ score' = score /\ len' = len
          /\ cand'[r] = cand[r] /\ allsc' = allsc /\ allpos' = allpos
      BY <1>4, <2>1 DEF RankStep, BuildMetadata, InsertKeys, LocalTopK, Merge, TypeOK
    <3>2. pc[r] = pc'[r] \/ (pc[r] \in Merging /\ pc'[r] \in Merging)
      BY <1>4, <2>1 DEF RankStep, BuildMetadata, InsertKeys, LocalTopK, Merge, TypeOK
    <3>3. \A c : Logit(r, j, c)' = Logit(r, j, c)
      BY <3>1 DEF Logit, SeqLen
    <3>4. QED
      BY <1>0, <3>1, <3>2, <3>3
  <2>2. CASE q = r /\ ~Merge(q)
    BY <1>4, <2>2 DEF RankStep, BuildMetadata, InsertKeys, LocalTopK, TypeOK
  <2>3. QED
    BY <2>1, <2>2
<1>5. CASE UNCHANGED vars
  <2>1. \A c : Logit(r, j, c)' = Logit(r, j, c)
    BY <1>5 DEF vars, Logit, SeqLen
  <2>2. QED
    BY <1>0, <1>5, <2>1 DEF vars
<1>6. QED
  BY <1>1, <1>2, <1>3, <1>4, <1>5 DEF Next, Collective

\* A rank's selection stays one out of the lanes until all ranks have attended.
LEMMA MaskedStep == IInv /\ [Next]_vars => Masked'
<1> SUFFICES ASSUME TypeOK, InStep, Masked, [Next]_vars,
                    NEW r \in Ranks, pc'[r] = "attend", NEW j \in Rows
             PROVE  /\ picked'[r][j] \in MergeTopK(j)'
                    /\ idx'[r][j] = OwnedLanes(picked'[r][j], r)
  BY DEF IInv, Masked
<1>1. ~(Admit \/ IssueStep \/ Accept \/ Combine)
  BY SchedulerIdle
<1>2. ~(AllGatherScores \/ AllGatherPositions)
  BY DEF AllGatherScores, AllGatherPositions
<1>3. ASSUME allsc' = allsc, allpos' = allpos PROVE MergeTopK(j)' = MergeTopK(j)
  BY <1>3 DEF MergeTopK, Lanes
<1>4. ASSUME NEW q \in Ranks, RankStep(q), q # r
      PROVE  /\ picked'[r][j] \in MergeTopK(j)'
             /\ idx'[r][j] = OwnedLanes(picked'[r][j], r)
  <2>1. /\ allsc' = allsc /\ allpos' = allpos /\ picked'[r] = picked[r]
        /\ idx'[r] = idx[r] /\ pc[r] = "attend"
    BY <1>4 DEF RankStep, BuildMetadata, InsertKeys, LocalTopK, Merge, TypeOK
  <2>2. QED
    BY <1>3, <2>1 DEF Masked
<1>5. CASE BuildMetadata(r) \/ InsertKeys(r) \/ LocalTopK(r)
  BY <1>5 DEF BuildMetadata, InsertKeys, LocalTopK, TypeOK
<1>6. CASE Merge(r)
  <2>1. PICK T \in PerRow([i \in Rows |-> MergeTopK(i)]) :
          /\ picked' = [picked EXCEPT ![r] = T]
          /\ idx' = [idx EXCEPT ![r] = [i \in Rows |-> OwnedLanes(T[i], r)]]
    BY <1>6 DEF Merge
  <2>2. T[j] \in MergeTopK(j)
    BY PerRowChoice
  <2>3. picked'[r][j] = T[j]
    BY <2>1 DEF TypeOK
  <2>4. idx'[r][j] = OwnedLanes(picked'[r][j], r)
    BY <2>1, <2>3 DEF TypeOK
  <2>5. MergeTopK(j)' = MergeTopK(j)
    BY <1>3, <1>6 DEF Merge
  <2>6. QED
    BY <2>2, <2>3, <2>4, <2>5
<1>7. CASE UNCHANGED vars
  BY <1>3, <1>7 DEF vars, Masked
<1>8. QED
  BY <1>1, <1>2, <1>4, <1>5, <1>6, <1>7 DEF Next, Collective, RankStep

-----------------------------------------------------------------------------
(* The attention.                                                          *)

\* Combining the ranks' attentions reads one selection, and the result stands
\* until the scheduler has verified the drafts.
LEMMA CombinedStep == IInv /\ [Next]_vars => Combined'
<1> SUFFICES ASSUME IInv, TypeOK, InStep, Combined, [Next]_vars, phase' = "verify"
             PROVE  Combined'
  BY DEF IInv, Combined
<1>1. ~(Admit \/ IssueStep \/ Accept)
  BY DEF Admit, IssueStep, Accept
<1>3. CASE Combine
  <2>1. \A r \in Ranks : pc[r] \in Merging /\ pc[r] = "attend"
    BY <1>3 DEF Combine, Merging
  <2>2. 0 \in Ranks
    BY DEF Ranks
  <2>3. \A j \in Rows :
          /\ PositionsIn(picked[0][j]) \subseteq 0 .. len + j
          /\ \A t, u \in picked[0][j] : t[1] = u[1] => t = u
          /\ IsTopK(Pairs(score[j], PositionsIn(picked[0][j])),
                    Pairs(score[j], 0 .. len + j), TopK)
          /\ ties = "lowest" =>
               IsStrictTopK(Pairs(score[j], PositionsIn(picked[0][j])),
                            Pairs(score[j], 0 .. len + j), TopK)
    BY <2>1, <2>2, PickedSelection
  <2>4. ASSUME NEW j \in Rows, NEW r \in Ranks PROVE out'[j][r] = OwnReads(picked[0][j], r)
    <3>1. out'[j][r] = Reads(r, j)
      BY <1>3 DEF Combine
    <3>2. Reads(r, j) = OwnReads(picked[r][j], r)
      BY <2>1, ReadsOwned
    <3>3. picked[r][j] = picked[0][j]
      BY <2>1, <2>2, PickedSelection
    <3>4. QED
      BY <3>1, <3>2, <3>3
  <2>5. UNCHANGED <<ties, len, score, tok, picked>>
    BY <1>3 DEF Combine
  <2>6. \A T, r : OwnReads(T, r)' = OwnReads(T', r)
    BY <2>5 DEF OwnReads
  <2>7. QED
    BY <2>3, <2>4, <2>5 DEF Combined, OwnReads
<1>4. CASE UNCHANGED <<ties, phase, len, score, tok, picked, out>>
  BY <1>4 DEF Combined, OwnReads
<1>5. CASE AllGatherScores \/ AllGatherPositions \/ (\E r \in Ranks : RankStep(r)) \/ UNCHANGED vars
  <2>1. \A r \in Ranks : Merge(r) => phase = "running" /\ phase' = phase
    BY DEF InStep, Merge
  <2>2. UNCHANGED <<ties, phase, len, score, tok, picked, out>>
    BY <1>5, <2>1 DEF AllGatherScores, AllGatherPositions, RankStep, BuildMetadata, InsertKeys,
                LocalTopK, Merge, vars
  <2>3. QED
    BY <1>4, <2>2
<1>6. QED
  BY <1>1, <1>3, <1>5 DEF Next, Collective

-----------------------------------------------------------------------------
(* The inductive invariant and what follows from it.                       *)

\* Initially the shards owe nothing and no rank is in a step.
LEMMA IInvInit == Init => IInv
<1> SUFFICES ASSUME Init PROVE IInv
  OBVIOUS
<1>1. \A r \in Ranks : pc[r] = "idle"
  BY DEF Init
<1>2. ShardsCurrent
  <2>1. ASSUME NEW r \in Ranks, NEW c \in Cols, GlobalPos(r, c) < KeysDue(r) PROVE FALSE
    BY <2>1, PositionNat DEF Init, KeysDue
  <2>2. QED
    BY <2>1 DEF ShardsCurrent
<1>3. Localized /\ CandidatesLocal /\ ScoresGathered /\ PositionsGathered /\ Masked
  BY <1>1 DEF Localized, CandidatesLocal, ScoresGathered, PositionsGathered, Masked, Merging
<1>4. Combined
  BY DEF Init, Combined
<1>5. QED
  BY <1>2, <1>3, <1>4, TypeInit DEF IInv

\* The invariant is inductive.
LEMMA IInvStep == IInv /\ [Next]_vars => IInv'
  BY TypeStep, ShardsStep, LocalizedStep, CandidatesStep, GatheredStep, MaskedStep,
     CombinedStep DEF IInv

\* In every reachable state each rank's shard, tensors and selection are what its
\* place in the step says.
THEOREM Invariance == Spec => []IInv
  BY IInvInit, IInvStep, PTL DEF Spec

\* Every variable keeps its type: in particular lengths localized by the clamp
\* never go negative and localized indices never leave the shard.
THEOREM TypeCorrect == Spec => []TypeOK
<1>1. IInv => TypeOK
  BY DEF IInv
<1>2. QED
  BY <1>1, Invariance, PTL

\* The ranks pick bit-identical sets without talking to each other after the
\* gathers (PERF2-DECODE-SPEC.md, FIX 2), however the kernel breaks ties.
THEOREM Agreement == Spec => []RankAgreement
<1>1. IInv => RankAgreement
  <2> SUFFICES ASSUME IInv, NEW r \in Ranks, NEW s \in Ranks,
                      pc[r] = "attend", pc[s] = "attend"
               PROVE  picked[r] = picked[s]
    BY DEF RankAgreement
  <2>1. \A q \in Ranks : pc[q] \in Merging
    BY DEF IInv, InStep, Scoring
  <2>2. \A j \in Rows : picked[r][j] = picked[s][j]
    BY <2>1, PickedSelection
  <2>3. picked \in [Ranks -> [Rows -> SUBSET Lane]]
    BY DEF IInv, TypeOK
  <2>4. QED
    BY <2>2, <2>3
<1>2. QED
  BY <1>1, Invariance, PTL

\* Attention reads no key of a rejected draft nor of an evicted sequence, though
\* blocks are never cleared.
THEOREM FreshReads == Spec => []NoStaleRead
<1>1. IInv => NoStaleRead
  <2> SUFFICES ASSUME IInv, phase = "verify", NEW j \in Rows, NEW r \in Ranks,
                      NEW t \in DOMAIN out[j][r]
               PROVE  out[j][r][t].pos < SeqLen(j) /\ out[j][r][t].ver = tok[out[j][r][t].pos]
    BY DEF NoStaleRead
  <2>1. /\ out[j][r] = OwnReads(picked[0][j], r)
        /\ PositionsIn(picked[0][j]) \subseteq 0 .. len + j
    BY DEF IInv, Combined
  <2>2. /\ t \in picked[0][j] /\ out[j][r][t].pos = t[1]
        /\ out[j][r][t].ver = tok[t[1]]
    BY <2>1, OwnReadsAt
  <2>3. t[1] \in PositionsIn(picked[0][j])
    BY <2>2 DEF PositionsIn
  <2>4. t[1] \in 0 .. len + j
    BY <2>1, <2>3
  <2>5. len \in Nat /\ j \in Nat
    BY DEF IInv, TypeOK, Rows
  <2>6. t[1] < SeqLen(j)
    BY <2>4, <2>5 DEF SeqLen
  <2>7. QED
    BY <2>2, <2>6
<1>2. QED
  BY <1>1, Invariance, PTL

\* The combination of the partial attentions counts no position twice.
THEOREM CountedOnceHolds == Spec => []CountedOnce
<1>1. IInv => CountedOnce
  <2> SUFFICES ASSUME IInv, phase = "verify", NEW j \in Rows, NEW r \in Ranks, NEW s \in Ranks,
                      NEW t \in DOMAIN out[j][r], NEW u \in DOMAIN out[j][s],
                      out[j][r][t].pos = out[j][s][u].pos
               PROVE  r = s /\ t = u
    BY DEF CountedOnce
  <2>1. /\ \A q \in Ranks : out[j][q] = OwnReads(picked[0][j], q)
        /\ \A x, y \in picked[0][j] : x[1] = y[1] => x = y
    BY DEF IInv, Combined
  <2>2. t \in picked[0][j] /\ Owner(t[1]) = r /\ out[j][r][t].pos = t[1]
    BY <2>1, OwnReadsAt
  <2>3. u \in picked[0][j] /\ Owner(u[1]) = s /\ out[j][s][u].pos = u[1]
    BY <2>1, OwnReadsAt
  <2>4. QED
    BY <2>1, <2>2, <2>3
<1>2. QED
  BY <1>1, Invariance, PTL

-----------------------------------------------------------------------------
(* Sharded decoding implements sparse decoding.                            *)

\* Reads of the owned parts of a selection are, together, the selection.
LEMMA OwnedParts ==
  ASSUME NEW T, PositionsIn(T) \subseteq Nat, NEW o, \A r \in Ranks : o[r] = OwnReads(T, r)
  PROVE  PositionsRead(o) = PositionsIn(T)
<1>1. ASSUME NEW r \in Ranks
      PROVE  /\ \A t : t \in DOMAIN o[r] <=> t \in T /\ Owner(t[1]) = r
             /\ \A t : t \in DOMAIN o[r] => o[r][t].pos = t[1]
  <2>1. o[r] = OwnReads(T, r)
    OBVIOUS
  <2>2. QED
    BY <2>1, OwnReadsAt
<1>2. \A t \in T : Owner(t[1]) \in Ranks
  BY SlotOf DEF PositionsIn
<1>3. ASSUME NEW p PROVE p \in PositionsRead(o) <=> \E r \in Ranks : \E t \in DOMAIN o[r] : p = o[r][t].pos
  BY DEF PositionsRead
<1>4. ASSUME NEW p PROVE p \in PositionsRead(o) <=> p \in PositionsIn(T)
  BY <1>1, <1>2, <1>3 DEF PositionsIn
<1>5. QED
  BY <1>4

\* A finished step has attended to a selection of the visible positions.
AttendsSelection ==
  phase = "verify" =>
    \A j \in Rows :
      /\ Attended[j] \in SUBSET (0 .. len + j)
      /\ 0 .. len + j \subseteq Pos
      /\ IsTopK(Pairs(score[j], Attended[j]), Pairs(score[j], 0 .. len + j), TopK)
      /\ ties = "lowest" =>
           IsStrictTopK(Pairs(score[j], Attended[j]), Pairs(score[j], 0 .. len + j), TopK)

\* A finished step attended to a selection of each row's visible positions.
LEMMA AttendedSelection == IInv => AttendsSelection
<1> SUFFICES ASSUME IInv, phase = "verify", NEW j \in Rows
             PROVE  /\ Attended[j] \in SUBSET (0 .. len + j)
                    /\ 0 .. len + j \subseteq Pos
                    /\ IsTopK(Pairs(score[j], Attended[j]), Pairs(score[j], 0 .. len + j), TopK)
                    /\ ties = "lowest" =>
                         IsStrictTopK(Pairs(score[j], Attended[j]),
                                      Pairs(score[j], 0 .. len + j), TopK)
  BY DEF AttendsSelection
<1>1. /\ PositionsIn(picked[0][j]) \subseteq 0 .. len + j
      /\ IsTopK(Pairs(score[j], PositionsIn(picked[0][j])), Pairs(score[j], 0 .. len + j), TopK)
      /\ ties = "lowest" =>
           IsStrictTopK(Pairs(score[j], PositionsIn(picked[0][j])),
                        Pairs(score[j], 0 .. len + j), TopK)
      /\ \A r \in Ranks : out[j][r] = OwnReads(picked[0][j], r)
  BY DEF IInv, Combined
<1>2. PositionsIn(picked[0][j]) \subseteq Nat
  BY <1>1
<1>3. Attended[j] = PositionsIn(picked[0][j])
  <2> DEFINE o == out[j]
             T == picked[0][j]
  <2>1. PositionsIn(T) \subseteq Nat /\ \A r \in Ranks : o[r] = OwnReads(T, r)
    BY <1>1, <1>2
  <2> HIDE DEF o, T
  <2>2. PositionsRead(o) = PositionsIn(T)
    BY <2>1, OwnedParts
  <2>3. QED
    BY <2>2 DEF Attended, o, T
<1>4. 0 .. len + j \subseteq Pos
  BY DEF IInv, InStep, TypeOK, Rows, Pos
<1>5. QED
  BY <1>1, <1>3, <1>4

\* When the kernel breaks ties by column, the ranks together attend to the very
\* set a single rank would select under (score desc, position asc).
THEOREM Exactness == Spec => []ExactSelection
<1>1. IInv => ExactSelection
  BY AttendedSelection DEF AttendsSelection, ExactSelection
<1>2. QED
  BY <1>1, Invariance, PTL

\* Nothing is attended to while no result stands.
LEMMA NothingAttended ==
  ASSUME NEW o, \A r \in Ranks : o[r] = <<>>
  PROVE  PositionsRead(o) = {}
  BY DEF PositionsRead

\* An initial state maps to one of the abstract specification.
LEMMA RefinesInit == Init => Sparse!Init
<1> SUFFICES ASSUME Init PROVE Sparse!Init
  OBVIOUS
<1>1. Attended = Sparse!Nothing
  <2>1. \A j \in Rows : PositionsRead(out[j]) = {}
    BY NothingAttended DEF Init
  <2>2. QED
    BY <2>1 DEF Attended, Sparse!Nothing, Sparse!Rows, Rows
<1>2. score \in [Rows -> [Pos -> Scores]]
  BY DEF Init
<1>3. QED
  BY <1>1, <1>2 DEF Init, Sparse!Init, Sparse!Rows, Sparse!Pos, Rows, Pos

\* Every step of the ranks is a step of the abstract specification, or none.
LEMMA RefinesStep ==
  IInv /\ IInv' /\ AttendsSelection' /\ [Next]_vars => [Sparse!Next]_(Sparse!vars)
<1> SUFFICES ASSUME IInv, TypeOK, TypeOK', InStep, AttendsSelection', [Next]_vars
             PROVE  [Sparse!Next]_(Sparse!vars)
  BY DEF IInv
<1> USE DEF Sparse!Rows, Sparse!Pos, Rows, Pos
<1>1. ASSUME out' = out PROVE Attended' = Attended
  BY <1>1 DEF Attended
<1>2. CASE Admit
  <2>1. Sparse!Admit
    BY <1>1, <1>2 DEF Admit, stepVars, Sparse!Admit
  <2>2. QED
    BY <2>1 DEF Sparse!Next
<1>3. CASE IssueStep
  <2>1. score' \in [Rows -> [Pos -> Scores]]
    BY DEF TypeOK
  <2>2. Sparse!Issue
    BY <1>1, <1>3, <2>1 DEF IssueStep, stepVars, Sparse!Issue
  <2>3. QED
    BY <2>2 DEF Sparse!Next
<1>4. CASE Accept
  <2>1. score' \in [Rows -> [Pos -> Scores]]
    BY DEF TypeOK
  <2>2. \A j \in Rows : PositionsRead(out'[j]) = {}
    BY <1>4, NothingAttended DEF Accept
  <2>3. Attended' = Sparse!Nothing
    BY <2>2 DEF Attended, Sparse!Nothing
  <2>4. Sparse!Accept
    BY <1>4, <2>1, <2>3 DEF Accept, Sparse!Accept
  <2>5. QED
    BY <2>4 DEF Sparse!Next
<1>5. CASE Combine
  <2>1. phase = "running"
    <3>1. 0 \in Ranks /\ pc[0] = "attend"
      BY <1>5 DEF Combine, Ranks
    <3>2. QED
      BY <3>1 DEF InStep
  <2>2. ASSUME NEW j \in Rows
        PROVE  Attended'[j] \in SUBSET Pos /\ Sparse!IsSelection(Attended'[j], j)
    <3>1. /\ Attended'[j] \in SUBSET (0 .. len' + j)
          /\ 0 .. len' + j \subseteq Pos
          /\ IsTopK(Pairs(score'[j], Attended'[j]), Pairs(score'[j], 0 .. len' + j), TopK)
      BY <1>5 DEF Combine, AttendsSelection
    <3>2. len' = len /\ score' = score
      BY <1>5 DEF Combine
    <3>3. QED
      BY <3>1, <3>2, SelectionOfSpec
  <2>3. Attended' \in [Rows -> SUBSET Pos]
    BY <2>2 DEF Attended
  <2>4. Sparse!Attend
    BY <1>5, <2>1, <2>2, <2>3 DEF Combine, Sparse!Attend
  <2>5. QED
    BY <2>4 DEF Sparse!Next
<1>6. CASE AllGatherScores \/ AllGatherPositions \/ (\E r \in Ranks : RankStep(r)) \/ UNCHANGED vars
  <2>1. UNCHANGED <<phase, len, score, out>>
    BY <1>6 DEF AllGatherScores, AllGatherPositions, RankStep, BuildMetadata, InsertKeys,
                LocalTopK, Merge, vars
  <2>2. QED
    BY <1>1, <2>1 DEF Sparse!vars
<1>7. QED
  BY <1>2, <1>3, <1>4, <1>5, <1>6 DEF Next, Collective

\* Decode context parallelism is transparent: what N ranks compute with shards,
\* collectives and owned masks is sparse decoding over the whole sequence.
THEOREM Refinement == Spec => RefinesTopKAttention
  BY RefinesInit, RefinesStep, AttendedSelection, Invariance, PTL
  DEF Spec, RefinesTopKAttention, Sparse!Spec

=============================================================================
