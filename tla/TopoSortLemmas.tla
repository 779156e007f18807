--------------------------- MODULE TopoSortLemmas ---------------------------
(***************************************************************************)
(* What the operators of TopoSortOps return, preserve and bound.  The      *)
(* lemmas hold for sorters over any set N of nodes, finite or not.         *)
(***************************************************************************)
EXTENDS TopoSortOps, LinearExtension, FiniteSetTheorems, TLAPS

\* What holds of every sorter between two calls; only together is it
\* inductive: the topological order of the result of a reordering rests on
\* the symmetry of the adjacency maps and on pos being injective.
SorterInv(s, N) ==
  IsSorter(s, N) /\ PosInverts(s) /\ Symmetric(s) /\ Topological(s)

----------------------------------------------------------------------------
(***************************************************************************)
(* Closures                                                                *)
(***************************************************************************)

\* A closure holds its start, is closed, and is contained in every closed
\* set that holds its start (the visited set of forward_dfs, backward_dfs).
LEMMA ClosureIsLeast ==
  ASSUME NEW D, NEW next \in [D -> SUBSET D], NEW a \in D
  PROVE  /\ Closure(a, next) \subseteq D
         /\ a \in Closure(a, next)
         /\ \A x \in Closure(a, next) : next[x] \subseteq Closure(a, next)
         /\ \A S \in SUBSET D : (a \in S /\ \A x \in S : next[x] \subseteq S)
                                   => Closure(a, next) \subseteq S
<1> DEFINE C == Closure(a, next)
<1>1. DOMAIN next = D
  OBVIOUS
<1>2. C = {n \in D : \A S \in SUBSET D :
                        (a \in S /\ \A x \in S : next[x] \subseteq S) => n \in S}
  BY <1>1 DEF Closure
<1>3. C \subseteq D /\ a \in C
  BY <1>2
<1>4. \A S \in SUBSET D : (a \in S /\ \A x \in S : next[x] \subseteq S) => C \subseteq S
  BY <1>2
<1>5. ASSUME NEW x \in C, NEW y \in next[x]
      PROVE  y \in C
  <2>1. x \in D /\ y \in D
    BY <1>3
  <2>2. ASSUME NEW S \in SUBSET D, a \in S, \A z \in S : next[z] \subseteq S
        PROVE  y \in S
    <3>1. x \in S
      BY <2>2, <1>4
    <3>2. QED
      BY <3>1, <2>2
  <2>3. QED
    BY <2>1, <2>2, <1>2
<1>6. QED
  BY <1>3, <1>4, <1>5

----------------------------------------------------------------------------
(***************************************************************************)
(* Sorted sequences of indices                                             *)
(***************************************************************************)

Below(I, x) == {j \in I : j < x}

Rank(I, x) == Cardinality(Below(I, x))

\* The rank of a number in a finite set of numbers grows with the number.
LEMMA RankGrows ==
  ASSUME NEW I \in SUBSET Nat, IsFiniteSet(I)
  PROVE  /\ \A x \in Nat : Rank(I, x) \in Nat
         /\ \A x \in I : Rank(I, x) \in 0 .. Cardinality(I) - 1
         /\ \A x \in I : \A y \in Nat : x < y => Rank(I, x) < Rank(I, y)
         /\ \A x \in Nat : \A y \in Nat : x <= y => Rank(I, x) <= Rank(I, y)
<1>1. ASSUME NEW x \in Nat
      PROVE  /\ Below(I, x) \in SUBSET I
             /\ IsFiniteSet(Below(I, x))
             /\ Rank(I, x) \in Nat
  <2>1. Below(I, x) \in SUBSET I
    BY DEF Below
  <2>2. IsFiniteSet(Below(I, x))
    BY <2>1, FS_Subset
  <2>3. QED
    BY <2>1, <2>2, FS_CardinalityType DEF Rank
<1>2. ASSUME NEW x \in I
      PROVE  /\ x \notin Below(I, x)
             /\ IsFiniteSet(Below(I, x) \cup {x})
             /\ Cardinality(Below(I, x) \cup {x}) = Rank(I, x) + 1
  <2>1. x \notin Below(I, x)
    BY DEF Below
  <2>2. IsFiniteSet(Below(I, x))
    BY <1>1
  <2>3. QED
    BY <2>1, <2>2, FS_AddElement DEF Rank
<1>3. Cardinality(I) \in Nat
  BY FS_CardinalityType
<1>0. \A j \in I : j \in Nat
  OBVIOUS
<1>4. ASSUME NEW x \in I
      PROVE  Rank(I, x) \in 0 .. Cardinality(I) - 1
  <2>1. Below(I, x) \cup {x} \in SUBSET I
    BY DEF Below
  <2>2. Cardinality(Below(I, x) \cup {x}) <= Cardinality(I)
    BY <2>1, FS_Subset
  <2>3. x \in Nat
    BY <1>0
  <2>4. Rank(I, x) \in Nat
    BY <2>3, <1>1
  <2>5. Rank(I, x) + 1 <= Cardinality(I)
    BY <2>2, <1>2
  <2>6. QED
    BY <2>4, <2>5, <1>3
<1>5. ASSUME NEW x \in I, NEW y \in Nat, x < y
      PROVE  Rank(I, x) < Rank(I, y)
  <2>1. x \in Nat
    BY <1>0
  <2>2. \A j \in Nat : j < x => j < y
    BY <2>1, <1>5
  <2>3. Below(I, x) \cup {x} \in SUBSET Below(I, y)
    BY <2>2, <1>0, <1>5 DEF Below
  <2>4. Cardinality(Below(I, x) \cup {x}) <= Rank(I, y)
    BY <2>3, <1>1, FS_Subset DEF Rank
  <2>5. Rank(I, x) + 1 <= Rank(I, y)
    BY <2>4, <1>2
  <2>6. Rank(I, x) \in Nat /\ Rank(I, y) \in Nat
    BY <1>1, <2>1
  <2>7. QED
    BY <2>5, <2>6
<1>6. ASSUME NEW x \in Nat, NEW y \in Nat, x <= y
      PROVE  Rank(I, x) <= Rank(I, y)
  <2>1. \A j \in Nat : j < x => j < y
    BY <1>6
  <2>2. Below(I, x) \in SUBSET Below(I, y)
    BY <2>1, <1>0 DEF Below
  <2>3. QED
    BY <2>2, <1>1, FS_Subset DEF Rank
<1>7. QED
  BY <1>1, <1>4, <1>5, <1>6

\* SortedSeq(I) lists every member of I once, in increasing order, each at
\* its rank (what std::sort leaves in a vector of distinct indices).
LEMMA SortedSeqSorts ==
  ASSUME NEW I \in SUBSET Nat, IsFiniteSet(I)
  PROVE  /\ Cardinality(I) \in Nat
         /\ SortedSeq(I) \in [1 .. Cardinality(I) -> I]
         /\ \A k \in 1 .. Cardinality(I) : Rank(I, SortedSeq(I)[k]) = k - 1
         /\ \A k, l \in 1 .. Cardinality(I) :
               k < l <=> SortedSeq(I)[k] < SortedSeq(I)[l]
         /\ \A i \in I : \E k \in 1 .. Cardinality(I) : SortedSeq(I)[k] = i
<1> DEFINE n == Cardinality(I)
           rank == [i \in I |-> Rank(I, i)]
           sq == SortedSeq(I)
<1>1. n \in Nat
  BY FS_CardinalityType
<1>2. rank \in [I -> 0 .. n - 1]
  BY RankGrows
<1>3. \A i, j \in I : rank[i] = rank[j] => i = j
  BY RankGrows
<1>4. rank \in Injection(I, 0 .. n - 1)
  BY <1>2, <1>3 DEF Injection, IsInjective
<1>5. IsFiniteSet(0 .. n - 1) /\ Cardinality(0 .. n - 1) = n
  <2>1. 0 \in Int /\ n - 1 \in Int
    BY <1>1
  <2>2. /\ IsFiniteSet(0 .. n - 1)
        /\ Cardinality(0 .. n - 1) = IF 0 > n - 1 THEN 0 ELSE n - 1 - 0 + 1
    BY <2>1, FS_Interval
  <2>3. (IF 0 > n - 1 THEN 0 ELSE n - 1 - 0 + 1) = n
    BY <1>1
  <2>4. QED
    BY <2>2, <2>3
<1>6. rank \in Surjection(I, 0 .. n - 1)
  BY <1>4, <1>5, FS_Injection
<1>7. \A r \in 0 .. n - 1 : \E i \in I : rank[i] = r
  BY <1>6 DEF Surjection
<1>8. ASSUME NEW k \in 1 .. n
      PROVE  sq[k] \in I /\ Rank(I, sq[k]) = k - 1
  <2>1. k - 1 \in 0 .. n - 1
    BY <1>1
  <2>2. \E i \in I : Cardinality({j \in I : j < i}) = k - 1
    BY <2>1, <1>7 DEF Rank, Below
  <2>3. sq[k] = CHOOSE i \in I : Cardinality({j \in I : j < i}) = k - 1
    BY DEF SortedSeq
  <2>4. QED
    BY <2>2, <2>3 DEF Rank, Below
<1>9. sq \in [1 .. n -> I]
  BY <1>8 DEF SortedSeq
<1>10. \A i \in I : i \in Nat
  OBVIOUS
<1>11. ASSUME NEW k \in 1 .. n, NEW l \in 1 .. n
       PROVE  k < l <=> sq[k] < sq[l]
  <2>1. sq[k] \in I /\ sq[l] \in I /\ sq[k] \in Nat /\ sq[l] \in Nat
    BY <1>8, <1>10
  <2>2. sq[k] < sq[l] => k - 1 < l - 1
    BY <2>1, <1>8, RankGrows
  <2>3. sq[l] <= sq[k] => l - 1 <= k - 1
    BY <2>1, <1>8, RankGrows
  <2>4. QED
    BY <2>1, <2>2, <2>3, <1>1
<1>12. ASSUME NEW i \in I
       PROVE  \E k \in 1 .. n : sq[k] = i
  <2>1. rank[i] \in 0 .. n - 1
    BY <1>2
  <2> DEFINE k == rank[i] + 1
  <2>2. k \in 1 .. n /\ k - 1 = rank[i]
    BY <2>1, <1>1
  <2>3. sq[k] \in I /\ rank[sq[k]] = rank[i]
    BY <2>2, <1>8
  <2>4. QED
    BY <2>2, <2>3, <1>3
<1>13. QED
  BY <1>1, <1>8, <1>9, <1>11, <1>12

\* Merging two disjoint sets A, B of indices and dealing out the sorted union
\* to the sorted members of A first, then to those of B, moves no member of A
\* up and no member of B down (all_indices in reorder).
LEMMA MergeMoves ==
  ASSUME NEW A \in SUBSET Nat, NEW B \in SUBSET Nat,
         IsFiniteSet(A), IsFiniteSet(B), A \cap B = {}
  PROVE  /\ IsFiniteSet(A \cup B)
         /\ Cardinality(A \cup B) = Cardinality(A) + Cardinality(B)
         /\ \A k \in 1 .. Cardinality(A) : SortedSeq(A \cup B)[k] <= SortedSeq(A)[k]
         /\ \A k \in 1 .. Cardinality(B) :
               SortedSeq(B)[k] <= SortedSeq(A \cup B)[Cardinality(A) + k]
<1> DEFINE I == A \cup B
           na == Cardinality(A)
           nb == Cardinality(B)
<1>1. na \in Nat /\ nb \in Nat
  BY FS_CardinalityType
<1>2. IsFiniteSet(I) /\ Cardinality(I) = na + nb
  <2>1. Cardinality(A \cap B) = 0
    BY FS_EmptySet
  <2>2. IsFiniteSet(I) /\ Cardinality(I) = na + nb - Cardinality(A \cap B)
    BY FS_Union
  <2> HIDE DEF na, nb
  <2>3. na + nb - 0 = na + nb
    BY <1>1
  <2>4. QED
    BY <2>1, <2>2, <2>3
<1>3. I \in SUBSET Nat
  OBVIOUS
<1> HIDE DEF I, na, nb
<1>4. ASSUME NEW x \in Nat
      PROVE  Rank(A, x) <= Rank(I, x)
  <2>1. Below(A, x) \in SUBSET Below(I, x)
    BY DEF Below, I
  <2>2. Below(I, x) \in SUBSET I
    BY DEF Below
  <2>3. IsFiniteSet(Below(I, x))
    BY <2>2, <1>2, FS_Subset
  <2>4. QED
    BY <2>1, <2>3, FS_Subset DEF Rank
<1>5. ASSUME NEW x \in Nat
      PROVE  Rank(I, x) <= Rank(B, x) + na
  <2>1. Below(I, x) \in SUBSET (Below(B, x) \cup A)
    BY DEF Below, I
  <2>2. Below(B, x) \in SUBSET B
    BY DEF Below
  <2>3. IsFiniteSet(Below(B, x))
    BY <2>2, FS_Subset
  <2>4. /\ IsFiniteSet(Below(B, x) \cup A)
        /\ Cardinality(Below(B, x) \cup A)
             = Rank(B, x) + na - Cardinality(Below(B, x) \cap A)
    BY <2>3, FS_Union DEF Rank, na
  <2>5. Cardinality(Below(B, x) \cap A) = 0
    <3>1. Below(B, x) \cap A = {}
      BY DEF Below
    <3>2. QED
      BY <3>1, FS_EmptySet
  <2>6. Rank(I, x) <= Cardinality(Below(B, x) \cup A)
    BY <2>1, <2>4, FS_Subset DEF Rank
  <2>7. Rank(B, x) \in Nat /\ Rank(I, x) \in Nat
    BY RankGrows, <1>2, <1>3
  <2>8. QED
    BY <2>4, <2>5, <2>6, <2>7, <1>1
<1>6. ASSUME NEW k \in 1 .. na
      PROVE  SortedSeq(I)[k] <= SortedSeq(A)[k]
  <2> DEFINE x == SortedSeq(A)[k]
             y == SortedSeq(I)[k]
  <2>1. x \in A /\ x \in Nat /\ Rank(A, x) = k - 1
    BY SortedSeqSorts DEF na
  <2>2. k \in 1 .. na + nb
    BY <1>1
  <2>3. y \in I /\ y \in Nat /\ Rank(I, y) = k - 1
    BY <2>2, <1>2, <1>3, SortedSeqSorts
  <2>4. k - 1 <= Rank(I, x)
    BY <2>1, <1>4
  <2>5. x \in I
    BY <2>1 DEF I
  <2>6. x < y => Rank(I, x) < Rank(I, y)
    BY <2>1, <2>3, <2>5, <1>2, <1>3, RankGrows
  <2>7. Rank(I, x) \in Nat
    BY <2>1, <1>2, <1>3, RankGrows
  <2>8. QED
    BY <2>1, <2>3, <2>4, <2>6, <2>7
<1>7. ASSUME NEW k \in 1 .. nb
      PROVE  SortedSeq(B)[k] <= SortedSeq(I)[na + k]
  <2> DEFINE x == SortedSeq(B)[k]
             y == SortedSeq(I)[na + k]
  <2>1. x \in B /\ x \in Nat /\ Rank(B, x) = k - 1
    BY SortedSeqSorts DEF nb
  <2>2. na + k \in 1 .. na + nb
    BY <1>1
  <2>3. y \in I /\ y \in Nat /\ Rank(I, y) = na + k - 1
    <3>1. /\ SortedSeq(I) \in [1 .. na + nb -> I]
          /\ \A l \in 1 .. na + nb : Rank(I, SortedSeq(I)[l]) = l - 1
      BY <1>2, <1>3, SortedSeqSorts
    <3>2. y \in I
      BY <3>1, <2>2
    <3>3. y \in Nat
      BY <3>2, <1>3
    <3>4. Rank(I, y) = (na + k) - 1
      BY <3>1, <2>2
    <3>5. QED
      BY <3>2, <3>3, <3>4, <1>1
  <2>4. Rank(I, x) <= k - 1 + na
    BY <2>1, <1>5
  <2>6. y < x => Rank(I, y) < Rank(I, x)
    BY <2>1, <2>3, <1>2, <1>3, RankGrows
  <2>7. Rank(I, x) \in Nat
    BY <2>1, <1>2, <1>3, RankGrows
  <2>8. QED
    BY <2>1, <2>3, <2>4, <2>6, <2>7, <1>1
<1>8. QED
  BY <1>2, <1>6, <1>7 DEF I, na, nb

----------------------------------------------------------------------------
(***************************************************************************)
(* The operations that do not reorder                                      *)
(***************************************************************************)

\* The number of nodes is the length of sortOrder, and positions are distinct.
LEMMA PosInjective ==
  ASSUME NEW N, NEW s, IsSorter(s, N), PosInverts(s)
  PROVE  /\ Len(s.sortOrder) \in Nat
         /\ DOMAIN s.sortOrder = 1 .. Len(s.sortOrder)
         /\ \A m, n \in Nodes(s) : s.pos[m] = s.pos[n] => m = n
BY DEF IsSorter, PosInverts

\* A new sorter has no nodes, so every part holds of it.
LEMMA EmptySorterInv ==
  ASSUME NEW N
  PROVE  SorterInv(EmptySorter, N) /\ Nodes(EmptySorter) = {}
<1> DEFINE s == EmptySorter
<1>1. /\ s.sortOrder = << >> /\ s.hasDirtyBit = FALSE
      /\ s.pos = EmptyMap /\ s.inAdj = EmptyMap /\ s.outAdj = EmptyMap
      /\ s = [sortOrder |-> s.sortOrder, hasDirtyBit |-> s.hasDirtyBit,
              pos |-> s.pos, inAdj |-> s.inAdj, outAdj |-> s.outAdj]
  BY DEF EmptySorter
<1> HIDE DEF s
<1>2. Nodes(s) = {}
  BY <1>1 DEF Nodes, EmptyMap
<1>3. IsSorter(s, N)
  <2>1. /\ EmptyMap \in [{} -> Nat]
        /\ EmptyMap \in [{} -> SUBSET {}]
    BY DEF EmptyMap
  <2>2. << >> \in Seq(N)
    OBVIOUS
  <2>3. QED
    BY <2>1, <2>2, <1>1, <1>2 DEF IsSorter
<1>4. PosInverts(s) /\ Symmetric(s) /\ Topological(s)
  BY <1>1, <1>2 DEF PosInverts, Symmetric, Topological
<1>5. QED
  BY <1>2, <1>3, <1>4 DEF SorterInv, s

\* AddNode keeps a sorter a sorter and the edges as they were.
LEMMA AddNodeInv ==
  ASSUME NEW N, NEW s, SorterInv(s, N), NEW u \in N
  PROVE  /\ SorterInv(AddNode(s, u), N)
         /\ Nodes(AddNode(s, u)) = Nodes(s) \cup {u}
         /\ \A m, n \in Nodes(AddNode(s, u)) :
               n \in AddNode(s, u).outAdj[m] <=> (m \in Nodes(s) /\ n \in s.outAdj[m])
<1> DEFINE t == AddNode(s, u)
<1>1. CASE u \in Nodes(s)
  <2>1. t = s
    BY <1>1 DEF AddNode
  <2>2. QED
    BY <2>1, <1>1
<1>2. CASE u \notin Nodes(s)
  <2>0. /\ s.sortOrder \in Seq(N) /\ Nodes(s) \subseteq N
        /\ s.pos \in [Nodes(s) -> Nat]
        /\ s.inAdj \in [Nodes(s) -> SUBSET Nodes(s)]
        /\ s.outAdj \in [Nodes(s) -> SUBSET Nodes(s)]
    BY DEF SorterInv, IsSorter
  <2> DEFINE M == Nodes(s) \cup {u}
             len == Len(s.sortOrder)
  <2>1. /\ t = [sortOrder |-> t.sortOrder, hasDirtyBit |-> t.hasDirtyBit,
                pos |-> t.pos, inAdj |-> t.inAdj, outAdj |-> t.outAdj]
        /\ t.hasDirtyBit = TRUE
        /\ t.sortOrder = Append(s.sortOrder, u)
        /\ t.pos = [n \in M |-> IF n = u THEN len + 1 ELSE s.pos[n]]
        /\ t.inAdj = [n \in M |-> IF n = u THEN {} ELSE s.inAdj[n]]
        /\ t.outAdj = [n \in M |-> IF n = u THEN {} ELSE s.outAdj[n]]
    BY <1>2 DEF AddNode
  <2>2. Nodes(t) = M
    BY <2>1 DEF Nodes
  <2> HIDE DEF t
  <2>3. len \in Nat
    BY <2>0
  <2>4. IsSorter(t, N)
    <3>1. t.sortOrder \in Seq(N)
      BY <2>0, <2>1
    <3>2. t.pos \in [M -> Nat]
      BY <2>0, <2>1, <2>3
    <3>3. t.inAdj \in [M -> SUBSET M] /\ t.outAdj \in [M -> SUBSET M]
      BY <2>0, <2>1
    <3>4. M \subseteq N
      BY <2>0
    <3>5. QED
      BY <2>1, <2>2, <3>1, <3>2, <3>3, <3>4 DEF IsSorter
  <2>5. PosInverts(t)
    <3>1. /\ DOMAIN s.sortOrder = 1 .. len
          /\ DOMAIN t.sortOrder = 1 .. len + 1
          /\ \A i \in 1 .. len : t.sortOrder[i] = s.sortOrder[i]
          /\ t.sortOrder[len + 1] = u
      BY <2>0, <2>1
    <3>2. /\ \A n \in Nodes(s) : s.pos[n] \in 1 .. len /\ s.sortOrder[s.pos[n]] = n
          /\ \A i \in 1 .. len : s.sortOrder[i] \in Nodes(s) /\ s.pos[s.sortOrder[i]] = i
      BY <3>1 DEF SorterInv, PosInverts
    <3>3. \A i \in 1 .. len + 1 : i \in 1 .. len \/ i = len + 1
      BY <2>3
    <3>4. ASSUME NEW n \in M
          PROVE  t.pos[n] \in 1 .. len + 1 /\ t.sortOrder[t.pos[n]] = n
      BY <3>1, <3>2, <2>1, <2>3, <1>2
    <3>5. ASSUME NEW i \in 1 .. len + 1
          PROVE  t.sortOrder[i] \in M /\ t.pos[t.sortOrder[i]] = i
      <4>1. CASE i \in 1 .. len
        BY <4>1, <3>1, <3>2, <2>1, <1>2
      <4>2. CASE i = len + 1
        BY <4>2, <3>1, <2>1
      <4>3. QED
        BY <4>1, <4>2, <3>3
    <3>6. QED
      BY <3>1, <3>4, <3>5, <2>2 DEF PosInverts
  <2>6. \A m, n \in M : n \in t.outAdj[m] <=> (m \in Nodes(s) /\ n \in s.outAdj[m])
    BY <2>0, <2>1, <1>2
  <2>7. \A m, n \in M : n \in t.inAdj[m] <=> (m \in Nodes(s) /\ n \in s.inAdj[m])
    BY <2>0, <2>1, <1>2
  <2>8. Symmetric(t)
    BY <2>0, <2>2, <2>6, <2>7 DEF SorterInv, Symmetric
  <2>9. Topological(t)
    <3>1. ASSUME NEW m \in M, NEW n \in t.outAdj[m]
          PROVE  t.pos[m] < t.pos[n]
      <4>1. m \in Nodes(s) /\ n \in s.outAdj[m] /\ n \in Nodes(s)
        BY <2>0, <2>1, <1>2
      <4>2. s.pos[m] < s.pos[n]
        BY <4>1 DEF SorterInv, Topological
      <4>3. QED
        BY <4>1, <4>2, <2>1, <1>2
    <3>2. QED
      BY <3>1, <2>2 DEF Topological
  <2>10. QED
    BY <2>2, <2>4, <2>5, <2>6, <2>8, <2>9 DEF SorterInv, t
<1>3. QED
  BY <1>1, <1>2

\* RemoveEdge forgets the edge on both sides and nothing else.
LEMMA RemoveEdgeInv ==
  ASSUME NEW N, NEW s, SorterInv(s, N), NEW u, NEW v
  PROVE  /\ SorterInv(RemoveEdge(s, u, v), N)
         /\ Nodes(RemoveEdge(s, u, v)) = Nodes(s)
         /\ RemoveEdge(s, u, v).sortOrder = s.sortOrder
         /\ \A m, n \in Nodes(s) :
               n \in RemoveEdge(s, u, v).outAdj[m]
                 <=> (n \in s.outAdj[m] /\ ~ (m = u /\ n = v))
<1> DEFINE t == RemoveEdge(s, u, v)
<1>0. /\ s = [sortOrder |-> s.sortOrder, hasDirtyBit |-> s.hasDirtyBit,
              pos |-> s.pos, inAdj |-> s.inAdj, outAdj |-> s.outAdj]
      /\ s.sortOrder \in Seq(N) /\ Nodes(s) \subseteq N
      /\ s.pos \in [Nodes(s) -> Nat]
      /\ s.inAdj \in [Nodes(s) -> SUBSET Nodes(s)]
      /\ s.outAdj \in [Nodes(s) -> SUBSET Nodes(s)]
  BY DEF SorterInv, IsSorter
<1>1. /\ t = [sortOrder |-> t.sortOrder, hasDirtyBit |-> t.hasDirtyBit,
              pos |-> t.pos, inAdj |-> t.inAdj, outAdj |-> t.outAdj]
      /\ t.sortOrder = s.sortOrder /\ t.hasDirtyBit = s.hasDirtyBit /\ t.pos = s.pos
      /\ t.inAdj = [n \in Nodes(s) |-> s.inAdj[n] \ IF n = v THEN {u} ELSE {}]
      /\ t.outAdj = [n \in Nodes(s) |-> s.outAdj[n] \ IF n = u THEN {v} ELSE {}]
  BY <1>0 DEF RemoveEdge
<1>2. Nodes(t) = Nodes(s)
  BY <1>1 DEF Nodes
<1> HIDE DEF t
<1>3. IsSorter(t, N)
  BY <1>0, <1>1, <1>2 DEF SorterInv, IsSorter
<1>4. PosInverts(t)
  BY <1>1, <1>2 DEF SorterInv, PosInverts
<1>5. \A m, n \in Nodes(s) : n \in t.outAdj[m] <=> (n \in s.outAdj[m] /\ ~ (m = u /\ n = v))
  BY <1>0, <1>1
<1>6. \A m, n \in Nodes(s) : m \in t.inAdj[n] <=> (m \in s.inAdj[n] /\ ~ (m = u /\ n = v))
  BY <1>0, <1>1
<1>7. Symmetric(t)
  BY <1>2, <1>5, <1>6 DEF SorterInv, Symmetric
<1>8. Topological(t)
  BY <1>0, <1>1, <1>2 DEF SorterInv, Topological
<1>9. QED
  BY <1>1, <1>2, <1>3, <1>4, <1>5, <1>7, <1>8 DEF SorterInv, t

\* RemoveNode forgets the node and its edges; those that stay keep their
\* relative order.
LEMMA RemoveNodeInv ==
  ASSUME NEW N, NEW s, SorterInv(s, N), NEW u
  PROVE  /\ SorterInv(RemoveNode(s, u), N)
         /\ Nodes(RemoveNode(s, u)) = Nodes(s) \ {u}
         /\ \A m, n \in Nodes(s) \ {u} :
               /\ n \in RemoveNode(s, u).outAdj[m] <=> n \in s.outAdj[m]
               /\ RemoveNode(s, u).pos[m] < RemoveNode(s, u).pos[n]
                    <=> s.pos[m] < s.pos[n]
<1> DEFINE t == RemoveNode(s, u)
<1>1. CASE u \notin Nodes(s)
  <2>1. t = s
    BY <1>1 DEF RemoveNode
  <2>2. QED
    BY <2>1, <1>1
<1>2. CASE u \in Nodes(s)
  <2> DEFINE M == Nodes(s) \ {u}
             len == Len(s.sortOrder)
             idx == s.pos[u]
  <2>0. /\ s.sortOrder \in Seq(N) /\ Nodes(s) \subseteq N
        /\ s.pos \in [Nodes(s) -> Nat]
        /\ s.inAdj \in [Nodes(s) -> SUBSET Nodes(s)]
        /\ s.outAdj \in [Nodes(s) -> SUBSET Nodes(s)]
        /\ len \in Nat /\ DOMAIN s.sortOrder = 1 .. len
    BY DEF SorterInv, IsSorter
  <2>1. /\ t = [sortOrder |-> t.sortOrder, hasDirtyBit |-> t.hasDirtyBit,
                pos |-> t.pos, inAdj |-> t.inAdj, outAdj |-> t.outAdj]
        /\ t.hasDirtyBit = TRUE
        /\ t.sortOrder = [i \in 1 .. len - 1 |-> s.sortOrder[IF i < idx THEN i ELSE i + 1]]
        /\ t.pos = [n \in M |-> IF s.pos[n] > idx THEN s.pos[n] - 1 ELSE s.pos[n]]
        /\ t.inAdj = [n \in M |-> s.inAdj[n] \ {u}]
        /\ t.outAdj = [n \in M |-> s.outAdj[n] \ {u}]
    BY <1>2 DEF RemoveNode
  <2>2. Nodes(t) = M
    BY <2>1 DEF Nodes
  <2> HIDE DEF t
  <2>3. /\ \A n \in Nodes(s) : s.pos[n] \in 1 .. len /\ s.sortOrder[s.pos[n]] = n
        /\ \A i \in 1 .. len : s.sortOrder[i] \in Nodes(s) /\ s.pos[s.sortOrder[i]] = i
    BY <2>0 DEF SorterInv, PosInverts
  <2>4. idx \in 1 .. len /\ s.sortOrder[idx] = u
    BY <1>2, <2>3
  <2>5. \A n \in M : s.pos[n] \in 1 .. len /\ s.pos[n] # idx
    BY <2>3, <2>4
  <2>6. ASSUME NEW i \in 1 .. len - 1
        PROVE  /\ t.sortOrder[i] \in M
               /\ t.pos[t.sortOrder[i]] = i
    <3> DEFINE j == IF i < idx THEN i ELSE i + 1
    <3>1. j \in 1 .. len /\ j # idx
      BY <2>0, <2>4
    <3>2. t.sortOrder[i] = s.sortOrder[j]
      BY <2>1
    <3>3. s.sortOrder[j] \in M /\ s.pos[s.sortOrder[j]] = j
      BY <3>1, <2>3, <2>4
    <3>4. t.pos[s.sortOrder[j]] = IF j > idx THEN j - 1 ELSE j
      BY <3>3, <2>1
    <3>5. (IF j > idx THEN j - 1 ELSE j) = i
      BY <2>0, <2>4, SMTT(30)
    <3>6. QED
      BY <3>2, <3>3, <3>4, <3>5
  <2>7. ASSUME NEW n \in M
        PROVE  /\ t.pos[n] \in 1 .. len - 1
               /\ t.sortOrder[t.pos[n]] = n
    <3> DEFINE p == s.pos[n]
               q == t.pos[n]
    <3>1. p \in 1 .. len /\ p # idx /\ s.sortOrder[p] = n
      BY <2>3, <2>5
    <3>2. q = IF p > idx THEN p - 1 ELSE p
      BY <2>1
    <3>3. q \in 1 .. len - 1 /\ (IF q < idx THEN q ELSE q + 1) = p
      BY <3>1, <3>2, <2>0, <2>4
    <3>4. t.sortOrder[q] = s.sortOrder[IF q < idx THEN q ELSE q + 1]
      BY <3>3, <2>1
    <3>5. QED
      BY <3>1, <3>3, <3>4
  <2>8. IsSorter(t, N)
    <3>1. t.sortOrder \in Seq(N)
      <4>1. \A i \in 1 .. len - 1 : t.sortOrder[i] \in N
        BY <2>6, <2>0
      <4>2. t.sortOrder = [i \in 1 .. len - 1 |-> t.sortOrder[i]]
        BY <2>1
      <4>3. len - 1 \in Nat
        BY <2>0, <2>4
      <4>4. QED
        BY <4>1, <4>2, <4>3
    <3>2. t.pos \in [M -> Nat]
      <4>1. \A n \in M : t.pos[n] \in Nat
        BY <2>7
      <4>2. QED
        BY <4>1, <2>1
    <3>3. t.inAdj \in [M -> SUBSET M] /\ t.outAdj \in [M -> SUBSET M]
      BY <2>0, <2>1
    <3>4. M \subseteq N
      BY <2>0
    <3>5. QED
      BY <2>1, <2>2, <3>1, <3>2, <3>3, <3>4 DEF IsSorter
  <2>9. PosInverts(t)
    <3>1. DOMAIN t.sortOrder = 1 .. len - 1
      BY <2>1
    <3>2. QED
      BY <3>1, <2>2, <2>6, <2>7 DEF PosInverts
  <2>10. \A m, n \in M : /\ n \in t.outAdj[m] <=> n \in s.outAdj[m]
                         /\ n \in t.inAdj[m] <=> n \in s.inAdj[m]
    BY <2>0, <2>1
  <2>11. Symmetric(t)
    BY <2>2, <2>10 DEF SorterInv, Symmetric
  <2>12. \A m, n \in M : t.pos[m] < t.pos[n] <=> s.pos[m] < s.pos[n]
    <3> TAKE m, n \in M
    <3>1. /\ s.pos[m] \in 1 .. len /\ s.pos[m] # idx
          /\ s.pos[n] \in 1 .. len /\ s.pos[n] # idx
      BY <2>5
    <3>2. /\ t.pos[m] = IF s.pos[m] > idx THEN s.pos[m] - 1 ELSE s.pos[m]
          /\ t.pos[n] = IF s.pos[n] > idx THEN s.pos[n] - 1 ELSE s.pos[n]
      BY <2>1
    <3>3. QED
      BY <3>1, <3>2, <2>0, <2>4
  <2>13. Topological(t)
    <3>1. ASSUME NEW m \in M, NEW n \in t.outAdj[m]
          PROVE  t.pos[m] < t.pos[n]
      <4>1. n \in M /\ n \in s.outAdj[m] /\ m \in Nodes(s)
        BY <2>0, <2>1
      <4>2. s.pos[m] < s.pos[n]
        BY <4>1 DEF SorterInv, Topological
      <4>3. QED
        BY <4>1, <4>2, <2>12
    <3>2. QED
      BY <3>1, <2>2 DEF Topological
  <2>14. QED
    BY <2>2, <2>8, <2>9, <2>10, <2>11, <2>12, <2>13 DEF SorterInv, t
<1>3. QED
  BY <1>1, <1>2

----------------------------------------------------------------------------
(***************************************************************************)
(* The reordering                                                          *)
(***************************************************************************)

\* f lists every member of P once.
Enumerates(f, k, P) ==
  /\ f \in [1 .. k -> P]
  /\ \A i, j \in 1 .. k : f[i] = f[j] => i = j
  /\ \A p \in P : \E i \in 1 .. k : f[i] = p

\* t is s with the nodes at the indices `from' moved to the indices `slots'.
Permuted(s, t, N, k, P, from, slots) ==
  /\ IsSorter(t, N) /\ PosInverts(t) /\ Nodes(t) = Nodes(s)
  /\ t.inAdj = s.inAdj /\ t.outAdj = s.outAdj
  /\ \A i \in 1 .. k : t.pos[s.sortOrder[from[i]]] = slots[i]
  /\ \A n \in Nodes(s) : s.pos[n] \notin P => t.pos[n] = s.pos[n]

\* Storing the nodes at the indices `from' at the indices `slots', two
\* enumerations of one set P of indices, permutes the nodes at P.
LEMMA RepositionPermutes ==
  ASSUME NEW N, NEW s, IsSorter(s, N), PosInverts(s),
         NEW k \in Nat, NEW P \in SUBSET DOMAIN s.sortOrder,
         NEW from, NEW slots, Enumerates(from, k, P), Enumerates(slots, k, P)
  PROVE  Permuted(s, Reposition(s, NodesAt(s, from), slots), N, k, P, from, slots)
<1> DEFINE t == Reposition(s, NodesAt(s, from), slots)
<1> SUFFICES ASSUME from \in [1 .. k -> P], slots \in [1 .. k -> P],
                    \A i, j \in 1 .. k : from[i] = from[j] => i = j,
                    \A i, j \in 1 .. k : slots[i] = slots[j] => i = j,
                    \A p \in P : \E i \in 1 .. k : from[i] = p,
                    \A p \in P : \E i \in 1 .. k : slots[i] = p
             PROVE  /\ IsSorter(t, N) /\ PosInverts(t) /\ Nodes(t) = Nodes(s)
                    /\ t.inAdj = s.inAdj /\ t.outAdj = s.outAdj
                    /\ \A i \in 1 .. k : t.pos[s.sortOrder[from[i]]] = slots[i]
                    /\ \A n \in Nodes(s) : s.pos[n] \notin P => t.pos[n] = s.pos[n]
  BY DEF Enumerates, Permuted
<1> DEFINE len == Len(s.sortOrder)
           moved == [i \in 1 .. k |-> s.sortOrder[from[i]]]
           nodes == {moved[i] : i \in 1 .. k}
<1>0. /\ s.sortOrder \in Seq(N) /\ Nodes(s) \subseteq N
      /\ s.pos \in [Nodes(s) -> Nat]
      /\ len \in Nat /\ DOMAIN s.sortOrder = 1 .. len
  BY DEF IsSorter
<1>1. /\ \A n \in Nodes(s) : s.pos[n] \in 1 .. len /\ s.sortOrder[s.pos[n]] = n
      /\ \A i \in 1 .. len : s.sortOrder[i] \in Nodes(s) /\ s.pos[s.sortOrder[i]] = i
  BY <1>0 DEF PosInverts
<1>2. {slots[i] : i \in 1 .. k} = P
  <2>1. \A i \in 1 .. k : slots[i] \in P
    OBVIOUS
  <2>2. QED
    BY <2>1
<1>3. P \subseteq 1 .. len
  BY <1>0
<1>4. \A i \in 1 .. k : moved[i] \in Nodes(s) /\ s.pos[moved[i]] = from[i]
  BY <1>1, <1>3
<1>5. \A i, j \in 1 .. k : moved[i] = moved[j] => i = j
  <2> TAKE i, j \in 1 .. k
  <2>1. HAVE moved[i] = moved[j]
  <2>2. s.pos[moved[i]] = from[i] /\ s.pos[moved[j]] = from[j]
    BY <1>4
  <2> HIDE DEF moved
  <2>3. from[i] = from[j]
    BY <2>1, <2>2
  <2>4. QED
    BY <2>3
<1>6. \A n \in Nodes(s) : n \in nodes <=> s.pos[n] \in P
  <2> TAKE n \in Nodes(s)
  <2>1. ASSUME n \in nodes PROVE s.pos[n] \in P
    BY <2>1, <1>4
  <2>2. ASSUME s.pos[n] \in P PROVE n \in nodes
    <3>1. PICK i \in 1 .. k : from[i] = s.pos[n]
      BY <2>2
    <3>2. moved[i] = n
      BY <3>1, <1>1
    <3>3. QED
      BY <3>2
  <2>3. QED
    BY <2>1, <2>2
<1>7. /\ t = [sortOrder |-> t.sortOrder, hasDirtyBit |-> t.hasDirtyBit,
              pos |-> t.pos, inAdj |-> t.inAdj, outAdj |-> t.outAdj]
      /\ t.hasDirtyBit = TRUE /\ t.inAdj = s.inAdj /\ t.outAdj = s.outAdj
      /\ t.sortOrder = [i \in 1 .. len |-> IF i \in P THEN moved[IndexIn(slots, i)]
                                                     ELSE s.sortOrder[i]]
      /\ t.pos = [n \in Nodes(s) |-> IF n \in nodes THEN slots[IndexIn(moved, n)]
                                                     ELSE s.pos[n]]
  <2>1. DOMAIN from = 1 .. k /\ DOMAIN slots = 1 .. k
    OBVIOUS
  <2>2. NodesAt(s, from) = moved
    BY <2>1 DEF NodesAt
  <2>3. Entries(slots) = P
    BY <2>1, <1>2 DEF Entries
  <2>4. Entries(moved) = nodes
    BY DEF Entries
  <2>5. t = Reposition(s, moved, slots)
    BY <2>2
  <2> HIDE DEF moved, nodes, len, t
  <2>6. t = [sortOrder |-> [i \in 1 .. len |->
                              IF i \in P THEN moved[IndexIn(slots, i)]
                                         ELSE s.sortOrder[i]],
             hasDirtyBit |-> TRUE,
             pos |-> [n \in Nodes(s) |->
                        IF n \in nodes THEN slots[IndexIn(moved, n)]
                                       ELSE s.pos[n]],
             inAdj |-> s.inAdj, outAdj |-> s.outAdj]
    BY <2>3, <2>4, <2>5, <1>0, Zenon DEF Reposition
  <2>7. QED
    BY <2>6
<1>8. Nodes(t) = Nodes(s)
  BY <1>7 DEF Nodes
<1>9. \A i \in 1 .. k : IndexIn(slots, slots[i]) = i /\ IndexIn(moved, moved[i]) = i
  BY <1>5 DEF IndexIn
<1> HIDE DEF moved, t
<1>10. \A i \in 1 .. k : t.pos[moved[i]] = slots[i] /\ t.sortOrder[slots[i]] = moved[i]
  <2> TAKE i \in 1 .. k
  <2>1. moved[i] \in nodes /\ moved[i] \in Nodes(s)
    BY <1>4
  <2>2. slots[i] \in P /\ slots[i] \in 1 .. len
    BY <1>3
  <2>3. QED
    BY <2>1, <2>2, <1>7, <1>9, SMTT(30)
<1>11. \A n \in Nodes(s) : s.pos[n] \notin P => t.pos[n] = s.pos[n]
  <2> HIDE DEF nodes
  <2>1. QED
    BY <1>6, <1>7
<1>12. \A p \in 1 .. len : p \notin P => t.sortOrder[p] = s.sortOrder[p]
  BY <1>7
<1>13. ASSUME NEW n \in Nodes(s)
       PROVE  t.pos[n] \in 1 .. len /\ t.sortOrder[t.pos[n]] = n
  <2>1. CASE s.pos[n] \in P
    <3>0. n \in nodes
      BY <2>1, <1>6
    <3>1. PICK i \in 1 .. k : moved[i] = n
      BY <3>0
    <3>2. QED
      BY <3>1, <1>10, <1>3
  <2>2. CASE s.pos[n] \notin P
    BY <2>2, <1>1, <1>11, <1>12, ZenonT(30)
  <2>3. QED
    BY <2>1, <2>2
<1>14. ASSUME NEW p \in 1 .. len
       PROVE  t.sortOrder[p] \in Nodes(s) /\ t.pos[t.sortOrder[p]] = p
  <2>1. CASE p \in P
    <3>1. PICK i \in 1 .. k : slots[i] = p
      BY <2>1
    <3>2. QED
      BY <3>1, <1>4, <1>10
  <2>2. CASE p \notin P
    <3>1. t.sortOrder[p] = s.sortOrder[p]
      BY <2>2, <1>12
    <3>2. s.sortOrder[p] \in Nodes(s) /\ s.pos[s.sortOrder[p]] = p
      BY <1>1
    <3>3. t.pos[s.sortOrder[p]] = p
      BY <3>2, <2>2, <1>11
    <3>4. QED
      BY <3>1, <3>2, <3>3
  <2>3. QED
    BY <2>1, <2>2
<1>15. PosInverts(t)
  <2>1. DOMAIN t.sortOrder = 1 .. len
    BY <1>7
  <2>2. QED
    BY <2>1, <1>8, <1>13, <1>14 DEF PosInverts
<1>16. IsSorter(t, N)
  <2>1. t.sortOrder \in Seq(N)
    <3>1. \A p \in 1 .. len : t.sortOrder[p] \in N
      BY <1>14, <1>0
    <3>2. t.sortOrder = [p \in 1 .. len |-> t.sortOrder[p]]
      BY <1>7
    <3>3. QED
      BY <3>1, <3>2, <1>0
  <2>2. t.pos \in [Nodes(s) -> Nat]
    <3>1. \A n \in Nodes(s) : t.pos[n] \in Nat
      BY <1>13
    <3>2. QED
      BY <3>1, <1>7
  <2>3. QED
    BY <2>1, <2>2, <1>7, <1>8 DEF IsSorter
<1>17. QED
  <2>1. \A i \in 1 .. k : t.pos[s.sortOrder[from[i]]] = slots[i]
    BY <1>10 DEF moved
  <2>2. QED
    BY <2>1, <1>7, <1>8, <1>11, <1>15, <1>16

\* A sorter into which the edge (u, v) was just inserted against the order:
\* every other edge still leads forward.
Disordered(s, N, u, v) ==
  /\ IsSorter(s, N) /\ PosInverts(s) /\ Symmetric(s)
  /\ u \in Nodes(s) /\ v \in Nodes(s)
  /\ v \in s.outAdj[u]
  /\ s.pos[v] <= s.pos[u]
  /\ \A m \in Nodes(s) : \A n \in s.outAdj[m] :
        s.pos[m] < s.pos[n] \/ (m = u /\ n = v)

\* What the forward search visits lies between v and u and is closed under the
\* edges that stay below u.
LEMMA ForwardDeltaFacts ==
  ASSUME NEW N, NEW s, NEW u, NEW v, Disordered(s, N, u, v)
  PROVE  LET F == ForwardDelta(s, v, s.pos[u]) IN
         /\ F \subseteq Nodes(s) /\ v \in F
         /\ \A m \in F : \A n \in s.outAdj[m] : s.pos[n] < s.pos[u] => n \in F
         /\ \A m \in F : s.pos[v] <= s.pos[m]
         /\ \A m \in F : s.pos[m] < s.pos[u] \/ m = v
<1> DEFINE next == [n \in Nodes(s) |-> {m \in s.outAdj[n] : s.pos[m] < s.pos[u]}]
           F == ForwardDelta(s, v, s.pos[u])
<1>0. /\ s.outAdj \in [Nodes(s) -> SUBSET Nodes(s)]
      /\ s.pos \in [Nodes(s) -> Nat]
      /\ u \in Nodes(s) /\ v \in Nodes(s) /\ s.pos[v] <= s.pos[u]
      /\ \A m \in Nodes(s) : \A n \in s.outAdj[m] :
            s.pos[m] < s.pos[n] \/ (m = u /\ n = v)
  BY DEF Disordered, IsSorter
<1>1. next \in [Nodes(s) -> SUBSET Nodes(s)]
  BY <1>0
<1>2. F = Closure(v, next)
  BY DEF ForwardDelta
<1> HIDE DEF F
<1>3. /\ F \subseteq Nodes(s) /\ v \in F
      /\ \A m \in F : next[m] \subseteq F
      /\ \A S \in SUBSET Nodes(s) : (v \in S /\ \A x \in S : next[x] \subseteq S) => F \subseteq S
  <2> HIDE DEF next
  <2>1. QED
    BY <1>0, <1>1, <1>2, ClosureIsLeast
<1>4. \A m \in F : \A n \in s.outAdj[m] : s.pos[n] < s.pos[u] => n \in F
  BY <1>0, <1>3
<1>5. \A m \in F : s.pos[v] <= s.pos[m]
  <2> DEFINE S == {m \in Nodes(s) : s.pos[v] <= s.pos[m]}
  <2>1. v \in S
    BY <1>0
  <2>2. ASSUME NEW x \in S, NEW y \in next[x] PROVE y \in S
    <3>1. y \in s.outAdj[x] /\ y \in Nodes(s)
      BY <1>0
    <3>2. s.pos[x] < s.pos[y] \/ y = v
      BY <3>1, <1>0
    <3>3. s.pos[x] \in Nat /\ s.pos[y] \in Nat /\ s.pos[v] \in Nat
      BY <3>1, <1>0
    <3>4. QED
      BY <3>1, <3>2, <3>3
  <2>3. F \subseteq S
    BY <2>1, <2>2, <1>3
  <2>4. QED
    BY <2>3
<1>6. \A m \in F : s.pos[m] < s.pos[u] \/ m = v
  <2> DEFINE S == {m \in Nodes(s) : s.pos[m] < s.pos[u] \/ m = v}
  <2>1. v \in S
    BY <1>0
  <2>2. ASSUME NEW x \in S, NEW y \in next[x] PROVE y \in S
    BY <1>0, <2>2
  <2>3. F \subseteq S
    BY <2>1, <2>2, <1>3
  <2>4. QED
    BY <2>3
<1>7. QED
  BY <1>3, <1>4, <1>5, <1>6 DEF F

\* What the backward search visits, when the forward search met no cycle, lies
\* between v and u, is closed under the edges that stay above v, and is
\* disjoint from what the forward search visited.
LEMMA BackwardDeltaFacts ==
  ASSUME NEW N, NEW s, NEW u, NEW v, Disordered(s, N, u, v),
         ~ HitsUpperBound(s, v, s.pos[u])
  PROVE  LET F == ForwardDelta(s, v, s.pos[u])
             B == BackwardDelta(s, u, s.pos[v]) IN
         /\ B \subseteq Nodes(s) /\ u \in B
         /\ \A n \in B : \A m \in Nodes(s) :
               (n \in s.outAdj[m] /\ s.pos[v] < s.pos[m]) => m \in B
         /\ \A m \in B : s.pos[v] < s.pos[m] /\ s.pos[m] <= s.pos[u]
         /\ \A m \in F : s.pos[m] < s.pos[u]
         /\ F \cap B = {}
<1> DEFINE next == [n \in Nodes(s) |-> {m \in s.inAdj[n] : s.pos[v] < s.pos[m]}]
           F == ForwardDelta(s, v, s.pos[u])
           B == BackwardDelta(s, u, s.pos[v])
<1>0. /\ s.outAdj \in [Nodes(s) -> SUBSET Nodes(s)]
      /\ s.inAdj \in [Nodes(s) -> SUBSET Nodes(s)]
      /\ s.pos \in [Nodes(s) -> Nat]
      /\ u \in Nodes(s) /\ v \in Nodes(s) /\ s.pos[v] <= s.pos[u] /\ v \in s.outAdj[u]
      /\ \A m \in Nodes(s) : \A n \in s.outAdj[m] :
            s.pos[m] < s.pos[n] \/ (m = u /\ n = v)
      /\ \A m, n \in Nodes(s) : m \in s.inAdj[n] <=> n \in s.outAdj[m]
      /\ \A m, n \in Nodes(s) : s.pos[m] = s.pos[n] => m = n
  BY DEF Disordered, IsSorter, Symmetric, PosInverts
<1>1. next \in [Nodes(s) -> SUBSET Nodes(s)]
  BY <1>0
<1>2. B = Closure(u, next)
  BY DEF BackwardDelta
<1>3. /\ F \subseteq Nodes(s) /\ v \in F
      /\ \A m \in F : \A n \in s.outAdj[m] : s.pos[n] < s.pos[u] => n \in F
      /\ \A m \in F : s.pos[v] <= s.pos[m]
      /\ \A m \in F : s.pos[m] < s.pos[u] \/ m = v
  BY ForwardDeltaFacts
<1>4. \A m \in F : \A n \in s.outAdj[m] : s.pos[n] # s.pos[u]
  BY DEF HitsUpperBound
<1> HIDE DEF F, B
<1>5. /\ B \subseteq Nodes(s) /\ u \in B
      /\ \A m \in B : next[m] \subseteq B
      /\ \A S \in SUBSET Nodes(s) : (u \in S /\ \A x \in S : next[x] \subseteq S) => B \subseteq S
  <2> HIDE DEF next
  <2>1. QED
    BY <1>0, <1>1, <1>2, ClosureIsLeast
<1>6. u # v /\ s.pos[v] < s.pos[u]
  <2>1. u = v => s.pos[v] # s.pos[u]
    BY <1>0, <1>3, <1>4
  <2>2. u # v
    BY <2>1
  <2>3. s.pos[u] \in Nat /\ s.pos[v] \in Nat /\ s.pos[u] # s.pos[v]
    BY <2>2, <1>0
  <2>4. QED
    BY <2>2, <2>3, <1>0
<1>7. \A m \in F : s.pos[m] < s.pos[u]
  BY <1>3, <1>6
<1>8. \A n \in B : \A m \in Nodes(s) :
         (n \in s.outAdj[m] /\ s.pos[v] < s.pos[m]) => m \in B
  BY <1>0, <1>5
<1>9. ASSUME NEW x \in Nodes(s), x # v, NEW y \in next[x]
      PROVE  /\ y \in Nodes(s) /\ x \in s.outAdj[y]
             /\ s.pos[v] < s.pos[y] /\ s.pos[y] < s.pos[x]
  <2>1. y \in s.inAdj[x] /\ y \in Nodes(s) /\ s.pos[v] < s.pos[y]
    BY <1>0
  <2>2. x \in s.outAdj[y]
    BY <2>1, <1>0
  <2>3. QED
    BY <2>1, <2>2, <1>0, <1>9
<1>10. \A m \in B : s.pos[v] < s.pos[m] /\ s.pos[m] <= s.pos[u]
  <2> DEFINE S == {m \in Nodes(s) : s.pos[v] < s.pos[m] /\ s.pos[m] <= s.pos[u]}
  <2>1. u \in S
    BY <1>0, <1>6
  <2>2. ASSUME NEW x \in S, NEW y \in next[x] PROVE y \in S
    <3>1. x \in Nodes(s) /\ x # v
      BY <1>0
    <3>2. y \in Nodes(s) /\ s.pos[v] < s.pos[y] /\ s.pos[y] < s.pos[x]
      BY <3>1, <1>9
    <3>3. s.pos[x] <= s.pos[u] /\ s.pos[x] \in Nat /\ s.pos[y] \in Nat /\ s.pos[u] \in Nat
      BY <3>1, <3>2, <1>0
    <3>4. s.pos[y] <= s.pos[u]
      BY <3>2, <3>3
    <3>5. QED
      BY <3>2, <3>4
  <2>3. B \subseteq S
    BY <2>1, <2>2, <1>5
  <2>4. QED
    BY <2>3
<1>11. F \cap B = {}
  <2> DEFINE S == {m \in Nodes(s) : m \notin F /\ s.pos[m] <= s.pos[u]}
  <2>1. u \in S
    BY <1>0, <1>7
  <2>2. ASSUME NEW x \in S, NEW y \in next[x] PROVE y \in S
    <3>1. x \in Nodes(s) /\ x # v /\ x \notin F /\ s.pos[x] <= s.pos[u]
      BY <1>3
    <3>2. y \in Nodes(s) /\ x \in s.outAdj[y] /\ s.pos[y] < s.pos[x]
      BY <3>1, <1>9
    <3>3. s.pos[x] \in Nat /\ s.pos[y] \in Nat /\ s.pos[u] \in Nat
      BY <3>1, <3>2, <1>0
    <3>4. s.pos[y] <= s.pos[u]
      BY <3>1, <3>2, <3>3
    <3>5. ASSUME y \in F PROVE FALSE
      <4>1. s.pos[x] # s.pos[u] /\ ~ (s.pos[x] < s.pos[u])
        BY <3>5, <3>1, <3>2, <1>3, <1>4
      <4>2. QED
        BY <4>1, <3>1, <3>3
    <3>6. QED
      BY <3>2, <3>4, <3>5
  <2>3. B \subseteq S
    BY <2>1, <2>2, <1>5
  <2>4. QED
    BY <2>3
<1>12. QED
  BY <1>5, <1>7, <1>8, <1>10, <1>11 DEF F, B

\* Moving the affected region: backward nodes go to the front and only towards
\* it, forward nodes to the end and only towards it, each group keeps its
\* order, and nothing leaves the region from v to u.
LEMMA ShiftRegionMoves ==
  ASSUME NEW N, NEW s, NEW u, NEW v, Disordered(s, N, u, v),
         ~ HitsUpperBound(s, v, s.pos[u])
  PROVE  LET F == ForwardDelta(s, v, s.pos[u])
             B == BackwardDelta(s, u, s.pos[v])
             t == ShiftRegion(s, u, v) IN
         /\ IsSorter(t, N) /\ PosInverts(t) /\ Nodes(t) = Nodes(s)
         /\ t.inAdj = s.inAdj /\ t.outAdj = s.outAdj
         /\ \A n \in Nodes(s) : (n \notin F /\ n \notin B) => t.pos[n] = s.pos[n]
         /\ \A n \in F \cup B : s.pos[v] <= t.pos[n] /\ t.pos[n] <= s.pos[u]
         /\ \A n \in F : s.pos[n] <= t.pos[n]
         /\ \A n \in B : t.pos[n] <= s.pos[n]
         /\ \A m, n \in F : s.pos[m] < s.pos[n] => t.pos[m] < t.pos[n]
         /\ \A m, n \in B : s.pos[m] < s.pos[n] => t.pos[m] < t.pos[n]
         /\ \A m \in B : \A n \in F : t.pos[m] < t.pos[n]
<1> DEFINE F == ForwardDelta(s, v, s.pos[u])
           B == BackwardDelta(s, u, s.pos[v])
           fwd == {s.pos[n] : n \in F}
           bwd == {s.pos[n] : n \in B}
           P == fwd \cup bwd
           len == Len(s.sortOrder)
           nb == Cardinality(bwd)
           nf == Cardinality(fwd)
           sb == SortedSeq(bwd)
           sf == SortedSeq(fwd)
           slots == SortedSeq(P)
           from == sb \o sf
           t == Reposition(s, NodesAt(s, from), slots)
<1>0. /\ s.pos \in [Nodes(s) -> Nat] /\ IsSorter(s, N) /\ PosInverts(s)
      /\ len \in Nat /\ DOMAIN s.sortOrder = 1 .. len
      /\ \A n \in Nodes(s) : s.pos[n] \in 1 .. len /\ s.sortOrder[s.pos[n]] = n
      /\ \A m, n \in Nodes(s) : s.pos[m] = s.pos[n] => m = n
      /\ u \in Nodes(s) /\ v \in Nodes(s)
  BY DEF Disordered, IsSorter, PosInverts
<1>1. t = ShiftRegion(s, u, v)
  BY DEF ShiftRegion
<1>2. /\ F \subseteq Nodes(s) /\ B \subseteq Nodes(s) /\ F \cap B = {}
      /\ \A m \in F : s.pos[v] <= s.pos[m] /\ s.pos[m] < s.pos[u]
      /\ \A m \in B : s.pos[v] < s.pos[m] /\ s.pos[m] <= s.pos[u]
  BY ForwardDeltaFacts, BackwardDeltaFacts
<1> HIDE DEF F, B
<1>3. /\ fwd \in SUBSET (1 .. len) /\ bwd \in SUBSET (1 .. len)
      /\ bwd \cap fwd = {}
  BY <1>0, <1>2
<1>4. /\ fwd \in SUBSET Nat /\ bwd \in SUBSET Nat /\ P \in SUBSET Nat
      /\ IsFiniteSet(fwd) /\ IsFiniteSet(bwd)
      /\ \A x \in P : x \in Nat
  <2>1. IsFiniteSet(1 .. len)
    <3>1. 1 \in Int /\ len \in Int
      BY <1>0
    <3>2. QED
      BY <3>1, FS_Interval
  <2>2. IsFiniteSet(fwd) /\ IsFiniteSet(bwd)
    BY <2>1, <1>3, FS_Subset
  <2>3. \A i \in 1 .. len : i \in Nat
    OBVIOUS
  <2>4. QED
    BY <2>2, <2>3, <1>3
<1>5. \A x \in P : s.pos[v] <= x /\ x <= s.pos[u]
  <2>1. s.pos[v] \in Nat /\ s.pos[u] \in Nat
    BY <1>0
  <2>2. ASSUME NEW n \in F PROVE s.pos[v] <= s.pos[n] /\ s.pos[n] <= s.pos[u]
    BY <1>0, <1>2, <2>1
  <2>3. ASSUME NEW n \in B PROVE s.pos[v] <= s.pos[n] /\ s.pos[n] <= s.pos[u]
    BY <1>0, <1>2, <2>1
  <2>4. QED
    BY <2>2, <2>3
<1>6. /\ \A n \in F : s.pos[n] \in fwd
      /\ \A n \in B : s.pos[n] \in bwd
      /\ \A n \in Nodes(s) : s.pos[n] \in P => (n \in F \/ n \in B)
  BY <1>0, <1>2
<1>7. P = bwd \cup fwd
  OBVIOUS
<1> HIDE DEF fwd, bwd, P
<1>8. /\ nb \in Nat /\ nf \in Nat
      /\ sb \in [1 .. nb -> bwd] /\ sf \in [1 .. nf -> fwd]
      /\ \A i, j \in 1 .. nb : i < j <=> sb[i] < sb[j]
      /\ \A i, j \in 1 .. nf : i < j <=> sf[i] < sf[j]
      /\ \A x \in bwd : \E i \in 1 .. nb : sb[i] = x
      /\ \A x \in fwd : \E i \in 1 .. nf : sf[i] = x
  BY <1>4, SortedSeqSorts
<1>9. /\ IsFiniteSet(P) /\ Cardinality(P) = nb + nf
      /\ \A i \in 1 .. nb : slots[i] <= sb[i]
      /\ \A i \in 1 .. nf : sf[i] <= slots[nb + i]
  BY <1>3, <1>4, <1>7, MergeMoves
<1>10. /\ slots \in [1 .. nb + nf -> P]
       /\ \A i, j \in 1 .. nb + nf : i < j <=> slots[i] < slots[j]
       /\ \A x \in P : \E i \in 1 .. nb + nf : slots[i] = x
  BY <1>4, <1>9, SortedSeqSorts
<1> HIDE DEF nb, nf, sb, sf, slots
<1>11. /\ from \in [1 .. nb + nf -> P]
       /\ \A i \in 1 .. nb : from[i] = sb[i]
       /\ \A i \in 1 .. nf : from[nb + i] = sf[i]
  <2>1. sb \in Seq(P) /\ Len(sb) = nb /\ sf \in Seq(P) /\ Len(sf) = nf
    <3>1. sb \in [1 .. nb -> P] /\ sf \in [1 .. nf -> P]
      BY <1>7, <1>8
    <3>2. QED
      BY <3>1, <1>8
  <2>2. from \in Seq(P) /\ Len(from) = nb + nf
    BY <2>1
  <2>3. \A i \in 1 .. nb + nf : from[i] = IF i <= nb THEN sb[i] ELSE sf[i - nb]
    BY <2>1, <1>8
  <2> HIDE DEF from
  <2>4. from \in [1 .. nb + nf -> P]
    BY <2>2
  <2>5. \A i \in 1 .. nb : from[i] = sb[i]
    BY <2>3, <1>8
  <2>6. \A i \in 1 .. nf : from[nb + i] = sf[i]
    <3> TAKE i \in 1 .. nf
    <3>1. nb + i \in 1 .. nb + nf /\ ~ (nb + i <= nb) /\ (nb + i) - nb = i
      BY <1>8
    <3>2. QED
      BY <3>1, <2>3
  <2>7. QED
    BY <2>4, <2>5, <2>6
<1> HIDE DEF from
<1>12. \A i \in 1 .. nb + nf : i \in 1 .. nb \/ \E j \in 1 .. nf : i = nb + j
  <2> TAKE i \in 1 .. nb + nf
  <2>1. CASE i <= nb
    BY <2>1, <1>8
  <2>2. CASE ~ (i <= nb)
    <3>1. i - nb \in 1 .. nf /\ i = nb + (i - nb)
      BY <2>2, <1>8
    <3>2. QED
      BY <3>1
  <2>3. QED
    BY <2>1, <2>2
<1>13. \A i, j \in 1 .. nb : sb[i] = sb[j] => i = j
  <2> TAKE i, j \in 1 .. nb
  <2>1. sb[i] \in bwd /\ sb[j] \in bwd /\ i \in Nat /\ j \in Nat
    BY <1>8
  <2>2. sb[i] \in Nat /\ sb[j] \in Nat
    BY <2>1, <1>4, <1>7
  <2>3. QED
    BY <2>1, <2>2, <1>8
<1>14. \A i, j \in 1 .. nf : sf[i] = sf[j] => i = j
  <2> TAKE i, j \in 1 .. nf
  <2>1. sf[i] \in fwd /\ sf[j] \in fwd /\ i \in Nat /\ j \in Nat
    BY <1>8
  <2>2. sf[i] \in Nat /\ sf[j] \in Nat
    BY <2>1, <1>4, <1>7
  <2>3. QED
    BY <2>1, <2>2, <1>8
<1>15. \A i, j \in 1 .. nb + nf : slots[i] = slots[j] => i = j
  <2> TAKE i, j \in 1 .. nb + nf
  <2>1. slots[i] \in P /\ slots[j] \in P /\ i \in Nat /\ j \in Nat
    BY <1>10
  <2>2. slots[i] \in Nat /\ slots[j] \in Nat
    BY <2>1, <1>4
  <2>3. QED
    BY <2>1, <2>2, <1>10
<1>16. \A i, j \in 1 .. nb + nf : from[i] = from[j] => i = j
  <2> TAKE i, j \in 1 .. nb + nf
  <2>1. CASE i \in 1 .. nb /\ j \in 1 .. nb
    BY <2>1, <1>11, <1>13
  <2>2. ASSUME NEW a \in 1 .. nf, NEW b \in 1 .. nf, i = nb + a, j = nb + b
        PROVE  from[i] = from[j] => i = j
    BY <2>2, <1>11, <1>14
  <2>3. ASSUME NEW a \in 1 .. nb, NEW b \in 1 .. nf
        PROVE  from[a] # from[nb + b]
    <3>1. from[a] \in bwd /\ from[nb + b] \in fwd
      BY <1>8, <1>11
    <3>2. QED
      BY <3>1, <1>3
  <2>4. QED
    BY <2>1, <2>2, <2>3, <1>12
<1>17. \A x \in P : \E i \in 1 .. nb + nf : from[i] = x
  <2> TAKE x \in P
  <2>1. CASE x \in bwd
    <3>1. PICK i \in 1 .. nb : sb[i] = x
      BY <2>1, <1>8
    <3>2. i \in 1 .. nb + nf
      BY <1>8
    <3>3. QED
      BY <3>1, <3>2, <1>11
  <2>2. CASE x \in fwd
    <3>1. PICK i \in 1 .. nf : sf[i] = x
      BY <2>2, <1>8
    <3>2. nb + i \in 1 .. nb + nf
      BY <1>8
    <3>3. QED
      BY <3>1, <3>2, <1>11
  <2>3. QED
    BY <2>1, <2>2, <1>7
<1>18. P \in SUBSET DOMAIN s.sortOrder /\ nb + nf \in Nat
  BY <1>0, <1>3, <1>7, <1>8
<1>19. /\ IsSorter(t, N) /\ PosInverts(t) /\ Nodes(t) = Nodes(s)
       /\ t.inAdj = s.inAdj /\ t.outAdj = s.outAdj
       /\ \A i \in 1 .. nb + nf : t.pos[s.sortOrder[from[i]]] = slots[i]
       /\ \A n \in Nodes(s) : s.pos[n] \notin P => t.pos[n] = s.pos[n]
  <2> DEFINE k == nb + nf
  <2>1. /\ k \in Nat
        /\ Enumerates(from, k, P) /\ Enumerates(slots, k, P)
    BY <1>10, <1>11, <1>15, <1>16, <1>17, <1>18 DEF Enumerates
  <2>2. IsSorter(s, N) /\ PosInverts(s) /\ P \in SUBSET DOMAIN s.sortOrder
    BY <1>0, <1>18
  <2> HIDE DEF k, len
  <2>3. Permuted(s, t, N, k, P, from, slots)
    BY <2>1, <2>2, RepositionPermutes
  <2> HIDE DEF t
  <2>4. QED
    BY <2>3 DEF k, Permuted
<1> HIDE DEF t
<1>20. \A n \in B : \E i \in 1 .. nb : s.pos[n] = sb[i] /\ t.pos[n] = slots[i]
  <2> TAKE n \in B
  <2>1. PICK i \in 1 .. nb : sb[i] = s.pos[n]
    BY <1>6, <1>8
  <2>2. i \in 1 .. nb + nf
    BY <1>8
  <2>3. s.sortOrder[from[i]] = n
    BY <2>1, <1>0, <1>2, <1>11
  <2>4. QED
    BY <2>1, <2>2, <2>3, <1>19
<1>21. \A n \in F : \E i \in 1 .. nf : s.pos[n] = sf[i] /\ t.pos[n] = slots[nb + i]
  <2> TAKE n \in F
  <2>1. PICK i \in 1 .. nf : sf[i] = s.pos[n]
    BY <1>6, <1>8
  <2>2. nb + i \in 1 .. nb + nf
    BY <1>8
  <2>3. s.sortOrder[from[nb + i]] = n
    BY <2>1, <1>0, <1>2, <1>11
  <2>4. QED
    BY <2>1, <2>2, <2>3, <1>19
<1>22. \A n \in Nodes(s) : (n \notin F /\ n \notin B) => t.pos[n] = s.pos[n]
  BY <1>6, <1>19
<1>23. \A n \in F \cup B : s.pos[v] <= t.pos[n] /\ t.pos[n] <= s.pos[u]
  <2>1. ASSUME NEW n \in F PROVE t.pos[n] \in P
    <3>1. PICK i \in 1 .. nf : t.pos[n] = slots[nb + i]
      BY <1>21
    <3>2. nb + i \in 1 .. nb + nf
      BY <1>8
    <3>3. QED
      BY <3>1, <3>2, <1>10
  <2>2. ASSUME NEW n \in B PROVE t.pos[n] \in P
    <3>1. PICK i \in 1 .. nb : t.pos[n] = slots[i]
      BY <1>20
    <3>2. i \in 1 .. nb + nf
      BY <1>8
    <3>3. QED
      BY <3>1, <3>2, <1>10
  <2>3. QED
    BY <2>1, <2>2, <1>5
<1>24. \A n \in F : s.pos[n] <= t.pos[n]
  BY <1>9, <1>21
<1>25. \A n \in B : t.pos[n] <= s.pos[n]
  BY <1>9, <1>20
<1>26. \A m, n \in F : s.pos[m] < s.pos[n] => t.pos[m] < t.pos[n]
  <2> TAKE m, n \in F
  <2>1. PICK i \in 1 .. nf : s.pos[m] = sf[i] /\ t.pos[m] = slots[nb + i]
    BY <1>21
  <2>2. PICK j \in 1 .. nf : s.pos[n] = sf[j] /\ t.pos[n] = slots[nb + j]
    BY <1>21
  <2>3. nb + i \in 1 .. nb + nf /\ nb + j \in 1 .. nb + nf /\ (nb + i < nb + j <=> i < j)
    BY <1>8
  <2>4. sf[i] < sf[j] => i < j
    BY <1>8
  <2>5. QED
    BY <2>1, <2>2, <2>3, <2>4, <1>10
<1>27. \A m, n \in B : s.pos[m] < s.pos[n] => t.pos[m] < t.pos[n]
  <2> TAKE m, n \in B
  <2>1. PICK i \in 1 .. nb : s.pos[m] = sb[i] /\ t.pos[m] = slots[i]
    BY <1>20
  <2>2. PICK j \in 1 .. nb : s.pos[n] = sb[j] /\ t.pos[n] = slots[j]
    BY <1>20
  <2>3. i \in 1 .. nb + nf /\ j \in 1 .. nb + nf
    BY <1>8
  <2>4. sb[i] < sb[j] => i < j
    BY <1>8
  <2>5. QED
    BY <2>1, <2>2, <2>3, <2>4, <1>10
<1>28. \A m \in B : \A n \in F : t.pos[m] < t.pos[n]
  <2> TAKE m \in B
  <2> TAKE n \in F
  <2>1. PICK i \in 1 .. nb : t.pos[m] = slots[i]
    BY <1>20
  <2>2. PICK j \in 1 .. nf : t.pos[n] = slots[nb + j]
    BY <1>21
  <2>3. i \in 1 .. nb + nf /\ nb + j \in 1 .. nb + nf /\ i < nb + j
    BY <1>8
  <2>4. QED
    BY <2>1, <2>2, <2>3, <1>10
<1>29. QED
  <2>1. t = ShiftRegion(s, u, v)
    BY <1>1 DEF t, from, slots, sb, sf, P, fwd, bwd
  <2>2. QED
    BY <2>1, <1>19, <1>22, <1>23, <1>24, <1>25, <1>26, <1>27, <1>28 DEF F, B

\* After the move every edge leads forward, the new one included.
LEMMA ShiftRegionInv ==
  ASSUME NEW N, NEW s, NEW u, NEW v, Disordered(s, N, u, v),
         ~ HitsUpperBound(s, v, s.pos[u])
  PROVE  SorterInv(ShiftRegion(s, u, v), N)
<1> DEFINE F == ForwardDelta(s, v, s.pos[u])
           B == BackwardDelta(s, u, s.pos[v])
           t == ShiftRegion(s, u, v)
<1>1. /\ s.outAdj \in [Nodes(s) -> SUBSET Nodes(s)]
      /\ s.pos \in [Nodes(s) -> Nat]
      /\ u \in Nodes(s) /\ v \in Nodes(s)
      /\ \A m \in Nodes(s) : \A n \in s.outAdj[m] :
            s.pos[m] < s.pos[n] \/ (m = u /\ n = v)
      /\ \A m, n \in Nodes(s) : s.pos[m] = s.pos[n] => m = n
      /\ Symmetric(s)
  BY DEF Disordered, IsSorter, PosInverts
<1>2. /\ F \subseteq Nodes(s) /\ v \in F
      /\ \A m \in F : \A n \in s.outAdj[m] : s.pos[n] < s.pos[u] => n \in F
  BY ForwardDeltaFacts
<1>3. /\ B \subseteq Nodes(s) /\ u \in B
      /\ \A n \in B : \A m \in Nodes(s) :
            (n \in s.outAdj[m] /\ s.pos[v] < s.pos[m]) => m \in B
      /\ F \cap B = {}
  BY BackwardDeltaFacts
<1>4. /\ IsSorter(t, N) /\ PosInverts(t) /\ Nodes(t) = Nodes(s)
      /\ t.inAdj = s.inAdj /\ t.outAdj = s.outAdj
      /\ \A n \in Nodes(s) : (n \notin F /\ n \notin B) => t.pos[n] = s.pos[n]
      /\ \A n \in F \cup B : s.pos[v] <= t.pos[n] /\ t.pos[n] <= s.pos[u]
      /\ \A n \in F : s.pos[n] <= t.pos[n]
      /\ \A n \in B : t.pos[n] <= s.pos[n]
      /\ \A m, n \in F : s.pos[m] < s.pos[n] => t.pos[m] < t.pos[n]
      /\ \A m, n \in B : s.pos[m] < s.pos[n] => t.pos[m] < t.pos[n]
      /\ \A m \in B : \A n \in F : t.pos[m] < t.pos[n]
  BY ShiftRegionMoves
<1>5. \A m \in F : \A n \in s.outAdj[m] : s.pos[n] # s.pos[u]
  BY DEF HitsUpperBound
<1>6. t.pos \in [Nodes(s) -> Nat]
  BY <1>4 DEF IsSorter
<1> HIDE DEF F, B, t
<1>7. ASSUME NEW m \in Nodes(s), NEW n \in s.outAdj[m]
      PROVE  t.pos[m] < t.pos[n]
  <2>1. /\ n \in Nodes(s)
        /\ s.pos[m] \in Nat /\ s.pos[n] \in Nat /\ s.pos[u] \in Nat /\ s.pos[v] \in Nat
        /\ t.pos[m] \in Nat /\ t.pos[n] \in Nat
    BY <1>1, <1>6
  <2>2. CASE m = u /\ n = v
    BY <2>2, <1>2, <1>3, <1>4
  <2>3. CASE ~ (m = u /\ n = v)
    <3>1. s.pos[m] < s.pos[n]
      BY <2>3, <1>1
    <3>2. CASE m \in F /\ n \in F
      BY <3>1, <3>2, <1>4
    <3>3. CASE m \in F /\ n \notin F
      <4>1. s.pos[u] < s.pos[n]
        BY <3>3, <2>1, <1>2, <1>5
      <4>2. t.pos[m] <= s.pos[u]
        BY <3>3, <1>4
      <4>3. n \notin B
        <5>1. n \in B => s.pos[n] <= s.pos[u]
          BY BackwardDeltaFacts DEF B
        <5>2. QED
          BY <4>1, <5>1, <2>1
      <4>4. t.pos[n] = s.pos[n]
        BY <3>3, <4>3, <2>1, <1>4
      <4>5. QED
        BY <4>1, <4>2, <4>4, <2>1
    <3>4. CASE m \in B /\ n \in B
      BY <3>1, <3>4, <1>4
    <3>5. CASE m \in B /\ n \in F
      BY <3>5, <1>4
    <3>6. CASE m \in B /\ n \notin B /\ n \notin F
      <4>1. t.pos[m] <= s.pos[m] /\ t.pos[n] = s.pos[n]
        BY <3>6, <2>1, <1>4
      <4>2. QED
        BY <4>1, <3>1, <2>1
    <3>7. CASE m \notin F /\ m \notin B /\ n \in B
      <4>1. ~ (s.pos[v] < s.pos[m]) /\ s.pos[m] # s.pos[v]
        BY <3>7, <1>1, <1>2, <1>3
      <4>2. t.pos[m] = s.pos[m] /\ s.pos[v] <= t.pos[n]
        BY <3>7, <1>4
      <4>3. QED
        BY <4>1, <4>2, <2>1
    <3>8. CASE m \notin F /\ m \notin B /\ n \in F
      <4>1. t.pos[m] = s.pos[m] /\ s.pos[n] <= t.pos[n]
        BY <3>8, <1>4
      <4>2. QED
        BY <4>1, <3>1, <2>1
    <3>9. CASE m \notin F /\ m \notin B /\ n \notin F /\ n \notin B
      BY <3>9, <3>1, <2>1, <1>4
    <3>10. QED
      BY <3>2, <3>3, <3>4, <3>5, <3>6, <3>7, <3>8, <3>9
  <2>4. QED
    BY <2>2, <2>3
<1>8. Topological(t) /\ Symmetric(t)
  BY <1>1, <1>4, <1>7 DEF Topological, Symmetric
<1>9. QED
  BY <1>4, <1>8 DEF SorterInv, t

----------------------------------------------------------------------------
(***************************************************************************)
(* AddEdge                                                                 *)
(***************************************************************************)

\* In a topological order a path never leads backwards.
LEMMA ReachesForward ==
  ASSUME NEW N, NEW s, SorterInv(s, N), NEW a \in Nodes(s), NEW b,
         ReachesIn(s, a, b)
  PROVE  b \in Nodes(s) /\ s.pos[a] <= s.pos[b]
<1> DEFINE S == {n \in Nodes(s) : s.pos[a] <= s.pos[n]}
<1>1. /\ s.outAdj \in [Nodes(s) -> SUBSET Nodes(s)]
      /\ s.pos \in [Nodes(s) -> Nat]
      /\ \A m \in Nodes(s) : \A n \in s.outAdj[m] : s.pos[m] < s.pos[n]
  BY DEF SorterInv, IsSorter, Topological
<1>2. a \in S
  BY <1>1
<1>3. ASSUME NEW x \in S, NEW y \in s.outAdj[x] PROVE y \in S
  <2>1. x \in Nodes(s) /\ y \in Nodes(s)
    BY <1>1
  <2>2. s.pos[a] \in Nat /\ s.pos[x] \in Nat /\ s.pos[y] \in Nat
    BY <2>1, <1>1
  <2>3. s.pos[a] <= s.pos[x] /\ s.pos[x] < s.pos[y]
    BY <2>1, <1>1
  <2>4. QED
    BY <2>1, <2>2, <2>3
<1>4. Closure(a, s.outAdj) \subseteq S
  <2>1. S \in SUBSET Nodes(s) /\ \A x \in S : s.outAdj[x] \subseteq S
    BY <1>3
  <2> HIDE DEF S
  <2>2. QED
    BY <2>1, <1>1, <1>2, ClosureIsLeast
<1>5. QED
  BY <1>4 DEF ReachesIn

\* Inserting an edge: the maps stay symmetric, the positions stay as they are.
LEMMA InsertEdgeFacts ==
  ASSUME NEW N, NEW s, SorterInv(s, N), NEW u \in Nodes(s), NEW v \in Nodes(s)
  PROVE  LET e == InsertEdge(s, u, v) IN
         /\ IsSorter(e, N) /\ PosInverts(e) /\ Symmetric(e)
         /\ Nodes(e) = Nodes(s) /\ e.pos = s.pos /\ e.sortOrder = s.sortOrder
         /\ v \in e.outAdj[u]
         /\ \A m, n \in Nodes(s) :
               n \in e.outAdj[m] <=> (n \in s.outAdj[m] \/ (m = u /\ n = v))
<1> DEFINE e == InsertEdge(s, u, v)
<1>0. /\ s.sortOrder \in Seq(N) /\ Nodes(s) \subseteq N
      /\ s.hasDirtyBit \in BOOLEAN
      /\ s.pos \in [Nodes(s) -> Nat]
      /\ s.inAdj \in [Nodes(s) -> SUBSET Nodes(s)]
      /\ s.outAdj \in [Nodes(s) -> SUBSET Nodes(s)]
  BY DEF SorterInv, IsSorter
<1>1. /\ e = [sortOrder |-> e.sortOrder, hasDirtyBit |-> e.hasDirtyBit,
              pos |-> e.pos, inAdj |-> e.inAdj, outAdj |-> e.outAdj]
      /\ e.sortOrder = s.sortOrder /\ e.hasDirtyBit = s.hasDirtyBit /\ e.pos = s.pos
      /\ e.inAdj = [n \in Nodes(s) |-> s.inAdj[n] \cup IF n = v THEN {u} ELSE {}]
      /\ e.outAdj = [n \in Nodes(s) |-> s.outAdj[n] \cup IF n = u THEN {v} ELSE {}]
  BY DEF InsertEdge
<1>2. Nodes(e) = Nodes(s)
  BY <1>1 DEF Nodes
<1> HIDE DEF e
<1>3. IsSorter(e, N)
  <2>1. /\ e.inAdj \in [Nodes(s) -> SUBSET Nodes(s)]
        /\ e.outAdj \in [Nodes(s) -> SUBSET Nodes(s)]
    BY <1>0, <1>1
  <2>2. QED
    BY <2>1, <1>0, <1>1, <1>2 DEF IsSorter
<1>4. PosInverts(e)
  BY <1>1, <1>2 DEF SorterInv, PosInverts
<1>5. \A m, n \in Nodes(s) :
         /\ n \in e.outAdj[m] <=> (n \in s.outAdj[m] \/ (m = u /\ n = v))
         /\ m \in e.inAdj[n] <=> (m \in s.inAdj[n] \/ (m = u /\ n = v))
  BY <1>0, <1>1
<1>6. Symmetric(e)
  BY <1>2, <1>5 DEF SorterInv, Symmetric
<1>7. QED
  BY <1>1, <1>2, <1>3, <1>4, <1>5, <1>6 DEF e

\* The bounded forward search from v meets the upper bound exactly when u can
\* be reached from v: it decides whether the new edge closes a cycle.
LEMMA SearchDecidesCycle ==
  ASSUME NEW N, NEW s, SorterInv(s, N), NEW u \in Nodes(s), NEW v \in Nodes(s),
         s.pos[v] <= s.pos[u]
  PROVE  HitsUpperBound(InsertEdge(s, u, v), v, s.pos[u]) <=> ReachesIn(s, v, u)
<1> DEFINE e == InsertEdge(s, u, v)
           F == ForwardDelta(e, v, e.pos[u])
           C == Closure(v, s.outAdj)
<1>0. /\ s.outAdj \in [Nodes(s) -> SUBSET Nodes(s)]
      /\ s.pos \in [Nodes(s) -> Nat]
      /\ \A m \in Nodes(s) : \A n \in s.outAdj[m] : s.pos[m] < s.pos[n]
      /\ \A m, n \in Nodes(s) : s.pos[m] = s.pos[n] => m = n
  BY DEF SorterInv, IsSorter, Topological, PosInverts
<1>1. /\ IsSorter(e, N) /\ PosInverts(e) /\ Symmetric(e)
      /\ Nodes(e) = Nodes(s) /\ e.pos = s.pos
      /\ v \in e.outAdj[u]
      /\ \A m, n \in Nodes(s) :
            n \in e.outAdj[m] <=> (n \in s.outAdj[m] \/ (m = u /\ n = v))
  BY InsertEdgeFacts
<1>2. e.outAdj \in [Nodes(s) -> SUBSET Nodes(s)]
  BY <1>1 DEF IsSorter
<1>3. HitsUpperBound(e, v, s.pos[u]) <=> \E n \in F : \E m \in e.outAdj[n] : s.pos[m] = s.pos[u]
  BY <1>1 DEF HitsUpperBound
<1> HIDE DEF e
<1>4. Disordered(e, N, u, v)
  <2>1. \A m \in Nodes(s) : \A n \in e.outAdj[m] : s.pos[m] < s.pos[n] \/ (m = u /\ n = v)
    BY <1>0, <1>1, <1>2
  <2>2. QED
    BY <2>1, <1>1 DEF Disordered
<1>5. /\ F \subseteq Nodes(s) /\ v \in F
      /\ \A m \in F : \A n \in e.outAdj[m] : s.pos[n] < s.pos[u] => n \in F
      /\ \A m \in F : s.pos[m] < s.pos[u] \/ m = v
  BY <1>1, <1>4, ForwardDeltaFacts
<1>6. /\ C \subseteq Nodes(s) /\ v \in C
      /\ \A x \in C : s.outAdj[x] \subseteq C
      /\ \A S \in SUBSET Nodes(s) : (v \in S /\ \A x \in S : s.outAdj[x] \subseteq S) => C \subseteq S
  BY <1>0, ClosureIsLeast
<1>7. ReachesIn(s, v, u) <=> u \in C
  BY DEF ReachesIn
<1>8. F \subseteq C
  <2> DEFINE next == [n \in Nodes(e) |-> {m \in e.outAdj[n] : e.pos[m] < e.pos[u]}]
  <2>1. next \in [Nodes(s) -> SUBSET Nodes(s)]
    BY <1>1, <1>2
  <2>2. \A x \in C : next[x] \subseteq C
    BY <1>0, <1>1, <1>2, <1>6
  <2>3. F = Closure(v, next)
    BY DEF ForwardDelta
  <2> HIDE DEF next, F, C
  <2>4. QED
    BY <2>1, <2>2, <2>3, <1>6, ClosureIsLeast
<1> HIDE DEF F, C
<1>9. ASSUME NEW n \in F, NEW m \in e.outAdj[n], s.pos[m] = s.pos[u]
      PROVE  u \in C
  <2>1. n \in Nodes(s) /\ m \in Nodes(s) /\ m = u
    BY <1>0, <1>2, <1>5, <1>9
  <2>2. u \in s.outAdj[n] \/ u = v
    BY <2>1, <1>1
  <2>3. QED
    BY <2>1, <2>2, <1>6, <1>8
<1>10. ASSUME u \in C, \A n \in F : \A m \in e.outAdj[n] : s.pos[m] # s.pos[u]
       PROVE  FALSE
  <2> DEFINE S == F \cup {x \in Nodes(s) : s.pos[u] < s.pos[x]}
  <2>1. v \in S /\ S \in SUBSET Nodes(s)
    BY <1>5
  <2>2. ASSUME NEW x \in S, NEW y \in s.outAdj[x] PROVE y \in S
    <3>1. x \in Nodes(s) /\ y \in Nodes(s) /\ y \in e.outAdj[x]
      BY <2>1, <1>0, <1>1
    <3>2. s.pos[x] < s.pos[y] /\ s.pos[x] \in Nat /\ s.pos[y] \in Nat /\ s.pos[u] \in Nat
      BY <3>1, <1>0
    <3>3. CASE x \in F
      <4>1. s.pos[y] # s.pos[u] /\ (s.pos[y] < s.pos[u] => y \in F)
        BY <3>1, <3>3, <1>5, <1>10
      <4>2. QED
        BY <4>1, <3>1, <3>2
    <3>4. CASE s.pos[u] < s.pos[x]
      <4>1. s.pos[u] < s.pos[y]
        BY <3>2, <3>4
      <4>2. QED
        BY <4>1, <3>1
    <3>5. QED
      BY <3>3, <3>4
  <2>3. C \subseteq S
    BY <2>1, <2>2, <1>6
  <2>4. u \in F
    <3>1. ~ (s.pos[u] < s.pos[u])
      BY <1>0
    <3>2. QED
      BY <2>3, <3>1, <1>10
  <2>5. u = v
    BY <2>4, <1>0, <1>5
  <2>6. QED
    BY <2>4, <2>5, <1>1, <1>10
<1>11. QED
  BY <1>3, <1>7, <1>9, <1>10 DEF e

\* Erasing the edge that was just inserted gives back the sorter.
LEMMA RemoveUndoesInsert ==
  ASSUME NEW N, NEW s, SorterInv(s, N), NEW u \in Nodes(s), NEW v \in Nodes(s),
         v \notin s.outAdj[u]
  PROVE  RemoveEdge(InsertEdge(s, u, v), u, v) = s
<1> DEFINE e == InsertEdge(s, u, v)
           r == RemoveEdge(e, u, v)
<1>0. /\ s = [sortOrder |-> s.sortOrder, hasDirtyBit |-> s.hasDirtyBit,
              pos |-> s.pos, inAdj |-> s.inAdj, outAdj |-> s.outAdj]
      /\ s.inAdj \in [Nodes(s) -> SUBSET Nodes(s)]
      /\ s.outAdj \in [Nodes(s) -> SUBSET Nodes(s)]
      /\ u \notin s.inAdj[v]
  BY DEF SorterInv, IsSorter, Symmetric
<1>1. /\ e.sortOrder = s.sortOrder /\ e.hasDirtyBit = s.hasDirtyBit /\ e.pos = s.pos
      /\ e.inAdj = [n \in Nodes(s) |-> s.inAdj[n] \cup IF n = v THEN {u} ELSE {}]
      /\ e.outAdj = [n \in Nodes(s) |-> s.outAdj[n] \cup IF n = u THEN {v} ELSE {}]
  BY DEF InsertEdge
<1>2. Nodes(e) = Nodes(s)
  BY <1>1 DEF Nodes
<1> HIDE DEF e
<1>3. r = [sortOrder |-> s.sortOrder, hasDirtyBit |-> s.hasDirtyBit, pos |-> s.pos,
           inAdj  |-> [n \in Nodes(s) |-> e.inAdj[n] \ IF n = v THEN {u} ELSE {}],
           outAdj |-> [n \in Nodes(s) |-> e.outAdj[n] \ IF n = u THEN {v} ELSE {}]]
  BY <1>1, <1>2 DEF RemoveEdge
<1>4. \A n \in Nodes(s) : /\ e.inAdj[n] \ (IF n = v THEN {u} ELSE {}) = s.inAdj[n]
                          /\ e.outAdj[n] \ (IF n = u THEN {v} ELSE {}) = s.outAdj[n]
  BY <1>0, <1>1
<1>5. /\ [n \in Nodes(s) |-> e.inAdj[n] \ IF n = v THEN {u} ELSE {}] = s.inAdj
      /\ [n \in Nodes(s) |-> e.outAdj[n] \ IF n = u THEN {v} ELSE {}] = s.outAdj
  BY <1>0, <1>4
<1>6. QED
  BY <1>0, <1>3, <1>5 DEF e

\* AddEdge accepts the edge exactly when it closes no cycle, and then the edge
\* is the only one gained; a refused edge leaves the sorter with the two nodes
\* added.  Either way the result is again a sorter in topological order.
LEMMA AddEdgeInv ==
  ASSUME NEW N, NEW s, SorterInv(s, N), NEW u \in N, NEW v \in N
  PROVE  LET t == AddNode(AddNode(s, u), v)
             r == AddEdge(s, u, v) IN
         /\ SorterInv(t, N) /\ Nodes(t) = Nodes(s) \cup {u, v}
         /\ SorterInv(r.sorter, N) /\ Nodes(r.sorter) = Nodes(t)
         /\ r.ok \in BOOLEAN
         /\ r.ok = TRUE <=> ~ ReachesIn(t, v, u)
         /\ r.ok = FALSE => r.sorter = t
         /\ \A m, n \in Nodes(t) :
               n \in r.sorter.outAdj[m]
                 <=> (n \in t.outAdj[m] \/ (r.ok = TRUE /\ m = u /\ n = v))
<1> DEFINE t == AddNode(AddNode(s, u), v)
           e == InsertEdge(t, u, v)
           r == AddEdge(s, u, v)
<1>1. SorterInv(t, N) /\ Nodes(t) = Nodes(s) \cup {u, v}
  BY AddNodeInv
<1>2. r = IF v \in t.outAdj[u] THEN [sorter |-> t, ok |-> TRUE]
          ELSE IF t.pos[u] < t.pos[v] THEN [sorter |-> e, ok |-> TRUE]
          ELSE Reorder(e, u, v)
  BY DEF AddEdge
<1> HIDE DEF t, r
<1>3. u \in Nodes(t) /\ v \in Nodes(t)
  BY <1>1
<1>4. /\ t.pos \in [Nodes(t) -> Nat]
      /\ t.outAdj \in [Nodes(t) -> SUBSET Nodes(t)]
      /\ \A m \in Nodes(t) : \A n \in t.outAdj[m] : t.pos[m] < t.pos[n]
  BY <1>1 DEF SorterInv, IsSorter, Topological
<1>5. t.pos[u] \in Nat /\ t.pos[v] \in Nat
  BY <1>3, <1>4
<1>6. /\ IsSorter(e, N) /\ PosInverts(e) /\ Symmetric(e)
      /\ Nodes(e) = Nodes(t) /\ e.pos = t.pos
      /\ v \in e.outAdj[u]
      /\ \A m, n \in Nodes(t) :
            n \in e.outAdj[m] <=> (n \in t.outAdj[m] \/ (m = u /\ n = v))
  BY <1>1, <1>3, InsertEdgeFacts
<1>7. t.pos[u] < t.pos[v] => ~ ReachesIn(t, v, u)
  <2>1. ReachesIn(t, v, u) => t.pos[v] <= t.pos[u]
    BY <1>1, <1>3, ReachesForward
  <2>2. QED
    BY <2>1, <1>5
<1>8. e.outAdj \in [Nodes(t) -> SUBSET Nodes(t)]
  BY <1>6 DEF IsSorter
<1> DEFINE Goal(q) ==
             /\ SorterInv(q.sorter, N) /\ Nodes(q.sorter) = Nodes(t)
             /\ q.ok \in BOOLEAN
             /\ q.ok = TRUE <=> ~ ReachesIn(t, v, u)
             /\ q.ok = FALSE => q.sorter = t
             /\ \A m, n \in Nodes(t) :
                   n \in q.sorter.outAdj[m]
                     <=> (n \in t.outAdj[m] \/ (q.ok = TRUE /\ m = u /\ n = v))
<1>9. CASE v \in t.outAdj[u]
  <2>1. r = [sorter |-> t, ok |-> TRUE]
    BY <1>2, <1>9
  <2>2. r.sorter = t /\ r.ok = TRUE
    BY <2>1
  <2>3. ~ ReachesIn(t, v, u)
    BY <1>3, <1>4, <1>7, <1>9
  <2>4. Goal(r)
    BY <2>2, <2>3, <1>1, <1>9
  <2>5. QED
    BY <2>4, <1>1 DEF t, r
<1>10. CASE v \notin t.outAdj[u] /\ t.pos[u] < t.pos[v]
  <2>1. r = [sorter |-> e, ok |-> TRUE]
    BY <1>2, <1>10
  <2>2. r.sorter = e /\ r.ok = TRUE
    BY <2>1
  <2> HIDE DEF e
  <2>3. Topological(e)
    BY <1>4, <1>6, <1>8, <1>10 DEF Topological
  <2>4. Goal(r)
    BY <2>2, <2>3, <1>6, <1>7, <1>10 DEF SorterInv
  <2>5. QED
    BY <2>4, <1>1 DEF t, r
<1>11. CASE v \notin t.outAdj[u] /\ ~ (t.pos[u] < t.pos[v])
  <2>1. t.pos[v] <= t.pos[u]
    BY <1>5, <1>11
  <2>2. r = Reorder(e, u, v)
    BY <1>2, <1>11
  <2>3. HitsUpperBound(e, v, e.pos[u]) <=> ReachesIn(t, v, u)
    BY <2>1, <1>1, <1>3, <1>6, SearchDecidesCycle
  <2>4. CASE HitsUpperBound(e, v, e.pos[u])
    <3>1. r = [sorter |-> RemoveEdge(e, u, v), ok |-> FALSE]
      BY <2>2, <2>4 DEF Reorder
    <3>2. RemoveEdge(e, u, v) = t
      BY <1>1, <1>3, <1>11, RemoveUndoesInsert
    <3>3. r.sorter = t /\ r.ok = FALSE
      BY <3>1, <3>2
    <3>4. Goal(r)
      BY <3>3, <2>3, <2>4, <1>1
    <3>5. QED
      BY <3>4, <1>1 DEF t, r
  <2>5. CASE ~ HitsUpperBound(e, v, e.pos[u])
    <3>1. r = [sorter |-> ShiftRegion(e, u, v), ok |-> TRUE]
      BY <2>2, <2>5 DEF Reorder
    <3>2. r.sorter = ShiftRegion(e, u, v) /\ r.ok = TRUE
      BY <3>1
    <3> HIDE DEF e
    <3>3. Disordered(e, N, u, v)
      <4>1. \A m \in Nodes(t) : \A n \in e.outAdj[m] :
              t.pos[m] < t.pos[n] \/ (m = u /\ n = v)
        BY <1>4, <1>6, <1>8
      <4>2. QED
        BY <4>1, <2>1, <1>3, <1>6 DEF Disordered
    <3>4. SorterInv(ShiftRegion(e, u, v), N)
      BY <3>3, <2>5, ShiftRegionInv
    <3>5. Nodes(ShiftRegion(e, u, v)) = Nodes(e) /\ ShiftRegion(e, u, v).outAdj = e.outAdj
      BY <3>3, <2>5, ShiftRegionMoves
    <3>6. Goal(r)
      BY <3>2, <3>4, <3>5, <2>3, <2>5, <1>6
    <3>7. QED
      BY <3>6, <1>1 DEF t, r
  <2>6. QED
    BY <2>4, <2>5
<1>12. QED
  BY <1>9, <1>10, <1>11

\* Whatever AddEdge answers, the sorter knows both nodes afterwards.
LEMMA AddEdgeNodes ==
  ASSUME NEW N, NEW s, SorterInv(s, N), NEW u \in N, NEW v \in N
  PROVE  /\ Nodes(AddNode(AddNode(s, u), v)) = Nodes(s) \cup {u, v}
         /\ Nodes(AddEdge(s, u, v).sorter) = Nodes(s) \cup {u, v}
<1> DEFINE t == AddNode(AddNode(s, u), v)
           e == InsertEdge(t, u, v)
<1>1. Nodes(t) = Nodes(s) \cup {u, v}
  BY AddNodeInv
<1> HIDE DEF t
<1>2. Nodes(e) = Nodes(t)
  BY DEF InsertEdge, Nodes
<1>3. Nodes(RemoveEdge(e, u, v)) = Nodes(e)
  BY DEF RemoveEdge, Nodes
<1>4. Nodes(ShiftRegion(e, u, v)) = Nodes(e)
  BY DEF ShiftRegion, Reposition, Nodes
<1> HIDE DEF e
<1>5. AddEdge(s, u, v).sorter \in {t, e, RemoveEdge(e, u, v), ShiftRegion(e, u, v)}
  BY DEF AddEdge, Reorder, t, e
<1>6. QED
  BY <1>1, <1>2, <1>3, <1>4, <1>5 DEF t

----------------------------------------------------------------------------
(***************************************************************************)
(* Order and edges, as the users of a sorter see them                      *)
(***************************************************************************)

\* What is an edge, without the pair.
LEMMA EdgesOfSorter ==
  ASSUME NEW N, NEW s, SorterInv(s, N)
  PROVE  /\ EdgesOf(s) \subseteq Nodes(s) \X Nodes(s)
         /\ \A m, n : <<m, n>> \in EdgesOf(s)
                        <=> (m \in Nodes(s) /\ n \in Nodes(s) /\ n \in s.outAdj[m])
BY DEF EdgesOf

\* sortOrder lists every node once and no edge leads backwards in it.
LEMMA SortOrderIsExtension ==
  ASSUME NEW N, NEW s, SorterInv(s, N)
  PROVE  IsLinearExtension(s.sortOrder, Nodes(s), EdgesOf(s))
<1> DEFINE len == Len(s.sortOrder)
<1>1. /\ len \in Nat /\ DOMAIN s.sortOrder = 1 .. len
      /\ s.sortOrder = [i \in 1 .. len |-> s.sortOrder[i]]
      /\ \A n \in Nodes(s) : s.pos[n] \in 1 .. len /\ s.sortOrder[s.pos[n]] = n
      /\ \A i \in 1 .. len : s.sortOrder[i] \in Nodes(s) /\ s.pos[s.sortOrder[i]] = i
  BY DEF SorterInv, IsSorter, PosInverts
<1>2. Cardinality(Nodes(s)) = len
  <2>1. s.sortOrder \in Bijection(1 .. len, Nodes(s))
    BY <1>1 DEF Bijection, Injection, IsInjective, Surjection
  <2>2. IsFiniteSet(1 .. len) /\ Cardinality(1 .. len) = len
    BY <1>1, FS_Interval
  <2>3. QED
    BY <2>1, <2>2, FS_Bijection DEF ExistsBijection
<1>3. {s.sortOrder[i] : i \in DOMAIN s.sortOrder} = Nodes(s)
  BY <1>1
<1>4. ASSUME NEW i \in DOMAIN s.sortOrder, NEW j \in DOMAIN s.sortOrder,
             <<s.sortOrder[i], s.sortOrder[j]>> \in EdgesOf(s)
      PROVE  i < j
  <2>1. s.sortOrder[j] \in s.outAdj[s.sortOrder[i]] /\ s.sortOrder[i] \in Nodes(s)
    BY <1>4, EdgesOfSorter
  <2>2. s.pos[s.sortOrder[i]] < s.pos[s.sortOrder[j]]
    BY <2>1 DEF SorterInv, Topological
  <2>3. QED
    BY <2>2, <1>1
<1>5. QED
  BY <1>1, <1>2, <1>3, <1>4 DEF IsLinearExtension

\* What stays keeps its place among what stays.
LEMMA SamePositionsKeepOrder ==
  ASSUME NEW N, NEW s, SorterInv(s, N), NEW t, SorterInv(t, N), Nodes(t) \subseteq Nodes(s),
         \A m, n \in Nodes(t) : t.pos[m] < t.pos[n] <=> s.pos[m] < s.pos[n]
  PROVE  KeepsOrder(s.sortOrder, t.sortOrder)
<1>1. /\ \A i \in DOMAIN s.sortOrder : s.sortOrder[i] \in Nodes(s) /\ s.pos[s.sortOrder[i]] = i
      /\ \A i \in DOMAIN t.sortOrder : t.sortOrder[i] \in Nodes(t) /\ t.pos[t.sortOrder[i]] = i
  BY DEF SorterInv, PosInverts
<1>2. QED
  BY <1>1 DEF KeepsOrder

\* A new node has no edges.
LEMMA AddNodeEdges ==
  ASSUME NEW N, NEW s, SorterInv(s, N), NEW u \in N
  PROVE  /\ Nodes(AddNode(s, u)) = Nodes(s) \cup {u}
         /\ EdgesOf(AddNode(s, u)) = EdgesOf(s)
<1> DEFINE a == AddNode(s, u)
<1>1. /\ SorterInv(a, N) /\ Nodes(a) = Nodes(s) \cup {u}
      /\ \A m, n \in Nodes(a) : n \in a.outAdj[m] <=> (m \in Nodes(s) /\ n \in s.outAdj[m])
  BY AddNodeInv
<1> HIDE DEF a
<1>2. s.outAdj \in [Nodes(s) -> SUBSET Nodes(s)]
  BY DEF SorterInv, IsSorter
<1>3. EdgesOf(a) = EdgesOf(s)
  BY <1>1, <1>2 DEF EdgesOf
<1>4. QED
  BY <1>1, <1>3 DEF a

\* Making sure that both nodes are known adds no edge.
LEMMA AddNodeTwiceEdges ==
  ASSUME NEW N, NEW s, SorterInv(s, N), NEW u \in N, NEW v \in N
  PROVE  /\ \A m, n \in Nodes(AddNode(AddNode(s, u), v)) :
               n \in AddNode(AddNode(s, u), v).outAdj[m] <=> (m \in Nodes(s) /\ n \in s.outAdj[m])
         /\ EdgesOf(AddNode(AddNode(s, u), v)) = EdgesOf(s)
<1> DEFINE a == AddNode(s, u)
           t == AddNode(a, v)
<1>1. /\ SorterInv(a, N) /\ Nodes(a) = Nodes(s) \cup {u}
      /\ \A m, n \in Nodes(a) : n \in a.outAdj[m] <=> (m \in Nodes(s) /\ n \in s.outAdj[m])
  BY AddNodeInv
<1> HIDE DEF a
<1>2. /\ SorterInv(t, N) /\ Nodes(t) = Nodes(a) \cup {v}
      /\ \A m, n \in Nodes(t) : n \in t.outAdj[m] <=> (m \in Nodes(a) /\ n \in a.outAdj[m])
  BY <1>1, AddNodeInv
<1> HIDE DEF t
<1>3. /\ s.outAdj \in [Nodes(s) -> SUBSET Nodes(s)]
      /\ a.outAdj \in [Nodes(a) -> SUBSET Nodes(a)]
      /\ t.outAdj \in [Nodes(t) -> SUBSET Nodes(t)]
  BY <1>1, <1>2 DEF SorterInv, IsSorter
<1>4. \A m, n \in Nodes(t) : n \in t.outAdj[m] <=> (m \in Nodes(s) /\ n \in s.outAdj[m])
  BY <1>1, <1>2, <1>3
<1>5. EdgesOf(t) = EdgesOf(s)
  BY <1>1, <1>2, <1>3, <1>4 DEF EdgesOf
<1>6. QED
  BY <1>4, <1>5 DEF t, a

\* Between more nodes and along more edges a search finds no less.
LEMMA ClosureGrows ==
  ASSUME NEW D, NEW next \in [D -> SUBSET D], NEW E, NEW more \in [E -> SUBSET E],
         D \subseteq E, \A n \in D : next[n] \subseteq more[n], NEW a \in D
  PROVE  Closure(a, next) \subseteq Closure(a, more)
<1> DEFINE S == Closure(a, more) \cap D
<1>1. /\ a \in Closure(a, more)
      /\ \A x \in Closure(a, more) : more[x] \subseteq Closure(a, more)
  BY ClosureIsLeast
<1>2. S \in SUBSET D /\ a \in S /\ \A x \in S : next[x] \subseteq S
  BY <1>1
<1> HIDE DEF S
<1>3. Closure(a, next) \subseteq S
  BY <1>2, ClosureIsLeast
<1>4. QED
  BY <1>3 DEF S

\* The map from a node to the nodes that a pair leads to.
Successors(pairs, N) == [m \in N |-> {p[2] : p \in {q \in pairs : q[1] = m}}]

\* An edge is accepted if it closes no cycle with the edges of the sorter and
\* others that it may not know.
LEMMA AcyclicEdgeIsAccepted ==
  ASSUME NEW N, NEW s, SorterInv(s, N), NEW u \in N, NEW v \in N,
         NEW P \in SUBSET (N \X N), EdgesOf(s) \subseteq P,
         u \notin Closure(v, Successors(P, N))
  PROVE  /\ Nodes(AddEdge(s, u, v).sorter) = Nodes(s) \cup {u, v}
         /\ EdgesOf(AddEdge(s, u, v).sorter) = EdgesOf(s) \cup {<<u, v>>}
<1> DEFINE t == AddNode(AddNode(s, u), v)
           r == AddEdge(s, u, v)
<1>1. Nodes(r.sorter) = Nodes(s) \cup {u, v} /\ Nodes(t) = Nodes(s) \cup {u, v}
  BY AddEdgeNodes
<1>2. SorterInv(t, N)
  BY AddEdgeInv
<1>3. EdgesOf(t) = EdgesOf(s)
  BY AddNodeTwiceEdges
<1>4. r.ok = TRUE <=> ~ ReachesIn(t, v, u)
  BY AddEdgeInv
<1>5. \A m, n \in Nodes(t) :
        n \in r.sorter.outAdj[m] <=> (n \in t.outAdj[m] \/ (r.ok = TRUE /\ m = u /\ n = v))
  BY AddEdgeInv
<1> HIDE DEF t
<1>6. ~ ReachesIn(t, v, u)
  <2>1. /\ t.outAdj \in [Nodes(t) -> SUBSET Nodes(t)] /\ Nodes(t) \subseteq N
        /\ v \in Nodes(t)
    BY <1>1, <1>2 DEF SorterInv, IsSorter
  <2>2. Successors(P, N) \in [N -> SUBSET N]
    BY DEF Successors
  <2>3. ASSUME NEW n \in Nodes(t), NEW m \in t.outAdj[n] PROVE m \in Successors(P, N)[n]
    <3>1. <<n, m>> \in P /\ n \in N
      BY <2>1, <2>3, <1>3 DEF EdgesOf
    <3>2. <<n, m>>[1] = n /\ <<n, m>>[2] = m
      OBVIOUS
    <3>3. QED
      BY <3>1, <3>2 DEF Successors
  <2>4. Closure(v, t.outAdj) \subseteq Closure(v, Successors(P, N))
    BY <2>1, <2>2, <2>3, ClosureGrows
  <2>5. QED
    BY <2>4 DEF ReachesIn
<1>7. EdgesOf(r.sorter) = EdgesOf(t) \cup {<<u, v>>}
  <2> DEFINE q == r.sorter
  <2>1. \A m, n \in Nodes(t) : n \in q.outAdj[m] <=> (n \in t.outAdj[m] \/ (m = u /\ n = v))
    BY <1>4, <1>5, <1>6
  <2>2. Nodes(q) = Nodes(t) /\ u \in Nodes(t) /\ v \in Nodes(t)
    BY <1>1
  <2> HIDE DEF q, r
  <2>3. EdgesOf(q) = EdgesOf(t) \cup {<<u, v>>}
    BY <2>1, <2>2 DEF EdgesOf
  <2>4. QED
    BY <2>3 DEF q
<1>8. QED
  BY <1>1, <1>3, <1>7 DEF r

----------------------------------------------------------------------------
(***************************************************************************)
(* Loops                                                                   *)
(***************************************************************************)

\* Induction up to a bound, for a set of numbers: what holds before the first
\* turn of a loop and is kept by every turn holds after each of them.
LEMMA BoundedInduction ==
  ASSUME NEW n \in Nat, NEW T, 0 \in T, \A i \in 0 .. n - 1 : i \in T => i + 1 \in T
  PROVE  0 .. n \subseteq T
<1> DEFINE D == (0 .. n) \ T
<1>1. D \in SUBSET Nat /\ IsFiniteSet(D)
  <2>1. IsFiniteSet(0 .. n)
    BY FS_Interval
  <2>2. D \subseteq 0 .. n
    OBVIOUS
  <2> HIDE DEF D
  <2>3. IsFiniteSet(D)
    BY <2>1, <2>2, FS_Subset
  <2>4. QED
    BY <2>2, <2>3
<1> SUFFICES ASSUME D # {} PROVE FALSE
  OBVIOUS
<1> HIDE DEF D
<1>2. Cardinality(D) \in Nat /\ Cardinality(D) # 0
  BY <1>1, FS_CardinalityType, FS_EmptySet
<1> DEFINE m == SortedSeq(D)[1]
<1>3. /\ SortedSeq(D) \in [1 .. Cardinality(D) -> D]
      /\ \A k, l \in 1 .. Cardinality(D) : k < l <=> SortedSeq(D)[k] < SortedSeq(D)[l]
      /\ \A i \in D : \E k \in 1 .. Cardinality(D) : SortedSeq(D)[k] = i
  BY <1>1, SortedSeqSorts
<1>4. m \in D /\ m \in Nat
  <2>1. 1 \in 1 .. Cardinality(D)
    BY <1>2
  <2>2. m \in D
    BY <2>1, <1>3
  <2>3. QED
    BY <2>2, <1>1
<1>5. \A i \in D : m <= i
  <2>1. TAKE i \in D
  <2>2. PICK k \in 1 .. Cardinality(D) : SortedSeq(D)[k] = i
    BY <1>3
  <2>3. 1 \in 1 .. Cardinality(D) /\ i \in Nat
    BY <1>1, <1>2
  <2>4. k < 1 <=> i < m
    BY <1>3, <2>2, <2>3
  <2>5. QED
    BY <2>2, <2>3, <2>4, <1>2, <1>4
<1> HIDE DEF m
<1>6. m \in 0 .. n /\ m \notin T /\ m # 0
  BY <1>4 DEF D
<1>7. m - 1 \in 0 .. n - 1 /\ m - 1 \notin D
  BY <1>4, <1>5, <1>6
<1>8. m - 1 \in T
  BY <1>6, <1>7 DEF D
<1>9. (m - 1) + 1 = m
  BY <1>4
<1>10. QED
  BY <1>6, <1>7, <1>8, <1>9
=============================================================================
