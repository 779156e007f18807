------------------------ MODULE FunctionLookup_proofs ------------------------
(***************************************************************************)
(* What holds of the catalogue for every program and every order in which  *)
(* its constructors run.                                                   *)
(***************************************************************************)
EXTENDS FunctionLookup, TopoSortLemmas, SequenceTheorems, TLAPS

\* While the program runs on, what was registered is in the registry, at the
\* place it was registered from first; what the registry holds was registered.
CatalogueInv ==
  /\ pending \subseteq linked
  /\ phase = "running" => pending = {}
  /\ phase # "aborted" =>
       \A r \in linked \ pending : r.uri \in DOMAIN registry /\ registry[r.uri].srcLoc = r.srcLoc
  /\ \A u \in DOMAIN registry :
       \E r \in linked : r.uri = u /\ registry[u] = [srcLoc |-> r.srcLoc, spec |-> r.spec]

\* At the start nothing is registered.
LEMMA CatalogueInit == Init => CatalogueInv
BY DEF Init, CatalogueInv

\* A registration that is refused ends the program; the others are in the registry.
LEMMA RegisterInv ==
  ASSUME CatalogueInv, RunConstructor
  PROVE  CatalogueInv'
<1>1. PICK r \in pending : RegisterFunction(r) /\ pending' = pending \ {r}
  BY DEF RunConstructor
<1>2. phase = "loading" /\ UNCHANGED linked /\ r \in linked
  BY <1>1 DEF RunConstructor, CatalogueInv
<1>3. CASE r.uri \notin DOMAIN registry /\ registry' = Entered(r) /\ UNCHANGED phase
  <2>1. /\ DOMAIN registry' = DOMAIN registry \cup {r.uri}
        /\ registry'[r.uri] = [srcLoc |-> r.srcLoc, spec |-> r.spec]
        /\ \A u \in DOMAIN registry : registry'[u] = registry[u]
    BY <1>3 DEF Entered
  <2>2. \A s \in linked' \ pending' : s.uri \in DOMAIN registry' /\ registry'[s.uri].srcLoc = s.srcLoc
    BY <1>1, <1>2, <2>1 DEF CatalogueInv
  <2>3. \A u \in DOMAIN registry' :
           \E s \in linked' : s.uri = u /\ registry'[u] = [srcLoc |-> s.srcLoc, spec |-> s.spec]
    BY <1>2, <2>1 DEF CatalogueInv
  <2>4. QED
    BY <1>1, <1>2, <1>3, <2>2, <2>3 DEF CatalogueInv
<1>4. CASE /\ r.uri \in DOMAIN registry /\ UNCHANGED registry
           /\ phase' = IF registry[r.uri].srcLoc = r.srcLoc THEN phase ELSE "aborted"
  <2>1. phase' # "aborted" => registry[r.uri].srcLoc = r.srcLoc
    BY <1>4
  <2>2. phase' # "running"
    BY <1>2, <1>4
  <2>3. QED
    BY <1>1, <1>2, <1>4, <2>1, <2>2 DEF CatalogueInv
<1>5. QED
  BY <1>1, <1>3, <1>4 DEF RegisterFunction

\* Only the constructors change the registry.
LEMMA CatalogueNext == CatalogueInv /\ [Next]_vars => CatalogueInv'
<1> SUFFICES ASSUME CatalogueInv, [Next]_vars PROVE CatalogueInv'
  OBVIOUS
<1>1. CASE RunConstructor
  BY <1>1, RegisterInv
<1>2. CASE EnterMain
  BY <1>2 DEF EnterMain, CatalogueInv
<1>3. ASSUME UNCHANGED <<linked, pending, registry>>, phase' \in {phase, "aborted"}
      PROVE  CatalogueInv'
  BY <1>3 DEF CatalogueInv
<1>4. CASE BeginListing
  BY <1>3, <1>4 DEF BeginListing, GetAvailableFuncs
<1>5. CASE NextPage
  BY <1>3, <1>5 DEF NextPage, GetAvailableFuncs
<1>6. CASE Lookup
  BY <1>3, <1>6 DEF Lookup
<1>7. CASE UNCHANGED vars
  BY <1>3, <1>7 DEF vars
<1>8. QED
  BY <1>1, <1>2, <1>4, <1>5, <1>6, <1>7 DEF Next

\* It holds in every state.
THEOREM CatalogueInvariant == Spec => []CatalogueInv
BY CatalogueInit, CatalogueNext, PTL DEF Spec

\* Whatever order the linker chose, main is entered only by a program that
\* registers every uri from one place.
THEOREM OnePlacePerUriAlways == Spec => []OnePlacePerUri
<1>1. CatalogueInv => OnePlacePerUri
  BY DEF CatalogueInv, OnePlacePerUri
<1>2. QED
  BY <1>1, CatalogueInvariant, PTL

----------------------------------------------------------------------------
(***************************************************************************)
(* The order of uris                                                       *)
(***************************************************************************)

\* The first place at which u differs from v tells that u comes before v.
LEMMA BeforeByPlace ==
  ASSUME NEW u \in Uri, NEW v \in Uri
  PROVE  Before(u, v) <=>
           \E i \in 1 .. Len(v) :
             /\ i <= Len(u) + 1
             /\ \A j \in 1 .. i - 1 : u[j] = v[j]
             /\ i <= Len(u) => u[i] < v[i]
<1>1. /\ Len(u) \in Nat /\ Len(v) \in Nat
      /\ \A j \in 1 .. Len(u) : u[j] \in Int
      /\ \A j \in 1 .. Len(v) : v[j] \in Int
  BY DEF Uri
<1>2. IsPrefix(u, v) <=> Len(u) <= Len(v) /\ \A j \in 1 .. Len(u) : u[j] = v[j]
  <2>1. SUFFICES ASSUME Len(u) <= Len(v)
                 PROVE  SubSeq(u, 1, Len(u)) = SubSeq(v, 1, Len(u)) <=> \A j \in 1 .. Len(u) : u[j] = v[j]
    BY DEF IsPrefix
  <2>2. /\ SubSeq(u, 1, Len(u)) \in Seq(Int) /\ Len(SubSeq(u, 1, Len(u))) = Len(u)
        /\ \A j \in 1 .. Len(u) : SubSeq(u, 1, Len(u))[j] = u[j]
    BY <1>1 DEF Uri
  <2>3. /\ SubSeq(v, 1, Len(u)) \in Seq(Int) /\ Len(SubSeq(v, 1, Len(u))) = Len(u)
        /\ \A j \in 1 .. Len(u) : SubSeq(v, 1, Len(u))[j] = v[j]
    BY <1>1, <2>1 DEF Uri
  <2>4. QED
    BY <2>2, <2>3
<1>3. u = v <=> Len(u) = Len(v) /\ \A j \in 1 .. Len(u) : u[j] = v[j]
  BY <1>1 DEF Uri
<1>4. IsStrictPrefix(u, v) <=> Len(u) < Len(v) /\ \A j \in 1 .. Len(u) : u[j] = v[j]
  BY <1>1, <1>2, <1>3 DEF IsStrictPrefix
<1>5. IsStrictPrefix(u, v) <=>
        /\ Len(u) + 1 \in 1 .. Len(v)
        /\ \A j \in 1 .. Len(u) : u[j] = v[j]
  BY <1>1, <1>4
<1>6. ASSUME Before(u, v)
      PROVE  \E i \in 1 .. Len(v) :
               /\ i <= Len(u) + 1
               /\ \A j \in 1 .. i - 1 : u[j] = v[j]
               /\ i <= Len(u) => u[i] < v[i]
  <2>1. CASE IsStrictPrefix(u, v)
    <3> DEFINE i == Len(u) + 1
    <3>1. i \in 1 .. Len(v) /\ i <= Len(u) + 1 /\ ~ (i <= Len(u)) /\ i - 1 = Len(u)
      BY <1>1, <1>5, <2>1
    <3>2. \A j \in 1 .. i - 1 : u[j] = v[j]
      BY <1>5, <2>1, <3>1
    <3>3. QED
      BY <3>1, <3>2
  <2>2. CASE \E i \in 1 .. Len(u) :
               /\ i <= Len(v) /\ u[i] < v[i]
               /\ \A j \in 1 .. i - 1 : u[j] = v[j]
    BY <1>1, <2>2
  <2>3. QED
    BY <1>6, <2>1, <2>2 DEF Before
<1>7. ASSUME NEW i \in 1 .. Len(v), i <= Len(u) + 1,
             \A j \in 1 .. i - 1 : u[j] = v[j], i <= Len(u) => u[i] < v[i]
      PROVE  Before(u, v)
  <2>1. CASE i <= Len(u)
    BY <1>1, <1>7, <2>1 DEF Before
  <2>2. CASE i = Len(u) + 1
    BY <1>1, <1>5, <1>7, <2>2 DEF Before
  <2>3. QED
    BY <1>1, <1>7, <2>1, <2>2
<1>8. QED
  BY <1>6, <1>7

\* No string comes before itself.
LEMMA BeforeIrreflexive ==
  ASSUME NEW u \in Uri
  PROVE  ~ Before(u, u)
<1>1. Len(u) \in Nat /\ \A j \in 1 .. Len(u) : u[j] \in Int
  BY DEF Uri
<1>2. \A j \in 1 .. Len(u) : ~ (u[j] < u[j])
  BY <1>1
<1>3. QED
  BY <1>1, <1>2, BeforeByPlace

\* What comes before an earlier string comes before the later one.
LEMMA BeforeTransitive ==
  ASSUME NEW u \in Uri, NEW v \in Uri, NEW w \in Uri, Before(u, v), Before(v, w)
  PROVE  Before(u, w)
<1>1. /\ Len(u) \in Nat /\ Len(v) \in Nat /\ Len(w) \in Nat
      /\ \A j \in 1 .. Len(u) : u[j] \in Int
      /\ \A j \in 1 .. Len(v) : v[j] \in Int
      /\ \A j \in 1 .. Len(w) : w[j] \in Int
  BY DEF Uri
<1>2. PICK i \in 1 .. Len(v) :
        /\ i <= Len(u) + 1
        /\ \A j \in 1 .. i - 1 : u[j] = v[j]
        /\ i <= Len(u) => u[i] < v[i]
  BY BeforeByPlace
<1>3. PICK k \in 1 .. Len(w) :
        /\ k <= Len(v) + 1
        /\ \A j \in 1 .. k - 1 : v[j] = w[j]
        /\ k <= Len(v) => v[k] < w[k]
  BY BeforeByPlace
<1>4. \E m \in 1 .. Len(w) :
        /\ m <= Len(u) + 1
        /\ \A j \in 1 .. m - 1 : u[j] = w[j]
        /\ m <= Len(u) => u[m] < w[m]
  <2>1. CASE i < k
    <3>1. i \in 1 .. Len(w) /\ i <= Len(u) + 1 /\ w[i] = v[i] /\ i <= Len(u) => u[i] < v[i]
      BY <1>1, <1>2, <1>3, <2>1
    <3>2. \A j \in 1 .. i - 1 : u[j] = w[j]
      BY <1>1, <1>2, <1>3, <2>1
    <3>3. i \in 1 .. Len(w) /\ i <= Len(u) + 1 /\ (i <= Len(u) => u[i] < w[i])
      BY <1>1, <1>2, <1>3, <2>1
    <3>4. QED
      BY <3>2, <3>3
  <2>2. CASE i = k
    <3>1. \A j \in 1 .. k - 1 : u[j] = w[j]
      BY <1>1, <1>2, <1>3, <2>2
    <3>2. k <= Len(u) + 1 /\ k <= Len(v)
      BY <1>1, <1>2, <2>2
    <3>3. k <= Len(u) => u[k] < w[k]
      BY <1>1, <1>2, <1>3, <2>2, <3>2
    <3>4. QED
      BY <3>1, <3>2, <3>3
  <2>3. CASE k < i
    <3>1. k <= Len(u) /\ k <= Len(v) /\ u[k] = v[k] /\ v[k] < w[k]
      BY <1>1, <1>2, <1>3, <2>3
    <3>2. \A j \in 1 .. k - 1 : u[j] = w[j]
      BY <1>1, <1>2, <1>3, <2>3
    <3>3. k <= Len(u) + 1 /\ u[k] < w[k]
      BY <1>1, <3>1
    <3>4. QED
      BY <3>2, <3>3
  <2>4. QED
    BY <1>1, <1>2, <1>3, <2>1, <2>2, <2>3
<1>5. QED
  BY <1>4, BeforeByPlace

\* The least of some natural numbers.
LEMMA LeastNumber ==
  ASSUME NEW D \in SUBSET Nat, IsFiniteSet(D), D # {}
  PROVE  \E m \in D : \A k \in D : m <= k
<1> DEFINE sq == SortedSeq(D)
<1>1. Cardinality(D) \in Nat /\ Cardinality(D) # 0
  BY FS_CardinalityType, FS_EmptySet
<1>2. /\ sq \in [1 .. Cardinality(D) -> D]
      /\ \A k, l \in 1 .. Cardinality(D) : k < l <=> sq[k] < sq[l]
      /\ \A i \in D : \E k \in 1 .. Cardinality(D) : sq[k] = i
  BY SortedSeqSorts
<1> HIDE DEF sq
<1>3. 1 \in 1 .. Cardinality(D) /\ sq[1] \in D
  BY <1>1, <1>2
<1>4. ASSUME NEW d \in D PROVE sq[1] <= d
  <2>1. PICK k \in 1 .. Cardinality(D) : sq[k] = d
    BY <1>2
  <2>2. k = 1 \/ 1 < k
    BY <1>1
  <2>3. sq[1] \in Nat /\ (1 < k => sq[1] < sq[k]) /\ sq[k] \in Nat
    BY <1>2, <1>3
  <2>4. QED
    BY <2>1, <2>2, <2>3
<1>5. QED
  BY <1>3, <1>4

\* Of two different strings one comes before the other.
LEMMA BeforeTotal ==
  ASSUME NEW u \in Uri, NEW v \in Uri, u # v
  PROVE  Before(u, v) \/ Before(v, u)
<1> DEFINE D == {j \in 1 .. Len(u) : j <= Len(v) /\ u[j] # v[j]}
<1>1. /\ Len(u) \in Nat /\ Len(v) \in Nat
      /\ \A j \in 1 .. Len(u) : u[j] \in Int
      /\ \A j \in 1 .. Len(v) : v[j] \in Int
      /\ u = v <=> Len(u) = Len(v) /\ \A j \in 1 .. Len(u) : u[j] = v[j]
  BY DEF Uri
<1>2. CASE D = {}
  <2>1. CASE Len(u) < Len(v)
    <3>1. \A j \in 1 .. Len(u) + 1 - 1 : u[j] = v[j]
      BY <1>1, <1>2, <2>1
    <3>2. Len(u) + 1 \in 1 .. Len(v) /\ ~ (Len(u) + 1 <= Len(u)) /\ Len(u) + 1 <= Len(u) + 1
      BY <1>1, <2>1
    <3>3. QED
      BY <3>1, <3>2, BeforeByPlace
  <2>2. CASE Len(v) < Len(u)
    <3>1. \A j \in 1 .. Len(v) + 1 - 1 : v[j] = u[j]
      BY <1>1, <1>2, <2>2
    <3>2. Len(v) + 1 \in 1 .. Len(u) /\ ~ (Len(v) + 1 <= Len(v)) /\ Len(v) + 1 <= Len(v) + 1
      BY <1>1, <2>2
    <3>3. QED
      BY <3>1, <3>2, BeforeByPlace
  <2>3. QED
    BY <1>1, <1>2, <2>1, <2>2
<1>3. CASE D # {}
  <2>1. D \in SUBSET Nat /\ IsFiniteSet(D)
    <3>1. IsFiniteSet(1 .. Len(u))
      BY <1>1, FS_Interval
    <3>2. QED
      BY <1>1, <3>1, FS_Subset
  <2> HIDE DEF D
  <2>2. PICK m \in D : \A k \in D : m <= k
    BY <1>3, <2>1, LeastNumber
  <2> USE DEF D
  <2>3. m \in 1 .. Len(u) /\ m \in 1 .. Len(v) /\ u[m] # v[m]
    BY <1>1
  <2>4. \A j \in 1 .. m - 1 : u[j] = v[j]
    BY <1>1, <2>2, <2>3
  <2> HIDE DEF D
  <2>5. u[m] < v[m] \/ v[m] < u[m]
    BY <1>1, <2>3
  <2>6. m <= Len(u) + 1 /\ m <= Len(v) + 1
    BY <1>1, <2>3
  <2>7. CASE u[m] < v[m]
    BY <2>3, <2>4, <2>6, <2>7, BeforeByPlace
  <2>8. CASE v[m] < u[m]
    <3>1. \A j \in 1 .. m - 1 : v[j] = u[j]
      BY <2>4
    <3>2. QED
      BY <2>3, <3>1, <2>6, <2>8, BeforeByPlace
  <2>9. QED
    BY <2>5, <2>7, <2>8
<1>4. QED
  BY <1>2, <1>3

\* The uris of S that come before u.
Preceding(S, u) == {v \in S : Before(v, u)}

\* How many precede a uri grows with the uri.
LEMMA PrecedingGrow ==
  ASSUME NEW S \in SUBSET Uri, IsFiniteSet(S)
  PROVE  /\ \A u \in S : Cardinality(Preceding(S, u)) \in 0 .. Cardinality(S) - 1
         /\ \A u, v \in S : Before(u, v) => Cardinality(Preceding(S, u)) < Cardinality(Preceding(S, v))
<1>1. ASSUME NEW u \in S
      PROVE  /\ IsFiniteSet(Preceding(S, u)) /\ Cardinality(Preceding(S, u)) \in Nat
             /\ IsFiniteSet(Preceding(S, u) \cup {u})
             /\ Cardinality(Preceding(S, u) \cup {u}) = Cardinality(Preceding(S, u)) + 1
  <2>1. Preceding(S, u) \in SUBSET S
    BY DEF Preceding
  <2>2. IsFiniteSet(Preceding(S, u))
    BY <2>1, FS_Subset
  <2>3. u \notin Preceding(S, u)
    BY BeforeIrreflexive DEF Preceding
  <2>4. QED
    BY <2>2, <2>3, FS_AddElement, FS_CardinalityType
<1>2. ASSUME NEW u \in S, NEW v \in S, Before(u, v)
      PROVE  Cardinality(Preceding(S, u)) < Cardinality(Preceding(S, v))
  <2>1. \A w \in S : Before(w, u) => Before(w, v)
    BY <1>2, BeforeTransitive
  <2>2. Preceding(S, u) \cup {u} \in SUBSET Preceding(S, v)
    BY <1>2, <2>1 DEF Preceding
  <2>3. Cardinality(Preceding(S, u) \cup {u}) <= Cardinality(Preceding(S, v))
    BY <1>1, <2>2, FS_Subset
  <2> DEFINE a == Cardinality(Preceding(S, u))
             b == Cardinality(Preceding(S, v))
  <2>4. a \in Nat /\ b \in Nat /\ a + 1 <= b
    <3>1. a \in Nat /\ b \in Nat
      BY <1>1
    <3>2. Cardinality(Preceding(S, u) \cup {u}) = a + 1
      BY <1>1
    <3>3. QED
      BY <2>3, <3>1, <3>2
  <2> HIDE DEF a, b
  <2>5. a < b
    BY <2>4
  <2>6. QED
    BY <2>5 DEF a, b
<1>3. ASSUME NEW u \in S
      PROVE  Cardinality(Preceding(S, u)) \in 0 .. Cardinality(S) - 1
  <2>1. Preceding(S, u) \cup {u} \in SUBSET S
    BY DEF Preceding
  <2>2. Cardinality(Preceding(S, u) \cup {u}) <= Cardinality(S) /\ Cardinality(S) \in Nat
    BY <2>1, FS_Subset, FS_CardinalityType
  <2> DEFINE a == Cardinality(Preceding(S, u))
             c == Cardinality(S)
  <2>3. a \in Nat /\ c \in Nat /\ a + 1 <= c
    <3>1. a \in Nat /\ c \in Nat
      BY <1>1, <2>2
    <3>2. Cardinality(Preceding(S, u) \cup {u}) = a + 1
      BY <1>1
    <3>3. QED
      BY <2>2, <3>1, <3>2
  <2> HIDE DEF a, c
  <2>4. a \in 0 .. c - 1
    BY <2>3
  <2>5. QED
    BY <2>4 DEF a, c
<1>4. QED
  BY <1>2, <1>3

\* InOrder lists every uri of a set once, in their order.
LEMMA InOrderLists ==
  ASSUME NEW S \in SUBSET Uri, IsFiniteSet(S)
  PROVE  /\ Cardinality(S) \in Nat
         /\ InOrder(S) \in Seq(S) /\ Len(InOrder(S)) = Cardinality(S)
         /\ \A k, l \in 1 .. Cardinality(S) : k < l => Before(InOrder(S)[k], InOrder(S)[l])
         /\ \A u \in S : \E k \in 1 .. Cardinality(S) : InOrder(S)[k] = u
<1> DEFINE n == Cardinality(S)
           rank == [u \in S |-> Cardinality(Preceding(S, u))]
           sq == InOrder(S)
<1>1. n \in Nat
  BY FS_CardinalityType
<1>2. rank \in [S -> 0 .. n - 1]
  BY PrecedingGrow
<1>3. ASSUME NEW u \in S, NEW v \in S, u # v PROVE rank[u] # rank[v]
  <2>1. Before(u, v) \/ Before(v, u)
    BY <1>3, BeforeTotal
  <2>2. rank[u] < rank[v] \/ rank[v] < rank[u]
    BY <2>1, PrecedingGrow
  <2>3. rank[u] \in Nat /\ rank[v] \in Nat
    BY <1>1, <1>2
  <2>4. QED
    BY <2>2, <2>3
<1>4. rank \in Injection(S, 0 .. n - 1)
  BY <1>2, <1>3 DEF Injection, IsInjective
<1>5. IsFiniteSet(0 .. n - 1) /\ Cardinality(0 .. n - 1) = n
  <2>1. 0 \in Int /\ n - 1 \in Int
    BY <1>1
  <2>2. /\ IsFiniteSet(0 .. n - 1)
        /\ Cardinality(0 .. n - 1) = IF 0 > n - 1 THEN 0 ELSE n - 1 - 0 + 1
    BY <2>1, FS_Interval
  <2>3. (IF 0 > n - 1 THEN 0 ELSE n - 1 - 0 + 1) = n
    BY <1>1
  <2>4. QED
    BY <2>2, <2>3
<1>6. rank \in Surjection(S, 0 .. n - 1)
  BY <1>4, <1>5, FS_Injection
<1>7. \A r \in 0 .. n - 1 : \E u \in S : rank[u] = r
  BY <1>6 DEF Surjection
<1>8. ASSUME NEW k \in 1 .. n
      PROVE  sq[k] \in S /\ rank[sq[k]] = k - 1
  <2>1. k - 1 \in 0 .. n - 1
    BY <1>1
  <2>2. \E u \in S : Cardinality({v \in S : Before(v, u)}) = k - 1
    BY <2>1, <1>7 DEF Preceding
  <2>3. sq[k] = CHOOSE u \in S : Cardinality({v \in S : Before(v, u)}) = k - 1
    BY DEF InOrder
  <2>4. sq[k] \in S /\ Cardinality({v \in S : Before(v, sq[k])}) = k - 1
    BY <2>2, <2>3
  <2>5. QED
    BY <2>4 DEF Preceding
<1>9. sq \in [1 .. n -> S]
  BY <1>8 DEF InOrder
<1>10. sq \in Seq(S) /\ Len(sq) = n
  BY <1>1, <1>9
<1>11. ASSUME NEW k \in 1 .. n, NEW l \in 1 .. n, k < l
       PROVE  Before(sq[k], sq[l])
  <2>1. sq[k] \in S /\ sq[l] \in S /\ rank[sq[k]] = k - 1 /\ rank[sq[l]] = l - 1
    BY <1>8
  <2>2. k - 1 # l - 1 /\ ~ (l - 1 < k - 1)
    BY <1>1, <1>11
  <2>3. sq[k] # sq[l]
    BY <2>1, <2>2
  <2>4. Before(sq[l], sq[k]) => rank[sq[l]] < rank[sq[k]]
    BY <2>1, PrecedingGrow
  <2>5. sq[k] \in Uri /\ sq[l] \in Uri
    BY <2>1
  <2> HIDE DEF rank, sq
  <2>6. ~ Before(sq[l], sq[k])
    BY <2>1, <2>2, <2>4
  <2>7. QED
    BY <2>3, <2>5, <2>6, BeforeTotal
<1>12. ASSUME NEW u \in S
       PROVE  \E k \in 1 .. n : sq[k] = u
  <2>1. rank[u] \in 0 .. n - 1
    BY <1>2
  <2> DEFINE k == rank[u] + 1
  <2>2. k \in 1 .. n /\ k - 1 = rank[u]
    BY <2>1, <1>1
  <2>3. sq[k] \in S /\ rank[sq[k]] = rank[u]
    BY <2>2, <1>8
  <2>4. QED
    BY <2>2, <2>3, <1>3
<1>13. QED
  BY <1>1, <1>10, <1>11, <1>12

----------------------------------------------------------------------------
(***************************************************************************)
(* What matches                                                            *)
(***************************************************************************)

\* The uris and specs of a program that runs.
LEMMA CatalogueFacts ==
  ASSUME CatalogueInv, linked \in Programs
  PROVE  /\ Uris \subseteq Uri /\ IsFiniteSet(Uris)
         /\ DOMAIN registry \subseteq Uris /\ IsFiniteSet(DOMAIN registry)
         /\ \A u \in DOMAIN registry : IsFunctionSpec(registry[u].spec)
         /\ phase = "running" => DOMAIN registry = Uris
<1>1. IsFiniteSet(linked) /\ \A r \in linked : r.uri \in Uri /\ IsFunctionSpec(r.spec)
  BY LookupAssumption DEF IsProgram
<1>2. IsFiniteSet(Uris)
  <2> DEFINE f == [r \in linked |-> r.uri]
  <2>1. f \in [linked -> Uris] /\ \A u \in Uris : \E r \in linked : f[r] = u
    BY DEF Uris
  <2>2. f \in Surjection(linked, Uris)
    BY <2>1 DEF Surjection
  <2>3. QED
    BY <1>1, <2>2, FS_Surjection
<1>3. DOMAIN registry \subseteq Uris
  BY DEF CatalogueInv, Uris
<1>4. \A u \in DOMAIN registry : IsFunctionSpec(registry[u].spec)
  BY <1>1 DEF CatalogueInv
<1>5. phase = "running" => DOMAIN registry = Uris
  <2>1. phase = "running" => \A r \in linked : r.uri \in DOMAIN registry
    BY DEF CatalogueInv
  <2>2. QED
    BY <1>3, <2>1 DEF Uris
<1>6. QED
  BY <1>1, <1>2, <1>3, <1>4, <1>5, FS_Subset DEF Uris

\* The filters of q, one by one.
Passes(q, u, spec) ==
  /\ q.uriList # NoValue => \E i \in DOMAIN q.uriList : q.uriList[i] = u
  /\ q.prefix # NoValue => \E n \in 0 .. Len(u) : SubSeq(u, 1, n) = q.prefix
  /\ q.text # NoValue => q.text \in spec.texts
  /\ q.inputDType # NoValue => \E p \in spec.params : p[2] = q.inputDType
  /\ q.outputDType # NoValue => <<"O", q.outputDType>> \in spec.params

\* A prefix is the beginning of a string, cut at its length.
LEMMA PrefixIsCut ==
  ASSUME NEW p \in Uri, NEW u \in Uri
  PROVE  IsPrefix(p, u) <=> \E n \in 0 .. Len(u) : SubSeq(u, 1, n) = p
<1>1. Len(p) \in Nat /\ Len(u) \in Nat
  BY DEF Uri
<1>2. SubSeq(p, 1, Len(p)) = p
  BY SubSeqFull DEF Uri
<1>3. ASSUME NEW n \in 0 .. Len(u), SubSeq(u, 1, n) = p
      PROVE  IsPrefix(p, u)
  <2>1. Len(SubSeq(u, 1, n)) = n
    BY <1>1 DEF Uri
  <2>2. Len(p) = n
    BY <1>3, <2>1
  <2>3. QED
    BY <1>1, <1>2, <1>3, <2>2 DEF IsPrefix
<1>4. ASSUME IsPrefix(p, u)
      PROVE  \E n \in 0 .. Len(u) : SubSeq(u, 1, n) = p
  <2>1. Len(p) \in 0 .. Len(u) /\ SubSeq(u, 1, Len(p)) = p
    BY <1>1, <1>2, <1>4 DEF IsPrefix
  <2>2. QED
    BY <2>1
<1>5. QED
  BY <1>3, <1>4

\* A loop over the filters passes what the specification of each asks for.
LEMMA MatchesPasses ==
  ASSUME NEW q, IsQuery(q), NEW u \in DOMAIN registry, u \in Uri, IsFunctionSpec(registry[u].spec)
  PROVE  Matches(q, u) <=> Passes(q, u, registry[u].spec)
<1> DEFINE spec == registry[u].spec
<1>1. q.uriList # NoValue =>
        (u \in ToSet(q.uriList) <=> \E i \in DOMAIN q.uriList : q.uriList[i] = u)
  BY DEF ToSet
<1>2. q.prefix # NoValue =>
        (IsPrefix(q.prefix, u) <=> \E n \in 0 .. Len(u) : SubSeq(u, 1, n) = q.prefix)
  <2>1. q.prefix # NoValue => q.prefix \in Uri
    BY DEF IsQuery
  <2>2. QED
    BY <2>1, PrefixIsCut
<1>3. spec.params \subseteq {"I", "O", "M"} \X STRING
  BY DEF IsFunctionSpec
<1>4. ContainsParamWithDType(spec, {"I", "O", "M"}, q.inputDType) <=>
        \E p \in spec.params : p[2] = q.inputDType
  <2>1. \A p \in spec.params : p[1] \in {"I", "O", "M"}
    BY <1>3
  <2>2. QED
    BY <2>1 DEF ContainsParamWithDType
<1>5. ContainsParamWithDType(spec, {"O"}, q.outputDType) <=> <<"O", q.outputDType>> \in spec.params
  <2>1. \A p \in spec.params : p = <<p[1], p[2]>>
    BY <1>3
  <2>2. ASSUME NEW p \in spec.params, p[1] \in {"O"}, p[2] = q.outputDType
        PROVE  <<"O", q.outputDType>> \in spec.params
    <3>1. p = <<"O", q.outputDType>>
      BY <2>1, <2>2
    <3>2. QED
      BY <3>1
  <2>3. <<"O", q.outputDType>>[1] = "O" /\ <<"O", q.outputDType>>[2] = q.outputDType
    OBVIOUS
  <2>4. QED
    BY <2>2, <2>3 DEF ContainsParamWithDType
<1>6. QED
  BY <1>1, <1>2, <1>4, <1>5 DEF Matches, Passes

\* What the definition of the wanted functions asks of one.
LEMMA WantedPass ==
  ASSUME NEW q, NEW u
  PROVE  u \in Wanted(q) <=> \E r \in linked : r.uri = u /\ Passes(q, u, r.spec)
<1> DEFINE Holds(r, f) ==
             CASE f = "uriList" -> \E i \in DOMAIN q.uriList : q.uriList[i] = u
               [] f = "prefix" -> \E n \in 0 .. Len(u) : SubSeq(u, 1, n) = q.prefix
               [] f = "text" -> q.text \in r.spec.texts
               [] f = "inputDType" -> \E p \in r.spec.params : p[2] = q.inputDType
               [] f = "outputDType" -> <<"O", q.outputDType>> \in r.spec.params
               [] OTHER -> TRUE
<1>1. DOMAIN NoQuery = {"uriList", "prefix", "text", "inputDType", "outputDType", "page"}
  BY DEF NoQuery
<1>2. ASSUME NEW r
      PROVE  /\ Holds(r, "uriList") <=> \E i \in DOMAIN q.uriList : q.uriList[i] = u
             /\ Holds(r, "prefix") <=> \E n \in 0 .. Len(u) : SubSeq(u, 1, n) = q.prefix
             /\ Holds(r, "text") <=> q.text \in r.spec.texts
             /\ Holds(r, "inputDType") <=> \E p \in r.spec.params : p[2] = q.inputDType
             /\ Holds(r, "outputDType") <=> <<"O", q.outputDType>> \in r.spec.params
             /\ Holds(r, "page")
  OBVIOUS
<1>3. u \in Wanted(q) <=>
        \E r \in linked : r.uri = u /\ \A f \in {f \in DOMAIN NoQuery : q[f] # NoValue} : Holds(r, f)
  <2>1. u \in Wanted(q) <=> u \in Uris /\
          \E r \in linked : r.uri = u /\ \A f \in {f \in DOMAIN NoQuery : q[f] # NoValue} : Holds(r, f)
    BY DEF Wanted
  <2> HIDE DEF Holds
  <2>2. QED
    BY <2>1 DEF Uris
<1> HIDE DEF Holds
<1>4. ASSUME NEW r
      PROVE  (\A f \in {f \in DOMAIN NoQuery : q[f] # NoValue} : Holds(r, f)) <=> Passes(q, u, r.spec)
  <2>1. (\A f \in {f \in DOMAIN NoQuery : q[f] # NoValue} : Holds(r, f)) <=>
          /\ q["uriList"] # NoValue => Holds(r, "uriList")
          /\ q["prefix"] # NoValue => Holds(r, "prefix")
          /\ q["text"] # NoValue => Holds(r, "text")
          /\ q["inputDType"] # NoValue => Holds(r, "inputDType")
          /\ q["outputDType"] # NoValue => Holds(r, "outputDType")
          /\ q["page"] # NoValue => Holds(r, "page")
    BY <1>1
  <2>2. QED
    BY <1>2, <2>1 DEF Passes
<1>5. QED
  BY <1>3, <1>4

\* While the program runs, the catalogue's matches are the functions wanted.
LEMMA MatchesAreWanted ==
  ASSUME CatalogueInv, linked \in Programs, phase = "running", NEW q, IsQuery(q)
  PROVE  {u \in DOMAIN registry : Matches(q, u)} = Wanted(q)
<1>1. /\ Uris \subseteq Uri /\ DOMAIN registry = Uris
      /\ \A u \in DOMAIN registry : IsFunctionSpec(registry[u].spec)
  BY CatalogueFacts
<1>2. ASSUME NEW r \in linked
      PROVE  r.uri \in DOMAIN registry /\ registry[r.uri].spec = r.spec
  <2>1. r.uri \in DOMAIN registry /\ registry[r.uri].srcLoc = r.srcLoc
    BY DEF CatalogueInv
  <2>2. PICK s \in linked : s.uri = r.uri /\ registry[r.uri] = [srcLoc |-> s.srcLoc, spec |-> s.spec]
    BY <2>1 DEF CatalogueInv
  <2>3. s.srcLoc = r.srcLoc /\ registry[r.uri].spec = s.spec
    BY <2>1, <2>2
  <2>4. s.spec = r.spec
    BY <2>2, <2>3, LookupAssumption DEF IsProgram
  <2>5. QED
    BY <2>1, <2>3, <2>4
<1>3. ASSUME NEW u \in DOMAIN registry, Matches(q, u) PROVE u \in Wanted(q)
  <2>1. PICK r \in linked : r.uri = u
    BY <1>1 DEF Uris
  <2>2. Passes(q, u, r.spec)
    BY <1>1, <1>2, <1>3, <2>1, MatchesPasses
  <2>3. QED
    BY <2>1, <2>2, WantedPass
<1>4. ASSUME NEW u \in Wanted(q) PROVE u \in DOMAIN registry /\ Matches(q, u)
  <2>1. PICK r \in linked : r.uri = u /\ Passes(q, u, r.spec)
    BY WantedPass
  <2>2. u \in DOMAIN registry /\ Passes(q, u, registry[u].spec)
    BY <1>2, <2>1
  <2>3. QED
    BY <1>1, <2>2, MatchesPasses
<1>5. QED
  BY <1>3, <1>4

----------------------------------------------------------------------------
(***************************************************************************)
(* Answers                                                                 *)
(***************************************************************************)

\* A query of the API is one.
LEMMA RequestsAsk ==
  ASSUME NEW r, IsRequest(r), FiltersHaveValues(r)
  PROVE  /\ IsQuery(QueryOf(r))
         /\ "PAGE" \in r.filters =>
              /\ QueryOf(r).page = PageOf(r)
              /\ PageOf(r)[1] \in Nat /\ PageOf(r)[2] \in Nat
              /\ PageOf(r)[1] = (IF r.pageStart < 0 THEN 0 ELSE r.pageStart)
              /\ PageOf(r)[2] = (IF r.pageSize < 0 THEN 0 ELSE r.pageSize)
         /\ "PAGE" \notin r.filters => QueryOf(r).page = NoValue
<1>1. /\ DOMAIN QueryOf(r) = DOMAIN NoQuery
      /\ QueryOf(r).uriList = IF HasFilter(r, "URI_LIST") THEN r.uriList ELSE NoValue
      /\ QueryOf(r).prefix = IF HasFilter(r, "PREFIX") THEN r.prefix ELSE NoValue
      /\ QueryOf(r).page = IF HasFilter(r, "PAGE") THEN PageOf(r) ELSE NoValue
  BY DEF QueryOf, NoQuery
<1>2. ASSUME "PAGE" \in r.filters
      PROVE  /\ PageOf(r)[1] \in Nat /\ PageOf(r)[2] \in Nat
             /\ PageOf(r)[1] = (IF r.pageStart < 0 THEN 0 ELSE r.pageStart)
             /\ PageOf(r)[2] = (IF r.pageSize < 0 THEN 0 ELSE r.pageSize)
             /\ PageOf(r)[1] + PageOf(r)[2] < 2 * HalfRange
  <2>1. r.pageStart \in IntRange /\ r.pageSize \in IntRange
    BY <1>2 DEF IsRequest, FiltersHaveValues, HasFilter
  <2>2. /\ PageOf(r)[1] = (IF r.pageStart < 0 THEN 0 ELSE r.pageStart)
        /\ PageOf(r)[2] = (IF r.pageSize < 0 THEN 0 ELSE r.pageSize)
    BY DEF PageOf
  <2>3. HalfRange \in Nat \ {0}
    BY LookupAssumption
  <2> DEFINE s == r.pageStart
             z == r.pageSize
             a == PageOf(r)[1]
             b == PageOf(r)[2]
  <2>4. s \in IntRange /\ z \in IntRange /\ a = (IF s < 0 THEN 0 ELSE s) /\ b = (IF z < 0 THEN 0 ELSE z)
    BY <2>1, <2>2
  <2> HIDE DEF s, z, a, b
  <2>5. a \in Nat /\ b \in Nat /\ a + b < 2 * HalfRange
    BY <2>3, <2>4 DEF IntRange
  <2>6. QED
    BY <2>2, <2>5 DEF a, b
<1>3. QueryOf(r).uriList \in Seq(Uri) \cup {NoValue} /\ QueryOf(r).prefix \in Uri \cup {NoValue}
  BY <1>1 DEF IsRequest
<1>4. QED
  BY <1>1, <1>2, <1>3 DEF IsQuery, HasFilter

\* The place where a page ends.
EndOf(q, n) == IF n <= q.page[1] + q.page[2] THEN n ELSE q.page[1] + q.page[2]

\* The sum of a query does not wrap.
LEMMA NoWrap ==
  ASSUME NEW q, IsQuery(q), q.page # NoValue, NEW n \in Nat
  PROVE  /\ q.page[1] \in Nat /\ q.page[2] \in Nat
         /\ PageEnd(q, n) = EndOf(q, n) /\ EndOf(q, n) \in Nat
<1>1. q.page[1] \in Nat /\ q.page[2] \in Nat /\ q.page[1] + q.page[2] < 2 * HalfRange
  BY DEF IsQuery
<1>2. HalfRange \in Nat \ {0}
  BY LookupAssumption
<1> DEFINE sum == q.page[1] + q.page[2]
           m == 2 * HalfRange
<1>3. sum \in Nat /\ m \in Nat /\ sum < m
  BY <1>1, <1>2
<1> HIDE DEF sum, m
<1>4. sum % m = sum
  BY <1>3
<1>5. PageEnd(q, n) = EndOf(q, n)
  BY <1>4 DEF PageEnd, EndOf, sum, m
<1>6. EndOf(q, n) \in Nat
  BY <1>1 DEF EndOf
<1>7. QED
  BY <1>1, <1>5, <1>6

\* The list of all matches, and what a page is of it.
LEMMA MatchedLists ==
  ASSUME CatalogueInv, linked \in Programs, phase = "running", NEW q, IsQuery(q)
  PROVE  /\ Len(Matched(q)) \in Nat /\ Matched(q) \in Seq(Wanted(q)) /\ Matched(q) \in Seq(Uri)
         /\ \A k, l \in 1 .. Len(Matched(q)) : k < l => Before(Matched(q)[k], Matched(q)[l])
         /\ \A u \in Wanted(q) : \E k \in 1 .. Len(Matched(q)) : Matched(q)[k] = u
         /\ Wanted(q) \subseteq Uris /\ Wanted(q) \subseteq Uri /\ IsFiniteSet(Wanted(q))
<1>1. {u \in DOMAIN registry : Matches(q, u)} = Wanted(q)
  BY MatchesAreWanted
<1>2. /\ Uris \subseteq Uri /\ IsFiniteSet(DOMAIN registry)
      /\ DOMAIN registry \subseteq Uris
  BY CatalogueFacts
<1>3. Wanted(q) \in SUBSET Uri /\ IsFiniteSet(Wanted(q)) /\ Wanted(q) \subseteq Uris
  <2>1. Wanted(q) \in SUBSET DOMAIN registry
    BY <1>1
  <2>2. QED
    BY <1>2, <2>1, FS_Subset
<1>4. Matched(q) = InOrder(Wanted(q))
  BY <1>1 DEF Matched
<1> DEFINE W == Wanted(q)
           L == Matched(q)
<1>5. /\ Cardinality(W) \in Nat /\ L \in Seq(W) /\ Len(L) = Cardinality(W)
      /\ \A k, l \in 1 .. Cardinality(W) : k < l => Before(L[k], L[l])
      /\ \A u \in W : \E k \in 1 .. Cardinality(W) : L[k] = u
  BY <1>3, <1>4, InOrderLists
<1> HIDE DEF W, L
<1>6. L \in Seq(Uri)
  BY <1>3, <1>5 DEF W
<1>7. QED
  BY <1>3, <1>5, <1>6 DEF W, L

\* An answer is all of the list, or a page of it.
LEMMA FetchCuts ==
  ASSUME CatalogueInv, linked \in Programs, phase = "running", NEW q, IsQuery(q)
  PROVE  LET L == Matched(q)
             first == q.page[1] + 1
             last == EndOf(q, Len(L))
         IN  /\ q.page = NoValue => Fetch(q) = L
             /\ q.page # NoValue =>
                  /\ Fetch(q) = SubSeq(L, first, last)
                  /\ Len(Fetch(q)) = IF first <= last THEN last - first + 1 ELSE 0
                  /\ \A i \in 1 .. Len(Fetch(q)) :
                       q.page[1] + i \in 1 .. Len(L) /\ Fetch(q)[i] = L[q.page[1] + i]
             /\ Fetch(q) \in Seq(Wanted(q))
<1> DEFINE L == Matched(q)
           first == q.page[1] + 1
           last == EndOf(q, Len(L))
<1>1. Len(L) \in Nat /\ L \in Seq(Wanted(q))
  BY MatchedLists
<1>2. q.page = NoValue => Fetch(q) = L
  BY DEF Fetch
<1>3. ASSUME q.page # NoValue
      PROVE  /\ Fetch(q) = SubSeq(L, first, last)
             /\ Len(Fetch(q)) = IF first <= last THEN last - first + 1 ELSE 0
             /\ \A i \in 1 .. Len(Fetch(q)) :
                  q.page[1] + i \in 1 .. Len(L) /\ Fetch(q)[i] = L[q.page[1] + i]
             /\ Fetch(q) \in Seq(Wanted(q))
  <2>1. q.page[1] \in Nat /\ q.page[2] \in Nat /\ PageEnd(q, Len(L)) = last /\ last \in Nat
    BY <1>1, <1>3, NoWrap
  <2>2. last <= Len(L)
    BY <1>1, <2>1 DEF EndOf
  <2>3. Fetch(q) = SubSeq(L, first, last)
    BY <1>3, <2>1 DEF Fetch
  <2> DEFINE p == q.page[1]
  <2>4. first = p + 1 /\ p \in Nat
    BY <2>1
  <2> HIDE DEF L, first, last, p
  <2>5. /\ \A i \in first .. last : L[i] \in Wanted(q)
        /\ first \in Int /\ last \in Int /\ first >= 1
    BY <1>1, <2>1, <2>2, <2>4
  <2>6. /\ SubSeq(L, first, last) \in Seq(Wanted(q))
        /\ Len(SubSeq(L, first, last)) = IF first <= last THEN last - first + 1 ELSE 0
        /\ \A i \in 1 .. last - first + 1 : SubSeq(L, first, last)[i] = L[first + i - 1]
    BY <1>1, <2>1, <2>2, <2>5, SubSeqProperties
  <2> DEFINE c == SubSeq(L, first, last)
  <2>7. /\ Len(c) = IF first <= last THEN last - first + 1 ELSE 0
        /\ \A i \in 1 .. Len(c) : p + i \in 1 .. Len(L) /\ c[i] = L[p + i]
    BY <1>1, <2>1, <2>2, <2>4, <2>6
  <2>8. QED
    BY <2>3, <2>6, <2>7 DEF p
<1>4. QED
  BY <1>1, <1>2, <1>3

\* What a client has put together: nothing, since nothing was found, or the
\* matches from some place to the end of the last page.
PagesInv ==
  LET end == query.page[1] + Len(answer)
  IN  /\ shown = << >> => answer = << >>
      /\ shown # << >> =>
           /\ query.page[1] <= Len(Matched(query))
           /\ \E s \in 0 .. end : shown = SubSeq(Matched(query), s + 1, end)

\* The last answer is that to the last query, and the query that of the last
\* request.
AnswerInv ==
  /\ answer = Fetch(query) \/ (answer = << >> /\ request = NoValue)
  /\ request # NoValue =>
       /\ FiltersHaveValues(request) /\ query = QueryOf(request)
       /\ query.page # NoValue => PagesInv

LookupInv ==
  /\ CatalogueInv
  /\ linked \in Programs /\ phase \in {"loading", "running", "aborted"}
  /\ IsQuery(query) /\ (request # NoValue => IsRequest(request))
  /\ answer \in Seq(Uris) /\ shown \in Seq(Uris)
  /\ phase = "loading" => answer = << >> /\ request = NoValue
  /\ phase = "running" => AnswerInv

\* At the start nothing was asked.
LEMMA LookupInit == Init => LookupInv
<1> SUFFICES ASSUME Init PROVE LookupInv
  OBVIOUS
<1>1. CatalogueInv
  BY CatalogueInit
<1>2. IsQuery(NoQuery)
  BY DEF IsQuery, NoQuery
<1>3. << >> \in Seq(Uris)
  OBVIOUS
<1>4. linked \in Programs /\ phase = "loading" /\ query = NoQuery /\ answer = << >>
      /\ request = NoValue /\ shown = << >>
  BY DEF Init
<1>5. QED
  BY <1>1, <1>2, <1>3, <1>4 DEF LookupInv

\* The catalogue answers the same as long as it is the same.
LEMMA SameCatalogue ==
  ASSUME UNCHANGED <<linked, registry>>
  PROVE  /\ Uris' = Uris
         /\ \A q : Matched(q)' = Matched(q) /\ Wanted(q)' = Wanted(q) /\ Fetch(q)' = Fetch(q)
<1>1. Uris' = Uris
  BY DEF Uris
<1>2. ASSUME NEW q PROVE Matched(q)' = Matched(q)
  <2>1. \A u : Matches(q, u)' <=> Matches(q, u)
    BY DEF Matches
  <2> DEFINE S == {u \in DOMAIN registry : Matches(q, u)}
             T == {u \in DOMAIN registry' : Matches(q, u)'}
  <2>2. S = T
    BY <2>1
  <2>3. Matched(q) = InOrder(S)
    BY DEF Matched
  <2>4. Matched(q)' = InOrder(T)
    BY DEF Matched, InOrder
  <2> HIDE DEF S, T
  <2>5. QED
    BY <2>2, <2>3, <2>4
<1>3. ASSUME NEW q PROVE Wanted(q)' = Wanted(q)
  BY <1>1 DEF Wanted
<1>4. ASSUME NEW q PROVE Fetch(q)' = Fetch(q)
  BY <1>2 DEF Fetch
<1>5. QED
  BY <1>1, <1>2, <1>3, <1>4

\* An answer is given, or the program ends.
LEMMA AnswerKept ==
  ASSUME LookupInv, NEW r, IsRequest(r), GetAvailableFuncs(r)
  PROVE  /\ UNCHANGED <<linked, pending, registry>> /\ phase = "running" /\ request' = r
         /\ CatalogueInv' /\ linked' \in Programs
         /\ IsQuery(query') /\ answer' \in Seq(Uris)
         /\ \/ /\ phase' = "running" /\ FiltersHaveValues(r)
               /\ query' = QueryOf(r) /\ answer' = Fetch(query')
            \/ phase' = "aborted"
<1>1. /\ UNCHANGED <<linked, pending, registry>> /\ phase = "running" /\ request' = r
      /\ \/ /\ phase' = "running" /\ FiltersHaveValues(r)
            /\ query' = QueryOf(r) /\ answer' = Fetch(query')
         \/ phase' = "aborted" /\ UNCHANGED <<query, answer>>
  BY DEF GetAvailableFuncs
<1>2. CatalogueInv' /\ linked' \in Programs
  BY <1>1 DEF LookupInv, CatalogueInv
<1>3. CASE phase' = "running" /\ FiltersHaveValues(r) /\ query' = QueryOf(r) /\ answer' = Fetch(query')
  <2>1. IsQuery(query')
    BY <1>3, RequestsAsk
  <2>2. CatalogueInv /\ linked \in Programs
    BY DEF LookupInv
  <2>3. Fetch(query') \in Seq(Wanted(query')) /\ Wanted(query') \subseteq Uris
    BY <1>1, <2>1, <2>2, FetchCuts, MatchedLists
  <2>4. answer' \in Seq(Uris)
    BY <1>3, <2>3
  <2>5. QED
    BY <1>1, <1>2, <1>3, <2>1, <2>4
<1>4. CASE phase' = "aborted" /\ UNCHANGED <<query, answer>>
  BY <1>1, <1>2, <1>4 DEF LookupInv
<1>5. QED
  BY <1>1, <1>3, <1>4

\* A client that begins a listing has the first page.
LEMMA BeginInv ==
  ASSUME LookupInv, BeginListing
  PROVE  LookupInv'
<1>1. PICK r \in Requests : GetAvailableFuncs(r) /\ shown' = IF phase' = "running" THEN answer' ELSE << >>
  BY DEF BeginListing
<1>2. IsRequest(r)
  BY LookupAssumption
<1>3. /\ UNCHANGED <<linked, pending, registry>> /\ phase = "running" /\ request' = r
      /\ CatalogueInv' /\ linked' \in Programs
      /\ IsQuery(query') /\ answer' \in Seq(Uris)
      /\ \/ /\ phase' = "running" /\ FiltersHaveValues(r)
            /\ query' = QueryOf(r) /\ answer' = Fetch(query')
         \/ phase' = "aborted"
  BY <1>1, <1>2, AnswerKept
<1>4. Uris' = Uris /\ shown' \in Seq(Uris)
  BY <1>1, <1>3, SameCatalogue
<1>5. ASSUME phase' = "running" PROVE AnswerInv'
  <2>1. FiltersHaveValues(r) /\ query' = QueryOf(r) /\ answer' = Fetch(query') /\ shown' = answer'
    BY <1>1, <1>3, <1>5
  <2>2. \A q : Matched(q)' = Matched(q) /\ Fetch(q)' = Fetch(q)
    BY <1>3, SameCatalogue
  <2> DEFINE q == query'
             L == Matched(q)
             p == q.page[1]
             last == EndOf(q, Len(L))
  <2>3. answer' = Fetch(query)'
    BY <2>1, <2>2
  <2>4. ASSUME q.page # NoValue, answer' # << >>
        PROVE  p <= Len(L) /\ \E s \in 0 .. p + Len(answer') : shown' = SubSeq(L, s + 1, p + Len(answer'))
    <3>1. CatalogueInv /\ linked \in Programs /\ IsQuery(q)
      BY <1>3 DEF LookupInv
    <3>2. /\ Fetch(q) = SubSeq(L, p + 1, last)
          /\ Len(Fetch(q)) = IF p + 1 <= last THEN last - (p + 1) + 1 ELSE 0
          /\ \A i \in 1 .. Len(Fetch(q)) : p + i \in 1 .. Len(L)
          /\ Fetch(q) \in Seq(Wanted(q))
      BY <1>3, <2>4, <3>1, FetchCuts
    <3>3. Len(L) \in Nat /\ p \in Nat /\ last \in Nat
      BY <1>3, <2>4, <3>1, NoWrap, MatchedLists
    <3>4. Len(Fetch(q)) # 0 /\ Len(Fetch(q)) \in Nat
      BY <2>1, <2>4, <3>2
    <3> HIDE DEF q, L, p, last
    <3>5. p + 1 <= last /\ p + Len(Fetch(q)) = last /\ p + 1 \in 1 .. Len(L)
      BY <3>2, <3>3, <3>4
    <3>6. answer' = Fetch(q) /\ shown' = Fetch(q)
      BY <2>1 DEF q
    <3>7. p \in 0 .. last /\ p <= Len(L)
      BY <3>3, <3>5
    <3>8. QED
      BY <3>2, <3>5, <3>6, <3>7
  <2>5. query'.page # NoValue => PagesInv'
    BY <2>1, <2>2, <2>4 DEF PagesInv
  <2>6. QED
    BY <1>3, <2>1, <2>3, <2>5 DEF AnswerInv
<1>6. QED
  BY <1>2, <1>3, <1>4, <1>5 DEF LookupInv

\* The next page goes on where the last one ended.
LEMMA NextPageInv ==
  ASSUME LookupInv, NextPage
  PROVE  LookupInv'
<1> DEFINE start == PageOf(request)[1] + Len(answer)
           r == [request EXCEPT !.pageStart = start]
<1>1. /\ phase = "running" /\ request # NoValue /\ "PAGE" \in request.filters
      /\ Len(answer) > 0 /\ start \in IntRange /\ GetAvailableFuncs(r)
      /\ shown' = shown \o answer'
  BY DEF NextPage
<1>2. /\ IsRequest(request) /\ FiltersHaveValues(request) /\ query = QueryOf(request)
      /\ answer = Fetch(query) /\ (query.page # NoValue => PagesInv)
      /\ answer \in Seq(Uris) /\ shown \in Seq(Uris)
      /\ CatalogueInv /\ linked \in Programs /\ IsQuery(query)
  BY <1>1 DEF LookupInv, AnswerInv
<1>3. /\ r.filters = request.filters /\ r.uriList = request.uriList /\ r.prefix = request.prefix
      /\ r.pageStart = start /\ r.pageSize = request.pageSize /\ DOMAIN r = DOMAIN request
  BY <1>2 DEF IsRequest
<1> HIDE DEF r
<1>4. IsRequest(r)
  BY <1>1, <1>2, <1>3 DEF IsRequest
<1>5. /\ UNCHANGED <<linked, pending, registry>> /\ request' = r
      /\ CatalogueInv' /\ linked' \in Programs
      /\ IsQuery(query') /\ answer' \in Seq(Uris)
      /\ \/ /\ phase' = "running" /\ FiltersHaveValues(r)
            /\ query' = QueryOf(r) /\ answer' = Fetch(query')
         \/ phase' = "aborted"
  BY <1>1, <1>2, <1>4, AnswerKept
<1>6. Uris' = Uris /\ shown' \in Seq(Uris)
  BY <1>1, <1>2, <1>5, SameCatalogue
<1>7. ASSUME phase' = "running" PROVE AnswerInv'
  <2>1. FiltersHaveValues(r) /\ query' = QueryOf(r) /\ answer' = Fetch(query')
    BY <1>5, <1>7
  <2>2. \A q : Matched(q)' = Matched(q) /\ Fetch(q)' = Fetch(q)
    BY <1>5, SameCatalogue
  <2>3. answer' = Fetch(query)'
    BY <2>1, <2>2
  <2> DEFINE L == Matched(query)
             p == query.page[1]
             end == p + Len(answer)
             q == query'
             last == EndOf(q, Len(L))
  <2>4. /\ query.page = PageOf(request) /\ query.page # NoValue /\ p \in Nat /\ query.page[2] \in Nat
        /\ end = start /\ end \in Nat
    <3>1. /\ query.page = PageOf(request) /\ p \in Nat /\ query.page[2] \in Nat
          /\ PageOf(request) \in Int \X Int
      <4>1. /\ query.page = PageOf(request) /\ p \in Nat /\ query.page[2] \in Nat
        BY <1>1, <1>2, RequestsAsk
      <4>2. PageOf(request) = <<PageOf(request)[1], PageOf(request)[2]>>
        BY DEF PageOf
      <4>3. QED
        BY <4>1, <4>2
    <3>2. query.page # NoValue
      BY <3>1, LookupAssumption
    <3>3. Len(answer) \in Nat
      BY <1>2
    <3>4. QED
      BY <3>1, <3>2, <3>3
  <2>5. /\ q.page[1] = end /\ q.page[2] = query.page[2] /\ q.page # NoValue
    <3>1. /\ q.page = PageOf(r) /\ q.page[1] = (IF start < 0 THEN 0 ELSE start) /\ q.page[2] \in Nat
          /\ q.page[2] = (IF request.pageSize < 0 THEN 0 ELSE request.pageSize)
      BY <1>1, <1>3, <1>4, <2>1, RequestsAsk
    <3>2. query.page[2] = (IF request.pageSize < 0 THEN 0 ELSE request.pageSize)
      BY <1>1, <1>2, RequestsAsk
    <3>3. q.page[1] = end
      BY <2>4, <3>1
    <3>4. PageOf(r) = <<PageOf(r)[1], PageOf(r)[2]>>
      BY DEF PageOf
    <3>5. PageOf(r) \in Int \X Int
      BY <2>4, <3>1, <3>3, <3>4
    <3>6. QED
      BY <3>1, <3>2, <3>3, <3>5, LookupAssumption
  <2>6. Matched(q) = L
    <3>1. /\ q.uriList = query.uriList /\ q.prefix = query.prefix /\ q.text = query.text
          /\ q.inputDType = query.inputDType /\ q.outputDType = query.outputDType
      BY <1>2, <1>3, <2>1 DEF QueryOf, HasFilter, NoQuery
    <3>2. \A u : Matches(q, u) <=> Matches(query, u)
      BY <3>1 DEF Matches
    <3> HIDE DEF q
    <3>3. {u \in DOMAIN registry : Matches(q, u)} = {u \in DOMAIN registry : Matches(query, u)}
      BY <3>2
    <3>4. QED
      BY <3>3 DEF Matched
  <2>7. /\ Fetch(q) = SubSeq(L, end + 1, last)
        /\ Len(Fetch(q)) = IF end + 1 <= last THEN last - (end + 1) + 1 ELSE 0
    BY <1>1, <1>2, <1>5, <2>5, <2>6, FetchCuts
  <2>8. L \in Seq(Uri) /\ Len(L) \in Nat /\ last \in Nat /\ last <= Len(L)
    <3>1. L \in Seq(Uri) /\ Len(L) \in Nat
      BY <1>1, <1>2, MatchedLists
    <3>2. last \in Nat
      BY <1>5, <2>5, <3>1, NoWrap
    <3>3. QED
      BY <2>4, <2>5, <3>1, <3>2 DEF EndOf
  <2>9. PICK s \in 0 .. end : shown = SubSeq(L, s + 1, end)
    <3>1. PagesInv /\ answer # << >>
      BY <1>1, <1>2, <2>4
    <3>2. QED
      BY <3>1 DEF PagesInv
  <2>10. end <= Len(L)
    <3>1. /\ Len(answer) = IF p + 1 <= EndOf(query, Len(L)) THEN EndOf(query, Len(L)) - (p + 1) + 1 ELSE 0
      BY <1>1, <1>2, <2>4, FetchCuts
    <3>2. EndOf(query, Len(L)) \in Nat /\ EndOf(query, Len(L)) <= Len(L)
      <4>1. EndOf(query, Len(L)) \in Nat
        BY <1>2, <2>4, <2>8, NoWrap
      <4>2. QED
        BY <2>4, <2>8, <4>1 DEF EndOf
    <3> DEFINE e == EndOf(query, Len(L))
               a == Len(answer)
    <3>3. a > 0 /\ a = (IF p + 1 <= e THEN e - (p + 1) + 1 ELSE 0) /\ e \in Nat /\ e <= Len(L)
      BY <1>1, <3>1, <3>2
    <3> HIDE DEF e, a, p, L
    <3>4. p + a <= Len(L)
      BY <2>4, <2>8, <3>3
    <3>5. QED
      BY <3>4 DEF a
  <2>11. end <= last
    BY <2>4, <2>5, <2>8, <2>10 DEF EndOf
  <2>12. Len(Fetch(q)) = last - end
    <3> HIDE DEF L, p, end, q, last
    <3>1. QED
      BY <2>4, <2>7, <2>8, <2>11, SMTT(30)
  <2>13. SubSeq(L, s + 1, end) \o SubSeq(L, end + 1, last) = SubSeq(L, s + 1, last)
    <3> HIDE DEF L, p, end, q, last
    <3>1. s + 1 \in 1 .. Len(L) + 1 /\ end \in s + 1 - 1 .. Len(L) /\ last \in end .. Len(L)
      BY <2>4, <2>8, <2>9, <2>10, <2>11
    <3>2. QED
      BY <2>8, <3>1, ConcatAdjacentSubSeq
  <2>14. /\ shown' = SubSeq(L, s + 1, last) /\ s \in 0 .. last /\ last = q.page[1] + Len(answer')
         /\ q.page[1] <= Len(L)
    <3>1. shown' = SubSeq(L, s + 1, last)
      BY <1>1, <2>1, <2>7, <2>9, <2>13
    <3>2. Len(answer') = last - end /\ q.page[1] = end
      BY <2>1, <2>5, <2>12
    <3> HIDE DEF L, p, end, last
    <3>3. last = end + (last - end) /\ s \in 0 .. last
      BY <2>4, <2>8, <2>9, <2>11
    <3>4. q.page[1] <= Len(L) /\ last = q.page[1] + Len(answer')
      BY <2>10, <3>2, <3>3
    <3>5. QED
      BY <3>1, <3>3, <3>4
  <2>15. shown' # << >>
    <3>1. shown # << >>
      <4>1. PagesInv /\ answer # << >>
        BY <1>1, <1>2, <2>4
      <4>2. QED
        BY <4>1 DEF PagesInv
    <3>2. Len(shown) # 0 /\ Len(shown) \in Nat /\ Len(answer') \in Nat
      BY <1>2, <1>5, <3>1
    <3>3. Len(shown') = Len(shown) + Len(answer')
      BY <1>1, <1>2, <1>5
    <3>4. QED
      BY <3>2, <3>3
  <2>16. PagesInv'
    BY <2>2, <2>6, <2>14, <2>15 DEF PagesInv
  <2>17. QED
    BY <1>5, <2>1, <2>3, <2>16 DEF AnswerInv
<1>8. QED
  BY <1>4, <1>5, <1>6, <1>7 DEF LookupInv

\* A query of C++ code ends what a client has put together.
LEMMA AskInv ==
  ASSUME LookupInv, Lookup
  PROVE  LookupInv'
<1>1. PICK q \in Queries : query' = q /\ answer' = Fetch(q)
  BY DEF Lookup
<1>2. /\ phase = "running" /\ UNCHANGED <<linked, pending, registry, phase>>
      /\ request' = NoValue /\ shown' = << >>
  BY DEF Lookup
<1>3. IsQuery(q) /\ CatalogueInv /\ linked \in Programs
  BY LookupAssumption DEF LookupInv
<1>4. Fetch(q) \in Seq(Wanted(q)) /\ Wanted(q) \subseteq Uris
  BY <1>2, <1>3, FetchCuts, MatchedLists
<1>5. Uris' = Uris /\ answer' \in Seq(Uris) /\ shown' \in Seq(Uris)
  BY <1>1, <1>2, <1>4, SameCatalogue
<1>6. answer' = Fetch(query)'
  BY <1>1, <1>2, SameCatalogue
<1>7. AnswerInv'
  BY <1>2, <1>6 DEF AnswerInv
<1>8. CatalogueInv'
  BY <1>2, <1>3 DEF CatalogueInv
<1>9. QED
  BY <1>1, <1>2, <1>3, <1>5, <1>7, <1>8 DEF LookupInv

\* Before main nothing is asked for.
LEMMA LoadingInv ==
  ASSUME LookupInv, CatalogueInv', RunConstructor \/ EnterMain
  PROVE  LookupInv'
<1>1. /\ phase = "loading" /\ phase' \in {"loading", "running", "aborted"}
      /\ UNCHANGED <<linked, query, answer, request, shown>>
  BY DEF RunConstructor, EnterMain, RegisterFunction
<1>2. Uris' = Uris
  BY <1>1 DEF Uris
<1>3. answer' = << >> /\ request' = NoValue
  BY <1>1 DEF LookupInv
<1>4. AnswerInv'
  BY <1>3 DEF AnswerInv
<1>5. QED
  BY <1>1, <1>2, <1>3, <1>4 DEF LookupInv

\* Every step of the program keeps the catalogue, its answers and their pages.
LEMMA LookupNext == LookupInv /\ [Next]_vars => LookupInv'
<1> SUFFICES ASSUME LookupInv, [Next]_vars PROVE LookupInv'
  OBVIOUS
<1>1. CatalogueInv'
  BY CatalogueNext DEF LookupInv
<1>2. CASE RunConstructor
  BY <1>1, <1>2, LoadingInv
<1>3. CASE EnterMain
  BY <1>1, <1>3, LoadingInv
<1>4. CASE BeginListing
  BY <1>4, BeginInv
<1>5. CASE NextPage
  BY <1>5, NextPageInv
<1>6. CASE Lookup
  BY <1>6, AskInv
<1>7. CASE UNCHANGED vars
  <2>1. UNCHANGED <<linked, pending, registry, phase, query, answer, request, shown>>
    BY <1>7 DEF vars
  <2>2. Uris' = Uris /\ \A q : Matched(q)' = Matched(q) /\ Fetch(q)' = Fetch(q)
    BY <2>1, SameCatalogue
  <2>3. PagesInv => PagesInv'
    BY <2>1, <2>2 DEF PagesInv
  <2>4. Fetch(query)' = Fetch(query)
    BY <2>1, <2>2
  <2>5. AnswerInv => AnswerInv'
    BY <2>1, <2>3, <2>4 DEF AnswerInv
  <2>6. QED
    BY <1>1, <2>1, <2>2, <2>5 DEF LookupInv
<1>8. QED
  BY <1>2, <1>3, <1>4, <1>5, <1>6, <1>7 DEF Next

\* It holds in every state.
THEOREM LookupInvariant == Spec => []LookupInv
BY LookupInit, LookupNext, PTL DEF Spec

\* Whatever is asked, the catalogue holds what the program registers, and
\* answers name functions of the program.
THEOREM LookupTypeCorrect == Spec => []TypeOK
<1>1. LookupInv => TypeOK
  <2> SUFFICES ASSUME LookupInv PROVE TypeOK
    OBVIOUS
  <2>1. /\ linked \in Programs /\ phase \in {"loading", "running", "aborted"}
        /\ DOMAIN query = DOMAIN NoQuery /\ (request # NoValue => IsRequest(request))
        /\ CatalogueInv
    BY DEF LookupInv, IsQuery
  <2>2. DOMAIN registry \subseteq Uris /\ \A u \in DOMAIN registry : IsFunctionSpec(registry[u].spec)
    BY <2>1, CatalogueFacts
  <2>3. ToSet(answer) \cup ToSet(shown) \subseteq Uris
    BY DEF LookupInv, ToSet
  <2>4. pending \subseteq linked
    BY <2>1 DEF CatalogueInv
  <2>5. QED
    BY <2>1, <2>2, <2>3, <2>4 DEF TypeOK
<1>2. QED
  BY <1>1, LookupInvariant, PTL

\* An answer is what all filters together ask for, of the functions that were
\* registered in any order, in the order of the uris, and all of it unless a
\* page is asked for.
THEOREM FiltersAreAndedAlways == Spec => []FiltersAreAnded
<1>1. LookupInv => FiltersAreAnded
  <2> SUFFICES ASSUME LookupInv, phase = "running"
               PROVE  /\ ToSet(answer) \subseteq Wanted(query)
                      /\ \A i, j \in DOMAIN answer : i < j => Before(answer[i], answer[j])
                      /\ (query.page = NoValue /\ (request # NoValue \/ answer # << >>)) =>
                           ToSet(answer) = Wanted(query)
    BY DEF FiltersAreAnded
  <2>1. CatalogueInv /\ linked \in Programs /\ IsQuery(query)
        /\ (answer = Fetch(query) \/ (answer = << >> /\ request = NoValue))
    BY DEF LookupInv, AnswerInv
  <2>2. CASE answer = << >> /\ request = NoValue
    BY <2>2 DEF ToSet
  <2>3. CASE answer = Fetch(query)
    <3> DEFINE L == Matched(query)
    <3>1. /\ Len(L) \in Nat /\ L \in Seq(Wanted(query))
          /\ \A k, l \in 1 .. Len(L) : k < l => Before(L[k], L[l])
          /\ \A u \in Wanted(query) : \E k \in 1 .. Len(L) : L[k] = u
      BY <2>1, MatchedLists
    <3>2. answer \in Seq(Wanted(query))
      BY <2>1, <2>3, FetchCuts
    <3>3. ToSet(answer) \subseteq Wanted(query) /\ DOMAIN answer = 1 .. Len(answer) /\ Len(answer) \in Nat
      BY <3>2 DEF ToSet
    <3>4. CASE query.page = NoValue
      <4>1. answer = L
        BY <2>1, <2>3, <3>4, FetchCuts
      <4> HIDE DEF L
      <4>2. \A i, j \in DOMAIN answer : i < j => Before(answer[i], answer[j])
        BY <3>1, <3>3, <4>1
      <4>3. Wanted(query) \subseteq ToSet(answer)
        BY <3>1, <3>3, <4>1 DEF ToSet
      <4>4. QED
        BY <3>3, <4>2, <4>3
    <3>5. CASE query.page # NoValue
      <4> DEFINE p == query.page[1]
      <4>1. p \in Nat /\ \A i \in 1 .. Len(answer) : p + i \in 1 .. Len(L) /\ answer[i] = L[p + i]
        BY <2>1, <2>3, <3>1, <3>5, FetchCuts, NoWrap
      <4> HIDE DEF p, L
      <4>2. \A i, j \in 1 .. Len(answer) : i < j => Before(answer[i], answer[j])
        <5>1. SUFFICES ASSUME NEW i \in 1 .. Len(answer), NEW j \in 1 .. Len(answer), i < j
                       PROVE  Before(answer[i], answer[j])
          OBVIOUS
        <5>2. p + i < p + j
          BY <3>3, <4>1, <5>1
        <5>3. QED
          BY <3>1, <4>1, <5>1, <5>2
      <4>3. QED
        BY <3>3, <3>5, <4>2
    <3>6. QED
      BY <3>4, <3>5
  <2>4. QED
    BY <2>1, <2>2, <2>3
<1>2. QED
  BY <1>1, LookupInvariant, PTL

\* The places in the list of matches are in the order of the uris.
LEMMA PlacesInOrder ==
  ASSUME NEW L \in Seq(Uri), \A k, l \in 1 .. Len(L) : k < l => Before(L[k], L[l])
  PROVE  \A k, l \in 1 .. Len(L) : (Before(L[k], L[l]) <=> k < l) /\ (L[k] = L[l] => k = l)
<1>1. Len(L) \in Nat /\ \A k \in 1 .. Len(L) : L[k] \in Uri
  OBVIOUS
<1>2. ASSUME NEW k \in 1 .. Len(L), NEW l \in 1 .. Len(L)
      PROVE  (Before(L[k], L[l]) <=> k < l) /\ (L[k] = L[l] => k = l)
  <2>1. L[k] \in Uri /\ L[l] \in Uri /\ ~ Before(L[k], L[k])
    BY <1>1, BeforeIrreflexive
  <2>2. CASE k < l
    BY <2>1, <2>2
  <2>3. CASE l < k
    <3>1. Before(L[l], L[k])
      BY <2>3
    <3>2. ~ Before(L[k], L[l])
      BY <2>1, <3>1, BeforeTransitive
    <3>3. ~ (k < l)
      BY <1>1, <2>3
    <3>4. L[k] # L[l]
      BY <2>1, <3>1
    <3>5. QED
      BY <3>2, <3>3, <3>4
  <2>4. CASE k = l
    BY <1>1, <2>1, <2>4
  <2>5. QED
    BY <1>1, <2>2, <2>3, <2>4
<1>3. QED
  BY <1>2

\* Places of a cut are places of the list.
LEMMA PlaceInCut ==
  ASSUME NEW n \in Nat, NEW end \in Nat, NEW s \in Nat, end <= n, NEW i \in 1 .. end - s
  PROVE  i \in Nat /\ s + i \in 1 .. n /\ s < s + i /\ s + i <= end
OBVIOUS

\* L lists the uris of W, each once and in their order.
ListsInOrder(L, W) ==
  /\ L \in Seq(Uri) /\ W \in SUBSET Uri /\ L \in Seq(W)
  /\ \A k, l \in 1 .. Len(L) : k < l => Before(L[k], L[l])
  /\ \A u \in W : \E k \in 1 .. Len(L) : L[k] = u

\* Some of a list, from the one after place s to the one at place end.
IsCut(cut, L, s, end) ==
  /\ end \in 0 .. Len(L) /\ s \in 0 .. end
  /\ cut = SubSeq(L, s + 1, end) /\ cut # << >>

\* What of W comes before all of a list, and what else is not in the list.
SkippedBy(cut, W) == {u \in W : \A i \in DOMAIN cut : u # cut[i] /\ Before(u, cut[i])}
LeftBy(cut, W) == W \ (SkippedBy(cut, W) \cup ToSet(cut))

\* A cut of a sorted list leaves what comes before it and what comes after it.
LEMMA CutLeaves ==
  ASSUME NEW L, NEW W, ListsInOrder(L, W),
         NEW cut, NEW s, NEW end, IsCut(cut, L, s, end)
  PROVE  /\ Cardinality(SkippedBy(cut, W)) + Len(cut) = end
         /\ \A u \in LeftBy(cut, W) : \A i \in DOMAIN cut : Before(cut[i], u)
         /\ end = Len(L) => LeftBy(cut, W) = {}
<1> DEFINE skipped == SkippedBy(cut, W)
           rest == LeftBy(cut, W)
<1>a. /\ L \in Seq(Uri) /\ W \in SUBSET Uri /\ L \in Seq(W)
      /\ \A k, l \in 1 .. Len(L) : k < l => Before(L[k], L[l])
      /\ \A u \in W : \E k \in 1 .. Len(L) : L[k] = u
  BY DEF ListsInOrder
<1>c. /\ end \in 0 .. Len(L) /\ s \in 0 .. end
      /\ cut = SubSeq(L, s + 1, end) /\ cut # << >>
  BY DEF IsCut
<1>b. /\ \A u : u \in skipped <=> u \in W /\ \A i \in DOMAIN cut : u # cut[i] /\ Before(u, cut[i])
      /\ \A u : u \in rest <=> u \in W /\ u \notin skipped /\ u \notin ToSet(cut)
  BY DEF SkippedBy, LeftBy
<1> HIDE DEF skipped, rest
<1> DEFINE n == Len(L)
<1>1. n \in Nat /\ end \in Nat /\ s \in Nat /\ s <= end /\ end <= n /\ \A k \in 1 .. n : L[k] \in W
  BY <1>a, <1>c, SMTT(30)
<1>2. \A k, l \in 1 .. n : (Before(L[k], L[l]) <=> k < l) /\ (L[k] = L[l] => k = l)
  BY <1>a, PlacesInOrder
<1>3. /\ cut \in Seq(W) /\ Len(cut) = end - s /\ end - s \in Nat
      /\ \A i \in 1 .. end - s : cut[i] = L[s + i]
  <2>1. \A i \in s + 1 .. end : L[i] \in W
    BY <1>1
  <2>2. s + 1 \in Int /\ end \in Int
    BY <1>1
  <2>3. /\ cut \in Seq(W)
        /\ Len(cut) = IF s + 1 <= end THEN end - (s + 1) + 1 ELSE 0
        /\ \A i \in 1 .. end - (s + 1) + 1 : cut[i] = L[s + 1 + i - 1]
    BY <1>c, <2>1, <2>2, SubSeqProperties
  <2> HIDE DEF n
  <2>4. \A i \in 1 .. end - s : s + 1 + i - 1 = s + i
    BY <1>1
  <2>5. end - (s + 1) + 1 = end - s /\ end - s \in Nat
    BY <1>1
  <2>6. Len(cut) = end - s
    BY <1>1, <2>3
  <2>7. QED
    BY <2>3, <2>4, <2>5, <2>6
<1>4. DOMAIN cut = 1 .. end - s /\ s < end
  <2>1. DOMAIN cut = 1 .. Len(cut) /\ Len(cut) # 0
    BY <1>3, <1>c
  <2>2. QED
    BY <1>1, <1>3, <2>1
<1> HIDE DEF n
<1>5. ASSUME NEW k \in 1 .. n PROVE L[k] \in skipped <=> k <= s
  <2>1. ASSUME L[k] \in skipped PROVE k <= s
    <3>1. 1 \in DOMAIN cut /\ cut[1] = L[s + 1] /\ s + 1 \in 1 .. n
      BY <1>1, <1>3, <1>4
    <3>2. Before(L[k], L[s + 1])
      BY <1>b, <2>1, <3>1
    <3>3. QED
      BY <1>1, <1>2, <3>1, <3>2
  <2>2. ASSUME k <= s, NEW i \in DOMAIN cut PROVE L[k] # cut[i] /\ Before(L[k], cut[i])
    <3>1. i \in 1 .. end - s
      BY <1>4, <2>2
    <3>2. s + i \in 1 .. n /\ k < s + i /\ k \in Nat
      <4>1. i \in Nat /\ s + i \in 1 .. n /\ s < s + i
        BY <1>1, <3>1, PlaceInCut
      <4>2. k \in Nat
        BY <1>1
      <4>3. QED
        BY <1>1, <2>2, <4>1, <4>2
    <3>3. cut[i] = L[s + i]
      BY <1>3, <3>1
    <3>4. Before(L[k], L[s + i]) /\ L[k] # L[s + i]
      <4>1. k # s + i
        BY <3>2
      <4>2. QED
        BY <1>2, <3>2, <4>1
    <3>5. QED
      BY <3>3, <3>4
  <2>3. L[k] \in W
    BY <1>1
  <2>4. k <= s => L[k] \in skipped
    BY <1>b, <2>2, <2>3
  <2>5. QED
    BY <2>1, <2>4
<1>6. ASSUME NEW u \in rest
      PROVE  \E k \in 1 .. n : L[k] = u /\ end < k
  <2>0. u \in W
    BY <1>b
  <2>1. PICK k \in 1 .. n : L[k] = u
    BY <1>a, <2>0 DEF n
  <2>2. ~ (k <= s)
    BY <1>5, <1>b, <2>1
  <2>3. ASSUME k <= end PROVE FALSE
    <3>1. k - s \in 1 .. end - s /\ s + (k - s) = k
      BY <1>1, <2>2, <2>3
    <3>2. cut[k - s] = u /\ k - s \in DOMAIN cut
      BY <1>3, <1>4, <2>1, <3>1
    <3>3. u \in ToSet(cut)
      BY <3>2 DEF ToSet
    <3>4. u \notin ToSet(cut)
      BY <1>b
    <3>5. QED
      BY <3>3, <3>4
  <2>4. end < k
    BY <1>1, <2>3
  <2>5. QED
    BY <2>1, <2>4
<1>7. ASSUME NEW u \in rest, NEW i \in DOMAIN cut PROVE Before(cut[i], u)
  <2>1. PICK k \in 1 .. n : L[k] = u /\ end < k
    BY <1>6
  <2>2. i \in 1 .. end - s
    BY <1>4
  <2>3. s + i \in 1 .. n /\ s + i < k
    <3>1. i \in Nat /\ s + i \in 1 .. n /\ s + i <= end
      BY <1>1, <2>2, PlaceInCut
    <3>2. k \in Nat
      BY <1>1
    <3>3. QED
      BY <1>1, <2>1, <3>1, <3>2
  <2>4. cut[i] = L[s + i]
    BY <1>3, <2>2
  <2>5. Before(L[s + i], L[k])
    BY <1>2, <2>3
  <2>6. QED
    BY <2>1, <2>4, <2>5
<1>8. end = n => rest = {}
  <2> SUFFICES ASSUME end = n, NEW u \in rest PROVE FALSE
    OBVIOUS
  <2>1. PICK k \in 1 .. n : L[k] = u /\ end < k
    BY <1>6
  <2>2. k <= n /\ k \in Nat
    BY <1>1
  <2>3. QED
    BY <1>1, <2>1, <2>2
<1>9. Cardinality(skipped) = s
  <2> DEFINE f == [k \in 1 .. s |-> L[k]]
  <2>1. f \in [1 .. s -> skipped]
    <3>1. ASSUME NEW k \in 1 .. s PROVE L[k] \in skipped
      <4>1. k \in 1 .. n /\ k <= s
        BY <1>1
      <4>2. QED
        BY <1>5, <4>1
    <3>2. QED
      BY <3>1
  <2>2. \A k, l \in 1 .. s : f[k] = f[l] => k = l
    BY <1>1, <1>2
  <2>3. ASSUME NEW u \in skipped PROVE \E k \in 1 .. s : f[k] = u
    <3>0. u \in W
      BY <1>b
    <3>1. PICK k \in 1 .. n : L[k] = u
      BY <1>a, <3>0 DEF n
    <3>2. k <= s
      BY <1>5, <3>1
    <3>3. k \in 1 .. s
      BY <3>2
    <3>4. QED
      BY <3>1, <3>3
  <2> HIDE DEF f
  <2>4. f \in Bijection(1 .. s, skipped)
    BY <2>1, <2>2, <2>3 DEF Bijection, Injection, Surjection, IsInjective
  <2>5. IsFiniteSet(1 .. s) /\ Cardinality(1 .. s) = s
    <3>1. 1 \in Int /\ s \in Int
      BY <1>1
    <3>2. IsFiniteSet(1 .. s) /\ Cardinality(1 .. s) = IF 1 > s THEN 0 ELSE s - 1 + 1
      BY <3>1, FS_Interval
    <3>3. (IF 1 > s THEN 0 ELSE s - 1 + 1) = s
      BY <1>1
    <3>4. QED
      BY <3>2, <3>3
  <2>6. ExistsBijection(1 .. s, skipped)
    BY <2>4 DEF ExistsBijection
  <2>7. QED
    BY <2>5, <2>6, FS_Bijection
<1>10. Cardinality(skipped) + Len(cut) = end
  BY <1>1, <1>3, <1>9
<1>11. QED
  BY <1>7, <1>8, <1>10 DEF n, skipped, rest

\* Put together, the pages are the list of all matches from where the client
\* began: none is skipped or shown twice, and a page that is not full is the last.
THEOREM PagesAreTheListAlways == Spec => []PagesAreTheList
<1>1. LookupInv => PagesAreTheList
  <2> DEFINE W == Wanted(query)
             L == Matched(query)
             p == query.page[1]
             size == query.page[2]
             end == p + Len(answer)
             last == EndOf(query, Len(L))
  <2> SUFFICES ASSUME LookupInv, phase = "running", query.page # NoValue, request # NoValue
               PROVE  /\ shown # << >> => Cardinality(SkippedBy(shown, W)) + Len(shown) = end
                      /\ \A u \in LeftBy(shown, W) : \A i \in DOMAIN shown : Before(shown[i], u)
                      /\ (Len(answer) < size /\ shown # << >>) => LeftBy(shown, W) = {}
                      /\ Len(answer) <= (IF request.pageSize > 0 THEN request.pageSize ELSE 0)
    BY DEF PagesAreTheList, SkippedBy, LeftBy
  <2>1. /\ CatalogueInv /\ linked \in Programs /\ IsQuery(query) /\ IsRequest(request)
        /\ answer = Fetch(query) /\ FiltersHaveValues(request) /\ query = QueryOf(request) /\ PagesInv
    BY DEF LookupInv, AnswerInv
  <2>2. /\ Len(L) \in Nat /\ L \in Seq(Wanted(query)) /\ L \in Seq(Uri)
        /\ \A k, l \in 1 .. Len(L) : k < l => Before(L[k], L[l])
        /\ \A u \in Wanted(query) : \E k \in 1 .. Len(L) : L[k] = u
        /\ Wanted(query) \in SUBSET Uri
    BY <2>1, MatchedLists
  <2>3. p \in Nat /\ size \in Nat /\ last \in Nat /\ last = IF Len(L) <= p + size THEN Len(L) ELSE p + size
    BY <2>1, <2>2, NoWrap DEF EndOf
  <2>4. Len(answer) = IF p + 1 <= last THEN last - (p + 1) + 1 ELSE 0
    BY <2>1, FetchCuts
  <2>5. /\ Len(answer) \in Nat /\ Len(answer) <= size
        /\ p <= Len(L) => end <= Len(L) /\ (Len(answer) < size => end = Len(L))
    <3> DEFINE a == Len(answer)
               n == Len(L)
    <3>1. n \in Nat /\ a = (IF p + 1 <= last THEN last - (p + 1) + 1 ELSE 0)
          /\ p \in Nat /\ size \in Nat /\ last \in Nat /\ last = (IF n <= p + size THEN n ELSE p + size)
      BY <2>2, <2>3, <2>4
    <3> HIDE DEF a, n, L, p, size, last, end
    <3>2. a \in Nat /\ a <= size /\ (p <= n => p + a <= n /\ (a < size => p + a = n))
      BY <3>1
    <3>3. QED
      BY <3>2 DEF a, n, end
  <2>6. Len(answer) <= (IF request.pageSize > 0 THEN request.pageSize ELSE 0)
    <3>1. HasFilter(request, "PAGE")
      BY <2>1, RequestsAsk DEF HasFilter
    <3>2. size = (IF request.pageSize < 0 THEN 0 ELSE request.pageSize) /\ request.pageSize \in Int
      <4>1. size = (IF request.pageSize < 0 THEN 0 ELSE request.pageSize)
        BY <2>1, <3>1, RequestsAsk DEF HasFilter
      <4>2. request.pageSize \in IntRange
        BY <2>1, <3>1 DEF FiltersHaveValues, IsRequest
      <4>3. QED
        BY <4>1, <4>2, LookupAssumption DEF IntRange
    <3> HIDE DEF size
    <3>3. QED
      BY <2>5, <3>2
  <2>7. CASE shown = << >>
    <3>1. DOMAIN shown = {}
      BY <2>7
    <3>2. \A u \in LeftBy(shown, W) : \A i \in DOMAIN shown : Before(shown[i], u)
      BY <3>1
    <3> HIDE DEF W, end, size
    <3>3. QED
      BY <2>6, <2>7, <3>2
  <2>8. CASE shown # << >>
    <3>1. p <= Len(L) /\ \E s \in 0 .. end : shown = SubSeq(L, s + 1, end)
      BY <2>1, <2>8 DEF PagesInv
    <3>2. PICK s \in 0 .. end : shown = SubSeq(L, s + 1, end)
      BY <3>1
    <3>3. end \in 0 .. Len(L) /\ (Len(answer) < size => end = Len(L))
      <4>1. end \in Nat /\ end <= Len(L) /\ (Len(answer) < size => end = Len(L))
        BY <2>3, <2>5, <3>1, SMTT(30)
      <4> HIDE DEF end, L
      <4>2. QED
        BY <2>2, <4>1
    <3>4. ListsInOrder(L, W)
      BY <2>2 DEF ListsInOrder
    <3>6. IsCut(shown, L, s, end)
      BY <2>8, <3>2, <3>3 DEF IsCut
    <3> HIDE DEF L, end, p, size, W
    <3>5. /\ Cardinality(SkippedBy(shown, W)) + Len(shown) = end
          /\ \A u \in LeftBy(shown, W) : \A i \in DOMAIN shown : Before(shown[i], u)
          /\ end = Len(L) => LeftBy(shown, W) = {}
      BY <3>4, <3>6, CutLeaves
    <3>9. QED
      BY <2>6, <3>3, <3>5
  <2>9. QED
    BY <2>7, <2>8
<1>2. QED
  BY <1>1, LookupInvariant, PTL
=============================================================================
