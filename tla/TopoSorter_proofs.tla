------------------------- MODULE TopoSorter_proofs -------------------------
(***************************************************************************)
(* The invariants of TopoSorter for every set of nodes.  They are proved   *)
(* together: SorterInv is inductive, none of its four parts is.            *)
(***************************************************************************)
EXTENDS TopoSorter, TopoSortLemmas

IInv == SorterInv(sorter, NodeId) /\ ret \in BOOLEAN

\* A new sorter has no nodes, so every part holds of it.
LEMMA InitInv == Init => IInv
<1> SUFFICES ASSUME Init PROVE IInv
  OBVIOUS
<1>1. sorter = EmptySorter /\ ret = TRUE
  BY DEF Init
<1>2. QED
  BY <1>1, EmptySorterInv DEF IInv

\* Every call of a public operation preserves the conjunction.
LEMMA NextInv == IInv /\ [Next]_vars => IInv'
<1> SUFFICES ASSUME IInv, [Next]_vars PROVE IInv'
  OBVIOUS
<1>1. SorterInv(sorter, NodeId) /\ ret \in BOOLEAN
  BY DEF IInv
<1>2. ASSUME NEW u \in NodeId, CallAddNode(u) PROVE IInv'
  BY <1>1, <1>2, AddNodeInv DEF CallAddNode, IInv
<1>3. ASSUME NEW u \in NodeId, CallRemoveNode(u) PROVE IInv'
  BY <1>1, <1>3, RemoveNodeInv DEF CallRemoveNode, IInv
<1>4. ASSUME NEW u \in NodeId, NEW v \in NodeId, CallRemoveEdge(u, v) PROVE IInv'
  BY <1>1, <1>4, RemoveEdgeInv DEF CallRemoveEdge, IInv
<1>5. ASSUME NEW u \in NodeId, NEW v \in NodeId, CallAddEdge(u, v) PROVE IInv'
  <2>1. /\ sorter' = AddEdge(sorter, u, v).sorter
        /\ ret' = AddEdge(sorter, u, v).ok
    BY <1>5 DEF CallAddEdge
  <2>2. /\ SorterInv(AddEdge(sorter, u, v).sorter, NodeId)
        /\ AddEdge(sorter, u, v).ok \in BOOLEAN
    BY <1>1, AddEdgeInv
  <2>3. QED
    BY <2>1, <2>2 DEF IInv
<1>6. CASE UNCHANGED vars
  BY <1>1, <1>6 DEF vars, IInv
<1>7. QED
  BY <1>2, <1>3, <1>4, <1>5, <1>6 DEF Next

\* The inductive invariant holds in every reachable state.
THEOREM SorterInvariant == Spec => []IInv
<1>1. Init => IInv
  BY InitInv
<1>2. IInv /\ [Next]_vars => IInv'
  BY NextInv
<1>3. QED
  BY <1>1, <1>2, PTL DEF Spec

\* The maps keep the known nodes as their domain and the order its elements.
THEOREM TypeCorrect == Spec => []TypeOK
<1>1. IInv => TypeOK
  BY DEF IInv, SorterInv, TypeOK
<1>2. QED
  BY <1>1, SorterInvariant, PTL

\* pos and sortOrder stay inverse to each other.
THEOREM PosInvertsOrderAlways == Spec => []PosInvertsOrder
<1>1. IInv => PosInvertsOrder
  BY DEF IInv, SorterInv, PosInvertsOrder
<1>2. QED
  BY <1>1, SorterInvariant, PTL

\* The two adjacency maps describe one set of edges.
THEOREM AdjacencySymmetricAlways == Spec => []AdjacencySymmetric
<1>1. IInv => AdjacencySymmetric
  BY DEF IInv, SorterInv, AdjacencySymmetric
<1>2. QED
  BY <1>1, SorterInvariant, PTL

\* sortOrder is a topological order of the sorter's edges after every call.
THEOREM OrderIsTopologicalAlways == Spec => []OrderIsTopological
<1>1. IInv => OrderIsTopological
  BY DEF IInv, SorterInv, OrderIsTopological
<1>2. QED
  BY <1>1, SorterInvariant, PTL
----------------------------------------------------------------------------
(***************************************************************************)
(* The class implements DagOrder                                           *)
(***************************************************************************)

\* sortOrder is a linear extension of the accepted edges.
LEMMA SortOrderIsDagOrder ==
  ASSUME NEW N, NEW s, SorterInv(s, N)
  PROVE  Dag!IsLinearExtension(s.sortOrder, Nodes(s), EdgesOf(s))
<1>1. IsLinearExtension(s.sortOrder, Nodes(s), EdgesOf(s))
  BY SortOrderIsExtension
<1>2. Dag!Cardinality(Nodes(s)) = Cardinality(Nodes(s))
  BY DEF Dag!Cardinality, Cardinality
<1>3. QED
  BY <1>1, <1>2 DEF IsLinearExtension, Dag!IsLinearExtension

\* What stays keeps its place among what stays.
LEMMA RemoveNodeKeepsOrder ==
  ASSUME NEW N, NEW s, SorterInv(s, N), NEW u
  PROVE  Dag!KeepsOrder(s.sortOrder, RemoveNode(s, u).sortOrder)
<1> DEFINE t == RemoveNode(s, u)
<1>1. SorterInv(t, N)
  BY RemoveNodeInv
<1>2. /\ Nodes(t) = Nodes(s) \ {u}
      /\ \A m, n \in Nodes(s) \ {u} : t.pos[m] < t.pos[n] <=> s.pos[m] < s.pos[n]
  BY RemoveNodeInv
<1> HIDE DEF t
<1>3. KeepsOrder(s.sortOrder, t.sortOrder)
  BY <1>1, <1>2, SamePositionsKeepOrder
<1>4. QED
  BY <1>3 DEF KeepsOrder, Dag!KeepsOrder, t

\* The two ways to say that a node can be reached from another agree.
LEMMA ReachesInIsReaches ==
  ASSUME NEW N, NEW s, SorterInv(s, N), NEW a \in Nodes(s), NEW b \in Nodes(s)
  PROVE  ReachesIn(s, a, b) <=> Dag!Reaches(EdgesOf(s), a, b)
<1> DEFINE E == EdgesOf(s)
           V == {a, b} \cup UNION {{e[1], e[2]} : e \in E}
           C == Closure(a, s.outAdj)
<1>1. s.outAdj \in [Nodes(s) -> SUBSET Nodes(s)]
  BY DEF SorterInv, IsSorter
<1>2. /\ E \subseteq Nodes(s) \X Nodes(s)
      /\ \A e \in E : e[1] \in Nodes(s) /\ e[2] \in Nodes(s) /\ e[2] \in s.outAdj[e[1]]
      /\ \A m \in Nodes(s) : \A n \in s.outAdj[m] : <<m, n>> \in E
  BY <1>1 DEF EdgesOf
<1>3. /\ C \subseteq Nodes(s) /\ a \in C
      /\ \A x \in C : s.outAdj[x] \subseteq C
      /\ \A S \in SUBSET Nodes(s) : (a \in S /\ \A x \in S : s.outAdj[x] \subseteq S) => C \subseteq S
  BY <1>1, ClosureIsLeast
<1>4. ReachesIn(s, a, b) <=> b \in C
  BY DEF ReachesIn
<1>5. Dag!Reaches(E, a, b) <=>
        \A S \in SUBSET V : (a \in S /\ \A e \in E : e[1] \in S => e[2] \in S) => b \in S
  BY DEF Dag!Reaches
<1>6. V \subseteq Nodes(s) /\ a \in V /\ b \in V /\ \A e \in E : e[1] \in V /\ e[2] \in V
  BY <1>2
<1> HIDE DEF E, V, C
<1>7. ASSUME b \in C, NEW S \in SUBSET V, a \in S, \A e \in E : e[1] \in S => e[2] \in S
      PROVE  b \in S
  <2>1. ASSUME NEW x \in S, NEW y \in s.outAdj[x] PROVE y \in S
    <3>1. <<x, y>> \in E
      BY <1>2, <1>6
    <3>2. <<x, y>>[1] = x /\ <<x, y>>[2] = y
      OBVIOUS
    <3>3. QED
      BY <3>1, <3>2, <1>7
  <2>2. QED
    BY <2>1, <1>3, <1>6, <1>7
<1>8. ASSUME \A S \in SUBSET V : (a \in S /\ \A e \in E : e[1] \in S => e[2] \in S) => b \in S
      PROVE  b \in C
  <2>1. C \cap V \in SUBSET V /\ a \in C \cap V
    BY <1>3, <1>6
  <2>2. \A e \in E : e[1] \in C \cap V => e[2] \in C \cap V
    BY <1>2, <1>3, <1>6
  <2>3. QED
    BY <2>1, <2>2, <1>8
<1>9. QED
  BY <1>4, <1>5, <1>7, <1>8 DEF E

\* Each call of the class is a step of DagOrder.
LEMMA StepIsDagStep == IInv /\ [Next]_vars => [Dag!Next]_(Dag!vars)
<1> SUFFICES ASSUME IInv, [Next]_vars PROVE [Dag!Next]_(Dag!vars)
  OBVIOUS
<1>1. SorterInv(sorter, NodeId) /\ SorterInv(sorter', NodeId)
  BY NextInv DEF IInv
<1>2. Dag!IsLinearExtension(sorter'.sortOrder, Nodes(sorter'), EdgesOf(sorter'))
  BY <1>1, SortOrderIsDagOrder
<1>3. ASSUME NEW u \in NodeId, CallAddNode(u) PROVE Dag!AddNode(u)
  <2>1. Nodes(sorter') = Nodes(sorter) \cup {u} /\ ret' = ret
    BY <1>1, <1>3, AddNodeInv DEF CallAddNode
  <2>2. sorter'.sortOrder = IF u \in Nodes(sorter) THEN sorter.sortOrder
                                                   ELSE Append(sorter.sortOrder, u)
    BY <1>3 DEF CallAddNode, AddNode
  <2>3. EdgesOf(sorter') = EdgesOf(sorter)
    <3>1. \A m, n \in Nodes(sorter') :
             n \in sorter'.outAdj[m] <=> (m \in Nodes(sorter) /\ n \in sorter.outAdj[m])
      BY <1>1, <1>3, AddNodeInv DEF CallAddNode
    <3>2. sorter.outAdj \in [Nodes(sorter) -> SUBSET Nodes(sorter)]
      BY <1>1 DEF SorterInv, IsSorter
    <3>3. QED
      BY <3>1, <3>2, <2>1 DEF EdgesOf
  <2>4. QED
    BY <2>1, <2>2, <2>3 DEF Dag!AddNode
<1>4. ASSUME NEW u \in NodeId, CallRemoveNode(u) PROVE Dag!RemoveNode(u)
  <2>1. /\ sorter' = RemoveNode(sorter, u) /\ ret' = ret
        /\ Nodes(sorter') = Nodes(sorter) \ {u}
        /\ \A m, n \in Nodes(sorter) \ {u} : n \in sorter'.outAdj[m] <=> n \in sorter.outAdj[m]
    BY <1>1, <1>4, RemoveNodeInv DEF CallRemoveNode
  <2>2. EdgesOf(sorter') = {e \in EdgesOf(sorter) : u \notin {e[1], e[2]}}
    BY <2>1 DEF EdgesOf
  <2>3. Dag!KeepsOrder(sorter.sortOrder, sorter'.sortOrder)
    BY <2>1, <1>1, RemoveNodeKeepsOrder
  <2>4. QED
    BY <2>1, <2>2, <2>3, <1>2 DEF Dag!RemoveNode
<1>5. ASSUME NEW u \in NodeId, NEW v \in NodeId, CallRemoveEdge(u, v) PROVE Dag!RemoveEdge(u, v)
  <2>1. /\ Nodes(sorter') = Nodes(sorter) /\ sorter'.sortOrder = sorter.sortOrder /\ ret' = ret
        /\ \A m, n \in Nodes(sorter) :
              n \in sorter'.outAdj[m] <=> (n \in sorter.outAdj[m] /\ ~ (m = u /\ n = v))
    BY <1>1, <1>5, RemoveEdgeInv DEF CallRemoveEdge
  <2>2. EdgesOf(sorter') = EdgesOf(sorter) \ {<<u, v>>}
    BY <2>1 DEF EdgesOf
  <2>3. QED
    BY <2>1, <2>2 DEF Dag!RemoveEdge
<1>6. ASSUME NEW u \in NodeId, NEW v \in NodeId, CallAddEdge(u, v) PROVE Dag!AddEdge(u, v)
  <2> DEFINE t == AddNode(AddNode(sorter, u), v)
             r == AddEdge(sorter, u, v)
  <2>1. /\ SorterInv(t, NodeId) /\ Nodes(t) = Nodes(sorter) \cup {u, v}
        /\ Nodes(r.sorter) = Nodes(t)
        /\ r.ok \in BOOLEAN
        /\ r.ok = TRUE <=> ~ ReachesIn(t, v, u)
        /\ \A m, n \in Nodes(t) :
              n \in r.sorter.outAdj[m] <=> (n \in t.outAdj[m] \/ (r.ok = TRUE /\ m = u /\ n = v))
    <3>1. SorterInv(t, NodeId)
      BY <1>1, AddEdgeInv
    <3>2. Nodes(t) = Nodes(sorter) \cup {u, v}
      BY <1>1, AddEdgeNodes
    <3>3. Nodes(r.sorter) = Nodes(t)
      <4>1. Nodes(r.sorter) = Nodes(sorter) \cup {u, v}
        BY <1>1, AddEdgeNodes
      <4> HIDE DEF t, r
      <4>2. QED
        BY <4>1, <3>2
    <3>4. r.ok \in BOOLEAN
      BY <1>1, AddEdgeInv
    <3>5. r.ok = TRUE <=> ~ ReachesIn(t, v, u)
      BY <1>1, AddEdgeInv
    <3>6. ASSUME NEW m \in Nodes(t), NEW n \in Nodes(t)
          PROVE  n \in r.sorter.outAdj[m] <=> (n \in t.outAdj[m] \/ (r.ok = TRUE /\ m = u /\ n = v))
      BY <1>1, AddEdgeInv
    <3>7. QED
      BY <3>1, <3>2, <3>3, <3>4, <3>5, <3>6
  <2>2. sorter' = r.sorter /\ ret' = r.ok
    BY <1>6 DEF CallAddEdge
  <2>3. EdgesOf(t) = EdgesOf(sorter)
    BY <1>1, AddNodeTwiceEdges
  <2> HIDE DEF t, r
  <2>4. ret' = ~ Dag!Reaches(EdgesOf(sorter), v, u)
    <3>1. ReachesIn(t, v, u) <=> Dag!Reaches(EdgesOf(sorter), v, u)
      BY <2>1, <2>3, ReachesInIsReaches
    <3>2. QED
      BY <3>1, <2>1, <2>2
  <2>5. EdgesOf(sorter') = IF ret' THEN EdgesOf(sorter) \cup {<<u, v>>} ELSE EdgesOf(sorter)
    <3>1. \A m, n \in Nodes(t) :
            n \in sorter'.outAdj[m] <=> (n \in t.outAdj[m] \/ (ret' = TRUE /\ m = u /\ n = v))
      BY <2>1, <2>2
    <3>2. Nodes(sorter') = Nodes(t) /\ ret' \in BOOLEAN /\ u \in Nodes(t) /\ v \in Nodes(t)
      BY <2>1, <2>2
    <3>3. EdgesOf(sorter') = IF ret' THEN EdgesOf(t) \cup {<<u, v>>} ELSE EdgesOf(t)
      BY <3>1, <3>2 DEF EdgesOf
    <3>4. QED
      BY <3>3, <2>3
  <2>6. Nodes(sorter') = Nodes(sorter) \cup {u, v}
    BY <2>1, <2>2
  <2>7. QED
    BY <2>4, <2>5, <2>6, <1>2 DEF Dag!AddEdge
<1>7. CASE UNCHANGED vars
  BY <1>7 DEF vars, Dag!vars
<1>8. QED
  BY <1>3, <1>4, <1>5, <1>6, <1>7 DEF Next, Dag!Next

\* The class implements DagOrder: whatever is called, the nodes are those that
\* were added, an edge is refused exactly when it closes a cycle, and removing
\* never reorders what is left.
THEOREM ImplementsDagOrderAlways == Spec => ImplementsDagOrder
<1>1. Init => Dag!Init
  <2> SUFFICES ASSUME Init PROVE Dag!Init
    OBVIOUS
  <2>1. sorter.sortOrder = << >> /\ sorter.pos = EmptyMap /\ ret = TRUE
    BY DEF Init, EmptySorter
  <2>2. Nodes(sorter) = {} /\ EdgesOf(sorter) = {}
    BY <2>1 DEF Nodes, EmptyMap, EdgesOf
  <2>3. QED
    BY <2>1, <2>2 DEF Dag!Init
<1>2. QED
  BY <1>1, StepIsDagStep, SorterInvariant, PTL DEF Spec, ImplementsDagOrder, Dag!Spec
----------------------------------------------------------------------------
(***************************************************************************)
(* Only forced moves                                                       *)
(***************************************************************************)

\* What the forward search visits can be reached from its start without the
\* new edge.
LEMMA ForwardDeltaIsReached ==
  ASSUME NEW N, NEW s, SorterInv(s, N), NEW u \in Nodes(s), NEW v \in Nodes(s)
  PROVE  \A n \in ForwardDelta(InsertEdge(s, u, v), v, s.pos[u]) : ReachesIn(s, v, n)
<1> DEFINE e == InsertEdge(s, u, v)
           next == [n \in Nodes(e) |-> {m \in e.outAdj[n] : e.pos[m] < s.pos[u]}]
           C == Closure(v, s.outAdj)
<1>1. s.outAdj \in [Nodes(s) -> SUBSET Nodes(s)]
  BY DEF SorterInv, IsSorter
<1>2. /\ Nodes(e) = Nodes(s) /\ IsSorter(e, N)
      /\ \A m, n \in Nodes(s) : n \in e.outAdj[m] <=> (n \in s.outAdj[m] \/ (m = u /\ n = v))
  BY InsertEdgeFacts
<1> HIDE DEF e
<1>3. e.outAdj \in [Nodes(s) -> SUBSET Nodes(s)]
  BY <1>2 DEF IsSorter
<1>4. next \in [Nodes(s) -> SUBSET Nodes(s)]
  BY <1>2, <1>3
<1>5. /\ C \subseteq Nodes(s) /\ v \in C
      /\ \A x \in C : s.outAdj[x] \subseteq C
  BY <1>1, ClosureIsLeast
<1>6. \A x \in C : next[x] \subseteq C
  BY <1>1, <1>2, <1>3, <1>5
<1>7. ForwardDelta(e, v, s.pos[u]) = Closure(v, next)
  BY DEF ForwardDelta
<1> HIDE DEF next, C
<1>8. Closure(v, next) \subseteq C
  BY <1>4, <1>5, <1>6, ClosureIsLeast
<1>9. QED
  BY <1>7, <1>8 DEF ReachesIn, C, e

\* Reachability, extended by one edge at the front.
LEMMA ReachesFromBefore ==
  ASSUME NEW N, NEW s, SorterInv(s, N), NEW a \in Nodes(s), NEW b \in s.outAdj[a],
         NEW c, ReachesIn(s, b, c)
  PROVE  ReachesIn(s, a, c)
<1> DEFINE A == Closure(a, s.outAdj)
           B == Closure(b, s.outAdj)
<1>1. s.outAdj \in [Nodes(s) -> SUBSET Nodes(s)] /\ b \in Nodes(s)
  BY DEF SorterInv, IsSorter
<1>2. A \subseteq Nodes(s) /\ a \in A /\ \A x \in A : s.outAdj[x] \subseteq A
  BY <1>1, ClosureIsLeast
<1>3. \A S \in SUBSET Nodes(s) : (b \in S /\ \A x \in S : s.outAdj[x] \subseteq S) => B \subseteq S
  BY <1>1, ClosureIsLeast
<1> HIDE DEF A, B
<1>4. B \subseteq A
  BY <1>2, <1>3
<1>5. QED
  BY <1>4 DEF ReachesIn, A, B

\* What the backward search visits reaches its start without the new edge.
LEMMA BackwardDeltaReaches ==
  ASSUME NEW N, NEW s, SorterInv(s, N), NEW u \in Nodes(s), NEW v \in Nodes(s)
  PROVE  \A n \in BackwardDelta(InsertEdge(s, u, v), u, s.pos[v]) : ReachesIn(s, n, u)
<1> DEFINE e == InsertEdge(s, u, v)
           next == [n \in Nodes(e) |-> {m \in e.inAdj[n] : s.pos[v] < e.pos[m]}]
           S == {n \in Nodes(s) : ReachesIn(s, n, u)}
<1>1. s.outAdj \in [Nodes(s) -> SUBSET Nodes(s)]
  BY DEF SorterInv, IsSorter
<1>2. /\ Nodes(e) = Nodes(s) /\ IsSorter(e, N) /\ Symmetric(e)
      /\ \A m, n \in Nodes(s) : n \in e.outAdj[m] <=> (n \in s.outAdj[m] \/ (m = u /\ n = v))
  BY InsertEdgeFacts
<1> HIDE DEF e
<1>3. /\ e.inAdj \in [Nodes(s) -> SUBSET Nodes(s)]
      /\ \A m, n \in Nodes(s) : m \in e.inAdj[n] <=> n \in e.outAdj[m]
  BY <1>2 DEF IsSorter, Symmetric
<1>4. next \in [Nodes(s) -> SUBSET Nodes(s)]
  BY <1>2, <1>3
<1>5. u \in S
  BY <1>1, ClosureIsLeast DEF ReachesIn
<1>6. ASSUME NEW x \in S, NEW m \in next[x] PROVE m \in S
  <2>1. x \in Nodes(s) /\ m \in Nodes(s) /\ m \in e.inAdj[x]
    BY <1>2, <1>3
  <2>2. x \in s.outAdj[m] \/ m = u
    BY <2>1, <1>2, <1>3
  <2>3. CASE x \in s.outAdj[m]
    BY <2>1, <2>3, ReachesFromBefore
  <2>4. QED
    BY <2>2, <2>3, <1>5
<1>7. BackwardDelta(e, u, s.pos[v]) = Closure(u, next)
  BY DEF BackwardDelta
<1>8. S \subseteq Nodes(s)
  OBVIOUS
<1>9. Closure(u, next) \subseteq S
  <2> HIDE DEF next, S
  <2>1. QED
    BY <1>4, <1>5, <1>6, <1>8, ClosureIsLeast
<1>10. QED
  BY <1>7, <1>9 DEF e

\* Appending a node moves no other.
LEMMA AddNodeMovesNothing ==
  ASSUME NEW s, NEW u
  PROVE  \A n \in Nodes(s) : n \in Nodes(AddNode(s, u)) /\ AddNode(s, u).pos[n] = s.pos[n]
<1>1. CASE u \in Nodes(s)
  BY <1>1 DEF AddNode
<1>2. CASE u \notin Nodes(s)
  <2>1. AddNode(s, u).pos = [n \in Nodes(s) \cup {u} |->
                               IF n = u THEN Len(s.sortOrder) + 1 ELSE s.pos[n]]
    BY <1>2 DEF AddNode
  <2>2. QED
    BY <2>1, <1>2 DEF Nodes
<1>3. QED
  BY <1>1, <1>2

\* Once both nodes are known, AddEdge moves a node only when it accepts an edge
\* it did not hold, and then as OnlyForcedMoves says.
LEMMA AddEdgeMoves ==
  ASSUME NEW N, NEW s, SorterInv(s, N), NEW u \in N, NEW v \in N,
         NEW t, t = AddNode(AddNode(s, u), v),
         NEW q, q = AddEdge(s, u, v).sorter,
         NEW n \in Nodes(t), q.pos[n] # t.pos[n]
  PROVE  /\ v \notin t.outAdj[u] /\ v \in q.outAdj[u]
         /\ q.pos[n] \in t.pos[v] .. t.pos[u]
         /\ IF t.pos[n] < q.pos[n] THEN ReachesIn(t, v, n) ELSE ReachesIn(t, n, u)
<1> DEFINE e == InsertEdge(t, u, v)
           w == ShiftRegion(e, u, v)
           F == ForwardDelta(e, v, t.pos[u])
           B == BackwardDelta(e, u, t.pos[v])
<1>1. SorterInv(t, N) /\ u \in Nodes(t) /\ v \in Nodes(t)
  <2>1. SorterInv(AddNode(s, u), N)
    BY AddNodeInv
  <2>2. SorterInv(t, N)
    BY <2>1, AddNodeInv
  <2>3. Nodes(t) = Nodes(s) \cup {u, v}
    BY AddEdgeNodes
  <2>4. QED
    BY <2>2, <2>3
<1>2. /\ t.pos \in [Nodes(t) -> Nat]
      /\ t.outAdj \in [Nodes(t) -> SUBSET Nodes(t)]
      /\ \A x \in Nodes(t) : \A y \in t.outAdj[x] : t.pos[x] < t.pos[y]
  BY <1>1 DEF SorterInv, IsSorter, Topological
<1>3. /\ IsSorter(e, N) /\ PosInverts(e) /\ Symmetric(e)
      /\ Nodes(e) = Nodes(t) /\ e.pos = t.pos
      /\ v \in e.outAdj[u]
      /\ \A x, y \in Nodes(t) : y \in e.outAdj[x] <=> (y \in t.outAdj[x] \/ (x = u /\ y = v))
  BY <1>1, InsertEdgeFacts
<1>4. CASE v \in t.outAdj[u]
  <2>1. AddEdge(s, u, v) = [sorter |-> t, ok |-> TRUE]
    BY <1>4 DEF AddEdge
  <2>2. QED
    BY <2>1
<1>5. CASE v \notin t.outAdj[u] /\ t.pos[u] < t.pos[v]
  <2>1. AddEdge(s, u, v) = [sorter |-> e, ok |-> TRUE]
    BY <1>5 DEF AddEdge
  <2> HIDE DEF e
  <2>2. QED
    BY <2>1, <1>3
<1>6. CASE v \notin t.outAdj[u] /\ ~ (t.pos[u] < t.pos[v]) /\ HitsUpperBound(e, v, e.pos[u])
  <2>1. AddEdge(s, u, v) = [sorter |-> RemoveEdge(e, u, v), ok |-> FALSE]
    BY <1>6 DEF AddEdge, Reorder
  <2>2. RemoveEdge(e, u, v) = t
    BY <1>1, <1>6, RemoveUndoesInsert
  <2> HIDE DEF e
  <2>3. QED
    BY <2>1, <2>2
<1>7. CASE v \notin t.outAdj[u] /\ ~ (t.pos[u] < t.pos[v]) /\ ~ HitsUpperBound(e, v, e.pos[u])
  <2>1. q = w
    BY <1>7 DEF AddEdge, Reorder
  <2>2. t.pos[v] <= t.pos[u] /\ e.outAdj \in [Nodes(t) -> SUBSET Nodes(t)]
    <3> HIDE DEF e
    <3>1. QED
      BY <1>1, <1>2, <1>3, <1>7 DEF IsSorter
  <2>3. (\A x \in F : ReachesIn(t, v, x)) /\ (\A x \in B : ReachesIn(t, x, u))
    BY <1>1, ForwardDeltaIsReached, BackwardDeltaReaches
  <2> HIDE DEF e
  <2>4. Disordered(e, N, u, v)
    <3>1. \A x \in Nodes(t) : \A y \in e.outAdj[x] : t.pos[x] < t.pos[y] \/ (x = u /\ y = v)
      BY <1>2, <1>3, <2>2
    <3>2. QED
      BY <3>1, <2>2, <1>1, <1>3 DEF Disordered
  <2>5. F = ForwardDelta(e, v, e.pos[u]) /\ B = BackwardDelta(e, u, e.pos[v])
    BY <1>3
  <2>6. /\ IsSorter(w, N) /\ Nodes(w) = Nodes(e) /\ w.outAdj = e.outAdj
        /\ \A x \in Nodes(e) : (x \notin F /\ x \notin B) => w.pos[x] = e.pos[x]
        /\ \A x \in F \cup B : e.pos[v] <= w.pos[x] /\ w.pos[x] <= e.pos[u]
        /\ \A x \in F : e.pos[x] <= w.pos[x]
        /\ \A x \in B : w.pos[x] <= e.pos[x]
    BY <2>4, <2>5, <1>7, ShiftRegionMoves
  <2> HIDE DEF w, F, B
  <2>7. w.pos[n] \in Nat /\ t.pos[n] \in Nat /\ t.pos[u] \in Nat /\ t.pos[v] \in Nat
    BY <2>6, <1>1, <1>2, <1>3 DEF IsSorter
  <2>8. n \in F \/ n \in B
    BY <2>1, <2>6, <1>3
  <2>9. w.pos[n] \in t.pos[v] .. t.pos[u]
    BY <2>6, <2>7, <2>8, <1>3
  <2>10. IF t.pos[n] < w.pos[n] THEN ReachesIn(t, v, n) ELSE ReachesIn(t, n, u)
    <3>1. CASE n \in F
      <4>1. t.pos[n] < w.pos[n]
        BY <3>1, <2>1, <2>6, <2>7, <1>3
      <4>2. QED
        BY <4>1, <3>1, <2>3
    <3>2. CASE n \in B
      <4>1. ~ (t.pos[n] < w.pos[n])
        BY <3>2, <2>6, <2>7, <1>3
      <4>2. QED
        BY <4>1, <3>2, <2>3
    <3>3. QED
      BY <3>1, <3>2, <2>8
  <2>11. QED
    BY <2>1, <2>6, <2>9, <2>10, <1>3, <1>7
<1>8. QED
  BY <1>4, <1>5, <1>6, <1>7

\* A call moves only what the class comment of the reordering allows.
LEMMA StepMovesOnlyForced == IInv /\ [Next]_vars => [OnlyForcedMoves]_vars
<1> SUFFICES ASSUME IInv, Next PROVE OnlyForcedMoves
  OBVIOUS
<1>1. SorterInv(sorter, NodeId)
  BY DEF IInv
<1>2. sorter.outAdj \in [Nodes(sorter) -> SUBSET Nodes(sorter)]
  BY <1>1 DEF SorterInv, IsSorter
<1>3. \A a, b : GainsEdge(a, b) <=>
        /\ a \in Nodes(sorter') /\ b \in Nodes(sorter') /\ b \in sorter'.outAdj[a]
        /\ ~ (a \in Nodes(sorter) /\ b \in sorter.outAdj[a])
  BY <1>2 DEF GainsEdge, EdgesOf
<1>4. ASSUME \A a, b : ~ GainsEdge(a, b),
             Nodes(sorter) \subseteq Nodes(sorter')
                => \A n \in Nodes(sorter) : sorter'.pos[n] = sorter.pos[n]
      PROVE  OnlyForcedMoves
  BY <1>4 DEF OnlyForcedMoves
<1>5. ASSUME NEW u \in NodeId, CallAddNode(u) PROVE OnlyForcedMoves
  <2>1. sorter' = AddNode(sorter, u)
    BY <1>5 DEF CallAddNode
  <2>2. \A a, b \in Nodes(sorter') : b \in sorter'.outAdj[a] <=> (a \in Nodes(sorter) /\ b \in sorter.outAdj[a])
    BY <2>1, <1>1, AddNodeInv
  <2>3. \A n \in Nodes(sorter) : sorter'.pos[n] = sorter.pos[n]
    BY <2>1, AddNodeMovesNothing
  <2>4. QED
    BY <2>2, <2>3, <1>3, <1>4
<1>6. ASSUME NEW u \in NodeId, CallRemoveNode(u) PROVE OnlyForcedMoves
  <2>1. sorter' = RemoveNode(sorter, u)
    BY <1>6 DEF CallRemoveNode
  <2>2. /\ Nodes(sorter') = Nodes(sorter) \ {u}
        /\ \A a, b \in Nodes(sorter) \ {u} : b \in sorter'.outAdj[a] <=> b \in sorter.outAdj[a]
    BY <2>1, <1>1, RemoveNodeInv
  <2>3. \A a, b : ~ GainsEdge(a, b)
    BY <2>2, <1>3
  <2>4. Nodes(sorter) \subseteq Nodes(sorter') => sorter' = sorter
    BY <2>1, <2>2 DEF RemoveNode
  <2>5. QED
    BY <2>3, <2>4, <1>4
<1>7. ASSUME NEW u \in NodeId, NEW v \in NodeId, CallRemoveEdge(u, v) PROVE OnlyForcedMoves
  <2>1. sorter' = RemoveEdge(sorter, u, v)
    BY <1>7 DEF CallRemoveEdge
  <2>2. /\ Nodes(sorter') = Nodes(sorter)
        /\ \A a, b \in Nodes(sorter) :
              b \in sorter'.outAdj[a] <=> (b \in sorter.outAdj[a] /\ ~ (a = u /\ b = v))
    BY <2>1, <1>1, RemoveEdgeInv
  <2>3. sorter'.pos = sorter.pos
    BY <2>1 DEF RemoveEdge
  <2>4. QED
    BY <2>2, <2>3, <1>3, <1>4
<1>8. ASSUME NEW u \in NodeId, NEW v \in NodeId, CallAddEdge(u, v) PROVE OnlyForcedMoves
  <2> DEFINE t == AddNode(AddNode(sorter, u), v)
  <2>1. sorter' = AddEdge(sorter, u, v).sorter
    BY <1>8 DEF CallAddEdge
  <2>2. Nodes(t) = Nodes(sorter) \cup {u, v} /\ Nodes(sorter') = Nodes(sorter) \cup {u, v}
    BY <2>1, <1>1, AddEdgeNodes
  <2>3. \A n \in Nodes(sorter) : t.pos[n] = sorter.pos[n]
    BY AddNodeMovesNothing
  <2>4. \A a, b \in Nodes(t) :
           b \in t.outAdj[a] <=> (a \in Nodes(sorter) /\ b \in sorter.outAdj[a])
    BY <1>1, AddNodeTwiceEdges
  <2>5. \A a, b \in Nodes(t) : b \in sorter'.outAdj[a] => (b \in t.outAdj[a] \/ (a = u /\ b = v))
    BY <2>1, <1>1, AddEdgeInv
  <2>6. \A n \in Nodes(t) : sorter'.pos[n] # t.pos[n] =>
           /\ v \notin t.outAdj[u] /\ v \in sorter'.outAdj[u]
           /\ sorter'.pos[n] \in t.pos[v] .. t.pos[u]
           /\ IF t.pos[n] < sorter'.pos[n] THEN ReachesIn(t, v, n) ELSE ReachesIn(t, n, u)
    BY <2>1, <1>1, AddEdgeMoves
  <2> HIDE DEF t
  <2>7. ASSUME NEW a \in NodeId, NEW b \in NodeId, GainsEdge(a, b) PROVE a = u /\ b = v
    BY <2>2, <2>4, <2>5, <2>7, <1>3
  <2>8. ASSUME NEW n \in Nodes(sorter), sorter'.pos[n] # sorter.pos[n] PROVE GainsEdge(u, v)
    BY <2>2, <2>3, <2>4, <2>6, <2>8, <1>3
  <2>9. QED
    BY <2>6, <2>7, <2>8 DEF OnlyForcedMoves, t
<1>9. QED
  BY <1>5, <1>6, <1>7, <1>8 DEF Next

\* No call moves a node it need not move.
THEOREM MovesAreForcedAlways == Spec => MovesAreForced
BY StepMovesOnlyForced, SorterInvariant, PTL DEF Spec, MovesAreForced
=============================================================================
