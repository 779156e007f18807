---------------------------- MODULE TopoSortOps ----------------------------
(***************************************************************************)
(* The operations of class TopoSorter (graph/TopoSorter.cpp), an online    *)
(* topological sort in the manner of Pearce and Kelly, as operators on the *)
(* value of one sorter.  A sorter is a record of the fields of the class   *)
(* and of the TopoSortState it writes to:                                  *)
(*                                                                         *)
(*   sortOrder    the nodes in topological order                           *)
(*   hasDirtyBit  set by every operation that changes sortOrder            *)
(*   pos          node -> its index in sortOrder (1-based here)            *)
(*   inAdj        node -> the nodes with an edge to it                     *)
(*   outAdj       node -> the nodes it has an edge to                      *)
(*                                                                         *)
(* GraphBuilder calls several of them within one of its own operations;    *)
(* module TopoSorter makes each a step of a state machine.                 *)
(***************************************************************************)
EXTENDS Naturals, Sequences, FiniteSets

EmptyMap == [n \in {} |-> {}]

EmptySorter ==
  [sortOrder |-> << >>, hasDirtyBit |-> FALSE,
   pos |-> EmptyMap, inAdj |-> EmptyMap, outAdj |-> EmptyMap]

Nodes(s) == DOMAIN s.pos

(***************************************************************************)
(* The least set of nodes that holds `start' and is closed under `next', a *)
(* map from nodes to sets of nodes: what the worklist loop of a depth      *)
(* first search has visited when its stack is empty.                       *)
(***************************************************************************)
Closure(start, next) ==
  {n \in DOMAIN next :
     \A S \in SUBSET DOMAIN next :
        (start \in S /\ \A x \in S : next[x] \subseteq S) => n \in S}

AddNode(s, u) ==
  IF u \in Nodes(s) THEN s
  ELSE [sortOrder   |-> Append(s.sortOrder, u),
        hasDirtyBit |-> TRUE,
        pos    |-> [n \in Nodes(s) \cup {u} |->
                      IF n = u THEN Len(s.sortOrder) + 1 ELSE s.pos[n]],
        inAdj  |-> [n \in Nodes(s) \cup {u} |->
                      IF n = u THEN {} ELSE s.inAdj[n]],
        outAdj |-> [n \in Nodes(s) \cup {u} |->
                      IF n = u THEN {} ELSE s.outAdj[n]]]

\* Mutant: the removed node stays in the adjacency of its neighbours.
RemoveNode_DanglingAdj(s, u) ==
  IF u \notin Nodes(s) THEN s
  ELSE LET idx == s.pos[u] IN
       [sortOrder   |-> [i \in 1 .. Len(s.sortOrder) - 1 |->
                           s.sortOrder[IF i < idx THEN i ELSE i + 1]],
        hasDirtyBit |-> TRUE,
        pos    |-> [n \in Nodes(s) \ {u} |->
                      IF s.pos[n] > idx THEN s.pos[n] - 1 ELSE s.pos[n]],
        inAdj  |-> [n \in Nodes(s) \ {u} |-> s.inAdj[n]],
        outAdj |-> [n \in Nodes(s) \ {u} |-> s.outAdj[n]]]

\* Mutant: the positions behind the removed node are not moved up.
RemoveNode_StalePos(s, u) ==
  IF u \notin Nodes(s) THEN s
  ELSE LET idx == s.pos[u] IN
       [sortOrder   |-> [i \in 1 .. Len(s.sortOrder) - 1 |->
                           s.sortOrder[IF i < idx THEN i ELSE i + 1]],
        hasDirtyBit |-> TRUE,
        pos    |-> [n \in Nodes(s) \ {u} |-> s.pos[n]],
        inAdj  |-> [n \in Nodes(s) \ {u} |-> s.inAdj[n] \ {u}],
        outAdj |-> [n \in Nodes(s) \ {u} |-> s.outAdj[n] \ {u}]]

RemoveNode(s, u) ==
  IF u \notin Nodes(s) THEN s
  ELSE LET idx == s.pos[u] IN
       [sortOrder   |-> [i \in 1 .. Len(s.sortOrder) - 1 |->
                           s.sortOrder[IF i < idx THEN i ELSE i + 1]],
        hasDirtyBit |-> TRUE,
        pos    |-> [n \in Nodes(s) \ {u} |->
                      IF s.pos[n] > idx THEN s.pos[n] - 1 ELSE s.pos[n]],
        inAdj  |-> [n \in Nodes(s) \ {u} |-> s.inAdj[n] \ {u}],
        outAdj |-> [n \in Nodes(s) \ {u} |-> s.outAdj[n] \ {u}]]

\* Mutant: only the outgoing side of the edge is erased.
RemoveEdge_OutOnly(s, u, v) ==
  [sortOrder |-> s.sortOrder, hasDirtyBit |-> s.hasDirtyBit,
   pos |-> s.pos, inAdj |-> s.inAdj,
   outAdj |-> [n \in Nodes(s) |-> s.outAdj[n] \ IF n = u THEN {v} ELSE {}]]

RemoveEdge(s, u, v) ==
  [sortOrder |-> s.sortOrder, hasDirtyBit |-> s.hasDirtyBit, pos |-> s.pos,
   inAdj  |-> [n \in Nodes(s) |-> s.inAdj[n] \ IF n = v THEN {u} ELSE {}],
   outAdj |-> [n \in Nodes(s) |-> s.outAdj[n] \ IF n = u THEN {v} ELSE {}]]

InsertEdge(s, u, v) ==
  [sortOrder |-> s.sortOrder, hasDirtyBit |-> s.hasDirtyBit, pos |-> s.pos,
   inAdj  |-> [n \in Nodes(s) |-> s.inAdj[n] \cup IF n = v THEN {u} ELSE {}],
   outAdj |-> [n \in Nodes(s) |-> s.outAdj[n] \cup IF n = u THEN {v} ELSE {}]]

----------------------------------------------------------------------------
(***************************************************************************)
(* The reordering of the affected region.                                  *)
(***************************************************************************)

\* What forward_dfs(v, upper) visits.
ForwardDelta(s, v, upper) ==
  Closure(v, [n \in Nodes(s) |-> {m \in s.outAdj[n] : s.pos[m] < upper}])

\* Mutant: the backward search is cut off one position early.
BackwardDelta_Short(s, u, lower) ==
  Closure(u, [n \in Nodes(s) |-> {m \in s.inAdj[n] : lower + 1 < s.pos[m]}])

\* What backward_dfs(u, lower) visits.
BackwardDelta(s, u, lower) ==
  Closure(u, [n \in Nodes(s) |-> {m \in s.inAdj[n] : lower < s.pos[m]}])

\* Mutant: only the successors of the start node are compared with the bound.
HitsUpperBound_FirstOnly(s, v, upper) ==
  \E m \in s.outAdj[v] : s.pos[m] = upper

\* forward_dfs(v, upper) returns false: it met the node at the upper bound.
HitsUpperBound(s, v, upper) ==
  \E n \in ForwardDelta(s, v, upper) : \E m \in s.outAdj[n] : s.pos[m] = upper

\* std::sort of a vector of distinct indices.
SortedSeq(I) ==
  [k \in 1 .. Cardinality(I) |->
     CHOOSE i \in I : Cardinality({j \in I : j < i}) = k - 1]

\* The index that holds value x in a sequence without repetitions.
IndexIn(seq, x) == CHOOSE k \in DOMAIN seq : seq[k] = x

Entries(seq) == {seq[k] : k \in DOMAIN seq}

NodesAt(s, indices) == [k \in DOMAIN indices |-> s.sortOrder[indices[k]]]

\* The nodes `moved' are stored, in this order, at the indices `slots'.
Reposition(s, moved, slots) ==
  [sortOrder |-> [i \in DOMAIN s.sortOrder |->
                    IF i \in Entries(slots) THEN moved[IndexIn(slots, i)]
                                            ELSE s.sortOrder[i]],
   hasDirtyBit |-> TRUE,
   pos |-> [n \in Nodes(s) |->
              IF n \in Entries(moved) THEN slots[IndexIn(moved, n)] ELSE s.pos[n]],
   inAdj |-> s.inAdj, outAdj |-> s.outAdj]

\* Mutant: the forward nodes are put before the backward nodes.
ShiftRegion_Swapped(s, u, v) ==
  LET fwd == {s.pos[n] : n \in ForwardDelta(s, v, s.pos[u])}
      bwd == {s.pos[n] : n \in BackwardDelta(s, u, s.pos[v])}
  IN  Reposition(s, NodesAt(s, SortedSeq(fwd) \o SortedSeq(bwd)), SortedSeq(fwd \cup bwd))

\* Mutant: every node between v and u is treated as affected.
ShiftRegion_All(s, u, v) ==
  LET fwd == {s.pos[n] : n \in ForwardDelta(s, v, s.pos[u])}
      bwd == (s.pos[v] .. s.pos[u]) \ fwd
  IN  Reposition(s, NodesAt(s, SortedSeq(bwd) \o SortedSeq(fwd)), SortedSeq(fwd \cup bwd))

\* The backward nodes, then the forward nodes, each in its old order, over
\* the indices that both occupied.
ShiftRegion(s, u, v) ==
  LET fwd == {s.pos[n] : n \in ForwardDelta(s, v, s.pos[u])}
      bwd == {s.pos[n] : n \in BackwardDelta(s, u, s.pos[v])}
  IN  Reposition(s, NodesAt(s, SortedSeq(bwd) \o SortedSeq(fwd)), SortedSeq(fwd \cup bwd))

\* reorder(u, v), called with the edge already inserted.
Reorder(s, u, v) ==
  IF HitsUpperBound(s, v, s.pos[u])
  THEN [sorter |-> RemoveEdge(s, u, v), ok |-> FALSE]
  ELSE [sorter |-> ShiftRegion(s, u, v), ok |-> TRUE]

\* AddEdge returns the sorter and whether the edge was accepted.
AddEdge(s, u, v) ==
  LET t == AddNode(AddNode(s, u), v)
      e == InsertEdge(t, u, v)
  IN  IF v \in t.outAdj[u] THEN [sorter |-> t, ok |-> TRUE]
      ELSE IF t.pos[u] < t.pos[v] THEN [sorter |-> e, ok |-> TRUE]
      ELSE Reorder(e, u, v)

----------------------------------------------------------------------------
(***************************************************************************)
(* What a sorter is, between calls, whatever calls were made on it.        *)
(***************************************************************************)

\* A sorter over nodes from N: every map has the known nodes as its domain.
IsSorter(s, N) ==
  /\ s = [sortOrder |-> s.sortOrder, hasDirtyBit |-> s.hasDirtyBit,
          pos |-> s.pos, inAdj |-> s.inAdj, outAdj |-> s.outAdj]
  /\ s.hasDirtyBit \in BOOLEAN
  /\ s.sortOrder \in Seq(N)
  /\ Nodes(s) \subseteq N
  /\ s.pos \in [Nodes(s) -> Nat]
  /\ s.inAdj \in [Nodes(s) -> SUBSET Nodes(s)]
  /\ s.outAdj \in [Nodes(s) -> SUBSET Nodes(s)]

\* pos and sortOrder are inverse to each other.
PosInverts(s) ==
  /\ \A n \in Nodes(s) : s.pos[n] \in DOMAIN s.sortOrder /\ s.sortOrder[s.pos[n]] = n
  /\ \A i \in DOMAIN s.sortOrder : s.sortOrder[i] \in Nodes(s) /\ s.pos[s.sortOrder[i]] = i

\* inAdj and outAdj hold the same edges.
Symmetric(s) ==
  \A m, n \in Nodes(s) : m \in s.inAdj[n] <=> n \in s.outAdj[m]

\* Every edge leads towards the end of sortOrder.
Topological(s) ==
  \A m \in Nodes(s) : \A n \in s.outAdj[m] : s.pos[m] < s.pos[n]

EdgesOf(s) == {e \in Nodes(s) \X Nodes(s) : e[2] \in s.outAdj[e[1]]}

\* There is a path, maybe empty, from a to b.
ReachesIn(s, a, b) == b \in Closure(a, s.outAdj)
=============================================================================
