----------------------------- MODULE TopoSorter -----------------------------
(***************************************************************************)
(* Class TopoSorter as a state machine: one step per call of a public      *)
(* operation, in any order, on any nodes.  The class runs on one thread,   *)
(* so a call is atomic.                                                    *)
(***************************************************************************)
EXTENDS TopoSortOps

CONSTANT NodeId

VARIABLES
  sorter,   \* the fields of the class, see TopoSortOps
  ret       \* what the last call of AddEdge returned

vars == <<sorter, ret>>

Init == sorter = EmptySorter /\ ret = TRUE

CallAddNode(u) == sorter' = AddNode(sorter, u) /\ UNCHANGED ret

CallRemoveNode(u) == sorter' = RemoveNode(sorter, u) /\ UNCHANGED ret

CallRemoveEdge(u, v) == sorter' = RemoveEdge(sorter, u, v) /\ UNCHANGED ret

CallAddEdge(u, v) ==
  LET result == AddEdge(sorter, u, v)
  IN  sorter' = result.sorter /\ ret' = result.ok

Next ==
  \/ \E u \in NodeId : CallAddNode(u)
  \/ \E u \in NodeId : CallRemoveNode(u)
  \/ \E u, v \in NodeId : CallRemoveEdge(u, v)
  \/ \E u, v \in NodeId : CallAddEdge(u, v)

Spec == Init /\ [][Next]_vars

----------------------------------------------------------------------------
(***************************************************************************)
(* Invariants                                                              *)
(***************************************************************************)

\* The type invariant: every map has the known nodes as its domain.
TypeOK == IsSorter(sorter, NodeId) /\ ret \in BOOLEAN

\* pos is the inverse of sortOrder: RemoveNode's shifting loop and the two
\* assignments that end reorder keep the redundant pair in step.
PosInvertsOrder == PosInverts(sorter)

\* inAdj and outAdj hold the same edges, whatever was removed or rejected.
AdjacencySymmetric == Symmetric(sorter)

\* sortOrder is topological for the edges the sorter holds
\* (TopoSortState.h, "The current topologically-sorted node order").
OrderIsTopological == Topological(sorter)

----------------------------------------------------------------------------
(***************************************************************************)
(* Action properties and refinement                                        *)
(***************************************************************************)

\* This step gave the sorter the edge (u, v).
GainsEdge(u, v) ==
  /\ {u, v} \subseteq Nodes(sorter)'
  /\ v \in sorter'.outAdj[u]
  /\ <<u, v>> \notin EdgesOf(sorter)

\* No call moves more than it must.  Without a new edge nothing changes place
\* (a rejected edge leaves the order as it was, a known node is not appended
\* again); with the new edge (u, v) a node moves towards the end only if v
\* leads to it, towards the front only if it leads to u, and never out of the
\* region from v to u.
OnlyForcedMoves ==
  /\ (Nodes(sorter) \subseteq Nodes(sorter)' /\ ~ \E u, v \in NodeId : GainsEdge(u, v))
       => \A n \in Nodes(sorter) : sorter'.pos[n] = sorter.pos[n]
  /\ \A u, v \in NodeId : GainsEdge(u, v) =>
       LET t == AddNode(AddNode(sorter, u), v) IN
       \A n \in Nodes(t) : sorter'.pos[n] # t.pos[n] =>
          /\ sorter'.pos[n] \in t.pos[v] .. t.pos[u]
          /\ IF t.pos[n] < sorter'.pos[n] THEN ReachesIn(t, v, n)
                                          ELSE ReachesIn(t, n, u)

MovesAreForced == [][OnlyForcedMoves]_vars

\* The class implements DagOrder; in particular AddEdge returns false exactly
\* for the edges that close a cycle, although its search stops at pos[u].
Dag == INSTANCE DagOrder WITH
         nodes <- Nodes(sorter), edges <- EdgesOf(sorter),
         order <- sorter.sortOrder

ImplementsDagOrder == Dag!Spec
=============================================================================
