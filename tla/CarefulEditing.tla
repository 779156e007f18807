--------------------------- MODULE CarefulEditing ---------------------------
(***************************************************************************)
(* GraphBuilder in the hands of a client that does what the code leaves to *)
(* it.  GraphBuilder does not delete the edges of a deleted node, does not *)
(* look at the sorter's refusal of a cycle, does not check that an edge    *)
(* starts at a slot that gives a value, and ClearGraph does not reset the  *)
(* sorter.  With a client that never depends on those four, whatever else  *)
(* it asks for, the graph state is consistent and implements Wiring.       *)
(***************************************************************************)
EXTENDS GraphBuilder

\* No node can be reached from itself.
Acyclic(pairs) ==
  \A e \in pairs :
    e[1] \notin Closure(e[2], [m \in NodeId |-> {p[2] : p \in {q \in pairs : q[1] = m}}])

\* Edges leave output or mutable slots and close no cycle.
WellFormed(entries) ==
  /\ \A i \in DOMAIN entries :
       SourceOf(entries[i]) \in DOMAIN slotInfos =>
         slotInfos[SourceOf(entries[i])].access \in {"O", "M"}
  /\ Acyclic(Pairs \cup {<<entries[i].node0, entries[i].node1>> : i \in DOMAIN entries})

\* The edges that end at one of the nodes.
EdgesAt(nodes) == {e \in DOMAIN edgeInfos : {edgeInfos[e].node0, edgeInfos[e].node1} \cap nodes # {}}

CarefulNext ==
  \/ AddsNode
  \/ \E entries \in Batches : WellFormed(entries) /\ AddEdges(entries)
  \/ \E nodes \in SUBSET NodeId, edges \in SUBSET EdgeId :
       EdgesAt(nodes) \subseteq edges /\ DeleteElements(SortedSeq(nodes), edges)
  \/ SetsData
  \/ SetsMeta

CarefulSpec == Init /\ [][CarefulNext]_vars

\* The edges are kept three times, and the three agree: both slots of an edge
\* list it, and the sorter knows the nodes of the graph and exactly the pairs of
\* nodes that an edge joins.  DeleteElements forgets a pair with its last
\* parallel edge and not before.
EdgesAreMirrored ==
  /\ EdgesHaveEnds
  /\ Nodes(sorter) = DOMAIN nodeInfos
  /\ EdgesOf(sorter) = Pairs

\* Edges as wires: each target slot has one edge.
Wires ==
  [t \in {TargetOf(edgeInfos[e]) : e \in DOMAIN edgeInfos} |->
     SourceOf(edgeInfos[CHOOSE e \in DOMAIN edgeInfos : TargetOf(edgeInfos[e]) = t])]

W == INSTANCE Wiring WITH
       nodes <- DOMAIN nodeInfos, wires <- Wires, order <- sorter.sortOrder

ImplementsWiring == W!Spec
=============================================================================
