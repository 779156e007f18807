------------------------------ MODULE DagOrder ------------------------------
(***************************************************************************)
(* What a TopoSorter promises its caller, without saying how: a set of     *)
(* nodes, an acyclic set of edges between them, and a sequence of all the  *)
(* nodes that respects every edge.  An edge is refused exactly when it     *)
(* would close a cycle, and the two nodes are known afterwards all the     *)
(* same.  Removing nodes and edges never reorders what is left.            *)
(***************************************************************************)
EXTENDS Sequences, LinearExtension

CONSTANT NodeId

VARIABLES
  nodes,    \* the nodes known
  edges,    \* the accepted edges, pairs of nodes
  order,    \* the nodes, sorted
  ret       \* what the last AddEdge returned

vars == <<nodes, edges, order, ret>>

\* b can be reached from a: every set that holds a and is closed holds b.
Reaches(E, a, b) ==
  \A S \in SUBSET ({a, b} \cup UNION {{e[1], e[2]} : e \in E}) :
     (a \in S /\ \A e \in E : e[1] \in S => e[2] \in S) => b \in S

Init == nodes = {} /\ edges = {} /\ order = << >> /\ ret = TRUE

AddNode(u) ==
  /\ nodes' = nodes \cup {u}
  /\ order' = IF u \in nodes THEN order ELSE Append(order, u)
  /\ UNCHANGED <<edges, ret>>

RemoveNode(u) ==
  /\ nodes' = nodes \ {u}
  /\ edges' = {e \in edges : u \notin {e[1], e[2]}}
  /\ IsLinearExtension(order', nodes', edges')
  /\ KeepsOrder(order, order')
  /\ UNCHANGED ret

RemoveEdge(u, v) ==
  /\ edges' = edges \ {<<u, v>>}
  /\ UNCHANGED <<nodes, order, ret>>

AddEdge(u, v) ==
  /\ nodes' = nodes \cup {u, v}
  /\ ret' = ~ Reaches(edges, v, u)
  /\ edges' = IF ret' THEN edges \cup {<<u, v>>} ELSE edges
  /\ IsLinearExtension(order', nodes', edges')

Next ==
  \E u, v \in NodeId :
     AddNode(u) \/ RemoveNode(u) \/ RemoveEdge(u, v) \/ AddEdge(u, v)

Spec == Init /\ [][Next]_vars
=============================================================================
