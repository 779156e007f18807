------------------------------- MODULE Wiring -------------------------------
(***************************************************************************)
(* The graph as its editor thinks of it, without edge ids, slot states or  *)
(* adjacency: nodes, wires that join a target slot to the one source slot  *)
(* it takes its value from, and an order of the nodes in which every wire  *)
(* leads forwards.                                                         *)
(***************************************************************************)
EXTENDS Sequences, LinearExtension

VARIABLES
  nodes,    \* the nodes present
  wires,    \* connected target slot -> its source slot; a slot is <<node, name>>
  order     \* the order in which the nodes will run

vars == <<nodes, wires, order>>

Init == nodes = {} /\ wires = [s \in {} |-> {}] /\ order = << >>

\* An order for the wires as they are now.
IsOrder(seq, N, W) == IsLinearExtension(seq, N, {<<W[t][1], t[1]>> : t \in DOMAIN W})

\* A node comes in at the end and unconnected.
AddNode ==
  /\ \E n \in nodes' \ nodes : nodes' = nodes \cup {n} /\ order' = Append(order, n)
  /\ UNCHANGED wires

\* New wires go to unconnected targets; the order may have to change.
Connect ==
  /\ UNCHANGED nodes
  /\ DOMAIN wires \subseteq DOMAIN wires'
  /\ wires = [t \in DOMAIN wires |-> wires'[t]]
  /\ \A t \in DOMAIN wires' : {t[1], wires'[t][1]} \subseteq nodes
  /\ IsOrder(order', nodes, wires')

\* Wires are removed, and nodes with all their wires; nothing else moves.
Remove ==
  /\ nodes' \subseteq nodes
  /\ DOMAIN wires' \subseteq DOMAIN wires
  /\ wires' = [t \in DOMAIN wires' |-> wires[t]]
  /\ \A t \in DOMAIN wires' : {t[1], wires[t][1]} \subseteq nodes'
  /\ IsOrder(order', nodes', wires')
  /\ KeepsOrder(order, order')

Next == AddNode \/ Connect \/ Remove

Spec == Init /\ [][Next]_vars
=============================================================================
