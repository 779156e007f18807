-------------------------- MODULE MCCarefulEditing --------------------------
(* CarefulEditing on three nodes of one function with a slot of every      *)
(* access, so that parallel edges and mutable slots occur.                 *)
EXTENDS CarefulEditing

Param(name, access) == [name |-> name, dtype |-> "float", access |-> access]

TwoInOneOut == [uri \in {"f"} |-> <<Param("x", "I"), Param("m", "M"), Param("y", "O")>>]

Edge(n0, s0, n1, s1, id) ==
  [node0 |-> n0, slot0 |-> s0, node1 |-> n1, slot1 |-> s1, edgeId |-> id]

\* Single edges between different nodes; two edges in one call.
OrderBatches ==
  {<<Edge(a, s, b, t, 0)>> : a \in NodeId, b \in NodeId, s \in {"m", "y"}, t \in {"x", "m"}}
  \cup {<<Edge(1, "y", 2, "x", 0), Edge(1, "m", 2, "m", 0)>>,
        <<Edge(3, "y", 2, "x", 1), Edge(2, "y", 1, "x", 1)>>}
=============================================================================
