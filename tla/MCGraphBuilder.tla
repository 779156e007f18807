--------------------------- MODULE MCGraphBuilder ---------------------------
(* GraphBuilder on two nodes.  One registry has a function with a slot of *)
(* every access; the other, for the run with graph inputs and outputs and  *)
(* data, a function with one input.  The batches are all single edges      *)
(* between slots of the given names and a few pairs: two edges into one    *)
(* target, a good edge before and after one to a slot that does not exist. *)
EXTENDS GraphBuilder

Param(name, access) == [name |-> name, dtype |-> "float", access |-> access]

\* One function with an input, a mutable and an output slot.
OneFunction == [uri \in {"f"} |-> <<Param("x", "I"), Param("m", "M"), Param("y", "O")>>]

OneIn == [uri \in {"f"} |-> <<Param("x", "I")>>]

Edge(n0, s0, n1, s1, id) ==
  [node0 |-> n0, slot0 |-> s0, node1 |-> n1, slot1 |-> s1, edgeId |-> id]

Singles(sources, targets, overrides) ==
  {<<Edge(a, s, b, t, id)>> :
     a \in NodeId, b \in NodeId, s \in sources, t \in targets, id \in overrides}

TwoEntries ==
  {<<Edge(1, "y", 2, "x", 0), Edge(1, "m", 2, "x", 0)>>,
   <<Edge(1, "y", 2, "x", 0), Edge(1, "y", 2, "none", 0)>>,
   <<Edge(1, "y", 2, "none", 0), Edge(1, "y", 2, "x", 0)>>,
   <<Edge(1, "y", 2, "x", 0), Edge(2, "m", 1, "m", 1)>>}

AnyBatches == Singles({"m", "y"}, {"x", "m"}, {0}) \cup TwoEntries

\* From graph inputs to functions and graph outputs.
InputBatches == Singles({"$out"}, {"x", "$in"}, {0, 1})
=============================================================================
