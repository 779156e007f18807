---------------------------- MODULE MCTopoSorter ----------------------------
(* TopoSorter on a small set of nodes.  The algorithm compares positions,  *)
(* never node ids, so permuting the nodes is a symmetry.                   *)
EXTENDS TopoSorter, TLC

NodeSymmetry == Permutations(NodeId)
=============================================================================
