-------------------------- MODULE LinearExtension --------------------------
(* Sequences that list the nodes of a graph in an order of its edges.      *)
EXTENDS Naturals, FiniteSets

\* seq lists every member of N once and no edge of E points backwards.
IsLinearExtension(seq, N, E) ==
  /\ DOMAIN seq = 1 .. Cardinality(N)
  /\ {seq[i] : i \in DOMAIN seq} = N
  /\ \A i, j \in DOMAIN seq : <<seq[i], seq[j]>> \in E => i < j

\* The members of `new' stand in it as they stood in `old'.
KeepsOrder(old, new) ==
  \A i, j \in DOMAIN new : \A k, l \in DOMAIN old :
     (new[i] = old[k] /\ new[j] = old[l]) => (i < j <=> k < l)
=============================================================================
