SPECIFICATION Spec
CONSTANT NodeId = {n1, n2, n3, n4, n5}
SYMMETRY NodeSymmetry
INVARIANTS TypeOK PosInvertsOrder AdjacencySymmetric OrderIsTopological
PROPERTIES MovesAreForced ImplementsDagOrder
