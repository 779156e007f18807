SPECIFICATION CarefulSpec
CONSTANTS
  MaxNodeId = 3
  MaxEdgeId = 2
  Registry <- TwoInOneOut
  Dtype = {}
  Payload = {}
  NoData = NoData
  Batches <- OrderBatches
INVARIANTS OrderRespectsEdges EdgesAreMirrored
PROPERTY ImplementsWiring
