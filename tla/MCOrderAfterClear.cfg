SPECIFICATION Spec
CONSTANTS
  MaxNodeId = 2
  MaxEdgeId = 2
  Registry <- OneFunction
  Dtype = {}
  Payload = {}
  NoData = NoData
  Batches <- AnyBatches
INVARIANT OrderListsNodes
