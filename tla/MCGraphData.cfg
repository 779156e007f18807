SPECIFICATION Spec
CONSTANTS
  MaxNodeId = 2
  MaxEdgeId = 1
  Registry <- OneIn
  Dtype = {"float"}
  Payload = {p}
  NoData = NoData
  Batches <- InputBatches
INVARIANT ValidateForetells
PROPERTY EditsKeepData
