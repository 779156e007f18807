SPECIFICATION Spec
CONSTANTS
  MaxNodeId = 3
  MaxEdgeId = 2
  Registry <- DrawOnly
  Dtype <- ColorsAndBitmaps
  p = p
  bad = bad
  empty = empty
  Payload = {p, bad, empty}
  NoData = NoData
  KnownDtype = {"bitmap", "colors"}
  MaxBuilds = 1
  Outcomes <- AlwaysDone
  Async <- BitmapCodecs
  Gpu = {}
  Fatal <- RefusedInputs
  NoResult = NoResult
  NoGraph = NoGraph
  IoKinds <- ColorsInBitmapsOut
  Metas <- Stored
  MaxEdits = 7
INVARIANTS ListedIsAnswered CompleteGraphsBuild OnlyMissingInputsAbort OutputsOfTheBuild
PROPERTY EditsNeverAbort
CHECK_DEADLOCK FALSE
