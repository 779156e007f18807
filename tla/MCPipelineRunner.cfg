SPECIFICATION Spec
CONSTANTS
  KnownDtype = {"bitmap", "colors", "geom2d"}
  NoData = NoData
  NoResult = NoResult
  NoGraph = NoGraph
  p = p
  q = q
  bad = bad
  empty = empty
  Graphs <- AllGraphs
  MaxBuilds = 2
  Outcomes <- AnyOutcome
  Async <- BitmapCodecs
  Gpu = {}
  Fatal <- FatalInputs
INVARIANTS TypeOK OutputsAreRight SuccessIsComplete CompleteGraphsRun OneTaskAwaited
PROPERTIES OutputsAccumulate ImplementsAwaitPool
CHECK_DEADLOCK FALSE
