SPECIFICATION Spec
CONSTANTS
  KnownDtype = {"bitmap", "colors", "geom2d"}
  NoData = NoData
  NoResult = NoResult
  NoGraph = NoGraph
  p = p
  q = q
  bad = bad
  empty = empty
  Graphs <- AllGraphs
  MaxBuilds = 2
  Outcomes <- AnyOutcome
  Async <- BitmapCodecs
  Gpu = {}
  Fatal <- FatalInputs
INVARIANT SequenceIsOfLastBuild
CHECK_DEADLOCK FALSE
