SPECIFICATION DriverSpec
CONSTANTS
  KnownDtype = {"bitmap", "colors", "geom2d"}
  NoData = NoData
  NoResult = NoResult
  NoGraph = NoGraph
  Null = Null
  Blank = Blank
  Spoiled = Spoiled
  p = p
  q = q
  bad = bad
  empty = empty
  Graphs <- AllKinds
  MaxBuilds = 1
  Outcomes <- AlwaysDone
  Async <- BitmapCodecs
  Gpu <- WebGpu
  Fatal <- FatalInputs
  Overdraw <- Drawing
  MaxGrowths = 2
INVARIANTS MemoryTypeOK ViewsAreLive BitmapsArrive StoredIsRight AbortsOnlyAfterAll
PROPERTY Finishes
CHECK_DEADLOCK FALSE
