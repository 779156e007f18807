SPECIFICATION AllSpec
CONSTANTS
  HalfSize = 16
  Base = 3
  XorHalf <- BitXor
  F <- Mix
  RoundKey <- Keys
  HexBase = 2
  FloatMax = 3
  Documents <- Data
  Refused = Refused
  MaxSize = 4
  MaxColors = 6
  ChannelMax = 3
  Garbage = Garbage
INVARIANTS RoundTrip CodecsAreSound DrawingIsSound
CHECK_DEADLOCK FALSE
