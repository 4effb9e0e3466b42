SPECIFICATION FairSpec
CONSTANTS
  MaxArrivals = 4
  Mtu = 4
  FrameMax = 12
  HeaderInfoSize = 1
  HeaderSize = 2
  SeparatorSize = 1
  Size <- MCSize
CHECK_DEADLOCK FALSE
INVARIANTS
  TypeOK
  NothingLostOrDoubled
  AssertsHold
  FramesFilled
PROPERTIES
  Delivered
  InterruptEnds
