CONSTANTS
  HeaderInfoSize = 2
  HeaderSize = 2
  SeparatorSize = 1
  FrameMax = 6
  Size <- MCSize
  Conns = {c1, c2}
  Frames <- MCFrames
  Hello = "hello"
  ClientVersions <- MCClientVersions
  ServerVersion = 1
  Capacity = 2
  Longer = c1
  MaxFrames <- MCMaxFrames
  FirstFaults = 0
  MaxFaults <- MCMaxFaults
  ReuseDescriptors = TRUE
  None = None
  NumQueues = 2
  RoundRobinWrap = 4
SPECIFICATION SpecReusing
INVARIANTS
  FramesOnOwnSocket
CHECK_DEADLOCK FALSE
