CONSTANTS
  HeaderInfoSize = 2
  HeaderSize = 3
  SeparatorSize = 1
  FrameMax = 7
  Size <- MCSize
  Conns = {c1, c2}
  Frames <- MCFrames
  Hello = "hello"
  ClientVersions <- MCClientVersions
  ServerVersion = 1
  Capacity = 3
  Longer = c1
  MaxFrames <- MCMaxFrames
  FirstFaults = 1
  MaxFaults <- MCMaxFaults
  ReuseDescriptors = FALSE
  None = None
  NumQueues = 2
  RoundRobinWrap = 4
SPECIFICATION FairSpec
INVARIANTS
  TypeOK
  InStep
  ExchangeFirst
  OtherVersionsRefused
  DatagramsInOrder
  QueuesBalanced
  MutexHolders
PROPERTIES
  ChannelImplemented
  ExchangeEnds
  FramesArrive
  PeerGoneNoticed
CHECK_DEADLOCK FALSE
