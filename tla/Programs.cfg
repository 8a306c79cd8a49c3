SPECIFICATION MCSpec
CONSTANTS
  Programs = {"ring", "keying", "capture", "decode_many", "serve_kiss"}
  N = 3
  OverrunMax = 2
  MaxBatch = 4
  MaxProduced = 8
  Commands <- MCCommands
  Poll = 1
  Samples = 2
  DeviceBuffer = 2
  Callback = 2
  SinkBuffer = 3
  PipeRoom = 2
  MaxLines = 2
  MaxSessions = 8
  Feeds = {1, 2}
  Lengths = {0, 4, 5, 8}
  ReadMax = 2
  ChunkCap = 1
  ChannelCap = 1
  Clients = {1, 2}
  SocketRoom = 1
  MayStall = FALSE
INVARIANTS
  TypeOK
  OverrunsExact
  InOrder
  KeyedOnlyWhenHeld
  KeyDownBounded
  WholeTransmission
  Courtesy
  LineForLine
  NothingLost
PROPERTIES
  ImplementsFifo
  EventuallyReleased
  EndsInTime
  NoneLeft
  EveryoneElseServed
CHECK_DEADLOCK FALSE
