SPECIFICATION ServeSpec
CONSTANTS
  Feeds = {1}
  Lengths = {8}
  ReadMax = 2
  ChunkCap = 1
  ChannelCap = 1
  Clients = {1, 2}
  SocketRoom = 1
  MayStall = TRUE
PROPERTIES
  EveryoneElseServed
CHECK_DEADLOCK FALSE
