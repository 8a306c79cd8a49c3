SPECIFICATION SpecSinkTakes
CONSTANTS
  Conns = {1, 2}
  MAX_CLIENTS = 1
  CHANNEL_DEPTH = 1
  MaxRx = 3
  MaxTx = 2
PROPERTIES
  GracefulShutdown
