SPECIFICATION MCSpec
CONSTANTS
  Parts = {"kiss", "tcp", "bank"}
  N = 2
  Ports = {0, 12}
  Payloads <- MCPayloads
  NoiseBytes <- MCNoiseBytes
  MaxFrames = 2
  MaxNoise = 2
  Conns = {1, 2}
  MAX_CLIENTS = 1
  CHANNEL_DEPTH = 1
  MaxRx = 3
  MaxTx = 2
  Active = 3
  Slots = 3
  Primary = 1
  Window = 2
  Skew = 2
  Gap = 5
  Contents = {"f", "g", "x"}
  Key <- MCKey
  UiContents = {"f", "g"}
  StatMax = 1
  MaxSent = 2
INVARIANTS
  NoPhantom
  EncodersAgree
  BurstsAccounted
  EmittedOnce
  SingleReceiverStats
PROPERTIES
  IntactDelivered
  NoGap
  EventuallyReturns
