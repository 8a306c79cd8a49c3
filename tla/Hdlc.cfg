SPECIFICATION Spec
CONSTANTS
  N = 4
  MinFrameLen = 1
  RawBits = 48
  Contents <- MCContents
  Policies = {"None", "SingleBitFlip", "PreDestuffFlip"}
  Sane <- MCSane
  VoteErrors = {1, 8, 20}
  MaxFrames = 2
  MaxNoise = 1
INVARIANTS
  NeverForges
PROPERTIES
  IntactDelivered
  FlipRepaired
CHECK_DEADLOCK FALSE
