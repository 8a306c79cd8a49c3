SPECIFICATION BridgeSpec
CONSTANTS
  AltMaxExp = 40
  MaxSteps = 14
  Received <- Traffic
INVARIANTS
  MicEInverse
CHECK_DEADLOCK FALSE
