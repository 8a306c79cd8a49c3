SPECIFICATION KeyingSpec
CONSTANTS
  Commands <- MCPlayerCommands
  Poll = 1
  Samples = 2
  DeviceBuffer = 2
  Callback = 2
INVARIANTS
  HardLimit
