SPECIFICATION CodecsSpec
CONSTANTS
  Codecs = {"bridge", "coding", "timing", "fx25", "il2p", "m17", "weak"}
  AltMaxExp = 40
  MaxSteps = 14
  Received <- Traffic
  Stages = 5
  TapA = 3
  TapB = 5
  PhaseBits = 8
  SamplesPerBit = 8
  Jitter = 1
  MaxRun = 7
  Frames = {"a", "b"}
  MaxSends = 3
  MaxSpoilt = 2
  MAX_BLOCK_DATA = 6
  MAX_BASELINE_BLOCK_DATA = 7
  UiFrames <- MCUiFrames
  Levels = {TRUE, FALSE}
  M17Talks <- MCM17Talks
  M17Damage = 2
  WeakMessages <- MCWeakMessages
  WeakBurst = 3
  WeakFade = 48
  WeakSpots = {1, 82, 139}
  WeakVisits = 800
INVARIANTS
  ReadsBack
  Canonical
  NoDrift
  NeverFiner
  SelfSynchronises
  OneDecisionPerCell
  DeliveredOnce
  MendedAndResynced
  PacketsIntact
  ShownIsSent
PROPERTIES
  OncePerWindow
CHECK_DEADLOCK FALSE
