SPECIFICATION Spec
CONSTANTS
  MaxDigipeaters = 3
  Window = 1
  Packets = {1, 2}
  Requests <- MCRequests
  Stations <- MCStations
  Tier <- MCTier
  Policy <- MCPolicy
  RingSlots <- MCRingSlots
  InfoBytes <- MCInfoBytes
  TxBuffer <- MCTxBuffer
  InRange <- MCInRange
  Source = "S"
  MaxSends <- MCMaxSends
INVARIANTS
  NamedHopServed
