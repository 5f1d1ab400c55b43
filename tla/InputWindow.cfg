CONSTANTS
  Inputs = {0, 1, 2, 3, 4}
  NoInput = NoInput
  MaxTicks = 3
  LastTick = 4
  MaxTicksToTransmit = 256
  NumPlayers = 2
SPECIFICATION Spec
INVARIANTS
  TornPacketsIgnored
  ServerHoldsPlayed
  NeverUninitialized
  PacketRoundTrip
  TestsAgree
  DatagramsGetThrough
  UnbuiltRepliesIgnored
CHECK_DEADLOCK FALSE
