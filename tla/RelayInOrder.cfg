CONSTANTS
  Inputs <- MCInputs
  UserInput <- MCUserInput
  NumberRead <- MCNumberRead
  NoInput = NoInput
  NumPlayers = 2
  MaxTicks = 2
  GameDuration = 1
  QueueCapacity = 1
  SocketCapacity = 2
  RepliesReorder = FALSE
  MaxTicksOf0 = 2
  MaxTicksOf1 = 2
  MaxTotalTicks = 4
SPECIFICATION Spec
CONSTRAINT AcksOf0
ACTION_CONSTRAINT QuietNetwork
INVARIANTS
  AckedInputsDelivered
PROPERTIES
  StreamSpec
CHECK_DEADLOCK FALSE
