CONSTANTS
  Inputs <- MCInputs
  UserInput <- MCUserInput
  NumberRead <- MCNumberEach
  NoInput = NoInput
  NumPlayers = 2
  MaxTicks = 2
  GameDuration = 2
  QueueCapacity = 1
  SocketCapacity = 2
  RepliesReorder = TRUE
  MaxTicksOf0 = 3
  MaxTicksOf1 = 1
  MaxTotalTicks = 4
SPECIFICATION Spec
CONSTRAINT AcksOf0
ACTION_CONSTRAINT RequestsOf0Once
INVARIANTS
  WindowNeverSkipsServer
  NoFatalError
  ReceivedInputsExact
PROPERTIES
  ServerNeverForgets
CHECK_DEADLOCK FALSE
