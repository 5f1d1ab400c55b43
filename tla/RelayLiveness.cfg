CONSTANTS
  Inputs <- MCInputs
  UserInput <- MCUserInput
  NumberRead <- MCNumberRead
  NoInput = NoInput
  NumPlayers = 2
  MaxTicks = 2
  GameDuration = 1
  QueueCapacity = 1
  SocketCapacity = 1
  RepliesReorder = FALSE
  MaxTicksOf0 = 3
  MaxTicksOf1 = 3
  MaxTotalTicks = 6
SPECIFICATION FairSpec
ACTION_CONSTRAINT NoRepeats
INVARIANTS
  TypeOK
PROPERTIES
  CutOffForGood
  DeafForGood
  ReplyWorkedThrough
  AckedInputsApplied
CHECK_DEADLOCK FALSE
