CONSTANTS
  Inputs <- MCInputs
  UserInput <- MCUserInput
  NoInput = NoInput
  None = None
  Rest = Rest
  Leftover <- MCLeftover
  NumPlayers = 2
  LocalPlayer = 0
  MaxTicks = 4
  GameDuration = 5
  DelayStep = 1
  MaxLag = 3
  Ahead = 1
SPECIFICATION Spec
INVARIANTS
  RemoteStatesAreBestKnown
CHECK_DEADLOCK FALSE
