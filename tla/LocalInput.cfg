CONSTANTS
  Keys = {forward, left}
  TickDuration = 3
  MaxTicks = 2
  GameDuration = 3
  Start = 2
  Leftovers = {0, 4}
  MaxTime = 18
  MaxFrame = 7
  MouseStep = 5
  MaxMouse = 15
  Acceleration = 2
  MaxVelocity = 7
  HalfTurn = 60
  Second = 20
  MaxFrameSeconds = 2
  SamplesCount = 3
SPECIFICATION Spec
SYMMETRY KeySymmetry
INVARIANTS
  TypeOK
  TicksFollowClock
  MouseKept
  SimulationStable
  SmoothingStable
  CopiesAreTrue
PROPERTIES
  KeysTrue
CHECK_DEADLOCK FALSE
