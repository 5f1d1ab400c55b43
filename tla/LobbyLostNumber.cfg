CONSTANTS
  Clients = {c1, c2}
  Nobody = Nobody
  NumPlayers = 2
  SocketCapacity = 2
  JunkTimes = FALSE
  MaxFaults = 1
SPECIFICATION Spec
INVARIANT OneClientPerPlayer
CHECK_DEADLOCK FALSE
