CONSTANTS
  Clients = {c1, c2, c3}
  Nobody = Nobody
  NumPlayers = 2
  SocketCapacity = 2
  JunkTimes = TRUE
  MaxFaults = 1
SPECIFICATION FairSpec
INVARIANTS
  TypeOK
  NumberIsOwn
  PlaysInOwnSeat
PROPERTIES
  GameStarts
CHECK_DEADLOCK FALSE
