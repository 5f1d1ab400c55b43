CONSTANTS
  Capacity = 3
  Size = 4
  WordSize = 8
  Items = {a, b}
  Raw = Raw
SPECIFICATION FairSpec
INVARIANTS
  AccessSound
  OneWakeup
  BufferInv
PROPERTIES
  FifoSpec
  FailureIsTrue
  TimedCallsReturn
  WaitersAreServed
