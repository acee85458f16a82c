SPECIFICATION OutputLive
CONSTANTS
  QueueSize = 3
  Room = 3
  WriteMark = 2
  MaxMsg = 2
  PolicyLen = 2
  Timeout = 2
INVARIANTS OnlyPolicyTearsLines
PROPERTIES ImplementsFifo SlowReadersAreKept MarkedAreDropped
CHECK_DEADLOCK FALSE
