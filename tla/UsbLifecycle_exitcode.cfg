\* A CM19A: startup packets, one queued packet at most, drains of two rounds.
SPECIFICATION LifeSpec
CONSTANTS
  Cmds = {a}
  NoCmd = NoCmd
  RingSize = 2
  Cm19a = TRUE
  MaxOwed = 1
  MaxEvents = 2
INVARIANT ErrorExitIsReported
CHECK_DEADLOCK FALSE
