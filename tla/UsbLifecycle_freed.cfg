\* A CM15A: one queued packet at most, drains of two rounds.
SPECIFICATION LifeSpec
CONSTANTS
  Cmds = {a}
  NoCmd = NoCmd
  RingSize = 2
  Cm19a = FALSE
  MaxOwed = 1
  MaxEvents = 2
INVARIANT AllocatedWhilePending
CHECK_DEADLOCK FALSE
