\* A CM19A: startup packets, at most two queued packets, drains of two rounds.
SPECIFICATION FairLifeSpec
CONSTANTS
  Cmds = {a}
  NoCmd = NoCmd
  RingSize = 3
  Cm19a = TRUE
  MaxOwed = 1
  MaxEvents = 2
INVARIANTS LifeTypeOK NotFreedWhilePending DrainedIsQuiet LostDriverIsReported Cm19aPacedByCompletion
PROPERTIES NoWriteAfterCancel ShutdownEnds
CHECK_DEADLOCK FALSE
