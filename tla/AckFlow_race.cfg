\* A CM15A that may owe up to three ACKs.
SPECIFICATION FlowSpec
CONSTANTS
  Cmds = {a}
  NoCmd = NoCmd
  RingSize = 3
  Cm19a = FALSE
  MaxOwed = 3
PROPERTY EveryReleaseWaited
CHECK_DEADLOCK FALSE
