\* A CM15A: two packets, a ring of three slots (two can wait), and a
\* controller that may owe two ACKs.
SPECIFICATION FlowQuietSpec
CONSTANTS
  Cmds = {a, b}
  NoCmd = NoCmd
  RingSize = 3
  Cm19a = FALSE
  MaxOwed = 2
VIEW View
INVARIANTS TypeOK IdleIsDrained BusyIsArmed FlagsTellTheTransfer
  NoSpareCredit OneAtController
PROPERTIES ImplementsFifo HeadAdvancesWhenQuiet StopsOnceWoken
CHECK_DEADLOCK FALSE
