SPECIFICATION BootSpec
CONSTANTS
  Ports = {"1099", "1100", "1101"}
  Addresses4 = {"0.0.0.0"}
  Addresses6 = {"::"}
  Inputs <- MCInputs
  Descriptors <- MCDescriptors
  MinPacket = 8
INVARIANTS Precedence NoSelfCollision AllOrNothing EnableMeansDual EndpointsAreTheOnlyPair
CHECK_DEADLOCK FALSE
