SPECIFICATION ClientSpec
CONSTANTS
  Types = {"main", "or20"}
  MaxClients = 1
  Fds = {4, 5}
  MaxConn = 3
  QueueSize = 1
  MaxUsb = 1
  OnOpenRemotePort = {"or20"}
INVARIANTS ClientTypeOK CountsMatchSlots SlotsOwnDescriptors NoInheritedBytes
PROPERTIES OnlyReusedAreCutOff ReadyAreServed
CHECK_DEADLOCK FALSE
