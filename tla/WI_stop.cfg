CONSTANTS
  a = a
  b = b
  e = e
  Zero = Zero
  Inst <- OneInst
  Egress <- OneEgress
  Commands <- StopReprobe
  Conn <- NoConn
  CmdCap = 1
  EventCap = 1
  MaxPending = 1
  ReplayConcurrency = 1
  NumEndpoints = 1
  HasCredSource = FALSE
  DiskFaults = FALSE
  RunExitCap = 2
  MaxOrphans = 1
SPECIFICATION Spec
PROPERTIES
  StopEndsInstance
