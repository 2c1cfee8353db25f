CONSTANTS
  a = a
  b = b
  e = e
  Zero = Zero
  Inst <- OneInst
  Egress <- OneEgress
  Commands <- DrainOnly
  Conn <- NoConn
  CmdCap = 2
  EventCap = 2
  MaxPending = 2
  ReplayConcurrency = 1
  NumEndpoints = 1
  HasCredSource = FALSE
  DiskFaults = FALSE
  RunExitCap = 2
  MaxOrphans = 2
SPECIFICATION Spec
INVARIANTS
  LossIsSignalled
