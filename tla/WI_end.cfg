CONSTANTS
  a = a
  b = b
  e = e
  Zero = Zero
  Inst <- TwoInst
  Egress <- OneEgress
  Commands <- NoCommand
  Conn <- NoConn
  CmdCap = 1
  EventCap = 1
  MaxPending = 1
  ReplayConcurrency = 1
  NumEndpoints = 1
  HasCredSource = FALSE
  DiskFaults = TRUE
  RunExitCap = 1
  MaxOrphans = 1
SPECIFICATION FairSpec
INVARIANTS
  SemHolders
PROPERTIES
  SemIsGranted
  CloseTerminates
