CONSTANTS
  a = a
  b = b
  e = e
  Zero = Zero
  Inst <- OneInst
  Egress <- OneEgress
  Commands <- AllCommands
  Conn <- OneConn
  CmdCap = 1
  EventCap = 1
  MaxPending = 1
  ReplayConcurrency = 1
  NumEndpoints = 2
  HasCredSource = TRUE
  DiskFaults = FALSE
  RunExitCap = 2
  MaxOrphans = 1
SPECIFICATION Spec
INVARIANTS
  TypeOK
  ClientMatchesPhase
  SignalsMatchClient
  IdentityKept
  AwaitTracksProbing
PROPERTIES
  DisabledUntilEnabled
  
  
  ImplementsLifecycle
