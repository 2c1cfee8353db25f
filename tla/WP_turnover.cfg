CONSTANTS
  k1 = k1
  k2 = k2
  Inst <- Insts2
  Key <- OneKey
  Egress <- OneKeyEgress
  Zero = Zero
  Unkeyed = Unkeyed
  Nobody = Nobody
  Undecided = Undecided
  Exempt = Exempt
  NoPort = NoPort
  CmdCap = 1
  EventCap = 1
  MaxPending = 1
  LastOffset = 1
  Evictor = "Oldest"
  ProbeFailLimit = 2
  InitMin = 1
  InitMax = 3
  MinCalls <- JustThree
  MaxCalls <- JustOne
  HealthChecks = TRUE
  Patrols = FALSE
  MaxTroubles = 1
SPECIFICATION TickingSpec
INVARIANTS
  TypeOK
  PortsPartition
  NothingLeftBehind
  RemovedIsStopped
PROPERTIES
  
  SelfHeals
