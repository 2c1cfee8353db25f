CONSTANTS
  k1 = k1
  k2 = k2
  Inst <- Insts2
  Key <- OneKey
  Egress <- OneKeyEgress
  Zero = Zero
  Unkeyed = Unkeyed
  Nobody = Nobody
  Undecided = Undecided
  Exempt = Exempt
  NoPort = NoPort
  CmdCap = 1
  EventCap = 2
  MaxPending = 1
  LastOffset = 1
  Evictor = "Oldest"
  ProbeFailLimit = 2
  InitMin = 2
  InitMax = 2
  MinCalls <- NoCalls
  MaxCalls <- NoCalls
  HealthChecks = TRUE
  Patrols = FALSE
  MaxTroubles = 1
SPECIFICATION Spec
INVARIANTS
  Unique
