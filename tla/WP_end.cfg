CONSTANTS
  k1 = k1
  k2 = k2
  Inst <- Insts1
  Key <- OneKey
  Egress <- ExemptEgress
  Zero = Zero
  Unkeyed = Unkeyed
  Nobody = Nobody
  Undecided = Undecided
  Exempt = Exempt
  NoPort = NoPort
  CmdCap = 1
  EventCap = 1
  MaxPending = 1
  LastOffset = 1
  Evictor = "None"
  ProbeFailLimit = 1
  InitMin = 1
  InitMax = 1
  MinCalls <- NoCalls
  MaxCalls <- NoCalls
  HealthChecks = TRUE
  Patrols = TRUE
  MaxTroubles = 3
SPECIFICATION EndingSpec
INVARIANTS
  ProbingIsAttended
PROPERTIES
  AdmittedIsConfirmed
  CloseReturns
