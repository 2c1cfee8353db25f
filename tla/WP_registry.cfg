CONSTANTS
  k1 = k1
  k2 = k2
  Inst <- Insts2
  Key <- TwoKeys
  Egress <- TwoKeysEgress
  Zero = Zero
  Unkeyed = Unkeyed
  Nobody = Nobody
  Undecided = Undecided
  Exempt = Exempt
  NoPort = NoPort
  CmdCap = 1
  EventCap = 1
  MaxPending = 1
  LastOffset = 1
  Evictor = "None"
  ProbeFailLimit = 1
  InitMin = 2
  InitMax = 2
  MinCalls <- NoCalls
  MaxCalls <- NoCalls
  HealthChecks = FALSE
  Patrols = TRUE
  MaxTroubles = 1
SPECIFICATION Spec
INVARIANTS
  RegistryConsistent
  UniqueUndisturbed
PROPERTIES
  ImplementsKeyRegistry
SYMMETRY KeySwap
