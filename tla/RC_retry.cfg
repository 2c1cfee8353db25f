CONSTANTS
  i1 = i1
  x4 = x4
  x6 = x6
  NoAddr = NoAddr
  Unset = Unset
  Inst <- OneInst
  Addr4 <- FourAddr
  Addr6 <- SixAddr
  Egress <- Exits
  Zero <- EmptyExit
  CmdCap = 2
  EventCap = 2
  MaxPending = 1
  PortLimit = 9
  DefaultBase = 5
  DefaultPeriod = 1
  DefaultStart = 1
  DefaultMax = 4
  DefaultConcurrency = 1
  Raws <- SomeOptions
  WordBits = 4
  ShiftLimit = 2
  DrainTicks = 1
  ProbeFailLimit = 2
  Calls <- AllCalls
  MaxCalls = 1
  MaxWord = 6
SPECIFICATION Spec
INVARIANTS
  TypeOK
  
  
  NormalHasExit
  RetriesSlowDown
  BackoffIsServed
PROPERTIES
  
  Recovers
