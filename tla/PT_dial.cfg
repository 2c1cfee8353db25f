CONSTANTS
  t = t
  u = u
  v = v
  k = k
  Dial <- Dials
  Tunnel <- OneTunnel
  Inst <- TwoInsts
  Contexts <- SomeContexts
  Key <- OneKey
  NoKey = NoKey
  Keys <- AnyKey
  Rank <- Ranks
  CursorSize = 2
SPECIFICATION FairSpec
INVARIANTS
  TypeOK
  HandedOutClean
  RotationSpreads
  KeyOrderAgrees
PROPERTIES
  KeepsPromise
  CancelledDialReturns
  WatchersEnd
  
