CONSTANTS
  a1 = a1
  d1 = d1
  s1 = s1
  none = none
  Msgs <- MCMsgs
  NoMsg = none
  Asks <- MCAsks
  Deadlined <- MCDeadlined
  Empties <- MCEmpties
  Unhandled <- MCUnhandled
  Capacity = 1
  Policies <- AllPolicies
  WallBudget = TRUE
SPECIFICATION FairSpec
INVARIANTS TurnsDoNotOverlap NoOrphanedAsk OkIsStoredAndTraced SlabConserved
PROPERTIES ReplySentOnce PromiseKept EveryCallReturns
CHECK_DEADLOCK FALSE
