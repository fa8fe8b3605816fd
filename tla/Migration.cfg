CONSTANTS
  a1 = a1
  a2 = a2
  m1 = m1
  m2 = m2
  none = none
  Attempts <- MCAttempts
  NoAttempt = none
  Msgs <- MCMsgs
SPECIFICATION Spec
INVARIANTS AgentIsSomewhere PendingServesCalls MetricsBalance SerialInTimeIsClean
CHECK_DEADLOCK FALSE
