CONSTANTS
  a1 = a1
  a2 = a2
  n1 = n1
  n2 = n2
  Asks <- MCAsks
  Nodes <- OneNode
  Target <- ToOneNode
  Deadlined <- MCAsks
  Inbound <- OneNode
  Stops = TRUE
  MaxAttempts = 1
  MaxConns <- TwoConns
  Others = FALSE
SPECIFICATION Spec
SYMMETRY AskSymmetry
INVARIANTS WaitingAskHasEntry NoEntryLeft InFlightIsTargeted
CHECK_DEADLOCK FALSE
