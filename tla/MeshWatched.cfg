CONSTANTS
  a1 = a1
  a2 = a2
  n1 = n1
  n2 = n2
  Asks <- MCAsks
  Nodes <- MCNodes
  Target <- ToTwoNodes
  Deadlined <- NoDeadline
  Inbound <- NoNode
  Stops = FALSE
  MaxAttempts = 1
  MaxConns <- TwoAndOneConn
  Others = TRUE
SPECIFICATION FairSpec
PROPERTIES DisconnectIsCurrent WatchedAskResolves
CHECK_DEADLOCK FALSE
