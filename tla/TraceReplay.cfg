CONSTANTS
  Scripts <- MCScripts
  Ids <- MCIds
  Traps <- MCTraps
  Unhandled <- MCUnhandled
  Reads <- MCReads
  Clock <- MCClock
  MailCap = 1
  Driver = "driver"
  NoMsg = NoMsg
SPECIFICATION FairSpec
INVARIANTS TraceVerifies SerialRunReplays CleanReportIsOrdered
PROPERTIES ReplayEnds
CHECK_DEADLOCK FALSE
