SPECIFICATION FairSpec
CONSTANTS
  t1 = t1 t2 = t2 t3 = t3
  Tasks = {t1, t2, t3}
  NoTask = NoTask
  Pinned = {t2}
  Target <- McTarget
  Hogs = {t1}
  Topology <- McTopology
  Callers = {c1, c2}
  DepthMod = 8
INVARIANTS TaskInOnePlace WorkIsAttended DepthNeverWraps
PROPERTIES QuietAfterShutdown EveryTaskRuns
CHECK_DEADLOCK FALSE
