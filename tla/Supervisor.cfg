CONSTANTS
  x1 = x1
  x2 = x2
  c1 = c1
  c2 = c2
  noone = noone
  Children <- MCChildren
  Nodes <- MCNodes
  Home <- MCHome
  Restart <- MCRestart
  MaxRestarts = 1
  Strategies <- AllStrategies
  Policies <- AllPolicies
  Callers <- MCCallers
  EventCap = 1
  MaxAdds = 3
  MaxSettings = 2
  MaxReports = 2
  NoOne = noone
SPECIFICATION Spec
SYMMETRY MCSymmetry
INVARIANTS DownChildIsAnnounced DrainerCatchesUp
PROPERTIES NoProcIsSticky
CHECK_DEADLOCK FALSE
