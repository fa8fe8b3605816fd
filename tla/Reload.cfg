SPECIFICATION Spec
CONSTANTS
  s1 = s1 s2 = s2 s3 = s3 m1 = m1 m2 = m2 r1 = r1 r2 = r2
  Schemas <- McSchemas
  AllEdges <- McEdges
  Msgs <- McMsgs
  NoMsg = NoMsg
  InitialSchema = s1
  Calls <- McCalls
SYMMETRY McSymmetry
INVARIANTS PausedHasCause LossNeedsRace OneReloadAgrees
PROPERTIES ChainIsShortest
CHECK_DEADLOCK FALSE
