CONSTANTS
  h1 = h1
  h2 = h2
  h3 = h3
  b1 = b1
  b2 = b2
  blank = blank
  Holders <- MCHolders
  Bytes <- MCBytes
  Blank = blank
  Capacity = 2
  MaxGrabs = 4
SPECIFICATION Spec
SYMMETRY MCSymmetry
INVARIANTS FramesKeepTheirBytes SlotsConserved CountersOrdered
