SPECIFICATION Spec
CONSTANTS
  Kits <- Branches
  Turns = 2
INVARIANTS LoansAreHonoured
CHECK_DEADLOCK FALSE
