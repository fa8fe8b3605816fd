SPECIFICATION Spec
CONSTANTS
  Kits <- Checked
  Turns = 2
INVARIANTS MovesAreTracked LoansAreHonoured AlarmsAreReal
CHECK_DEADLOCK FALSE
