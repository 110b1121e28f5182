SPECIFICATION Spec
CONSTANTS
  MaxInputs = 1
  MaxAsks = 1
  CanLeave = TRUE
PROPERTY LeavingEnds
CHECK_DEADLOCK FALSE
