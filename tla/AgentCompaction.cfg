SPECIFICATION Spec
CONSTANTS
  MaxIterations = 1
  MaxCalls = 1
  MaxRuns = 2
  MaxMessages = 5
  Kinds = {"read"}
  Denied = {}
  UiModes = {"manual"}
  Compression = "in_place"
  StoreFails = FALSE
  CanInterrupt = FALSE
  CanCrash = TRUE
INVARIANT NothingSaidIsLost
CHECK_DEADLOCK FALSE
