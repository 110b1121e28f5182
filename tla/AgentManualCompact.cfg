SPECIFICATION Spec
CONSTANTS
  MaxIterations = 1
  MaxCalls = 1
  MaxRuns = 2
  MaxMessages = 6
  Kinds = {"read"}
  Denied = {}
  UiModes = {"manual"}
  Compression = "live_only"
  StoreFails = FALSE
  CanInterrupt = TRUE
  CanCrash = FALSE
INVARIANT NothingSaidIsLost
CHECK_DEADLOCK FALSE
