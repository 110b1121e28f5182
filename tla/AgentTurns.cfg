SPECIFICATION Spec
CONSTANTS
  MaxIterations = 1
  MaxCalls = 2
  MaxRuns = 2
  MaxMessages = 6
  Kinds = {"edit"}
  Denied = {}
  UiModes = {"manual"}
  Compression = "off"
  StoreFails = TRUE
  CanInterrupt = TRUE
  CanCrash = TRUE
INVARIANT ToolResultsFollowTheirCalls
INVARIANT StoreMatchesHistory
 
 
CHECK_DEADLOCK FALSE
