SPECIFICATION Spec
CONSTANTS
  MaxIterations = 2
  MaxCalls = 1
  MaxRuns = 2
  MaxMessages = 6
  Kinds = {"plan_exit"}
  Denied = {}
  UiModes = {"manual", "plan"}
  Compression = "off"
  StoreFails = FALSE
  CanInterrupt = TRUE
  CanCrash = FALSE
PROPERTY PlanLeftOnlyWithApproval
CHECK_DEADLOCK FALSE
