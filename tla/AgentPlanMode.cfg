SPECIFICATION Spec
CONSTANTS
  MaxIterations = 2
  MaxCalls = 2
  MaxRuns = 1
  MaxMessages = 6
  Kinds = {"edit", "plan_edit", "shell", "plan_exit", "unknown"}
  Denied = {"unknown"}
  UiModes = {"manual", "acceptEdits", "plan", "auto"}
  Compression = "off"
  StoreFails = FALSE
  CanInterrupt = FALSE
  CanCrash = FALSE
INVARIANT ModesAreConsistent
INVARIANT PlanModeIsReadOnly
INVARIANT MutationsAreApproved
PROPERTY PlanLeftOnlyWithApproval
 
CHECK_DEADLOCK FALSE
