SPECIFICATION Spec
CONSTANTS
  MaxInputs = 3
  MaxAsks = 2
  CanLeave = TRUE
INVARIANT RunsAreExclusive
INVARIANT QueuedInputIsDrained
INVARIANT InputsRunInOrder
INVARIANT InputsAreShownOnce
INVARIANT OneDecisionPerRequest
INVARIANT SessionOpsExcludeRuns
PROPERTY InputsAreServed
CHECK_DEADLOCK FALSE
