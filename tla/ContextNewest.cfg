SPECIFICATION Spec
CONSTANTS
  ContextLength = 100
  ThresholdPercent = 50
  TargetPercent = 20
  ProtectFirstN = 3
  ProtectLastN = 2
  FallbackShown = 2
  LongTokens = 50
  ShortTokens = 5
  MaxResults = 2
  MaxMessages = 6
INVARIANT NewestDialogueKept
