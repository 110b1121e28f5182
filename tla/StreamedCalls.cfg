SPECIFICATION StrSpec
CONSTANTS
  StrDialects = {"openai", "anthropic", "ollama"}
  StrMaxText = 1
  StrMaxCalls = 1
  StrMaxParts = 1
  StrWindow = 2
INVARIANT StreamedCallsAreWhole
CHECK_DEADLOCK FALSE
