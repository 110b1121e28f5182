SPECIFICATION ServicesSpec
CONSTANTS
  StrDialects = {"openai", "anthropic", "ollama"}
  StrMaxText = 1
  StrMaxCalls = 2
  StrMaxParts = 2
  StrWindow = 2
  StkHttpRetries = 1
  StkRetries = 1
  StkFallbacks = 1
  StkDialects = {"openai", "anthropic", "ollama"}
  FactThreads = {"agent", "extractor"}
  FactExtractor = "extractor"
  FactContents = {"c1", "c2"}
  FactWords <- MCFactWords
  FactNames = {"Alice", "Bob"}
  FactStopWords = {"uses"}
  FactCategory <- MCFactCategory
  FactMaxOps = 3
  CurProcesses = {"p", "q"}
  CurEntries = {"a", "b", "long"}
  CurSize <- MCCurSize
  CurLimit = 5
  CurShortWrites = FALSE
  CurMaxOps = 3
  CurMaxCrashes = 1
  McpServerKinds = {"all", "requests"}
  McpTools = {"t1", "t2"}
  McpCallers = {"a", "b"}
  McpMaxCalls = 4
  BudCallers = {"agent", "sub"}
  BudTokens = {1, 2}
  BudSessions = {"s1", "s2"}
  BudMaxCalls = 3
  BudMaxSessions = 3
  SkPlaces <- MCSkPlaces
  SkPrimary = "r2"
  SkNames = {"a", "b"}
  SkBanned = {"b"}
  SkThreads = {"agent"}
  SkMaxOps = 3
  PlgTargets = {"p1", "p2", "m"}
  PlgMarket <- MCPlgMarket
  PlgSources = 2
  PlgThreads = {"agent", "ui"}
  PlgMaxOps = 4
  ChatTexts <- MCChatTexts
  ChatChunks <- MCChatChunks
  ChatWidths = {1, 2}
  ChatViewport = 3
  ChatMaxRows = 2
  ChatMaxText = 3
  LogSizes = {1, 2}
  LogMaxFile = 2
  LogMaxTotal = 5
  LogMaxRecords = 5
  LogMaxClock = 2
  LogMaxStarts = 2
  TrcWriters = {"p", "q"}
  TrcStorage = {"rolling", "full"}
  TrcMaxEntries = 2
  TrcMaxLines = 5
  TrcMaxFaults = 2
  CfgProcesses = {"p", "q"}
  CfgEdits <- MCCfgEdits
  CfgModels = {"", "m2"}
  CfgMaxStarts = 2
  CfgMaxEdits = 1
  CfgMaxOther = 1
  ContextLength = 100
  ThresholdPercent = 50
  TargetPercent = 20
  ProtectFirstN = 1
  ProtectLastN = 2
  FallbackShown = 2
  LongTokens = 50
  ShortTokens = 5
  MaxResults = 2
  MaxMessages = 5
INVARIANT ServicesTypeOK
INVARIANT AnswersComeBackWhole
INVARIANT RequestsFollowReplies
INVARIANT FactQueriesAreExact
 
 
 
 
 
INVARIANT ChatShowsWhatCame
INVARIANT LogKeepsTheNewest
 
INVARIANT ConfigIsKept
INVARIANT NothingForgotten
INVARIANT CutIsAllowed
INVARIANT RecentMessagesVerbatim
INVARIANT OrderKept
CHECK_DEADLOCK FALSE
