SPECIFICATION SuiteSpec
CONSTANTS
  Patterns <- RoutingPatterns
  MaxScaled = 4
  MinutesPerDay = 3
  DaysPerWeek = 2
  Chains <- RoutingChains
  Load <- RoutingLoad
  Messages <- RoutingMessages
  Replies <- ClassifierReplies
  Statuses = {200, 429}
  Costs <- RoutingCosts
  StartTime = 4
  MaxTime = 6
  CacheParams <- CacheSettings
  CacheRequests <- CacheTraffic
  CacheResponses <- CacheAnswers
  CheckReplies <- CacheReplies
  DefaultQuestions <- CacheQuestions
  Similarity <- CacheSimilarity
  NumCacheCalls = 2
  MaxCacheRequests = 2
  MaxCheckTimeout = 2
  RawBedrock <- ServiceRawBedrock
  RawAzure <- ServiceRawAzure
  RawSemantic <- ServiceRawSemantic
  RawSchema <- ServiceRawSchema
  GuardedTexts <- ServiceTexts
  Assessments <- ServiceFindings
  AzureReplies <- ServiceAzureReplies
  MaxRetries = 2
  Phrases = {"p", "q"}
  Scores = {40, 65, 90}
  ScreenParams <- JevRaw
  ScreenBodies <- JevBodies
  ScreenReplies <- JevReplies
  DefaultRule <- JevDefault
  MaxScreenedText = 4
  MaxTimeout = 2
  One = 2
  MaxScoreLevels = 10
  MaxChoiceOption = 255
INVARIANTS GuardrailVerdictDue UpstreamSeesNoPII ClientReadsOriginal BedrockRoundTrip ServiceVerdictDue JevVerdictDue CachedAnswerDue McpGoverned McpListHonest ChargedOnce RotationRests BudgetOfModelUsed TargetWhole
CHECK_DEADLOCK FALSE
