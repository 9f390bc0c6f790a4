SPECIFICATION DataSpec
CONSTANTS
  Awkward = {1, 2}
  ToolWindow = 2
  ContextWindow = 8
  ReserveTokens = 2
  KeepRecentTokens = 2
  SummarySize = 1
  SystemSize = 1
  MaxOutput = 3
  ContextSafety = 1
  MinMaxTokens = 1
  ThinkingBudget = 1
  MinOutputTokens = 1
  DefaultBudget = 1
  Reasoning = TRUE
  Models <- FourModels
  Prompts <- TextOrImages
  Replies <- ReplyShapes
  ResultSize <- Sizes
  PerProcessIDs = FALSE
  MaxMessages = 8
  MaxRestarts = 1
  MaxProjectionFailures = 1
  Contents <- MCContents
  EditLists <- MCEditLists
  Pieces <- MCPieces
  OutputBound = 8
  maxLines = 2
  maxBytes = 2
  DiskFaults = 1
  Bodies <- MCBodies
  Docs <- MCDocs
  Resolvers = {"c1", "c2"}
  attachmentMax = 2
  Window = 3
  InlineMax = 2
  ExcerptTokens = 1
  ImageTokens = 1
  PageTokens = 1
  MaxPayload = 7
  MaxPages = 1
  MaxFaults = 1
  MaxRequests = 1
  MaxContinuations = 2
  MaxRuns = 2
  MaxTurnMessages = 1
INVARIANTS
   NothingForgotten EditIsFaithful LogIsFaithful EventsAreWhole AttachmentsHold
  LoopIsHonest
PROPERTIES
  CompactionKeepsTurns
CHECK_DEADLOCK FALSE
