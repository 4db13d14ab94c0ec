CONSTANTS
  ModeOperators = {"o1"}
  MaxModeRequests = 3
  MaxPolicyRestarts = 1
  MaxSessions = 2
  MissionNodes = {"a", "b", "c"}
  MissionRoot = "a"
  MissionRuns = {1, 2}
  MissionDeps = {"b"}
  MaxReshapes = 2
  NoId = NoId
  DeliveryRuns = {"d1", "d2"}
  Earlier = {"d2"}
  CiRuns = {"e1", "e2"}
  Heads = {"x", "y"}
  NoHead = NoHead
  CiReports <- MCReports
  MaxAttempts = 2
  MaxEvidence = 2
  MaxObserved = 2
  LoginProviders = {"codex", "claude"}
  LoginAttempts = {1, 2}
  NoAttempt = NoAttempt
  ConnCalls = {1, 2}
  OAuthStates = {"s1"}
  MaxSecrets = 3
  TrustCandidates = {"c1", "c2"}
  ConcernFindings <- MCFindings
  VerdictFiles <- MCVerdicts
  ConcernRecords <- MCRecords
  MaxInputs = 2
  ScopeFiles = {"source", "config", "prose", "mdx", "svg", "opaque"}
  ScopeLines <- MCScopeLines
  MaxScope = 4
  TextKinds = {"split", "call", "scalar", "tokens"}
  TextOf <- MCTextOf
  MaxText <- MCMaxText
  PatchFiles = {"f", "t"}
  TestFiles = {"t"}
  None = None
  MaxPatchLines = 7
  Languages <- MCLanguages
  FlowNames = {"a", "b"}
  FlowForms = {"concealed", "env", "composed", "alias", "observe", "derive", "call", "sink", "hidden", "expression", "mutate", "overwrite", "unbalanced", "comment", "masked", "embedded", "split", "named"}
  MaxFlow = 3
  MaxFlowOf <- MCMaxFlowOf
  GateFiles = 2
  Contents <- GateContents
  MaxEdits = 2
  MaxRepairAttempts = 1
  GateTasks <- GateTaskSet
  TestEvidence <- GateEvidence
  BudgetMode = "HARD"
  ExecutionAlloc = 3
  RecoveryAlloc = 2
  Reported <- BudgetReports
  MaxPlausible = 2
  MaxUsageEvents = 2
  MaxRecoveryUsed = 2
  MaxRestarts = 1
  MaxBudgetRepairs = 2
  MaxBudgetExecutions = 3
  Platforms = {"posix", "win32"}
  PostureLines <- PostureLineSet
  MaxPostureLines = 3
  Scenarios = {"TIMEOUT", "MALFORMED_UPSTREAM_RESPONSE", "DUPLICATE_REQUEST"}
  Readings = {0, 8, 10, 12}
  SampleCount = 2
  MaxRegressionPercent = 10
  DiffLines = {"x", "y"}
  MaxDiffLines = 4
  MaxTable = 16
  Around = 1
  CapProviders <- CapProvs
  CapabilityOf <- CapOf
  MayEstablish <- CapEstablishes
  NegativeCeiling <- CapCeiling
  CandidateClasses <- CapClasses
  InventoryFiles <- CapInventory
  Answers <- CapAnswers
  Scanner = "SCAN"
  MaxUpgrades = 1
  MaxWrites = 1
  ScanFiles <- ScanTargets
  ScanClass <- ScanClasses
  RuleClasses <- ScanRuleClasses
  ScanDocuments <- ScanDocs
  MaxDiskWrites = 2
  VulnerabilitySets <- ScanVulns
  GroupLists <- ScanGroups
  MaxDocItems = 5
  Docs <- ScipDocs
  Occurrences <- ScipOccurrences
  SymbolInfos <- ScipInfos
  ScipSymbols <- ScipNames
  LocalSymbols <- ScipLocals
  ScipAsks <- ScipQueries
  LineSpan = 10
  MaxResults = 3
  MaxSwaps = 1
  PayloadBits = 2
  Width = 5
  Runs = {ra, rb}
  Writers = {ra}
  SourceFiles = {1, 2}
  MaxVersion = 3
  MaxRevision = 2
  MaxTreeWrites = 1
  MaxReconciled = 2
  MaxClaims = 3
  Callers = {loop}
  MaxPageRequests = 2
  MaxPageCount = 2
  MaxPageCharacters = 2
  MaxTextCharacters = 4
  MaxContextHandles = 4
  ClipMarker = 1
  SoloLength = 1
  GuidedLength = 2
  MaxTouches = 1
  LearnRuns <- LRuns
  RunEndings <- LEndings
  Selectors = {1, 2}
  Deployments <- LDeployments
  FeedbackEvents <- LEvents
  CanaryMinimum = 1
  PromotionMinimum = 2
  PromotionRate = 5
  DurableMinimum = 1
  CostMinimum = 1
  RecentWindow = 3
  HealthEvents = 2
  CanaryPeriod = 2
  ListLimit = 2
  MaxLearnRestarts = 1
  PriceSources <- PSources
  MaxJsonNodes = 5
  MaxJsonDepth = 2
  Catalogues <- PCatalogues
  PricedRequests <- PRequests
  Usages <- PUsages
  GatewayClock = {"fresh", "old"}
  MaxGatewayRetries = 1
  MaxGatewayCalls = 2
  SignalFiles = {1, 2, 3}
  SignalModule <- SgModule
  InitialFiles = {1}
  ImportLinks <- SgLinks
  SignalPatterns = {"edit:ts"}
  StabilizationWindow = 2
  MechanicalEdits = 2
  MechanicalTargets = 1
  MaxSignals = 4
  AgentKinds = {"native", "codex", "claude", "antigravity"}
  OutputLines = {"call", "report", "failure", "noise", "falsy"}
  MaxOutput = 2
  MaxAgentAttempts = 2
  ImportNodes = {"p", "q", "r"}
  MaxImports = 4
SPECIFICATION Spec
VIEW RestView
CHECK_DEADLOCK FALSE
INVARIANT ModeIsEnforced
INVARIANT MissionGatesHold
PROPERTY DeliveryIsSound
PROPERTY LoginIsSound
PROPERTY ConnectionsAreSound
INVARIANT TrustIsEarned
PROPERTY BadNewsNeverPromotes
 
INVARIANT LocalReadingIsExact
 
 
INVARIANT GateIsSound
PROPERTY BudgetHolds
INVARIANT ProcessEndsCleanly
PROPERTY PosturesAreEarned
INVARIANT DiffIsExact
INVARIANT CapabilityEvidenceIsSound
INVARIANT ScanIsOfTheCandidate
INVARIANT ScipAnswerIsSound
INVARIANT KnowledgeIsCurrent
INVARIANT WorkingSetIsSound
INVARIANT LearningIsEarned
INVARIANT CostIsHonest
PROPERTY SignalsAreSound
INVARIANT StreamIsSound
INVARIANT CyclesAreExact
