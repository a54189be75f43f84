SPECIFICATION SwitchingSpec
CONSTANTS
  Days <- MCDays
  Stocks <- AB
  Members <- MCMembers
  Predict <- MCPredict
  Feeds <- MCFeeds
  Methods <- MCMethods
  StartDate = 5
  EndDate = 8
  WeekLength = 2
  Tolerance = 1
  StartCash = 3000
  MaxPosition = 2000
  MinPrice = 90
  FeeRate = 25
  Trims = TRUE
  PlanUniverse <- AB
  PlanFeeds <- MCPlanFeeds
  PlanBooks <- MCPlanBooks
  PlanModes <- MCPlanModes
  PlanCap = 1000
  PlanMinPrice = 61
  NoTarget <- MinusOne
  Symbols_ <- OneSymbol
  CacheDays = 4
  Listed <- MCListed
  Gap = 1
  Requests <- MCRequests
  Replies <- MCReplies
  Files <- MCFiles
  RetryAge = 0
  TrainFeeds <- MCTrainFeeds
  TrainTasks <- MCTrainTasks
  TrainMembers <- MCTrainMembers
  FirstSupported = 2
  LabelDays = 2
  SampleDays = 2
  MaxStale = 1
  WindowDays = 5
  MinTrainingRows = 2
  BenchFeeds <- MCBenchFeeds
  BenchTasks <- MCBenchTasks
  RegisteredMethods = {"Baseline"}
  BenchFirst = 5
  BenchLast = 8
  BenchDuration = 1
  BenchTolerance = 2
  WarmupDays = 3
  UniverseSince = 3
  SimReturns = {0, 25}
  SpyReturn <- MCSpyReturn
  MinPeriods = 2
  MinObservations = 2
INVARIANT SameDelegate
CHECK_DEADLOCK FALSE
