SPECIFICATION PartsSpec
CONSTANTS
  Rows <- SevenRows
  Syms <- BothSyms
  Prices <- LowHigh
  FirstPrice <- HighLow
  Lot = 4
  Target <- Halves
  FirstRows <- OneRow
  FirstSym = 1
  FirstCost = 2
  Initial = 60
  Reserve = 9
  MinNotional = 4
  Band = 0
  RateDen = 10
  Events <- OneDeposit
  Guarded <- OneJob
  Plain <- OneLoop
  Core = "core"
  MaxYear = 2
  MaxChanges = 1
  MaxSnaps = 1
  MaxFaults = 1
  AAA = AAA
  StudySyms = {1, 2}
  StudySpy = 2
  StudyBars <- SomeBars
  StudyCash = 100000
  StudyFeeDen = 400
  StudyRules <- ThreeRules
  StudyDays = 3
  SimSymbols = {AAA, BBB}
  SimCloses = {10, 12, 20}
  SimScores <- ThreeScores
  SimCash = 100
  SimPositionPct = 60
  SimPositions = 2
  SimBuyAt = 12
  SimSellAt <- SellScore
  SimTrailPct = 5
  SimHold = 1
  SimSlip = 1
  SimDays = 2
  SimReadings <- SomeReadings
  SimLevels <- SomeLevels
  ReplaySymbols = {"a", "b"}
  ReplaySignals <- FourSignals
  ReplayCash = 200000
  ReplayPositionPct = 95
  ReplayPositions = 2
  ReplayTrailPct = 5
  ReplayHold = 2
  ReplayRisk = 100
  ReplayPosPct = 60
  ReplayTotalPct = 90
  ReplayMinOne = TRUE
  ReplayPeriod = 3
  EventLoop = loop
  BackgroundThreads = {sweep}
  SweepThreads = {job}
  SaleThreads = {sale}
  BrokerOrders = 2
  BrokerSwitches = 1
  BrokerFaults = 1
  ScanSymbols = {AAA}
  ScanRunners = {job, request}
  ScanBars = 2
  ScanDays = 3
  ScanRuns = 3
  ScanPositions = 1
  GateSignals = {AAA}
  GateHasKey = TRUE
  GateCacheSteps = 2
  GateTime = 2
  GateAsked = 3
  Urls = {"u", "v"}
  Grades = {20, 30, 90}
  LowGrade = 30
  Expressions = {"e", "import"}
  Legal = {"e"}
  KnownLimit = 2
  ShortLimit = 1
  ItemsARun = 2
  KnowledgeRows = 3
  ResearchRuns = 3
  Surprises <- SomeSurprises
  QuarterGap = 20
  ShownQuarters = 2
  CalendarDays = 10
  DriftDays = 30
  MinSurprise = 20
  QuartersAsked = 2
  EarningsDays = 45
  Listed <- TwoPages
  Seeds = {"a"}
  Batches <- TwoBatches
  Volume <- TwoVolumes
  Return <- Momentum
  UnivSize = 1
  CacheDays = 1
  RecentDays = 1
  UniverseDays = 2
  UniverseFaults = 1
  Visitors = {"v", "w"}
  Admins = {"a", "b"}
  Names = {"n"}
  Emails = {"e"}
  Pages = {"p"}
  NewRoles = {"guest"}
  MaxUsers = 3
  MaxActs = 3
  ExitChecks = {check1, check2}
  AccountValues = {0, 3000, 5000, 20000, 40000}
  OpenExposures = {0, 2000, 18000, 36000}
  Entries <- SomeEntries
  SeenPrices = {840, 1020, 1250}
  SwingConfig <- Config
  PriceMoves = 1
  HoldDays = 1
  ChecksRun = 2
  Portfolio = 100000
  RegimeProbs <- TwoMixes
  MarketVols = {8, 40}
  QuotedPrices = {170}
  QuotedAtrs = {0, 9, 80}
  GivenStrengths <- SomeStrengths
  SpreadZs <- TwoZs
  NewsScores <- TwoScores
  WinPercents = {0, 45}
  ExposureLimits = {0, 40, 100}
  MacroMarkets <- CalmAndAfraid
  MacroLevels <- FigureLevels
  MissingTickers <- NoneOrTwo
  ScoreProfiles <- SomeProfiles
  ScoreRanks <- SomeRanks
  ScoredSignals <- SomeSignals
  ReportedCompanies <- ThreeCompanies
  ReportLevels <- FigureEdges
  ModelReplies <- TwoReplies
  ReportLife = 2
  ReportDays = 4
  ReportFilings = 2
  FigureSteps = 3
  ScoreLife = 2
  MacroTime = 4
  MacroRuns = 1
  FactorEtfs = {"M", "Q", "V"}
  SeedHoldings <- ThreeSeeds
  PublishedLists <- ThreeLists
  BookSymbols = {"a", "b"}
  RankedFactors <- TwoFactors
  ClosedTrades <- FourTrades
  ContextDays = 1
  ContextEnd = 1
  TradesClosed = 3
  SaidStreams <- ThreeStreams
  SaidBoards <- TwoBoards
  ModelVerdicts <- EvenVerdict
  SourceSteps = 2
  SocialTime = 3
  SocialRows = 1
  TunedRegimes = {"TRENDING", "HIGH_VOL"}
  PriorWeights <- TwoTables
  Lowest <- LowBounds
  Highest <- HighBounds
  IcRows <- SomeIcRows
  MeasuredFactors = {"technical", "momentum", "quality"}
  IcDates = 20
  WeeklyStep = 500
  Tunings = 2
  DayBars <- ThreeRanges
  PaidPrice = 100
  EntryAtr = 4
  HardStopMult = 2
  TrailingMult = 2
  ArmedAtR = 1
  TimeStopAfter = 2
  ProfitAt = 110
  DaysBeyond = 1
  Backfillers = {"one", "two"}
  ReplayDays = 3
  ReplayFills = 2
  F1 = F1
  F2 = F2
  F3 = F3
  N1 = N1
  P1 = P1
  FeedItems = {F1, F2, F3, N1, P1}
  FeedSources = {"efts", "atom", "news", "price"}
  FeedDates <- FiveDates
  FeedLookback <- FourWindows
  FeedKeys <- FourKeys
  FeedTitles <- FourTitles
  FeedDedup = 2
  FeedDays = 4
  FeedFaults = 1
  AskedSignals = {1, 2}
  SignalFlags <- EveryFlag
  ModelScores <- NoneOrFourteen
  ScoreBatches = {"pipeline", "api"}
  SingleAnalyses = {"one"}
  ListedSignals = 1
  SinglesAsked = 1
  LoggedSymbols = {"a", "b"}
  LogRuns = {"one", "two"}
  StrongDays = {1}
  LogDays = 2
  AnalysesBegun = 2
  LogFaults = 1
  TickerSymbols = {"a", "b"}
  TickerQuotes <- TwoQuotes
  TickerRoles <- TwoRoles
  AlertsNamed = 2
  CacheLife = 1
  GapLimit = 1
  GapSilence = 2
  DayTicks = 2
  LastTick = 8
SYMMETRY CheckSymmetry
INVARIANTS CashTracks SnapshotOff RebalancesBounded SimulationsBalance SizesBounded ScoresFollow
  RealByConsent EntriesBounded CollectedAndTold CachesSound HindsightIsBest
PROPERTIES StopObeyed HeldShares ApprovalGrounded RepeatedOnlyBeyondList KnownKept
CHECK_DEADLOCK FALSE
