------------------------------- MODULE MCParts -------------------------------
(***************************************************************************)
(* The parts of the engine that share no state while they run: the ledger, *)
(* what decides (scores, layers, gate, tuner, allocation), what simulates, *)
(* what collects and what studies.  They are checked side by side: a       *)
(* behaviour is one of one part, chosen at the start.  The ledger has its  *)
(* own variables; another part uses as many of the fields x1 .. x14 as it  *)
(* has variables, and the rest of them stay 0.                             *)
(***************************************************************************)
EXTENDS Ledger, TLC

VARIABLES part, x1, x2, x3, x4, x5, x6, x7, x8, x9, x10, x11, x12, x13, x14

fields == <<part, x1, x2, x3, x4, x5, x6, x7, x8, x9, x10, x11, x12, x13, x14>>

Rest(first) ==
  /\ first <= 1 => x1 = 0
  /\ first <= 2 => x2 = 0
  /\ first <= 3 => x3 = 0
  /\ first <= 4 => x4 = 0
  /\ first <= 5 => x5 = 0
  /\ first <= 6 => x6 = 0
  /\ first <= 7 => x7 = 0
  /\ first <= 8 => x8 = 0
  /\ first <= 9 => x9 = 0
  /\ first <= 10 => x10 = 0
  /\ first <= 11 => x11 = 0
  /\ first <= 12 => x12 = 0 /\ x13 = 0
  /\ first <= 14 => x14 = 0
RestStays(first) ==
  /\ first <= 2  => UNCHANGED x2
  /\ first <= 3  => UNCHANGED x3
  /\ first <= 4  => UNCHANGED x4
  /\ first <= 5  => UNCHANGED x5
  /\ first <= 6  => UNCHANGED x6
  /\ first <= 7  => UNCHANGED x7
  /\ first <= 8  => UNCHANGED x8
  /\ first <= 9  => UNCHANGED x9
  /\ first <= 10 => UNCHANGED x10
  /\ first <= 11 => UNCHANGED x11
  /\ first <= 12 => UNCHANGED <<x12, x13>>
  /\ first <= 14 => UNCHANGED x14

all == <<vars, fields>>

\* The ledger's instance.
SevenRows  == 1 .. 7
OneRow     == {1}
BothSyms   == {1, 2}
LowHigh    == {2, 3}
HighLow    == <<3, 2>>
Halves     == [s \in BothSyms |-> 50]
OneJob     == {"job"}
OneLoop    == {"loop"}
OneDeposit == {9}

(***************************************************************************)
(* The backtest runner: three tables of rules, six kinds of bars.          *)
(***************************************************************************)
Bar(c, a, h, t, r, x) == [close |-> c, atr |-> a, hot |-> h, trend |-> t, ready |-> r, ret |-> x]
SomeBars ==
  {Bar(20000, 1000, FALSE, TRUE, TRUE, 1), Bar(20000, 0, FALSE, TRUE, TRUE, 2),
   Bar(22000, 2000, FALSE, TRUE, TRUE, 3), Bar(18000, 1000, FALSE, TRUE, FALSE, 0),
   Bar(24000, 1000, TRUE, FALSE, FALSE, 3)}
SimpleRules ==
  [use_hard_stop |-> FALSE, atr_hard_stop_mult |-> 15, use_rsi2_exit |-> FALSE, rsi2_exit_min_r |-> 20,
   rsi2_exit_min_hold_days |-> 0, use_time_stop |-> FALSE, time_stop_days |-> 3, stop_loss_pct |-> 5,
   take_profit_pct |-> 10, use_atr_trailing |-> FALSE, partial_exit_r |-> 0, partial_exit_pct |-> 50,
   atr_activation_r |-> 10, atr_trailing_mult |-> 25, use_breakeven |-> FALSE, breakeven_trigger_r |-> 10,
   breakeven_buffer |-> 2, use_market_filter |-> FALSE, return_rank_min |-> 60, max_positions |-> 2,
   max_daily_entries |-> 1, position_pct |-> 60, use_vol_targeting |-> FALSE, target_atr_pct |-> 3,
   vol_mult_min |-> 50, vol_mult_max |-> 125]
AllLayers ==
  [SimpleRules EXCEPT !.use_hard_stop = TRUE, !.use_rsi2_exit = TRUE, !.use_time_stop = TRUE,
                      !.use_atr_trailing = TRUE, !.partial_exit_r = 10, !.use_breakeven = TRUE]
VolTargeted ==
  [AllLayers EXCEPT !.use_vol_targeting = TRUE, !.use_market_filter = TRUE, !.return_rank_min = 0,
                    !.max_daily_entries = 2, !.position_pct = 100]

ThreeRules == {SimpleRules, AllLayers, VolTargeted}

CONSTANTS StudySyms, StudySpy, StudyBars, StudyCash, StudyFeeDen, StudyRules, StudyDays
B == INSTANCE Backtest WITH
       Syms <- StudySyms, Spy <- StudySpy, Bars <- StudyBars, Initial <- StudyCash,
       FeeDen <- StudyFeeDen, Params <- StudyRules, MaxDay <- StudyDays,
       params <- x1, day <- x2, phase <- x3, bar <- x4, queue <- x5, today <- x6, cash <- x7,
       held <- x8, log <- x9, value <- x10, close <- x11

(***************************************************************************)
(* The watchlist backtest; readings on both sides of every edge.           *)
(***************************************************************************)
Reads(adx, side, averages, trend, r, volume) ==
  [adx |-> adx, above |-> side, averages |-> averages, middle |-> side, rsi |-> r[1], roc |-> side,
   ultimate |-> r[1], power |-> trend, macd |-> trend, stoch |-> r[2], stochRsi |-> r[2],
   range |-> r[3], cci |-> r[4], volume |-> volume]
SomeReadings ==
  {Reads(a, s, av, t, r, v) :
     a \in {19, 20, 25, 26}, s \in {-1, 0, 1}, av \in {0, 7, 12}, t \in {-1, 0, 1},
     r \in {<<29, 19, -81, -101>>, <<50, 50, -50, 0>>, <<71, 81, -19, 101>>},
     v \in {99, 100, 150, 200}}
SomeLevels ==
  [above |-> {-1, 1}, averages |-> {5, 12}, middle |-> {-1, 1}, rsi |-> {29, 30, 70},
   roc |-> {-1, 1}, ultimate |-> {29, 71}, power |-> {0, 1}, macd |-> {-1, 1},
   stoch |-> {19, 80}, stochRsi |-> {20, 81}, range |-> {-81, -20}, cci |-> {-101, 100}]
CONSTANTS SimSymbols, SimCloses, SimScores, SimCash, SimPositionPct, SimPositions, SimBuyAt,
          SimSellAt, SimTrailPct, SimHold, SimSlip, SimDays, SimReadings, SimLevels
ThreeScores == {-20, 0, 20}
SellScore   == -12
W == INSTANCE WatchlistBacktest WITH
       Symbols <- SimSymbols, Closes <- SimCloses, Scores <- SimScores, Initial <- SimCash,
       PositionPct <- SimPositionPct, MaxPositions <- SimPositions, BuyAt <- SimBuyAt,
       SellAt <- SimSellAt, TrailPct <- SimTrailPct, MaxHold <- SimHold, Slip <- SimSlip,
       Days <- SimDays, Readings <- SimReadings, Levels <- SimLevels,
       day <- x1, step <- x2, bars <- x3, cash <- x4, positions <- x5, queue <- x6, pnls <- x7,
       equity <- x8

(***************************************************************************)
(* Exit layers: entries without an ATR, without a stop, with fractional    *)
(* shares, and one whose hard stop is above the signal's.                  *)
(***************************************************************************)
Wanting(p, s, atr, f) == [price |-> p, stop |-> s, atr |-> atr, fractional |-> f]
Config ==
  [position_pct |-> 5, min_one |-> TRUE, min_notional |-> 500, max_risk |-> 15, max_position |-> 20,
   max_exposure |-> 90, hard_mult |-> 15, trail_mult |-> 25, low_vol |-> 20, high_vol |-> 30,
   rsi2_min_r |-> 20, rsi2_min_gain |-> 3, rsi2_min_hold_days |-> 0, time_stop_days |-> 1,
   activation |-> 5, breakeven |-> TRUE, be_trigger |-> 10, be_buffer |-> 2, stop_loss |-> 5,
   take_profit |-> 30]
CONSTANTS ExitChecks, AccountValues, OpenExposures, Entries, SeenPrices, SwingConfig,
          PriceMoves, HoldDays, ChecksRun
SomeEntries ==
  {Wanting(1000, 950, 20, FALSE), Wanting(1000, 950, 0, FALSE), Wanting(1000, 0, 40, TRUE)}
\* The two checks of the run do the same.
CheckSymmetry == Permutations(ExitChecks)
X == INSTANCE ExitLayers WITH
       Checks <- ExitChecks, Accounts <- AccountValues, Exposures <- OpenExposures,
       Signals <- Entries, Prices <- SeenPrices, Cfg <- SwingConfig, MaxMoves <- PriceMoves,
       MaxDay <- HoldDays, MaxChecks <- ChecksRun,
       row <- x1, entering <- x2, price <- x3, regime <- x4, hot <- x5, day <- x6, pc <- x7,
       seen <- x8, cp <- x9, moves <- x10, begun <- x11

(***************************************************************************)
(* The watchlist analysis.                                                 *)
(***************************************************************************)
Company(roe, margin, debt, operating) ==
  [roe |-> roe, margin |-> margin, debt |-> debt, operating |-> operating]
A == INSTANCE Watchlist WITH
       VixLevels <- {20, 27}, Growth <- {-60}, Surprises <- {-40},
       Fundamentals <- {Company(30, 50, 5, 20), Company(-5, 10, 20, -5)},
       Rsi2s <- {3, 97}, Adxs <- {28}, Volumes <- {80}, Flows <- {0}, Strengths <- {600},
       step <- x1, regime <- x2, rank <- x3, timing <- x4, quality <- x5, scores <- x6,
       direction <- x7, confidence <- x8

(***************************************************************************)
(* Weights and sizes of the previous engine.                               *)
(***************************************************************************)
Mix(bull, sideways, bear) == [bull |-> bull, sideways |-> sideways, bear |-> bear]
CONSTANTS Portfolio, RegimeProbs, MarketVols, QuotedPrices, QuotedAtrs, GivenStrengths, SpreadZs,
          NewsScores, WinPercents, ExposureLimits
TwoMixes      == {Mix(5, 3, 2), Mix(4, 1, 5)}
SomeStrengths == {-1000, 40, 1000}
TwoZs         == {-300, 180}
TwoScores     == {-1000, 1000}
O == INSTANCE Allocation WITH
       PV <- Portfolio, Probs <- RegimeProbs, Vols <- MarketVols, Prices <- QuotedPrices,
       Atrs <- QuotedAtrs, Strengths <- GivenStrengths, Zs <- SpreadZs, Sentiments <- NewsScores,
       WinRates <- WinPercents, Exposures <- ExposureLimits,
       input <- x1

(***************************************************************************)
(* The weight tuner: the table of swing_factor_weights the repository      *)
(* starts from, three factors measured.                                    *)
(***************************************************************************)
Table(technical, momentum, quality, macro, sentiment, pead) ==
  [technical |-> technical, momentum |-> momentum, quality |-> quality, macro |-> macro,
   sentiment |-> sentiment, pead |-> pead, flow |-> 0, value |-> 0]
Row(method, dates, ic, lo, hi, xsec) ==
  [method |-> method, dates |-> dates, ic |-> ic, lo |-> lo, hi |-> hi, xsec |-> xsec]
CONSTANTS TunedRegimes, PriorWeights, Lowest, Highest, IcRows, MeasuredFactors, IcDates, WeeklyStep,
          Tunings
TwoTables == [TRENDING |-> Table(3000, 1200, 2000, 1800, 1000, 1000),
              HIGH_VOL |-> Table(1800, 1000, 2500, 2700, 1000, 1000)]
LowBounds  == Table(2000, 0, 500, 500, 0, 0)
HighBounds == [Table(5000, 2500, 3000, 3000, 2000, 2000) EXCEPT !.flow = 1500, !.value = 1500]
SomeIcRows ==
  {Row("pooled_raw", 40, 14, 5, 20, "none"), Row("xsec_excess", 19, 14, 5, 20, "none"),
   Row("xsec_excess", 20, 30, -2, 40, "up"), Row("xsec_excess", 20, 30, 10, 40, "up"),
   Row("xsec_excess", 20, 10, 2, 20, "none"), Row("xsec_excess", 20, -25, -40, -5, "down"),
   Row("xsec_excess", 20, 10, 2, 20, "down")}
T == INSTANCE WeightTuner WITH
       Regimes <- TunedRegimes, Prior <- PriorWeights, Low <- Lowest, High <- Highest,
       Measurements <- IcRows, Measured <- MeasuredFactors, MinDates <- IcDates,
       MaxStep <- WeeklyStep, MaxWeeks <- Tunings,
       weights <- x1, weeks <- x2, read <- x3

(***************************************************************************)
(* The score of a signal: the repository's profiles, and inputs at the     *)
(* edges of the bands.                                                     *)
(***************************************************************************)
Profile(technical, momentum, quality, macro) ==
  [technical |-> technical, momentum |-> momentum, sentiment |-> 1000, flow |-> 0,
   quality |-> quality, value |-> 0, macro |-> macro, pead |-> 1000]
Figures(known, roe, margin, debt, eps3, eps5, pe, pb, fcf, ev) ==
  [known |-> known, roe |-> roe, margin |-> margin, debt |-> debt, eps3 |-> eps3, eps5 |-> eps5,
   pe |-> pe, pb |-> pb, fcf |-> fcf, ev |-> ev]
NoFigure == -1000
SomeFigures ==
  {Figures(TRUE, 20, 50, 29, 12, 12, 9, 9, 8, 7), Figures(TRUE, -1, 14, 150, -1, -1, 0, 50, 0, 18),
   Figures(TRUE, NoFigure, 30, NoFigure, 5, NoFigure, 15, 0, 3, NoFigure),
   Figures(FALSE, 0, 0, 0, 0, 0, 0, 0, 0, 0)}
Headlines(key, count, model, answer, company, named, mode, relevance, word) ==
  [key |-> key, asked |-> TRUE, count |-> count, model |-> model, answer |-> answer,
   company |-> company, named |-> named, mode |-> mode, relevance |-> relevance, word |-> word,
   confidence |-> 40]
SomeFeeds ==
  {Headlines(TRUE, 3, "claude", 1300, TRUE, TRUE, "rule", "", "SUPPORT"),
   Headlines(TRUE, 12, "ollama", NoFigure, TRUE, FALSE, "both", "YES", "CONTRADICT"),
   Headlines(TRUE, 3, "claude", NoFigure, FALSE, TRUE, "rule", "YES", "CONTRADICT"),
   Headlines(TRUE, 9, "ollama", -200, FALSE, TRUE, "rule", "", "MIXED"),
   Headlines(TRUE, 1, "none", NoFigure, TRUE, TRUE, "llm", "YES", "SUPPORT"),
   Headlines(TRUE, 0, "claude", 0, TRUE, FALSE, "rule", "", ""),
   Headlines(FALSE, 5, "claude", 0, TRUE, TRUE, "rule", "NO", "SUPPORT")}
Words(sb, b, h, s, ss) == [strongBuy |-> sb, buy |-> b, hold |-> h, sell |-> s, strongSell |-> ss]
SomeSignals ==
  {[flags |-> f, lstm |-> l, feed |-> n[1], social |-> n[2], active |-> n[3],
    net |-> g[1], recs |-> g[2], days |-> g[3], falling |-> g[4], crowd |-> g[5],
    fin |-> c[1], macro |-> c[2], pead |-> c[3], vix |-> v[1], adx |-> v[2], adaptive |-> v[3],
    ranked |-> k] :
     f \in {{}, {"trend", "breakout", "volume"}},
     l \in {[available |-> FALSE, edge |-> NoFigure, up |-> 0],
            [available |-> TRUE, edge |-> 20, up |-> 1000]},
     n \in (SomeFeeds \X {1100} \X {TRUE})
            \cup ({feed \in SomeFeeds : feed.company /\ feed.mode = "rule"} \X {NoFigure} \X {FALSE}),
     g \in {<<600, Words(4, 0, 0, 0, 0), 5, TRUE, 0>>, <<-600, Words(0, 1, 1, 1, 1), 11, FALSE, 3>>,
            <<0, Words(0, 0, 0, 0, 0), NoFigure, FALSE, NoFigure>>},
     c \in (SomeFigures \X {0} \X {1000}) \cup (SomeFigures \X {NoFigure} \X {500}),
     v \in {<<26, 30, TRUE>>, <<20, 30, TRUE>>, <<20, 19, TRUE>>, <<20, 22, FALSE>>},
     k \in {<<>>, <<"technical", "quality", "value", "flow", "sentiment">>,
            <<"value", "flow", "quality", "sentiment", "technical">>}}
SomeProfiles ==
  [TRENDING |-> Profile(3000, 1200, 2000, 1800), SIDEWAYS |-> Profile(2200, 1000, 2500, 2300),
   HIGH_VOL |-> Profile(1800, 1000, 2500, 2700), MIXED |-> Profile(2800, 1000, 2200, 2000),
   FIXED |-> [technical |-> 2500, sentiment |-> 1800, flow |-> 1000, quality |-> 1900,
              value |-> 1800, macro |-> 1000, pead |-> 1000]]
SomeRanks == {NoFigure, 0, 800, 850, 1000}
CONSTANTS ScoreProfiles, ScoreRanks, ScoredSignals
F == INSTANCE MultiFactor WITH
       Profiles <- ScoreProfiles, Ranks <- ScoreRanks, Inputs <- ScoredSignals,
       inputs <- x1, rank <- x2, composite <- x3

(***************************************************************************)
(* The broker client, the entry scan, the gate.                            *)
(***************************************************************************)
CONSTANTS EventLoop, BackgroundThreads, SweepThreads, SaleThreads,
          BrokerOrders, BrokerSwitches, BrokerFaults
K == INSTANCE Broker WITH
       Loop <- EventLoop, Background <- BackgroundThreads, Sweeps <- SweepThreads,
       Sales <- SaleThreads,
       MaxOrders <- BrokerOrders, MaxSwitches <- BrokerSwitches, MaxFaults <- BrokerFaults,
       keys <- x1, env <- x2, mode <- x3, paper <- x4, client <- x5, pc <- x6, what <- x7,
       choice <- x8, order <- x9, confirmed <- x10, orders <- x11, switches <- x12,
       faults <- x13

CONSTANTS ScanSymbols, ScanRunners, ScanBars, ScanDays, ScanRuns, ScanPositions
S == INSTANCE EntryScan WITH
       Symbols <- ScanSymbols, Runners <- ScanRunners, MaxBars <- ScanBars,
       MaxDays <- ScanDays, MaxRuns <- ScanRuns, MaxPositions <- ScanPositions,
       day <- x1, market <- x2, rows <- x3, signals <- x4, held <- x5, pc <- x6, todo <- x7,
       bar <- x8, fresh <- x9, runs <- x10, opened <- x11

CONSTANTS GateSignals, GateHasKey, GateCacheSteps, GateTime, GateAsked
G == INSTANCE LlmGate WITH
       Signals <- GateSignals, HasKey <- GateHasKey, CacheSteps <- GateCacheSteps,
       MaxTime <- GateTime, MaxAsked <- GateAsked,
       now <- x1, regime <- x2, open <- x3, cache <- x4, pc <- x5, ctx <- x6, result <- x7,
       asked <- x8, answers <- x9

(***************************************************************************)
(* The feed of events and the research arm.  F1 and F2 are filings of one  *)
(* day and one form, and the JSON interface shows no more than that and    *)
(* the company's file number; the Atom feed tells them apart, but titles   *)
(* F1 like F3, which is filed a day later.                                 *)
(***************************************************************************)
CONSTANTS F1, F2, F3, N1, P1,
          FeedItems, FeedSources, FeedDates, FeedLookback, FeedKeys, FeedTitles, FeedDedup,
          FeedDays, FeedFaults
FiveDates   == [i \in FeedItems |-> IF i = F3 THEN 2 ELSE 1]
FourWindows == [efts |-> 1, atom |-> 2, news |-> 1, price |-> 0]
FourKeys    == [efts |-> F1 :> "n1" @@ F2 :> "n1" @@ F3 :> "n3", atom |-> [i \in {F1, F3} |-> i],
                news |-> N1 :> "news", price |-> P1 :> P1]
FourTitles  == [efts |-> F1 :> "early" @@ F2 :> "early" @@ F3 :> "late",
                atom |-> [i \in {F1, F3} |-> "filing"], news |-> N1 :> "news", price |-> P1 :> "drop"]
E == INSTANCE EventFeed WITH
       Items <- FeedItems, Sources <- FeedSources, DateOf <- FeedDates, Lookback <- FeedLookback,
       KeyOf <- FeedKeys, TitleOf <- FeedTitles, DedupDays <- FeedDedup, MaxDay <- FeedDays,
       MaxFaults <- FeedFaults,
       day <- x1, out <- x2, seen <- x3, rows <- x4, last <- x5, sending <- x6, alerts <- x7,
       faults <- x8

CONSTANTS Urls, Grades, LowGrade, Expressions, Legal, KnownLimit, ShortLimit, ItemsARun,
          KnowledgeRows, ResearchRuns
D == INSTANCE Research WITH
       Limit <- KnownLimit, ShortList <- ShortLimit, MaxItems <- ItemsARun,
       MaxRows <- KnowledgeRows, MaxRuns <- ResearchRuns,
       base <- x1, pc <- x2, queue <- x3, known <- x4, size <- x5, runs <- x6, tried <- x7,
       formulas <- x8

(***************************************************************************)
(* The macro overlay: a calm market, one afraid and one with rates on the  *)
(* edge; a download may lack the tickers two ratios and the fear need.     *)
(***************************************************************************)
Market(vix, sma, gs, hy, tnx, move, cuau, cumove, dxy, btc) ==
  [vix |-> vix, sma |-> sma, gs |-> gs, hy |-> hy, tnx |-> tnx, tnxMove |-> move, cuau |-> cuau,
   cuauMove |-> cumove, dxy |-> dxy, btc |-> btc]
CONSTANTS MacroMarkets, MacroLevels, MissingTickers, FigureSteps, ScoreLife, MacroTime, MacroRuns
CalmAndAfraid ==
  {Market(14, 15, -31, 134, 30, 0, 15, 20, 3, 31),
   Market(35, 24, 31, 151, 51, 51, 10, -31, 31, -201)}
FigureLevels ==
  [vix |-> {15, 22, 27, 36}, gs |-> {-30, 0, 30}, hy |-> {135, 140, 150},
   cuau |-> {9, 12, 17}, dxy |-> {-31, 5, 30}, btc |-> {-200, 30, 201}]
NoneOrTwo == {{}, {"vix", "gold"}}
M == INSTANCE MacroOverlay WITH
       Markets <- MacroMarkets, Levels <- MacroLevels, Outages <- MissingTickers,
       DataSteps <- FigureSteps, ScoreSteps <- ScoreLife, MaxTime <- MacroTime, MaxCollects <- MacroRuns,
       now <- x1, market <- x2, data <- x3, score <- x4, snapshot <- x5, pc <- x6, raw <- x7,
       scored <- x8, age <- x9, collects <- x10

(***************************************************************************)
(* The universe: a symbol in each index, room for one.                     *)
(***************************************************************************)
CONSTANTS Listed, Seeds, Batches, Volume, Return(_, _), UnivSize, CacheDays, RecentDays,
          UniverseDays, UniverseFaults
TwoPages       == [sp |-> {"a"}, ndx |-> {"b"}]
TwoBatches     == {{"a"}, {"b"}}
TwoVolumes     == [a |-> 3, b |-> 2]
Momentum(s, d) == (TwoVolumes[s] * d) % 5
U == INSTANCE MarketData WITH
       MaxDay <- UniverseDays, MaxFaults <- UniverseFaults,
       day <- x1, universe <- x2, cached <- x3, bars <- x4, rows <- x5, pc <- x6, top <- x7,
       faults <- x8

(***************************************************************************)
(* Post-mortems: a quiet bar, a rise and a fall.                           *)
(***************************************************************************)
CONSTANTS DayBars, PaidPrice, EntryAtr, HardStopMult, TrailingMult, ArmedAtR, TimeStopAfter,
          ProfitAt, DaysBeyond, Backfillers, ReplayDays, ReplayFills
Range3(l, h, c) == [low |-> l, high |-> h, close |-> c]
ThreeRanges == {Range3(95, 105, 100), Range3(104, 116, 114), Range3(80, 92, 85)}
H == INSTANCE PostMortem WITH
       Bars <- DayBars, Entry <- PaidPrice, Atr <- EntryAtr, Qty <- 2, HardMult <- HardStopMult,
       TrailMult <- TrailingMult, ActivationR <- ArmedAtR, TimeStopDays <- TimeStopAfter,
       TakeProfit <- ProfitAt, After <- DaysBeyond, Workers <- Backfillers, MaxDay <- ReplayDays,
       MaxFills <- ReplayFills,
       bars <- x1, known <- x2, row <- x3, post <- x4, pc <- x5, found <- x6, fills <- x7

(***************************************************************************)
(* The fundamental analysis: figures at the edges and some missing,        *)
(* answers of the model out of range and without a total.                  *)
(***************************************************************************)
Reported(r, e3, e5, o, g, n, d, c) ==
  [revenue |-> r, eps3 |-> e3, eps5 |-> e5, operating |-> o, gross |-> g, net |-> n, debt |-> d,
   current |-> c]
Replied(t, r, m, d, g) == [total |-> t, revenue |-> r, margin |-> m, debt |-> d, guidance |-> g]
ThreeCompanies ==
  {Reported(12, 6, -1, 14, 40, 5, 71, 120), Reported(-1000, 0, -1000, 0, 8, 3, -1000, 149),
   Reported(4, -1000, 5, -1000, -1000, -1000, 160, 99)}
FigureEdges ==
  [revenue |-> {0, 5, 20, 21}, eps3 |-> {1, 15}, eps5 |-> {3}, operating |-> {5, 25},
   gross |-> {60}, net |-> {30}, debt |-> {99, 31, 29}, current |-> {150, 200}]
TwoReplies == {Replied(130, 0, 0, 0, 0), Replied(-1000, -20, 101, 40, -1000)}
CONSTANTS ReportedCompanies, ReportLevels, ModelReplies, ReportLife, ReportDays, ReportFilings
Y == INSTANCE Fundamental WITH
       Companies <- ReportedCompanies, Levels <- ReportLevels, Answers <- ModelReplies,
       CacheDays <- ReportLife, MaxDay <- ReportDays, MaxFilings <- ReportFilings,
       day <- x1, company <- x2, claude <- x3, filings <- x4, seen <- x5, cache <- x6, pc <- x7,
       found <- x8, answer <- x9

(***************************************************************************)
(* Crowding and the ranking of factors; and earnings surprises, quarters   *)
(* closer than in a year.                                                  *)
(***************************************************************************)
Trade(p, a, b) == [pnl |-> p, score |-> [technical |-> a, quality |-> b]]
CONSTANTS FactorEtfs, SeedHoldings, PublishedLists, BookSymbols, RankedFactors, ClosedTrades,
          ContextDays, ContextEnd, TradesClosed,
          Surprises, QuarterGap, ShownQuarters, CalendarDays, DriftDays, MinSurprise,
          QuartersAsked, EarningsDays
ThreeSeeds == [M |-> {"a", "b"}, Q |-> {"b"}, V |-> {"b", "c"}]
ThreeLists == [M |-> {{"a"}}, Q |-> {{"c"}}, V |-> {{"a", "b"}}]
TwoFactors == <<"technical", "quality">>
SomeSurprises == {10, 250, -60}
FourTrades == {Trade(5, 70, 40), Trade(-3, 0, 60), Trade(2, -1, 80), Trade(1, 20, 90)}
C == INSTANCE FactorContext WITH
       Etfs <- FactorEtfs, SeedOf <- SeedHoldings, Published <- PublishedLists, Book <- BookSymbols,
       Factors <- RankedFactors, Trades <- ClosedTrades, CacheDays <- ContextDays,
       MaxDay <- ContextEnd, MaxTrades <- TradesClosed,
       Gap <- QuarterGap, MaxQuarters <- QuartersAsked, LastDay <- EarningsDays,
       day <- x1, holdings <- x2, todo <- x3, report <- x4, closed <- x5, ranking <- x6,
       announced <- x2, table <- x3

(***************************************************************************)
(* The replay of the signal log.                                           *)
(***************************************************************************)
Logged(d, p, s, st) == [direction |-> d, price |-> p, score |-> s, stop |-> st]
CONSTANTS ReplaySymbols, ReplaySignals, ReplayCash, ReplayPositionPct, ReplayPositions,
          ReplayTrailPct, ReplayHold, ReplayRisk, ReplayPosPct, ReplayTotalPct, ReplayMinOne,
          ReplayPeriod
FourSignals ==
  {Logged("BUY", 10000, 20, 0), Logged("STRONG_BUY", 10000, 40, 9000),
   Logged("SELL", 12000, -20, 0), Logged("BUY", 8000, 20, 9000)}
R == INSTANCE ReplayBacktest WITH
       Symbols <- ReplaySymbols, Signals <- ReplaySignals, Initial <- ReplayCash,
       PositionPct <- ReplayPositionPct, MaxPositions <- ReplayPositions,
       TrailPct <- ReplayTrailPct, MaxHold <- ReplayHold, RiskMille <- ReplayRisk,
       PosPct <- ReplayPosPct, TotalPct <- ReplayTotalPct, MinOne <- ReplayMinOne,
       Days <- ReplayPeriod,
       day <- x1, phase <- x2, today <- x3, cash <- x4, held <- x5, queue <- x6, equity <- x7,
       exposure <- x8, gains <- x9

(***************************************************************************)
(* The weekly self-check, at most one ENTRY signal a day.                  *)
(***************************************************************************)
J == INSTANCE SelfCheck WITH
       Period <- 2, MacroStale <- 1, SocialStale <- 1, PeadStale <- 2, BarStale <- 2,
       CoverDays <- 2, GraceDays <- 2, MinCover <- 90, MacroRows <- 1, SigWin <- 2,
       Lookback <- 4, MinMeasured <- 3, MaxDay <- 6, MaxFaults <- 2, MaxDaily <- 1,
       day <- x1, down <- x2, newest <- x3, macro <- x4, bars <- x5, added <- x6,
       signals <- x7, snaps <- x8, capital <- x9, weights <- x10, told <- x11, faults <- x12,
       pace <- x13

(***************************************************************************)
(* Social readings: few voices, many of one mind, none.                    *)
(***************************************************************************)
Voted(b, r, n) == [bulls |-> b, bears |-> r, neutral |-> n]
Post(l, n, f, m) == [leans |-> l, n |-> n, fresh |-> f, named |-> m]
CONSTANTS SaidStreams, SaidBoards, ModelVerdicts, SourceSteps, SocialTime, SocialRows
ThreeStreams == {Voted(0, 0, 0), Voted(1, 3, 2), Voted(40, 0, 0)}
TwoBoards ==
  {[wsb |-> {}, stocks |-> {Post("bull", 9, FALSE, TRUE)}],
   [wsb |-> {Post("bull", 3, TRUE, TRUE), Post("bear", 1, TRUE, TRUE),
             Post("bear", 7, TRUE, FALSE)}, stocks |-> {}]}
EvenVerdict == {Voted(1, 1, 0)}
Q == INSTANCE Social WITH
       Streams <- SaidStreams, Boards <- SaidBoards, Verdicts <- ModelVerdicts,
       CacheSteps <- SourceSteps, MaxTime <- SocialTime, MaxRows <- SocialRows,
       now <- x1, stream <- x2, board <- x3, client <- x4, said <- x5, cache <- x6, pc <- x7,
       found <- x8, rows <- x9, answer <- x10

(***************************************************************************)
(* The analysis of pending signals, one listed at a time.                  *)
(***************************************************************************)
CONSTANTS AskedSignals, SignalFlags, ModelScores, ScoreBatches, SingleAnalyses, ListedSignals, SinglesAsked
NoneOrFourteen == {-1, 14}
EveryFlag      == {{"trend", "breakout", "volume", "rank80", "rank90"}}
Z == INSTANCE Sentiment WITH
       Signals <- AskedSignals, Flags <- SignalFlags, Answers <- ModelScores,
       Batches <- ScoreBatches, Singles <- SingleAnalyses, Limit <- ListedSignals,
       MaxSingles <- SinglesAsked,
       rows <- x1, client <- x2, ollama <- x3, todo <- x4, read <- x5, status <- x6,
       analyses <- x7, singles <- x8

(***************************************************************************)
(* The watchlist's analyses, two at a time, over a midnight.               *)
(***************************************************************************)
CONSTANTS LoggedSymbols, LogRuns, StrongDays, LogDays, AnalysesBegun, LogFaults
L == INSTANCE WatchlistLog WITH
       Symbols <- LoggedSymbols, Runs <- LogRuns, StrongOn <- StrongDays, MaxDay <- LogDays,
       MaxRuns <- AnalysesBegun, MaxFaults <- LogFaults,
       day <- x1, listed <- x2, pc <- x3, todo <- x4, data <- x5, alerts <- x6, log <- x7,
       sent <- x8, cached <- x9, job <- x10, jobLog <- x11, begun <- x12, faults <- x13

(***************************************************************************)
(* Prices outside the session: gaps at the edges, a ticker that fails.     *)
(***************************************************************************)
Quoted(st, c, p, pre, post) ==
  [state |-> st, close |-> c, price |-> p, pre |-> pre, post |-> post]
CONSTANTS TickerSymbols, TickerQuotes, TickerRoles, AlertsNamed, CacheLife, GapLimit, GapSilence,
          DayTicks, LastTick
TwoQuotes == {[a |-> Quoted("PRE", 100, 100, 98, 0), b |-> Quoted("PRE", 100, 100, 102, 0)],
              [a |-> Quoted("POST", 108, 110, 0, 106), b |-> [state |-> "SILENT"]]}
TwoRoles  == {[a |-> {"held"}, b |-> {"pending", "watched"}],
              [a |-> {"held", "pending"}, b |-> {"held"}]}
V == INSTANCE ExtendedHours WITH
       Symbols <- TickerSymbols, Quotes <- TickerQuotes, Roles <- TickerRoles,
       MaxAlerts <- AlertsNamed, CacheTicks <- CacheLife, GapDays <- GapLimit,
       DedupTicks <- GapSilence, TicksADay <- DayTicks, MaxTick <- LastTick,
       tick <- x1, roles <- x2, quotes <- x3, message <- x4, cached <- x5, lastBar <- x6,
       stopped <- x7, events <- x8, checked <- x9

(***************************************************************************)
(* The timetable: most jobs may take a quarter of an hour, the long ones   *)
(* half an hour or an hour, and a check at the close less than the five    *)
(* minutes to the hedge.                                                   *)
(***************************************************************************)
JobNames ==
  {"daily_pipeline", "daily_pipeline_preopen", "daily_pipeline_midsession", "validation_recheck",
   "premarket_check", "exit_check_1", "hedge_check", "core_allocate", "exit_check_2",
   "exit_check_3", "exit_check_close", "refresh_universe", "afterhours_check", "expire_signals",
   "watchlist_analysis", "macro_collect", "social_collect", "lstm_retrain",
   "post_market_analysis", "auto_approve", "auto_approve_mid", "auto_approve_close",
   "formula_lab", "self_check", "factor_ic", "pead_collect", "weekly_research",
   "regime_switch_check", "monthly_variant_gen", "rollback_check", "events_scan_open",
   "events_scan_close", "edgar_scan"}
SlotsOf(j) ==
  CASE j = "exit_check_close" -> 0
    [] j = "social_collect" -> 1
    [] j = "macro_collect" -> 2
    [] j \in {"refresh_universe", "daily_pipeline_preopen", "core_allocate", "exit_check_2"} -> 5
    [] j \in {"weekly_research", "lstm_retrain", "post_market_analysis", "formula_lab"} -> 12
    [] OTHER -> 3
P == INSTANCE Schedule WITH
       Longest <- [j \in JobNames |-> SlotsOf(j)], Workers <- 10, MaxQuiet <- 30,
       season <- x1, now <- x2, up <- x3, running <- x4, quiet <- x5

(***************************************************************************)
(* The dashboard's accounts: two administrators, one role beside "user",   *)
(* two registrations of one name.                                          *)
(***************************************************************************)
CONSTANTS Visitors, Admins, Names, Emails, Pages, NewRoles, MaxUsers, MaxActs
Z2 == INSTANCE Accounts WITH
        users <- x1, ids <- x2, perms <- x3, work <- x4, page <- x5, acts <- x6

(***************************************************************************)
(* One part at a time.                                                     *)
(***************************************************************************)
Parts == {"ledger", "backtest", "watchlist backtest", "layers", "watchlist", "allocation", "tuner",
          "score", "broker", "scan", "gate", "events", "research", "macro", "earnings", "universe",
          "hindsight", "fundamental", "crowding", "replay", "self-check", "social", "sentiment",
          "watchlist log", "extended hours", "timetable",
          "accounts"}

PartsInit ==
  /\ part \in Parts /\ Init
  /\ CASE part = "ledger"     -> Rest(1)
       [] part = "allocation" -> O!Init /\ Rest(2)
       [] part = "tuner"      -> T!Init /\ Rest(4)
       [] part = "score"      -> F!Init /\ Rest(4)
       [] part = "watchlist"  -> A!Init /\ Rest(9)
       [] part = "watchlist backtest" -> W!Init /\ Rest(9)
       [] part = "events"     -> E!Init /\ Rest(9)
       [] part = "research"   -> D!Init /\ Rest(9)
       [] part = "gate"       -> G!Init /\ Rest(10)
       [] part = "backtest"   -> B!Init /\ Rest(12)
       [] part = "layers"     -> X!Init /\ Rest(12)
       [] part = "scan"       -> S!Init /\ Rest(12)
       [] part = "broker"     -> K!Init /\ Rest(14)
       [] part = "earnings"   -> C!DriftInit /\ Rest(4)
       [] part = "crowding"   -> C!Init /\ Rest(7)
       [] part = "hindsight"  -> H!Init /\ Rest(8)
       [] part = "universe"   -> U!Init /\ Rest(9)
       [] part = "fundamental" -> Y!Init /\ Rest(10)
       [] part = "replay"     -> R!Init /\ Rest(10)
       [] part = "macro"      -> M!Init /\ Rest(11)
       [] part = "sentiment"  -> Z!Init /\ Rest(9)
       [] part = "extended hours" -> V!Init /\ Rest(10)
       [] part = "timetable"  -> P!Init /\ Rest(6)
       [] part = "accounts"   -> Z2!Init /\ Rest(7)
       [] part = "social"     -> Q!Init /\ Rest(11)
       [] part = "self-check" -> J!Init /\ Rest(14)
       [] part = "watchlist log" -> L!Init /\ Rest(14)

Alone(name) == part = name /\ UNCHANGED <<part, vars>>
LedgerStep     == part = "ledger" /\ Next /\ UNCHANGED <<part, x1>> /\ RestStays(2)
AllocationStep == Alone("allocation") /\ O!Next /\ RestStays(2)
TunerStep      == Alone("tuner") /\ T!Next /\ RestStays(4)
ScoreStep      == Alone("score") /\ F!Next /\ RestStays(4)
WatchlistStep  == Alone("watchlist") /\ A!Next /\ RestStays(9)
SimulationStep == Alone("watchlist backtest") /\ W!Next /\ RestStays(9)
EventsStep     == Alone("events") /\ E!Next /\ RestStays(9)
ResearchStep   == Alone("research") /\ D!Next /\ RestStays(9)
GateStep       == Alone("gate") /\ G!Next /\ RestStays(10)
BacktestStep   == Alone("backtest") /\ B!Next /\ RestStays(12)
LayersStep     == Alone("layers") /\ X!Next /\ RestStays(12)
ScanStep       == Alone("scan") /\ S!Next /\ RestStays(12)
BrokerStep     == Alone("broker") /\ K!Next /\ RestStays(14)
EarningsStep   == Alone("earnings") /\ C!DriftNext /\ RestStays(4)
CrowdingStep   == Alone("crowding") /\ C!Next /\ RestStays(7)
HindsightStep  == Alone("hindsight") /\ H!Next /\ RestStays(8)
UniverseStep   == Alone("universe") /\ U!Next /\ RestStays(9)
FundamentalStep == Alone("fundamental") /\ Y!Next /\ RestStays(10)
ReplayStep     == Alone("replay") /\ R!Next /\ RestStays(10)
MacroStep      == Alone("macro") /\ M!Next /\ RestStays(11)
SentimentStep  == Alone("sentiment") /\ Z!Next /\ RestStays(9)
ExtendedHoursStep == Alone("extended hours") /\ V!Next /\ RestStays(10)
AccountsStep   == Alone("accounts") /\ Z2!Next /\ RestStays(7)
TimetableStep  == Alone("timetable") /\ P!Next /\ RestStays(6)
SocialStep     == Alone("social") /\ Q!Next /\ RestStays(11)
SelfCheckStep  == Alone("self-check") /\ J!Next /\ RestStays(14)
WatchlistLogStep == Alone("watchlist log") /\ L!Next /\ RestStays(14)

PartsNext ==
  \/ LedgerStep \/ AllocationStep \/ TunerStep \/ ScoreStep \/ WatchlistStep \/ SimulationStep
  \/ GateStep \/ BacktestStep \/ LayersStep \/ ScanStep \/ BrokerStep
  \/ EventsStep \/ ResearchStep \/ EarningsStep \/ CrowdingStep \/ HindsightStep \/ UniverseStep
  \/ FundamentalStep \/ ReplayStep \/ MacroStep \/ SentimentStep
  \/ ExtendedHoursStep \/ TimetableStep \/ AccountsStep \/ SocialStep \/ SelfCheckStep \/ WatchlistLogStep

PartsSpec == PartsInit /\ [][PartsNext]_all

(***************************************************************************)
(* The parts' properties; CashTracks, SnapshotOff and RebalancesBounded    *)
(* are the ledger's own.                                                   *)
(***************************************************************************)
\* The three simulations: profits, fees and what is held account for every unit of
\* value, and cash never runs out; the replay keeps to the live cap on exposure.
SimulationsBalance ==
  /\ part = "backtest" => B!BooksBalance
  /\ part = "watchlist backtest" => W!CashAddsUp
  /\ part = "replay" => R!ReplayAddsUp
\* ExitLayers: a check that keeps a position leaves no stop the price has reached.
StopObeyed == [][part = "layers" => X!StopObeyedStep]_all
\* ExitLayers: no cap is exceeded, not even by the one share that is always wanted;
\* Allocation: the weights stay whole and within the exposure limit.
SizesBounded ==
  /\ part = "layers" => X!SizedWithinCaps
  /\ part = "allocation" => O!AllocationWhole
\* Scores follow what they are made of: a higher rank, a better company and a
\* calmer market never score lower, what suppresses a buy is not undone by a later
\* override, and a model's answer out of range does not get through; a bar an
\* indicator likes better scores no lower.
ScoresFollow ==
  /\ part = "score" => F!HigherRankNoWorse
  /\ part = "watchlist" => A!OverridesHold
  /\ part = "macro" => M!RiskierNeverBetter
  /\ part = "fundamental" => Y!AnswerSound
  /\ part = "watchlist backtest" => W!LikedNoWorse
\* WeightTuner: factors without a measurement keep their relative shares.
HeldShares == [][part = "tuner" => T!HeldSharesStep]_all
\* Broker: no real order without consent while .env says paper.
RealByConsent == part = "broker" => K!RealByConsent
\* EntryScan: a bar gives a symbol one entry signal at most for each overlapping run.
EntriesBounded == part = "scan" => S!EntriesBounded
\* LlmGate: an approval was given by a model, or every model failed.
ApprovalGrounded == [][part = "gate" => G!ApprovalGroundedStep]_all
\* What the collectors bring is stored and told once, and none of it is lost on the
\* way.  EventFeed: a title is stored once and alerted at most once; Sentiment: a
\* signal is scored no more often than batches overlap; SelfCheck, ExtendedHours: an
\* outage, a move outside the session and a price that stopped are told in time;
\* WatchlistLog: what was announced is logged, and logged prices were known that day;
\* Schedule: in either season every session is watched, jobs that trade run apart, and
\* no job reads what another is still gathering.
CollectedAndTold ==
  /\ part = "events" => E!AlertedOnce
  /\ part = "sentiment" => Z!AnalysedOncePerBatch
  /\ part = "self-check" => J!OutagesTold
  /\ part = "extended hours" => V!WatchedOutside
  /\ part = "watchlist log" => L!LogSound
  /\ part = "timetable" => P!TimetableSound
\* Research: an article is read again only when the base has outgrown the list.
RepeatedOnlyBeyondList == [][part = "research" => D!RepeatedOnlyBeyondListStep]_all
\* MacroOverlay: two caches, one read through the other, answer no figures older
\* than both lifetimes; FactorContext: what a score reads is never empty, and a
\* ranking in use is that of the trades it was made of; Social: a failure is never
\* remembered, and an answer is made of what its sources said.
CachesSound ==
  /\ part = "macro" => M!FiguresRecent
  /\ part = "crowding" => C!ContextSound
  /\ part = "social" => Q!AnswersHeard
\* FactorContext and MarketData: what was known of a quarter or of a sector stays,
\* and a universe once filled is not emptied, whatever a later download lacks;
\* Accounts: no account, approval or page is lost but by the operation that takes it.
KnownKept ==
  [][/\ part = "earnings" => C!KnownStaysKnownStep
     /\ part = "universe" => U!UniverseKeptStep
     /\ part = "accounts" => Z2!AccountsKeptStep]_all
\* PostMortem: no exit and no replayed layer beats the best price that was seen.
HindsightIsBest == part = "hindsight" => H!HindsightIsBest
===============================================================================
