# Verification of quant-v31

TLA+ models of the swing-trading engine in `engine_v4/`, their TLC runs and their
TLAPS proofs. The models follow the code as it is, also where it departs from what
its comments say; those departures are runs of their own that end in a counterexample.

## 1. The system

One process (`systemd/quant-engine-v4.service`, uvicorn with one worker,
`Restart=always`) holds everything that acts:

* the **FastAPI event loop** (`engine_v4/api/main.py`). Handlers are `async` but make
  blocking database and broker calls, so two handlers interleave only at an `await`;
  the approving endpoint's first `await` comes after its last change.
* the **scheduler** (`engine_v4/scheduler/jobs.py`), an APScheduler
  `BackgroundScheduler` whose jobs run in a thread pool. Each job id runs at most once
  at a time, but several ids share one function: four start the exit check, three the
  auto-approval. FastAPI `BackgroundTasks` start the same code from the API.
* **PostgreSQL**, the only shared state. Each `PostgresStore` method opens a connection
  and commits one READ COMMITTED transaction. Only `split_close_position` locks a row.
* the **Blazor dashboard** (`dashboard/`), which mostly calls the API but writes
  `swing_signals` itself when the user presses *Revert*.
* the **broker** (KIS) over HTTP: an order may fail, and nothing is undone when it does.

### Components

| component | state | operations | what makes it correct | where |
|---|---|---|---|---|
| Entry of a position | `swing_signals.status`, `position_id`; `swing_positions`; BUY rows of `swing_trades` | approve endpoint, `run_auto_approve`, `validate_entry`, `execute_entry`, reject, expire, revert | limits (count, daily, symbol, sector, exposure) hold or are overdrawn by a known amount; executed means row and trade exist; approved passes | `EntryFlow`, `EntryBook` |
| Exit of a position | `swing_positions.status`, `qty`, `partial_exited`, `realized_pnl`; SELL rows; EXIT signals | `_job_exit_check` (full, partial, legacy), `_auto_execute_exit`, `execute_exit` | no share leaves the books unlogged; how often a row can be sold; condemned rows close | `ExitFlow` |
| Snapshot and cash ledger | `swing_snapshots`, closed and open rows, capital events | `generate_snapshot`, `_generate_snapshot`, `_compute_cash_usd`, `split_close_position` | cash is what was paid in and out; what a snapshot is off by | `Ledger` |
| Index core | `side=CORE` rows, `core_last_rebalance` | `_job_core_allocate`, `_plan_core` | one rebalance a year | `Ledger` |
| Harness | `swing_strategy_variants`, `swing_config`, `swing_harness_log` | generate, claim, backtest, verdict, deploy, rollback, regime switch, recovery of stuck rows | one backtest, one deployed variant, rollback restores, no row stays testing | `VariantHarness` |
| Weight tuning, self-check | `swing_factor_weights`; snapshots, inputs | `tune`, `_job_self_check` | sums and bounds kept; an outage is told | `WeightTuner`, `SelfCheck` |
| Entry scan, hedge | indicator rows, ENTRY signals, `side=HEDGE` row | `_job_daily_pipeline`, `scan_entries`, `scan_hedge` | a bar signals a symbol once per overlapping run at most, one hedge | `EntryScan`; hedge in `EntryFlow` |
| Exit layers, sizing | `qty`, `stop_loss`, `high_water_mark`, `trailing_stop_active` | `calculate_position_size`, `check_exits` | within the caps; a stop that was reached is obeyed | `ExitLayers` |
| LLM gate | cache of an hour | `evaluate_signals_parallel` | an approval was given for this symbol, regime and number of rows | `LlmGate` |
| Broker client | connections, settings | orders, `/config/trading-mode` | real orders by consent only | `Broker` |
| Scheduler | jobs in memory | cron triggers, start, stop | what the timetable is in New York time | `Schedule` |
| Events feed | sets of what was seen, `swing_events` | scans of four sources | alerted once | `EventFeed` |
| Bot, alerts | `swing_analysis_queue`, update offset | polling task; pre-market, after-hours, price gaps | a message is handled; each row watched | `TelegramBot`, `ExtendedHours` |
| AI scoring | caches of an hour to a week, score columns | composite score, macro overlay, drift after earnings, fundamentals, crowding, social, sentiment | monotone in its inputs; caches of the age they claim; a score is written once per batch | `MultiFactor`, `MacroOverlay`, `Fundamental`, `FactorContext`, `Social`, `Sentiment` |
| Market data | universe, bars, indicator rows | refresh, collect, compute | universe kept, rank within what was computed | `MarketData` |
| Analysis | post-mortem rows | `mfe_mae`, `counterfactual` | no replay beats hindsight | `PostMortem` |
| Backtests | simulated account | runner, watchlist backtest, replay of the log, bar score | books balance | `Backtest`, `WatchlistBacktest`, `ReplayBacktest` |
| Watchlist | scores, alerts, signal log | five-layer analysis, `_analyze_watchlist` | overrides hold; log agrees with what was analysed | `Watchlist`, `WatchlistLog` |
| Research | knowledge base, formulas | weekly run, extraction, validation | an article is read again only when it fell out of the list | `Research` |
| Dashboard | users, roles, pages; revert of a signal | `AuthService`, `Settings.razor` | the administrator and the pages of others survive | `Accounts`, `EntryFlow` |
| `engine/` (v3.1) | kill switch, account | `execute_daily`, allocation, sizing | level follows the drawdown; an emergency empties the account | `DailyPipeline`, `Allocation` |

### How the parts meet

Scan, exit check and user insert rows into `swing_signals`; endpoint and sweep turn
ENTRY rows into `swing_positions`; the exit check and approved EXIT rows close them;
hedge and core jobs open rows of the same table under other sides, without asking the
limits. All of them communicate through the tables only, and what one of them has read
may be old when it is used. That is where the hard behaviour is:

* limits are *checked* in up to four transactions and *used* in a fifth;
* the sweep works for minutes on rows read as pending at its start, and neither it nor the
  endpoint looks at whether `approve_signal` changed anything;
* `close_position` answers whether it closed the row, and no caller asks;
* row, trade and signal are written by three transactions between which the service may
  be restarted;
* `close_position` and `partial_close_position` are a SELECT and an UPDATE without a lock;
* a backtest holds its slot by a time stamp that can expire before the backtest ends;
* a deployment is a look, a snapshot, a change of the configuration and a mark, each a
  transaction of its own, and the regime switcher writes some of the same keys;
* cash is derived from five queries between which rows change; the date of a rebalance
  is written after its last order;
* caches, sets of what was seen and the offset of the bot live in memory and go with a
  restart, while what they guard is in the database.

`PROJECT.json` lists each hazard at its line with the properties that would show it.

## 2. The modules

### EntryFlow

One *worker* is a thread that can be inside the entry path; `Loop` is the event loop, the
only one that can be in the endpoint. `pc[w]` names the next database call of `w`.

| variables | code |
|---|---|
| `status`, `today`, `link` | `swing_signals.status`, whether `time::date = CURRENT_DATE`, `position_id` |
| `state`, `sigOf`, `size` | `swing_positions`: free (no row yet), open, closed; `signal_id`; entry price times quantity |
| `bought`, `ordered`, `hedged` | rows with a BUY in `swing_trades`; with an accepted order; an open HEDGE row |
| `todo`, `cands`, `auto` | PASS 1 and PASS 3 of `run_auto_approve` |
| `call`, `cur`, `pid`, `qty` | which of the two `validate_entry` calls, the signal, the new row, its size |
| `cutOff` | no code: a history of the entries (signal, row) that an exception or a restart cut off |

| actions | code |
|---|---|
| `CheckMax`, `CheckDaily`, `CheckDup`, `CheckSector`, `RefuseOther` | `can_open_position`, `validate_entry`, query by query |
| `ApproveRequest`, `Approve` | the endpoint: status test, validation, `approve_signal` |
| `AutoStart`, `Pass1`, `AutoApprove`, `AutoDrop`, `AutoEnd` | `run_auto_approve`; the language model's verdict is a choice |
| `Size`, `OpenPosition`, `InsertTrade`, `MarkExecuted`, `PlaceOrder`, `UndoApproval` | `execute_entry` and its callers' last part |
| `InsertSignal`, `ExpireSignals`, `RejectRequest`, `RevertToPending` | the other writers of `swing_signals` |
| `ClosePosition`, `ToggleHedge`, `NextDay` | exits and hedge, seen from here; midnight |
| `Fault`, `Restart` | a call raises; the process dies |

A signal may be taken up by two workers, may change status while they work, and is
entered even if its approval changed nothing: that is the code.

The newest-first order of `get_signals` is kept (`Newest`). Notional is counted in units
where `Base` is one entry after the risk and notional caps; the exposure cap then cuts it
(`Capped`). An ENTRY row is `free` until its INSERT and ids are given in order (`NextRow`).

### EntryBook

The abstract specification: entering is *one* step, allowed only below every limit, with
`Slack` for how far a limit may be overdrawn. `EntryFlow!BookSpec` instantiates it with
`Slack <- Cardinality(Workers) - 1`. For one worker the limits are exact.

### ExitFlow

One thread per job that may run the exit check, and the event loop for approvals.

| variables | code |
|---|---|
| `state`, `qty`, `halved`, `realized` | `status`, `qty`, `partial_exited`; the shares whose gain is in `realized_pnl` |
| `sold`, `exits`, `sent` | shares in SELL trades, number of whole-row SELL trades, shares in orders |
| `autoSell`, `status`, `sigPos` | `auto_sell_enabled`; EXIT signals and their `position_id` |
| `seen`, `rows`, `fresh`, `auto` | what a check has read at its start |
| `plan`, `parts`, `late` | what it still has to sell, to halve; is it in the legacy scan's part |
| `tgt`, `amount`, `read`, `cur` | the sale in hand |

| actions | code |
|---|---|
| `StartCheck`, `NextExit`, `NextSignal` | first part of `_job_exit_check`, with `auto_sell` on or off |
| `StartParts`, `NextPart` | `check_partial_exits` and the loop over its actions |
| `StartScan`, `ScanSignal`, `EndScan`, `FinishCheck` | `scan_exits`, what is sold of it, the end |
| `CloseSelect`, `CloseUpdate`, `SellTrade`, `SellOrder` | `close_position` in its two statements, trade, order |
| `PartSelect`, `PartUpdate`, `PartTrade` | `partial_close_position`, trade |
| `ApproveRequest`, `Approve`, `FindPosition`, `MarkExecuted` | approval of an EXIT signal, `execute_exit` |
| `SettleSignal`, `SwitchAutoSell`, `Fault`, `Restart` | users, expiry, exceptions, systemd |

`QtyOrOne`, `Rounded` and `Part` are the arithmetic of `float(qty or 1)` and of
`max(1, round(qty * pct))` capped by the quantity, for whole shares (Python rounds half
to even). Fractional shares are not modelled.

### VariantHarness

*Validators* are the threads that backtest: background tasks and the monthly job of the
service, and the process of `scripts/validate_pending_variants.py` (`Scripts`). `Loop` runs
the deploying and rolling-back endpoints, `RollbackJob` and `SwitchJob` are the hourly jobs.

| variables | code |
|---|---|
| `status`, `stale` | `swing_strategy_variants.status`; testing rows whose `testing_started_at` has expired |
| `since`, `rolled` | `deployed_at` as a count of deployments (0 is NULL); rows with a `rollback_at` |
| `saved` | the latest `auto_deploy_baseline` snapshot of a variant in `swing_harness_log` |
| `config`, `regime` | the keys of `swing_config` that variants and presets write; `current_regime` |
| `tgt`, `todo`, `shot`, `want` | the variant at hand, the rest of a batch, the snapshot at hand, the new regime |
| `torn` | no code: a history of the variants whose deployment was cut off after the configuration had changed and before the row was marked |

| actions | code |
|---|---|
| `Generate` | `generate_variants`, one committed INSERT |
| `BatchStart`, `List`, `BacktestRequest` | `validate_all_pending`, the script, the single backtest |
| `ClaimRecover`, `ClaimLook`, `Claim` | `_claim_slot`: recover, SELECT, UPDATE |
| `TimedOut`, `Verdict`, `Expire` | the ends of `validate_variant`; time |
| `DeployBest`, `DeployRequest`, `Pick`, `Snapshot`, `ApplyVariant`, `MarkDeployed` | `deploy_validated_variant`, transaction by transaction (the snapshot key by key) |
| `RollbackRequest`, `CheckConditions`, `RollbackLook`, `Recall`, `Restore`, `MarkRolledBack` | `rollback_variant` and `check_rollback_conditions` |
| `RecoverStuck` | second half of `_job_rollback_check` |
| `SwitchLook`, `Switch` | `check_and_switch` |
| `Fault`, `Stop` | an exception; the service or the script stops |

`ClaimLook` leaves its own row out and `Claim` asks nothing of the row's status; a verdict
is written whatever the status has become: that is the code. Choices are left open for
what numbers decide: the verdict, the best candidate, the rollback conditions, the new
regime. `harness_auto_deploy_enabled` is on and the mode is paper, since the harness
does nothing otherwise; every key of a diff has a row in `swing_config`, diffs are not
empty, and nobody else edits these keys.

### Ledger

A row is `free`, `open` or `closed` with side, symbol, quantity, entry price and gain; cash is
never stored. `ReadOpen`, `ReadClosed`, `Download` and `InsertSnapshot` are the queries of a
snapshot: the scheduler's (`Guarded`) reads the closed rows at once and leaves out what it
meets twice, the API's (`Plain`) downloads prices in between and leaves nothing out. The core
job reads its cash the same way. `Buy`, `Sell`, `SellPart`, `CapitalEvent` change the tables
meanwhile. `CoreStart`, `Plan`, `TakeSell`, `SellLot`, `SellTrade`, `SellDone`, `BuyLot`,
`BuyTrade`, `Stamp` are `_job_core_allocate` order by order and lot by lot; `Fault` and
the restart (`Stop`) cut it anywhere. `CashTracks` compares the derived cash with what was
really paid; `SnapshotOff` says exactly which closes a snapshot is off by.

### The other parts

Each is one module: its state, the operations of the code as actions, reference
definitions beside the functions. They share no state with each other while they run,
so `MCParts` checks them side by side: it instantiates every module over the same variables
`x1 ..`, with the constants of `parts.cfg`, and the first state chooses which part a
behaviour is of.

| module | models | left open | main property |
|---|---|---|---|
| `ExitLayers` | `calculate_position_size` under all caps; `check_exits` with ATR stop, trailing, breakeven, targets and time, each write a commit of its own, with any number of checks at once | prices, regimes | `SizedWithinCaps`, `StopObeyed` |
| `EntryScan` | the scheduled pipeline and a requested one, overlapping, over bars that may be of one day; restarts | which rows pass the entry conditions | `EntriesBounded` |
| `LlmGate` | parallel evaluations, cache, Claude, Ollama, fallback | verdicts, failures | `ApprovalGrounded` |
| `Broker` | connection, failed connection, job clients, change of mode in two steps, keys that are missing, the example's (`your_kis_app_key`) or the user's | what the account answers | `RealByConsent` |
| `WeightTuner` | `tune` for any measured coefficient, with and without `require_ci`, step, bounds, normalisation | coefficients | `HeldShares` |
| `MultiFactor` | eight factors, profiles, momentum tilt, the weighted sum | data in bands | `HigherRankNoWorse` |
| `Watchlist` | regime, ranking, timing, quality, overrides, direction | data in bands | `OverridesHold` |
| `Backtest` | sell, buy, mark, day by day; every layer; fees; volatility targets | bars | `BooksBalance` |
| `WatchlistBacktest` | the simulation, and the score of a bar: eleven oscillators, twelve averages, trend weights, volume damping | closes, readings | `CashAddsUp`, `LikedNoWorse` |
| `ReplayBacktest` | the replay of the log, allocations too small to enter among them | the log | `ReplayAddsUp` |
| `PostMortem` | excursions, replayed layers, upserts, beside sales and arriving bars | bars | `HindsightIsBest` |
| `MacroOverlay` | two caches, score, snapshot for the kill switch | markets, lost tickers | `RiskierNeverBetter`, `FiguresRecent` |
| `MarketData` | universe, bars, rank, failing batches | volumes, outages | `UniverseKept` |
| `Fundamental` | filings, figures, model or bands, cache of a week | figures, answers | `AnswerSound` |
| `FactorContext` | crowding from ETFs, ranking from closed trades; accumulation of surprises, drift | published holdings, what the feed shows | `ContextSound`, `KnownStaysKnown` |
| `Social` | two sources, caches of an hour, combination, daily rows | posts, verdicts | `AnswersHeard` |
| `Sentiment` | batches, single analyses, shared progress entry | scores, failures | `AnalysedOncePerBatch` |
| `SelfCheck` | collectors with outages, weekly check | outages | `OutagesTold` |
| `WatchlistLog` | analyses, alerts, log, past midnight and side by side | directions, failures | `LogSound` |
| `ExtendedHours` | reports before and after hours, price gaps, dedup | quotes | `WatchedOutside` |
| `EventFeed` | four sources, seen sets, recent rows, alerts, restarts | items | `AlertedOnce` |
| `Research` | weekly run, extraction, validation | grades, formulas | `RepeatedOnlyBeyondList` |
| `Schedule` | the week of triggers in slots of five minutes, both seasons, lost triggers | length of jobs | `TimetableSound` |
| `Accounts` | users, roles, pages from stale lists, two-statement transactions | whether a password fits | `AccountsKept` |
| `Allocation` | regime weights, pair strength, volatility scale, size of an order | probabilities, prices | `AllocationWhole` |

### DailyPipeline, TelegramBot

`DailyPipeline` is the kill switch with the run that asks it: a scheduled and a manual run are coroutines that yield
at Telegram messages and between slices; `Begin`, `Switch`, `Decide`, `NextOrder`, `Slice`,
`Record` and `Finish` are the steps between two awaits. `TelegramBot` is one polling task;
`GetUpdates` confirms what came before `offset`, which a crash loses. `MCServices` checks the two side by side, a behaviour being of one of them.

`MCEntryFlow`, `MCExitFlow`, `MCVariantHarness`, `MCParts` and `MCServices` hold the instances;
the modules that end in `Proofs` the theorems: `EntryFlowProofs`, `ExitFlowProofs` and
`VariantHarnessProofs` of the flows, `TradingProofs` (ledger, exit layers, tuner),
`StudyProofs` (broker, simulations, scores, collectors) and `PartsProofs` (the other parts) of
`PartsSpec`, `ServicesProofs` of `ServicesSpec`. `Sums` defines the sum of integers over a
finite set as the size of a pile (`Pile`, `Sum`, `Tally`), so that modules that sum can be
reasoned about without recursion; `Piles` holds the lemmas about such sums that the proofs
share.

## 3. The runs

Every bound is a CONSTANT in the cfg or in the MC module. `EntryFlow` cannot stop, since
midnight always comes, nor can `VariantHarness`, whose hourly jobs come round. The `exit_*`
runs set CHECK_DEADLOCK FALSE: with every row closed and every signal settled there is
nothing left to sell. So do `parts` and `services`: a part stops when its calendar ends.

| run | instance | shows |
|---|---|---|
| `entry_race` | two workers, two signals of two symbols, three rows, limit 1; expiry, reject, exits, midnight | count overdrawn by at most one; the flow implements `EntryBook` |
| `entry_faults` | two workers, one signal, three rows, limit 2, exceptions, restarts, reverts | a symbol is held at most twice; nothing ordered without row and trade; a signal left approved, a row left without its BUY is one whose entry a fault cut off |
| `entry_sequential` | one worker (requests and sweeps on the loop), three signals, one symbol without a sector, hedge, fairness | the daily limit and the exposure cap are exact, a signal gives one position, approved passes, every request and sweep ends |
| `exit_race` | two checks with the legacy scan, and approvals, one row of four shares, partial exits of 50 percent | the log never misses a share |
| `exit_scheduled` | one check at a time, two rows, fairness | rows and log agree exactly; condemned rows close; checks end |
| `exit_faults` | two checks with the legacy scan, partial exits of 50 or 70 percent, exceptions, restarts | a row is sold out at most once per thread all the same; orders stay behind the log |
| `exit_phantom_share` | one row of one share | **violation**: more is sold than was bought |
| `harness_race` | two threads of the service (interchangeable: SYMMETRY), three variants of two keys, batches of one row and single requests, one deployment, forced or not, one fault | never more rows testing than threads that validate; what is deployed, by force too, is restorable |
| `harness_deploy` | the script alone, two variants of three keys, one of which both change and one the presets write too, two deployments, one fault, fairness | one deployed; the baseline back after a rollback, but for the keys of a deployment that was cut off; testing passes |
| `harness_late_verdict` | a thread and the script | **violation**: a second verdict takes the row out of 'deployed', the configuration stays changed |
| `parts` | twenty-seven parts, the ledger among them, one per behaviour; about 2.8 million states | sixteen properties, each the conjunction of what the parts promise of one kind |
| `services` | two runs of the pipeline, three values, two slices; three updates, two faults, two stops; fairness | the level follows the drawdown, an emergency empties the account, every message is handled |

The properties of `parts`, by kind:

| property | conjuncts |
|---|---|
| `CashTracks`, `SnapshotOff`, `RebalancesBounded` | `Ledger` |
| `SimulationsBalance` | `BooksBalance`, `CashAddsUp`, `ReplayAddsUp` |
| `SizesBounded` | `SizedWithinCaps`, `AllocationWhole` |
| `ScoresFollow` | `HigherRankNoWorse`, `OverridesHold`, `RiskierNeverBetter`, `AnswerSound`, `LikedNoWorse` |
| `CollectedAndTold` | `AlertedOnce`, `AnalysedOncePerBatch`, `OutagesTold`, `WatchedOutside`, `LogSound`, `TimetableSound` |
| `CachesSound` | `FiguresRecent`, `ContextSound`, `AnswersHeard` |
| `KnownKept` | `KnownStaysKnown`, `UniverseKept`, `AccountsKept` |
| one part each | `RealByConsent`, `EntriesBounded`, `HindsightIsBest`, `StopObeyed`, `HeldShares`, `ApprovalGrounded`, `RepeatedOnlyBeyondList` |

Why the bounds are enough. Every hazard of the flows is between two threads, or between a
thread and one other writer, so two workers suffice to show it and the theorems extend the
bounds to any number. Limits of one or two with one row more than the limit make both the
last place and its overdraft occur; a third symbol is needed only to fill a sector past its
limit. Four shares let a row be halved twice with rounding (70 percent of 4 is 2.8, half of
1 rounds to 0 and is lifted to 1); one share is the boundary. Three variants are one more
than the validators, so the slot could overflow if it were not bounded; two deployments let
the second start from a configuration the first has left and been rolled back from.
`BaselineRestored` and `OneDeployed` are checked with one validator, where a verdict is never
late: with two `BaselineRestored` fails (`harness_late_verdict`), while `OneDeployed` is
proved for any number. `DailyCountBounded` is run with one worker and proved for any
number; the hazards of exceptions and restarts are met by runs with faults, where two
histories (`cutOff`, `torn`) let a property say what a fault may leave behind instead of
excluding faults: without the history each of these properties fails.

The ledger has two symbols, a price that is high or low, two years, one fault and seven rows:
enough for a lot of each kind, a split of one and a rebalance cut in the middle and repeated.
The scores and sizes get the values at the edges of the bands the code compares with, which
is where they can change; the simulations get two symbols, capital that runs short, and days enough
for an entry, a partial exit and an exit. The caches get a
lifetime of one to three steps and one step more than the lifetime; the collectors one or
two outages. `ExitLayers` has two checks that overlap, and a trail that is armed before breakeven
(0.5 against 1.0, as the harness may set it), where a stop can be lowered (section 5). `EntryScan`
has two runners, so that a bar is signalled twice and no third time.

Each property has a mutant in `PROJECT.json`: a small change of one action (a check left
out, an INSERT lost, an id not read back, an off-by-one) under which the run finds the
property violated. The mutated operators stand in the modules right before the
definition they replace, each marked `Mutant`. Where a property of `parts` is a
conjunction, one mutant is listed; the other conjuncts have theirs beside the
definitions too (`GapFromClose` in `ExtendedHours`, `OneAnyway` in
`ExitLayers`, `DebtInverted` in `Fundamental`, `DawnOfWeekdays` in `Schedule`, `UsersOnly`
in `Accounts` and so on), and were tried the same way.

### Fairness

`EntryFlow!FairSpec`: weak fairness of each worker's `Step`. A thread inside Python code
that is not blocked goes on; database and HTTP calls have timeouts and then answer or
raise. `ExitFlow!FairSpec`: the same for each check. `VariantHarness!FairSpec`: the same for
each validation (every period has a timeout, after which the run is given up) and each
rollback, and besides that time passes (`Expire`) and the hourly job comes round
(`RecoverStuck`, a cron trigger). `ServicesSpec`: weak fairness of the scheduled run of the
pipeline, its start included (a cron trigger), and of the bot's `Task` (systemd starts it
again, `Restart=always`). Nothing else is assumed of users, of the clock, of job
starts, of faults. The liveness runs of the two flows exclude faults: after an exception an
approved signal may stay approved for ever, and the code has nothing that would settle it.
`harness_deploy` includes one, since the recovery of stuck rows is what is asked of it;
`services` includes them, since a restart is what the bot and the pipeline must survive.

## 4. The proofs

All for every value of the constants (finite sets of rows and threads, limits in `Nat`).

**EntryFlowProofs.** The bounds are not inductive by themselves: a worker that is past
`CheckMax` holds a place that `Open` does not show yet. The invariant `Shape /\ AllSlots`
counts such reservations: a worker inside `execute_entry` past the check of a limit
*reserves* a place against it (`PastMax`, `PastDaily`, `PastDup`, `PastSector`), and

    |Open| + |reservations| <= limit + |Workers| - 1   whenever someone holds a reservation.

A check adds a reservation only below the limit, the insert turns one into a row, an exit
only lowers the left side. `Shape` carries types and what a worker in a step must hold.
From it: `PositionsStayBounded`, `SymbolStaysBounded`, `DailyCountStaysBounded`, and
`FlowImplementsBook`, since at `OpenPosition` the reservations are what the guard of
`EntryBook!Enter` asks for. The second invariant, `Backing`, says which rows exist for
the worker's `pid`, which have their trade, and that links point at such rows:
`ExecutedStaysBacked` and, with `RowsRecorded`, `EntriesStayLogged`. `Settled` names a worker that
will settle an approved signal (`ApprovedStaysOwned`). Both hold with faults: `cutOff`
only grows (`HistoryGrows`), and a fault or restart adds to it whatever a worker inside
`execute_entry` had under way (`FaultRemembered`), so what it leaves behind is in it. `Once` tells apart a
signal that is planned, known to the worker and taken, so that one worker without reverts
opens one row for it (`SingleWorkerEntersOnce`: `Workers = {Loop}`, `~Reverts`). `RoomKept`
states that the size in hand still fits under the cap; the sum of sizes is the size of a pile
of slabs, one per row (`Piles`), so that the step of one row is a matter of disjoint sets and
needs no induction over data (`SingleWorkerKeepsCap`: `Workers = {Loop}`, `~Faults`).

**ExitFlowProofs.** `TypeOK`, `Orderly` (a thread in a sale has a row at hand, on the loop
it is the signal's) and `ExitSlots`: `exits[p] + |Wanting(p)| <= |Threads|`, where
`Wanting(p)` are the threads that have planned to sell `p` and a plan is made only while
`p` is open. `OrdersBacked` says that an order in hand follows a trade already written
(`OrdersStayLogged`, with faults); `Backed` counts what has left the row against trades and
the amounts in hand, again a pile over the threads (`SalesStayCovered`, without faults).

**VariantHarnessProofs.** `Slot` is the set of rows testing together with the rows for which
some thread has found no other row testing but has not written yet; it, and not the set of
testing rows, is what every step keeps within the number of validators
(`SlotStaysBounded`). `Snapshots` follows the snapshot at hand until it has the keys
of the diff (`DeployedStaysRestorable`). `Alone` says, as long as nobody forces, that
the loop is past its look only while nothing is deployed and only with a row never
deployed before, so that no row with a `rollback_at`, which the look overlooks, is ever
deployed (`OneStaysDeployed`). `RollbackRestores` (`~Forced`, `~Single`, one validator; with faults) adds
`Queue` and `Pristine`: a row that waits has not been tried, so a verdict never meets a
deployed row, and every key that differs from the baseline is in the snapshot of what is
being deployed or rolled back and has the baseline's value there. `Loose` are the keys this
cannot be said of: those the presets write, and those of a deployment in `torn`, which no
rollback finds.

`SalesStayExact` (`Jobs = {j}`, `~Manual`, `~Faults`, `~LegacyExit`, a partial exit leaves a share of
every lot) is `OneCheck`: what the check read of a row is still true of it (`AsRead`), what it
has in hand is what the row gave up (`AtHand`), and rows nobody works on are settled. The
last hypothesis is the one that `exit_phantom_share` violates: `or 1` sells a share that is
not there once a partial exit has emptied a row.

**TradingProofs.** *Ledger.* `Stamping`: with `Band = 0`, the rebalances of a year are at most one
per fault and one more that is stamped or under way (`OneRebalanceAYear`). `BooksKept`: `Books` says
that what was paid is the capital, less commissions, plus the gains a partial sale left out,
plus the `Balance` of the table, a sum over its rows; each step puts a row in another's place
(`Swapped`), so the sum moves by the difference of two worths and nothing is said of
the order of the rows (`CashStaysTracked`). `Remembered` and `Counted` follow a generator: what it has
read as open is still so or has closed, unless a part of it was sold, and once the closed
rows are summed the figures differ from the books by the rows counted twice and by nothing
else (`SnapshotsOffByTheTwice`).
*Exit layers.* `LayersSound` follows each check's copy of the row beside the row. While nobody
has overtaken the check, the row has what the copy has, and its stop is the copy's or the
trail found from it (`Written`); once somebody has, what is left is that nothing sets the
ATR and the hard stop a second time, so that the hard stop a check goes by is the
row's (`Follows`). A check that is overtaken lowers the stop to no less than it read
(`StopsStayObeyed`). Any number of checks, any settings of trail and breakeven. Hypotheses,
`LayersSettings`: natural prices and multiples, and a hard stop above nothing, which
says of the data that an ATR times its multiple is less than the price.
*Tuner.* `WeightsSound`: the weights are natural numbers and every regime's add up to a whole, up to
the rounding of eight shares. `HeldStayShared` adds that a step keeps the proportions of
any two factors it has no measurement of up to half a unit each: `SumNear` bounds eight
roundings, `TotalTimes` takes the sum out of the products. `TunerSettings`: bounds not negative, the first
weights a whole, only factors measured.

**PartsProofs.** One invariant per part; `OnePart` says that a behaviour stays in its part.

| theorem | invariant and argument | hypotheses |
|---|---|---|
| `ApprovalsStayGrounded` | `Grounded`: what is cached was answered, for its context and at its time; a look-up or a call hands on nothing else | entries live at least a step |
| `EntriesStayBounded` | `ScanSound`: a run that will still signal a symbol for a bar found no signal of it, and has none in its list twice; signals and such runs together are at most the runs there are | finite sets |
| `ArticlesReadOnce` | `ReadingSound`: a run skips all it saw at its start, which is the whole base while that fits the list | none |
| `KnownStaysKept` | `TableSound` (a row holds of a quarter what was announced or nothing), `RefreshSound` (between the two updates of a refresh what it found is active), `WorkSound` (what a transaction's first statement saw are rows of its own role) | integers where figures are |
| `HindsightStaysBest` | `RecordSound`: every computed or stored post-mortem is within the extremes of the bars of its days, and they only grow | `Ranges`: a close lies in its day's range |
| `SizesStayBounded` | nothing moves here: for each input, the caps after rounding down (`Capped`), and for the previous engine that the blend is a whole (`Even`) and the order at most a tenth | `SizingSettings`: natural figures, probabilities that add up to one |
| `CachesStaySound` | `MacroSound` (the age of figures in the outer cache plus that in the inner), `ContextInv` (a list in use is not empty; sorting by insertion places a factor after as many as precede it), `SocialSound` (what is remembered was said within the life of the cache; a combination lies between its halves or is damped) | lives of at least a step; `ContextSettings`, `SocialSettings`: finite lists, natural counts |

**StudyProofs.** Again one invariant per part.

| theorem | invariant and argument | hypotheses |
|---|---|---|
| `RealStaysConsented` | `Consent`: with `KIS_IS_PAPER` set and nothing confirmed since the start, the flag says paper, no client and no connection under way is to the real account, the endpoint switches to paper at most | none |
| `SimulationsStayBalanced` | `StudyBooks`, `SimBooks`, `ReplayBooks`: cash plus what is held at cost is the capital plus profits less fees, and the cash never goes below nothing. Symbols come in any order; what changes at one of them leaves the sum over the others alone (`Tally` in `Piles`) | natural prices, fees and percentages, finite sets (`StudySettings`, `SimSettings`, `ReplaySettings`) |
| `ScoresStayInOrder` | the scores are functions, so most of it is about every input: `CompositeInOrder` for the weighted sum under any profile, the bands of `MacroOverlay`, `Fundamental` and the bar score taken one comparison at a time and put together by monotony; `SignalScored`, `OverridesHold`, `ReportInv` say that what the state holds is such a value | profiles are a whole, or eleven tenths of one for the fixed one; figures are integers (`ScoreSettings`, `MacroSettings`, `ReportSettings`, `BarSettings`) |
| `CollectedStaysTold` | *Events*, `FeedSound`: the rows of one title were made on days of their own, each the day of an item that was out by then, so no item is announced beyond its days. *Sentiment*, `AskCounted`: analyses done of a signal plus batches that still hold it are at most the batches there are, and an analysed row has a score. *Log*, `LogTyped`, `LogReady`, `LogHeld`: what a run is about to log has its alert, what it is about to announce its row. *Extended hours*, `GapKept` (the exit check ran at yesterday's close or later; a held symbol whose bars have stopped for too long had its event within the silence before that check), `TellsKept` (the last report names the alerts that can be had of what it was made of) | finite sets; no source looks back further than titles are remembered (`FeedSettings`); a batch is not a single analysis (`AskSettings`); at least a day (`LogSettings`); natural quotes, an event is silenced for a day at most (`TickerSettings`) |

The self-check and the timetable are left out of `CollectedStaysTold`: their instances have
fixed numbers for constants (windows of a few days and two faults; the week of triggers), so
a theorem about them would say no more than the run, which goes through all their states.

**ServicesProofs.** `PipelineSound`: the level is the one the drawdown gives, only a run that trades has an
order under way, at the level it was begun on, and only such an order has slices the log has
not yet. `BotSound`: the batch in hand is in order, from the offset on, none of it taken,
and what lies before it is taken or lost with a crash (`ServicesStaySafe`; values are
integers, the cooldown and the batch have a length).

The hypotheses are of two kinds. Those on data and settings (natural prices, finite sets, bounds
that are not negative) are what the code's defaults and the data of the tables are like, though
the code does not enforce all of them: nobody keeps a user from a negative setting. Those that leave
out part of the behaviour narrow the theorem, and stand in its statement or in
the property's: one worker (`SingleWorkerEntersOnce`, `SingleWorkerKeepsCap`), one check
without the legacy scan and without faults (`SalesStayExact`), one validator and no forced deployment
(`RollbackRestores`), no forced deployment (`OneStaysDeployed`), no band below which the core
is left alone (`OneRebalanceAYear`), no faults (`SalesStayCovered`,
`SingleWorkerKeepsCap`). Section 5 and the notes of the hazards tell what the code
does outside them. The cfg of the passing run that checks a theorem's property
satisfies its hypotheses.

What stays with TLC: the liveness properties (`ApprovedPasses`, `WorkersFinish`,
`CondemnedCloses`, `ChecksEnd`, `TestingPasses`, `Liquidated`, `MessagesHandled`), since
tlapm proves neither ENABLED nor fairness; and of `CollectedAndTold` the conjuncts `OutagesTold`
and `TimetableSound`, whose instances are of one size (above). Every other invariant or action property
of the passing runs is stated by a theorem.

## 5. Divergences found

With a run:

1. A row tested by two overlapping batches loses its deployment to the second verdict, and
   its configuration cannot be rolled back (`auto_backtest.py:263`, 450; script line 3).
2. `or 1` sells a share that does not exist (`exit_manager.py:191`, comment at `jobs.py:1039`).

Met while modelling, kept in the models as the code has them:

*Entry, scan and exit.* Two scans at once (job and endpoint) can signal one bar twice; three
scans a day may work on one bar. A signal that was refused or has expired between its validation and its
approval is entered (`auto_approve.py:257`, `main.py:572`, against `init_swing_db.sql:74`).
The daily limit goes by the day of creation (`storage.py:357`, docstring 351). "At most four
at once" (`position_manager.py:74`) holds for one worker only. Approving an EXIT signal whose
row is closed already answers 400 after the approval, and nothing settles it
(`main.py:637`); `execute_exit` returns no quantity, so its order is for 0 shares
(`main.py:643`); partial exits send no order (`jobs.py:697`). The risk cap sizes by the
signal's stop although the stop kept is the ATR's; two checks at once can lower a
stop, against "SL은 올리기만 (내리지 않음)" ("the stop is only raised", `exit_manager.py:289`). One check
alone can as well, when the trail is armed before breakeven (the harness may set
`atr_trailing_activation_r` to 0.5, `variant_generator.py:75`, while `breakeven_trigger_r` stays 1.0) and
it reads the row between the two transactions of an entry, `setup_position_atr` and
`update_position_stop_loss`: its trail is above the signal's stop it has read, and it writes it
over the higher hard stop that the entry has written meanwhile. The `parts` run has both: two checks
that overlap and an activation of 0.5. `StopObeyed` states what is left of the comment there: a
stop goes down only at a check that was overtaken since it read the row, and to no less
than that check had read; the trail is never disarmed; and a check that leaves a set-up position open
saw a price above its hard stop.

*Money.* The API's snapshot counts a row twice that closes while prices are downloaded
(`main.py:1579`). A partial sale's gain is missing from the cash until the row closes
(`storage.py:484`). A stop during the year's rebalance repeats it (`jobs.py:902`).

*Broker.* A failed connection marks the client as initialised, and live orders are simulated
in silence; a paper order can reach the real account after a change of mode
(`kis_client.py:3`, `project_status.md:1061`); the dashboard's configuration page changes the
row only. The rate limit is per client.

*Scheduler.* In winter the jobs of 05:30 and 05:35 KST ("16:30 ET") run before the close, the scan at
23:00 ("30 minutes after the open") before the open, the approval at 04:30 an hour and a half
before the close. The Monday pipeline rescans Friday's bars. A trigger that finds the service
down is lost. Comments give other times than the triggers (`jobs.py:185`, 275).

*Scores.* The kill switch of the scan halts on "RISK_OFF" and not on the worse "CRISIS"
(`swing.py:177`); a failed second download writes a NEUTRAL snapshot that lifts the halt.
The yield curve's thresholds assume ten times the quote. The momentum tilt gives the worst
factor of weight 0 a weight; the fixed weights sum to 1.10. `float(x or 50)` turns a score of 0
into 50. A margin of 0.0 counts as missing, negative debt scores 90, and a failed analysis is
cached for a week as 50. Damping makes a social score above 80 end below 79. The rule for the
top rank in the mock sentiment is never reached. Watchlist: RSI(2) above 95 and D/E above 2.5 are dead
branches, and the size is larger at VIX 26 in a BEARISH regime than at 20.

*Collectors.* A failed batch takes its symbols out of the universe; symbols collected later
are ranked among themselves. What was seen is marked before it is stored (`EventFeed`), and a
failed extraction counts as tried (`Research`). An extended-hours report may use the gap of the regular
session; the event is committed before Telegram answers. A run past midnight logs
yesterday's prices under today. Older pending signals beyond the newest twenty are not scored.

*Studies.* The log is cut at 50000 rows, newest days first to go; the watchlist job can take an
earlier run's "done" as its own (`jobs.py:1899`). The watchlist backtest never applies its
holding time (docstring :7). A post-mortem keeps the first quantity while R uses the new one,
and an older computation can overwrite a newer. The runner takes the entry's ATR from the last symbol it looked
at. The self-check's identity of snapshots cannot see a double count, since the total is
defined by its parts. Research reads an article again when it leaves the newest 500.

*Tuner.* Normalisation moves weights past the step and the bounds; a factor at its floor with
a negative coefficient can rise.

*Accounts.* Overlapping saves of a role leave the union of both or fail on the key; renaming a role
during a save strands its pages; renaming "admin" is not blocked (`Settings.razor:483`); an
e-mail is unique only by a look (`AuthService.cs:75`).

*v3.1.* A restart forgets the cooldown; a run under way keeps buying after an emergency; "one
way: worse only" (`kill_switch.py:117`) against the stepwise recovery; a failed run's log stays
'started'.

## 6. Not modelled

* The LSTM and the portfolio optimizer: training and floating-point optimisation without
  control state.
* Indicator formulas, performance ratios, `factor_ic` and the statistics of reports: numeric
  series; what reads them gets every value its comparisons tell apart.
* Daily and periodic reports, prompts, wording, parsing of feeds and of broker answers,
  quotes and balances: they read and print.
* Endpoints that only read, the fan-out of server-sent events, view-only pages, password
  hashing and cookies.
* v3.1's signals, its backtests and its regime model: statistics; its pipeline takes
  their outcome as a choice.
* The parser of the signal language: legal expressions are a set.
* Other writers of `swing_config` than the harness and the switch of modes.

## 7. What is left

1. `EntryScan` feeding `EntryFlow`, so that a bar scanned twice meets the limits; today the
   flow takes any insert at any time, which includes it.
2. Fractional shares in `ExitFlow`.

## 8. Running

    tlc -workers 2 -config entry_race.cfg MCEntryFlow
    tlc -workers 2 -config parts.cfg MCParts
    tlapm EntryFlowProofs.tla

The cfg's prefix tells its module: `entry_` `MCEntryFlow`, `exit_` `MCExitFlow`, `harness_`
`MCVariantHarness`, `parts` `MCParts`, `services` `MCServices`. `parts` takes two to three
minutes, the others less than two.
