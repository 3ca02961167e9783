------------------------------ MODULE SelfCheck ------------------------------
(***************************************************************************)
(* The weekly self-check (engine_v4/harness/self_check.py,                 *)
(* Scheduler._job_self_check, POST /harness/self-check/run) beside the     *)
(* collectors whose inputs it watches: macro snapshots and their columns,  *)
(* bars of the universe, social and earnings rows, columns of the signals; *)
(* and the figures it checks: snapshots, weights, the backtest.            *)
(*                                                                         *)
(* A collector works or not; an outage is a choice, bounded by MaxFaults.  *)
(***************************************************************************)
EXTENDS Integers, Sequences, FiniteSets

CONSTANTS
  Period,                                  \* days between two scheduled checks
  MacroStale, SocialStale, PeadStale,      \* self_check_*_stale_days
  BarStale, CoverDays, GraceDays, MinCover, \* for prices; MinCover in percent
  MacroRows, SigWin, Lookback, MinMeasured, \* rows read by a check
  MaxDay, MaxFaults, MaxDaily    \* bounds

VARIABLES
  day,
  down,                \* inputs that stopped -> the day they did
  newest,              \* source -> day of its newest row
  macro,               \* swing_macro_snapshots: "dxy" is there
  bars, added,         \* symbol -> newest bar, day of swing_universe.added_at
  signals,             \* the last ENTRY rows of swing_signals a check reads: the column "score"
  snaps, capital,      \* swing_snapshots; days of capital events
  weights,             \* swing_factor_weights: "even", "off" or "empty"
  told,                \* check -> last day it did not PASS
  faults, pace         \* outages; ENTRY signals in a day
vars == <<day, down, newest, macro, bars, added, signals, snaps, capital, weights, told, faults, pace>>

Sources == {"macro", "social", "pead"}
Universe == DOMAIN added
Inputs == Sources \cup DOMAIN bars \cup {"dxy", "score"}
Works(i) == i \notin DOMAIN down
Without(i) == [j \in DOMAIN down \ {i} |-> down[j]]
None == -1
LastOf(s, n) == SubSeq(s, IF Len(s) > n THEN Len(s) - n + 1 ELSE 1, Len(s))

-----------------------------------------------------------------------------
(* The checks: does one pass?                                                *)

\* check_snapshot_identity: the last thirty rows; check_metric_range and
\* check_equity_continuity: all of them, days of deposits set apart.
Distance(a, b) == IF a > b THEN a - b ELSE b - a
SnapshotIdentity == \A s \in {snaps[i] : i \in DOMAIN snaps} : s.cash + s.invested = s.total
MetricRange == \A i \in DOMAIN snaps : snaps[i].drawdown \in -100 .. 0
EquityContinuity ==
  \A i \in 2 .. Len(snaps) :
    \/ snaps[i - 1].total <= 0
    \/ 2 * Distance(snaps[i].total, snaps[i - 1].total) <= snaps[i - 1].total
    \/ snaps[i].day \in capital
WeightConsistency == weights = "even"

\* check_factor_variance: a column of ten rows or more that never varies.
FactorVariance ==
  LET filled == SelectSeq(LastOf(signals, Lookback), LAMBDA v : v # None)
  IN Len(filled) < MinMeasured \/ Cardinality({filled[i] : i \in DOMAIN filled}) > 1

\* check_data_freshness, part by part.
StaleAfter == [macro |-> MacroStale, social |-> SocialStale, pead |-> PeadStale]
Stale == {s \in DOMAIN StaleAfter : newest[s] = None \/ day - newest[s] > StaleAfter[s]}
ColumnsGone == macro # <<>> /\ \A i \in DOMAIN LastOf(macro, MacroRows) : ~LastOf(macro, MacroRows)[i]

Covered(s) == bars[s] > day - CoverDays
\* Mutant: every symbol with bars, the benchmark among them.
CoverageOfAll ==
  LET due == {s \in Universe : added[s] <= day - GraceDays}
  IN due = {} \/ 100 * Cardinality({s \in DOMAIN bars : Covered(s)}) >= MinCover * Cardinality(due)
Coverage ==
  LET due == {s \in Universe : added[s] <= day - GraceDays}
  IN due = {} \/ 100 * Cardinality({s \in due : Covered(s)}) >= MinCover * Cardinality(due)
NewestBar == CHOOSE d \in {bars[s] : s \in DOMAIN bars} : \A s \in DOMAIN bars : bars[s] <= d
BarsFresh == NewestBar = None \/ day - NewestBar <= BarStale

\* A column filled in half of the rows before and in fewer of the recent ones.
Filled(rows) == Len(SelectSeq(rows, LAMBDA v : v # None))
Half(rows) == 2 * Filled(rows) >= Len(rows)
Recent == LastOf(signals, SigWin)
Previous == LastOf(SubSeq(signals, 1, Len(signals) - Len(Recent)), 2 * SigWin)
\* Mutant: as many rows before as recent ones.
LostOfEqual ==
  LET before == LastOf(SubSeq(signals, 1, Len(signals) - Len(Recent)), 1)
  IN Recent # <<>> /\ before # <<>> /\ Half(before) /\ ~Half(Recent)
Lost == Recent # <<>> /\ Previous # <<>> /\ Half(Previous) /\ ~Half(Recent)
DataFreshness == Stale = {} /\ ~ColumnsGone /\ Coverage /\ BarsFresh /\ ~Lost

Passes == [snapshot_identity |-> SnapshotIdentity, metric_range |-> MetricRange,
           equity_continuity |-> EquityContinuity, weight_consistency |-> WeightConsistency,
           factor_variance |-> FactorVariance, data_freshness |-> DataFreshness]

\* run_all: a check that raises is an ERROR, told like a FAIL; whether the
\* backtest adds up and which rows are recorded is not told apart.
RunAll(errors) == told' = [c \in DOMAIN told |-> IF ~Passes[c] \/ c \in errors THEN day ELSE told[c]]
InputsKept == UNCHANGED <<down, newest, macro, bars, added, signals, snaps, capital, weights, faults>>
OnDemand == RunAll({}) /\ InputsKept /\ UNCHANGED <<day, pace>>

-----------------------------------------------------------------------------
(* A day: the scheduled check, then what is collected.                       *)

Due == day % Period = 0
Collected ==
  /\ newest' = [s \in Sources |-> IF Works(s) THEN day + 1 ELSE newest[s]]
  /\ macro' = IF Works("macro") THEN LastOf(Append(macro, Works("dxy")), MacroRows) ELSE macro
  /\ bars' = [s \in DOMAIN bars |-> IF Works(s) THEN day + 1 ELSE bars[s]]
\* The day's ENTRY signals, their column missing when the input has stopped.
Signalled ==
  LET new == [i \in 1 .. pace |-> IF Works("score") THEN (signals[Len(signals)] + i) % 2 ELSE None]
  IN signals' = LastOf(signals \o new, 3 * SigWin)
NextDay ==
  /\ day < MaxDay /\ day' = day + 1
  /\ Collected /\ Signalled
  /\ IF Due THEN \E errors \in {{}, {"data_freshness"}} : RunAll(errors) ELSE UNCHANGED told
  /\ UNCHANGED <<down, added, snaps, capital, weights, faults, pace>>

Fault == faults < MaxFaults /\ faults' = faults + 1 /\ UNCHANGED <<day, signals, told, pace>>
Breaks(i) ==
  /\ Fault /\ Works(i)
  /\ i = "score" => signals[Len(signals)] # None
  /\ down' = [j \in DOMAIN down \cup {i} |-> IF j = i THEN day ELSE down[j]]
  /\ UNCHANGED <<newest, macro, bars, added, snaps, capital, weights>>
Mended(i) ==
  /\ ~Works(i) /\ day > down[i] /\ down' = Without(i)
  /\ UNCHANGED <<day, newest, macro, bars, added, signals, snaps, capital, weights, told, faults, pace>>
\* The universe gains a symbol, whose first bars come with the next collection.
Joins ==
  /\ Fault /\ "new" \notin Universe
  /\ added' = [s \in Universe \cup {"new"} |-> IF s = "new" THEN day ELSE added[s]]
  /\ bars' = [s \in DOMAIN bars \cup {"new"} |-> IF s = "new" THEN None ELSE bars[s]]
  /\ \E works \in BOOLEAN :
       down' = IF works THEN down ELSE [j \in DOMAIN down \cup {"new"} |-> IF j = "new" THEN day ELSE down[j]]
  /\ UNCHANGED <<newest, macro, snaps, capital, weights>>
\* A snapshot whose cash is wrong, one with a phantom loss, one after a deposit.
Snapped(t, c, i, d) == [day |-> day, total |-> t, cash |-> c, invested |-> i, drawdown |-> d]
Snapshots ==
  /\ Fault
  /\ \/ \E s \in {Snapped(10, 9, 6, 0), Snapped(4, 4, 0, -505)} : snaps' = Append(snaps, s) /\ UNCHANGED capital
     \/ snaps' = Append(snaps, Snapped(16, 10, 6, 0)) /\ capital' = capital \cup {day}
  /\ UNCHANGED <<down, newest, macro, bars, added, weights>>
Reweighted ==
  /\ Fault /\ \E w \in {"off", "empty"} : w # weights /\ weights' = w
  /\ UNCHANGED <<down, newest, macro, bars, added, snaps, capital>>

Init ==
  /\ day = 1 /\ down = [i \in {} |-> 0]
  /\ newest = [s \in Sources |-> 1] /\ macro = <<TRUE>>
  /\ added = [s \in {"old"} |-> -99] /\ bars = [s \in {"old", "benchmark"} |-> 1]
  /\ signals = [i \in 1 .. 2 * SigWin |-> i % 2]
  /\ snaps = <<[day |-> 0, total |-> 10, cash |-> 4, invested |-> 6, drawdown |-> 0]>> /\ capital = {}
  /\ weights = "even" /\ told = [c \in DOMAIN Passes |-> 0]
  /\ faults = 0 /\ pace \in 0 .. MaxDaily
Next ==
  \/ OnDemand \/ NextDay \/ Joins \/ Snapshots \/ Reweighted
  \/ \E i \in Inputs : Breaks(i) \/ Mended(i)
Spec == Init /\ [][Next]_vars

(***************************************************************************)
(* Properties.                                                             *)
(***************************************************************************)
\* What stopped and stays stopped is told within the check's tolerance and one period,
\* whatever broke beside it and in whichever order: a collector, a column of the macro
\* snapshots, the bars of one symbol of the universe (the new one after its grace), and
\* a column of the signals once more of them came without it than two windows, if no
\* more than a window and a half come between two checks.  A wrong snapshot is told too.
Tolerance ==
  [macro |-> MacroStale, social |-> SocialStale, pead |-> PeadStale, dxy |-> MacroRows + MacroStale + Period,
   old |-> CoverDays, new |-> GraceDays]
StoppedIsTold ==
  \A i \in DOMAIN down \cap DOMAIN Tolerance :
    day - down[i] > Tolerance[i] + Period => told["data_freshness"] >= down[i]
LossIsTold ==
  /\ 2 * Period * MaxDaily <= 3 * SigWin
  /\ ~Works("score") /\ Filled(LastOf(signals, 2 * SigWin + 1)) = 0
  => told["data_freshness"] >= down["score"]
WrongIsTold ==
  \A i \in DOMAIN snaps :
    snaps[i].cash + snaps[i].invested # snaps[i].total /\ day - snaps[i].day > Period
      => told["snapshot_identity"] >= snaps[i].day
OutagesTold == StoppedIsTold /\ LossIsTold /\ WrongIsTold
=============================================================================
