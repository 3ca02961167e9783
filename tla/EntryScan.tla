------------------------------ MODULE EntryScan ------------------------------
(* The daily pipeline of the swing engine: collect prices, compute the       *)
(* indicators of the newest bar, scan it for entries and score the new       *)
(* signals (scan_entries of engine_v4/strategy/swing.py, driven by           *)
(* _job_daily_pipeline of engine_v4/scheduler/jobs.py three times a day and  *)
(* by POST /pipeline/run of engine_v4/api/main.py).                          *)
(*                                                                           *)
(* The collector writes whatever bar the exchange shows, so runs of several  *)
(* calendar days may work on one bar.  The four conditions of an entry and   *)
(* its place in the dual sort are one verdict of the indicator row.          *)
EXTENDS Integers, Sequences, FiniteSets, Functions

CONSTANTS
  Symbols,        \* the universe
  Runners,        \* who may run the pipeline: the scheduler, a request
  MaxBars,        \* bound: trading days
  MaxDays,        \* bound: calendar days
  MaxRuns,        \* bound: pipeline runs
  MaxPositions    \* bound: positions opened

VARIABLES
  day,            \* the calendar date
  market,         \* the newest bar the exchange shows
  rows,           \* swing_indicators: of each bar, the verdict of its symbols
  signals,        \* swing_signals, ENTRY rows in the order of their ids
  held,           \* symbols with an open position
  pc, todo, bar, fresh,   \* a runner's step, candidates, bar and new entries
  runs, opened    \* counters of the bounds

vars == <<day, market, rows, signals, held, pc, todo, bar, fresh, runs, opened>>

Bars == 1..MaxBars

Init ==
  /\ day = 1 /\ market = 1
  /\ rows = [b \in Bars |-> <<>>]
  /\ signals = <<>>
  /\ held = {}
  /\ pc = [r \in Runners |-> "idle"]
  /\ todo = [r \in Runners |-> <<>>]
  /\ bar = [r \in Runners |-> 0]
  /\ fresh = [r \in Runners |-> FALSE]
  /\ runs = 0 /\ opened = 0

-----------------------------------------------------------------------------
(* The run                                                                   *)

Goto(r, step) == pc' = [pc EXCEPT ![r] = step]

Start(r) ==
  /\ pc[r] = "idle" /\ runs < MaxRuns
  /\ Goto(r, "collect")
  /\ fresh' = [fresh EXCEPT ![r] = FALSE]
  /\ runs' = runs + 1
  /\ UNCHANGED <<day, market, rows, signals, held, todo, bar, opened>>

\* collect_prices and compute_indicators: a download may miss symbols, whose
\* rows of the bar stay as they were; the others are written anew, with the
\* verdict of the prices of the moment.
Collect(r) ==
  /\ pc[r] = "collect"
  /\ \E got \in SUBSET Symbols : \E verdict \in [got -> BOOLEAN] :
       rows' = [rows EXCEPT ![market] =
                  [s \in got \cup DOMAIN @ |-> IF s \in got THEN verdict[s] ELSE @[s]]]
  /\ Goto(r, "scan")
  /\ UNCHANGED <<day, market, signals, held, todo, bar, fresh, runs, opened>>

\* get_latest_indicators: the rows of the newest bar that has any.
NewestBar == CHOOSE b \in Bars : rows[b] # <<>> /\ \A c \in Bars : c > b => rows[c] = <<>>

\* The guard the pipeline had first went by the date of the signal.
SignalledByDay(b) == {signals[i].symbol : i \in {j \in DOMAIN signals : signals[j].day = day}}
\* get_entry_symbols_for_bar
Signalled(b) == {signals[i].symbol : i \in {j \in DOMAIN signals : signals[j].bar = b}}

Orders(C) == Injection(1 .. Cardinality(C), C)
Eligible(b) ==
  {s \in DOMAIN rows[b] : rows[b][s] /\ s \notin held /\ s \notin Signalled(b)}

\* scan_entries up to the sorted list of candidates.  With the market filter
\* or the macro switch on it may find the market closed to entries.
Scan(r) ==
  /\ pc[r] = "scan"
  /\ IF \A b \in Bars : rows[b] = <<>>
     THEN UNCHANGED <<todo, bar>>
     ELSE /\ bar' = [bar EXCEPT ![r] = NewestBar]
          /\ \E order \in Orders(Eligible(NewestBar)) :
               todo' = [todo EXCEPT ![r] = order]
  /\ Goto(r, "insert")
  /\ UNCHANGED <<day, market, rows, signals, held, fresh, runs, opened>>

Halted(r) ==
  /\ pc[r] = "scan"
  /\ Goto(r, "insert")
  /\ UNCHANGED <<day, market, rows, signals, held, todo, bar, fresh, runs, opened>>

\* insert_signal, one commit for each candidate.
Insert(r) ==
  /\ pc[r] = "insert" /\ todo[r] # <<>>
  /\ signals' = Append(signals, [symbol |-> Head(todo[r]), bar |-> bar[r], day |-> day,
                                 status |-> "pending", scored |-> FALSE])
  /\ todo' = [todo EXCEPT ![r] = Tail(@)]
  /\ fresh' = [fresh EXCEPT ![r] = TRUE]
  /\ UNCHANGED <<day, market, rows, held, pc, bar, runs, opened>>

\* score_pending_signals, which runs only after a scan with entries: every
\* pending signal without a composite gets one, unless its scoring fails.
Unscored == {i \in DOMAIN signals : signals[i].status = "pending" /\ ~signals[i].scored}
Score(r) ==
  /\ pc[r] = "insert" /\ todo[r] = <<>>
  /\ \E failed \in IF fresh[r] THEN SUBSET Unscored ELSE {Unscored} :
       signals' = [i \in DOMAIN signals |->
                     IF i \in Unscored \ failed THEN [signals[i] EXCEPT !.scored = TRUE]
                     ELSE signals[i]]
  /\ Goto(r, "idle")
  /\ UNCHANGED <<day, market, rows, held, todo, bar, fresh, runs, opened>>

-----------------------------------------------------------------------------
(* The rest of the engine                                                    *)

\* Midnight; the exchange opens a new bar on some of the days.
NextDay ==
  /\ day < MaxDays
  /\ day' = day + 1
  /\ market' \in {market} \cup {b \in Bars : b = market + 1}
  /\ UNCHANGED <<rows, signals, held, pc, todo, bar, fresh, runs, opened>>

SetStatus(i, status) == signals' = [signals EXCEPT ![i].status = status]

\* An entry, modelled in EntryFlow.  The automatic approval wants a score, the
\* manual one does not.
Execute(i) ==
  /\ signals[i].status = "pending" /\ opened < MaxPositions
  /\ signals[i].symbol \notin held
  /\ SetStatus(i, "executed")
  /\ held' = held \cup {signals[i].symbol}
  /\ opened' = opened + 1
  /\ UNCHANGED <<day, market, rows, pc, todo, bar, fresh, runs>>

Sell(s) ==
  /\ s \in held
  /\ held' = held \ {s}
  /\ UNCHANGED <<day, market, rows, signals, pc, todo, bar, fresh, runs, opened>>

\* expire_old_signals: a pending row of an earlier day.
Expire(i) ==
  /\ signals[i].status = "pending" /\ signals[i].day < day
  /\ SetStatus(i, "expired")
  /\ UNCHANGED <<day, market, rows, held, pc, todo, bar, fresh, runs, opened>>

\* The service restarts: the runs in progress are gone, the rows are not.
Restart ==
  /\ \E r \in Runners : pc[r] # "idle"
  /\ pc' = [r \in Runners |-> "idle"]
  /\ todo' = [r \in Runners |-> <<>>]
  /\ UNCHANGED <<day, market, rows, signals, held, bar, fresh, runs, opened>>

Next ==
  \/ \E r \in Runners :
       Start(r) \/ Collect(r) \/ Scan(r) \/ Halted(r) \/ Insert(r) \/ Score(r)
  \/ NextDay \/ Restart
  \/ \E i \in DOMAIN signals : Execute(i) \/ Expire(i)
  \/ \E s \in Symbols : Sell(s)

Spec == Init /\ [][Next]_vars

-----------------------------------------------------------------------------
(* A bar gives a symbol one entry signal at most for each run that may be    *)
(* under way, whatever happens to those signals and to the positions they    *)
(* opened, on however many days and runs the bar is scanned: another one     *)
(* would put the candidate through the score and the gate again.             *)
EntriesOf(s, b) == {i \in DOMAIN signals : signals[i].symbol = s /\ signals[i].bar = b}
EntriesBounded ==
  \A s \in Symbols, b \in Bars : Cardinality(EntriesOf(s, b)) <= Cardinality(Runners)

-----------------------------------------------------------------------------
(* Why it holds: a run that will signal a symbol scanned the bar before its  *)
(* first signal, and signals it once.                                        *)
EntryRows == [symbol : Symbols, bar : Bars, day : Int,
            status : {"pending", "executed", "expired"}, scored : BOOLEAN]
About(s, b) == {r \in Runners : bar[r] = b /\ \E i \in DOMAIN todo[r] : todo[r][i] = s}
ScanSound ==
  /\ day \in Int
  /\ DOMAIN rows = Bars /\ \A b \in Bars : DOMAIN rows[b] \subseteq Symbols
  /\ signals \in Seq(EntryRows)
  /\ DOMAIN pc = Runners /\ DOMAIN bar = Runners /\ todo \in [Runners -> Seq(Symbols)]
  /\ \A r \in Runners : todo[r] # <<>> => pc[r] = "insert" /\ bar[r] \in Bars
  /\ \A r \in Runners : \A i, j \in DOMAIN todo[r] : todo[r][i] = todo[r][j] => i = j
  /\ \A s \in Symbols, b \in Bars :
       EntriesOf(s, b) # {} =>
         Cardinality(EntriesOf(s, b)) + Cardinality(About(s, b)) <= Cardinality(Runners)
=============================================================================
