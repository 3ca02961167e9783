------------------------------ MODULE ExitFlow ------------------------------
(***************************************************************************)
(* The ways out of a swing position: the exit check of the scheduler       *)
(* (engine_v4/scheduler/jobs.py, _job_exit_check), which sells what the    *)
(* layers of ExitManager condemn, halves winners and, when auto_sell is    *)
(* off, only leaves EXIT signals; and the endpoint that approves such a    *)
(* signal (PositionManager.execute_exit).                                  *)
(*                                                                         *)
(* A check works on rows it has read at its start; four jobs and the       *)
(* manual trigger run the same code.  As in EntryFlow a step is one        *)
(* statement on the database; close_position and partial_close_position    *)
(* are two, a SELECT and an UPDATE, with no lock between them.             *)
(*                                                                         *)
(* Prices, indicators and the thresholds of the layers decide which rows   *)
(* are condemned; here any may be.  Quantities are whole shares.           *)
(***************************************************************************)
EXTENDS Integers, FiniteSets

CONSTANTS
  Positions,     \* the open swing rows of the run (side BUY; never HEDGE or CORE)
  Lot,           \* Positions -> shares bought
  Percents,      \* partial_exit_pct as the regime adjusts it, in percent
  Signals,       \* ids for EXIT signals (the bound of a run)
  Jobs,          \* threads that can run the exit check
  Loop,          \* the FastAPI event loop
  LegacyExit,    \* swing_legacy_exit_enabled
  Manual,        \* does the user switch auto_sell and decide EXIT signals?
  Faults,        \* may a call raise, may the process die?
  NoSignal, NoPosition

ASSUME LotAssumption == IsFiniteSet(Positions) /\ Lot \in [Positions -> Nat \ {0}]
ASSUME PercentsAssumption == Percents \subseteq 1..100 /\ Percents # {}
ASSUME ThreadsAssumption == IsFiniteSet(Jobs) /\ Loop \notin Jobs
ASSUME IdsAssumption == NoSignal \notin Signals /\ NoPosition \notin Positions
ASSUME SwitchesAssumption ==
  LegacyExit \in BOOLEAN /\ Manual \in BOOLEAN /\ Faults \in BOOLEAN

VARIABLES
  \* swing_positions
  state,         \* row -> open, closed
  qty,           \* row -> shares left
  halved,        \* the rows with partial_exited
  realized,      \* row -> shares whose gain realized_pnl holds
  \* swing_trades and the broker
  sold,          \* row -> shares of its SELL trades
  exits,         \* row -> number of SELL trades of whole exits
  sent,          \* row -> shares the broker was told to sell
  \* swing_config, swing_signals
  autoSell,      \* auto_sell_enabled
  status,        \* id -> absent, pending, approved, executed, rejected, expired
  sigPos,        \* id -> position_id
  \* one thread each
  pc,
  seen,          \* row -> the quantity read at the start, 0 also for a row not read
  rows,          \* the rows read at the start and not yet condemned
  fresh,         \* those of them that were not partial_exited
  auto,          \* auto_sell as read at the start
  plan,          \* rows still to exit
  parts,         \* rows still to halve
  late,          \* is the plan that of scan_exits, the last part of the check?
  tgt, amount,   \* the row at hand and the shares to sell
  read,          \* the quantity the SELECT of a close returned
  cur            \* Loop: the signal at hand

rowVars    == <<state, qty, halved, realized>>
tradeVars  == <<sold, exits, sent>>
signalVars == <<autoSell, status, sigPos>>
jobVars    == <<seen, rows, fresh, auto, plan, parts, late>>
handVars   == <<tgt, amount, read, cur>>
vars == <<rowVars, tradeVars, signalVars, pc, jobVars, handVars>>

Threads == Jobs \cup {Loop}
Open == {p \in Positions : state[p] = "open"}

Init ==
  /\ state = [p \in Positions |-> "open"]
  /\ qty = Lot
  /\ halved = {}
  /\ realized = [p \in Positions |-> 0]
  /\ sold = [p \in Positions |-> 0]
  /\ exits = [p \in Positions |-> 0]
  /\ sent = [p \in Positions |-> 0]
  /\ autoSell = TRUE
  /\ status = [s \in Signals |-> "absent"]
  /\ sigPos = [s \in Signals |-> NoPosition]
  /\ pc = [w \in Threads |-> "idle"]
  /\ seen = [w \in Threads |-> [p \in Positions |-> 0]]
  /\ rows = [w \in Threads |-> {}]
  /\ fresh = [w \in Threads |-> {}]
  /\ auto = [w \in Threads |-> TRUE]
  /\ plan = [w \in Threads |-> {}]
  /\ parts = [w \in Threads |-> {}]
  /\ late = [w \in Threads |-> FALSE]
  /\ tgt = [w \in Threads |-> NoPosition]
  /\ amount = [w \in Threads |-> 0]
  /\ read = [w \in Threads |-> 0]
  /\ cur = NoSignal

(***************************************************************************)
(* Quantities.                                                             *)
(***************************************************************************)
\* float(pos.get("qty") or 1): a row with nothing left counts as one share.
QtyOrOne(n) == IF n = 0 THEN 1 ELSE n

\* round(): half to even.
Rounded(n, percent) ==
  LET whole == (n * percent) \div 100
      rest  == (n * percent) % 100
  IN  IF rest > 50 \/ (rest = 50 /\ whole % 2 = 1) THEN whole + 1 ELSE whole

\* The shares a partial exit sells: at least one, at most all.
Part(n, percent) ==
  LET half == Rounded(n, percent)
  IN  IF half < 1 THEN 1 ELSE IF half > n THEN n ELSE half

(***************************************************************************)
(* Moving a thread.                                                        *)
(***************************************************************************)
Goto(w, step) == pc' = [pc EXCEPT ![w] = step]

Drop(w) ==
  /\ tgt' = [tgt EXCEPT ![w] = NoPosition]
  /\ amount' = [amount EXCEPT ![w] = 0]
  /\ read' = [read EXCEPT ![w] = 0]
  /\ cur' = IF w = Loop THEN NoSignal ELSE cur

Aim(w, p, n) ==
  /\ tgt' = [tgt EXCEPT ![w] = p]
  /\ amount' = [amount EXCEPT ![w] = n]
  /\ UNCHANGED <<read, cur>>

\* Forget the check that is over.
EndCheck(w) ==
  /\ Goto(w, "idle")
  /\ seen' = [seen EXCEPT ![w] = [p \in Positions |-> 0]]
  /\ rows' = [rows EXCEPT ![w] = {}]
  /\ fresh' = [fresh EXCEPT ![w] = {}]
  /\ auto' = [auto EXCEPT ![w] = TRUE]
  /\ plan' = [plan EXCEPT ![w] = {}]
  /\ parts' = [parts EXCEPT ![w] = {}]
  /\ late' = [late EXCEPT ![w] = FALSE]

(***************************************************************************)
(* The exit check.                                                         *)
(***************************************************************************)
\* The open rows are read and check_exits condemns some of them.  Its writes to
\* stop_loss and high_water_mark are read by no one here.
StartCheck(w) ==
  /\ pc[w] = "idle" /\ Open # {}
  /\ \E D \in SUBSET Open :
       /\ plan' = [plan EXCEPT ![w] = D]
       /\ rows' = [rows EXCEPT ![w] = Open \ D]
  /\ seen' = [seen EXCEPT ![w] = [p \in Positions |-> IF p \in Open THEN qty[p] ELSE 0]]
  /\ fresh' = [fresh EXCEPT ![w] = Open \ halved]
  /\ auto' = [auto EXCEPT ![w] = autoSell]
  /\ Goto(w, "exits")
  /\ UNCHANGED <<rowVars, tradeVars, signalVars, parts, late, handVars>>

\* Mutant: the shares bought instead of the shares left.
NextExitOfLot(w) ==
  /\ pc[w] = "exits" /\ auto[w]
  /\ \E p \in plan[w] :
       /\ plan' = [plan EXCEPT ![w] = @ \ {p}]
       /\ Aim(w, p, Lot[p])
  /\ Goto(w, "close")
  /\ UNCHANGED <<rowVars, tradeVars, signalVars, seen, rows, fresh, auto, parts, late>>

\* auto_sell on: _auto_execute_exit for the next row.
NextExit(w) ==
  /\ pc[w] = "exits" /\ auto[w]
  /\ \E p \in plan[w] :
       /\ plan' = [plan EXCEPT ![w] = @ \ {p}]
       /\ Aim(w, p, QtyOrOne(seen[w][p]))
  /\ Goto(w, "close")
  /\ UNCHANGED <<rowVars, tradeVars, signalVars, seen, rows, fresh, auto, parts, late>>

InsertSignal(s, p) ==
  /\ status[s] = "absent"
  /\ status' = [status EXCEPT ![s] = "pending"]
  /\ sigPos' = [sigPos EXCEPT ![s] = p]

\* auto_sell off: a pending EXIT signal, whether or not the row has one already.
NextSignal(w) ==
  /\ pc[w] = "exits" /\ ~auto[w]
  /\ \E p \in plan[w], s \in Signals :
       /\ InsertSignal(s, p)
       /\ plan' = [plan EXCEPT ![w] = @ \ {p}]
  /\ UNCHANGED <<rowVars, tradeVars, autoSell, pc, seen, rows, fresh, auto, parts, late, handVars>>

\* Mutant: waits for a row to look at.
StartPartsOfSome(w) ==
  /\ pc[w] = "exits" /\ plan[w] = {} /\ ~late[w] /\ rows[w] # {}
  /\ \E H \in SUBSET (rows[w] \cap fresh[w]) : parts' = [parts EXCEPT ![w] = H]
  /\ Goto(w, "parts")
  /\ UNCHANGED <<rowVars, tradeVars, signalVars, seen, rows, fresh, auto, plan, late, handVars>>

\* check_partial_exits picks among the rows that are neither condemned nor halved.
StartParts(w) ==
  /\ pc[w] = "exits" /\ plan[w] = {} /\ ~late[w]
  /\ \E H \in SUBSET (rows[w] \cap fresh[w]) : parts' = [parts EXCEPT ![w] = H]
  /\ Goto(w, "parts")
  /\ UNCHANGED <<rowVars, tradeVars, signalVars, seen, rows, fresh, auto, plan, late, handVars>>

NextPart(w) ==
  /\ pc[w] = "parts"
  /\ \E p \in parts[w], percent \in Percents :
       /\ parts' = [parts EXCEPT ![w] = @ \ {p}]
       /\ Aim(w, p, Part(QtyOrOne(seen[w][p]), percent))
  /\ Goto(w, "part")
  /\ UNCHANGED <<rowVars, tradeVars, signalVars, seen, rows, fresh, auto, plan, late>>

\* scan_exits reads the rows anew and leaves a pending signal for each it condemns;
\* those that the check has read but not condemned itself are then sold as well.  (The
\* ids still free bound how many it can condemn.)
StartScan(w) ==
  /\ pc[w] = "parts" /\ parts[w] = {} /\ LegacyExit
  /\ \E D \in SUBSET Open :
       /\ Cardinality(D) <= Cardinality({s \in Signals : status[s] = "absent"})
       /\ parts' = [parts EXCEPT ![w] = D]
  /\ late' = [late EXCEPT ![w] = TRUE]
  /\ Goto(w, "scan")
  /\ UNCHANGED <<rowVars, tradeVars, signalVars, seen, rows, fresh, auto, plan, handVars>>

ScanSignal(w) ==
  /\ pc[w] = "scan"
  /\ \E p \in parts[w], s \in Signals :
       /\ InsertSignal(s, p)
       /\ parts' = [parts EXCEPT ![w] = @ \ {p}]
       /\ plan' = [plan EXCEPT ![w] = IF auto[w] THEN @ \cup ({p} \cap rows[w]) ELSE @]
  /\ UNCHANGED <<rowVars, tradeVars, autoSell, pc, seen, rows, fresh, auto, late, handVars>>

EndScan(w) ==
  /\ pc[w] = "scan" /\ parts[w] = {}
  /\ Goto(w, "exits")
  /\ UNCHANGED <<rowVars, tradeVars, signalVars, jobVars, handVars>>

FinishCheck(w) ==
  /\ \/ pc[w] = "parts" /\ parts[w] = {} /\ ~LegacyExit
     \/ pc[w] = "exits" /\ plan[w] = {} /\ late[w]
  /\ EndCheck(w)
  /\ UNCHANGED <<rowVars, tradeVars, signalVars, handVars>>

(***************************************************************************)
(* close_position and what its callers do next.  Neither looks at the      *)
(* result: the trade is recorded also when the row was closed already.     *)
(***************************************************************************)
CloseSelect(w) ==
  /\ pc[w] = "close"
  /\ IF tgt[w] \in Open
       THEN read' = [read EXCEPT ![w] = qty[tgt[w]]] /\ Goto(w, "closing")
       ELSE UNCHANGED read /\ Goto(w, "trade")
  /\ UNCHANGED <<rowVars, tradeVars, signalVars, jobVars, tgt, amount, cur>>

\* Mutants: the UPDATE is not committed; the trade is forgotten.
CloseLost(w) ==
  /\ pc[w] = "closing"
  /\ Goto(w, "trade")
  /\ UNCHANGED <<rowVars, tradeVars, signalVars, jobVars, handVars>>
CloseUnlogged(w) ==
  /\ pc[w] = "closing"
  /\ state' = [state EXCEPT ![tgt[w]] = "closed"]
  /\ realized' = [realized EXCEPT ![tgt[w]] = read[w]]
  /\ Goto(w, "order")
  /\ UNCHANGED <<qty, halved, tradeVars, signalVars, jobVars, handVars>>

\* The UPDATE does not ask for status = 'open' again; realized_pnl is overwritten.
CloseUpdate(w) ==
  /\ pc[w] = "closing"
  /\ state' = [state EXCEPT ![tgt[w]] = "closed"]
  /\ realized' = [realized EXCEPT ![tgt[w]] = read[w]]
  /\ Goto(w, "trade")
  /\ UNCHANGED <<qty, halved, tradeVars, signalVars, jobVars, handVars>>

SellTrade(w) ==
  /\ pc[w] = "trade"
  /\ sold' = [sold EXCEPT ![tgt[w]] = @ + amount[w]]
  /\ exits' = [exits EXCEPT ![tgt[w]] = @ + 1]
  /\ Goto(w, IF w = Loop THEN "mark" ELSE "order")
  /\ UNCHANGED <<rowVars, sent, signalVars, jobVars, handVars>>

\* The broker may fail, which is logged.
SellOrder(w) ==
  /\ pc[w] = "order" /\ w \in Jobs
  /\ sent' \in {sent, [sent EXCEPT ![tgt[w]] = @ + amount[w]]}
  /\ Goto(w, "exits")
  /\ Drop(w)
  /\ UNCHANGED <<rowVars, sold, exits, signalVars, jobVars>>

(***************************************************************************)
(* partial_close_position and its trade.  No order goes out.               *)
(***************************************************************************)
PartSelect(w) ==
  /\ pc[w] = "part"
  /\ IF tgt[w] \in Open
       THEN read' = [read EXCEPT ![w] = qty[tgt[w]]] /\ Goto(w, "parting")
       ELSE UNCHANGED read /\ Goto(w, "parttrade")
  /\ UNCHANGED <<rowVars, tradeVars, signalVars, jobVars, tgt, amount, cur>>

PartUpdate(w) ==
  /\ pc[w] = "parting"
  /\ IF tgt[w] \in Open
       THEN /\ qty' = [qty EXCEPT ![tgt[w]] = IF read[w] > amount[w] THEN read[w] - amount[w] ELSE 0]
            /\ halved' = halved \cup {tgt[w]}
            /\ realized' = [realized EXCEPT ![tgt[w]] = @ + amount[w]]
       ELSE UNCHANGED <<qty, halved, realized>>
  /\ Goto(w, "parttrade")
  /\ UNCHANGED <<state, tradeVars, signalVars, jobVars, handVars>>

\* Mutant: no trade for a partial exit.
PartUntraded(w) ==
  /\ pc[w] = "parttrade"
  /\ Goto(w, "parts")
  /\ Drop(w)
  /\ UNCHANGED <<rowVars, tradeVars, signalVars, jobVars>>

PartTrade(w) ==
  /\ pc[w] = "parttrade"
  /\ sold' = [sold EXCEPT ![tgt[w]] = @ + amount[w]]
  /\ Goto(w, "parts")
  /\ Drop(w)
  /\ UNCHANGED <<rowVars, exits, sent, signalVars, jobVars>>

(***************************************************************************)
(* The endpoint: approve, find the row among the open ones, close it,      *)
(* record the trade, mark the signal.  A row that is gone ends it in HTTP  *)
(* 400.  execute_exit returns no quantity, so the order is for none.       *)
(***************************************************************************)
SetStatus(s, from, to) ==
  status' = IF status[s] = from THEN [status EXCEPT ![s] = to] ELSE status

ApproveRequest(s) ==
  /\ Manual
  /\ pc[Loop] = "idle" /\ status[s] = "pending"
  /\ cur' = s
  /\ Goto(Loop, "approve")
  /\ UNCHANGED <<rowVars, tradeVars, signalVars, jobVars, tgt, amount, read>>

Approve ==
  /\ pc[Loop] = "approve"
  /\ SetStatus(cur, "pending", "approved")
  /\ Goto(Loop, "find")
  /\ UNCHANGED <<rowVars, tradeVars, autoSell, sigPos, jobVars, handVars>>

FindPosition ==
  /\ pc[Loop] = "find"
  /\ IF sigPos[cur] \in Open
       THEN Aim(Loop, sigPos[cur], qty[sigPos[cur]]) /\ Goto(Loop, "close")
       ELSE Drop(Loop) /\ Goto(Loop, "idle")
  /\ UNCHANGED <<rowVars, tradeVars, signalVars, jobVars>>

MarkExecuted ==
  /\ pc[Loop] = "mark"
  /\ SetStatus(cur, "approved", "executed")
  /\ Goto(Loop, "idle")
  /\ Drop(Loop)
  /\ UNCHANGED <<rowVars, tradeVars, autoSell, sigPos, jobVars>>

(***************************************************************************)
(* Everybody else.                                                         *)
(***************************************************************************)
\* The user rejects a signal or puts it back, or it grows too old.
SettleSignal(s) ==
  /\ Manual
  /\ \/ status[s] \in {"pending", "approved"} /\ pc[Loop] = "idle"
        /\ status' = [status EXCEPT ![s] = "rejected"]
     \/ status[s] \in {"approved", "rejected", "executed"}
        /\ status' = [status EXCEPT ![s] = "pending"]
     \/ status[s] = "pending" /\ status' = [status EXCEPT ![s] = "expired"]
  /\ UNCHANGED <<rowVars, tradeVars, autoSell, sigPos, pc, jobVars, handVars>>

SwitchAutoSell ==
  /\ Manual
  /\ autoSell' = ~autoSell
  /\ UNCHANGED <<rowVars, tradeVars, status, sigPos, pc, jobVars, handVars>>

\* A call raises.  _auto_execute_exit logs it and the check goes on; anywhere else it
\* ends the check, or the request.
Fault(w) ==
  /\ Faults /\ pc[w] # "idle"
  /\ Drop(w)
  /\ IF w \in Jobs /\ pc[w] \in {"close", "closing", "trade", "order"}
       THEN Goto(w, "exits") /\ UNCHANGED jobVars
       ELSE EndCheck(w)
  /\ UNCHANGED <<rowVars, tradeVars, signalVars>>

\* Nothing is left of the threads.
Restart ==
  /\ Faults
  /\ pc' = [w \in Threads |-> "idle"]
  /\ seen' = [w \in Threads |-> [p \in Positions |-> 0]]
  /\ rows' = [w \in Threads |-> {}]
  /\ fresh' = [w \in Threads |-> {}]
  /\ auto' = [w \in Threads |-> TRUE]
  /\ plan' = [w \in Threads |-> {}]
  /\ parts' = [w \in Threads |-> {}]
  /\ late' = [w \in Threads |-> FALSE]
  /\ tgt' = [w \in Threads |-> NoPosition]
  /\ amount' = [w \in Threads |-> 0]
  /\ read' = [w \in Threads |-> 0]
  /\ cur' = NoSignal
  /\ UNCHANGED <<rowVars, tradeVars, signalVars>>

Check(w) ==
  \/ NextExit(w) \/ NextSignal(w) \/ StartParts(w) \/ NextPart(w)
  \/ StartScan(w) \/ ScanSignal(w) \/ EndScan(w) \/ FinishCheck(w)
Sell(w) ==
  \/ CloseSelect(w) \/ CloseUpdate(w) \/ SellTrade(w) \/ SellOrder(w)
  \/ PartSelect(w) \/ PartUpdate(w) \/ PartTrade(w)
Endpoint == Approve \/ FindPosition \/ MarkExecuted

Environment ==
  \/ \E s \in Signals : ApproveRequest(s) \/ SettleSignal(s)
  \/ SwitchAutoSell \/ Restart

Next ==
  \/ \E w \in Jobs : StartCheck(w) \/ Check(w)
  \/ \E w \in Threads : Sell(w) \/ Fault(w)
  \/ Endpoint \/ Environment

Spec == Init /\ [][Next]_vars

\* A check that has started goes on; starting one is the clock's or the user's.
FairSpec == Spec /\ \A w \in Jobs : WF_vars(Check(w) \/ Sell(w))

(***************************************************************************)
(* Properties.                                                             *)
(***************************************************************************)
\* The shape of the state.
RowsOK ==
  /\ state \in [Positions -> {"open", "closed"}]
  /\ qty \in [Positions -> Nat] /\ realized \in [Positions -> Nat]
  /\ halved \subseteq Positions
  /\ sold \in [Positions -> Nat] /\ exits \in [Positions -> Nat] /\ sent \in [Positions -> Nat]
SignalsOK ==
  /\ autoSell \in BOOLEAN
  /\ status \in [Signals -> {"absent", "pending", "approved", "executed", "rejected", "expired"}]
  /\ sigPos \in [Signals -> Positions \cup {NoPosition}]
  /\ \A s \in Signals : status[s] # "absent" => sigPos[s] \in Positions
Steps ==
  {"idle", "exits", "close", "closing", "trade", "order", "parts", "part", "parting", "parttrade",
   "scan", "approve", "find", "mark"}
ThreadsOK ==
  /\ pc \in [Threads -> Steps]
  /\ seen \in [Threads -> [Positions -> Nat]]
  /\ rows \in [Threads -> SUBSET Positions] /\ fresh \in [Threads -> SUBSET Positions]
  /\ auto \in [Threads -> BOOLEAN] /\ late \in [Threads -> BOOLEAN]
  /\ plan \in [Threads -> SUBSET Positions] /\ parts \in [Threads -> SUBSET Positions]
  /\ tgt \in [Threads -> Positions \cup {NoPosition}]
  /\ amount \in [Threads -> Nat] /\ read \in [Threads -> Nat]
  /\ cur \in Signals \cup {NoSignal}
\* Rows, signals and threads of the exit path have their types; no quantity is negative.
TypeOK == RowsOK /\ SignalsOK /\ ThreadsOK

\* The shares of p that the threads at one of the steps S have at hand: the sum of their
\* amounts, each share counted under its thread.
Carried(S, p) ==
  Cardinality(UNION {{w} \X (1..amount[w]) : w \in {u \in Threads : pc[u] \in S /\ tgt[u] = p}})
\* Committed to the trade log without having been written there.
InHand(p) == Carried({"trade", "parttrade"}, p)
Left(p) == IF state[p] = "open" THEN qty[p] ELSE 0

\* close_position's result is ignored, so one row can be sold again by every thread
\* that planned to while it was open, but by none of them twice: a row has at most
\* one whole SELL per thread, whatever crashes and retries.
ExitsBounded == \A p \in Positions : exits[p] <= Cardinality(Threads)

\* Without a fault the trade log never misses a share that has left the books, even
\* when partial and whole exits race on stale quantities.
SalesCovered ==
  ~Faults => \A p \in Positions :
    sold[p] + InHand(p) >= Lot[p] - Left(p)

\* Rows and trade log agree when nobody is at work on the row: what was sold is
\* what is gone, neither less nor more.
SalesExact ==
  \A p \in Positions :
    (\A w \in Threads : tgt[w] # p) => sold[p] = Lot[p] - Left(p)

\* The broker is never told to sell more than the log says was sold.
OrdersLogged == \A p \in Positions : sent[p] <= sold[p]

\* A row is recorded as sold out once it is closed, or a thread is about to do it.
ClosedLogged ==
  ~Faults => \A p \in Positions : state[p] = "closed" =>
               exits[p] > 0 \/ \E w \in Threads : pc[w] = "trade" /\ tgt[w] = p

\* "or 1 makes a quantity that does not exist" (_auto_execute_exit): nobody sells more
\* shares of a row than were bought.
NeverOversold == \A p \in Positions : sold[p] <= Lot[p]

\* A row the check has condemned with auto_sell on is closed, by whomever.
CondemnedCloses ==
  \A w \in Jobs, p \in Positions : p \in plan[w] /\ auto[w] ~> state[p] = "closed"

\* A check that has started ends.
ChecksEnd == \A w \in Jobs : pc[w] # "idle" ~> pc[w] = "idle"
=============================================================================
