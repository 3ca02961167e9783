----------------------------- MODULE EntryFlow -----------------------------
(***************************************************************************)
(* The path of an ENTRY signal from a pending row to an open position and  *)
(* a broker order.  Two callers walk it: the endpoint that approves one    *)
(* signal (engine_v4/api/main.py) and run_auto_approve, which sweeps the   *)
(* pending list (engine_v4/strategy/auto_approve.py).  Both end in         *)
(* PositionManager.execute_entry.                                          *)
(*                                                                         *)
(* Every PostgresStore method is one transaction on a connection of its    *)
(* own and nothing locks across two of them, so one step of a worker here  *)
(* is one such call, and the other workers, the user and the clock may act *)
(* between any two.                                                        *)
(***************************************************************************)
EXTENDS Integers, FiniteSets

CONSTANTS
  Signals,       \* ids of the ENTRY rows of swing_signals, ascending in time
  Positions,     \* position_ids, ascending in time (the bound of a run)
  Symbols, Sectors,
  SymbolOf,      \* Signals -> Symbols
  SectorOf,      \* Symbols -> Sectors or NoSector (swing_universe.sector)
  NoSignal, NoPosition, NoSector,
  Workers,       \* the threads that can run an entry
  Loop,          \* the one of them that is the FastAPI event loop
  MaxPositions,  \* max_positions
  MaxDaily,      \* max_daily_entries
  MaxPerSector,  \* max_per_sector, 0 = off
  Base,          \* notional of one entry after the risk and notional caps
  Cap,           \* account value * max_total_exposure_pct
  HedgeEnabled,  \* hedge_enabled
  HedgeSize,     \* notional of the hedge
  Faults,        \* may a call raise, may the process die?
  Reverts        \* does the dashboard user press Revert?

ASSUME CountsAssumption ==
  /\ MaxPositions \in Nat /\ MaxDaily \in Nat /\ MaxPerSector \in Nat
  /\ Base \in Nat \ {0} /\ Cap \in Nat /\ HedgeSize \in Nat
ASSUME SwitchesAssumption ==
  HedgeEnabled \in BOOLEAN /\ Faults \in BOOLEAN /\ Reverts \in BOOLEAN
ASSUME SignalsAssumption == Signals \subseteq Nat /\ NoSignal \notin Signals
ASSUME RowsAssumption ==
  /\ Positions \subseteq Nat /\ IsFiniteSet(Signals) /\ IsFiniteSet(Positions) /\ NoPosition \notin Positions
ASSUME WorkersAssumption == IsFiniteSet(Workers) /\ Loop \in Workers
ASSUME MapsAssumption ==
  /\ SymbolOf \in [Signals -> Symbols]
  /\ SectorOf \in [Symbols -> Sectors \cup {NoSector}]
  /\ NoSector \notin Sectors

VARIABLES
  \* swing_signals
  status,        \* id -> status, "absent" before the insert
  today,         \* the ids whose creation date is the current date
  link,          \* id -> position_id written back by mark_signal_executed
  \* no table has it: the properties ask which entries a fault has cut off
  cutOff,        \* pairs of a signal and its row, if there was one by then
  \* swing_positions, swing_trades and the orders sent to the broker
  state,         \* row -> free, open, closed
  sigOf,         \* row -> signal_id
  size,          \* row -> notional at entry
  bought,        \* the rows with a BUY in swing_trades
  ordered,       \* the rows whose order the broker took
  hedged,        \* is a side=HEDGE row open?
  \* one thread each
  pc,            \* the next call of the worker
  call,          \* is validate_entry run before approval or inside execute_entry?
  auto,          \* the workers inside run_auto_approve
  cur,           \* the signal at hand
  todo,          \* PASS 1: the rest of the pending snapshot
  cands,         \* PASS 3: the candidates left
  pid, qty       \* execute_entry: the new row, its notional

signalVars   == <<status, today, link, cutOff>>
positionVars == <<state, sigOf, size, bought, ordered>>
workerVars   == <<pc, call, auto, cur, todo, cands, pid, qty>>
vars == <<signalVars, positionVars, hedged, workerVars>>

Statuses == {"absent", "pending", "approved", "executed", "rejected", "expired"}
Checks   == {"max", "daily", "dup", "sector"}
Steps    == Checks \cup {"approve", "size", "open", "trade", "mark", "order", "undo"}

Init ==
  /\ status = [s \in Signals |-> "absent"]
  /\ today = {}
  /\ link = [s \in Signals |-> NoPosition]
  /\ cutOff = {}
  /\ state = [p \in Positions |-> "free"]
  /\ sigOf = [p \in Positions |-> NoSignal]
  /\ size = [p \in Positions |-> 0]
  /\ bought = {} /\ ordered = {}
  /\ hedged = FALSE
  /\ pc = [w \in Workers |-> "idle"]
  /\ call = [w \in Workers |-> "pre"]
  /\ auto = {}
  /\ cur = [w \in Workers |-> NoSignal]
  /\ todo = [w \in Workers |-> {}]
  /\ cands = [w \in Workers |-> {}]
  /\ pid = [w \in Workers |-> NoPosition]
  /\ qty = [w \in Workers |-> 0]

(***************************************************************************)
(* What the checks read.                                                   *)
(***************************************************************************)
Open == {p \in Positions : state[p] = "open"}
OpenIn(sym) == {p \in Open : SymbolOf[sigOf[p]] = sym}
OpenSector(sec) == {p \in Open : SectorOf[SymbolOf[sigOf[p]]] = sec}
TodayEntries == {s \in Signals : status[s] = "executed" /\ s \in today}

OpenCount == Cardinality(Open) + (IF hedged THEN 1 ELSE 0)
\* The notionals of the open rows, unit by unit.
SwingExposure == Cardinality(UNION {{p} \X (1..size[p]) : p \in Open})
Exposure == SwingExposure + (IF hedged THEN HedgeSize ELSE 0)

SectorFull(sym) ==
  /\ MaxPerSector > 0
  /\ SectorOf[sym] # NoSector
  /\ Cardinality(OpenSector(SectorOf[sym])) >= MaxPerSector

\* Mutant: the room is never looked at.
Uncapped(exposure) == Base

\* concentration_capped_qty: the room left, never more than the base size.
Capped(exposure) == IF Cap - exposure < Base THEN Cap - exposure ELSE Base

(***************************************************************************)
(* Single statements on swing_signals.  A row in another state than the    *)
(* WHERE clause asks for is left alone, and the callers ignore the count.  *)
(***************************************************************************)
SetStatus(s, from, to) ==
  status' = IF status[s] \in from THEN [status EXCEPT ![s] = to] ELSE status

ApproveRow(s) == SetStatus(s, {"pending"}, "approved")
RejectRow(s)  == SetStatus(s, {"pending", "approved"}, "rejected")

(***************************************************************************)
(* Moving a worker.                                                        *)
(***************************************************************************)
Goto(w, step) ==
  /\ pc' = [pc EXCEPT ![w] = step]
  /\ UNCHANGED <<call, auto, cur, todo, cands, pid, qty>>

\* The signal at hand is done with: the endpoint returns (or raises), the
\* sweep turns to its next signal.
Leave(w) ==
  /\ pc' = [pc EXCEPT ![w] = IF w \notin auto THEN "idle"
                             ELSE IF call[w] = "pre" THEN "pass1" ELSE "pass3"]
  /\ call' = [call EXCEPT ![w] = "pre"]
  /\ cur' = [cur EXCEPT ![w] = NoSignal]
  /\ pid' = [pid EXCEPT ![w] = NoPosition]
  /\ qty' = [qty EXCEPT ![w] = 0]
  /\ UNCHANGED <<auto, todo, cands>>

\* validate_entry or the sizing says no.  Inside execute_entry the caller
\* then rejects the signal it has already approved.
Refuse(w) == IF call[w] = "exec" THEN Goto(w, "undo") ELSE Leave(w)

(***************************************************************************)
(* validate_entry: one query after the other.  The switch that stops all   *)
(* entries, the CRISIS regime and the price range refuse for reasons that  *)
(* no variable here holds.                                                 *)
(***************************************************************************)
Check(w, here, ok, there) ==
  /\ pc[w] = here
  /\ IF ok THEN Goto(w, there) ELSE Refuse(w)
  /\ UNCHANGED <<signalVars, positionVars, hedged>>

\* Mutants: a query left out.
SkipMax(w) == Check(w, "max", TRUE, "daily")
SkipDaily(w) == Check(w, "daily", TRUE, "dup")
SkipDup(w) == Check(w, "dup", TRUE, "sector")

CheckMax(w)   == Check(w, "max", OpenCount < MaxPositions, "daily")
CheckDaily(w) == Check(w, "daily", Cardinality(TodayEntries) < MaxDaily, "dup")
CheckDup(w)   == Check(w, "dup", OpenIn(SymbolOf[cur[w]]) = {}, "sector")

RefuseOther(w) ==
  /\ pc[w] \in {"max", "sector"}
  /\ Refuse(w)
  /\ UNCHANGED <<signalVars, positionVars, hedged>>

\* The last check; what follows depends on who called validate_entry.
CheckSector(w) ==
  /\ pc[w] = "sector"
  /\ IF SectorFull(SymbolOf[cur[w]]) THEN Refuse(w)
     ELSE IF call[w] = "exec" THEN Goto(w, "size")
     ELSE IF w \notin auto THEN Goto(w, "approve")
     ELSE /\ cands' = [cands EXCEPT ![w] = @ \cup {cur[w]}]
          /\ pc' = [pc EXCEPT ![w] = "pass1"]
          /\ cur' = [cur EXCEPT ![w] = NoSignal]
          /\ UNCHANGED <<call, auto, todo, pid, qty>>
  /\ UNCHANGED <<signalVars, positionVars, hedged>>

(***************************************************************************)
(* The endpoint.  It reads the row, wants it pending, validates, applies   *)
(* the score gates (or is told to skip them) and approves.                 *)
(***************************************************************************)
\* Mutant: any row will do.
ApproveAnyRow(s) ==
  /\ pc[Loop] = "idle" /\ status[s] # "absent"
  /\ pc' = [pc EXCEPT ![Loop] = "max"]
  /\ cur' = [cur EXCEPT ![Loop] = s]
  /\ UNCHANGED <<signalVars, positionVars, hedged, call, auto, todo, cands, pid, qty>>

ApproveRequest(s) ==
  /\ pc[Loop] = "idle" /\ status[s] = "pending"
  /\ pc' = [pc EXCEPT ![Loop] = "max"]
  /\ cur' = [cur EXCEPT ![Loop] = s]
  /\ UNCHANGED <<signalVars, positionVars, hedged, call, auto, todo, cands, pid, qty>>

Approve(w) ==
  /\ pc[w] = "approve"
  /\ ApproveRow(cur[w])
  /\ pc' = [pc EXCEPT ![w] = "max"]
  /\ call' = [call EXCEPT ![w] = "exec"]
  /\ UNCHANGED <<today, link, cutOff, positionVars, hedged, auto, cur, todo, cands, pid, qty>>

(***************************************************************************)
(* The sweep.  The pending rows are read once, newest first; the gates on  *)
(* that snapshot keep some of them.                                        *)
(***************************************************************************)
AutoStart(w) ==
  /\ pc[w] = "idle"
  /\ \E S \in SUBSET {s \in Signals : status[s] = "pending"} :
       /\ S # {}
       /\ todo' = [todo EXCEPT ![w] = S]
  /\ auto' = auto \cup {w}
  /\ pc' = [pc EXCEPT ![w] = "pass1"]
  /\ UNCHANGED <<signalVars, positionVars, hedged, call, cur, cands, pid, qty>>

Newest(s, S) == s \in S /\ \A t \in S : t <= s

\* Mutant: the sweep takes up the same row again.
Pass1Again(w) ==
  /\ pc[w] = "pass1"
  /\ \/ todo[w] = {} /\ Goto(w, "pass3")
     \/ \E s \in todo[w] :
          /\ Newest(s, todo[w])
          /\ cur' = [cur EXCEPT ![w] = s]
          /\ pc' = [pc EXCEPT ![w] = "max"]
          /\ UNCHANGED <<call, auto, todo, cands, pid, qty>>
  /\ UNCHANGED <<signalVars, positionVars, hedged>>

Pass1(w) ==
  /\ pc[w] = "pass1"
  /\ \/ /\ todo[w] = {}
        /\ Goto(w, "pass3")
     \/ \E s \in todo[w] :
          /\ Newest(s, todo[w])
          /\ todo' = [todo EXCEPT ![w] = @ \ {s}]
          /\ cur' = [cur EXCEPT ![w] = s]
          /\ pc' = [pc EXCEPT ![w] = "max"]
          /\ UNCHANGED <<call, auto, cands, pid, qty>>
  /\ UNCHANGED <<signalVars, positionVars, hedged>>

\* The language model (PASS 2, minutes) answers APPROVE: approve_signal, whose
\* result nobody looks at, then execute_entry.
AutoApprove(w) ==
  /\ pc[w] = "pass3"
  /\ \E s \in cands[w] :
       /\ Newest(s, cands[w])
       /\ ApproveRow(s)
       /\ cands' = [cands EXCEPT ![w] = @ \ {s}]
       /\ cur' = [cur EXCEPT ![w] = s]
  /\ pc' = [pc EXCEPT ![w] = "max"]
  /\ call' = [call EXCEPT ![w] = "exec"]
  /\ UNCHANGED <<today, link, cutOff, positionVars, hedged, auto, todo, pid, qty>>

\* It answers REJECT, or DEFER, or nothing usable.
AutoDrop(w) ==
  /\ pc[w] = "pass3"
  /\ \E s \in cands[w] :
       /\ Newest(s, cands[w])
       /\ RejectRow(s) \/ UNCHANGED status
       /\ cands' = [cands EXCEPT ![w] = @ \ {s}]
  /\ UNCHANGED <<today, link, cutOff, positionVars, hedged, pc, call, auto, cur, todo, pid, qty>>

AutoEnd(w) ==
  /\ pc[w] = "pass3" /\ cands[w] = {}
  /\ pc' = [pc EXCEPT ![w] = "idle"]
  /\ auto' = auto \ {w}
  /\ UNCHANGED <<signalVars, positionVars, hedged, call, cur, todo, cands, pid, qty>>

(***************************************************************************)
(* execute_entry after its validate_entry.                                 *)
(***************************************************************************)
\* _get_open_exposure_usd answers 0 when its query raises.
Size(w) ==
  /\ pc[w] = "size"
  /\ \E exposure \in {Exposure} \cup (IF Faults THEN {0} ELSE {}) :
       IF Capped(exposure) \in 1..Base
         THEN /\ qty' = [qty EXCEPT ![w] = Capped(exposure)]
              /\ pc' = [pc EXCEPT ![w] = "open"]
              /\ UNCHANGED <<call, auto, cur, todo, cands, pid>>
         ELSE Refuse(w)
  /\ UNCHANGED <<signalVars, positionVars, hedged>>

\* position_id is a serial number.
NextRow(p) == state[p] = "free" /\ \A q \in Positions : q < p => state[q] # "free"

OpenPosition(w) ==
  /\ pc[w] = "open"
  /\ \E p \in Positions :
       /\ NextRow(p)
       /\ state' = [state EXCEPT ![p] = "open"]
       /\ sigOf' = [sigOf EXCEPT ![p] = cur[w]]
       /\ size' = [size EXCEPT ![p] = qty[w]]
       /\ pid' = [pid EXCEPT ![w] = p]
  /\ pc' = [pc EXCEPT ![w] = "trade"]
  /\ UNCHANGED <<signalVars, bought, ordered, hedged, call, auto, cur, todo, cands, qty>>

\* Mutant: the INSERT is not committed.
LoseTrade(w) ==
  /\ pc[w] = "trade"
  /\ Goto(w, "mark")
  /\ UNCHANGED <<signalVars, positionVars, hedged>>

InsertTrade(w) ==
  /\ pc[w] = "trade"
  /\ bought' = bought \cup {pid[w]}
  /\ Goto(w, "mark")
  /\ UNCHANGED <<signalVars, state, sigOf, size, ordered, hedged>>

\* The ATR exit parameters written right after belong to the exit side.
MarkExecuted(w) ==
  /\ pc[w] = "mark"
  /\ SetStatus(cur[w], {"approved"}, "executed")
  /\ link' = IF status[cur[w]] = "approved"
               THEN [link EXCEPT ![cur[w]] = pid[w]] ELSE link
  /\ Goto(w, "order")
  /\ UNCHANGED <<today, cutOff, positionVars, hedged>>

\* The row stays whatever the broker answers.
PlaceOrder(w) ==
  /\ pc[w] = "order"
  /\ ordered' \in {ordered, ordered \cup {pid[w]}}
  /\ Leave(w)
  /\ UNCHANGED <<signalVars, state, sigOf, size, bought, hedged>>

\* Mutant: the refused signal stays approved.
KeepApproval(w) ==
  /\ pc[w] = "undo"
  /\ Leave(w)
  /\ UNCHANGED <<signalVars, positionVars, hedged>>

UndoApproval(w) ==
  /\ pc[w] = "undo"
  /\ RejectRow(cur[w])
  /\ Leave(w)
  /\ UNCHANGED <<today, link, cutOff, positionVars, hedged>>

\* The entry that is lost if worker w stops here.
Entering(w) == IF call[w] = "exec" /\ pc[w] # "order" THEN {<<cur[w], pid[w]>>} ELSE {}

(***************************************************************************)
(* A call of the worker raises.  The endpoint answers 500; the sweep logs  *)
(* it and goes on.  Nobody puts the row back.                              *)
(***************************************************************************)
Fault(w) ==
  /\ Faults
  /\ pc[w] \in Steps \ {"order"}
  /\ cutOff' = cutOff \cup Entering(w)
  /\ Leave(w)
  /\ UNCHANGED <<status, today, link, positionVars, hedged>>

(***************************************************************************)
(* Everybody else.                                                         *)
(***************************************************************************)
InsertSignal(s) ==
  /\ status[s] = "absent"
  /\ \A t \in Signals : t < s => status[t] # "absent"
  /\ status' = [status EXCEPT ![s] = "pending"]
  /\ today' = today \cup {s}
  /\ UNCHANGED <<link, cutOff, positionVars, hedged, workerVars>>

\* The hourly job: every pending row older than signal_expiry_hours.
ExpireSignals ==
  /\ \E cutoff \in Signals \ today :
       status' = [s \in Signals |-> IF status[s] = "pending" /\ s <= cutoff /\ s \notin today
                                      THEN "expired" ELSE status[s]]
  /\ UNCHANGED <<today, link, cutOff, positionVars, hedged, workerVars>>

\* POST /signals/{id}/reject runs on the loop, so never inside an approval there.
RejectRequest(s) ==
  /\ pc[Loop] = "idle" /\ status[s] \in {"pending", "approved"}
  /\ RejectRow(s)
  /\ UNCHANGED <<today, link, cutOff, positionVars, hedged, workerVars>>

\* The dashboard writes the table itself.
RevertToPending(s) ==
  /\ Reverts
  /\ status[s] \in {"approved", "rejected", "executed"}
  /\ status' = [status EXCEPT ![s] = "pending"]
  /\ UNCHANGED <<today, link, cutOff, positionVars, hedged, workerVars>>

\* An exit, by whatever path.
ClosePosition(p) ==
  /\ state[p] = "open"
  /\ state' = [state EXCEPT ![p] = "closed"]
  /\ UNCHANGED <<signalVars, sigOf, size, bought, ordered, hedged, workerVars>>

\* The hedge job asks none of the limits.
ToggleHedge ==
  /\ HedgeEnabled
  /\ hedged' = ~hedged
  /\ UNCHANGED <<signalVars, positionVars, workerVars>>

NextDay ==
  /\ today' = {}
  /\ UNCHANGED <<status, link, cutOff, positionVars, hedged, workerVars>>

\* systemd restarts the service: the threads are gone, the rows are not.
Restart ==
  /\ Faults
  /\ cutOff' = cutOff \cup UNION {Entering(w) : w \in Workers}
  /\ pc' = [w \in Workers |-> "idle"]
  /\ call' = [w \in Workers |-> "pre"]
  /\ auto' = {}
  /\ cur' = [w \in Workers |-> NoSignal]
  /\ todo' = [w \in Workers |-> {}]
  /\ cands' = [w \in Workers |-> {}]
  /\ pid' = [w \in Workers |-> NoPosition]
  /\ qty' = [w \in Workers |-> 0]
  /\ UNCHANGED <<status, today, link, positionVars, hedged>>

Validate(w) == CheckMax(w) \/ CheckDaily(w) \/ CheckDup(w) \/ CheckSector(w) \/ RefuseOther(w)
Sweep(w)    == Pass1(w) \/ AutoApprove(w) \/ AutoDrop(w) \/ AutoEnd(w)
Execute(w)  == \/ Size(w) \/ OpenPosition(w) \/ InsertTrade(w) \/ MarkExecuted(w)
               \/ PlaceOrder(w) \/ UndoApproval(w)
Step(w)     == Validate(w) \/ Approve(w) \/ Sweep(w) \/ Execute(w)

Environment ==
  \/ \E s \in Signals : \/ InsertSignal(s) \/ ApproveRequest(s)
                        \/ RejectRequest(s) \/ RevertToPending(s)
  \/ \E p \in Positions : ClosePosition(p)
  \/ ExpireSignals \/ ToggleHedge \/ NextDay \/ Restart

Next == Environment \/ \E w \in Workers : Step(w) \/ AutoStart(w) \/ Fault(w)

Spec == Init /\ [][Next]_vars

\* A thread that has a call to make makes it.  Users, jobs not yet started and
\* faults owe nothing.
FairSpec == Spec /\ \A w \in Workers : WF_vars(Step(w))

(***************************************************************************)
(* Properties.                                                             *)
(***************************************************************************)
\* The shape of the state.
SignalsOK ==
  /\ status \in [Signals -> Statuses]
  /\ today \subseteq Signals
  /\ link \in [Signals -> Positions \cup {NoPosition}]
  /\ cutOff \subseteq (Signals \cup {NoSignal}) \X (Positions \cup {NoPosition})
RowsOK ==
  /\ state \in [Positions -> {"free", "open", "closed"}]
  /\ sigOf \in [Positions -> Signals \cup {NoSignal}]
  /\ size \in [Positions -> 0..Base]
  /\ bought \subseteq Positions /\ ordered \subseteq Positions
  /\ hedged \in BOOLEAN
ThreadsOK ==
  /\ pc \in [Workers -> {"idle", "pass1", "pass3"} \cup Steps]
  /\ call \in [Workers -> {"pre", "exec"}]
  /\ auto \subseteq Workers
  /\ cur \in [Workers -> Signals \cup {NoSignal}]
  /\ todo \in [Workers -> SUBSET Signals]
  /\ cands \in [Workers -> SUBSET Signals]
  /\ pid \in [Workers -> Positions \cup {NoPosition}]
  /\ qty \in [Workers -> 0..Base]
\* Rows, signals and threads of the entry path have their types.
TypeOK == SignalsOK /\ RowsOK /\ ThreadsOK

\* can_open_position is read long before open_position inserts, so max_positions
\* can be exceeded, but by no more than the other workers under way: whatever
\* the interleaving, faults and restarts, open swing rows never exceed the limit by
\* more than the number of workers less one.
PositionsBounded == Cardinality(Open) <= MaxPositions + Cardinality(Workers) - 1

\* The same for has_open_position: a symbol is held at most once per worker.
SymbolBounded == \A y \in Symbols : Cardinality(OpenIn(y)) <= Cardinality(Workers)

\* The same for what get_today_entry_count counts.
DailyCountBounded == Cardinality(TodayEntries) <= MaxDaily + Cardinality(Workers) - 1

\* An executed signal points back at a row that was opened for it and whose BUY is
\* in the trade log, even when two workers raced on it or a user reverted it.
ExecutedBacked ==
  \A s \in Signals : status[s] = "executed" =>
    /\ link[s] \in bought
    /\ sigOf[link[s]] = s

\* The broker never hears of an entry the database has not recorded in full.
OrderBacked == \A p \in ordered : p \in bought /\ state[p] # "free"

\* An approved signal is in the hands of a worker that will settle it; it is left
\* approved for good, counted and refused by nobody, only by an exception or a
\* restart in the middle of its entry.
ApprovedOwned ==
  \A s \in Signals : status[s] = "approved" =>
    \/ \E w \in Workers : cur[w] = s /\ call[w] = "exec"
    \/ \E entry \in cutOff : entry[1] = s

\* open_position and insert_trade commit on their own: a row has its BUY trade, or
\* a worker about to insert it, or is the row of an entry cut off between the two.
RowsRecorded ==
  \A p \in Positions : state[p] # "free" =>
    \/ p \in bought
    \/ \E w \in Workers : pc[w] = "trade" /\ pid[w] = p
    \/ \E entry \in cutOff : entry[2] = p

\* What the tables say of an entry, and what is missing: the broker's order is the
\* last to come, and the trade is lost by a fault alone.
EntriesLogged == OrderBacked /\ RowsRecorded

\* The total exposure cap: sized from the open rows at the time of the entry.
ExposureCapped == SwingExposure <= Cap

\* A signal yields one position in its life.
OneEntryPerSignal ==
  \A p, q \in Positions : sigOf[p] = sigOf[q] /\ sigOf[p] # NoSignal => p = q

\* approved is a passing state (get_today_entry_count relies on it).
ApprovedPasses == \A s \in Signals : status[s] = "approved" ~> status[s] # "approved"

\* A worker that took something up puts it down.
WorkersFinish == \A w \in Workers : pc[w] # "idle" ~> pc[w] = "idle"

(***************************************************************************)
(* The flow implements the book of limits, overdrawn at most once by each  *)
(* worker but one: the checks of validate_entry are read one by one long   *)
(* before open_position inserts, yet the effect is that of one atomic      *)
(* entry under slightly larger limits (the very limits, for one worker).   *)
(***************************************************************************)
Book == INSTANCE EntryBook WITH Slack <- Cardinality(Workers) - 1

BookSpec == Book!Spec
=============================================================================
