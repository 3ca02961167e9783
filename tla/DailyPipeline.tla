--------------------------- MODULE DailyPipeline ---------------------------
(***************************************************************************)
(* The daily pipeline of the previous engine                               *)
(* (PortfolioOrchestrator.execute_daily, engine/api/main.py): regime, kill *)
(* switch, allocation, signals, sizing and orders in slices.  The          *)
(* scheduler starts one run of it, POST /run another; both are coroutines  *)
(* of one event loop and yield to each other only where they await         *)
(* Telegram or sleep between two slices.  The drawdown kill switch         *)
(* (engine/risk/kill_switch.py) is one object in the memory of the         *)
(* service, told the portfolio's value by each run.                        *)
(***************************************************************************)
EXTENDS Integers, FiniteSets, Sums

CONSTANTS
  Values,     \* the portfolio values the broker reports
  CooldownDays,
  MaxDays,    \* bound on the calendar
  Runs,       \* the runs that may be under way at once
  Scheduled,  \* the one the scheduler starts
  Symbols,
  Signals,    \* what the strategies may ask for: [strategy, symbol, side]
  Slices,     \* vwap_slices
  NoOrder,
  MaxFilled,  \* bound: no more orders once so many slices are filled
  MaxFaults   \* bound on failed calls and restarts

VARIABLES
  peak, current,   \* peak_value, current_value
  level,      \* self.level
  cooldown,   \* cooldown_until, 0 for None
  today,      \* datetime.now()
  step,       \* where a run awaits: idle, switch, decide, trade
  view,       \* the level update gave a run that awaits Telegram since
  todo,       \* its orders not yet begun
  order,      \* the one under way
  left, got,  \* its slices left, its slices filled
  held,       \* the broker: symbol -> shares
  filled,     \* the broker: slices filled
  recorded,   \* swing_trades: slices in the trade log
  overtaken,  \* runs that trade on a decision older than the emergency
  faults

switchVars == <<peak, current, level, cooldown>>
runVars == <<step, view, todo, order, left, got>>
vars == <<switchVars, today, runVars, held, filled, recorded, overtaken, faults>>

(***************************************************************************)
(* The kill switch.                                                        *)
(***************************************************************************)
Allowed == [NORMAL    |-> {"lowvol_quality", "vol_momentum", "pairs_trading"},
            WARNING   |-> {"lowvol_quality", "pairs_trading"},
            DEFENSIVE |-> {"lowvol_quality", "pairs_trading"},
            EMERGENCY |-> {}]

\* DrawdownKillSwitch(initial_value=v)
New(v) == peak = v /\ current = v /\ level = "NORMAL" /\ cooldown = 0
Renew(v) == peak' = v /\ current' = v /\ level' = "NORMAL" /\ cooldown' = 0

\* mdd <= -pct, the drawdown of v from top; without a peak there is none (in floats a
\* value on the very percentage may fall on either side; no member of Values is on one).
Down(v, top, pct) == top > 0 /\ 100 * v <= (100 - pct) * top
Higher(v) == IF v > peak THEN v ELSE peak

CoolingDown == cooldown # 0 /\ today < cooldown

\* Back one level at a time.
OneUp(v, top) ==
  CASE level = "DEFENSIVE" /\ ~Down(v, top, 12) -> "WARNING"
    [] level = "WARNING" /\ ~Down(v, top, 7) -> "NORMAL"
    [] OTHER -> level

LevelFor(v, top) ==
  IF Down(v, top, 20) THEN "EMERGENCY"
  ELSE IF Down(v, top, 15) THEN "DEFENSIVE"
  ELSE IF Down(v, top, 10) THEN "WARNING"
  ELSE OneUp(v, top)

Stay == CoolingDown /\ UNCHANGED <<peak, level, cooldown>>

\* Mutant: the old peak is kept.
ReleaseToOldPeak(v) ==
  /\ cooldown # 0 /\ today >= cooldown
  /\ cooldown' = 0 /\ level' = "NORMAL" /\ UNCHANGED peak

Release(v) ==
  /\ cooldown # 0 /\ today >= cooldown
  /\ cooldown' = 0 /\ peak' = v /\ level' = "NORMAL"

Measure(v) ==
  /\ cooldown = 0
  /\ peak' = Higher(v)
  /\ level' = LevelFor(v, Higher(v))
  /\ cooldown' = IF Down(v, Higher(v), 20) THEN today + CooldownDays ELSE 0

Update(v) == current' = v /\ (Stay \/ Release(v) \/ Measure(v))

(***************************************************************************)
(* The runs.                                                               *)
(***************************************************************************)
Init ==
  /\ today = 1 /\ \E v \in Values : New(v)
  /\ step = [r \in Runs |-> "idle"]
  /\ view = [r \in Runs |-> "NORMAL"]
  /\ todo = [r \in Runs |-> {}]
  /\ order = [r \in Runs |-> NoOrder]
  /\ left = [r \in Runs |-> 0] /\ got = [r \in Runs |-> 0]
  /\ held = [s \in Symbols |-> 0]
  /\ filled = 0 /\ recorded = 0
  /\ overtaken = {} /\ faults = 0

\* STEP 1.  A change of the regime is sent to Telegram, and any call may be one.
Begin(r) ==
  /\ step[r] = "idle"
  /\ step' = [step EXCEPT ![r] = "switch"]
  /\ UNCHANGED <<switchVars, today, view, todo, order, left, got,
                 held, filled, recorded, overtaken, faults>>

End(r) ==
  /\ step' = [step EXCEPT ![r] = "idle"]
  /\ todo' = [todo EXCEPT ![r] = {}]
  /\ order' = [order EXCEPT ![r] = NoOrder]
  /\ left' = [left EXCEPT ![r] = 0] /\ got' = [got EXCEPT ![r] = 0]
  /\ overtaken' = overtaken \ {r}

Failing(n) == faults' = faults + n /\ faults' <= MaxFaults

\* _emergency_liquidate: a position that cannot be closed is left to the next run.
Liquidate(r) ==
  /\ \E S \in SUBSET {s \in Symbols : held[s] # 0} :
       /\ Failing(Cardinality(S))
       /\ held' = [s \in Symbols |-> IF s \in S THEN held[s] ELSE 0]
  /\ End(r)
  /\ UNCHANGED <<filled, recorded>>

\* STEPs 3 to 7 under level l as it is now, and not as the run was told.  The
\* allocation, the scores and the sizes decide which signals become orders.
Plan(r, l) ==
  /\ \E S \in SUBSET {g \in Signals : g.strategy \in Allowed[l]} :
       /\ S # {} => filled < MaxFilled
       /\ todo' = [todo EXCEPT ![r] = S]
       /\ step' = [step EXCEPT ![r] = IF S = {} THEN "idle" ELSE "trade"]
  /\ UNCHANGED <<order, left, got, held, filled, recorded, overtaken, faults>>

\* Mutant: only a change of the level is acted on.
AfterNews(r, told, l) ==
  IF told = "EMERGENCY" /\ step[r] = "decide" THEN Liquidate(r) ELSE Plan(r, l)
After(r, told, l) == IF told = "EMERGENCY" THEN Liquidate(r) ELSE Plan(r, l)

Trading == {r \in Runs : step[r] = "trade"}

\* STEP 2.  When the level changes Telegram is awaited, otherwise the run goes on.
Switch(r) ==
  /\ step[r] = "switch"
  /\ \E v \in Values : Update(v)
  /\ UNCHANGED today
  /\ IF level' = level
       THEN After(r, level, level) /\ UNCHANGED view
       ELSE /\ step' = [step EXCEPT ![r] = "decide"]
            /\ view' = [view EXCEPT ![r] = level']
            /\ overtaken' = IF level' = "EMERGENCY" THEN overtaken \cup Trading ELSE overtaken
            /\ UNCHANGED <<todo, order, left, got, held, filled, recorded, faults>>

Decide(r) ==
  /\ step[r] = "decide"
  /\ After(r, view[r], level)
  /\ view' = [view EXCEPT ![r] = "NORMAL"]
  /\ UNCHANGED <<switchVars, today>>

\* STEP 8, VWAPExecutor.execute: small orders go in one piece.
NextOrder(r) ==
  /\ step[r] = "trade" /\ order[r] = NoOrder
  /\ \E g \in todo[r], n \in {1, Slices} :
       /\ order' = [order EXCEPT ![r] = g]
       /\ todo' = [todo EXCEPT ![r] = @ \ {g}]
       /\ left' = [left EXCEPT ![r] = n]
  /\ got' = [got EXCEPT ![r] = 0]
  /\ UNCHANGED <<switchVars, today, step, view, held, filled, recorded, overtaken, faults>>

Signed(g) == IF g.side = "buy" THEN 1 ELSE -1

\* A slice that fails is logged and passed over.
Slice(r) ==
  /\ order[r] # NoOrder /\ left[r] > 0
  /\ left' = [left EXCEPT ![r] = @ - 1]
  /\ \/ /\ held' = [held EXCEPT ![order[r].symbol] = @ + Signed(order[r])]
        /\ filled' = filled + 1
        /\ got' = [got EXCEPT ![r] = @ + 1]
        /\ UNCHANGED faults
     \/ Failing(1) /\ UNCHANGED <<held, filled, got>>
  /\ UNCHANGED <<switchVars, today, step, view, todo, order, recorded, overtaken>>

Put(r) == order' = [order EXCEPT ![r] = NoOrder] /\ got' = [got EXCEPT ![r] = 0]

\* insert_trade, once per order, when a slice of it was filled at all.
Record(r) ==
  /\ order[r] # NoOrder /\ left[r] = 0
  /\ recorded' = recorded + got[r]
  /\ Put(r)
  /\ UNCHANGED <<switchVars, today, step, view, todo, left, held, filled, overtaken, faults>>

Finish(r) ==
  /\ step[r] = "trade" /\ order[r] = NoOrder /\ todo[r] = {}
  /\ End(r)
  /\ UNCHANGED <<switchVars, today, view, held, filled, recorded, faults>>

\* A query or insert raises: the handler logs it and the run is over, and with it
\* the record of an order that was filled.
Fail(r) ==
  /\ step[r] # "idle" /\ left[r] = 0
  /\ Failing(1) /\ End(r)
  /\ view' = [view EXCEPT ![r] = "NORMAL"]
  /\ UNCHANGED <<switchVars, today, held, filled, recorded>>

NextDay ==
  /\ today < MaxDays /\ today' = today + 1
  /\ UNCHANGED <<switchVars, runVars, held, filled, recorded, overtaken, faults>>

\* The object dies with the process; the new one starts from the value of the day.
Restart ==
  /\ (\E v \in Values : Renew(v)) /\ Failing(1)
  /\ step' = [r \in Runs |-> "idle"]
  /\ todo' = [r \in Runs |-> {}]
  /\ order' = [r \in Runs |-> NoOrder]
  /\ left' = [r \in Runs |-> 0] /\ got' = [r \in Runs |-> 0]
  /\ overtaken' = {}
  /\ view' = [r \in Runs |-> "NORMAL"]
  /\ UNCHANGED <<today, held, filled, recorded>>

Step(r) == Switch(r) \/ Decide(r) \/ NextOrder(r) \/ Slice(r) \/ Record(r) \/ Finish(r)
Next == NextDay \/ Restart \/ \E r \in Runs : Begin(r) \/ Step(r) \/ Fail(r)

Spec == Init /\ [][Next]_vars
\* The scheduler starts its run day after day, and the coroutine goes on; one
\* started by hand may hang.
FairSpec == Spec /\ WF_vars(Begin(Scheduled) \/ Step(Scheduled))

(***************************************************************************)
(* Properties.                                                             *)
(***************************************************************************)
Depth == [NORMAL |-> 0, WARNING |-> 1, DEFENSIVE |-> 2, EMERGENCY |-> 3]

\* Outside a cooldown the level is never milder than the drawdown from the peak asks
\* for, however the value went up and down before; in one it is EMERGENCY.
Severe ==
  /\ cooldown # 0 <=> level = "EMERGENCY"
  /\ cooldown = 0 => /\ Down(current, peak, 15) => Depth[level] >= 2
                     /\ Down(current, peak, 10) => Depth[level] >= 1
                     /\ ~Down(current, peak, 20)

\* While the cooldown lasts only a run that had planned its orders before the
\* emergency still trades: no run begun, or decided, after it sends an order.
NoFreshOrders == CoolingDown => Trading \subseteq overtaken

Underway == Sum(got)

\* The trade log holds every slice the broker filled, those of the orders under way
\* aside; a failure can only make it fall short.
FillsRecorded ==
  /\ recorded + Underway <= filled
  /\ faults = 0 => recorded + Underway = filled

\* What every state of the pipeline keeps: the kill switch is as severe as the
\* drawdown asks for, an emergency stops whoever decides after it, and the trade
\* log accounts for the fills (execute_daily, _emergency_liquidate).
PipelineSafe == Severe /\ NoFreshOrders /\ FillsRecorded

\* An emergency empties the account: a position that would not close is closed by a
\* later run, or the emergency is over first.
Emergency == level = "EMERGENCY"
Emptied == \A s \in Symbols : held[s] = 0
Liquidated == Emergency ~> (~Emergency \/ Emptied)

(***************************************************************************)
(* Why it holds: only a run that trades has an order under way, and only   *)
(* such an order has slices that the trade log has not yet.                *)
(***************************************************************************)
PipelineSound ==
  /\ {peak, current, cooldown, filled, recorded} \subseteq Int
  /\ today \in Nat \ {0} /\ faults \in Nat /\ level \in DOMAIN Depth
  /\ step \in [Runs -> {"idle", "switch", "decide", "trade"}]
  /\ DOMAIN order = Runs /\ got \in [Runs -> Nat]
  /\ \A r \in Runs : /\ step[r] # "trade" => order[r] = NoOrder
                     /\ order[r] = NoOrder => got[r] = 0
  /\ PipelineSafe
=============================================================================
