------------------------------ MODULE ExitLayers ------------------------------
(***************************************************************************)
(* One swing position from its sizing to the layer that sells it:          *)
(* risk/position_manager.py computes the quantity and sets the ATR stop,   *)
(* risk/exit_manager.py's check_exits raises the stop and decides.  The    *)
(* job and the endpoint for exit checks run the same body in threads of    *)
(* their own, each on the row and the price it read when it began, and     *)
(* every write to the row is a commit of its own.                          *)
(*                                                                         *)
(* Multiples of the ATR are in tenths, shares of one in percent.  What is  *)
(* ordered for a sold position is ExitFlow's.                              *)
(***************************************************************************)
EXTENDS Integers, FiniteSets

CONSTANTS
  Checks,     \* threads that may run an exit check
  Accounts, Exposures,     \* account values and open exposures an entry may meet
  Signals,    \* entries: price, stop (0 without one), atr (0 when it cannot be computed), fractional
  Prices,
  Cfg,        \* swing_config
  MaxMoves, MaxDay, MaxChecks   \* bounds of a run

VARIABLES
  row,        \* of swing_positions
  entering,   \* where execute_entry is, and the setup it has computed
  price, regime, hot,    \* the market: price, macro regime, RSI(2) above its threshold
  day,
  pc, seen, cp,          \* a check: where it is, the row, and the price and multiple it works with
                         \* (history: has somebody else written the row since it read it)
  moves, begun

vars == <<row, entering, price, regime, hot, day, pc, seen, cp, moves, begun>>

Greater(a, b) == IF a > b THEN a ELSE b
Lesser(a, b)  == IF a < b THEN a ELSE b
Regimes == {"CRISIS", "RISK_OFF", "NEUTRAL", "RISK_ON"}

\* The columns of the row, and (history) whether its set-up is over.
NoRow == [status |-> "none", entry |-> 0, day |-> 0, stop |-> 0, atr |-> 0, hard_stop |-> 0,
          high |-> 0, trailing |-> FALSE, settled |-> FALSE]
NoLook  == [price |-> 0, mult |-> 0, raced |-> FALSE]
NoSetup == [step |-> "none", atr |-> 0, hard_stop |-> 0]

Init ==
  /\ row = NoRow /\ entering = NoSetup /\ price \in Prices /\ regime = "NEUTRAL" /\ hot = FALSE /\ day = 0
  /\ pc = [t \in Checks |-> "idle"] /\ seen = [t \in Checks |-> NoRow] /\ cp = [t \in Checks |-> NoLook]
  /\ moves = 0 /\ begun = 0

(***************************************************************************)
(* Sizing, in units of a share: a quotient is cut to whole shares, or with *)
(* fractional shares taken to the nearest unit.  max_risk is per mille.    *)
(***************************************************************************)
Quotient(a, b, s) == IF s.fractional THEN (2 * a + b) \div (2 * b) ELSE a \div b

\* MACRO_POSITION_MULTIPLIER
SizePercent == [RISK_ON |-> 100, NEUTRAL |-> 85, RISK_OFF |-> 50, CRISIS |-> 0]

Wanted(account, s, r) ==
  LET base == Quotient(account * Cfg.position_pct * SizePercent[r], 10000 * s.price, s)
  IN IF s.fractional \/ base >= 1 THEN base ELSE IF Cfg.min_one THEN 1 ELSE 0

\* Mutant: the share that is wanted at least escapes the caps.
OneAnyway(ceilings, wanted) == IF wanted = 1 THEN 1 ELSE CHOOSE c \in ceilings \cup {wanted} : \A d \in ceilings \cup {wanted} : c <= d
Capped(ceilings, wanted) == CHOOSE c \in ceilings \cup {wanted} : \A d \in ceilings \cup {wanted} : c <= d

Size(account, exposure, s, r) ==
  LET room == account * Cfg.max_exposure - 100 * exposure
      risk == IF 0 < s.stop /\ s.stop < s.price
                THEN {Quotient(account * Cfg.max_risk, 1000 * (s.price - s.stop), s)} ELSE {}
      notional == {Quotient(account * Cfg.max_position, 100 * s.price, s)}
      total    == {IF room > 0 THEN Quotient(room, 100 * s.price, s) ELSE 0}
  IN Capped(risk \cup notional \cup total, Wanted(account, s, r))

\* Too small: less than a share, or with fractional shares worth less than the minimum.
Refused(n, s) == IF s.fractional THEN n * s.price < Cfg.min_notional ELSE n < 1

\* update_position_stop_loss and its kin touch an open row only; a check under way
\* works on with what it has read.
Write(p) == row' = IF row.status = "open" THEN p ELSE row
Overtake(others) ==
  cp' = [t \in Checks |-> IF t \in others /\ pc[t] # "idle" THEN [cp[t] EXCEPT !.raced = TRUE] ELSE cp[t]]

(***************************************************************************)
(* execute_entry: the row, then its ATR and hard stop, then its stop.      *)
(***************************************************************************)
Open(s) ==
  /\ row.status = "none" /\ regime # "CRISIS"
  /\ \E account \in Accounts, exposure \in Exposures : ~Refused(Size(account, exposure, s, regime), s)
  /\ row' = [NoRow EXCEPT !.status = "open", !.entry = s.price, !.day = day, !.stop = s.stop, !.settled = s.atr = 0]
  /\ entering' = IF s.atr > 0
                   THEN [step |-> "atr", atr |-> s.atr, hard_stop |-> s.price - (Cfg.hard_mult * s.atr) \div 10]
                   ELSE NoSetup
  /\ UNCHANGED <<price, regime, hot, day, pc, seen, cp, moves, begun>>

\* setup_position_atr
StoreAtr ==
  /\ entering.step = "atr"
  /\ Write([row EXCEPT !.atr = entering.atr, !.hard_stop = entering.hard_stop])
  /\ Overtake(Checks)
  /\ entering' = [entering EXCEPT !.step = "stop"]
  /\ UNCHANGED <<price, regime, hot, day, pc, seen, moves, begun>>

StoreStop ==
  /\ entering.step = "stop"
  /\ Write([row EXCEPT !.stop = entering.hard_stop, !.settled = TRUE])
  /\ Overtake(Checks)
  /\ entering' = NoSetup
  /\ UNCHANGED <<price, regime, hot, day, pc, seen, moves, begun>>

(***************************************************************************)
(* The layers, for the row p a check has read and its price c.             *)
(***************************************************************************)
Reached(p, c, r) == 10 * (c - p.entry) >= r * p.atr

HardStop(p) ==
  IF p.hard_stop # 0 THEN p.hard_stop
  ELSE IF p.atr > 0 THEN p.entry - (Cfg.hard_mult * p.atr) \div 10
  ELSE (p.entry * 95) \div 100
Overbought(p, c) ==
  /\ hot
  /\ IF p.atr > 0 THEN Reached(p, c, Cfg.rsi2_min_r) ELSE 100 * (c - p.entry) >= Cfg.rsi2_min_gain * p.entry
  /\ day - p.day >= Cfg.rsi2_min_hold_days
TimeUp(p) == day - p.day >= Cfg.time_stop_days
\* L2, L4, L3
Condemned(p, c) == c <= HardStop(p) \/ Overbought(p, c) \/ TimeUp(p)

\* L5: nearer in a crisis, further while risk is on.
RegimeMult ==
  CASE regime \in {"CRISIS", "RISK_OFF"} -> Cfg.low_vol [] regime = "RISK_ON" -> Cfg.high_vol
    [] regime = "NEUTRAL" -> Cfg.trail_mult
StopOf(p) == IF p.stop # 0 THEN p.stop ELSE HardStop(p)
Even(p)   == (p.entry * (1000 + Cfg.be_buffer)) \div 1000
BreaksEven(p, c) == Cfg.breakeven /\ Reached(p, c, Cfg.be_trigger) /\ Even(p) > StopOf(p)
Trail(p, m) == p.high - (m * p.atr) \div 10
Stopped(p, c, m) ==
  \/ p.atr > 0 /\ p.trailing /\ c <= Greater(Trail(p, m), StopOf(p))
  \/ c <= IF p.stop # 0 THEN p.stop ELSE (p.entry * (100 - Cfg.stop_loss)) \div 100
  \/ 100 * (c - p.entry) >= Cfg.take_profit * p.entry

(***************************************************************************)
(* A check.  It reads the row, the price and the regime, and raises what   *)
(* it can in its own copy and in the table: the high-water mark, the       *)
(* trailing flag, the stop to breakeven, the stop to the trail; then it    *)
(* decides.                                                                *)
(***************************************************************************)
Goto(t, l) == pc' = [pc EXCEPT ![t] = l]
Copy(t, p) == seen' = [seen EXCEPT ![t] = p]
Market == <<price, regime, hot, day, moves>>
Quiet == UNCHANGED <<entering, Market, begun>>
Keep == UNCHANGED <<row, seen, cp>>
\* A check writes columns, and the same to its copy.
Raise(t, p, q) == Write(p) /\ Copy(t, q) /\ Overtake(Checks \ {t})

Begin(t) ==
  /\ pc[t] = "idle" /\ begun < MaxChecks /\ row.status = "open"
  /\ begun' = begun + 1
  /\ Copy(t, [row EXCEPT !.high = IF @ = 0 THEN row.entry ELSE @])
  /\ cp' = [cp EXCEPT ![t] = [price |-> price, mult |-> RegimeMult, raced |-> FALSE]]
  /\ Goto(t, "layers")
  /\ UNCHANGED <<row, entering, Market>>

\* L2, L4 and L3 come first; without an ATR there is no L1.
Layers(t) ==
  /\ pc[t] = "layers"
  /\ Goto(t, IF Condemned(seen[t], cp[t].price) THEN "sell" ELSE IF seen[t].atr > 0 THEN "high" ELSE "decide")
  /\ Keep /\ Quiet

\* Mutant: raised in the table only.
ForgetHigh(t) ==
  /\ pc[t] = "high"
  /\ IF cp[t].price > seen[t].high THEN Raise(t, [row EXCEPT !.high = cp[t].price], seen[t]) ELSE Keep
  /\ Goto(t, "activate") /\ Quiet
RaiseHigh(t) ==
  /\ pc[t] = "high"
  /\ IF cp[t].price > seen[t].high
       THEN Raise(t, [row EXCEPT !.high = cp[t].price], [seen[t] EXCEPT !.high = cp[t].price]) ELSE Keep
  /\ Goto(t, "activate") /\ Quiet

Activate(t) ==
  /\ pc[t] = "activate"
  /\ IF ~seen[t].trailing /\ Reached(seen[t], cp[t].price, Cfg.activation)
       THEN Raise(t, [row EXCEPT !.trailing = TRUE], [seen[t] EXCEPT !.trailing = TRUE]) ELSE Keep
  /\ Goto(t, "even") /\ Quiet

BreakEven(t) ==
  /\ pc[t] = "even"
  /\ IF BreaksEven(seen[t], cp[t].price)
       THEN Raise(t, [row EXCEPT !.stop = Even(seen[t])], [seen[t] EXCEPT !.stop = Even(seen[t])]) ELSE Keep
  /\ Goto(t, "trail") /\ Quiet

\* The stop is raised to the trail, never lowered: in the table, not in the copy.
RaiseTrail(t) ==
  /\ pc[t] = "trail"
  /\ IF seen[t].trailing /\ Trail(seen[t], cp[t].mult) > StopOf(seen[t])
       THEN Raise(t, [row EXCEPT !.stop = Trail(seen[t], cp[t].mult)], seen[t]) ELSE Keep
  /\ Goto(t, "decide") /\ Quiet

\* What a check has read is forgotten at its end.
Forget(t) ==
  /\ Goto(t, "idle") /\ Copy(t, NoRow) /\ cp' = [cp EXCEPT ![t] = NoLook]
  /\ UNCHANGED <<entering, Market, begun>>

Decide(t) ==
  /\ pc[t] = "decide" /\ UNCHANGED row
  /\ IF Stopped(seen[t], cp[t].price, cp[t].mult) THEN Goto(t, "sell") /\ UNCHANGED <<seen, cp>> /\ Quiet ELSE Forget(t)

Sell(t) ==
  /\ pc[t] = "sell"
  /\ Write([row EXCEPT !.status = "closed"]) /\ Forget(t)

Check(t) ==
  \/ Begin(t) \/ Layers(t) \/ RaiseHigh(t) \/ Activate(t) \/ BreakEven(t) \/ RaiseTrail(t) \/ Decide(t) \/ Sell(t)

\* The service stops in the middle of everything and starts again.
Restart ==
  /\ \E t \in Checks : pc[t] # "idle"
  /\ pc' = [t \in Checks |-> "idle"] /\ seen' = [t \in Checks |-> NoRow] /\ cp' = [t \in Checks |-> NoLook]
  /\ entering' = NoSetup
  /\ UNCHANGED <<row, Market, begun>>

Move ==
  /\ moves < MaxMoves /\ row.status = "open" /\ moves' = moves + 1
  /\ price' \in Prices /\ regime' \in Regimes /\ hot' \in BOOLEAN
  /\ UNCHANGED <<row, entering, day, pc, seen, cp, begun>>

NextDay ==
  /\ day < MaxDay /\ row.status = "open" /\ day' = day + 1
  /\ UNCHANGED <<row, entering, price, regime, hot, moves, pc, seen, cp, begun>>

Next ==
  \/ \E s \in Signals : Open(s)
  \/ StoreAtr \/ StoreStop \/ Restart \/ Move \/ NextDay
  \/ \E t \in Checks : Check(t)

Spec == Init /\ [][Next]_vars

(***************************************************************************)
(* Properties.                                                             *)
(***************************************************************************)
\* exit_manager.py:289, "the stop is only raised".  The checks overlap, each on the row
\* it has read.  A check nobody has overtaken never lowers the stop or the high-water
\* mark; one that was (a write of another check, or of the entry, came since it read the
\* row) lowers them to no less than it had read; the trailing flag never goes back.
\* A check that leaves the position open saw a price above the hard stop of a position
\* that was set up, whatever the others wrote meanwhile; and if nobody overtook it, above
\* the stop it leaves, which covers the high-water mark by the regime's multiple of
\* the ATR once the trail is on.
Floor(t, mine, here) == IF cp[t].raced THEN Lesser(mine, here) ELSE here
StopObeyedStep ==
  \A t \in Checks : pc[t] # "idle" /\ pc'[t] # pc[t] =>
    /\ row'.stop >= Floor(t, seen[t].stop, row.stop)
    /\ row'.high >= Floor(t, seen[t].high, row.high)
    /\ row.trailing => row'.trailing
    /\ Decide(t) /\ pc'[t] = "idle" /\ row.status = "open" =>
         /\ seen[t].settled => cp[t].price > HardStop(row)
         /\ ~cp[t].raced => /\ cp[t].price > StopOf(row)
                            /\ row.trailing => StopOf(row) >= Trail(row, cp[t].mult)
StopObeyed == [][StopObeyedStep]_vars

\* What is bought is within every cap the account allows, the one share that
\* is always wanted too: the risk down to the signal's stop, the notional of
\* the symbol and the total exposure; with fractional shares up to the
\* rounding of one unit.
SizedWithinCaps ==
  row.status = "none" =>
    \A account \in Accounts, exposure \in Exposures, s \in Signals, r \in Regimes :
      LET n == Size(account, exposure, s, r)
          AtMost(amount, per, limit) == 2 * amount <= 2 * limit + IF s.fractional THEN per ELSE 0
      IN ~Refused(n, s) =>
           /\ s.stop \in 1 .. s.price - 1 =>
                AtMost(1000 * n * (s.price - s.stop), 1000 * (s.price - s.stop), account * Cfg.max_risk)
           /\ AtMost(100 * n * s.price, 100 * s.price, account * Cfg.max_position)
           /\ AtMost(100 * (exposure + n * s.price), 100 * s.price, account * Cfg.max_exposure)

(***************************************************************************)
(* Why: what a check works on is the row, until somebody overtakes it, and *)
(* even then the ATR and the hard stop are those of the row once they are  *)
(* there, since nothing writes them twice.                                 *)
(***************************************************************************)
AnyRow ==
  [status : {"none", "open", "closed"}, entry : Nat, day : Nat, stop : Nat, atr : Nat,
   hard_stop : Nat, high : Nat, trailing : BOOLEAN, settled : BOOLEAN]
SoundRow(p) ==
  /\ p \in AnyRow
  /\ p.atr > 0 => p.hard_stop \in 1 .. p.entry
  /\ p.atr = 0 => ~p.trailing
SetupSound ==
  /\ entering \in [step : {"none", "atr", "stop"}, atr : Nat, hard_stop : Nat]
  /\ row.status = "none" \/ row.settled => entering.step = "none"
  /\ entering.step # "none" => entering.atr > 0 /\ entering.hard_stop \in 1 .. row.entry
  /\ entering.step = "atr" => row.atr = 0
\* The stop of the row p is that of the copy q, or the trail found from it.
Written(l, p, q, m) ==
  \/ p.stop = q.stop /\ (l = "decide" /\ q.trailing => Trail(q, m) <= StopOf(q))
  \/ l \in {"decide", "sell"} /\ q.trailing /\ p.stop = Trail(q, m) /\ Trail(q, m) > StopOf(q)
CopySound(t) ==
  LET q == seen[t] c == cp[t].price m == cp[t].mult
  IN /\ SoundRow(q) /\ q.entry = row.entry /\ row.status # "none"
     /\ cp[t] \in [price : Nat, mult : Nat, raced : BOOLEAN]
     /\ q.settled => row.settled
     /\ q.atr > 0 \/ q.settled => q.atr = row.atr /\ q.hard_stop = row.hard_stop
     /\ pc[t] \in {"high", "activate", "even", "trail"} => q.atr > 0
     /\ pc[t] \in {"high", "activate", "even", "trail", "decide"} => c > HardStop(q)
     /\ ~cp[t].raced /\ row.status = "open" =>
          /\ q.atr = row.atr /\ q.hard_stop = row.hard_stop /\ q.trailing = row.trailing
          /\ row.high <= q.high
          /\ Written(pc[t], row, q, m)
LayersSound ==
  /\ SoundRow(row) /\ SetupSound
  /\ DOMAIN pc = Checks /\ DOMAIN seen = Checks /\ DOMAIN cp = Checks
  /\ day \in Nat /\ price \in Prices /\ regime \in Regimes
  /\ \A t \in Checks : pc[t] # "idle" => CopySound(t)
===============================================================================
