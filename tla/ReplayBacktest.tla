---------------------------- MODULE ReplayBacktest ----------------------------
(***************************************************************************)
(* The replay of the watchlist's signal log (_run_replay_backtest of       *)
(* engine_v4/api/main.py): day by day positions are left, candidates are   *)
(* bought best score first under the live caps on size, and what is left   *)
(* is sold after the last day.  Whole shares; prices in thousands so that  *)
(* the slippage of 0.1% is exact.                                          *)
(***************************************************************************)
EXTENDS Integers, FiniteSets, Sums

CONSTANTS
  Symbols, Signals,       \* what the log may hold of a symbol and a day
  Initial, PositionPct, MaxPositions, TrailPct, MaxHold, \* of the request
  RiskMille, PosPct, TotalPct, MinOne,                   \* of the live caps
  Days

VARIABLES
  day, phase,
  today,                  \* symbol -> its signal of the day
  cash, held,             \* held: symbol -> [entry, qty, since, high, last]
  queue,                  \* candidates still to be looked at
  equity, exposure,       \* value and notional that the caps of the day use
  gains                   \* sum of the pnl of the sales

vars == <<day, phase, today, cash, held, queue, equity, exposure, gains>>

Min(S) == CHOOSE x \in S : \A y \in S : x <= y
Slip(p) == p \div 1000
SellPrice(p) == p - Slip(p)
BuyPrice(p) == p + Slip(p)

-----------------------------------------------------------------------------
(* Exits                                                                     *)

PriceOf(s) == IF s \in DOMAIN today THEN today[s].price ELSE held[s].last
HighOf(s) == IF PriceOf(s) > held[s].high THEN PriceOf(s) ELSE held[s].high
Reversed(s) == s \in DOMAIN today /\ today[s].direction \in {"SELL", "STRONG_SELL", "NEUTRAL"}
Trailed(s) == 100 * (HighOf(s) - PriceOf(s)) >= TrailPct * HighOf(s)
Leaves(s) == Reversed(s) \/ Trailed(s) \/ day - held[s].since >= MaxHold
Pnl(s, p) == (SellPrice(p) - held[s].entry) * held[s].qty
Proceeds(s, p) == SellPrice(p) * held[s].qty

Gone == {s \in DOMAIN held : Leaves(s)}
Marked(s) == [held[s] EXCEPT !.last = PriceOf(s), !.high = HighOf(s)]

\* The signals of the day, the exits, and what the entries start from.
Exits ==
  /\ phase = "day" /\ phase' = "enter"
  /\ held' = [s \in DOMAIN held \ Gone |-> Marked(s)]
  /\ cash' = cash + Tally([s \in Gone |-> Proceeds(s, PriceOf(s))])
  /\ gains' = gains + Tally([s \in Gone |-> Pnl(s, PriceOf(s))])
  /\ queue' = {s \in DOMAIN today \ DOMAIN held' : today[s].direction \in {"BUY", "STRONG_BUY"}}
  /\ equity' = cash' + Tally([s \in DOMAIN held' |-> held'[s].last * held'[s].qty])
  /\ exposure' = Tally([s \in DOMAIN held' |-> held'[s].entry * held'[s].qty])
  /\ UNCHANGED <<day, today>>

-----------------------------------------------------------------------------
(* Entries                                                                   *)

Base(price) == (cash * PositionPct) \div (100 * price)
\* concentration_capped_qty
Desired(base) == IF base >= 1 THEN base ELSE IF MinOne THEN 1 ELSE 0
Ceilings(price, stop) ==
  {(equity * PosPct) \div (100 * price)}
  \cup {IF equity * TotalPct > 100 * exposure THEN (equity * TotalPct - 100 * exposure) \div (100 * price) ELSE 0}
  \cup (IF 0 < stop /\ stop < price THEN {(equity * RiskMille) \div (1000 * (price - stop))} ELSE {})
Qty(price, stop) == Min({Desired(Base(price))} \cup Ceilings(price, stop))

Best(s) == s \in queue /\ \A t \in queue : today[t].score <= today[s].score
\* No purchase of a position meant to be worth less than ten.
LeastAllocation == 10000
Affordable(s) ==
  LET p == BuyPrice(today[s].price) q == Qty(p, today[s].stop)
  IN cash * PositionPct >= 100 * LeastAllocation /\ q >= 1 /\ p * q <= cash
Buy(s) ==
  /\ phase = "enter" /\ Best(s) /\ Cardinality(DOMAIN held) < MaxPositions /\ Affordable(s)
  /\ LET p == BuyPrice(today[s].price) q == Qty(p, today[s].stop)
     IN /\ cash' = cash - p * q
        /\ exposure' = exposure + p * q
        /\ held' = [t \in DOMAIN held \cup {s} |->
                     IF t = s THEN [entry |-> p, qty |-> q, since |-> day, high |-> p, last |-> today[s].price]
                     ELSE held[t]]
  /\ queue' = queue \ {s}
  /\ UNCHANGED <<day, phase, today, equity, gains>>
PassOver(s) ==
  /\ phase = "enter" /\ Best(s) /\ Cardinality(DOMAIN held) < MaxPositions /\ ~Affordable(s)
  /\ queue' = queue \ {s}
  /\ UNCHANGED <<day, phase, today, cash, held, equity, exposure, gains>>
EndDay ==
  /\ phase = "enter"
  /\ queue = {} \/ Cardinality(DOMAIN held) >= MaxPositions
  /\ queue' = {} /\ equity' = 0 /\ exposure' = 0
  /\ \/ day < Days /\ phase' = "day" /\ day' = day + 1 /\ \E S \in SUBSET Symbols : today' \in [S -> Signals]
     \/ day = Days /\ phase' = "close" /\ day' = day /\ today' = <<>>
  /\ UNCHANGED <<cash, held, gains>>

ForceClose ==
  /\ phase = "close" /\ phase' = "done"
  /\ cash' = cash + Tally([s \in DOMAIN held |-> Proceeds(s, held[s].last)])
  /\ gains' = gains + Tally([s \in DOMAIN held |-> Pnl(s, held[s].last)])
  /\ held' = <<>> /\ today' = <<>>
  /\ UNCHANGED <<day, queue, equity, exposure>>

Init ==
  /\ day = 1 /\ phase = "day"
  /\ \E S \in SUBSET Symbols : today \in [S -> Signals]
  /\ cash = Initial /\ held = <<>> /\ queue = {} /\ equity = 0 /\ exposure = 0 /\ gains = 0
Next == Exits \/ EndDay \/ ForceClose \/ \E s \in Symbols : Buy(s) \/ PassOver(s)
Spec == Init /\ [][Next]_vars

(***************************************************************************)
(* Properties.                                                             *)
(***************************************************************************)
Cost == Tally([s \in DOMAIN held |-> held[s].entry * held[s].qty])
\* Cash is the capital, the pnl of the sales less what is held, and never runs out;
\* and a day that bought leaves no more invested than the live cap on exposure.
ReplayAddsUp ==
  /\ cash >= 0 /\ cash = Initial + gains - Cost
  /\ phase = "enter" /\ (\E s \in DOMAIN held : held[s].since = day) => 100 * Cost <= TotalPct * equity
=============================================================================
