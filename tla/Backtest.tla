------------------------------- MODULE Backtest -------------------------------
(***************************************************************************)
(* The backtest runner (backtest/runner.py): one simulated account that,   *)
(* day by day, sells what an exit layer condemns, buys the day's           *)
(* candidates and is marked to market.  The harness judges variants by it. *)
(*                                                                         *)
(* A bar is what a symbol's table says of one day: the close, the ATR, the *)
(* 20-day return, and whether RSI(2) is above its threshold, the trend     *)
(* holds and the other entry conditions are met (of Spy: trend is "above   *)
(* its market average").  Tables are external data: any bar on any day,    *)
(* or none.  Amounts are whole; multipliers are in tenths, shares of one   *)
(* in percent; the fee of a fill is 1/FeeDen of it, slippage included.     *)
(***************************************************************************)
EXTENDS Integers, Sequences, FiniteSets, Functions, Sums

CONSTANTS
  Syms,     \* the keys of `indicators` as numbers, in the order of the dict
  Spy,      \* the benchmark, in Syms or not
  Bars,     \* what one day can bring
  Initial,  \* initial_capital
  FeeDen,
  Params,   \* the BacktestParams to try
  MaxDay    \* bound of a run: days simulated

VARIABLES
  params, day, phase,
  bar,      \* today's bars, by symbol
  queue,    \* candidates still to be looked at, and entries_today
  today,
  cash,
  held,     \* positions, by symbol
  log,      \* sums over trades_log: pnl, fee, fee_rt
  value,    \* the last total_value
  close     \* (history) the last close of each symbol

vars == <<params, day, phase, bar, queue, today, cash, held, log, value, close>>

Nothing == [s \in {} |-> 0]
Greater(a, b) == IF a > b THEN a ELSE b
Fee(amount) == amount \div FeeDen
Update(f, g) == [s \in DOMAIN f \cup DOMAIN g |-> IF s \in DOMAIN g THEN g[s] ELSE f[s]]

Init ==
  /\ params \in Params
  /\ day = 0 /\ phase = "night" /\ bar = Nothing /\ queue = <<>> /\ today = 0
  /\ cash = Initial /\ held = Nothing /\ value = Initial /\ close = Nothing
  /\ log = [pnl |-> 0, fee |-> 0, fee_rt |-> 0]

\* all_dates: a date on which some symbol has a bar.
StartDay ==
  /\ phase = "night" /\ day < MaxDay
  /\ \E Quoted \in SUBSET Syms \ {{}} : bar' \in [Quoted -> Bars]
  /\ day' = day + 1 /\ phase' = "exits"
  /\ close' = Update(close, [s \in DOMAIN bar' |-> bar'[s].close])
  /\ UNCHANGED <<params, queue, today, cash, held, log, value>>

(***************************************************************************)
(* Exits.  p is a position, b the bar of its symbol.                       *)
(***************************************************************************)
Gain(p, b) == b.close - p.entry
Reached(p, b, r) == 10 * Gain(p, b) >= r * p.atr
Days(p) == day - p.day

HardStopHit(p, b) ==
  /\ params.use_hard_stop
  /\ b.close <= IF p.atr > 0 THEN p.entry - (params.atr_hard_stop_mult * p.atr) \div 10
                             ELSE (p.entry * 95) \div 100
Overbought(p, b) ==
  /\ params.use_rsi2_exit /\ b.hot
  /\ IF p.atr > 0 THEN Reached(p, b, params.rsi2_exit_min_r) ELSE 100 * Gain(p, b) >= 3 * p.entry
  /\ Days(p) >= params.rsi2_exit_min_hold_days
TimeUp(p) == params.use_time_stop /\ Days(p) >= params.time_stop_days
StopLossHit(p, b) == 100 * Gain(p, b) <= -params.stop_loss_pct * p.entry

\* L2, L4 and L3, in this order.
Condemned(p, b) == HardStopHit(p, b) \/ Overbought(p, b) \/ TimeUp(p)

PartToSell(p, b) ==
  LET risk == IF p.atr > 0 THEN params.atr_hard_stop_mult * p.atr
                           ELSE (10 * params.stop_loss_pct * p.entry) \div 100
      due == /\ params.partial_exit_r > 0 /\ ~p.partial_done /\ risk > 0
             /\ 100 * Gain(p, b) >= params.partial_exit_r * risk
  IN IF due THEN (p.qty * params.partial_exit_pct) \div 100 ELSE 0

\* What remains after n of it are sold; the entry fee goes with the shares.
Less(p, n) ==
  [p EXCEPT !.qty = @ - n, !.entry_fee = @ - (@ * n) \div p.qty, !.partial_done = @ \/ n > 0]

\* Breakeven and trailing raise the stop and never lower it.
Ratchet(p, b) ==
  LET trailing == p.trailing \/ Reached(p, b, params.atr_activation_r)
      even == IF params.use_breakeven /\ Reached(p, b, params.breakeven_trigger_r)
                THEN Greater(p.stop, (p.entry * (1000 + params.breakeven_buffer)) \div 1000)
                ELSE p.stop
      trail == p.high - (params.atr_trailing_mult * p.atr) \div 10
  IN IF p.atr = 0 THEN p
     ELSE [p EXCEPT !.trailing = trailing, !.stop = IF trailing THEN Greater(even, trail) ELSE even]

Sold(p, b) ==
  IF params.use_atr_trailing
    THEN (p.atr > 0 /\ p.trailing /\ b.close <= p.stop) \/ StopLossHit(p, b) \/ ~b.trend
    ELSE \/ StopLossHit(p, b)
         \/ 100 * Gain(p, b) >= params.take_profit_pct * p.entry
         \/ ~b.trend

\* The position after its check, what is sold in part and what is sold in the end.
Check(p, b) ==
  LET q == [p EXCEPT !.high = Greater(@, b.close)]
      trails == params.use_atr_trailing /\ ~Condemned(q, b)
      n == IF trails THEN PartToSell(q, b) ELSE 0
      r == IF trails THEN Ratchet(Less(q, n), b) ELSE q
  IN [after |-> r, part |-> n, rest |-> IF Condemned(q, b) \/ Sold(r, b) THEN r.qty ELSE 0]

InPlay == DOMAIN held \cap DOMAIN bar
Checked(s) == Check(held[s], bar[s])
QtySold(s) == Checked(s).part + Checked(s).rest
Kept == {s \in DOMAIN held : s \in InPlay => Checked(s).rest = 0}
Proceeds(s) == QtySold(s) * bar[s].close
ExitFee(s)  == Fee(Checked(s).part * bar[s].close) + Fee(Checked(s).rest * bar[s].close)
\* The entry fee that leaves with what is sold.
EntryFee(s) == held[s].entry_fee - (IF Checked(s).rest > 0 THEN 0 ELSE Checked(s).after.entry_fee)
Pnl(s) == QtySold(s) * Gain(held[s], bar[s]) - EntryFee(s) - ExitFee(s)
RoundTrip(s) == IF QtySold(s) > 0 THEN EntryFee(s) + ExitFee(s) ELSE 0

Exits ==
  /\ phase = "exits" /\ phase' = "entries"
  /\ cash' = cash + Tally([s \in InPlay |-> Proceeds(s) - ExitFee(s)])
  /\ log' = [pnl    |-> log.pnl + Tally([s \in InPlay |-> Pnl(s)]),
             fee    |-> log.fee + Tally([s \in InPlay |-> ExitFee(s)]),
             fee_rt |-> log.fee_rt + Tally([s \in InPlay |-> RoundTrip(s)])]
  /\ held' = [s \in Kept |-> IF s \in InPlay THEN Checked(s).after ELSE held[s]]
  /\ UNCHANGED <<params, day, bar, queue, today, value, close>>

(***************************************************************************)
(* Entries.                                                                *)
(***************************************************************************)
MarketOk == params.use_market_filter /\ Spy \in DOMAIN bar => bar[Spy].trend
\* sorted_rets.index: how many returned less; a rank is a share of n - 1.
Rank(s) == Cardinality({t \in DOMAIN bar : bar[t].ret < bar[s].ret})
Candidates ==
  {s \in DOMAIN bar \ DOMAIN held :
     /\ ~(s = Spy /\ params.use_market_filter)
     /\ 100 * Rank(s) >= params.return_rank_min * Greater(Cardinality(DOMAIN bar) - 1, 1)
     /\ bar[s].trend /\ bar[s].ready}
Orders(C) == Injection(1 .. Cardinality(C), C)
Before(s, t) == Rank(s) > Rank(t) \/ (Rank(s) = Rank(t) /\ s < t)
Ranked(q) == \A i, j \in DOMAIN q : i < j => Before(q[i], q[j])

RankDay ==
  /\ phase = "entries" /\ phase' = "buying"
  /\ IF MarketOk /\ Cardinality(DOMAIN held) < params.max_positions
       THEN queue' \in {q \in Orders(Candidates) : Ranked(q)}
       ELSE queue' = <<>>
  /\ today' = 0
  /\ UNCHANGED <<params, day, bar, cash, held, log, value, close>>

\* The ATR of a purchase is read from df, which the loops before have left
\* at the table of the last symbol.
LastSym == CHOOSE s \in Syms : \A t \in Syms : t <= s
AtrRead == bar[LastSym].atr

\* Today's bars only: a position without one counts for nothing.
Worth == cash + Tally([s \in InPlay |-> held[s].qty * bar[s].close])

\* target_amount / close, as a whole number of shares: with volatility
\* targeting scaled by target_atr_pct / (atr / close), between its bounds.
Wanted(s) ==
  LET amount == Worth * params.position_pct
      c == bar[s].close
      Scaled(percent) == (amount * percent) \div (10000 * c)
  IN IF ~params.use_vol_targeting \/ AtrRead = 0 THEN amount \div (100 * c)
     ELSE IF params.target_atr_pct * c >= params.vol_mult_max * AtrRead THEN Scaled(params.vol_mult_max)
     ELSE IF params.target_atr_pct * c <= params.vol_mult_min * AtrRead THEN Scaled(params.vol_mult_min)
     ELSE (amount * params.target_atr_pct) \div (10000 * AtrRead)

\* No more than the cash pays for, fee included.
Shares(s) ==
  IF Wanted(s) * bar[s].close + Fee(Wanted(s) * bar[s].close) > cash
    THEN (cash * FeeDen) \div (bar[s].close * (FeeDen + 1))
    ELSE Wanted(s)

Bought(s, n) ==
  LET c == bar[s].close
      stop == IF params.use_hard_stop /\ AtrRead > 0
                THEN c - (params.atr_hard_stop_mult * AtrRead) \div 10
                ELSE (c * (100 - params.stop_loss_pct)) \div 100
  IN [qty |-> n, entry |-> c, day |-> day, entry_fee |-> Fee(n * c), atr |-> AtrRead, stop |-> stop,
      high |-> c, trailing |-> FALSE, partial_done |-> FALSE, last_price |-> c]

Buying ==
  /\ phase = "buying" /\ queue # <<>>
  /\ Cardinality(DOMAIN held) < params.max_positions /\ today < params.max_daily_entries

Enter ==
  /\ Buying /\ LastSym \in DOMAIN bar
  /\ LET s == Head(queue)
         n == Shares(s)
         cost == n * bar[s].close
     IN /\ n > 0
        /\ cash' = cash - cost - Fee(cost)
        /\ log' = [log EXCEPT !.fee = @ + Fee(cost)]
        /\ held' = Update(held, [t \in {s} |-> Bought(s, n)])
  /\ queue' = Tail(queue) /\ today' = today + 1
  /\ UNCHANGED <<params, day, phase, bar, value, close>>

\* Too dear for what is left.
PassOver ==
  /\ Buying /\ (params.use_vol_targeting => LastSym \in DOMAIN bar)
  /\ Shares(Head(queue)) <= 0
  /\ queue' = Tail(queue)
  /\ UNCHANGED <<params, day, phase, bar, today, cash, held, log, value, close>>

\* df.loc[day] of a table without that day raises, and the backtest ends.
Abort ==
  /\ Buying /\ LastSym \notin DOMAIN bar
  /\ ~params.use_vol_targeting => Shares(Head(queue)) > 0
  /\ phase' = "aborted"
  /\ UNCHANGED <<params, day, bar, queue, today, cash, held, log, value, close>>

\* Mutant: a position without a bar that day is worth nothing that day.
Unquoted(s) == IF s \in DOMAIN bar THEN bar[s].close ELSE 0
PriceOf(s) == IF s \in DOMAIN bar THEN bar[s].close ELSE held[s].last_price

\* The end of the day; bars are forgotten.
Mark ==
  /\ phase = "buying" /\ ~Buying
  /\ value' = cash + Tally([s \in DOMAIN held |-> held[s].qty * PriceOf(s)])
  /\ held' = [s \in DOMAIN held |-> [held[s] EXCEPT !.last_price = PriceOf(s)]]
  /\ phase' = "night" /\ bar' = Nothing /\ queue' = <<>> /\ today' = 0
  /\ UNCHANGED <<params, day, cash, log, close>>

\* The dates are used up.
Done == (phase = "aborted" \/ (phase = "night" /\ day = MaxDay)) /\ UNCHANGED vars

Next == StartDay \/ Exits \/ RankDay \/ Enter \/ PassOver \/ Abort \/ Mark \/ Done

Spec == Init /\ [][Next]_vars

(***************************************************************************)
(* Properties.                                                             *)
(***************************************************************************)
\* At the end of a day the account is worth what was put in, plus what the
\* SELL rows of the log earned net of their round trip, plus what the held
\* shares would earn at the last close seen, less their entry fees: neither a
\* partial exit nor a day without a quote gains or loses anything.  The fees
\* of all rows are those of closed round trips plus the open entry fees, and
\* no sequence of sizings, caps and fees spends cash the account has not.
Open(s) == held[s].qty * (close[s] - held[s].entry) - held[s].entry_fee
BooksBalance ==
  /\ cash >= 0
  /\ phase = "night" =>
       /\ value = Initial + log.pnl + Tally([s \in DOMAIN held |-> Open(s)])
       /\ log.fee = log.fee_rt + Tally([s \in DOMAIN held |-> held[s].entry_fee])
===============================================================================
