-------------------------- MODULE WatchlistBacktest --------------------------
(***************************************************************************)
(* The day-by-day simulation of the watchlist backtest: exits on a score    *)
(* reversal, a trailing stop or the holding time, then entries by score.    *)
(* A day gives every symbol no bar, or a close and a score.  Slippage is a  *)
(* unit of price; an account is valued at the closes of the day.            *)
(*                                                                          *)
(* The score of a bar is what eleven oscillators and twelve averages say,   *)
(* in five categories, weighed by how strong the trend is and damped by a   *)
(* thin volume (compute_daily_scores).                                      *)
(***************************************************************************)
EXTENDS Integers, Sequences, FiniteSets, Functions, Sums

CONSTANTS
  Symbols,               \* symbols with 250 bars or more
  Closes, Scores,        \* what a bar may say; scores in percent
  Initial, PositionPct, MaxPositions,
  BuyAt, SellAt,         \* thresholds of the score
  TrailPct, MaxHold, Slip,
  Days,                  \* length of the period (the bound of a run)
  Readings,              \* readings of the indicators
  Levels                 \* indicator -> values it is compared with

-----------------------------------------------------------------------------
(* The score of a bar.  A say is 1 to buy, -1 to sell, 0 for neither; scores *)
(* are multiplied by 4000, and the volume ratio is in hundredths.            *)

\* Oscillators that buy low, and those that follow the sign.
Low(x, low, high) == IF x < low THEN 1 ELSE IF x > high THEN -1 ELSE 0
Sign(x) == IF x > 0 THEN 1 ELSE IF x < 0 THEN -1 ELSE 0
\* The trend's side counts only when there is one.
AdxSays(b) == IF b.adx > 25 THEN IF b.above > 0 THEN 1 ELSE -1 ELSE 0

\* Averages below the close against those above: twelve in all.
Trend(b) == (b.averages - 6) + 2 * (AdxSays(b) + Sign(b.middle))
Momentum(b) == Low(b.rsi, 30, 70) + Sign(b.roc) + Low(b.ultimate, 30, 70) + Sign(b.power)
Macd(b) == Sign(b.macd)
Reversion(b) == Low(b.stoch, 20, 80) + Low(b.stochRsi, 20, 80) + Low(b.range, -80, -20) + Low(b.cci, -100, 100)
VolumeOf(b) == IF b.volume >= 200 THEN 2 ELSE IF b.volume >= 150 THEN 1 ELSE IF b.volume >= 100 THEN 0 ELSE -1

\* Weights of trend, momentum, MACD, reversion and volume.
Weights(b) ==
  IF b.adx > 25 THEN <<40, 25, 15, 10, 10>> ELSE IF b.adx < 20 THEN <<15, 20, 20, 30, 15>> ELSE <<30, 25, 20, 15, 10>>
Factor(b) == IF b.volume >= 150 THEN 2 ELSE 1
ScoreOf(b) ==
  LET w == Weights(b)
  IN Factor(b) * (2 * w[1] * Trend(b) + 5 * w[2] * Momentum(b) + 20 * w[3] * Macd(b) + 5 * w[4] * Reversion(b)
                  + 10 * w[5] * VolumeOf(b))

-----------------------------------------------------------------------------
(* The simulation                                                            *)

VARIABLES
  day, step,
  bars,        \* the day's bars
  cash, positions,
  queue,       \* candidates still to be considered, best score first
  pnls,        \* the sum of pnl over trades
  equity       \* the last value of equity_curve

vars == <<day, step, bars, cash, positions, queue, pnls, equity>>

NoBar == [close |-> 0, score |-> 0]
Has(s) == bars[s] # NoBar
Held == DOMAIN positions
Cost(p) == p.entry * p.qty

Init ==
  /\ day = 0 /\ step = "day" /\ bars = [s \in Symbols |-> NoBar]
  /\ cash = Initial /\ positions = [s \in {} |-> NoBar] /\ queue = <<>>
  /\ pnls = 0 /\ equity = Initial

\* all_dates: every symbol may miss a date, one of them has it.
NewDay ==
  /\ step = "day" /\ day < Days /\ day' = day + 1 /\ step' = "exits"
  /\ bars' \in [Symbols -> {NoBar} \cup [close : Closes, score : Scores]]
  /\ \E s \in Symbols : bars'[s] # NoBar
  /\ UNCHANGED <<cash, positions, queue, pnls, equity>>

(***************************************************************************)
(* Exits                                                                    *)
(***************************************************************************)
Raised(p, c) == [p EXCEPT !.high = IF c > @ THEN c ELSE @]

\* The stop: the close has fallen TrailPct from the highest close.
Trailed(p, c) == (p.high - c) * 100 >= TrailPct * p.high

\* The three conditions are one if/elif chain, and the second is entered by
\* every position that has a high water mark: the third is asked only of one
\* that has none.
Reversed(s) == bars[s].score <= SellAt
Closes3(s, p) ==
  \/ Reversed(s)
  \/ ~Reversed(s) /\ p.high > 0 /\ Trailed(p, bars[s].close)
  \/ ~Reversed(s) /\ p.high <= 0 /\ day - p.since >= MaxHold

Marked(s) == IF Has(s) THEN Raised(positions[s], bars[s].close) ELSE positions[s]
Gone == {s \in Held : Has(s) /\ Closes3(s, Marked(s))}
SoldFor(s, price) == (price - Slip) * positions[s].qty
Pnl(s, price) == SoldFor(s, price) - Cost(positions[s])

CheckExits ==
  /\ step = "exits" /\ step' = "entries"
  /\ positions' = [s \in Held \ Gone |-> Marked(s)]
  /\ cash' = cash + Tally([s \in Gone |-> SoldFor(s, bars[s].close)])
  /\ pnls' = pnls + Tally([s \in Gone |-> Pnl(s, bars[s].close)])
  /\ UNCHANGED <<day, bars, queue, equity>>

(***************************************************************************)
(* Entries                                                                  *)
(***************************************************************************)
Candidates == {s \in Symbols \ Held : Has(s) /\ bars[s].score >= BuyAt}
Orders(C) == Injection(1 .. Cardinality(C), C)
Ranked(q) == \A i, j \in DOMAIN q : i < j => bars[q[i]].score >= bars[q[j]].score
FindEntries ==
  /\ step = "entries" /\ step' = "buy"
  /\ queue' \in {q \in Orders(Candidates) : Ranked(q)}
  /\ UNCHANGED <<day, bars, cash, positions, pnls, equity>>

BuyPrice(s) == bars[s].close + Slip
\* The share of the cash left at this moment, in whole units.
Qty(s) == (cash * PositionPct) \div (100 * BuyPrice(s))
Full == Cardinality(Held) >= MaxPositions
Opened(s) == [qty |-> Qty(s), entry |-> BuyPrice(s), since |-> day, high |-> BuyPrice(s)]

Buy ==
  /\ step = "buy" /\ queue # <<>> /\ ~Full /\ queue' = Tail(queue)
  /\ LET s == Head(queue) IN
     IF Qty(s) < 1 \/ Cost(Opened(s)) > cash THEN UNCHANGED <<cash, positions>>
     ELSE /\ cash' = cash - Cost(Opened(s))
          /\ positions' = [x \in Held \cup {s} |-> IF x = s THEN Opened(s) ELSE positions[x]]
  /\ UNCHANGED <<day, step, bars, pnls, equity>>

EndEntries ==
  /\ step = "buy" /\ (queue = <<>> \/ Full) /\ step' = "record" /\ queue' = <<>>
  /\ UNCHANGED <<day, bars, cash, positions, pnls, equity>>

(***************************************************************************)
(* The equity curve and the end of the period                               *)
(***************************************************************************)
PriceOf(s) == IF Has(s) THEN bars[s].close ELSE positions[s].entry
Value(s) == PriceOf(s) * positions[s].qty
RecordEquity ==
  /\ step = "record" /\ step' = IF day = Days THEN "close" ELSE "day"
  /\ equity' = cash + Tally([s \in Held |-> Value(s)])
  /\ UNCHANGED <<day, bars, cash, positions, queue, pnls>>

\* What is left is sold at the last day's closes; final_value stays that of
\* the equity curve.
ForceClose ==
  /\ step = "close" /\ step' = "done"
  /\ cash' = cash + Tally([s \in Held |-> SoldFor(s, PriceOf(s))])
  /\ pnls' = pnls + Tally([s \in Held |-> Pnl(s, PriceOf(s))])
  /\ positions' = [s \in {} |-> NoBar]
  /\ UNCHANGED <<day, bars, queue, equity>>

Next == NewDay \/ CheckExits \/ FindEntries \/ Buy \/ EndEntries \/ RecordEquity \/ ForceClose
Spec == Init /\ [][Next]_vars

(***************************************************************************)
(* Properties                                                               *)
(***************************************************************************)
\* Cash is the capital, the pnl of the trades and less what the open positions
\* cost, at every point of a day, and it never runs out (_simulate).
CashAddsUp == cash = Initial + pnls - Tally([s \in Held |-> Cost(positions[s])]) /\ cash >= 0

\* Of two readings that differ in one indicator, the one that indicator likes better
\* never scores lower, in every regime and at every volume; the oscillators that buy
\* low like a lower reading, the others a higher one.  No score leaves -1 .. 1
\* (compute_daily_scores; asked once, before the first day).
BuysLow == {"rsi", "stoch", "stochRsi", "range", "cci", "ultimate"}
Likes(x, v, w) == IF x \in BuysLow THEN v <= w ELSE v >= w
LikedNoWorse ==
  day = 0 =>
    \A bar \in Readings :
      /\ ScoreOf(bar) \in -4000 .. 4000
      /\ \A x \in DOMAIN Levels : \A v \in Levels[x] :
           Likes(x, v, bar[x]) => ScoreOf([bar EXCEPT ![x] = v]) >= ScoreOf(bar)
=============================================================================
