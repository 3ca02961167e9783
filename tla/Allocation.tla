----------------------------- MODULE Allocation -----------------------------
(***************************************************************************)
(* STEPs 3 to 7 of the previous engine's daily pipeline, as functions:     *)
(* how a regime is turned into weights (risk/regime_allocator.py), a       *)
(* spread into the strength of a pair (strategies/pairs_trading.py), the   *)
(* market's volatility into a scale (strategies/vol_targeting.py), and all *)
(* of it with an ATR into the shares of one order (risk/position_sizer.py  *)
(* and engine/api/main.py).  Weights and strengths are in thousandths,     *)
(* probabilities in tenths, volatilities and scales in hundredths.         *)
(***************************************************************************)
EXTENDS Integers, FiniteSetsExt

CONSTANTS
  PV,           \* the portfolio's value
  Probs, Vols, Prices, Atrs, Strengths, Zs, Sentiments, WinRates, \* inputs to try
  Exposures     \* exposure limits of the kill switch, in percent

VARIABLE input  \* the inputs of one order

Regimes == {"bull", "sideways", "bear"}
Stocks == {"lowvol_quality", "vol_momentum", "pairs_trading", "vol_targeting", "sentiment"}

Weight(l, m, p, v, s) ==
  [lowvol_quality |-> l, vol_momentum |-> m, pairs_trading |-> p, vol_targeting |-> v,
   sentiment |-> s, cash |-> 1000 - l - m - p - v - s]
Matrix == [bull     |-> Weight(250, 300, 100, 200, 100),
           sideways |-> Weight(300, 150, 250, 150, 100),
           bear     |-> Weight(350, 50, 200, 100, 50)]

Least(a, b) == IF a < b THEN a ELSE b
Most(a, b) == IF a > b THEN a ELSE b
Abs(x) == IF x < 0 THEN -x ELSE x

\* Probabilities add up to one, so the normalisation changes nothing.
Blended(p) ==
  [k \in Stocks \cup {"cash"} |->
     (p.bull * Matrix.bull[k] + p.sideways * Matrix.sideways[k] + p.bear * Matrix.bear[k]) \div 10]

Invested(a) ==
  a.lowvol_quality + a.vol_momentum + a.pairs_trading + a.vol_targeting + a.sentiment

\* Mutant: the cash of the matrix is kept.
LimitedStocks(a, limit) ==
  IF Invested(a) <= 10 * limit THEN a
  ELSE [k \in DOMAIN a |-> IF k = "cash" THEN a[k] ELSE (a[k] * 10 * limit) \div Invested(a)]

Limited(a, limit) ==
  IF Invested(a) <= 10 * limit THEN a
  ELSE LET part == [k \in Stocks |-> (a[k] * 10 * limit) \div Invested(a)]
       IN [k \in DOMAIN a |-> IF k = "cash" THEN 1000 - Invested(part) ELSE part[k]]

\* get_allocation: a sure regime's row, or the rows blended.
Allotted(x) ==
  Limited(IF x.sure THEN Matrix[x.regime] ELSE Blended(x.probs), x.exposure)

\* calculate_scale, clipped by regime.
VolScale(x) ==
  IF x.vol = 0 THEN 100
  ELSE Most(30, Least([bull |-> 130, sideways |-> 100, bear |-> 70][x.regime], 1500 \div x.vol))

(***************************************************************************)
(* DynamicPositionSizer.                                                   *)
(***************************************************************************)
\* 2% of the portfolio over two ATRs of distance to the stop.
ByAtr(x) == IF x.atr = 0 THEN 0 ELSE Least(100, (10 * x.price) \div x.atr)

\* Against one other symbol of 20% volatility.
ByVolInverse(x) == Least(100, (1000 * 20) \div (20 + Most(x.vol, 1)))

\* Half of Kelly's share for wins as large as losses.
ByKelly(x) == Most(0, Least(100, 5 * (2 * x.wins - 100)))

\* calculate takes the least; the last two methods need arguments that the
\* pipeline leaves out (no peers, no win rate).
Methods(x) ==
  {ByAtr(x)} \cup (IF x.peers THEN {ByVolInverse(x)} ELSE {}) \cup (IF x.wins > 0 THEN {ByKelly(x)} ELSE {})

Shares(x) == (PV * Min(Methods(x))) \div (1000 * x.price)

(***************************************************************************)
(* The order.                                                              *)
(***************************************************************************)
\* Both legs of a pair, one sold and one bought, when the spread is far enough from
\* its mean for the regime.
EntryZ == [bull |-> 150, sideways |-> 200, bear |-> 250]
LegStrength(z, regime) == IF Abs(z) <= EntryZ[regime] THEN 0 ELSE Least(1000, (10 * Abs(z)) \div 3)

Strength(x) == IF x.strategy = "pairs_trading" THEN LegStrength(x.z, x.regime) ELSE x.strength

\* apply_overlay, then clipped.
Overlaid(x, weight) ==
  Most(-1000, Least(1000, ((1000 - weight) * Strength(x) + weight * x.sentiment) \div 1000))

\* adj_qty; a weak signal, or one without price or ATR, gives none.
Quantity(x) ==
  LET strength == Abs(Overlaid(x, Allotted(x).sentiment))
  IN IF strength < 100 \/ x.atr = 0 THEN 0
     ELSE (((Shares(x) * Allotted(x)[x.strategy] * VolScale(x)) \div 1000) * strength) \div 100000

Inputs ==
  [regime : Regimes, sure : BOOLEAN, probs : Probs, exposure : Exposures,
   strategy : {"lowvol_quality", "vol_momentum", "pairs_trading"}, vol : Vols,
   price : Prices, atr : Atrs, strength : Strengths, z : Zs,
   sentiment : Sentiments, peers : BOOLEAN, wins : WinRates]

Init == input \in Inputs
Next == UNCHANGED input
Spec == Init /\ [][Next]_input

(***************************************************************************)
(* Properties.                                                             *)
(***************************************************************************)
\* The weights, cash among them, are the whole portfolio (roundings of the model
\* aside) and the strategies together stay within the kill switch's exposure.
\* Whatever regime, blend, scale and overlay do to it, an order falling to its stop
\* (two ATRs) loses at most 2% of the portfolio, and it costs at most 10% of it.
AllocationWhole ==
  LET a == Allotted(input)
  IN /\ 995 <= Invested(a) + a.cash /\ Invested(a) + a.cash <= 1000
     /\ Invested(a) <= 10 * input.exposure
     /\ Quantity(input) * 2 * input.atr <= PV \div 50
     /\ Quantity(input) * input.price <= PV \div 10
=============================================================================
