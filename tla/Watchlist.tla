------------------------------ MODULE Watchlist ------------------------------
(***************************************************************************)
(* The five-layer watchlist analysis of engine_v4: market regime, ranking,  *)
(* entry timing and quality of one symbol, its weighted and composite       *)
(* scores, and the direction they give.                                     *)
(*                                                                          *)
(* A step of the analysis reads market data, which an action chooses from   *)
(* the bands the code tells apart.  Scores are 0..100 as in the code;       *)
(* category scores are thousandths, category weights percent, so that a     *)
(* weighted score is in units of 1/100000.                                  *)
(***************************************************************************)
EXTENDS Integers

CONSTANTS
  VixLevels,       \* 0 when ^VIX could not be downloaded
  Growth,          \* rs_factor: weighted rates of change against the past
  Surprises,       \* the PEAD score less 50
  Fundamentals,    \* [roe, margin, debt, operating]: tenths for debt, percent else
  Rsi2s, Adxs,     \* RSI(2) of two days; ADX
  Volumes,         \* percent of the 20-day average
  Flows, Strengths \* what MFI and OBV add; relative strength

VARIABLES
  step,      \* the layer to compute next
  regime, rank, timing, quality,
  scores,    \* weighted and composite score
  direction, confidence

vars == <<step, regime, rank, timing, quality, scores, direction, confidence>>

Clamped(x, lo, hi) == IF x < lo THEN lo ELSE IF x > hi THEN hi ELSE x
When(c, n) == IF c THEN n ELSE 0

Nothing == [score |-> 50]
Init ==
  /\ step = "regime"
  /\ regime = Nothing /\ rank = Nothing /\ timing = Nothing /\ quality = Nothing
  /\ scores = Nothing /\ direction = "NEUTRAL" /\ confidence = 0

(***************************************************************************)
(* Layer 1: QQQ against its averages, and VIX                               *)
(***************************************************************************)
\* c, s50, s200: the close and two averages, in order of height.
Trend(c, s50, s200) ==
  CASE c > s200 /\ s50 > s200 -> "BULLISH"
    [] c > s200 /\ s50 <= s200 -> "CAUTIOUS"
    [] c <= s200 /\ c > s50 -> "WEAKENING"
    [] OTHER -> "BEARISH"

VixPoints(v) == IF v > 30 THEN -30 ELSE IF v > 25 THEN -15 ELSE When(v < 15, 10)
RegimeScore(c, s50, s200, up3, up6, v) ==
  Clamped(50 + When(c > s200, 20) + When(c > s50, 10) + When(up3, 10) + When(up6, 10) + VixPoints(v), 0, 100)

\* size_factor in halves.  The trend is asked only where VIX is below 25.
SizeByTrend(t) == CASE t = "BEARISH" -> 0 [] t = "WEAKENING" -> 1 [] OTHER -> 2
Size(t, v) == IF v >= 30 THEN 0 ELSE IF v >= 25 THEN 1 ELSE SizeByTrend(t)
Allowed(t, v) == v < 30 /\ ~(v < 25 /\ t = "BEARISH")

CheckRegime ==
  /\ step = "regime" /\ step' = "rank"
  /\ \/ regime' = [trend |-> "UNKNOWN", vix |-> 0, score |-> 50, allowed |-> TRUE, size |-> 2]
     \/ \E c, s50, s200 \in 1 .. 3, up3, up6 \in BOOLEAN, v \in VixLevels :
          LET t == Trend(c, s50, s200) IN
          regime' = [trend |-> t, vix |-> v, score |-> RegimeScore(c, s50, s200, up3, up6, v),
                     allowed |-> Allowed(t, v), size |-> Size(t, v)]
  /\ UNCHANGED <<rank, timing, quality, scores, direction, confidence>>

(***************************************************************************)
(* Layer 2: relative strength and Weinstein stage                           *)
(***************************************************************************)
\* above: the close to the 150-day average; rising: that average over 20 days;
\* off: more than a quarter of the year's range above its low.
Stage(above, rising, off) ==
  CASE above = 1 /\ rising = 1 /\ off -> 2
    [] above = 1 /\ rising <= 0 -> 3
    [] above = -1 /\ rising = -1 -> 4
    [] OTHER -> 1
StageBonus(s) == CASE s = 2 -> 20 [] s = 1 -> 5 [] s = 3 -> -10 [] s = 4 -> -25 [] OTHER -> 0

CalcRanking ==
  /\ step = "rank" /\ step' = "timing"
  /\ \E g \in Growth :
       LET rs == Clamped(50 + g, 0, 100)
           Ranked(s) == [score |-> Clamped(rs + StageBonus(s), 0, 100), stage |-> s]
       IN \/ rank' = Ranked(0)        \* fewer than 200 bars: unknown
          \/ \E above, rising \in -1 .. 1, off \in BOOLEAN : rank' = Ranked(Stage(above, rising, off))
  /\ UNCHANGED <<regime, timing, quality, scores, direction, confidence>>

(***************************************************************************)
(* Layer 3: squeeze, RSI(2), long-term average, volume, earnings drift      *)
(***************************************************************************)
\* The drift moves the timing by half its distance from 50, at most 20.
Drift(p) == Clamped(p \div 2, -20, 20)
Squeeze(now, before, up) ==
  IF before /\ ~now THEN IF up THEN 30 ELSE 15 ELSE When(now, 5)
Oversold(r) == IF r < 5 THEN 20 ELSE IF r < 10 THEN 12 ELSE When(r > 90, -15)
LongTerm(n200, above) == When(n200, IF above THEN 10 ELSE -10)
TimingScore(now, before, up, r, above, n200, v, p) ==
  Clamped(50 + Squeeze(now, before, up) + Oversold(r) + LongTerm(n200, above)
             + When(v > 150, 5) + Drift(p), 0, 100)

CalcEntry ==
  /\ step = "timing" /\ step' = "quality"
  /\ \E now, before, up, above \in BOOLEAN, r, old \in Rsi2s, v \in Volumes, p \in Surprises :
       LET n200 == rank.stage # 0 IN
       timing' = [score |-> TimingScore(now, before, up, r, above, n200, v, p),
                  fired |-> before /\ ~now, up |-> up, squeezed |-> now,
                  rsi2 |-> r, cumulated |-> r + old, below |-> n200 /\ ~above, volume |-> v]
  /\ UNCHANGED <<regime, rank, quality, scores, direction, confidence>>

(***************************************************************************)
(* Quality of the company                                                   *)
(***************************************************************************)
\* The marks beyond 1.5 and 2.5 times debt are tested in that order.
Debt(d) == IF d < 3 THEN 10 ELSE IF d < 7 THEN 5 ELSE When(d > 15, -10)
Roe(x) == IF x > 25 THEN 15 ELSE IF x > 15 THEN 10 ELSE IF x > 8 THEN 5 ELSE When(x < 0, -15)
Margin(x) == IF x > 60 THEN 15 ELSE IF x > 40 THEN 10 ELSE IF x > 25 THEN 5 ELSE When(x < 15, -10)
Operating(x) == IF x > 30 THEN 10 ELSE IF x > 15 THEN 5 ELSE When(x < 0, -10)

CalcQuality ==
  /\ step = "quality" /\ step' = "score"
  /\ \/ quality' = [score |-> 50]     \* no Finnhub, or no answer
     \/ \E f \in Fundamentals :
          quality' = [score |-> Clamped(50 + Roe(f.roe) + Margin(f.margin) + Debt(f.debt) + Operating(f.operating), 0, 100)]
  /\ UNCHANGED <<regime, rank, timing, scores, direction, confidence>>

(***************************************************************************)
(* Scores                                                                   *)
(***************************************************************************)
Reversion(r, cum) ==
  LET s == CASE r < 5 -> 800 [] r \in 5 .. 9 -> 500 [] r \in 10 .. 19 -> 200
             [] r > 95 -> -800 [] r \in 91 .. 95 -> -500 [] r \in 81 .. 90 -> -200 [] OTHER -> 0
  IN Clamped(s + When(cum < 10, 200) - When(cum > 190, 200), -1000, 1000)
\* stacked: the close, the 50 and the 200-day average in this order, up or down.
TrendScore(below, stacked, adx) ==
  LET s == IF stacked THEN IF below THEN -500 ELSE 500 ELSE IF below THEN -200 ELSE 200
  IN IF adx > 30 THEN (s * 13) \div 10 ELSE IF adx < 15 THEN s \div 2 ELSE s
VolumeScore(v, flow) ==
  Clamped(flow + (IF v >= 200 THEN 400 ELSE IF v >= 150 THEN 200 ELSE When(v < 50, -300)), -1000, 1000)

\* <<rsi2, trend, volume, strength, volatility>> in percent.
Weights(adx) ==
  CASE adx > 25 -> <<30, 30, 15, 15, 10>>
    [] adx < 20 -> <<40, 15, 15, 15, 15>>
    [] OTHER -> <<35, 25, 15, 15, 10>>

\* Below the 200-day average three tenths of a positive score are left; twice
\* the score is kept, so that half of it, on thin volume, is whole.
Damped(raw, below) == IF below /\ raw > 0 THEN (raw * 3) \div 10 ELSE raw
Weighted(adx, trend, vol, rs, volatility) ==
  LET w == Weights(adx)
      raw == w[1] * Reversion(timing.rsi2, timing.cumulated) + w[2] * trend + w[3] * vol + w[4] * rs + w[5] * volatility
  IN Damped(raw, timing.below) * (IF timing.volume >= 100 THEN 2 ELSE 1)

\* In units of 1/100.
Composite(trend, rs) ==
  Clamped(15 * regime.score + 20 * rank.score + 20 * quality.score + 25 * timing.score
            + 10 * (50 + trend \div 20) + 10 * (50 + rs \div 20), 0, 10000)

Score ==
  /\ step = "score" /\ step' = "direction"
  /\ \E adx \in Adxs, stacked, opex, exit \in BOOLEAN, flow \in Flows, rs \in Strengths :
       LET trend == IF rank.stage = 0 THEN 0 ELSE TrendScore(timing.below, stacked, adx)
           vol == VolumeScore(timing.volume, flow)
           volatility == When(timing.squeezed, 300) - When(opex, 200)
       IN scores' = [weighted |-> Weighted(adx, trend, vol, rs, volatility),
                     composite |-> Composite(trend, rs), opex |-> opex, exit |-> exit]
  /\ UNCHANGED <<regime, rank, timing, quality, direction, confidence>>

(***************************************************************************)
(* Direction                                                                *)
(***************************************************************************)
Buys == {"BUY", "STRONG_BUY"}
\* scores.weighted is doubled.
Connors ==
  CASE scores.weighted >= 80000 -> "STRONG_BUY"
    [] scores.weighted \in 30000 .. 79999 -> "BUY"
    [] scores.weighted <= -80000 -> "STRONG_SELL"
    [] scores.weighted \in -79999 .. -30000 -> "SELL"
    [] OTHER -> IF scores.exit /\ timing.rsi2 > 50 THEN "SELL" ELSE "NEUTRAL"

ByRegime(d) == IF ~regime.allowed /\ d \in Buys THEN "NEUTRAL" ELSE d
ByStage(d) == IF rank.stage = 4 /\ d \in Buys THEN "NEUTRAL" ELSE d
BySqueeze(d) ==
  IF ~(timing.fired /\ timing.up) THEN d
  ELSE IF d = "NEUTRAL" /\ scores.composite >= 5500 THEN "BUY"
  ELSE IF d = "BUY" THEN "STRONG_BUY" ELSE d
ByQuality(d) == IF quality.score < 30 /\ d = "STRONG_BUY" THEN "BUY" ELSE d
ByOpex(d) == IF scores.opex /\ d \in Buys THEN "NEUTRAL" ELSE d
SqueezeLast(d) == BySqueeze(ByOpex(ByQuality(ByStage(ByRegime(d)))))
Overridden(d) == ByOpex(ByQuality(BySqueeze(ByStage(ByRegime(d)))))

AbsoluteOf(x) == IF x < 0 THEN -x ELSE x
Confidence ==
  LET base == (AbsoluteOf(scores.weighted) * 120) \div 200000 + 40
      moved == IF scores.composite >= 7000 THEN base + 10
               ELSE IF scores.composite <= 3000 THEN base - 10 ELSE base
  IN Clamped(moved, 10, 99)

DetermineDirection ==
  /\ step = "direction" /\ step' = "done"
  /\ direction' = Overridden(Connors) /\ confidence' = Confidence
  /\ UNCHANGED <<regime, rank, timing, quality, scores>>

Next == CheckRegime \/ CalcRanking \/ CalcEntry \/ CalcQuality \/ Score \/ DetermineDirection
Spec == Init /\ [][Next]_vars

(***************************************************************************)
(* Properties                                                               *)
(***************************************************************************)
Fired == timing.fired /\ timing.up /\ scores.composite >= 5500

\* Where entries are not allowed, or the symbol declines, only a squeeze that
\* fired upwards on a good composite score still gives a buy; in an expiry week
\* nothing is bought, and a company of poor quality is never a strong buy,
\* whatever an earlier override made of it (_determine_direction).
OverridesHold ==
  step = "done" =>
    /\ direction \in Buys /\ (~regime.allowed \/ rank.stage = 4) => Fired
    /\ scores.opex => direction \notin Buys
    /\ quality.score < 30 => direction # "STRONG_BUY"
=============================================================================
