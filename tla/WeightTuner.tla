----------------------------- MODULE WeightTuner -----------------------------
(* The weekly weight tuner of the strategy harness                           *)
(* (engine_v4/harness/weight_tuner.py).                                      *)
(*                                                                           *)
(* swing_factor_weights keeps one weight per factor for each market regime;  *)
(* tune() moves the weights of the factors whose information coefficient was *)
(* measured and leaves the others their shares.  Weights are in units of     *)
(* 1/10000, the four decimals tune() rounds to; an IC is in 1/100.           *)
EXTENDS Integers

CONSTANTS
  Regimes,        \* the regimes of swing_factor_weights
  Prior,          \* the weights of a regime before the first tuning
  Low, High,      \* BOUNDS of a factor
  Measurements,   \* what the latest swing_factor_ic row of a factor may say
  Measured,       \* the factors that have rows
  MinDates,       \* weight_tuner_min_dates
  MaxStep,        \* weight_tuner_max_step
  MaxWeeks        \* bound: tunings of a behaviour

VARIABLES
  weights,        \* swing_factor_weights
  weeks,          \* tunings so far
  read            \* the IC each factor took part with in the last tuning

vars == <<weights, weeks, read>>

Factors == {"technical", "momentum", "quality", "macro", "sentiment", "pead", "flow", "value"}
Whole == 10000
Greater(a, b) == IF a > b THEN a ELSE b
Lesser(a, b)  == IF a < b THEN a ELSE b
Clip(lo, x, hi) == Greater(lo, Lesser(hi, x))
Total(w) == w.technical + w.momentum + w.quality + w.macro + w.sentiment + w.pead + w.flow + w.value

\* v / t, rounded to the nearest unit.
Ratio(v, t) == (2 * v + t) \div (2 * t)

Init ==
  /\ weights = Prior
  /\ weeks = 0
  /\ read = <<>>

-----------------------------------------------------------------------------
(* Which measurements count                                                  *)

\* The row must come from the cross-sectional method, over enough days, and unless
\* weight_tuner_require_ci is off, with an interval that excludes zero and a
\* cross-sectional estimate that has the sign of the pooled one (or none).
Usable(m, requireCi) ==
  /\ m.method = "xsec_excess"
  /\ m.dates >= MinDates
  /\ requireCi =>
       /\ m.lo > 0 \/ m.hi < 0
       /\ m.xsec = "none" \/ (m.xsec = "up" /\ m.ic > 0) \/ (m.xsec = "down" /\ m.ic <= 0)

\* The ICs a tuning works with, given the latest row of every factor.
Ics(rows, requireCi) == [f \in {g \in DOMAIN rows : Usable(rows[g], requireCi)} |-> rows[f].ic]

-----------------------------------------------------------------------------
(* One regime                                                                *)

\* The share of the measured factors: what the held ones leave.
Budget(w, ics) ==
  Greater(0, Whole - Total([f \in Factors |-> IF f \in DOMAIN ics THEN 0 ELSE w[f]]))

Gain(ics, f) == IF f \in DOMAIN ics THEN Greater(0, ics[f]) ELSE 0

Goal(w, ics, f) ==
  IF ics[f] <= 0
  THEN Low[f]
  ELSE Clip(Low[f],
            Ratio(Budget(w, ics) * Gain(ics, f), Total([g \in Factors |-> Gain(ics, g)])),
            High[f])

Moved(w, ics, f) ==
  Clip(Low[f], w[f] + Clip(-MaxStep, Goal(w, ics, f) - w[f], MaxStep), High[f])

\* The rule the module had before: a factor without a measurement counts as
\* one that was measured useless.
StepOfUseless(w, ics) ==
  [f \in Factors |-> IF f \in DOMAIN ics
                     THEN Moved(w, ics, f)
                     ELSE Greater(Low[f], w[f] - MaxStep)]

Stepped(w, ics) ==
  [f \in Factors |-> IF f \in DOMAIN ics THEN Moved(w, ics, f) ELSE w[f]]

Normalised(w) ==
  IF Total(w) \in Whole - 1 .. Whole + 1 THEN w
  ELSE [f \in Factors |-> Ratio(w[f] * Whole, Total(w))]

Retuned(w, ics) ==
  IF Total(Stepped(w, ics)) = 0 THEN w ELSE Normalised(Stepped(w, ics))

-----------------------------------------------------------------------------
(* tune(): the ICs are computed once and used for every regime.              *)

Tune(rows, requireCi) ==
  LET ics == Ics(rows, requireCi)
  IN /\ weeks < MaxWeeks
     /\ weeks' = weeks + 1
     /\ read' = ics
     /\ weights' = IF DOMAIN ics = {} THEN weights
                   ELSE [r \in Regimes |-> Retuned(weights[r], ics)]

\* The settings are read anew by every tuning.
Next == \E rows \in [Measured -> Measurements], requireCi \in BOOLEAN : Tune(rows, requireCi)

Spec == Init /\ [][Next]_vars

-----------------------------------------------------------------------------
(* A tuning never redistributes between two factors it has no measurement    *)
(* of: they keep their relative shares, up to the rounding of one step, in   *)
(* every regime ("not measured" must not read as "measured useless").  And   *)
(* however many tunings follow one another, every regime's weights stay a    *)
(* partition of the whole up to rounding, half a unit for each factor: the   *)
(* scorer adds the products without dividing by the sum.                     *)
WeightsWhole ==
  \A r \in Regimes :
    /\ \A f \in Factors : weights[r][f] >= 0
    /\ 2 * Total(weights[r]) \in (2 * Whole - 10) .. (2 * Whole + 10)
HeldSharesStep ==
  /\ WeightsWhole'
  /\ \A r \in Regimes : \A f, g \in Factors \ DOMAIN read' :
       LET d == weights'[r][f] * weights[r][g] - weights'[r][g] * weights[r][f]
       IN  2 * d <= weights[r][f] + weights[r][g]
HeldShares == [][HeldSharesStep]_vars
=============================================================================
