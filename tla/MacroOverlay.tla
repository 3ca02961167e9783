----------------------------- MODULE MacroOverlay -----------------------------
(***************************************************************************)
(* The macro overlay (engine_v4/ai/macro_scorer.py over                    *)
(* data/macro_collector.py): market figures are downloaded and cached for  *)
(* a day, the score made of them for four hours, and the collecting job    *)
(* writes a snapshot for the entry scan's kill switch.                     *)
(*                                                                         *)
(* Percentages and yields are in tenths, the LQD/HYG ratio in hundredths,  *)
(* copper over gold in 1/10000; scores in thousandths of a point.  Oil is  *)
(* shown and not scored.                                                   *)
(***************************************************************************)
EXTENDS Integers, FiniteSets

CONSTANTS
  Markets,                \* what the feeds may show, every figure known
  Levels,                 \* figure -> values it is compared with
  Outages,                \* sets of tickers a download may lack
  DataSteps, ScoreSteps,  \* CACHE_TTL of the collector and of the scorer
  MaxTime, MaxCollects    \* bounds

VARIABLES
  now, market,
  data,                   \* "macro_data" in the cache
  score,                  \* "macro_score" in the cache, with the age of its figures
  snapshot,               \* newest row of swing_macro_snapshots
  pc, raw, scored,        \* the collecting task
  age,                    \* age of the figures last answered
  collects

vars == <<now, market, data, score, snapshot, pc, raw, scored, age, collects>>

NoFigure == -10000
Unknown(x) == x = NoFigure
Nothing == [at |-> -1]

(***************************************************************************)
(* The figures of a download: a ratio or a return misses when one of its   *)
(* tickers does.                                                           *)
(***************************************************************************)
Tickers == [vix |-> {"vix"}, sma |-> {"vix"}, gs |-> {"gold", "spy"}, hy |-> {"lqd", "hyg"},
            tnx |-> {"tnx"}, tnxMove |-> {"tnx"}, cuau |-> {"copper", "gold"},
            cuauMove |-> {"copper", "gold"}, dxy |-> {"dxy"}, btc |-> {"btc"}]
Figures(m, out) == [f \in DOMAIN m |-> IF Tickers[f] \cap out = {} THEN m[f] ELSE NoFigure]

(***************************************************************************)
(* Five scores from fixed bands; without a figure the middle.              *)
(***************************************************************************)
\* Bands that a figure leaves upwards by reaching, and by passing, their edge.
From(x, edges, points) ==
  IF Unknown(x) THEN 50 ELSE points[1 + Cardinality({i \in DOMAIN edges : x >= edges[i]})]
Past(x, edges, points) ==
  IF Unknown(x) THEN 50 ELSE points[1 + Cardinality({i \in DOMAIN edges : x > edges[i]})]
Clipped(x) == IF x < 0 THEN 0 ELSE IF x > 100 THEN 100 ELSE x

VixScore(f) ==
  LET s == From(f.vix, <<15, 18, 22, 28, 35>>, <<90, 75, 55, 35, 20, 5>>)
  IN IF ~Unknown(f.vix) /\ 10 * f.vix > 11 * f.sma THEN Clipped(s - 10) ELSE s
\* in tenths: weights of 40, 30 and 30 percent
RiskOff(f) ==
  4 * VixScore(f) + 3 * From(f.gs, <<-30, -10, 10, 30>>, <<85, 70, 50, 35, 15>>)
                  + 3 * From(f.hy, <<135, 140, 145, 150>>, <<85, 70, 50, 30, 10>>)

YieldLevel(y) ==
  CASE y \in 25 .. 40 -> 80 [] y \in 20 .. 24 \cup 41 .. 45 -> 65
    [] y \in 15 .. 19 \cup 46 .. 50 -> 45 [] y > 50 -> 25 [] OTHER -> 30
YieldMove(d) ==
  CASE d > 50 -> -15 [] d \in 21 .. 50 -> -5 [] d \in -20 .. 20 -> 0
    [] d \in -50 .. -21 -> 5 [] OTHER -> -10
YieldCurve(f) == IF Unknown(f.tnx) THEN 50 ELSE Clipped(YieldLevel(f.tnx) + YieldMove(f.tnxMove))

CopperMove(d) == IF d > 30 THEN 10 ELSE IF d > 10 THEN 5 ELSE IF d < -30 THEN -10 ELSE IF d < -10 THEN -5 ELSE 0
CopperGold(f) ==
  IF Unknown(f.cuau) THEN 50
  ELSE Clipped(Past(f.cuau, <<10, 12, 14, 16>>, <<15, 30, 50, 70, 85>>) + CopperMove(f.cuauMove))

\* Mutant: the dollar's bands the other way round.
DollarInverted(f) == From(f.dxy, <<-30, -15, -5, 5, 15, 30>>, <<12, 25, 38, 50, 60, 72, 85>>)
DollarTrend(f) == From(f.dxy, <<-30, -15, -5, 5, 15, 30>>, <<85, 72, 60, 50, 38, 25, 12>>)
BtcMomentum(f) == Past(f.btc, <<-200, -100, -30, 30, 100, 200>>, <<10, 22, 35, 50, 65, 78, 90>>)

MacroScore(f) ==
  30 * RiskOff(f) + 200 * YieldCurve(f) + 200 * CopperGold(f)
  + 150 * DollarTrend(f) + 150 * BtcMomentum(f)

\* Classified after rounding to a tenth.
Tenths(s) == (s + 50) \div 100
DetermineRegime(s) ==
  CASE Tenths(s) >= 650 -> "RISK_ON" [] Tenths(s) \in 450 .. 649 -> "NEUTRAL"
    [] Tenths(s) \in 250 .. 449 -> "RISK_OFF" [] OTHER -> "CRISIS"

-----------------------------------------------------------------------------
(* The collector, the scorer and their two caches                            *)

Live(entry, steps) == entry.at >= 0 /\ now - entry.at < steps
Fresh(figures) == [at |-> now, figures |-> figures]

\* Downloads: lacking some tickers, or failed altogether.
Downloads == {Fresh(Figures(market, out)) : out \in Outages} \cup {Nothing}
\* collect_macro_data: what it may return.  A failure is not cached.
Collected(force) == IF ~force /\ Live(data, DataSteps) THEN {data} ELSE Downloads
Cache(d) == data' = IF d = Nothing THEN data ELSE d

\* Mutant: a score read is a score renewed.
ReadRenewed(s) == [s EXCEPT !.at = now]
Read(s) == s

\* calc_macro_score over what was collected: neutral, and not cached, without data.
Scored(d) ==
  IF d = Nothing THEN [at |-> now, value |-> 50000, regime |-> "NEUTRAL", of |-> now]
  ELSE [at |-> now, value |-> MacroScore(d.figures),
        regime |-> DetermineRegime(MacroScore(d.figures)), of |-> d.at]

\* get_macro_score and _calc_macro of the signal score.
AnswerCached ==
  /\ Live(score, ScoreSteps)
  /\ score' = Read(score)
  /\ age' = now - score.of
  /\ UNCHANGED <<now, market, data, snapshot, pc, raw, scored, collects>>
AnswerScored ==
  /\ ~Live(score, ScoreSteps)
  /\ \E d \in Collected(FALSE) :
       /\ Cache(d)
       /\ score' = IF d = Nothing THEN score ELSE Scored(d)
       /\ age' = now - Scored(d).of
  /\ UNCHANGED <<now, market, snapshot, pc, raw, scored, collects>>

\* The collecting task downloads, scores (downloading again) and saves.
CollectData ==
  /\ pc = "idle" /\ collects < MaxCollects
  /\ collects' = collects + 1
  /\ \E d \in Collected(TRUE) : raw' = d /\ Cache(d)
  /\ pc' = "score"
  /\ UNCHANGED <<now, market, score, snapshot, scored, age>>
CollectScore ==
  /\ pc = "score"
  /\ \E d \in Collected(TRUE) :
       /\ Cache(d)
       /\ scored' = Scored(d)
       /\ score' = IF d = Nothing THEN score ELSE Scored(d)
  /\ pc' = "save"
  /\ UNCHANGED <<now, market, snapshot, raw, age, collects>>
SaveSnapshot ==
  /\ pc = "save"
  /\ snapshot' = [regime |-> scored.regime, vix |-> IF raw = Nothing THEN NoFigure ELSE raw.figures.vix]
  /\ pc' = "idle" /\ raw' = Nothing /\ scored' = Nothing
  /\ UNCHANGED <<now, market, data, score, age, collects>>

\* get_macro_risk_state and the scan's kill switch.
Halted == snapshot.regime = "RISK_OFF" \/ snapshot.vix > 30

Tick == now < MaxTime /\ now' = now + 1 /\ UNCHANGED <<market, data, score, snapshot, pc, raw, scored, age, collects>>
Shift ==
  /\ \E m \in Markets : market' = m /\ m # market
  /\ UNCHANGED <<now, data, score, snapshot, pc, raw, scored, age, collects>>

Init ==
  /\ now = 0 /\ market \in Markets
  /\ data = Nothing /\ score = Nothing
  /\ snapshot = [regime |-> "NEUTRAL", vix |-> NoFigure]
  /\ pc = "idle" /\ raw = Nothing /\ scored = Nothing
  /\ age = 0 /\ collects = 0

Next == AnswerCached \/ AnswerScored \/ CollectData \/ CollectScore \/ SaveSnapshot \/ Tick \/ Shift
Spec == Init /\ [][Next]_vars

(***************************************************************************)
(* Properties.                                                             *)
(***************************************************************************)
\* A market that is worse in one figure never has a better score: fear, gold
\* against shares, credit spreads and the dollar up, copper and bitcoin down.
Worse(x, v, w) == IF x \in {"vix", "gs", "hy", "dxy"} THEN v >= w ELSE v <= w
RiskierNeverBetter ==
  \A x \in DOMAIN Levels : \A v \in Levels[x] :
    Worse(x, v, market[x]) => MacroScore([market EXCEPT ![x] = v]) <= MacroScore(market)

\* Two caches, one read through the other: figures are answered until they are as
\* old as both lifetimes together, no longer.
FiguresRecent == age <= DataSteps + ScoreSteps - 2
=============================================================================
