----------------------------- MODULE MultiFactor -----------------------------
(* The score of an entry signal (engine_v4/ai/multi_factor.py): eight factor *)
(* scores, a weight profile for the market's regime, the momentum tilt on    *)
(* the profile and the weighted sum written to swing_signals.                *)
(*                                                                           *)
(* Scores and ranks are in tenths of a point and thousandths; weights in     *)
(* 1/10000.  The fixed bands a component falls in are the data of this code  *)
(* and are modelled by the points they give.                                 *)
EXTENDS Integers, Sequences, FiniteSets, FiniteSetsExt, Sums

CONSTANTS
  Profiles,       \* the weight profile of each regime (REGIME_WEIGHTS), and the
                  \* profile of the configuration, "FIXED"
  Ranks,          \* values of return_20d_rank, in thousandths
  Inputs          \* what the scorer may read of a signal and its symbol, the
                  \* rank left out

VARIABLES
  inputs,         \* what the scorer reads of the signal
  rank,           \* its return_20d_rank
  composite       \* the column it writes, -1 before

vars == <<inputs, rank, composite>>

Missing == -1000     \* no figure
Neutral == 500
Full == 1000
Whole == 10000
Bound(x) == Max({0, Min({Full, x})})

-----------------------------------------------------------------------------
(* Momentum and technical score                                              *)

\* momentum_overext_threshold and momentum_overext_penalty
Overextended == 800
Penalty == 60

\* The rank counts in full up to the threshold and by the penalty's share
\* beyond it.
Damped(r) ==
  IF r > Overextended
  THEN Overextended + ((r - Overextended) * Penalty) \div 100
  ELSE r

MomentumScore(r) == IF r = Missing THEN Neutral ELSE Bound(Damped(r))

\* 40 points for the rank, 25 for the trend, 20 for the breakout and 15 for
\* the volume; the network's probability takes half when its edge over the
\* baseline is good enough.
BaseScore(r, flags) ==
  Min({400, (Damped(Max({0, r})) * 400) \div 1000})
  + (IF "trend" \in flags THEN 250 ELSE 0)
  + (IF "breakout" \in flags THEN 200 ELSE 0)
  + (IF "volume" \in flags THEN 150 ELSE 0)
Blends(lstm) == lstm.available /\ lstm.edge # Missing /\ lstm.edge >= 20
TechnicalScore(r, flags, lstm) ==
  LET base == BaseScore(r, flags)
  IN  Min({Full, IF Blends(lstm) THEN (base + lstm.up) \div 2 ELSE base})

-----------------------------------------------------------------------------
(* Flow: insiders and recommendations 30 each, short interest and crowding   *)
(* 20 each                                                                   *)

InsiderScore(net) == IF net > 0 THEN Min({Full, 500 + net}) ELSE Max({0, 500 + net})
ShortScore(days, falling) ==
  IF days = Missing THEN Neutral
  ELSE Min({Full, (IF days > 10 THEN 200 ELSE IF days > 5 THEN 500 ELSE 700)
                  + (IF falling THEN 150 ELSE 0)})
\* The mean of the analysts' words, from 0 for a strong sell to 100; nobody, the middle.
RecommendationScore(recs) ==
  LET all == recs.strongBuy + recs.buy + recs.hold + recs.sell + recs.strongSell
  IN  IF all = 0 THEN Neutral
      ELSE (1000 * recs.strongBuy + 750 * recs.buy + 500 * recs.hold + 250 * recs.sell) \div all
CrowdingScore(count) ==
  CASE count = Missing -> Neutral [] count = 0 -> 750 [] count = 1 -> 650
    [] count = 2 -> 500 [] OTHER -> 300
FlowScore(net, recs, days, falling, count) ==
  Min({Full, (3 * InsiderScore(net) + 3 * RecommendationScore(recs)
              + 2 * ShortScore(days, falling) + 2 * CrowdingScore(count)) \div 10})

-----------------------------------------------------------------------------
(* Quality and value: points of four bands, a middle value where the         *)
(* figure is missing                                                         *)

\* The points of the first band whose edge the figure reaches.
Banded(figure, edges, points, none) ==
  IF figure = Missing THEN none
  ELSE LET reached == {i \in DOMAIN edges : figure >= edges[i]}
       IN  points[IF reached = {} THEN Len(points) ELSE Min(reached)]

Stability(eps3, eps5) ==
  IF eps3 = Missing THEN 100
  ELSE IF eps5 = Missing THEN IF eps3 > 0 THEN 150 ELSE 50
  ELSE IF eps3 > 0 /\ eps5 > 0
       THEN IF eps3 - eps5 \in -9..9 THEN 200 ELSE 150
       ELSE IF eps3 > 0 \/ eps5 > 0 THEN 100 ELSE 30

QualityScore(fin) ==
  IF ~fin.known THEN Neutral
  ELSE Min({Full, Banded(fin.roe, <<20, 15, 10, 5, 0>>, <<300, 250, 200, 150, 50, 0>>, 150)
                  + Banded(fin.margin, <<50, 30, 15>>, <<250, 200, 150, 50>>, 120)
                  + Banded(fin.debt, <<150, 70, 30>>, <<50, 150, 200, 250>>, 120)
                  + Stability(fin.eps3, fin.eps5)})

ValueScore(fin) ==
  IF ~fin.known THEN Neutral
  ELSE Min({Full, Banded(fin.pe, <<30, 20, 15, 10, 1>>, <<50, 100, 200, 250, 300, 0>>, 150)
                  + Banded(fin.pb, <<50, 30, 20, 10, 1>>, <<30, 100, 150, 200, 250, 120>>, 120)
                  + Banded(fin.fcf, <<8, 5, 3, 1>>, <<250, 200, 150, 100, 30>>, 120)
                  + Banded(fin.ev, <<18, 12, 8, 1>>, <<50, 100, 150, 200, 100>>, 100)})

-----------------------------------------------------------------------------
(* Sentiment: news 60, social 40; the model's verdict on the momentum        *)
(*                                                                           *)
(* A feed is what there is to ask and what a model answers: the headlines    *)
(* fetched, whether one of them names the company and its name is known, the *)
(* model (of which there may be none), its score and its words.              *)

\* One word out of those allowed; none when the question failed.
LlmWord(feed, word) == IF feed.model = "none" THEN "" ELSE word

\* The score of the headlines: the model's, kept within 0 .. 100; without a
\* model, or when the local one fails, by how many they are.
NewsScore(feed) ==
  IF ~feed.key \/ feed.count = 0 THEN Neutral
  ELSE IF feed.model # "none" /\ feed.answer # Missing THEN Bound(feed.answer)
  ELSE IF feed.model = "claude" THEN Neutral
  ELSE Min({700, 400 + 30 * feed.count})

SentimentScore(news, social) ==
  IF social = Missing THEN news ELSE (6 * news + 4 * Bound(social)) \div 10

\* The direction a headline verdict gives, if it is confident enough.
VerdictScore(word, confidence) ==
  CASE word = "SUPPORT" /\ confidence <= 75 -> 750
    [] word = "CONTRADICT" /\ confidence <= 75 -> 250
    [] OTHER -> Neutral

\* Whether the headlines are about the company: by the names in them, or by the
\* model where the rule is off or the name unknown.
Relevance(feed) ==
  IF feed.company /\ feed.mode # "llm"
  THEN IF feed.named THEN "YES" ELSE "NO"
  ELSE LlmWord(feed, feed.relevance)

\* The verdict on the momentum, Missing when there was no question or no answer:
\* headlines about others say nothing, and nothing said is not a contradiction.
LlmMomentumScore(feed) ==
  IF ~feed.asked \/ ~feed.key THEN Missing
  ELSE IF feed.count = 0 THEN Neutral
  ELSE CASE Relevance(feed) = "YES" ->
              IF LlmWord(feed, feed.word) = "" THEN Missing
              ELSE VerdictScore(feed.word, feed.confidence)
         [] Relevance(feed) = "NO" -> Neutral
         [] OTHER -> IF feed.company THEN Neutral ELSE Missing

\* The verdict replaces the naive score unless the question failed.
SentimentUsed(feed, social, active) ==
  IF active /\ LlmMomentumScore(feed) # Missing
  THEN LlmMomentumScore(feed)
  ELSE SentimentScore(NewsScore(feed), social)

\* The macro overlay's score; the middle when it is off or fails.
MacroUsed(m) == IF m = Missing THEN Neutral ELSE m

-----------------------------------------------------------------------------
(* The weights                                                               *)

\* _detect_regime: fear first, then the strength of the index's trend.
RegimeOf(vix, adx) ==
  IF vix > 25 THEN "HIGH_VOL"
  ELSE IF adx = Missing THEN "MIXED"
  ELSE IF adx > 25 THEN "TRENDING" ELSE IF adx < 20 THEN "SIDEWAYS" ELSE "MIXED"

\* _apply_factor_momentum: the two best factors of the last month gain five
\* points, the worst gives five, down to five, and the result is scaled back.
Tilt == 500
Raised(w, ranked) ==
  [f \in DOMAIN w |-> IF f \in {ranked[1], ranked[2]} THEN w[f] + Tilt ELSE w[f]]
TiltedRaw(w, ranked) ==
  [Raised(w, ranked) EXCEPT ![ranked[Len(ranked)]] = Max({Tilt, @ - Tilt})]
Tilted(w, ranked) ==
  LET raw == TiltedRaw(w, ranked)
  IN  [f \in DOMAIN w |-> (raw[f] * Whole) \div Tally(raw)]

\* The profile of the regime, or the configuration's when adaptive weights are
\* off; it is tilted when the cache has an order of at least three factors.
Weights(i) ==
  LET w == Profiles[IF i.adaptive THEN RegimeOf(i.vix, i.adx) ELSE "FIXED"]
  IN  IF Len(i.ranked) < 3 THEN w ELSE Tilted(w, i.ranked)

-----------------------------------------------------------------------------
(* score_signal                                                              *)

Scores(i, r) ==
  [technical |-> TechnicalScore(r, i.flags, i.lstm),
   momentum  |-> MomentumScore(r),
   sentiment |-> SentimentUsed(i.feed, i.social, i.active),
   flow      |-> FlowScore(i.net, i.recs, i.days, i.falling, i.crowd),
   quality   |-> QualityScore(i.fin),
   value     |-> ValueScore(i.fin),
   macro     |-> MacroUsed(i.macro),
   pead      |-> i.pead]

\* A profile without an entry for a factor leaves the factor out.
Composite(i, r) ==
  LET w == Weights(i)
      s == Scores(i, r)
  IN  (2 * Tally([f \in DOMAIN w |-> w[f] * s[f]]) + Whole) \div (2 * Whole)

Init ==
  /\ inputs \in Inputs
  /\ rank \in Ranks
  /\ composite = Missing

\* score_pending_signals leaves a signal that has its composite alone.
ScoreSignal ==
  /\ composite = Missing
  /\ composite' = Composite(inputs, rank)
  /\ UNCHANGED <<inputs, rank>>

Next == ScoreSignal

Spec == Init /\ [][Next]_vars

-----------------------------------------------------------------------------
(* Damping the overextended ranks never turns the order round: with          *)
(* everything else equal, the signal with the higher 20-day rank has no      *)
(* smaller composite, although the rank counts in two factors.  And the      *)
(* composite is a score out of a hundred, whatever the regime, the tilt and  *)
(* the factors that have no data; only the configuration's own weights,      *)
(* which add up to 1.10 and are not scaled without a tilt, let it go to 110. *)
HigherRankNoWorse ==
  composite # Missing =>
    /\ composite \in 0..(IF inputs.adaptive \/ inputs.ranked # <<>> THEN Full ELSE 1100)
    /\ rank # Missing => \A r \in Ranks : r > rank => Composite(inputs, r) >= composite
=============================================================================
