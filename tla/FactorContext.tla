---------------------------- MODULE FactorContext ----------------------------
(***************************************************************************)
(* What the signal score takes from elsewhere: how crowded a symbol is     *)
(* among the factor ETFs (engine_v4/ai/factor_crowding.py), which factors  *)
(* did well lately (_calc_factor_momentum of the weekly job), and, apart   *)
(* from both, how its earnings surprised (engine_v4/ai/pead.py).           *)
(*                                                                         *)
(* The first two are kept in the cache for a week and remade by a request  *)
(* or a job, ETF by ETF, while scores and reports read them: Spec.         *)
(*                                                                         *)
(* Of earnings the feed shows the newest quarters only, each figure when   *)
(* it has it, and the calendar knows announcements of the last months;     *)
(* what was seen once is accumulated in swing_earnings_surprises:          *)
(* DriftSpec.  Days count from an origin; surprises are in tenths of a     *)
(* percent; a drift score is its distance from 50 in units of              *)
(* 1 / (80 * DriftDays) point.                                             *)
(***************************************************************************)
EXTENDS Integers, FiniteSets, Sums

CONSTANTS
  Etfs,                   \* FACTOR_ETFS
  SeedOf,                 \* SEED_HOLDINGS
  Published,              \* what the feed may show of an ETF
  Book,                   \* symbols held and pending
  Factors,                \* the factors ranked, in the order they are listed
  Trades,                 \* closed trades that may happen: [pnl, score of each factor]
  CacheDays, MaxDay, MaxTrades,
  Surprises,              \* what a quarter may surprise by
  Gap,                    \* days between two quarter ends
  ShownQuarters,          \* quarters of a stock/earnings answer
  CalendarDays,           \* reach of calendar/earnings
  DriftDays, MinSurprise, \* pead_drift_days, pead_min_surprise_pct
  MaxQuarters, LastDay    \* bounds

VARIABLES
  day,
  holdings,               \* etf -> [list, until] in the cache
  todo,                   \* ETFs the refresh has still to do
  report,                 \* the crowding of the book last computed
  closed,                 \* trades of the last month
  ranking,                \* "factor_momentum" in the cache: [ranked, of, until]
  announced,              \* quarter -> [day, surprise], so far
  table                   \* quarter -> row of swing_earnings_surprises

vars == <<day, holdings, todo, report, closed, ranking>>
driftVars == <<day, announced, table>>

Missing == -1

-----------------------------------------------------------------------------
(* The holdings.                                                             *)

Live(entry) == day < entry.until
Stored(list) == [list |-> list, until |-> day + CacheDays]
\* _get_holdings: the cache, or the seed, which is cached.
Held(e) == IF Live(holdings[e]) /\ holdings[e].list # {} THEN holdings[e].list ELSE SeedOf[e]

BeginRefresh == todo = {} /\ todo' = Etfs /\ UNCHANGED <<day, holdings, report, closed, ranking>>
\* Mutant: what came is stored, be it nothing.
AsPublished(e, list) == list
OrSeed(e, list) == IF list = {} THEN SeedOf[e] ELSE list
RefreshEtf(e) ==
  /\ e \in todo /\ todo' = todo \ {e}
  /\ \E list \in Published[e] \cup {{}} : holdings' = [holdings EXCEPT ![e] = Stored(OrSeed(e, list))]
  /\ UNCHANGED <<day, report, closed, ranking>>

\* get_crowding_score: the number MultiFactor takes.
FactorCount(s) == Cardinality({e \in Etfs : s \in Held(e)})
Overlap(e, S) == S \cap Held(e)
RiskOf(part, whole) ==
  IF 100 * part >= 60 * whole THEN "high" ELSE IF 100 * part >= 35 * whole THEN "moderate" ELSE "low"
Rank == [high |-> 3, moderate |-> 2, low |-> 1]
Worst(R) == CHOOSE r \in R : \A q \in R : Rank[q] <= Rank[r]

\* check_crowding over the book; an expired list is cached as its seed.
CheckCrowding ==
  /\ report' = [risk  |-> [e \in Etfs |-> RiskOf(Cardinality(Overlap(e, Book)), Cardinality(Book))],
                overall |-> Worst({RiskOf(Cardinality(Overlap(e, Book)), Cardinality(Book)) : e \in Etfs}),
                multi |-> {s \in Book : FactorCount(s) >= 3},
                seen  |-> [e \in Etfs |-> Cardinality(Held(e))]]
  /\ holdings' = [e \in Etfs |-> IF Live(holdings[e]) /\ holdings[e].list # {} THEN holdings[e] ELSE Stored(SeedOf[e])]
  /\ UNCHANGED <<day, todo, closed, ranking>>

-----------------------------------------------------------------------------
(* _calc_factor_momentum: mean score of the winners less that of the others, *)
(* a score that is missing, or nought, counting as 50.                       *)

ScoreOf(t, f) == IF t.score[f] \in {Missing, 0} THEN 50 ELSE t.score[f]
SumOf(T, f) == Sum([t \in T |-> ScoreOf(t, f)])
Mean(T, f) == IF T = {} THEN 5000 ELSE (100 * SumOf(T, f)) \div Cardinality(T)
Winners(T) == {t \in T : t.pnl > 0}
Performance(f) == Mean(Winners(closed), f) - Mean(closed \ Winners(closed), f)
Place(f) == CHOOSE i \in DOMAIN Factors : Factors[i] = f
Ahead(f, g) == Performance(f) > Performance(g) \/ (Performance(f) = Performance(g) /\ Place(f) < Place(g))
Ranked ==
  [i \in DOMAIN Factors |->
    CHOOSE f \in {Factors[j] : j \in DOMAIN Factors} :
      Cardinality({j \in DOMAIN Factors : Ahead(Factors[j], f)}) = i - 1]

\* With fewer than three trades the ranking that is there stays until it expires.
RankFactors ==
  /\ Cardinality(closed) >= 3
  /\ ranking' = [ranked |-> Ranked, of |-> closed, until |-> day + CacheDays]
  /\ UNCHANGED <<day, holdings, todo, report, closed>>
\* What _apply_factor_momentum reads.
RankingUsed == IF Live(ranking) THEN ranking.ranked ELSE <<>>

Close(t) ==
  /\ t \notin closed /\ Cardinality(closed) < MaxTrades
  /\ closed' = closed \cup {t} /\ UNCHANGED <<day, holdings, todo, report, ranking>>
NextDay == day < MaxDay /\ day' = day + 1 /\ UNCHANGED <<holdings, todo, report, closed, ranking>>

Init ==
  /\ day = 0 /\ todo = {} /\ closed = {}
  /\ holdings = [e \in Etfs |-> [list |-> {}, until |-> 0]]
  /\ report = [seen |-> [e \in Etfs |-> Cardinality(SeedOf[e])]]
  /\ ranking = [ranked |-> <<>>, of |-> {}, until |-> 0]
Next ==
  \/ BeginRefresh \/ CheckCrowding \/ RankFactors \/ NextDay
  \/ \E e \in Etfs : RefreshEtf(e)
  \/ \E t \in Trades : Close(t)
Spec == Init /\ [][Next]_vars

-----------------------------------------------------------------------------
(* Earnings.                                                                 *)

None == -1000
Given(x) == x # None
Quarters == 1 .. MaxQuarters
PeriodEnd(q) == (q - 1) * Gap
Newest(n) == {q \in Quarters : PeriodEnd(q) <= day /\ Cardinality({r \in Quarters : r > q /\ PeriodEnd(r) <= day}) < n}

(***************************************************************************)
(* collect_symbol.  A quarter may be shown before it is announced, without *)
(* its figures.                                                            *)
(***************************************************************************)
\* Mutant: the upsert without COALESCE.
Overwrite(new, old) == new
Coalesce(new, old) == IF Given(new) THEN new ELSE old

Merged(new, old) == [f \in DOMAIN old |-> Coalesce(new[f], old[f])]
Shown(q, calendar, figures) ==
  [end      |-> PeriodEnd(q),
   announce |-> IF calendar /\ q \in DOMAIN announced /\ day - announced[q].day <= CalendarDays
                THEN announced[q].day ELSE None,
   surprise |-> IF q \in figures /\ q \in DOMAIN announced THEN announced[q].surprise ELSE None]
NoRow == [end |-> None, announce |-> None, surprise |-> None]

\* One transaction; the calendar may fail alone, and the feed lack figures.
CollectSymbol ==
  \E calendar \in BOOLEAN, rows \in SUBSET Newest(ShownQuarters) :
    \E figures \in SUBSET rows :
      /\ table' = [q \in DOMAIN table \cup rows |->
                    IF q \notin rows THEN table[q]
                    ELSE Merged(Shown(q, calendar, figures),
                                IF q \in DOMAIN table THEN table[q] ELSE NoRow)]
      /\ UNCHANGED <<day, announced>>

(***************************************************************************)
(* score                                                                   *)
(***************************************************************************)
Usable == {q \in DOMAIN table : Given(table[q].surprise)}
Latest == CHOOSE q \in Usable : \A r \in Usable : r <= q
Ref(row) ==
  IF Given(row.announce) THEN row.announce ELSE IF Given(row.end) THEN row.end + 35 ELSE None
Average(Q) == IF Q = {} THEN 0 ELSE Sum([q \in Q |-> table[q].surprise]) \div Cardinality(Q)
Saturated(x) == IF x > 200 THEN 200 ELSE IF x < -200 THEN -200 ELSE x
Since == day - Ref(table[Latest])
InWindow == Given(Ref(table[Latest])) /\ Since \in 0 .. DriftDays
Drifting == Usable # {} /\ InWindow /\ (table[Latest].surprise >= MinSurprise \/ table[Latest].surprise <= -MinSurprise)
Blended == 6 * Saturated(table[Latest].surprise) + 4 * Saturated(Average(Usable \ {Latest}))
Score == IF Drifting THEN Blended * (2 * DriftDays - Since) ELSE 0

-----------------------------------------------------------------------------
Announce ==
  \E q \in Quarters \ DOMAIN announced, s \in Surprises :
    /\ PeriodEnd(q) < day
    /\ announced' = [r \in DOMAIN announced \cup {q} |->
                      IF r = q THEN [day |-> day, surprise |-> s] ELSE announced[r]]
    /\ UNCHANGED <<day, table>>
LaterDay == day < LastDay /\ day' = day + 5 /\ UNCHANGED <<announced, table>>

DriftInit == day = 0 /\ announced = [q \in {} |-> 0] /\ table = [q \in {} |-> 0]
DriftNext == CollectSymbol \/ Announce \/ LaterDay
DriftSpec == DriftInit /\ [][DriftNext]_driftVars

(***************************************************************************)
(* Properties.                                                             *)
(***************************************************************************)
\* No refresh, complete or not, leaves an empty list to live for a week or a report
\* to have looked into one; and a ranking in use orders the factors by the trades it was made of.
ContextSound ==
  /\ \A e \in Etfs : report.seen[e] > 0 /\ (Live(holdings[e]) => holdings[e].list # {})
  /\ \A i, j \in DOMAIN RankingUsed : i < j =>
       LET P(f) == Mean(Winners(ranking.of), f) - Mean(ranking.of \ Winners(ranking.of), f)
       IN P(RankingUsed[i]) >= P(RankingUsed[j])

Distance(x) == IF x < 0 THEN -x ELSE x
\* What was stored of a quarter stays, whatever a later answer of the feed or of
\* the calendar lacks; and a day without news never strengthens a drift already
\* counted from an announcement.
KnownStaysKnownStep ==
  /\ \A q \in DOMAIN table : q \in DOMAIN table' /\ \A f \in DOMAIN table[q] :
       Given(table[q][f]) => table'[q][f] = table[q][f]
  /\ table' = table /\ Usable # {} /\ Since >= 0 => Distance(Score') <= Distance(Score)
KnownStaysKnown == [][KnownStaysKnownStep]_driftVars

(***************************************************************************)
(* Why it holds: a row holds of a quarter what was announced of it, or     *)
(* nothing yet.                                                            *)
(***************************************************************************)
TableSound ==
  /\ day \in Int
  /\ DOMAIN announced \subseteq Quarters
  /\ \A q \in DOMAIN announced : announced[q] \in [day : Int, surprise : Int]
  /\ DOMAIN table \subseteq Quarters
  /\ \A q \in DOMAIN table :
       /\ table[q] \in [end : Int, announce : Int, surprise : Int]
       /\ Given(table[q].end) => table[q].end = PeriodEnd(q)
       /\ Given(table[q].announce) => q \in DOMAIN announced /\ table[q].announce = announced[q].day
       /\ Given(table[q].surprise) => q \in DOMAIN announced /\ table[q].surprise = announced[q].surprise
=============================================================================
