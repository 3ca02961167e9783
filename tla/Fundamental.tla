----------------------------- MODULE Fundamental -----------------------------
(***************************************************************************)
(* The fundamental analysis of a symbol (engine_v4/ai/fundamental.py and   *)
(* its two endpoints): filings by EDGAR, figures by Finnhub, scored by     *)
(* Claude or by fixed bands, answered from the cache for a week.           *)
(*                                                                         *)
(* Percentages are whole, ratios in hundredths, scores in hundredths.      *)
(***************************************************************************)
EXTENDS Integers, FiniteSets

CONSTANTS
  Companies,              \* figures Finnhub may have
  Levels,                 \* figure -> values it is compared with
  Answers,                \* what Claude may answer, part by part
  CacheDays,
  MaxDay, MaxFilings      \* bounds

VARIABLES
  day, company,
  claude,                 \* there is a key
  filings, seen,          \* 10-Q and 10-K filings out, and in _seen_accessions
  cache,                  \* "fundamental:<symbol>"
  pc, found,              \* requests: analysing, and what they gathered
  answer                  \* last answer given

vars == <<day, company, claude, filings, seen, cache, pc, found, answer>>

Requests == {"signal", "symbol"}     \* the two endpoints
None == -1000
Given(x) == x # None
NoEntry == [until |-> 0]

(***************************************************************************)
(* _rule_based_analyze                                                     *)
(***************************************************************************)
Banded(x, edges, points) == points[1 + Cardinality({i \in DOMAIN edges : x >= edges[i]})]

RevenueGrowth(f) ==
  CASE Given(f.revenue) -> Banded(f.revenue, <<0, 5, 10, 20>>, <<20, 40, 55, 70, 85>>)
    [] ~Given(f.revenue) /\ Given(f.eps3) -> Banded(f.eps3, <<0, 5, 15>>, <<25, 45, 60, 75>>)
    [] OTHER -> 50
\* A margin of zero counts as none.
MarginOf(f) ==
  LET Counts(x) == Given(x) /\ x # 0
  IN IF Counts(f.operating) THEN f.operating ELSE IF Counts(f.gross) THEN f.gross ELSE f.net
MarginTrend(f) == IF Given(MarginOf(f)) THEN Banded(MarginOf(f), <<0, 8, 15, 25>>, <<15, 35, 55, 70, 85>>) ELSE 50
\* Mutant: the bands of the debt the other way round.
DebtInverted(f) ==
  CASE Given(f.debt) -> Banded(f.debt, <<30, 70, 100, 150>>, <<20, 40, 60, 75, 90>>)
    [] OTHER -> 50
DebtHealth(f) ==
  CASE Given(f.debt) -> Banded(f.debt, <<30, 70, 100, 150>>, <<90, 75, 60, 40, 20>>)
    [] ~Given(f.debt) /\ Given(f.current) -> Banded(f.current, <<100, 150, 200>>, <<25, 45, 65, 80>>)
    [] OTHER -> 50
Guidance(f) ==
  LET growing == Cardinality({x \in {"eps3", "eps5"} : f[x] > 0})
  IN CASE Given(f.eps3) /\ Given(f.eps5) -> <<30, 55, 70>>[1 + growing]
       [] Given(f.eps3) /\ ~Given(f.eps5) -> IF f.eps3 > 0 THEN 60 ELSE 35
       [] OTHER -> 50
Weighted(rg, mt, dh, g) == 30 * rg + 25 * mt + 20 * dh + 25 * g
RuleScore(f) == Weighted(RevenueGrowth(f), MarginTrend(f), DebtHealth(f), Guidance(f))

\* _validate_result: parts clamped, those missing in the middle; the model's own
\* total is taken when it gives one.
\* Mutant: as answered.
AsAnswered(x) == x
Clamp(x) == IF ~Given(x) THEN 50 ELSE IF x < 0 THEN 0 ELSE IF x > 100 THEN 100 ELSE x
ValidateResult(a) ==
  IF Given(a.total) THEN 100 * Clamp(a.total)
  ELSE Weighted(Clamp(a.revenue), Clamp(a.margin), Clamp(a.debt), Clamp(a.guidance))
Fallback == 5000

-----------------------------------------------------------------------------
(* analyze                                                                   *)

Goto(r, l) == pc' = [pc EXCEPT ![r] = l]
Live == day < cache.until
\* A request: from the cache, or the analysis starts with the filings not seen
\* yet; the figures may fail.
Answer(r) ==
  /\ pc[r] = "idle" /\ Live
  /\ answer' = [score |-> cache.score, age |-> day - cache.at]
  /\ UNCHANGED <<day, company, claude, filings, seen, cache, pc, found>>
Gather(r) ==
  /\ pc[r] = "idle" /\ ~Live
  /\ \E figures \in {{company}, {}}, edgar \in BOOLEAN :
       /\ found' = [found EXCEPT ![r] = [filings |-> IF edgar THEN filings - seen ELSE 0, figures |-> figures]]
       /\ seen' = IF edgar THEN filings ELSE seen
  /\ Goto(r, "analyse")
  /\ UNCHANGED <<day, company, claude, filings, cache, answer>>

\* Nothing gathered; Claude, who may fail; or the rules, which need figures.
Scores(f) ==
  CASE f.filings = 0 /\ f.figures = {} -> {Fallback}
    [] (f.filings > 0 \/ f.figures # {}) /\ claude -> {ValidateResult(a) : a \in Answers} \cup {Fallback}
    [] OTHER -> IF f.figures = {} THEN {Fallback} ELSE {RuleScore(x) : x \in f.figures}
Analyse(r) ==
  /\ pc[r] = "analyse"
  /\ \E s \in Scores(found[r]) :
       /\ cache' = [score |-> s, at |-> day, until |-> day + CacheDays]
       /\ answer' = [score |-> s, age |-> 0]
  /\ found' = [found EXCEPT ![r] = NoEntry]
  /\ Goto(r, "idle")
  /\ UNCHANGED <<day, company, claude, filings, seen>>

-----------------------------------------------------------------------------
File == filings < MaxFilings /\ filings' = filings + 1 /\ UNCHANGED <<day, company, claude, seen, cache, pc, found, answer>>
NextDay == day < MaxDay /\ day' = day + 1 /\ UNCHANGED <<company, claude, filings, seen, cache, pc, found, answer>>

Init ==
  /\ day = 1 /\ company \in Companies /\ claude \in BOOLEAN
  /\ filings = 0 /\ seen = 0 /\ cache = NoEntry
  /\ pc = [r \in Requests |-> "idle"] /\ found = [r \in Requests |-> NoEntry]
  /\ answer = [score |-> Fallback, age |-> 0]
Next == File \/ NextDay \/ \E r \in Requests : Answer(r) \/ Gather(r) \/ Analyse(r)
Spec == Init /\ [][Next]_vars

(***************************************************************************)
(* Properties.                                                             *)
(***************************************************************************)
\* What is answered is a score, younger than the cache's life, whatever Claude said
\* and whichever of two requests stored it; and of two companies that differ in one
\* figure the better never scores lower (a margin of zero set apart).
Better(x, v, w) == IF x = "debt" THEN v <= w ELSE v >= w
AnswerSound ==
  /\ answer.score \in 0 .. 10000 /\ answer.age < CacheDays
  /\ \A x \in DOMAIN Levels : \A v \in Levels[x] :
       Given(company[x]) /\ company[x] # 0 /\ Better(x, v, company[x])
         => RuleScore([company EXCEPT ![x] = v]) >= RuleScore(company)
=============================================================================
