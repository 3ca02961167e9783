----------------------------- MODULE PartsProofs -----------------------------
(***************************************************************************)
(* What MCParts checks of parts on small instances, for any instance.      *)
(***************************************************************************)
EXTENDS MCParts, Sequences, Piles

(***************************************************************************)
(* A behaviour is one of one part.                                         *)
(***************************************************************************)
LEMMA OnePart ==
  ASSUME [PartsNext]_all
  PROVE  /\ part' = part
         /\ part = "gate" => [G!Next]_(G!vars)
         /\ part = "scan" => [S!Next]_(S!vars)
         /\ part = "research" => [D!Next]_(D!vars)
         /\ part = "earnings" => [C!DriftNext]_(C!driftVars)
         /\ part = "universe" => [U!Next]_(U!vars)
         /\ part = "accounts" => [Z2!Next]_(Z2!vars)
         /\ part = "hindsight" => [H!Next]_(H!vars)
         /\ part = "layers" => [X!Next]_(X!vars)
         /\ part = "tuner" => [T!Next]_(T!vars)
         /\ part = "allocation" => [O!Next]_x1
         /\ part = "macro" => [M!Next]_(M!vars)
         /\ part = "crowding" => [C!Next]_(C!vars)
         /\ part = "social" => [Q!Next]_(Q!vars)
<1> USE DEF PartsNext, all, fields, Alone, LedgerStep, AllocationStep, TunerStep, ScoreStep, WatchlistStep,
        SimulationStep, GateStep, BacktestStep, LayersStep, ScanStep, BrokerStep, EventsStep, ResearchStep,
        EarningsStep, CrowdingStep, HindsightStep, UniverseStep, FundamentalStep, ReplayStep, MacroStep,
        SentimentStep, ExtendedHoursStep, TimetableStep, AccountsStep, SocialStep,
        SelfCheckStep, WatchlistLogStep
<1>1. part' = part
  OBVIOUS
<1>2. part = "gate" => [G!Next]_(G!vars)
  BY DEF G!vars
<1>3. part = "scan" => [S!Next]_(S!vars)
  BY DEF S!vars
<1>4. part = "research" => [D!Next]_(D!vars)
  BY DEF D!vars
<1>5. part = "earnings" => [C!DriftNext]_(C!driftVars)
  BY DEF C!driftVars
<1>6. part = "universe" => [U!Next]_(U!vars)
  BY DEF U!vars
<1>7. part = "accounts" => [Z2!Next]_(Z2!vars)
  BY DEF Z2!vars
<1>8. part = "hindsight" => [H!Next]_(H!vars)
  BY DEF H!vars
<1>9. part = "layers" => [X!Next]_(X!vars)
  BY DEF X!vars
<1>10. part = "tuner" => [T!Next]_(T!vars)
  BY DEF T!vars
<1>11. part = "allocation" => [O!Next]_x1
  OBVIOUS
<1>12. part = "macro" => [M!Next]_(M!vars)
  BY DEF M!vars
<1>13. part = "crowding" => [C!Next]_(C!vars)
  BY DEF C!vars
<1>14. part = "social" => [Q!Next]_(Q!vars)
  BY DEF Q!vars
<1> HIDE DEF PartsNext, all, fields, Alone, LedgerStep, AllocationStep, TunerStep, ScoreStep, WatchlistStep,
        SimulationStep, GateStep, BacktestStep, LayersStep, ScanStep, BrokerStep, EventsStep, ResearchStep,
        EarningsStep, CrowdingStep, HindsightStep, UniverseStep, FundamentalStep, ReplayStep, MacroStep,
        SentimentStep, ExtendedHoursStep, TimetableStep, AccountsStep, SocialStep,
        SelfCheckStep, WatchlistLogStep
<1> QED
  BY <1>1, <1>2, <1>3, <1>4, <1>5, <1>6, <1>7, <1>8, <1>9, <1>10, <1>11, <1>12, <1>13, <1>14

(***************************************************************************)
(* The gate of the automatic approval.                                     *)
(***************************************************************************)
LEMMA GroundedStep == G!Grounded /\ [G!Next]_(G!vars) => G!Grounded'
<1> SUFFICES ASSUME G!Grounded, [G!Next]_(G!vars) PROVE G!Grounded'
  OBVIOUS
<1> USE DEF G!Grounded
<1>1. ASSUME NEW s \in GateSignals,
             \/ G!Gather(s) \/ G!CacheHit(s) \/ G!CacheMiss(s) \/ G!ClaudeFails(s) \/ G!OllamaFails(s)
             \/ G!EvaluationFails(s)
      PROVE  G!Grounded'
  BY <1>1 DEF G!Gather, G!CacheHit, G!CacheMiss, G!ClaudeFails, G!OllamaFails, G!EvaluationFails,
     G!AfterFallback, G!Goto, G!HandOn
<1>2. ASSUME NEW s \in GateSignals, G!Answer(s) PROVE G!Grounded'
  BY <1>2 DEF G!Answer, G!Put, G!CacheKey, G!Goto, G!HandOn
<1>3. CASE G!Move \/ G!Tick \/ UNCHANGED G!vars
  BY <1>3 DEF G!Move, G!Tick, G!vars
<1> QED
  BY <1>1, <1>2, <1>3 DEF G!Next

LEMMA ReturnsGrounded ==
  ASSUME GateCacheSteps \in Nat \ {0}, G!Grounded, [G!Next]_(G!vars)
  PROVE  G!ApprovalGroundedStep
<1> USE DEF G!Grounded
<1> DEFINE now == x1  step == x5  ctx == x6  result == x7  answers == x9
<1> SUFFICES ASSUME NEW s \in GateSignals, step[s] # "idle", step'[s] = "idle",
                    result'[s].decision = "APPROVE", result'[s].mode # "fallback_approve"
             PROVE  \E a \in answers' : /\ a.decision = "APPROVE" /\ a.key = G!Key(s, ctx[s])
                                        /\ now - a.time < GateCacheSteps
  BY DEF G!ApprovalGroundedStep
<1>2. CASE G!CacheHit(s)
  <2>1. PICK e \in G!Hits(s) : G!HandOn(s, e.decision, "cache")
    BY <1>2 DEF G!CacheHit
  <2>2. e.decision = "APPROVE"
    BY <2>1 DEF G!HandOn
  <2>3. e \in answers' /\ e.key = G!Key(s, ctx[s]) /\ now - e.time < GateCacheSteps
    BY <1>2, <2>1 DEF G!CacheHit, G!Hits, G!Live, G!CacheKey
  <2> QED
    BY <2>2, <2>3
<1>3. CASE G!Answer(s)
  <2>1. PICK d \in G!Decisions :
          /\ G!HandOn(s, d, step[s])
          /\ answers' = answers \cup {[key |-> G!Key(s, ctx[s]), decision |-> d, time |-> now]}
    BY <1>3 DEF G!Answer
  <2>2. d = "APPROVE"
    BY <2>1 DEF G!HandOn
  <2> DEFINE a == [key |-> G!Key(s, ctx[s]), decision |-> d, time |-> now]
  <2>3. a \in answers' /\ a.decision = "APPROVE" /\ a.key = G!Key(s, ctx[s]) /\ a.time = now
    BY <2>1, <2>2
  <2>4. now - now < GateCacheSteps
    OBVIOUS
  <2> QED
    BY <2>3, <2>4
<1>4. CASE G!OllamaFails(s) \/ G!EvaluationFails(s)
  <2>1. \/ G!HandOn(s, "APPROVE", "fallback_approve")
        \/ G!HandOn(s, "DEFER", "error")
    BY <1>4 DEF G!OllamaFails, G!EvaluationFails
  <2> QED
    BY <2>1 DEF G!HandOn
<1>5. CASE G!Gather(s) \/ G!CacheMiss(s) \/ G!ClaudeFails(s)
  BY <1>5 DEF G!Gather, G!CacheMiss, G!ClaudeFails, G!Goto
<1>6. ASSUME NEW r \in GateSignals, r # s,
             \/ G!Gather(r) \/ G!CacheHit(r) \/ G!CacheMiss(r) \/ G!Answer(r) \/ G!ClaudeFails(r)
             \/ G!OllamaFails(r) \/ G!EvaluationFails(r)
      PROVE  FALSE
  BY <1>6 DEF G!Gather, G!CacheHit, G!CacheMiss, G!Answer, G!ClaudeFails, G!OllamaFails,
     G!EvaluationFails, G!HandOn, G!Goto
<1>7. CASE G!Move \/ G!Tick \/ UNCHANGED G!vars
  BY <1>7 DEF G!Move, G!Tick, G!vars
<1> QED
  BY <1>2, <1>3, <1>4, <1>5, <1>6, <1>7 DEF G!Next

\* No approval out of nowhere (evaluate_signals_parallel, _cache_key): whatever fails,
\* moves or expires while several signals are asked about at once, with a cache whose
\* entries live for some time.
THEOREM ApprovalsStayGrounded ==
  ASSUME GateCacheSteps \in Nat \ {0}
  PROVE  PartsSpec => ApprovalGrounded
<1>1. PartsInit => (part = "gate" => G!Grounded)
  BY DEF PartsInit, G!Init, G!Grounded
<1>2. (part = "gate" => G!Grounded) /\ [PartsNext]_all => (part = "gate" => G!Grounded)'
  BY OnePart, GroundedStep
<1>3. (part = "gate" => G!Grounded) /\ [PartsNext]_all => [part = "gate" => G!ApprovalGroundedStep]_all
  BY OnePart, ReturnsGrounded
<1> QED
  BY <1>1, <1>2, <1>3, PTL DEF PartsSpec, ApprovalGrounded

(***************************************************************************)
(* The entry scan.                                                         *)
(***************************************************************************)
\* The scan counts with its own instance of the library.
LEMMA ScanCounts == \A set : S!Cardinality(set) = Cardinality(set)
BY DEF Cardinality, S!Cardinality

\* The entries of a bar are finitely many, and so are the runs about to add one.
LEMMA EntriesCounted ==
  ASSUME IsFiniteSet(ScanRunners), S!ScanSound, NEW s, NEW b
  PROVE  /\ IsFiniteSet(S!EntriesOf(s, b)) /\ Cardinality(S!EntriesOf(s, b)) \in Nat
         /\ IsFiniteSet(S!About(s, b)) /\ Cardinality(S!About(s, b)) \in Nat
         /\ Cardinality(S!About(s, b)) <= Cardinality(ScanRunners)
         /\ Cardinality(ScanRunners) \in Nat
<1> DEFINE signals == x4
<1>1. signals \in Seq(S!EntryRows)
  BY DEF S!ScanSound
<1>2. DOMAIN signals = 1 .. Len(signals) /\ Len(signals) \in Nat
  BY <1>1
<1>3. IsFiniteSet(DOMAIN signals)
  BY <1>2, FS_Interval
<1>4. S!EntriesOf(s, b) \in SUBSET DOMAIN signals /\ S!About(s, b) \in SUBSET ScanRunners
  BY DEF S!EntriesOf, S!About
<1> HIDE DEF signals
<1> QED
  BY <1>3, <1>4, FS_Subset, FS_CardinalityType

\* Steps that neither add a signal nor give a run anything to signal.
LEMMA EntriesStay ==
  ASSUME IsFiniteSet(ScanRunners), S!ScanSound,
         DOMAIN x4' = DOMAIN x4,
         \A i \in DOMAIN x4 : x4'[i].symbol = x4[i].symbol /\ x4'[i].bar = x4[i].bar,
         \A s \in ScanSymbols, b \in S!Bars :
           S!EntriesOf(s, b) # {} => S!About(s, b)' \subseteq S!About(s, b)
  PROVE  \A s \in ScanSymbols, b \in S!Bars :
           S!EntriesOf(s, b)' # {} =>
             Cardinality(S!EntriesOf(s, b)') + Cardinality(S!About(s, b)') <= Cardinality(ScanRunners)
<1> SUFFICES ASSUME NEW s \in ScanSymbols, NEW b \in S!Bars, S!EntriesOf(s, b)' # {}
             PROVE  Cardinality(S!EntriesOf(s, b)') + Cardinality(S!About(s, b)') <= Cardinality(ScanRunners)
  OBVIOUS
<1>1. S!EntriesOf(s, b)' = S!EntriesOf(s, b)
  BY DEF S!EntriesOf
<1>2. Cardinality(S!About(s, b)') \in Nat /\ Cardinality(S!About(s, b)') <= Cardinality(S!About(s, b))
  <2>1. S!About(s, b)' \in SUBSET S!About(s, b) /\ IsFiniteSet(S!About(s, b))
    BY <1>1, EntriesCounted
  <2> HIDE DEF S!About
  <2> QED
    BY <2>1, FS_Subset, FS_CardinalityType
<1>3. Cardinality(S!EntriesOf(s, b)) + Cardinality(S!About(s, b)) <= Cardinality(ScanRunners)
  BY <1>1, ScanCounts DEF S!ScanSound
<1>4. Cardinality(S!EntriesOf(s, b)) \in Nat /\ Cardinality(S!About(s, b)) \in Nat /\ Cardinality(ScanRunners) \in Nat
  BY EntriesCounted
<1>5. Cardinality(S!EntriesOf(s, b)') = Cardinality(S!EntriesOf(s, b))
  BY <1>1
<1> QED
  BY <1>2, <1>3, <1>4, <1>5

\* Steps that leave every run its candidates and every entry its symbol and bar.
LEMMA ScanStays ==
  ASSUME IsFiniteSet(ScanRunners), S!ScanSound,
         x1' \in Int,
         DOMAIN x3' = S!Bars, \A b \in S!Bars : DOMAIN x3'[b] \subseteq ScanSymbols,
         x4' \in Seq(S!EntryRows), DOMAIN x4' = DOMAIN x4,
         \A i \in DOMAIN x4 : x4'[i].symbol = x4[i].symbol /\ x4'[i].bar = x4[i].bar,
         x7' = x7, x8' = x8,
         DOMAIN x6' = ScanRunners, \A r \in ScanRunners : x7[r] # <<>> => x6'[r] = "insert"
  PROVE  S!ScanSound'
<1>1. \A s \in ScanSymbols, b \in S!Bars : S!About(s, b)' = S!About(s, b)
  BY DEF S!About
<1>2. \A s \in ScanSymbols, b \in S!Bars :
        S!EntriesOf(s, b)' # {} =>
          Cardinality(S!EntriesOf(s, b)') + Cardinality(S!About(s, b)') <= Cardinality(ScanRunners)
  <2> HIDE DEF S!About
  <2> QED
    BY <1>1, EntriesStay
<1>3. \A s \in ScanSymbols, b \in S!Bars :
        S!EntriesOf(s, b)' # {} =>
          S!Cardinality(S!EntriesOf(s, b)') + S!Cardinality(S!About(s, b)') <= S!Cardinality(ScanRunners)
  BY <1>2, ScanCounts
<1>4. /\ DOMAIN x8' = ScanRunners /\ x7' \in [ScanRunners -> Seq(ScanSymbols)]
      /\ \A r \in ScanRunners : x7'[r] # <<>> => x6'[r] = "insert" /\ x8'[r] \in S!Bars
      /\ \A r \in ScanRunners : \A i, j \in DOMAIN x7'[r] : x7'[r][i] = x7'[r][j] => i = j
  BY DEF S!ScanSound
<1>5. (S!Bars)' = S!Bars /\ (S!EntryRows)' = S!EntryRows
  BY DEF S!Bars, S!EntryRows
<1> QED
  BY <1>3, <1>4, <1>5 DEF S!ScanSound

\* The candidates of a scan: each once, none signalled on the bar.
LEMMA CandidatesOnce ==
  ASSUME IsFiniteSet(ScanSymbols), S!ScanSound, NEW b \in S!Bars, NEW order \in S!Orders(S!Eligible(b))
  PROVE  /\ order \in Seq(ScanSymbols)
         /\ \A i, j \in DOMAIN order : order[i] = order[j] => i = j
         /\ \A i \in DOMAIN order : S!EntriesOf(order[i], b) = {}
<1> DEFINE eligible == S!Eligible(b)
           n == Cardinality(eligible)
<1>1. eligible \in SUBSET ScanSymbols
  BY DEF S!Eligible, S!ScanSound
<1>2. n \in Nat
  <2> HIDE DEF eligible
  <2> QED
    BY <1>1, FS_Subset, FS_CardinalityType
<1>3. order \in [1 .. n -> eligible] /\ \A i, j \in 1 .. n : i # j => order[i] # order[j]
  BY ScanCounts DEF S!Orders, S!Injection, S!IsInjective
<1>4. \A s \in eligible : S!EntriesOf(s, b) = {}
  BY DEF S!Eligible, S!Signalled, S!EntriesOf
<1>5. DOMAIN order = 1 .. n
  BY <1>3
<1>6. order \in Seq(ScanSymbols)
  <2> HIDE DEF eligible, n
  <2> QED
    BY <1>1, <1>2, <1>3
<1> HIDE DEF eligible, n
<1> QED
  BY <1>3, <1>4, <1>5, <1>6

\* The scan finds the newest bar.
LEMMA NewestFound ==
  ASSUME ScanBars \in Nat, NEW c \in S!Bars, x3[c] # <<>>
  PROVE  S!NewestBar \in S!Bars
<1> DEFINE filled == {d \in S!Bars : x3[d] # <<>>}
<1>1. filled \in SUBSET Int /\ filled # {}
  BY DEF S!Bars
<1>2. IsFiniteSet(filled)
  <2>1. IsFiniteSet(S!Bars)
    BY FS_Interval DEF S!Bars
  <2>2. filled \in SUBSET S!Bars
    OBVIOUS
  <2> QED
    BY <2>1, <2>2, FS_Subset
<1>3. PICK m \in filled : \A d \in filled : d <= m
  <2> HIDE DEF filled
  <2> QED
    BY <1>1, <1>2, Extremes
<1>4. m \in S!Bars /\ x3[m] # <<>> /\ \A d \in S!Bars : d > m => x3[d] = <<>>
  BY <1>3 DEF S!Bars
<1> QED
  BY <1>4 DEF S!NewestBar

\* A scan gives its run candidates without an entry on the bar.
LEMMA ScanFinds ==
  ASSUME IsFiniteSet(ScanSymbols), IsFiniteSet(ScanRunners), ScanBars \in Nat, S!ScanSound,
         NEW r \in ScanRunners, S!Scan(r)
  PROVE  S!ScanSound'
<1> DEFINE inserted == x3  signals == x4  step == x6  todo == x7  bar == x8
<1>1. CASE \A b \in S!Bars : inserted[b] = <<>>
  <2>1. UNCHANGED <<x1, inserted, signals, todo, bar>> /\ step' = [step EXCEPT ![r] = "insert"]
    BY <1>1 DEF S!Scan, S!Goto
  <2>2. DOMAIN step' = ScanRunners /\ \A q \in ScanRunners : todo[q] # <<>> => step'[q] = "insert"
    BY <2>1 DEF S!ScanSound
  <2>3. /\ x1' \in Int /\ DOMAIN inserted' = S!Bars /\ signals' \in Seq(S!EntryRows)
        /\ \A b \in S!Bars : DOMAIN inserted'[b] \subseteq ScanSymbols
    BY <2>1 DEF S!ScanSound
  <2> QED
    BY <2>1, <2>2, <2>3, ScanStays
<1>2. CASE ~ \A b \in S!Bars : inserted[b] = <<>>
  <2> DEFINE b == S!NewestBar
  <2>1. b \in S!Bars
    BY <1>2, NewestFound
  <2>2. PICK order \in S!Orders(S!Eligible(b)) : todo' = [todo EXCEPT ![r] = order]
    BY <1>2 DEF S!Scan
  <2>3. /\ bar' = [bar EXCEPT ![r] = b] /\ step' = [step EXCEPT ![r] = "insert"]
        /\ UNCHANGED <<x1, inserted, signals>>
    BY <1>2 DEF S!Scan, S!Goto
  <2>4. /\ order \in Seq(ScanSymbols)
        /\ \A i, j \in DOMAIN order : order[i] = order[j] => i = j
        /\ \A i \in DOMAIN order : S!EntriesOf(order[i], b) = {}
    BY <2>1, <2>2, CandidatesOnce
  <2> HIDE DEF b
  <2>5. ASSUME NEW s \in ScanSymbols, NEW c \in S!Bars, S!EntriesOf(s, c) # {}
        PROVE  S!About(s, c)' \subseteq S!About(s, c)
    <3> SUFFICES ASSUME NEW q \in ScanRunners, q \in S!About(s, c)' PROVE q \in S!About(s, c)
      BY DEF S!About
    <3>1. DOMAIN todo = ScanRunners /\ DOMAIN bar = ScanRunners
      BY DEF S!ScanSound
    <3>2. CASE q = r
      BY <2>2, <2>3, <2>4, <2>5, <3>1, <3>2 DEF S!About
    <3>3. CASE q # r
      BY <2>2, <2>3, <3>1, <3>3 DEF S!About
    <3> QED
      BY <3>2, <3>3
  <2>6. \A s \in ScanSymbols, c \in S!Bars :
          S!EntriesOf(s, c)' # {} =>
            Cardinality(S!EntriesOf(s, c)') + Cardinality(S!About(s, c)') <= Cardinality(ScanRunners)
    BY <2>3, <2>5, EntriesStay
  <2>7. \A q \in ScanRunners : todo'[q] = (IF q = r THEN order ELSE todo[q]) /\ bar'[q] = (IF q = r THEN b ELSE bar[q])
                                /\ step'[q] = (IF q = r THEN "insert" ELSE step[q])
    BY <2>2, <2>3 DEF S!ScanSound
  <2>8. DOMAIN step' = ScanRunners /\ DOMAIN bar' = ScanRunners /\ todo' \in [ScanRunners -> Seq(ScanSymbols)]
    BY <2>2, <2>3, <2>4 DEF S!ScanSound
  <2>9. \A q \in ScanRunners : \A i, j \in DOMAIN todo'[q] : todo'[q][i] = todo'[q][j] => i = j
    BY <2>4, <2>7 DEF S!ScanSound
  <2>10. \A q \in ScanRunners : todo'[q] # <<>> => step'[q] = "insert" /\ bar'[q] \in S!Bars
    BY <2>1, <2>7 DEF S!ScanSound
  <2> QED
    BY <2>3, <2>6, <2>8, <2>9, <2>10, ScanCounts DEF S!ScanSound, S!Bars
<1> QED
  BY <1>1, <1>2

\* An insertion takes its run out of those about to signal the symbol.
LEMMA InsertSound ==
  ASSUME IsFiniteSet(ScanRunners), S!ScanSound, NEW r \in ScanRunners, S!Insert(r)
  PROVE  S!ScanSound'
<1> DEFINE signals == x4  todo == x7  bar == x8
           s == Head(todo[r])
           b == bar[r]
           row == [symbol |-> s, bar |-> b, day |-> x1, status |-> "pending", scored |-> FALSE]
<1>1. /\ todo[r] # <<>> /\ todo[r] \in Seq(ScanSymbols) /\ b \in S!Bars /\ s \in ScanSymbols
      /\ s = todo[r][1] /\ 1 \in DOMAIN todo[r]
  <2>1. todo[r] # <<>> /\ todo[r] \in Seq(ScanSymbols) /\ b \in S!Bars
    BY DEF S!Insert, S!ScanSound
  <2> QED
    BY <2>1
<1>2. signals' = Append(signals, row) /\ row \in S!EntryRows /\ signals \in Seq(S!EntryRows)
  BY <1>1 DEF S!Insert, S!EntryRows, S!ScanSound
<1>3. todo' = [todo EXCEPT ![r] = Tail(@)] /\ UNCHANGED <<x1, x3, x6, bar>>
  BY DEF S!Insert
<1>4. \A c, q : S!EntriesOf(c, q)' = S!EntriesOf(c, q) \cup {i \in {Len(signals) + 1} : c = s /\ q = b}
  BY <1>2 DEF S!EntriesOf
<1>5. Len(signals) + 1 \notin DOMAIN signals
  BY <1>2
<1>6. \A q \in ScanRunners : todo'[q] = IF q = r THEN Tail(todo[r]) ELSE todo[q]
  BY <1>3 DEF S!ScanSound
<1>7. \A i \in DOMAIN Tail(todo[r]) : /\ Tail(todo[r])[i] = todo[r][i + 1] /\ i + 1 \in DOMAIN todo[r]
                                      /\ i \in Int /\ i # 0
  BY <1>1
<1>8. \A i, j \in DOMAIN todo[r] : todo[r][i] = todo[r][j] => i = j
  BY DEF S!ScanSound
<1>9. \A c, q : c = s /\ q = b => S!About(c, q)' = S!About(c, q) \ {r} /\ r \in S!About(c, q)
  <2>1. \A i \in DOMAIN Tail(todo[r]) : Tail(todo[r])[i] # s
    BY <1>1, <1>7, <1>8
  <2>2. r \in S!About(s, b)
    BY <1>1 DEF S!About
  <2>3. \A q \in ScanRunners : q # r => bar'[q] = bar[q] /\ todo'[q] = todo[q]
    BY <1>3, <1>6
  <2>4. todo'[r] = Tail(todo[r]) /\ bar'[r] = b
    BY <1>3, <1>6
  <2> SUFFICES ASSUME NEW c, NEW q, c = s, q = b, NEW p \in ScanRunners
               PROVE  p \in S!About(c, q)' <=> p \in S!About(c, q) /\ p # r
    BY <2>2 DEF S!About
  <2>5. CASE p = r
    BY <2>1, <2>4, <2>5 DEF S!About
  <2>6. CASE p # r
    BY <2>3, <2>6 DEF S!About
  <2> QED
    BY <2>5, <2>6
<1>10. \A c, q : S!About(c, q)' \subseteq S!About(c, q)
  BY <1>3, <1>6, <1>7 DEF S!About
<1>11. ASSUME NEW c \in ScanSymbols, NEW q \in S!Bars, S!EntriesOf(c, q)' # {}
       PROVE  Cardinality(S!EntriesOf(c, q)') + Cardinality(S!About(c, q)') <= Cardinality(ScanRunners)
  <2>1. /\ IsFiniteSet(S!EntriesOf(c, q)) /\ Cardinality(S!EntriesOf(c, q)) \in Nat
        /\ IsFiniteSet(S!About(c, q)) /\ Cardinality(S!About(c, q)) \in Nat
        /\ Cardinality(S!About(c, q)) <= Cardinality(ScanRunners) /\ Cardinality(ScanRunners) \in Nat
    BY EntriesCounted
  <2>2. S!EntriesOf(c, q) # {} =>
          Cardinality(S!EntriesOf(c, q)) + Cardinality(S!About(c, q)) <= Cardinality(ScanRunners)
    BY ScanCounts DEF S!ScanSound
  <2>3. CASE c = s /\ q = b
    <3>1. S!EntriesOf(c, q)' = S!EntriesOf(c, q) \cup {Len(signals) + 1}
      BY <1>4, <2>3
    <3>2. Len(signals) + 1 \notin S!EntriesOf(c, q)
      BY <1>5 DEF S!EntriesOf
    <3>3. Cardinality(S!EntriesOf(c, q)') = Cardinality(S!EntriesOf(c, q)) + 1
      <4> HIDE DEF S!EntriesOf, signals
      <4> QED
        BY <2>1, <3>1, <3>2, FS_AddElement
    <3>4. Cardinality(S!About(c, q)') = Cardinality(S!About(c, q)) - 1
      <4>1. S!About(c, q)' = S!About(c, q) \ {r} /\ r \in S!About(c, q)
        BY <1>9, <2>3
      <4> HIDE DEF S!About
      <4> QED
        BY <2>1, <4>1, FS_RemoveElement
    <3>5. CASE S!EntriesOf(c, q) = {}
      <4>1. Cardinality(S!EntriesOf(c, q)) = 0
        BY <3>5, FS_EmptySet
      <4> QED
        BY <2>1, <3>3, <3>4, <4>1
    <3> QED
      BY <2>1, <2>2, <3>3, <3>4, <3>5
  <2>4. CASE ~ (c = s /\ q = b)
    <3>1. S!EntriesOf(c, q)' = S!EntriesOf(c, q)
      BY <1>4, <2>4
    <3>2. Cardinality(S!About(c, q)') \in Nat /\ Cardinality(S!About(c, q)') <= Cardinality(S!About(c, q))
      <4> HIDE DEF S!About
      <4>1. S!About(c, q)' \in SUBSET S!About(c, q)
        BY <1>10
      <4> QED
        BY <2>1, <4>1, FS_Subset, FS_CardinalityType
    <3>3. Cardinality(S!EntriesOf(c, q)') = Cardinality(S!EntriesOf(c, q))
      BY <3>1
    <3> QED
      BY <1>11, <2>1, <2>2, <3>1, <3>2, <3>3
  <2> QED
    BY <2>3, <2>4
<1>12. \A c \in ScanSymbols, q \in S!Bars :
        S!EntriesOf(c, q)' # {} =>
          S!Cardinality(S!EntriesOf(c, q)') + S!Cardinality(S!About(c, q)') <= S!Cardinality(ScanRunners)
  BY <1>11, ScanCounts
<1>13. todo' \in [ScanRunners -> Seq(ScanSymbols)] /\ signals' \in Seq(S!EntryRows)
  BY <1>1, <1>2, <1>3 DEF S!ScanSound
<1>14. \A q \in ScanRunners : todo'[q] # <<>> => x6[q] = "insert" /\ bar[q] \in S!Bars
  BY <1>1, <1>6 DEF S!ScanSound
<1>15. \A q \in ScanRunners : \A i, j \in DOMAIN todo'[q] : todo'[q][i] = todo'[q][j] => i = j
  <2>1. \A i, j \in DOMAIN Tail(todo[r]) : Tail(todo[r])[i] = Tail(todo[r])[j] => i = j
    BY <1>7, <1>8
  <2> QED
    BY <1>6, <2>1 DEF S!ScanSound
<1> QED
  BY <1>3, <1>12, <1>13, <1>14, <1>15 DEF S!ScanSound, S!Bars, S!EntryRows

\* The steps that change a status or a score.
LEMMA MarkSound ==
  ASSUME IsFiniteSet(ScanRunners), S!ScanSound,
         \/ \E r \in ScanRunners : S!Score(r)
         \/ \E i \in DOMAIN x4 : S!Execute(i) \/ S!Expire(i)
  PROVE  S!ScanSound'
<1> DEFINE inserted == x3  signals == x4  step == x6  todo == x7  bar == x8
<1>0. /\ x1 \in Int /\ DOMAIN inserted = S!Bars /\ \A b \in S!Bars : DOMAIN inserted[b] \subseteq ScanSymbols
      /\ signals \in Seq(S!EntryRows)
      /\ DOMAIN step = ScanRunners /\ \A r \in ScanRunners : todo[r] # <<>> => step[r] = "insert"
  BY DEF S!ScanSound
<1>1. ASSUME NEW r \in ScanRunners, S!Score(r) PROVE S!ScanSound'
  <2>1. PICK failed : signals' = [i \in DOMAIN signals |->
                                    IF i \in S!Unscored \ failed THEN [signals[i] EXCEPT !.scored = TRUE]
                                    ELSE signals[i]]
    BY <1>1 DEF S!Score
  <2>2. UNCHANGED <<x1, inserted, todo, bar>> /\ step' = [step EXCEPT ![r] = "idle"] /\ todo[r] = <<>>
    BY <1>1 DEF S!Score, S!Goto
  <2>3. \A i \in DOMAIN signals : /\ [signals[i] EXCEPT !.scored = TRUE] \in S!EntryRows
                                  /\ signals[i] \in S!EntryRows
    <3>1. \A e \in S!EntryRows : [e EXCEPT !.scored = TRUE] \in S!EntryRows
      BY DEF S!EntryRows
    <3>2. \A i \in DOMAIN signals : signals[i] \in S!EntryRows
      BY <1>0
    <3> QED
      BY <3>1, <3>2, Zenon
  <2>4. signals' \in Seq(S!EntryRows) /\ DOMAIN signals' = DOMAIN signals
    BY <1>0, <2>1, <2>3
  <2>5. \A i \in DOMAIN signals : signals'[i].symbol = signals[i].symbol /\ signals'[i].bar = signals[i].bar
    BY <2>1, <2>3 DEF S!EntryRows
  <2>6. DOMAIN step' = ScanRunners /\ \A q \in ScanRunners : todo[q] # <<>> => step'[q] = "insert"
    BY <1>0, <2>2
  <2> QED
    BY <1>0, <2>2, <2>4, <2>5, <2>6, ScanStays
<1>2. ASSUME NEW i \in DOMAIN signals, S!Execute(i) \/ S!Expire(i) PROVE S!ScanSound'
  <2>1. PICK v \in {"executed", "expired"} : signals' = [signals EXCEPT ![i].status = v]
    BY <1>2 DEF S!Execute, S!Expire, S!SetStatus
  <2>2. UNCHANGED <<x1, inserted, step, todo, bar>>
    BY <1>2 DEF S!Execute, S!Expire
  <2>3. \A j \in DOMAIN signals : signals[j] \in S!EntryRows /\ [signals[j] EXCEPT !.status = v] \in S!EntryRows
    <3>1. \A e \in S!EntryRows : [e EXCEPT !.status = v] \in S!EntryRows
      BY <2>1 DEF S!EntryRows
    <3>2. \A j \in DOMAIN signals : signals[j] \in S!EntryRows
      BY <1>0
    <3> QED
      BY <3>1, <3>2, Zenon
  <2>4. signals' \in Seq(S!EntryRows) /\ DOMAIN signals' = DOMAIN signals
    BY <1>0, <2>1, <2>3
  <2>5. \A j \in DOMAIN signals : signals'[j].symbol = signals[j].symbol /\ signals'[j].bar = signals[j].bar
    BY <2>1, <2>3 DEF S!EntryRows
  <2> QED
    BY <1>0, <2>2, <2>4, <2>5, ScanStays
<1> QED
  BY <1>1, <1>2

LEMMA ScanSoundStep ==
  ASSUME IsFiniteSet(ScanSymbols), IsFiniteSet(ScanRunners), ScanBars \in Nat, S!ScanSound,
         [S!Next]_(S!vars)
  PROVE  S!ScanSound'
<1> DEFINE inserted == x3  signals == x4  step == x6  todo == x7  bar == x8
<1>0. /\ x1 \in Int /\ DOMAIN inserted = S!Bars /\ \A b \in S!Bars : DOMAIN inserted[b] \subseteq ScanSymbols
      /\ signals \in Seq(S!EntryRows)
      /\ DOMAIN step = ScanRunners /\ \A r \in ScanRunners : todo[r] # <<>> => step[r] = "insert"
  BY DEF S!ScanSound
<1>1. ASSUME NEW r \in ScanRunners, S!Start(r) \/ S!Halted(r) PROVE S!ScanSound'
  <2>1. PICK v \in {"collect", "insert"} : step' = [step EXCEPT ![r] = v]
    BY <1>1 DEF S!Start, S!Halted, S!Goto
  <2>2. UNCHANGED <<x1, inserted, signals, todo, bar>> /\ step[r] # "insert"
    BY <1>1 DEF S!Start, S!Halted
  <2>3. DOMAIN step' = ScanRunners /\ \A q \in ScanRunners : todo[q] # <<>> => step'[q] = "insert"
    BY <1>0, <2>1, <2>2
  <2> QED
    BY <1>0, <2>2, <2>3, ScanStays
<1>2. ASSUME NEW r \in ScanRunners, S!Collect(r) PROVE S!ScanSound'
  <2>1. PICK got \in SUBSET ScanSymbols : \E verdict \in [got -> BOOLEAN] :
          inserted' = [inserted EXCEPT ![x2] =
                     [s \in got \cup DOMAIN @ |-> IF s \in got THEN verdict[s] ELSE @[s]]]
    BY <1>2 DEF S!Collect
  <2>2. /\ UNCHANGED <<x1, signals, todo, bar>> /\ step' = [step EXCEPT ![r] = "scan"]
        /\ step[r] = "collect"
    BY <1>2 DEF S!Collect, S!Goto
  <2>3. DOMAIN inserted' = S!Bars /\ \A b \in S!Bars : DOMAIN inserted'[b] \subseteq ScanSymbols
    BY <1>0, <2>1
  <2>4. DOMAIN step' = ScanRunners /\ \A q \in ScanRunners : todo[q] # <<>> => step'[q] = "insert"
    BY <1>0, <2>2
  <2> QED
    BY <1>0, <2>2, <2>3, <2>4, ScanStays
<1>3. ASSUME NEW r \in ScanRunners, S!Scan(r) PROVE S!ScanSound'
  BY <1>3, ScanFinds
<1>4. ASSUME NEW r \in ScanRunners, S!Insert(r) PROVE S!ScanSound'
  BY <1>4, InsertSound
<1>5. CASE \/ \E r \in ScanRunners : S!Score(r)
           \/ \E i \in DOMAIN x4 : S!Execute(i) \/ S!Expire(i)
  BY <1>5, MarkSound
<1>6. CASE S!NextDay \/ (\E s \in ScanSymbols : S!Sell(s)) \/ UNCHANGED S!vars
  <2>1. UNCHANGED <<inserted, signals, step, todo, bar>> /\ x1' \in Int
    BY <1>0, <1>6 DEF S!NextDay, S!Sell, S!vars
  <2> QED
    BY <1>0, <2>1, ScanStays
<1>7. CASE S!Restart
  <2>1. /\ UNCHANGED <<x1, inserted, signals, bar>>
        /\ step' = [r \in ScanRunners |-> "idle"] /\ todo' = [r \in ScanRunners |-> <<>>]
    BY <1>7 DEF S!Restart
  <2>2. \A s \in ScanSymbols, b \in S!Bars : S!About(s, b)' \subseteq S!About(s, b)
    BY <2>1 DEF S!About
  <2>3. \A s \in ScanSymbols, b \in S!Bars :
          S!EntriesOf(s, b)' # {} =>
            Cardinality(S!EntriesOf(s, b)') + Cardinality(S!About(s, b)') <= Cardinality(ScanRunners)
    BY <2>1, <2>2, EntriesStay
  <2>4. \A s \in ScanSymbols, b \in S!Bars :
          S!EntriesOf(s, b)' # {} =>
            S!Cardinality(S!EntriesOf(s, b)') + S!Cardinality(S!About(s, b)') <= S!Cardinality(ScanRunners)
    BY <2>3, ScanCounts
  <2>5. todo' \in [ScanRunners -> Seq(ScanSymbols)] /\ DOMAIN bar = ScanRunners
    BY <2>1 DEF S!ScanSound
  <2> QED
    BY <1>0, <2>1, <2>4, <2>5 DEF S!ScanSound, S!Bars, S!EntryRows
<1> QED
  BY <1>1, <1>2, <1>3, <1>4, <1>5, <1>6, <1>7 DEF S!Next

\* A bar gives a symbol no more entry signals than there are runs that may be under way
\* (scan_entries, get_entry_symbols_for_bar), for any universe, any number of days, runs,
\* restarts and positions.
THEOREM EntriesStayBounded ==
  ASSUME IsFiniteSet(ScanSymbols), IsFiniteSet(ScanRunners), ScanBars \in Nat
  PROVE  PartsSpec => []EntriesBounded
<1>1. PartsInit => (part = "scan" => S!ScanSound)
  <2> SUFFICES ASSUME PartsInit, part = "scan" PROVE S!ScanSound
    OBVIOUS
  <2>1. S!Init
    BY DEF PartsInit
  <2>2. \A s, b : S!EntriesOf(s, b) = {}
    BY <2>1 DEF S!Init, S!EntriesOf
  <2> QED
    BY <2>1, <2>2 DEF S!Init, S!ScanSound
<1>2. (part = "scan" => S!ScanSound) /\ [PartsNext]_all => (part = "scan" => S!ScanSound)'
  BY OnePart, ScanSoundStep
<1>3. (part = "scan" => S!ScanSound) => EntriesBounded
  <2> SUFFICES ASSUME S!ScanSound, NEW s \in ScanSymbols, NEW b \in S!Bars
               PROVE  Cardinality(S!EntriesOf(s, b)) <= Cardinality(ScanRunners)
    BY ScanCounts DEF EntriesBounded, S!EntriesBounded
  <2>1. /\ Cardinality(S!EntriesOf(s, b)) \in Nat /\ Cardinality(S!About(s, b)) \in Nat
        /\ Cardinality(ScanRunners) \in Nat
    BY EntriesCounted
  <2>2. CASE S!EntriesOf(s, b) = {}
    <3>1. Cardinality(S!EntriesOf(s, b)) = 0
      BY <2>2, FS_EmptySet
    <3> QED
      BY <2>1, <3>1
  <2>3. CASE S!EntriesOf(s, b) # {}
    BY <2>1, <2>3, ScanCounts DEF S!ScanSound
  <2> QED
    BY <2>2, <2>3
<1> QED
  BY <1>1, <1>2, <1>3, PTL DEF PartsSpec

(***************************************************************************)
(* The research run.                                                       *)
(***************************************************************************)
LEMMA ResearchCounts == \A set : D!Cardinality(set) = Cardinality(set)
BY DEF Cardinality, D!Cardinality

LEMMA TheOthers ==
  ASSUME NEW n \in Nat, NEW k \in 1 .. n
  PROVE  IsFiniteSet((1 .. n) \ {k}) /\ Cardinality((1 .. n) \ {k}) = n - 1
<1>1. 1 \in Int /\ n \in Int /\ (IF 1 > n THEN 0 ELSE n - 1 + 1) = n
  OBVIOUS
<1>2. IsFiniteSet(1 .. n) /\ Cardinality(1 .. n) = IF 1 > n THEN 0 ELSE n - 1 + 1
  BY <1>1, FS_Interval, Zenon
<1>3. IsFiniteSet((1 .. n) \ {k}) /\ Cardinality((1 .. n) \ {k}) = Cardinality(1 .. n) - 1
  BY <1>2, FS_RemoveElement, Zenon
<1> QED
  BY <1>1, <1>2, <1>3

\* A base that fits the list is known row by row.
LEMMA AllListed ==
  ASSUME Grades \subseteq Int, KnownLimit \in Int, D!ReadingSound, Len(x1) <= KnownLimit
  PROVE  \A i \in DOMAIN x1 : x1[i].url \in D!Known
<1> DEFINE base == x1
<1> SUFFICES ASSUME NEW k \in DOMAIN base PROVE base[k].url \in D!Known
  OBVIOUS
<1> DEFINE earlier == {j \in DOMAIN base : D!Before(j, k)}
           others == (1 .. Len(base)) \ {k}
<1>1. base \in Seq(D!Knowledge) /\ DOMAIN base = 1 .. Len(base) /\ Len(base) \in Nat
  BY DEF D!ReadingSound
<1>2. IsFiniteSet(others) /\ Cardinality(others) = Len(base) - 1
  BY <1>1, TheOthers
<1>3. base[k].grade \in Int
  <2>1. base[k] \in D!Knowledge
    BY <1>1
  <2> QED
    BY <2>1 DEF D!Knowledge
<1>4. earlier \in SUBSET others
  BY <1>1, <1>3 DEF D!Before
<1>5. Cardinality(earlier) < KnownLimit
  <2> HIDE DEF earlier, others
  <2> QED
    BY <1>1, <1>2, <1>4, FS_Subset, FS_CardinalityType
<1> QED
  BY <1>5, ResearchCounts DEF D!Known, D!Listing

LEMMA ReadingStep ==
  ASSUME Grades \subseteq Int, KnownLimit \in Int, ItemsARun \in Nat, D!ReadingSound, [D!Next]_(D!vars)
  PROVE  D!ReadingSound'
<1> DEFINE base == x1  queue == x3  known == x4  size == x5  runs == x6
<1>0. /\ base \in Seq(D!Knowledge) /\ queue \in Seq(Urls) /\ runs \in Int
      /\ size \in 0 .. Len(base) /\ Len(base) \in Nat /\ DOMAIN base = 1 .. Len(base)
  BY DEF D!ReadingSound
<1>1. CASE D!Fetch
  <2>1. PICK n \in 0 .. 2 : \E list \in [1 .. n -> Urls \ D!Known] :
          queue' = SubSeq(list, 1, IF Len(list) < ItemsARun THEN Len(list) ELSE ItemsARun)
    BY <1>1 DEF D!Fetch, D!Lists
  <2>2. PICK list \in [1 .. n -> Urls \ D!Known] :
          queue' = SubSeq(list, 1, IF Len(list) < ItemsARun THEN Len(list) ELSE ItemsARun)
    BY <2>1
  <2>3. list \in Seq(Urls) /\ Len(list) = n
    BY <2>2
  <2>4. queue' \in Seq(Urls) /\ \A i \in DOMAIN queue' : i \in 1 .. n /\ queue'[i] = list[i]
    BY <2>2, <2>3
  <2>5. base' = base /\ known' = D!Known /\ size' = Len(base) /\ runs' = runs + 1
    BY <1>1 DEF D!Fetch
  <2>6. \A i \in DOMAIN queue' : queue'[i] \notin known'
    BY <2>2, <2>4, <2>5
  <2>7. size' <= KnownLimit => \A i \in 1 .. size' : base'[i].url \in known'
    BY <1>0, <2>5, AllListed
  <2> QED
    BY <1>0, <2>4, <2>5, <2>6, <2>7 DEF D!ReadingSound, D!Knowledge
<1>2. CASE D!Skip
  <2>1. queue # <<>> /\ queue' = Tail(queue) /\ UNCHANGED <<base, x2, known, size, runs>>
    BY <1>2 DEF D!Skip
  <2>2. queue' \in Seq(Urls) /\ \A i \in DOMAIN queue' : i + 1 \in DOMAIN queue /\ queue'[i] = queue[i + 1]
    BY <1>0, <2>1
  <2> QED
    BY <1>0, <2>1, <2>2 DEF D!ReadingSound, D!Knowledge
<1>3. CASE D!AddKnowledge
  <2>1. PICK g \in Grades : base' = Append(base, [url |-> Head(queue), grade |-> g, run |-> runs])
    BY <1>3 DEF D!AddKnowledge
  <2> DEFINE row == [url |-> Head(queue), grade |-> g, run |-> runs]
  <2>2. queue # <<>> /\ queue' = Tail(queue) /\ UNCHANGED <<x2, known, size, runs>> /\ x2 = "read"
    BY <1>3 DEF D!AddKnowledge
  <2>3. queue' \in Seq(Urls) /\ \A i \in DOMAIN queue' : i + 1 \in DOMAIN queue /\ queue'[i] = queue[i + 1]
    BY <1>0, <2>2
  <2>4. row \in D!Knowledge
    BY <1>0, <2>2 DEF D!Knowledge
  <2>5. /\ base' \in Seq(D!Knowledge) /\ Len(base') = Len(base) + 1
        /\ base'[Len(base) + 1].run = runs
        /\ \A i \in DOMAIN base : base'[i] = base[i]
    BY <1>0, <2>1, <2>4
  <2>6. (D!Knowledge)' = D!Knowledge
    BY DEF D!Knowledge
  <2>7. \A i \in DOMAIN base' : i > size => base'[i].run = runs
    BY <1>0, <2>2, <2>5 DEF D!ReadingSound
  <2>8. size <= KnownLimit => \A i \in 1 .. size : base'[i].url \in known
    BY <1>0, <2>5 DEF D!ReadingSound
  <2>9. \A i \in DOMAIN queue' : queue'[i] \notin known
    BY <2>2, <2>3 DEF D!ReadingSound
  <2>10. size' \in 0 .. Len(base')
    BY <1>0, <2>2, <2>5
  <2> QED
    BY <1>0, <2>2, <2>3, <2>5, <2>6, <2>7, <2>8, <2>9, <2>10 DEF D!ReadingSound
<1>4. CASE D!End
  BY <1>4 DEF D!End, D!ReadingSound, D!Knowledge
<1>5. CASE \/ \E i \in DOMAIN base : D!Extract(i) \/ D!ExtractNothing(i) \/ D!ExtractCut(i)
           \/ \E e \in Expressions : D!Validate(e)
           \/ UNCHANGED D!vars
  BY <1>5 DEF D!Extract, D!ExtractNothing, D!ExtractCut, D!Validate, D!vars, D!ReadingSound, D!Knowledge
<1> QED
  BY <1>1, <1>2, <1>3, <1>4, <1>5 DEF D!Next

\* What the run adds of what the base holds.
LEMMA ReadOnce ==
  ASSUME KnownLimit \in Int, D!ReadingSound, [D!Next]_(D!vars)
  PROVE  D!RepeatedOnlyBeyondListStep
<1> DEFINE base == x1  queue == x3  known == x4  size == x5  runs == x6
<1>0. /\ base \in Seq(D!Knowledge) /\ queue \in Seq(Urls)
      /\ size \in 0 .. Len(base) /\ Len(base) \in Nat /\ DOMAIN base = 1 .. Len(base)
  BY DEF D!ReadingSound
<1>1. CASE D!AddKnowledge
  <2> SUFFICES ASSUME NEW u \in Urls, base'[Len(base')].url = u,
                      NEW i \in DOMAIN base, base[i].url = u, ~ (size > KnownLimit)
               PROVE  base[i].run = runs
    BY DEF D!RepeatedOnlyBeyondListStep
  <2>1. PICK g : base' = Append(base, [url |-> Head(queue), grade |-> g, run |-> runs])
    BY <1>1 DEF D!AddKnowledge
  <2>2. queue # <<>> /\ x2 = "read" /\ Head(queue) = queue[1] /\ 1 \in DOMAIN queue
    BY <1>0, <1>1 DEF D!AddKnowledge
  <2>3. u = queue[1]
    BY <1>0, <2>1, <2>2
  <2>4. u \notin known
    BY <2>2, <2>3 DEF D!ReadingSound
  <2>5. CASE i > size
    BY <2>2, <2>5 DEF D!ReadingSound
  <2>6. CASE ~ (i > size)
    BY <1>0, <2>4, <2>6 DEF D!ReadingSound
  <2> QED
    BY <2>5, <2>6
<1>2. CASE base' = base
  BY <1>0, <1>2 DEF D!RepeatedOnlyBeyondListStep
<1> QED
  BY <1>1, <1>2 DEF D!Next, D!vars, D!Fetch, D!Skip, D!End, D!Extract, D!ExtractNothing, D!ExtractCut, D!Validate

\* No second row for an article (run_research, list_knowledge), for any sources, grades and
\* number of runs, unless two sources listed it in one run or the base had outgrown the list.
THEOREM ArticlesReadOnce ==
  ASSUME Grades \subseteq Int, KnownLimit \in Int, ItemsARun \in Nat
  PROVE  PartsSpec => RepeatedOnlyBeyondList
<1>1. PartsInit => (part = "research" => D!ReadingSound)
  BY DEF PartsInit, D!Init, D!ReadingSound
<1>2. (part = "research" => D!ReadingSound) /\ [PartsNext]_all => (part = "research" => D!ReadingSound)'
  BY OnePart, ReadingStep
<1>3. (part = "research" => D!ReadingSound) /\ [PartsNext]_all =>
        [part = "research" => D!RepeatedOnlyBeyondListStep]_all
  BY OnePart, ReadOnce
<1> QED
  BY <1>1, <1>2, <1>3, PTL DEF PartsSpec, RepeatedOnlyBeyondList

(***************************************************************************)
(* Earnings surprises.                                                     *)
(***************************************************************************)
LEMMA TableStep ==
  ASSUME QuarterGap \in Int, Surprises \subseteq Int, QuartersAsked \in Nat,
         C!TableSound, [C!DriftNext]_(C!driftVars)
  PROVE  /\ C!TableSound'
         /\ x1' >= x1
         /\ \A q \in DOMAIN x3 : q \in DOMAIN x3' /\ \A f \in DOMAIN x3[q] :
              C!Given(x3[q][f]) => x3'[q][f] = x3[q][f]
<1> DEFINE day == x1  announced == x2  table == x3
           kept == \A q \in DOMAIN table : q \in DOMAIN table' /\ \A f \in DOMAIN table[q] :
                     C!Given(table[q][f]) => table'[q][f] = table[q][f]
           Rec == [end : Int, announce : Int, surprise : Int]
<1>0. /\ day \in Int /\ DOMAIN announced \subseteq C!Quarters /\ DOMAIN table \subseteq C!Quarters
      /\ \A q \in C!Quarters : C!PeriodEnd(q) \in Int
      /\ \A q \in DOMAIN announced : announced[q].day \in Int /\ announced[q].surprise \in Int
      /\ \A q \in DOMAIN table : table[q] \in Rec
  BY DEF C!TableSound, C!Quarters, C!PeriodEnd
<1>1. CASE C!CollectSymbol
  <2>1. PICK calendar \in BOOLEAN, listed \in SUBSET C!Newest(ShownQuarters) :
          \E figures \in SUBSET listed :
             table' = [q \in DOMAIN table \cup listed |->
                         IF q \notin listed THEN table[q]
                         ELSE C!Merged(C!Shown(q, calendar, figures),
                                       IF q \in DOMAIN table THEN table[q] ELSE C!NoRow)]
    BY <1>1 DEF C!CollectSymbol
  <2>2. PICK figures \in SUBSET listed :
          table' = [q \in DOMAIN table \cup listed |->
                      IF q \notin listed THEN table[q]
                      ELSE C!Merged(C!Shown(q, calendar, figures),
                                    IF q \in DOMAIN table THEN table[q] ELSE C!NoRow)]
    BY <2>1
  <2>3. UNCHANGED <<day, announced>> /\ listed \subseteq C!Quarters
    BY <1>1 DEF C!CollectSymbol, C!Newest
  <2> DEFINE Says(r, q) ==
               /\ r \in Rec
               /\ C!Given(r.end) => r.end = C!PeriodEnd(q)
               /\ C!Given(r.announce) => q \in DOMAIN announced /\ r.announce = announced[q].day
               /\ C!Given(r.surprise) => q \in DOMAIN announced /\ r.surprise = announced[q].surprise
  <2>4. \A q \in DOMAIN table : Says(table[q], q)
    BY DEF C!TableSound
  <2>5. \A q : Says(C!NoRow, q)
    BY DEF C!NoRow, C!Given, C!None
  <2>6. \A q \in listed : Says(C!Shown(q, calendar, figures), q)
    BY <1>0, <2>3 DEF C!Shown, C!Given, C!None
  <2>7. ASSUME NEW new, NEW old, new \in Rec, old \in Rec
        PROVE  /\ DOMAIN old = {"end", "announce", "surprise"}
               /\ C!Merged(new, old) \in Rec
               /\ C!Merged(new, old).end = IF C!Given(new.end) THEN new.end ELSE old.end
               /\ C!Merged(new, old).announce = IF C!Given(new.announce) THEN new.announce ELSE old.announce
               /\ C!Merged(new, old).surprise = IF C!Given(new.surprise) THEN new.surprise ELSE old.surprise
    <3>1. DOMAIN old = {"end", "announce", "surprise"}
      BY <2>7
    <3> DEFINE m == C!Merged(new, old)
    <3>2. m = [f \in {"end", "announce", "surprise"} |-> IF C!Given(new[f]) THEN new[f] ELSE old[f]]
      BY <3>1 DEF C!Merged, C!Coalesce
    <3>3. /\ m.end = IF C!Given(new.end) THEN new.end ELSE old.end
          /\ m.announce = IF C!Given(new.announce) THEN new.announce ELSE old.announce
          /\ m.surprise = IF C!Given(new.surprise) THEN new.surprise ELSE old.surprise
      BY <3>2
    <3>4. m.end \in Int /\ m.announce \in Int /\ m.surprise \in Int
      BY <2>7, <3>3
    <3>5. m = [end |-> m.end, announce |-> m.announce, surprise |-> m.surprise]
      BY <3>2
    <3>6. m \in Rec
      <4> HIDE DEF m
      <4> QED
        BY <3>4, <3>5
    <3> QED
      BY <3>1, <3>3, <3>6
  <2>11. ASSUME NEW q, NEW new, NEW old, Says(new, q), Says(old, q)
         PROVE  Says(C!Merged(new, old), q)
    <3> DEFINE m == C!Merged(new, old)
    <3>1. /\ m \in Rec
          /\ m.end = IF C!Given(new.end) THEN new.end ELSE old.end
          /\ m.announce = IF C!Given(new.announce) THEN new.announce ELSE old.announce
          /\ m.surprise = IF C!Given(new.surprise) THEN new.surprise ELSE old.surprise
      BY <2>7, <2>11
    <3> SUFFICES Says(m, q)
      OBVIOUS
    <3> HIDE DEF m
    <3> QED
      BY <2>11, <3>1
  <2>12. ASSUME NEW q, NEW new, NEW old, Says(new, q), Says(old, q),
                NEW f \in DOMAIN old, C!Given(old[f])
         PROVE  C!Merged(new, old)[f] = old[f]
    <3> DEFINE m == C!Merged(new, old)
    <3>1. /\ m.end = IF C!Given(new.end) THEN new.end ELSE old.end
          /\ m.announce = IF C!Given(new.announce) THEN new.announce ELSE old.announce
          /\ m.surprise = IF C!Given(new.surprise) THEN new.surprise ELSE old.surprise
          /\ f \in {"end", "announce", "surprise"}
      <4>1. new \in Rec /\ old \in Rec
        BY <2>12
      <4> QED
        BY <2>7, <2>12, <4>1
    <3> SUFFICES m[f] = old[f]
      OBVIOUS
    <3> HIDE DEF m
    <3>2. CASE f = "end"
      BY <2>12, <3>1, <3>2
    <3>3. CASE f = "announce"
      BY <2>12, <3>1, <3>3
    <3>4. CASE f = "surprise"
      BY <2>12, <3>1, <3>4
    <3> QED
      BY <3>1, <3>2, <3>3, <3>4
  <2> HIDE DEF Says
  <2>8. \A q \in DOMAIN table' : Says(table'[q], q)
    BY <2>2, <2>4, <2>5, <2>6, <2>11
  <2>9. kept
    <3> SUFFICES ASSUME NEW q \in DOMAIN table
                 PROVE  q \in DOMAIN table' /\ \A f \in DOMAIN table[q] :
                          C!Given(table[q][f]) => table'[q][f] = table[q][f]
      OBVIOUS
    <3>1. CASE q \in listed
      <4>1. q \in DOMAIN table' /\ table'[q] = C!Merged(C!Shown(q, calendar, figures), table[q])
        BY <2>2, <3>1
      <4>2. \A f \in DOMAIN table[q] :
              C!Given(table[q][f]) => C!Merged(C!Shown(q, calendar, figures), table[q])[f] = table[q][f]
        <5>1. Says(C!Shown(q, calendar, figures), q) /\ Says(table[q], q)
          BY <2>4, <2>6, <3>1
        <5> QED
          BY <2>12, <5>1
      <4> QED
        BY <4>1, <4>2
    <3>2. CASE q \notin listed
      BY <2>2, <3>2
    <3> QED
      BY <3>1, <3>2
  <2>10. DOMAIN table' \subseteq C!Quarters
    BY <1>0, <2>2, <2>3
  <2> QED
    BY <1>0, <2>3, <2>8, <2>9, <2>10 DEF C!TableSound, Says, C!Quarters, C!PeriodEnd, C!Given
<1>2. CASE C!Announce
  <2>1. PICK q \in C!Quarters \ DOMAIN announced, s \in Surprises :
          announced' = [r \in DOMAIN announced \cup {q} |->
                          IF r = q THEN [day |-> day, surprise |-> s] ELSE announced[r]]
    BY <1>2 DEF C!Announce
  <2>2. UNCHANGED <<day, table>>
    BY <1>2 DEF C!Announce
  <2>3. \A r \in DOMAIN announced : r \in DOMAIN announced' /\ announced'[r] = announced[r]
    BY <2>1
  <2>4. \A r \in DOMAIN announced' : announced'[r] \in [day : Int, surprise : Int]
    BY <1>0, <2>1 DEF C!TableSound
  <2>5. DOMAIN announced' \subseteq C!Quarters
    BY <1>0, <2>1
  <2> QED
    BY <1>0, <2>2, <2>3, <2>4, <2>5 DEF C!TableSound, C!Quarters, C!PeriodEnd, C!Given
<1>3. CASE C!LaterDay \/ UNCHANGED C!driftVars
  BY <1>0, <1>3 DEF C!LaterDay, C!driftVars, C!TableSound, C!Quarters, C!PeriodEnd, C!Given
<1> QED
  BY <1>1, <1>2, <1>3 DEF C!DriftNext

\* The sums of a signal's context are those of Piles, whose lemmas say what they come to.
LEMMA ContextSums == \A f : C!Sum(f) = Sum(f)
BY DEF C!Sum, Sum, C!Pile, Pile, C!Cardinality, Cardinality

LEMMA BlendedInt ==
  ASSUME QuartersAsked \in Nat, C!TableSound, C!Usable # {}
  PROVE  /\ C!Latest \in C!Usable /\ C!Usable \subseteq DOMAIN x3
         /\ C!Ref(x3[C!Latest]) \in Int
         /\ C!Blended \in Int
<1> DEFINE table == x3  quarters == C!Usable \ {C!Latest}  surprise == [q \in quarters |-> table[q].surprise]
<1>0. DOMAIN table \subseteq C!Quarters
  BY DEF C!TableSound
<1>1. \A q \in DOMAIN table : table[q].end \in Int /\ table[q].announce \in Int /\ table[q].surprise \in Int
  BY DEF C!TableSound
<1>2. IsFiniteSet(C!Quarters) /\ C!Quarters \subseteq Int
  BY FS_Interval DEF C!Quarters
<1>3. C!Usable \in SUBSET DOMAIN table
  BY DEF C!Usable
<1>4. IsFiniteSet(C!Usable) /\ C!Usable \in SUBSET Int
  <2>1. C!Usable \in SUBSET C!Quarters
    BY <1>0, <1>3
  <2> HIDE DEF C!Usable
  <2> QED
    BY <1>2, <2>1, FS_Subset
<1>5. PICK m \in C!Usable : \A r \in C!Usable : r <= m
  <2> HIDE DEF C!Usable
  <2> QED
    BY <1>4, Extremes
<1>6. C!Latest \in C!Usable
  BY <1>5 DEF C!Latest
<1>7. C!Ref(table[C!Latest]) \in Int
  BY <1>1, <1>3, <1>6 DEF C!Ref, C!None
<1>8. C!Average(quarters) \in Int
  <2>1. IsFiniteSet(quarters) /\ \A q \in quarters : surprise[q] \in Int
    <3>1. quarters \in SUBSET C!Usable
      OBVIOUS
    <3>2. IsFiniteSet(quarters)
      <4> HIDE DEF quarters
      <4> QED
        BY <1>4, <3>1, FS_Subset
    <3> QED
      BY <1>1, <1>3, <3>2
  <2>2. SumOver(quarters, surprise) \in Int
    <3> HIDE DEF quarters, surprise
    <3> QED
      BY <2>1, SumInt
  <2>3. SumOver(quarters, surprise) = C!Sum(surprise)
    <3>1. [q \in quarters |-> surprise[q]] = surprise
      OBVIOUS
    <3>2. SumOver(quarters, surprise) = Sum(surprise)
      BY <3>1 DEF SumOver
    <3> QED
      BY <3>2, ContextSums
  <2>4. CASE quarters # {}
    <3>1. Cardinality(quarters) \in Nat /\ Cardinality(quarters) # 0
      <4> HIDE DEF quarters
      <4> QED
        BY <2>1, <2>4, FS_CardinalityType, FS_EmptySet
    <3>2. C!Cardinality(quarters) = Cardinality(quarters)
      BY DEF C!Cardinality, Cardinality
    <3>3. C!Sum(surprise) \div Cardinality(quarters) \in Int
      <4> HIDE DEF quarters, surprise
      <4> QED
        BY <2>2, <2>3, <3>1
    <3> QED
      BY <2>4, <3>2, <3>3 DEF C!Average
  <2> QED
    BY <2>4 DEF C!Average
<1>9. \A x \in Int : C!Saturated(x) \in Int
  BY DEF C!Saturated
<1>10. C!Blended \in Int
  <2>1. C!Saturated(table[C!Latest].surprise) \in Int
    BY <1>1, <1>3, <1>6, <1>9
  <2>2. C!Saturated(C!Average(quarters)) \in Int
    BY <1>8, <1>9
  <2> HIDE DEF C!Saturated, C!Average
  <2> QED
    BY <2>1, <2>2 DEF C!Blended
<1> QED
  BY <1>3, <1>6, <1>7, <1>10

\* With the table as it is, time takes from the score or leaves it.
LEMMA ScoreFades ==
  ASSUME QuartersAsked \in Nat, DriftDays \in Nat, C!TableSound, C!Usable # {}, C!Since >= 0,
         x3' = x3, x1' \in Int, x1' >= x1
  PROVE  C!Distance(C!Score') <= C!Distance(C!Score)
<1> DEFINE blend == C!Blended  ref == C!Ref(x3[C!Latest])
           Far == \/ x3[C!Latest].surprise >= MinSurprise
                  \/ x3[C!Latest].surprise <= -MinSurprise
<1>1. blend \in Int /\ ref \in Int /\ x1 \in Int
  BY BlendedInt DEF C!TableSound
<1>2. C!Usable' = C!Usable /\ C!Latest' = C!Latest
  BY DEF C!Usable, C!Latest
<1>3. blend' = blend
  BY <1>2 DEF C!Blended, C!Average
<1>4. ref' = ref
  BY <1>2 DEF C!Ref
<1>5. Far' = Far
  BY <1>2
<1>6. C!Score = IF C!Given(ref) /\ x1 - ref \in 0 .. DriftDays /\ Far THEN blend * (2 * DriftDays - (x1 - ref)) ELSE 0
  BY DEF C!Score, C!Drifting, C!InWindow, C!Since
<1>7. C!Score' = IF C!Given(ref) /\ x1' - ref \in 0 .. DriftDays /\ Far THEN blend * (2 * DriftDays - (x1' - ref)) ELSE 0
  <2>1. C!Score' = IF C!Given(ref') /\ x1' - ref' \in 0 .. DriftDays /\ Far' THEN blend' * (2 * DriftDays - (x1' - ref')) ELSE 0
    BY <1>2 DEF C!Score, C!Drifting, C!InWindow, C!Since
  <2> HIDE DEF ref, Far, blend
  <2> QED
    BY <1>3, <1>4, <1>5, <2>1
<1>8. x1 - ref >= 0
  BY DEF C!Since
<1> HIDE DEF ref, Far, blend
<1>9. \A b, k, l \in Int : 0 <= k /\ k <= l => C!Distance(b * k) <= C!Distance(b * l)
  <2> SUFFICES ASSUME NEW b \in Int, NEW k \in Int, NEW l \in Int, 0 <= k, k <= l
               PROVE  C!Distance(b * k) <= C!Distance(b * l)
    OBVIOUS
  <2>1. \A c, m \in Nat : c * m \in Nat
    OBVIOUS
  <2>2. ASSUME NEW c \in Nat PROVE c * k \in Nat /\ c * l = c * k + c * (l - k) /\ c * (l - k) \in Nat
    BY <2>1
  <2>3. CASE b >= 0
    <3>1. b * k \in Nat /\ b * l = b * k + b * (l - k) /\ b * (l - k) \in Nat
      BY <2>2, <2>3
    <3> QED
      BY <3>1 DEF C!Distance
  <2>4. CASE b < 0
    <3>1. (-b) * k \in Nat /\ (-b) * l = (-b) * k + (-b) * (l - k) /\ (-b) * (l - k) \in Nat
      BY <2>2, <2>4
    <3>2. (-b) * k = -(b * k) /\ (-b) * l = -(b * l) /\ b * k \in Int /\ b * l \in Int
      OBVIOUS
    <3> QED
      BY <3>1, <3>2 DEF C!Distance
  <2> QED
    BY <2>3, <2>4
<1>10. C!Distance(0) = 0 /\ \A n \in Int : C!Distance(n) >= 0
  BY DEF C!Distance
<1>11. CASE C!Given(ref) /\ x1' - ref \in 0 .. DriftDays /\ Far
  <2> DEFINE k == 2 * DriftDays - (x1' - ref)  l == 2 * DriftDays - (x1 - ref)
  <2>1. k \in Int /\ l \in Int /\ 0 <= k /\ k <= l /\ x1 - ref \in 0 .. DriftDays
    <3>0. x1 \in Int /\ ref \in Int
      BY <1>1
    <3>6. x1' - ref \in 0 .. DriftDays
      BY <1>11
    <3>7. \A a, b, r \in Int : b - r \in 0 .. DriftDays /\ b >= a =>
            b - r \in Int /\ b - r <= DriftDays /\ a - r \in Int /\ a - r <= b - r
      OBVIOUS
    <3>1. x1' - ref \in Int /\ x1' - ref <= DriftDays /\ x1 - ref \in Int /\ x1 - ref <= x1' - ref
      BY <3>0, <3>6, <3>7
    <3>2. x1 - ref \in 0 .. DriftDays
      BY <1>8, <3>1
    <3>3. k \in Int /\ l \in Int
      BY <3>1
    <3>4. 0 <= k /\ k <= l
      BY <3>1, <3>3
    <3> QED
      BY <3>2, <3>3, <3>4
  <2>2. C!Score' = blend * k /\ C!Score = blend * l
    BY <1>6, <1>7, <1>11, <2>1
  <2> HIDE DEF k, l
  <2> QED
    BY <1>1, <1>9, <2>1, <2>2
<1>12. CASE ~ (C!Given(ref) /\ x1' - ref \in 0 .. DriftDays /\ Far)
  <2>1. C!Score' = 0
    BY <1>7, <1>12
  <2>2. C!Score \in Int
    <3>1. blend * (2 * DriftDays - (x1 - ref)) \in Int
      BY <1>1
    <3> QED
      BY <1>6, <3>1
  <2> QED
    BY <1>10, <2>1, <2>2
<1> QED
  BY <1>11, <1>12

LEMMA DriftKept ==
  ASSUME QuarterGap \in Int, Surprises \subseteq Int, QuartersAsked \in Nat, DriftDays \in Nat,
         C!TableSound, [C!DriftNext]_(C!driftVars)
  PROVE  C!KnownStaysKnownStep
<1>1. /\ x1' \in Int /\ x1' >= x1
      /\ \A q \in DOMAIN x3 : q \in DOMAIN x3' /\ \A f \in DOMAIN x3[q] :
           C!Given(x3[q][f]) => x3'[q][f] = x3[q][f]
  <2>1. C!TableSound' => x1' \in Int
    BY DEF C!TableSound
  <2> QED
    BY <2>1, TableStep
<1>2. x3' = x3 /\ C!Usable # {} /\ C!Since >= 0 => C!Distance(C!Score') <= C!Distance(C!Score)
  BY <1>1, ScoreFades
<1> QED
  BY <1>1, <1>2 DEF C!KnownStaysKnownStep

(***************************************************************************)
(* The universe.                                                           *)
(***************************************************************************)
LEMMA RefreshSoundStep ==
  ASSUME U!RefreshSound, [U!Next]_(U!vars)
  PROVE  U!RefreshSound' /\ U!UniverseKeptStep
<1> DEFINE universe == x2  step == x6  top == x7
           entry == [active : BOOLEAN, sector : BOOLEAN]
<1>1. CASE U!UpsertUniverse
  <2>1. /\ step = "upsert" /\ step' = "deactivate" /\ top' = top
        /\ universe' = [s \in DOMAIN universe \cup DOMAIN top |->
                          IF s \in DOMAIN top THEN [active |-> TRUE, sector |-> U!Sector(s, top[s])]
                          ELSE universe[s]]
    BY <1>1 DEF U!UpsertUniverse
  <2>2. /\ \A s \in DOMAIN universe : universe[s].sector \in BOOLEAN /\ universe[s] \in entry
        /\ \A s \in DOMAIN top : top[s] \in BOOLEAN
    BY <2>1 DEF U!RefreshSound
  <2>3. \A s \in DOMAIN universe' : universe'[s] \in entry
    BY <2>1, <2>2 DEF U!Sector
  <2>4. DOMAIN top \subseteq U!Active'
    BY <2>1 DEF U!Active
  <2>5. U!Active \subseteq U!Active'
    BY <2>1 DEF U!Active
  <2>6. \A s \in DOMAIN universe : universe[s].sector => universe'[s].sector
    BY <2>1, <2>2 DEF U!Sector
  <2> QED
    BY <2>1, <2>3, <2>4, <2>5, <2>6 DEF U!RefreshSound, U!UniverseKeptStep
<1>2. CASE U!DeactivateMissing
  <2>1. /\ step = "deactivate" /\ step' = "cache"
        /\ universe' = [s \in DOMAIN universe |->
                          IF s \in U!Missing THEN [universe[s] EXCEPT !.active = FALSE] ELSE universe[s]]
    BY <1>2 DEF U!DeactivateMissing
  <2>2. /\ \A s \in DOMAIN universe : universe[s] \in entry
        /\ DOMAIN top \subseteq U!Active
    BY <2>1 DEF U!RefreshSound
  <2>3. \A s \in DOMAIN universe' : universe'[s] \in entry
    BY <2>1, <2>2
  <2>4. \A s \in DOMAIN universe : universe[s].sector => universe'[s].sector
    BY <2>1, <2>2
  <2>5. U!Active # {} => U!Active' # {}
    <3>1. CASE DOMAIN top = {}
      BY <2>1, <3>1 DEF U!Missing, U!Active
    <3>2. CASE DOMAIN top # {}
      BY <2>1, <2>2, <3>2 DEF U!Missing, U!Active
    <3> QED
      BY <3>1, <3>2
  <2> QED
    BY <2>1, <2>3, <2>4, <2>5 DEF U!RefreshSound, U!UniverseKeptStep
<1>3. CASE U!Fetch
  <2>1. PICK read, arrived : top' = [s \in U!Largest(U!Ranked(read, arrived)) |-> U!SectorSeen(read, s)]
    BY <1>3 DEF U!Fetch
  <2>2. \A s \in DOMAIN top' : top'[s] \in BOOLEAN
    BY <2>1 DEF U!SectorSeen
  <2>3. universe' = universe /\ step' = "upsert"
    BY <1>3 DEF U!Fetch
  <2> QED
    BY <2>2, <2>3 DEF U!RefreshSound, U!UniverseKeptStep, U!Active
<1>4. CASE U!CacheUniverse \/ U!CollectNewly \/ U!Collect \/ U!NextDay \/ U!Fail \/ UNCHANGED U!vars
  <2>1. universe' = universe /\ (UNCHANGED <<step, top>> \/ step' \in {"newly", "idle"})
    BY <1>4 DEF U!CacheUniverse, U!CollectNewly, U!Collect, U!NextDay, U!Fail, U!vars
  <2> QED
    BY <2>1 DEF U!RefreshSound, U!UniverseKeptStep, U!Active
<1> QED
  BY <1>1, <1>2, <1>3, <1>4 DEF U!Next

(***************************************************************************)
(* The accounts.  An administrator keeps row and approval, a user the pages. *)
(***************************************************************************)
\* Steps that change nobody's role and none of the pages of a role.
LEMMA SamePages ==
  ASSUME x3' = x3, \A i \in DOMAIN x1 \cap DOMAIN x1' : x1'[i].role = x1[i].role
  PROVE  Z2!PagesKeptStep
BY DEF Z2!PagesKeptStep, Z2!Has

\* Registration, and what only shows.
LEMMA VisitsSound ==
  ASSUME Z2!WorkSound,
         \/ \E v \in Visitors : Z2!RegisterInsert(v) \/ \E n \in Names, e \in Emails : Z2!RegisterCheck(v, n, e)
         \/ \E a \in Admins :
              \/ Z2!Activate(a)
              \/ \E set \in SUBSET Pages : Z2!TogglePagePerms(a, set)
              \/ \E r \in x5[a].roles : Z2!SelectRole(a, r)
              \/ \E r \in x5[a].loading : Z2!Loaded(a, r)
         \/ UNCHANGED Z2!vars
  PROVE  Z2!WorkSound' /\ Z2!AccountsKeptStep
<1> DEFINE users == x1  ids == x2  perms == x3  work == x4  acts == x6
<1>0. /\ acts \in Int /\ DOMAIN work = Visitors \cup Admins
      /\ \A i \in DOMAIN users : users[i] = Z2!Shape(users[i]) /\ users[i].ok \in BOOLEAN
  BY DEF Z2!WorkSound
<1>1. ASSUME NEW v \in Visitors, NEW n, NEW e, Z2!RegisterCheck(v, n, e)
      PROVE  Z2!WorkSound' /\ Z2!AccountsKeptStep
  <2>1. UNCHANGED <<users, perms>> /\ acts' = acts + 1
    BY <1>1 DEF Z2!RegisterCheck, Z2!Act
  <2>2. work' = [work EXCEPT ![v] = [do |-> "register", name |-> n, email |-> e]]
    BY <1>1 DEF Z2!RegisterCheck
  <2>3. Z2!WorkSound'
    BY <1>0, <2>1, <2>2 DEF Z2!WorkSound
  <2> QED
    BY <2>1, <2>3, SamePages DEF Z2!AccountsKeptStep, Z2!RowsKeptStep
<1>2. ASSUME NEW v \in Visitors, Z2!RegisterInsert(v)
      PROVE  Z2!WorkSound' /\ Z2!AccountsKeptStep
  <2>1. UNCHANGED <<perms, acts>> /\ work' = [work EXCEPT ![v] = Z2!Idle]
    BY <1>2 DEF Z2!RegisterInsert, Z2!Rest
  <2> DEFINE row == [name |-> work[v].name, email |-> work[v].email, role |-> "user", ok |-> FALSE]
  <2>2. \/ users' = users
        \/ /\ ~ Z2!Taken(row.name)
           /\ users' = [i \in DOMAIN users \cup {ids + 1} |-> IF i \in DOMAIN users THEN users[i] ELSE row]
    BY <1>2 DEF Z2!RegisterInsert
  <2>3. \A i \in DOMAIN users : i \in DOMAIN users' /\ users'[i] = users[i]
    BY <2>2
  <2>4. \A i \in DOMAIN users' \ DOMAIN users : users'[i] = row /\ ~ Z2!Taken(row.name)
    BY <2>2
  <2>5. row = Z2!Shape(row) /\ row.ok = FALSE
    BY DEF Z2!Shape
  <2>6. \A i \in DOMAIN users' : users'[i] = Z2!Shape(users'[i]) /\ users'[i].ok \in BOOLEAN
    <3> HIDE DEF row
    <3> QED
      BY <1>0, <2>3, <2>4, <2>5
  <2>7. Z2!RowsKeptStep
    <3> HIDE DEF row
    <3> QED
      BY <2>3, <2>4, <2>5 DEF Z2!RowsKeptStep, Z2!Taken
  <2>8. /\ DOMAIN work' = Visitors \cup Admins
        /\ \A a \in Admins : work'[a] = work[a] \/ work'[a].do = "idle"
    BY <1>0, <2>1 DEF Z2!Idle
  <2>9. Z2!WorkSound'
    BY <1>0, <2>1, <2>6, <2>8 DEF Z2!WorkSound
  <2> QED
    BY <2>1, <2>3, <2>7, <2>9, SamePages DEF Z2!AccountsKeptStep
<1>3. CASE UNCHANGED <<users, perms, work>> /\ acts' \in Int
  <2>1. Z2!WorkSound'
    BY <1>0, <1>3 DEF Z2!WorkSound
  <2> QED
    BY <1>3, <2>1, SamePages DEF Z2!AccountsKeptStep, Z2!RowsKeptStep
<1>4. ASSUME NEW a \in Admins,
             \/ Z2!Activate(a)
             \/ \E set \in SUBSET Pages : Z2!TogglePagePerms(a, set)
             \/ \E r \in x5[a].roles : Z2!SelectRole(a, r)
             \/ \E r \in x5[a].loading : Z2!Loaded(a, r)
      PROVE  UNCHANGED <<users, perms, work>> /\ acts' \in Int
  <2>1. UNCHANGED <<users, perms, work>>
    BY <1>4 DEF Z2!Activate, Z2!TogglePagePerms, Z2!SelectRole, Z2!Loaded
  <2>2. acts' = acts + 1 \/ acts' = acts
    BY <1>4 DEF Z2!Activate, Z2!TogglePagePerms, Z2!SelectRole, Z2!Loaded, Z2!Act
  <2> QED
    BY <1>0, <2>1, <2>2
<1>5. CASE UNCHANGED Z2!vars
  BY <1>0, <1>3, <1>5 DEF Z2!vars
<1> QED
  BY <1>1, <1>2, <1>3, <1>4, <1>5

\* What a change of one field leaves of a row.
LEMMA RowChanged ==
  ASSUME NEW u, u = Z2!Shape(u), NEW v
  PROVE  /\ [u EXCEPT !.ok = v] = Z2!Shape([u EXCEPT !.ok = v])
         /\ [u EXCEPT !.ok = v].ok = v /\ [u EXCEPT !.ok = v].role = u.role
         /\ [u EXCEPT !.role = v] = Z2!Shape([u EXCEPT !.role = v])
         /\ [u EXCEPT !.role = v].ok = u.ok /\ [u EXCEPT !.role = v].role = v
<1>1. [u EXCEPT !.ok = v] = [name |-> u.name, email |-> u.email, role |-> u.role, ok |-> v]
  BY DEF Z2!Shape
<1>2. [u EXCEPT !.role = v] = [name |-> u.name, email |-> u.email, role |-> v, ok |-> u.ok]
  BY DEF Z2!Shape
<1> QED
  BY <1>1, <1>2 DEF Z2!Shape

\* What an administrator does to one account.
LEMMA OneAccountSound ==
  ASSUME Z2!WorkSound, NEW a \in Admins, NEW i,
         \/ Z2!ApproveUser(a, i) \/ Z2!RejectUser(a, i) \/ Z2!ExecuteDeleteUser(a, i)
         \/ \E r \in x5[a].roles : Z2!ChangeUserRole(a, i, r)
  PROVE  Z2!WorkSound' /\ Z2!AccountsKeptStep
<1> DEFINE users == x1  perms == x3  work == x4  acts == x6
<1>0. /\ acts \in Int /\ DOMAIN work = Visitors \cup Admins
      /\ \A j \in DOMAIN users : users[j] = Z2!Shape(users[j]) /\ users[j].ok \in BOOLEAN
  BY DEF Z2!WorkSound
<1>1. UNCHANGED <<perms, work>> /\ acts' = acts + 1
  BY DEF Z2!ApproveUser, Z2!RejectUser, Z2!ExecuteDeleteUser, Z2!ChangeUserRole, Z2!OnUser, Z2!Act
<1>2. ASSUME \A j \in DOMAIN users' : users'[j] = Z2!Shape(users'[j]) /\ users'[j].ok \in BOOLEAN
      PROVE  Z2!WorkSound'
  BY <1>0, <1>1, <1>2 DEF Z2!WorkSound
<1>3. ASSUME NEW row, Z2!OnUser(a, i, row)
      PROVE  /\ DOMAIN users' = DOMAIN users
             /\ \A j \in DOMAIN users : users'[j] = IF j = i THEN row ELSE users[j]
  BY <1>3 DEF Z2!OnUser
<1>4. CASE Z2!ApproveUser(a, i)
  <2> DEFINE row == [users[i] EXCEPT !.ok = TRUE]
  <2>1. Z2!OnUser(a, i, row)
    BY <1>4 DEF Z2!ApproveUser
  <2>2. /\ DOMAIN users' = DOMAIN users
        /\ \A j \in DOMAIN users : users'[j] = IF j = i THEN row ELSE users[j]
    BY <1>3, <2>1
  <2>3. i \in DOMAIN users => row = Z2!Shape(row) /\ row.ok = TRUE /\ row.role = users[i].role
    <3>1. i \in DOMAIN users => users[i] = Z2!Shape(users[i])
      BY <1>0
    <3> QED
      BY <3>1, RowChanged
  <2> HIDE DEF row
  <2>4. \A j \in DOMAIN users : /\ users'[j] = Z2!Shape(users'[j]) /\ users'[j].ok \in BOOLEAN
                                /\ users'[j].role = users[j].role /\ (users[j].ok => users'[j].ok)
    BY <1>0, <2>2, <2>3
  <2> QED
    BY <1>1, <1>2, <2>2, <2>4, SamePages DEF Z2!AccountsKeptStep, Z2!RowsKeptStep
<1>5. CASE Z2!RejectUser(a, i)
  <2> DEFINE row == IF Z2!Droppable(a, i) THEN [users[i] EXCEPT !.ok = FALSE] ELSE users[i]
  <2>1. Z2!OnUser(a, i, row)
    BY <1>5 DEF Z2!RejectUser
  <2>2. /\ DOMAIN users' = DOMAIN users
        /\ \A j \in DOMAIN users : users'[j] = IF j = i THEN row ELSE users[j]
    BY <1>3, <2>1
  <2>3. i \in DOMAIN users => /\ row = Z2!Shape(row) /\ row.ok \in BOOLEAN /\ row.role = users[i].role
                              /\ users[i].role = "admin" => row = users[i]
    <3>1. i \in DOMAIN users => users[i] = Z2!Shape(users[i]) /\ users[i].ok \in BOOLEAN
      BY <1>0
    <3>2. CASE Z2!Droppable(a, i)
      <4>1. i \in DOMAIN users /\ users[i].role # "admin" /\ row = [users[i] EXCEPT !.ok = FALSE]
        BY <3>2 DEF Z2!Droppable
      <4>3. users[i] = Z2!Shape(users[i])
        BY <3>1, <4>1
      <4>4. \A u, b : u = Z2!Shape(u) =>
              LET v == [u EXCEPT !.ok = b] IN v = Z2!Shape(v) /\ v.ok = b /\ v.role = u.role
        BY RowChanged, Zenon
      <4>5. PICK u, b : u = users[i] /\ b = FALSE /\ row = [u EXCEPT !.ok = b]
        BY <4>1
      <4> HIDE DEF row
      <4>6. row = Z2!Shape(row) /\ row.ok = b /\ row.role = u.role
        BY <4>3, <4>4, <4>5
      <4>2. row = Z2!Shape(row) /\ row.ok = FALSE /\ row.role = users[i].role
        BY <4>5, <4>6
      <4> QED
        BY <4>1, <4>2
    <3>3. CASE ~ Z2!Droppable(a, i)
      BY <3>1, <3>3
    <3> QED
      BY <3>2, <3>3
  <2> HIDE DEF row
  <2>4. \A j \in DOMAIN users : /\ users'[j] = Z2!Shape(users'[j]) /\ users'[j].ok \in BOOLEAN
                                /\ users'[j].role = users[j].role
                                /\ users[j].role = "admin" => (users[j].ok => users'[j].ok)
    <3> SUFFICES ASSUME NEW j \in DOMAIN users
                 PROVE  /\ users'[j] = Z2!Shape(users'[j]) /\ users'[j].ok \in BOOLEAN
                        /\ users'[j].role = users[j].role
                        /\ users[j].role = "admin" => (users[j].ok => users'[j].ok)
      OBVIOUS
    <3>1. CASE j = i
      <4>1. users'[j] = row /\ i \in DOMAIN users
        BY <2>2, <3>1
      <4>2. /\ row = Z2!Shape(row) /\ row.ok \in BOOLEAN /\ row.role = users[i].role
            /\ users[i].role = "admin" => row = users[i]
        BY <2>3, <4>1
      <4> QED
        BY <3>1, <4>1, <4>2
    <3>2. CASE j # i
      BY <1>0, <2>2, <3>2
    <3> QED
      BY <3>1, <3>2
  <2> QED
    BY <1>1, <1>2, <2>2, <2>4, SamePages DEF Z2!AccountsKeptStep, Z2!RowsKeptStep
<1>6. CASE Z2!ExecuteDeleteUser(a, i)
  <2>1. users' = IF Z2!Droppable(a, i) THEN [j \in DOMAIN users \ {i} |-> users[j]] ELSE users
    BY <1>6 DEF Z2!ExecuteDeleteUser
  <2>2. /\ DOMAIN users' \subseteq DOMAIN users /\ \A j \in DOMAIN users' : users'[j] = users[j]
        /\ \A j \in DOMAIN users : users[j].role = "admin" => j \in DOMAIN users'
    BY <2>1 DEF Z2!Droppable
  <2>3. \A j \in DOMAIN users' : users'[j] = Z2!Shape(users'[j]) /\ users'[j].ok \in BOOLEAN
    BY <1>0, <2>2
  <2> QED
    BY <1>1, <1>2, <2>2, <2>3, SamePages DEF Z2!AccountsKeptStep, Z2!RowsKeptStep
<1>7. ASSUME NEW r, Z2!ChangeUserRole(a, i, r)
      PROVE  Z2!WorkSound' /\ Z2!AccountsKeptStep
  <2> DEFINE row == [users[i] EXCEPT !.role = r]
  <2>1. Z2!OnUser(a, i, row)
    BY <1>7 DEF Z2!ChangeUserRole
  <2>2. /\ DOMAIN users' = DOMAIN users
        /\ \A j \in DOMAIN users : users'[j] = IF j = i THEN row ELSE users[j]
    BY <1>3, <2>1
  <2>3. i \in DOMAIN users => row = Z2!Shape(row) /\ row.ok = users[i].ok
    <3>1. i \in DOMAIN users => users[i] = Z2!Shape(users[i])
      BY <1>0
    <3> QED
      BY <3>1, RowChanged
  <2> HIDE DEF row
  <2>4. \A j \in DOMAIN users : /\ users'[j] = Z2!Shape(users'[j]) /\ users'[j].ok \in BOOLEAN
                                /\ users[j].ok => users'[j].ok
    BY <1>0, <2>2, <2>3
  <2>5. acts' # acts
    BY <1>0, <1>1
  <2>6. \A j \in DOMAIN users \cap DOMAIN users' :
          users'[j].role = users[j].role => Z2!Has(users', perms', j) = Z2!Has(users, perms, j)
    BY <1>1 DEF Z2!Has
  <2>7. Z2!PagesKeptStep
    <3> HIDE DEF Z2!Has
    <3> QED
      BY <1>1, <2>5, <2>6 DEF Z2!PagesKeptStep
  <2> QED
    BY <1>1, <1>2, <2>2, <2>4, <2>7 DEF Z2!AccountsKeptStep, Z2!RowsKeptStep
<1> QED
  BY <1>4, <1>5, <1>6, <1>7

\* The first statement of a role's transaction: what it sees is of that role.
LEMMA RoleBegun ==
  ASSUME Z2!WorkSound, NEW a \in Admins,
         \/ Z2!SaveRolePerms(a) \/ Z2!ExecuteDeleteRole(a)
         \/ \E n \in NewRoles : Z2!AddRole(a, n) \/ Z2!ExecuteRenameRole(a, n)
  PROVE  Z2!WorkSound' /\ Z2!AccountsKeptStep
<1> DEFINE users == x1  perms == x3  work == x4  acts == x6
<1>1. PICK what, role, to : Z2!Begin(a, what, role, to) /\ (what = "rename" => to # "admin")
  BY DEF Z2!SaveRolePerms, Z2!ExecuteDeleteRole, Z2!AddRole, Z2!ExecuteRenameRole
<1> DEFINE w == [do |-> what, role |-> role, to |-> to, seen |-> Z2!RowsOf(role)]
<1>2. work' = [work EXCEPT ![a] = w] /\ UNCHANGED <<users, perms>> /\ acts' = acts + 1
  BY <1>1 DEF Z2!Begin, Z2!Act
<1>3. w.do = what /\ w.role = role /\ w.to = to /\ \A r \in w.seen : r[1] = role
  BY DEF Z2!RowsOf
<1> HIDE DEF w
<1>4. Z2!WorkSound'
  <2>1. DOMAIN work = Visitors \cup Admins /\ acts \in Int
    BY DEF Z2!WorkSound
  <2>2. \A b \in Admins : work'[b] = IF b = a THEN w ELSE work[b]
    BY <1>2, <2>1
  <2>3. \A b \in Admins : work'[b].do \in {"save", "add", "rename", "delete"} =>
          \A r \in work'[b].seen : r[1] = work'[b].role
    BY <1>3, <2>2 DEF Z2!WorkSound
  <2>4. \A b \in Admins : work'[b].do = "rename" => work'[b].to # "admin"
    BY <1>1, <1>3, <2>2 DEF Z2!WorkSound
  <2>5. DOMAIN work' = Visitors \cup Admins /\ acts' \in Int
    BY <1>2, <2>1
  <2> QED
    BY <1>2, <2>3, <2>4, <2>5 DEF Z2!WorkSound
<1> QED
  BY <1>2, <1>4, SamePages DEF Z2!AccountsKeptStep, Z2!RowsKeptStep

\* The second: what the transaction moves and removes is of its role.
LEMMA RoleEnded ==
  ASSUME Z2!WorkSound, NEW a \in Admins,
         Z2!SetRolePermissions(a) \/ Z2!RenameRole(a) \/ Z2!DeleteRole(a)
  PROVE  Z2!WorkSound' /\ Z2!AccountsKeptStep
<1> DEFINE users == x1  perms == x3  work == x4  acts == x6
           w == work[a]
<1>0. /\ acts \in Int /\ DOMAIN work = Visitors \cup Admins
      /\ \A j \in DOMAIN users : users[j] = Z2!Shape(users[j]) /\ users[j].ok \in BOOLEAN
      /\ w.do \in {"save", "add", "rename", "delete"} /\ \A r \in w.seen : r[1] = w.role
      /\ w.do = "rename" => w.to # "admin"
  BY DEF Z2!WorkSound, Z2!SetRolePermissions, Z2!RenameRole, Z2!DeleteRole
<1>1. work' = [work EXCEPT ![a] = Z2!Idle] /\ acts' = acts
  BY DEF Z2!SetRolePermissions, Z2!RenameRole, Z2!DeleteRole, Z2!Rest
<1>2. work'[a] = Z2!Idle
  BY <1>0, <1>1
<1>3. \/ users' = users
      \/ \E to : users' = Z2!Moved(users, w.role, to)
  BY DEF Z2!SetRolePermissions, Z2!RenameRole, Z2!DeleteRole
<1>4. /\ DOMAIN users' = DOMAIN users
      /\ \A j \in DOMAIN users : /\ users'[j] = Z2!Shape(users'[j]) /\ users'[j].ok = users[j].ok
                                 /\ users[j].role # w.role => users'[j] = users[j]
  <2>1. CASE users' = users
    BY <1>0, <2>1
  <2>2. ASSUME NEW to, users' = Z2!Moved(users, w.role, to)
        PROVE  /\ DOMAIN users' = DOMAIN users
               /\ \A j \in DOMAIN users : /\ users'[j] = Z2!Shape(users'[j]) /\ users'[j].ok = users[j].ok
                                          /\ users[j].role # w.role => users'[j] = users[j]
    <3>1. users' = [j \in DOMAIN users |-> IF users[j].role = w.role THEN [users[j] EXCEPT !.role = to] ELSE users[j]]
      BY <2>2 DEF Z2!Moved
    <3>2. DOMAIN users' = DOMAIN users
      BY <3>1
    <3> SUFFICES ASSUME NEW j \in DOMAIN users
                 PROVE  /\ users'[j] = Z2!Shape(users'[j]) /\ users'[j].ok = users[j].ok
                        /\ users[j].role # w.role => users'[j] = users[j]
      BY <3>2
    <3>3. users[j] = Z2!Shape(users[j])
      BY <1>0
    <3>4. CASE users[j].role = w.role
      <4>1. users'[j] = [users[j] EXCEPT !.role = to]
        BY <3>1, <3>4
      <4> QED
        <5>1. users'[j] = Z2!Shape(users'[j]) /\ users'[j].ok = users[j].ok
          <6> DEFINE v == [users[j] EXCEPT !.role = to]
          <6>1. v = Z2!Shape(v) /\ v.ok = users[j].ok
            BY <3>3, RowChanged
          <6>2. users'[j] = v
            BY <4>1
          <6> HIDE DEF v
          <6> QED
            BY <6>1, <6>2
        <5> QED
          BY <3>4, <5>1
    <3>5. CASE users[j].role # w.role
      BY <3>1, <3>3, <3>5
    <3> QED
      BY <3>4, <3>5
  <2> QED
    BY <1>3, <2>1, <2>2
<1>5. Z2!WorkSound'
  <2>1. \A b \in Admins : work'[b] = work[b] \/ work'[b].do = "idle"
    BY <1>0, <1>1 DEF Z2!Idle
  <2>2. DOMAIN work' = Visitors \cup Admins
    BY <1>0, <1>1
  <2>3. \A j \in DOMAIN users' : users'[j] = Z2!Shape(users'[j]) /\ users'[j].ok \in BOOLEAN
    BY <1>0, <1>4
  <2> QED
    BY <1>0, <1>1, <2>1, <2>2, <2>3 DEF Z2!WorkSound
<1>6. Z2!RowsKeptStep
  BY <1>4 DEF Z2!RowsKeptStep
<1>7. \A x \in perms : x[1] # w.role => x \in perms'
  BY <1>0 DEF Z2!SetRolePermissions, Z2!RenameRole, Z2!DeleteRole, Z2!Renamed
<1>8. ASSUME NEW i \in DOMAIN users \cap DOMAIN users', users[i].role # w.role
      PROVE  Z2!Has(users, perms, i) \subseteq Z2!Has(users', perms', i)
  <2>1. users'[i].role = users[i].role
    BY <1>4, <1>8
  <2> QED
    BY <1>7, <1>8, <2>1 DEF Z2!Has
<1>9. ASSUME NEW i \in DOMAIN users \cap DOMAIN users', users[i].role = w.role, ~ Z2!Takes(a, i)
      PROVE  Z2!Has(users, perms, i) \subseteq Z2!Has(users', perms', i)
  <2>1. Z2!RenameRole(a) /\ w.do = "rename" /\ w.seen = Z2!RowsOf(w.role) /\ w.role # "admin"
    BY <1>0, <1>9 DEF Z2!SetRolePermissions, Z2!RenameRole, Z2!DeleteRole, Z2!Takes, Z2!Overtaken
  <2> DEFINE there == Z2!Allowing(w.to, {r[2] : r \in Z2!Renamed(a)})
  <2>2. \/ UNCHANGED <<users, perms>>
        \/ perms' = (perms \ Z2!Renamed(a)) \cup there /\ users' = Z2!Moved(users, w.role, w.to)
    BY <2>1 DEF Z2!RenameRole
  <2>3. CASE UNCHANGED <<users, perms>>
    BY <2>3 DEF Z2!Has
  <2>4. CASE perms' = (perms \ Z2!Renamed(a)) \cup there /\ users' = Z2!Moved(users, w.role, w.to)
    <3>1. users'[i] = [users[i] EXCEPT !.role = w.to]
      BY <1>9, <2>4 DEF Z2!Moved
    <3>2. users'[i].role = w.to
      BY <1>0, <3>1, RowChanged
    <3>3. \A x \in perms : x[1] = w.role => <<w.to, x[2]>> \in perms'
      BY <2>1, <2>4 DEF Z2!Renamed, Z2!RowsOf, Z2!Allowing
    <3>4. Z2!Has(users, perms, i) = {r[2] : r \in {x \in perms : x[1] = w.role}}
      BY <1>9, <2>1 DEF Z2!Has
    <3>5. Z2!Has(users', perms', i) = {r[2] : r \in {x \in perms' : x[1] = w.to}}
      BY <1>0, <2>1, <3>2 DEF Z2!Has
    <3> SUFFICES ASSUME NEW p \in Z2!Has(users, perms, i) PROVE p \in Z2!Has(users', perms', i)
      OBVIOUS
    <3>6. PICK x \in perms : x[1] = w.role /\ p = x[2]
      BY <3>4
    <3>7. <<w.to, p>> \in perms' /\ <<w.to, p>>[1] = w.to /\ <<w.to, p>>[2] = p
      BY <3>3, <3>6
    <3> QED
      BY <3>5, <3>7
  <2> QED
    BY <2>2, <2>3, <2>4
<1>10. Z2!PagesKeptStep
  <2> SUFFICES ASSUME NEW i \in DOMAIN users \cap DOMAIN users'
               PROVE  \/ Z2!Has(users, perms, i) \subseteq Z2!Has(users', perms', i)
                      \/ Z2!Takes(a, i) /\ work'[a] = Z2!Idle
    BY DEF Z2!PagesKeptStep
  <2> QED
    BY <1>2, <1>8, <1>9
<1> QED
  BY <1>5, <1>6, <1>10 DEF Z2!AccountsKeptStep

LEMMA WorkSoundStep ==
  ASSUME Z2!WorkSound, [Z2!Next]_(Z2!vars)
  PROVE  Z2!WorkSound' /\ Z2!AccountsKeptStep
BY VisitsSound, OneAccountSound, RoleBegun, RoleEnded DEF Z2!Next

\* What is known stays known (collect_symbol, refresh_universe, AuthService): for any
\* surprises and distance of the quarters, any index pages, batches and volumes, any
\* visitors, administrators, pages and number of concurrent transactions.
THEOREM KnownStaysKept ==
  ASSUME QuarterGap \in Int, Surprises \subseteq Int, QuartersAsked \in Nat, DriftDays \in Nat
  PROVE  PartsSpec => KnownKept
<1> DEFINE Sound == /\ part = "earnings" => C!TableSound
                    /\ part = "universe" => U!RefreshSound
                    /\ part = "accounts" => Z2!WorkSound
           Step == /\ part = "earnings" => C!KnownStaysKnownStep
                   /\ part = "universe" => U!UniverseKeptStep
                   /\ part = "accounts" => Z2!AccountsKeptStep
<1>1. PartsInit => Sound
  <2>1. PartsInit /\ part = "earnings" => C!TableSound
    BY DEF PartsInit, C!DriftInit, C!TableSound
  <2>2. PartsInit /\ part = "universe" => U!RefreshSound
    BY DEF PartsInit, U!Init, U!RefreshSound
  <2>3. PartsInit /\ part = "accounts" => Z2!WorkSound
    <3> SUFFICES ASSUME Z2!Init PROVE Z2!WorkSound
      BY DEF PartsInit
    <3>1. PICK r : x1 = << [name |-> "admin", email |-> "none", role |-> "admin", ok |-> TRUE],
                          [name |-> "second", email |-> "other", role |-> r, ok |-> TRUE] >>
      BY DEF Z2!Init
    <3>2. DOMAIN x1 = {1, 2} /\ \A i \in DOMAIN x1 : x1[i] = Z2!Shape(x1[i]) /\ x1[i].ok \in BOOLEAN
      <4>1. DOMAIN x1 = {1, 2}
        BY <3>1
      <4>2. x1[1] = [name |-> "admin", email |-> "none", role |-> "admin", ok |-> TRUE]
        BY <3>1
      <4>3. x1[2] = [name |-> "second", email |-> "other", role |-> r, ok |-> TRUE]
        BY <3>1
      <4>4. x1[1] = Z2!Shape(x1[1]) /\ x1[1].ok = TRUE
        BY <4>2 DEF Z2!Shape
      <4>5. x1[2] = Z2!Shape(x1[2]) /\ x1[2].ok = TRUE
        BY <4>3 DEF Z2!Shape
      <4> QED
        BY <4>1, <4>4, <4>5
    <3>3. x6 = 0 /\ x4 = [t \in Visitors \cup Admins |-> Z2!Idle]
      BY DEF Z2!Init
    <3>4. \A t \in Visitors \cup Admins : x4[t].do = "idle"
      BY <3>3 DEF Z2!Idle
    <3> QED
      BY <3>2, <3>3, <3>4 DEF Z2!WorkSound
  <2> QED
    BY <2>1, <2>2, <2>3
<1>2. Sound /\ [PartsNext]_all => Sound' /\ Step
  <2> SUFFICES ASSUME Sound, [PartsNext]_all PROVE Sound' /\ Step
    OBVIOUS
  <2>1. part' = part
    BY OnePart
  <2>2. part = "earnings" => C!TableSound' /\ C!KnownStaysKnownStep
    BY OnePart, TableStep, DriftKept
  <2>3. part = "universe" => U!RefreshSound' /\ U!UniverseKeptStep
    BY OnePart, RefreshSoundStep
  <2>4. part = "accounts" => Z2!WorkSound' /\ Z2!AccountsKeptStep
    BY OnePart, WorkSoundStep
  <2> QED
    BY <2>1, <2>2, <2>3, <2>4
<1>3. Sound /\ [PartsNext]_all => [Step]_all
  BY <1>2
<1>4. Sound /\ [PartsNext]_all => Sound'
  BY <1>2
<1>5. KnownKept <=> [][Step]_all
  BY DEF KnownKept
<1> HIDE DEF Sound, Step
<1> QED
  BY <1>1, <1>3, <1>4, <1>5, PTL DEF PartsSpec

(***************************************************************************)
(* Post-mortems.                                                           *)
(***************************************************************************)

LEMMA DaysFinite == ASSUME NEW n \in Nat PROVE IsFiniteSet(1 .. n)
<1>1. 1 \in Int /\ n \in Int
  OBVIOUS
<1> QED
  BY <1>1, FS_Interval, Zenon
LEMMA PricesFinite == ASSUME NEW n \in Nat, NEW f PROVE IsFiniteSet({f[d] : d \in 1 .. n})
<1> DEFINE values == {f[d] : d \in 1 .. n}
           g == [d \in 1 .. n |-> f[d]]
<1>1. g \in Surjection(1 .. n, values)
  BY DEF Surjection
<1>2. IsFiniteSet(1 .. n)
  BY DaysFinite
<1> HIDE DEF values, g
<1>3. IsFiniteSet(values)
  BY <1>1, <1>2, FS_Surjection
<1> QED
  BY <1>3 DEF values

\* A range of bars has a best and a worst price, and they bound every bar's.
LEMMA BestAndWorst ==
  ASSUME NEW n \in Nat, n >= 1, NEW hist, \A d \in 1 .. n : hist[d].high \in Int /\ hist[d].low \in Int
  PROVE  /\ H!Max({hist[d].high : d \in 1 .. n}) \in Int
         /\ \A d \in 1 .. n : hist[d].high <= H!Max({hist[e].high : e \in 1 .. n})
         /\ H!Min({hist[d].low : d \in 1 .. n}) \in Int
         /\ \A d \in 1 .. n : H!Min({hist[e].low : e \in 1 .. n}) <= hist[d].low
<1> DEFINE Highs == {hist[d].high : d \in 1 .. n}
           Lows == {hist[d].low : d \in 1 .. n}
<1>1. /\ Highs = {[d \in 1 .. n |-> hist[d].high][e] : e \in 1 .. n}
      /\ Lows = {[d \in 1 .. n |-> hist[d].low][e] : e \in 1 .. n}
  OBVIOUS
<1>2. IsFiniteSet(Highs) /\ IsFiniteSet(Lows)
  <2> DEFINE highs == [d \in 1 .. n |-> hist[d].high]
             lows == [d \in 1 .. n |-> hist[d].low]
  <2>1. IsFiniteSet({highs[e] : e \in 1 .. n}) /\ IsFiniteSet({lows[e] : e \in 1 .. n})
    <3> HIDE DEF highs, lows
    <3> QED
      BY PricesFinite
  <2> QED
    BY <1>1, <2>1, Zenon
<1>3. Highs \subseteq Int /\ Highs # {} /\ Lows \subseteq Int /\ Lows # {}
  OBVIOUS
<1>4. \E m \in Highs : \A h \in Highs : m >= h
  <2>1. PICK m \in Highs : \A h \in Highs : h <= m
    BY <1>2, <1>3, Extremes
  <2> QED
    BY <2>1, <1>3
<1>5. H!Max(Highs) \in Highs /\ \A h \in Highs : H!Max(Highs) >= h
  BY <1>4 DEF H!Max
<1>6. \E m \in Lows : \A l \in Lows : m <= l
  BY <1>2, <1>3, Extremes
<1>7. H!Min(Lows) \in Lows /\ \A l \in Lows : H!Min(Lows) <= l
  BY <1>6 DEF H!Min
<1>8. \A d \in 1 .. n : hist[d].high \in Highs /\ hist[d].low \in Lows
  OBVIOUS
<1> HIDE DEF Highs, Lows
<1>9. H!Max(Highs) \in Int /\ H!Min(Lows) \in Int
  BY <1>3, <1>5, <1>7
<1>10. \A d \in 1 .. n : hist[d].high <= H!Max(Highs) /\ H!Min(Lows) <= hist[d].low
  BY <1>3, <1>5, <1>7, <1>8, <1>9
<1> QED
  BY <1>9, <1>10 DEF Highs, Lows

\* The first and the last of some days are days among them.
LEMMA FirstAndLast ==
  ASSUME NEW n \in Nat, NEW sub \in SUBSET (1 .. n), sub # {}
  PROVE  H!Min(sub) \in sub /\ H!Max(sub) \in sub
<1>1. IsFiniteSet(sub) /\ sub \subseteq Int
  <2>1. IsFiniteSet(1 .. n)
    BY DaysFinite
  <2>2. IsFiniteSet(sub)
    BY <2>1, FS_Subset
  <2> QED
    BY <2>2
<1>2. \E m \in sub : \A h \in sub : m >= h
  <2>1. PICK m \in sub : \A h \in sub : h <= m
    BY <1>1, Extremes
  <2> QED
    BY <2>1, <1>1
<1>3. \E m \in sub : \A l \in sub : m <= l
  BY <1>1, Extremes
<1> QED
  BY <1>2, <1>3 DEF H!Min, H!Max

\* What a day looks like, and the settings of the layers.
Ranges ==
  /\ \A b \in DayBars : /\ b.low \in Int /\ b.high \in Int /\ b.close \in Int
                        /\ b.low <= b.close /\ b.close <= b.high
  /\ PaidPrice \in Int /\ ProfitAt \in Int
  /\ EntryAtr \in Nat /\ HardStopMult \in Nat /\ TrailingMult \in Nat
  /\ TimeStopAfter \in Nat /\ DaysBeyond \in Nat

\* The bars so far are days' bars.
LEMMA BarsAreDays ==
  ASSUME Ranges, H!HistorySound
  PROVE  /\ Len(x1) \in Nat /\ Len(x1) >= 1
         /\ \A d \in 1 .. Len(x1) : /\ x1[d].low \in Int /\ x1[d].high \in Int /\ x1[d].close \in Int
                                    /\ x1[d].low <= x1[d].close /\ x1[d].close <= x1[d].high
<1>1. x1 \in Seq(DayBars) /\ x1 # <<>>
  BY DEF H!HistorySound
<1>2. Len(x1) \in Nat /\ Len(x1) >= 1 /\ \A d \in 1 .. Len(x1) : x1[d] \in DayBars
  BY <1>1
<1> QED
  BY <1>2 DEF Ranges

\* Whatever its layers would have done, no price they give is above the best seen.
LEMMA LayersBelowPeak ==
  ASSUME Ranges, H!HistorySound, NEW n \in 1 .. Len(x1)
  PROVE  H!NoneBeatsPeak(H!Layers(1 .. n))
<1> DEFINE best == H!Best(1 .. n)
<1>1. n \in Nat /\ n >= 1 /\ \A d \in 1 .. n : d \in 1 .. Len(x1)
  BY BarsAreDays
<1>2. /\ \A d \in 1 .. n : /\ x1[d].low \in Int /\ x1[d].high \in Int /\ x1[d].close \in Int
                           /\ x1[d].low <= x1[d].close /\ x1[d].close <= x1[d].high
  BY <1>1, BarsAreDays
<1>3. best \in Int /\ \A d \in 1 .. n : x1[d].high <= best
  BY <1>1, <1>2, BestAndWorst DEF H!Best
<1> HIDE DEF best
<1>4. PaidPrice <= best
  <2>1. PaidPrice <= x1[1].high
    BY DEF H!HistorySound
  <2>2. x1[1].high <= best /\ x1[1].high \in Int
    BY <1>1, <1>2, <1>3
  <2> QED
    BY <1>3, <2>1, <2>2 DEF Ranges
<1>5. H!Risk \in Nat /\ TrailingMult * EntryAtr \in Nat
  BY DEF H!Risk, Ranges
<1>6. \A p \in H!Trail(1 .. n) : p <= best
  <2> DEFINE hits == {d \in 1 .. n : H!TrailHit(d)}
  <2> SUFFICES ASSUME hits # {} PROVE H!TrailStop(H!Min(hits)) <= best
    BY DEF H!Trail
  <2> DEFINE m == H!Min(hits)
  <2>1. m \in 1 .. n
    <3>1. hits \subseteq 1 .. n
      OBVIOUS
    <3> HIDE DEF hits
    <3>2. m \in hits
      BY <1>1, <3>1, FirstAndLast
    <3> QED
      BY <3>1, <3>2
  <2> HIDE DEF m
  <2> DEFINE prices == {x1[e].high : e \in 1 .. m} \cup {PaidPrice}
  <2>2. prices \subseteq Int /\ prices # {} /\ IsFiniteSet(prices)
    <3>1. IsFiniteSet({x1[e].high : e \in 1 .. m})
      <4> DEFINE highs == [d \in 1 .. m |-> x1[d].high]
      <4>1. {x1[e].high : e \in 1 .. m} = {highs[e] : e \in 1 .. m}
        OBVIOUS
      <4>2. m \in Nat
        BY <1>1, <2>1
      <4> HIDE DEF highs
      <4>3. IsFiniteSet({highs[e] : e \in 1 .. m})
        BY <4>2, PricesFinite
      <4> QED
        BY <4>1, <4>3, Zenon
    <3>2. IsFiniteSet({PaidPrice})
      BY FS_Singleton
    <3>3. IsFiniteSet(prices)
      BY <3>1, <3>2, FS_Union, Zenon
    <3>4. \A e \in 1 .. m : x1[e].high \in Int
      BY <1>1, <1>2, <2>1
    <3> QED
      BY <3>3, <3>4 DEF Ranges
  <2>3. \A p \in prices : p <= best
    <3>1. \A e \in 1 .. m : e \in 1 .. n
      BY <1>1, <2>1
    <3> QED
      BY <1>3, <1>4, <3>1
  <2>4. H!Peak(m) \in prices
    <3>1. H!Peak(m) = H!Max(prices)
      BY DEF H!Peak
    <3> HIDE DEF prices
    <3>2. \E x \in prices : \A y \in prices : x >= y
      <4>1. PICK x \in prices : \A y \in prices : y <= x
        BY <2>2, Extremes
      <4> QED
        BY <2>2, <4>1
    <3> QED
      BY <3>1, <3>2 DEF H!Max
  <2>5. H!Peak(m) \in Int /\ H!Peak(m) <= best
    BY <2>2, <2>3, <2>4
  <2>6. H!TrailStop(m) = H!Peak(m) - TrailingMult * EntryAtr
    BY DEF H!TrailStop
  <2>7. \A a, b \in Int, c \in Nat : a <= b => a - c <= b
    OBVIOUS
  <2>8. H!Peak(m) - TrailingMult * EntryAtr <= best
    BY <1>3, <1>5, <2>5, <2>7
  <2> QED
    BY <2>6, <2>8 DEF m
<1>7. \A p \in H!HardStop(1 .. n) : p <= best
  <2>1. PaidPrice - H!Risk <= best
    BY <1>3, <1>4, <1>5 DEF Ranges
  <2> QED
    BY <2>1 DEF H!HardStop
<1>8. H!Max(1 .. n) \in 1 .. n
  <2>1. 1 .. n \in SUBSET (1 .. n) /\ 1 \in 1 .. n
    BY <1>1
  <2>2. 1 .. n # {}
    BY <2>1
  <2> QED
    BY <1>1, <2>1, <2>2, FirstAndLast, Zenon
<1>9. \A p \in H!TimeStop(1 .. n) : p <= best
  <2>1. H!Least(TimeStopAfter + 1, H!Max(1 .. n)) \in 1 .. n
    BY <1>1, <1>8 DEF H!Least, Ranges
  <2> HIDE DEF H!Least
  <2> QED
    BY <1>2, <1>3, <2>1 DEF H!TimeStop
<1>10. \A p \in H!Profit(1 .. n) : p <= best
  BY <1>2, <1>3 DEF H!Profit, Ranges
<1>11. x1[H!Max(1 .. n)].close <= best
  BY <1>2, <1>3, <1>8
<1>12. H!Layers(1 .. n) = [trail |-> H!Trail(1 .. n), hard |-> H!HardStop(1 .. n),
                           time |-> H!TimeStop(1 .. n), profit |-> H!Profit(1 .. n),
                           peak |-> {best}, end |-> {x1[H!Max(1 .. n)].close}]
  BY DEF H!Layers, best
<1>13. \A a, b, c, d, e :
          LET r == [trail |-> a, hard |-> b, time |-> c, profit |-> d, peak |-> {best}, end |-> {e}]
          IN  /\ r.peak = {best}
              /\ \A l \in DOMAIN r : r[l] = a \/ r[l] = b \/ r[l] = c \/ r[l] = d \/ r[l] = {best} \/ r[l] = {e}
  OBVIOUS
<1> DEFINE layers == H!Layers(1 .. n)
<1>14. /\ layers.peak = {best}
       /\ \A l \in DOMAIN layers :
            \/ layers[l] = H!Trail(1 .. n) \/ layers[l] = H!HardStop(1 .. n)
            \/ layers[l] = H!TimeStop(1 .. n) \/ layers[l] = H!Profit(1 .. n)
            \/ layers[l] = {best} \/ layers[l] = {x1[H!Max(1 .. n)].close}
  BY <1>12, <1>13
<1> HIDE DEF layers
<1>15. \A l \in DOMAIN layers : \A p \in layers[l] : p <= best
  BY <1>3, <1>6, <1>7, <1>9, <1>10, <1>11, <1>14
<1>16. \A l \in DOMAIN layers : \A p \in layers[l], q \in layers.peak : p <= q
  BY <1>14, <1>15
<1> QED
  BY <1>16 DEF H!NoneBeatsPeak, layers

LEMMA StoredAgain ==
  ASSUME NEW u, NEW q, NEW m, H!Whole(u)
  PROVE  [u EXCEPT !.qty = q, !.layers = m]
           = [closed |-> u.closed, days |-> u.days, qty |-> q, mfe |-> u.mfe, mae |-> u.mae,
              realized |-> u.realized, layers |-> m]
<1> DEFINE v == [u EXCEPT !.qty = q]
           Fields == {"closed", "days", "qty", "mfe", "mae", "realized", "layers"}
<1>1. DOMAIN u = Fields /\ u = [l \in Fields |-> u[l]]
  BY DEF H!Whole
<1>2. v = [l \in Fields |-> IF l = "qty" THEN q ELSE u[l]]
  BY <1>1
<1>3. [v EXCEPT !.layers = m] = [l \in Fields |-> IF l = "layers" THEN m ELSE IF l = "qty" THEN q ELSE u[l]]
  BY <1>2
<1> QED
  BY <1>1, <1>3

\* What a step leaves of the record: one lemma for the backfills, one for the days
\* and the sales that come between.
LEMMA BackfillsSound ==
  ASSUME Ranges, H!RecordSound, NEW w \in Backfillers,
         H!Compute(w) \/ H!Upsert(w) \/ H!Replay(w) \/ H!Patch(w)
  PROVE  H!RecordSound'
<1> DEFINE found == x6  post == x4  step == x5
<1>1. H!HistorySound' /\ H!RowSound' /\ x1' = x1 /\ x2' = x2 /\ x3' = x3
  BY DEF H!RecordSound, H!HistorySound, H!RowSound, H!Compute, H!Upsert, H!Replay, H!Patch, H!Goto, H!Open, H!Today
<1>2. \A f : (H!Stored(f) <=> H!Stored(f)') /\ (H!NoneBeatsPeak(f) <=> H!NoneBeatsPeak(f)')
  BY <1>1 DEF H!Stored, H!Whole, H!Between, H!Open, H!NoneBeatsPeak
<1>3. DOMAIN found = Backfillers /\ DOMAIN step = Backfillers
  BY DEF H!RecordSound, H!FoundSound
<1>4. ASSUME H!Compute(w) PROVE H!FoundSound' /\ post' = post
  <2>1. /\ step' = [step EXCEPT ![w] = "upsert"]
        /\ found' = [found EXCEPT ![w] = H!MfeMae(H!HeldDays)] /\ post' = post
        /\ H!HeldDays # {}
    BY <1>4 DEF H!Compute, H!Goto
  <2>2. H!Stored(H!MfeMae(H!HeldDays))
    <3> DEFINE f == H!MfeMae(H!HeldDays)
    <3>1. /\ f = [closed |-> ~H!Open, days |-> x2, qty |-> x3.qty, mfe |-> H!Best(H!HeldDays) - PaidPrice,
                  mae |-> H!Worst(H!HeldDays) - PaidPrice, realized |-> x3.gain, layers |-> <<>>]
      BY DEF H!MfeMae
    <3> HIDE DEF f
    <3>2. H!Whole(f) /\ f.layers = <<>>
      BY <3>1 DEF H!Whole
    <3>3. ASSUME ~H!Open, x2 >= x3.exit
          PROVE  f.mae <= f.realized /\ f.realized <= f.mfe
      <4>1. x3.exit \in 1 .. Len(x1) /\ x2 \in 0 .. Len(x1) /\ x3.gain \in Int
        BY <3>3 DEF H!RecordSound, H!HistorySound, H!RowSound, H!Open, H!Today
      <4>2. x1[x3.exit].low <= PaidPrice + x3.gain /\ PaidPrice + x3.gain <= x1[x3.exit].high
        BY <3>3 DEF H!RecordSound, H!RowSound
      <4> DEFINE n == H!Least(x2, x3.exit + 1)
      <4>3. H!HeldDays = 1 .. n
        BY <3>3 DEF H!HeldDays
      <4>4. n \in Nat /\ n >= 1 /\ n <= Len(x1) /\ x3.exit \in 1 .. n
        BY <3>3, <4>1, BarsAreDays DEF H!Least, H!RecordSound
      <4> HIDE DEF n
      <4>5. \A d \in 1 .. n : x1[d].low \in Int /\ x1[d].high \in Int
        BY <4>4, BarsAreDays DEF H!RecordSound
      <4>6. /\ H!Best(1 .. n) \in Int /\ x1[x3.exit].high <= H!Best(1 .. n)
            /\ H!Worst(1 .. n) \in Int /\ H!Worst(1 .. n) <= x1[x3.exit].low
        BY <4>4, <4>5, BestAndWorst DEF H!Best, H!Worst
      <4>7. \A lo, hi, worst, best, paying, gain \in Int :
              lo <= paying + gain /\ paying + gain <= hi /\ hi <= best /\ worst <= lo
                => worst - paying <= gain /\ gain <= best - paying
        OBVIOUS
      <4>8. H!Worst(1 .. n) - PaidPrice <= x3.gain /\ x3.gain <= H!Best(1 .. n) - PaidPrice
        <5> DEFINE lo == x1[x3.exit].low
                   hi == x1[x3.exit].high
                   worst == H!Worst(1 .. n)
                   best == H!Best(1 .. n)
        <5>1. lo \in Int /\ hi \in Int /\ worst \in Int /\ best \in Int /\ PaidPrice \in Int /\ x3.gain \in Int
          BY <4>1, <4>4, <4>5, <4>6 DEF Ranges
        <5>2. lo <= PaidPrice + x3.gain /\ PaidPrice + x3.gain <= hi /\ hi <= best /\ worst <= lo
          BY <4>2, <4>6
        <5> HIDE DEF lo, hi, worst, best
        <5>3. worst - PaidPrice <= x3.gain /\ x3.gain <= best - PaidPrice
          BY <4>7, <5>1, <5>2
        <5> QED
          BY <5>3 DEF worst, best
      <4> QED
        BY <3>1, <4>3, <4>8
    <3>4. f.closed = ~H!Open /\ f.days = x2
      BY <3>1
    <3> QED
      BY <3>2, <3>3, <3>4 DEF H!Stored, H!Between, f
  <2>3. /\ step'[w] = "upsert" /\ H!Stored(found'[w])
        /\ \A v \in Backfillers : v # w => step'[v] = step[v] /\ found'[v] = found[v]
        /\ DOMAIN found' = Backfillers /\ DOMAIN step' = Backfillers
    BY <1>3, <2>1, <2>2
  <2> QED
    BY <1>2, <2>1, <2>3 DEF H!RecordSound, H!FoundSound
<1>5. ASSUME H!Upsert(w) PROVE H!FoundSound' /\ H!Stored(post)'
  <2>1. /\ step[w] = "upsert" /\ step' = [step EXCEPT ![w] = "idle"]
        /\ found' = [found EXCEPT ![w] = H!NoPost]
        /\ post' = IF post = H!NoPost THEN found[w]
                   ELSE [found[w] EXCEPT !.qty = post.qty, !.layers = post.layers]
    BY <1>5 DEF H!Upsert, H!Goto
  <2>2. H!Stored(found[w])
    BY <2>1 DEF H!RecordSound, H!FoundSound
  <2>3. ASSUME post # H!NoPost PROVE H!Stored([found[w] EXCEPT !.qty = post.qty, !.layers = post.layers])
    <3> DEFINE f == found[w]
               g == [f EXCEPT !.qty = post.qty, !.layers = post.layers]
    <3>3. g = [closed |-> f.closed, days |-> f.days, qty |-> post.qty, mfe |-> f.mfe, mae |-> f.mae,
               realized |-> f.realized, layers |-> post.layers]
      BY <2>2, StoredAgain DEF H!Stored
    <3> HIDE DEF f, g
    <3>4. post.layers # <<>> => H!NoneBeatsPeak(post.layers)
      BY <2>3 DEF H!RecordSound, H!Stored
    <3>5. H!Between(f)
      BY <2>2 DEF H!Stored, f
    <3>6. H!Whole(g) /\ g.layers = post.layers /\ g.closed = f.closed /\ g.days = f.days
          /\ g.mae = f.mae /\ g.mfe = f.mfe /\ g.realized = f.realized
      BY <3>3 DEF H!Whole
    <3> QED
      BY <3>4, <3>5, <3>6 DEF H!Stored, H!Between, f, g
  <2>4. H!Stored(post')
    BY <2>1, <2>2, <2>3
  <2>5. /\ step'[w] = "idle"
        /\ \A v \in Backfillers : v # w => step'[v] = step[v] /\ found'[v] = found[v]
        /\ DOMAIN found' = Backfillers /\ DOMAIN step' = Backfillers
    BY <1>3, <2>1
  <2>6. H!FoundSound'
    BY <1>2, <2>4, <2>5 DEF H!RecordSound, H!FoundSound
  <2>7. H!Stored(post)'
    BY <2>4, <1>1 DEF H!Stored, H!Whole, H!Between, H!Open, H!NoneBeatsPeak
  <2> QED
    BY <2>6, <2>7
<1>6. ASSUME H!Replay(w) PROVE H!FoundSound' /\ post' = post
  <2>1. /\ step' = [step EXCEPT ![w] = "patch"] /\ found' = [found EXCEPT ![w] = H!Layers(H!Replayed)]
        /\ post' = post /\ post # H!NoPost /\ ~H!Open /\ x2 >= 1
    BY <1>6 DEF H!Replay, H!Goto
  <2>2. H!NoneBeatsPeak(H!Layers(H!Replayed))
    <3> DEFINE n == H!Least(x2, x3.exit + DaysBeyond)
    <3>1. n \in 1 .. Len(x1)
      <4>1. x2 \in 0 .. Len(x1) /\ x3.exit \in 0 .. Len(x1)
        BY DEF H!RecordSound, H!HistorySound, H!RowSound, H!Today
      <4>2. Len(x1) \in Nat /\ x2 >= 1 /\ x3.exit # 0
        BY <2>1, BarsAreDays DEF H!RecordSound, H!Open
      <4>3. DaysBeyond \in Nat
        BY DEF Ranges
      <4> QED
        BY <4>1, <4>2, <4>3 DEF H!Least
    <3>2. H!Replayed = 1 .. n
      BY DEF H!Replayed
    <3> HIDE DEF n
    <3> QED
      BY <3>1, <3>2, LayersBelowPeak DEF H!RecordSound
  <2>3. /\ step'[w] = "patch" /\ H!NoneBeatsPeak(found'[w])
        /\ \A v \in Backfillers : v # w => step'[v] = step[v] /\ found'[v] = found[v]
        /\ DOMAIN found' = Backfillers /\ DOMAIN step' = Backfillers
    BY <1>3, <2>1, <2>2
  <2>4. H!Stored(post)
    BY <2>1 DEF H!RecordSound
  <2> QED
    BY <1>2, <2>1, <2>3, <2>4 DEF H!RecordSound, H!FoundSound
<1>7. ASSUME H!Patch(w) PROVE H!FoundSound' /\ H!Stored(post)'
  <2>1. /\ step[w] = "patch" /\ step' = [step EXCEPT ![w] = "idle"]
        /\ found' = [found EXCEPT ![w] = H!NoPost] /\ post' = [post EXCEPT !.layers = found[w]]
    BY <1>7 DEF H!Patch, H!Goto
  <2>2. H!Stored(post) /\ H!NoneBeatsPeak(found[w])
    BY <2>1 DEF H!RecordSound, H!FoundSound
  <2>3. \A a, b, c, d, e, r, l, m, u :
          u = [closed |-> a, days |-> b, qty |-> c, mfe |-> d, mae |-> e, realized |-> r, layers |-> l]
            => [u EXCEPT !.layers = m]
                 = [closed |-> a, days |-> b, qty |-> c, mfe |-> d, mae |-> e, realized |-> r, layers |-> m]
    OBVIOUS
  <2>4. post' = [closed |-> post.closed, days |-> post.days, qty |-> post.qty, mfe |-> post.mfe,
                 mae |-> post.mae, realized |-> post.realized, layers |-> found[w]]
    BY <2>1, <2>2, <2>3, Zenon DEF H!Stored, H!Whole
  <2>5. /\ H!Whole(post') /\ post'.layers = found[w] /\ post'.closed = post.closed
        /\ post'.days = post.days /\ post'.mae = post.mae /\ post'.mfe = post.mfe
        /\ post'.realized = post.realized
    BY <2>4 DEF H!Whole
  <2>6. H!Stored(post')
    BY <2>2, <2>5 DEF H!Stored, H!Between
  <2>7. /\ step'[w] = "idle"
        /\ \A v \in Backfillers : v # w => step'[v] = step[v] /\ found'[v] = found[v]
        /\ DOMAIN found' = Backfillers /\ DOMAIN step' = Backfillers
    BY <1>3, <2>1
  <2>8. H!FoundSound'
    BY <1>2, <2>6, <2>7 DEF H!RecordSound, H!FoundSound
  <2>9. H!Stored(post)'
    BY <2>6, <1>1 DEF H!Stored, H!Whole, H!Between, H!Open, H!NoneBeatsPeak
  <2> QED
    BY <2>8, <2>9
<1>8. post' = post => (post = H!NoPost \/ H!Stored(post))'
  BY <1>2 DEF H!RecordSound, H!NoPost
<1> QED
  BY <1>1, <1>4, <1>5, <1>6, <1>7, <1>8 DEF H!RecordSound

LEMMA DaysSound ==
  ASSUME Ranges, H!RecordSound, H!NewDay \/ H!CollectBars \/ H!Close \/ H!SellPart
  PROVE  H!RecordSound'
<1>1. /\ Len(x1) \in Nat /\ Len(x1) >= 1 /\ x1 \in Seq(DayBars)
      /\ \A d \in 1 .. Len(x1) : x1[d].low \in Int /\ x1[d].high \in Int /\ x1[d].low <= x1[d].high
  <2>1. \A l, c, h \in Int : l <= c /\ c <= h => l <= h
    OBVIOUS
  <2> QED
    BY <2>1, BarsAreDays DEF H!RecordSound, H!HistorySound
<1>2. /\ x2 \in 0 .. Len(x1) /\ x1[1].low <= PaidPrice /\ PaidPrice <= x1[1].high
      /\ x3 = [qty |-> x3.qty, exit |-> x3.exit, gain |-> x3.gain] /\ x3.gain \in Int
      /\ x3.exit \in 0 .. Len(x1)
      /\ x3.exit # 0 => x1[x3.exit].low <= PaidPrice + x3.gain /\ PaidPrice + x3.gain <= x1[x3.exit].high
  BY DEF H!RecordSound, H!HistorySound, H!RowSound, H!Today, H!Open
<1>3. ASSUME x4' = x4, x5' = x5, x6' = x6, x3' = x3 \/ (x3.exit = 0)
      PROVE  H!FoundSound' /\ (x4 = H!NoPost \/ H!Stored(x4))'
  <2>1. \A f : H!Stored(f) => H!Stored(f)'
    <3>1. \A f : H!Between(f) => H!Between(f)'
      BY <1>3 DEF H!Between, H!Open
    <3>2. \A f : H!NoneBeatsPeak(f)' <=> H!NoneBeatsPeak(f)
      BY DEF H!NoneBeatsPeak
    <3> QED
      BY <3>1, <3>2 DEF H!Stored, H!Whole
  <2>2. \A f : H!NoneBeatsPeak(f)' <=> H!NoneBeatsPeak(f)
    BY DEF H!NoneBeatsPeak
  <2> QED
    BY <1>3, <2>1, <2>2 DEF H!RecordSound, H!FoundSound, H!NoPost
<1>4. CASE H!NewDay
  <2>1. PICK b \in DayBars : x1' = Append(x1, b)
    BY <1>4 DEF H!NewDay
  <2>2. /\ x1' \in Seq(DayBars) /\ x1' # <<>> /\ Len(x1') = Len(x1) + 1
        /\ \A d \in 1 .. Len(x1) : x1'[d] = x1[d]
    BY <1>1, <2>1
  <2>3. x2' = x2 /\ x3' = x3 /\ x4' = x4 /\ x5' = x5 /\ x6' = x6
    BY <1>4 DEF H!NewDay
  <2>4. H!HistorySound'
    BY <1>1, <1>2, <2>2, <2>3 DEF H!HistorySound, H!Today
  <2>5. H!RowSound'
    BY <1>1, <1>2, <2>2, <2>3 DEF H!RowSound, H!Today, H!Open
  <2> QED
    BY <1>3, <2>3, <2>4, <2>5 DEF H!RecordSound
<1>5. CASE H!CollectBars
  <2>1. x1' = x1 /\ x2' = Len(x1) /\ x3' = x3 /\ x4' = x4 /\ x5' = x5 /\ x6' = x6
    BY <1>5 DEF H!CollectBars, H!Today
  <2>2. H!HistorySound' /\ H!RowSound'
    BY <1>1, <2>1 DEF H!RecordSound, H!HistorySound, H!RowSound, H!Today, H!Open
  <2> QED
    BY <1>3, <2>1, <2>2 DEF H!RecordSound
<1>6. CASE H!Close
  <2>1. PICK p \in {x1[Len(x1)].low, x1[Len(x1)].high} :
          x3' = [x3 EXCEPT !.exit = Len(x1), !.gain = p - PaidPrice]
    BY <1>6 DEF H!Close, H!Today
  <2>2. /\ x1' = x1 /\ x2' = x2 /\ x4' = x4 /\ x5' = x5 /\ x6' = x6 /\ x3.exit = 0
    BY <1>6 DEF H!Close, H!Open
  <2>3. ASSUME NEW u, NEW f, NEW k, u = [qty |-> u.qty, exit |-> u.exit, gain |-> u.gain]
        PROVE  [u EXCEPT !.exit = f, !.gain = k] = [qty |-> u.qty, exit |-> f, gain |-> k]
    <3> DEFINE v == [u EXCEPT !.exit = f]
               Fields == {"qty", "exit", "gain"}
    <3>1. DOMAIN u = Fields /\ u = [l \in Fields |-> u[l]]
      BY <2>3
    <3>2. v = [l \in Fields |-> IF l = "exit" THEN f ELSE u[l]]
      BY <3>1
    <3>3. [v EXCEPT !.gain = k] = [l \in Fields |-> IF l = "gain" THEN k ELSE IF l = "exit" THEN f ELSE u[l]]
      BY <3>2
    <3> QED
      BY <3>1, <3>3
  <2>4. x3' = [qty |-> x3.qty, exit |-> Len(x1), gain |-> p - PaidPrice]
    BY <1>2, <2>1, <2>3
  <2>5. x3'.qty = x3.qty /\ x3'.exit = Len(x1) /\ x3'.gain = p - PaidPrice
    BY <2>4
  <2>6. /\ p \in Int /\ x1[Len(x1)].low <= p /\ p <= x1[Len(x1)].high
    BY <1>1, <2>1
  <2>7. p - PaidPrice \in Int /\ PaidPrice + (p - PaidPrice) = p
    BY <2>6 DEF Ranges
  <2>8. H!RowSound'
    BY <1>1, <2>2, <2>4, <2>5, <2>6, <2>7 DEF H!RowSound, H!Today, H!Open
  <2>9. H!HistorySound'
    BY <2>2 DEF H!RecordSound, H!HistorySound, H!Today
  <2> QED
    BY <1>3, <2>2, <2>8, <2>9 DEF H!RecordSound
<1>7. CASE H!SellPart
  <2>1. /\ x3' = [x3 EXCEPT !.qty = x3.qty - 1] /\ x3.exit = 0
        /\ x1' = x1 /\ x2' = x2 /\ x4' = x4 /\ x5' = x5 /\ x6' = x6
    BY <1>7 DEF H!SellPart, H!Open
  <2>2. x3' = [qty |-> x3.qty - 1, exit |-> x3.exit, gain |-> x3.gain]
    BY <1>2, <2>1
  <2>3. x3'.exit = x3.exit /\ x3'.gain = x3.gain /\ x3'.qty = x3.qty - 1
    BY <2>2
  <2>4. H!RowSound'
    BY <1>1, <1>2, <2>1, <2>2, <2>3 DEF H!RowSound, H!Today, H!Open
  <2>5. H!HistorySound'
    BY <2>1 DEF H!RecordSound, H!HistorySound, H!Today
  <2> QED
    BY <1>3, <2>1, <2>4, <2>5 DEF H!RecordSound
<1> QED
  BY <1>4, <1>5, <1>6, <1>7

\* No exit realises more than the best price seen while the row was held, nor less
\* than the worst (compute_mfe_mae), and no replayed layer gives more than the peak
\* (simulate_counterfactuals), however backfills, sales and new bars interleave.
THEOREM HindsightStaysBest == ASSUME Ranges PROVE PartsSpec => []HindsightIsBest
<1> DEFINE Sound == part = "hindsight" => H!RecordSound
<1>1. PartsInit => Sound
  <2> SUFFICES ASSUME PartsInit, part = "hindsight" PROVE H!RecordSound
    OBVIOUS
  <2>1. H!Init
    BY DEF PartsInit
  <2>2. PICK b \in DayBars : b.low <= PaidPrice /\ PaidPrice <= b.high /\ x1 = <<b>>
    BY <2>1 DEF H!Init
  <2>3. x1 \in Seq(DayBars) /\ x1 # <<>> /\ x1[1] = b /\ Len(x1) = 1
    BY <2>2
  <2>4. x2 = 0 /\ x3 = [qty |-> 2, exit |-> 0, gain |-> 0] /\ x4 = H!NoPost
        /\ x5 = [w \in Backfillers |-> "idle"] /\ x6 = [w \in Backfillers |-> H!NoPost]
    BY <2>1 DEF H!Init
  <2>5. H!HistorySound
    BY <2>2, <2>3, <2>4 DEF H!HistorySound, H!Today
  <2>6. H!RowSound
    BY <2>3, <2>4 DEF H!RowSound, H!Today, H!Open
  <2>7. H!FoundSound
    BY <2>4 DEF H!FoundSound
  <2> QED
    BY <2>4, <2>5, <2>6, <2>7 DEF H!RecordSound
<1>2. Sound /\ [PartsNext]_all => Sound'
  <2> SUFFICES ASSUME Sound, [PartsNext]_all PROVE Sound'
    OBVIOUS
  <2>1. part' = part
    BY OnePart
  <2>2. ASSUME part = "hindsight" PROVE H!RecordSound'
    <3>1. H!RecordSound /\ [H!Next]_(H!vars)
      BY <2>2, OnePart
    <3>2. CASE UNCHANGED H!vars
      BY <3>1, <3>2 DEF H!vars, H!RecordSound, H!HistorySound, H!RowSound, H!FoundSound, H!Stored,
         H!Whole, H!Between, H!NoneBeatsPeak, H!Today, H!Open, H!NoPost
    <3> QED
      BY <3>1, <3>2, BackfillsSound, DaysSound DEF H!Next
  <2> QED
    BY <2>1, <2>2
<1>3. Sound => HindsightIsBest
  <2> SUFFICES ASSUME H!RecordSound PROVE H!HindsightIsBest
    BY DEF HindsightIsBest
  <2> QED
    BY DEF H!RecordSound, H!HindsightIsBest, H!Stored, H!Between
<1> HIDE DEF Sound
<1> QED
  BY <1>1, <1>2, <1>3, PTL DEF PartsSpec

(***************************************************************************)
(* Caches.  Of the macro overlay: figures are no older than their life     *)
(* when a score is made of them.                                           *)
(***************************************************************************)
MacroSound ==
  /\ x1 \in Nat
  /\ x3 = M!Nothing \/ x3.at \in 0 .. x1
  /\ x4 = M!Nothing \/ (x4.at \in 0 .. x1 /\ x4.of \in 0 .. x4.at /\ x4.at - x4.of <= FigureSteps - 1)
  /\ x9 \in Int /\ x9 <= FigureSteps + ScoreLife - 2

LEMMA MacroSoundInit ==
  ASSUME FigureSteps \in Nat \ {0}, ScoreLife \in Nat \ {0}, M!Init
  PROVE  MacroSound
BY DEF M!Init, MacroSound

LEMMA MacroSoundStep ==
  ASSUME FigureSteps \in Nat \ {0}, ScoreLife \in Nat \ {0}, MacroSound, [M!Next]_(M!vars)
  PROVE  MacroSound'
<1> USE DEF MacroSound
<1>1. M!Nothing.at = -1
  BY DEF M!Nothing
<1>2. \A d \in M!Downloads : d = M!Nothing \/ d.at = x1
  BY DEF M!Downloads, M!Fresh
<1>3. \A d : (d = M!Nothing \/ d.at \in 0 .. x1) =>
        /\ M!Scored(d).at = x1
        /\ M!Scored(d).of = IF d = M!Nothing THEN x1 ELSE d.at
  <2> TAKE d
  <2> HAVE d = M!Nothing \/ d.at \in 0 .. x1
  <2>1. CASE d = M!Nothing
    BY <2>1 DEF M!Scored
  <2>2. CASE d # M!Nothing
    BY <2>2 DEF M!Scored
  <2> QED
    BY <2>1, <2>2
<1>4. \A s : M!Live(x4, s) => x4 # M!Nothing
  BY <1>1 DEF M!Live
<1>5. CASE M!AnswerCached
  BY <1>4, <1>5 DEF M!AnswerCached, M!Read, M!Live
<1>6. CASE M!AnswerScored
  <2>1. PICK d \in M!Collected(FALSE) : /\ M!Cache(d)
                                        /\ x4' = IF d = M!Nothing THEN x4 ELSE M!Scored(d)
                                        /\ x9' = x1 - M!Scored(d).of
    BY <1>6 DEF M!AnswerScored
  <2>2. x1' = x1
    BY <1>6 DEF M!AnswerScored
  <2>3. d = M!Nothing \/ (d.at \in 0 .. x1 /\ x1 - d.at <= FigureSteps - 1)
    <3>1. CASE M!Live(x3, FigureSteps) /\ d = x3
      BY <1>1, <3>1 DEF M!Live
    <3>2. CASE d \in M!Downloads
      BY <1>2, <3>2
    <3> QED
      BY <3>1, <3>2 DEF M!Collected
  <2>4. x3' = M!Nothing \/ x3'.at \in 0 .. x1
    BY <2>1, <2>3 DEF M!Cache
  <2>5. CASE d = M!Nothing
    BY <1>3, <2>1, <2>2, <2>4, <2>5
  <2>6. CASE d # M!Nothing
    BY <1>3, <2>1, <2>2, <2>3, <2>4, <2>6
  <2> QED
    BY <2>5, <2>6
<1>7. CASE M!CollectData
  BY <1>2, <1>7 DEF M!CollectData, M!Collected, M!Cache
<1>8. CASE M!CollectScore
  <2>1. PICK d \in M!Downloads : M!Cache(d) /\ x4' = IF d = M!Nothing THEN x4 ELSE M!Scored(d)
    BY <1>8 DEF M!CollectScore, M!Collected
  <2>2. x1' = x1 /\ x9' = x9
    BY <1>8 DEF M!CollectScore
  <2>3. d = M!Nothing \/ d.at = x1
    BY <1>2
  <2>4. x3' = M!Nothing \/ x3'.at \in 0 .. x1
    BY <2>1, <2>3 DEF M!Cache
  <2>5. d # M!Nothing => x4'.at = x1 /\ x4'.of = x1
    BY <1>3, <2>1, <2>3
  <2> QED
    BY <2>1, <2>2, <2>4, <2>5
<1>9. CASE M!SaveSnapshot \/ M!Shift \/ UNCHANGED M!vars
  BY <1>9 DEF M!SaveSnapshot, M!Shift, M!vars
<1>10. CASE M!Tick
  BY <1>10 DEF M!Tick
<1> QED
  BY <1>5, <1>6, <1>7, <1>8, <1>9, <1>10 DEF M!Next

(***************************************************************************)
(* Of the factor context: what is cached is not empty, and the ranking     *)
(* orders the factors by the trades it was made of.                        *)
(***************************************************************************)
ContextSettings ==
  /\ \A e \in FactorEtfs : /\ SeedHoldings[e] # {} /\ IsFiniteSet(SeedHoldings[e])
                           /\ \A list \in PublishedLists[e] : IsFiniteSet(list)
  /\ RankedFactors \in Seq(Range(RankedFactors))
  /\ \A i, j \in DOMAIN RankedFactors : RankedFactors[i] = RankedFactors[j] => i = j
  /\ \A t \in ClosedTrades : \A f \in Range(RankedFactors) : t.score[f] \in Nat \cup {C!Missing}
  /\ ContextDays \in Nat

MeanOf(trades, f) == C!Mean(C!Winners(trades), f) - C!Mean(trades \ C!Winners(trades), f)
Ordered(ranked, trades) ==
  \A i, j \in DOMAIN ranked : i < j => MeanOf(trades, ranked[i]) >= MeanOf(trades, ranked[j])

ContextInv ==
  /\ x1 \in Nat
  /\ \A e \in FactorEtfs : /\ IsFiniteSet(x2[e].list) /\ x2[e].until \in Nat
                           /\ C!Live(x2[e]) => x2[e].list # {}
                           /\ x4.seen[e] > 0
  /\ DOMAIN x2 = FactorEtfs
  /\ x5 \subseteq ClosedTrades /\ IsFiniteSet(x5)
  /\ Ordered(x6.ranked, x6.of)

PlacesBefore(n, before, k) == Cardinality({j \in 1 .. n : <<j, k>> \in before})

\* In a strict total order of n places each number of places before is met once.
LEMMA PlacesFilled ==
  ASSUME NEW n \in Nat, NEW before \in SUBSET ((1 .. n) \X (1 .. n)),
         \A i \in 1 .. n : <<i, i>> \notin before,
         \A i, j, k \in 1 .. n : <<i, j>> \in before /\ <<j, k>> \in before => <<i, k>> \in before,
         \A i, j \in 1 .. n : i # j => <<i, j>> \in before \/ <<j, i>> \in before
  PROVE  /\ \A k \in 1 .. n : PlacesBefore(n, before, k) \in Nat
         /\ \A j, k \in 1 .. n : <<j, k>> \in before => PlacesBefore(n, before, j) < PlacesBefore(n, before, k)
         /\ \A i \in 1 .. n : \E k \in 1 .. n : PlacesBefore(n, before, k) = i - 1
<1> DEFINE places == 1 .. n
           ahead(k) == {j \in places : <<j, k>> \in before}
           c(k) == Cardinality(ahead(k))
<1>1. IsFiniteSet(places) /\ Cardinality(places) = n
  <2>1. n \in Int /\ 1 \in Int /\ (IF 1 > n THEN 0 ELSE n - 1 + 1) = n
    OBVIOUS
  <2>2. IsFiniteSet(places) /\ Cardinality(places) = IF 1 > n THEN 0 ELSE n - 1 + 1
    BY <2>1, FS_Interval, Zenon
  <2> QED
    BY <2>1, <2>2
<1>2. \A k \in places : ahead(k) \in SUBSET (places \ {k}) /\ ahead(k) \in SUBSET places
  OBVIOUS
<1>3. \A j, k \in places : <<j, k>> \in before => ahead(j) \in SUBSET ahead(k) /\ j \in ahead(k) /\ j \notin ahead(j)
  OBVIOUS
<1> HIDE DEF places, ahead
<1>4. \A k \in places : IsFiniteSet(ahead(k))
  BY <1>1, <1>2, FS_Subset, Zenon
<1>5. \A k \in places : c(k) \in Nat /\ c(k) < n
  <2> TAKE k \in places
  <2>1. IsFiniteSet(places \ {k}) /\ Cardinality(places \ {k}) = n - 1
    BY <1>1, FS_RemoveElement
  <2>2. c(k) <= n - 1
    BY <1>2, <2>1, FS_Subset
  <2>3. c(k) \in Nat
    BY <1>4, FS_CardinalityType, Zenon
  <2> QED
    BY <2>2, <2>3
<1>6. \A j, k \in places : <<j, k>> \in before => c(j) < c(k)
  <2> SUFFICES ASSUME NEW j \in places, NEW k \in places, <<j, k>> \in before PROVE c(j) < c(k)
    OBVIOUS
  <2>1. c(j) <= c(k) /\ (c(k) = c(j) => ahead(k) = ahead(j))
    BY <1>3, <1>4, FS_Subset, Zenon
  <2>2. c(k) # c(j)
    BY <1>3, <2>1
  <2>3. c(j) \in Nat /\ c(k) \in Nat
    BY <1>5
  <2> QED
    BY <2>1, <2>2, <2>3
<1> DEFINE g == [k \in places |-> c(k) + 1]
<1>7. g \in Injection(places, places)
  <2>1. \A k \in places : c(k) + 1 \in places
    BY <1>5 DEF places
  <2>2. \A j, k \in places : c(j) + 1 = c(k) + 1 => j = k
    <3>1. \A j, k \in places : j # k => c(j) < c(k) \/ c(k) < c(j)
      BY <1>6 DEF places
    <3> HIDE DEF c
    <3> QED
      BY <1>5, <3>1
  <2> HIDE DEF c
  <2> QED
    BY <2>1, <2>2 DEF Injection, IsInjective
<1>8. g \in Surjection(places, places)
  <2> HIDE DEF g
  <2> QED
    BY <1>1, <1>7, FS_Injection, Zenon
<1>9. \A i \in places : \E k \in places : c(k) + 1 = i
  BY <1>8 DEF Surjection
<1>c. \A k \in places : c(k) = PlacesBefore(n, before, k)
  BY DEF ahead, places, PlacesBefore
<1> HIDE DEF c, g
<1>10. \A i \in places : \E k \in places : c(k) = i - 1
  <2> TAKE i \in places
  <2>1. PICK k \in places : c(k) + 1 = i
    BY <1>9
  <2>2. c(k) = i - 1
    BY <1>5, <2>1
  <2> QED
    BY <2>2
<1> QED
  BY <1>5, <1>6, <1>10, <1>c DEF places

LEMMA ContextCounts == (\A set : C!Cardinality(set) = Cardinality(set)) /\ \A set : C!IsFiniteSet(set) <=> IsFiniteSet(set)
BY DEF Cardinality, C!Cardinality, IsFiniteSet, C!IsFiniteSet

\* The mean score of some trades.
LEMMA MeanInt ==
  ASSUME ContextSettings, NEW set, set \subseteq ClosedTrades, IsFiniteSet(set), NEW f \in Range(RankedFactors)
  PROVE  C!Mean(set, f) \in Int
<1> DEFINE g == [t \in set |-> C!ScoreOf(t, f)]
<1>1. g \in [set -> Nat]
  <2>1. \A t \in set : C!ScoreOf(t, f) \in Nat
    BY DEF ContextSettings, C!ScoreOf, C!Missing
  <2> QED
    BY <2>1
<1>2. C!Sum(g) \in Nat
  <2> HIDE DEF g
  <2> QED
    BY <1>1, ContextSums, SumNat
<1>3. CASE set = {}
  BY <1>3 DEF C!Mean
<1>4. CASE set # {}
  <2>1. Cardinality(set) \in Nat /\ Cardinality(set) # 0
    BY <1>4, FS_CardinalityType, FS_EmptySet
  <2>2. \A s, k \in Nat : k # 0 => (100 * s) \div k \in Int
    OBVIOUS
  <2>3. C!Mean(set, f) = (100 * C!Sum(g)) \div Cardinality(set)
    BY <1>4, ContextCounts DEF C!Mean, C!SumOf
  <2> HIDE DEF g
  <2> QED
    BY <1>2, <2>1, <2>2, <2>3
<1> QED
  BY <1>3, <1>4

LEMMA MeanOfInt ==
  ASSUME ContextSettings, NEW set, set \subseteq ClosedTrades, IsFiniteSet(set), NEW f \in Range(RankedFactors)
  PROVE  MeanOf(set, f) \in Int
<1>1. C!Winners(set) \in SUBSET set /\ set \ C!Winners(set) \in SUBSET set
  BY DEF C!Winners
<1>2. IsFiniteSet(C!Winners(set)) /\ IsFiniteSet(set \ C!Winners(set))
  BY <1>1, FS_Subset, Zenon
<1>3. C!Mean(C!Winners(set), f) \in Int /\ C!Mean(set \ C!Winners(set), f) \in Int
  BY <1>1, <1>2, MeanInt
<1> QED
  BY <1>3 DEF MeanOf

LEMMA RankingOrdered ==
  ASSUME ContextSettings, x5 \subseteq ClosedTrades, IsFiniteSet(x5)
  PROVE  Ordered(C!Ranked, x5)
<1> DEFINE n == Len(RankedFactors)
           names == {RankedFactors[j] : j \in DOMAIN RankedFactors}
           before == {p \in (1 .. n) \X (1 .. n) : C!Ahead(RankedFactors[p[1]], RankedFactors[p[2]])}
           c(k) == PlacesBefore(n, before, k)
           perf(k) == MeanOf(x5, RankedFactors[k])
<1>1. n \in Nat /\ DOMAIN RankedFactors = 1 .. n /\ names = Range(RankedFactors)
  BY DEF ContextSettings, Range
<1>2. \A k \in 1 .. n : perf(k) \in Int /\ perf(k) = C!Performance(RankedFactors[k])
  <2> TAKE k \in 1 .. n
  <2>1. RankedFactors[k] \in Range(RankedFactors)
    BY <1>1
  <2> QED
    BY <2>1, MeanOfInt DEF MeanOf, C!Performance
<1>3. \A k \in 1 .. n : C!Place(RankedFactors[k]) = k
  <2> TAKE k \in 1 .. n
  <2>1. \A i \in DOMAIN RankedFactors : RankedFactors[i] = RankedFactors[k] <=> i = k
    BY <1>1 DEF ContextSettings
  <2> QED
    BY <1>1, <2>1 DEF C!Place
<1> HIDE DEF perf
<1>4. \A j, k \in 1 .. n : <<j, k>> \in before <=> (perf(j) > perf(k) \/ (perf(j) = perf(k) /\ j < k))
  BY <1>2, <1>3 DEF C!Ahead
<1>5. before \in SUBSET ((1 .. n) \X (1 .. n))
  OBVIOUS
<1> HIDE DEF n, before
<1>6. /\ \A k \in 1 .. n : c(k) \in Nat
      /\ \A j, k \in 1 .. n : <<j, k>> \in before => c(j) < c(k)
      /\ \A i \in 1 .. n : \E k \in 1 .. n : c(k) = i - 1
  <2>1. \A i \in 1 .. n : <<i, i>> \notin before
    BY <1>1, <1>2, <1>4
  <2>2. \A i, j, k \in 1 .. n : <<i, j>> \in before /\ <<j, k>> \in before => <<i, k>> \in before
    BY <1>1, <1>2, <1>4
  <2>3. \A i, j \in 1 .. n : i # j => <<i, j>> \in before \/ <<j, i>> \in before
    BY <1>1, <1>2, <1>4
  <2> QED
    BY <1>1, <1>5, <2>1, <2>2, <2>3, PlacesFilled
<1>7. \A k \in 1 .. n : C!Cardinality({j \in DOMAIN RankedFactors : C!Ahead(RankedFactors[j], RankedFactors[k])}) = c(k)
  <2> TAKE k \in 1 .. n
  <2>1. {j \in DOMAIN RankedFactors : C!Ahead(RankedFactors[j], RankedFactors[k])} = {j \in 1 .. n : <<j, k>> \in before}
    BY <1>1 DEF before
  <2> QED
    BY <2>1, ContextCounts DEF PlacesBefore
<1> HIDE DEF c
<1>8. \A i \in 1 .. n : \E k \in 1 .. n : c(k) = i - 1 /\ C!Ranked[i] = RankedFactors[k]
  <2> TAKE i \in 1 .. n
  <2> DEFINE stands(f) == C!Cardinality({j \in DOMAIN RankedFactors : C!Ahead(RankedFactors[j], f)}) = i - 1
  <2>1. \E f \in names : stands(f)
    <3>1. PICK k \in 1 .. n : c(k) = i - 1
      BY <1>6
    <3>2. RankedFactors[k] \in names /\ stands(RankedFactors[k])
      BY <1>1, <1>7, <3>1
    <3> QED
      BY <3>2
  <2>2. C!Ranked[i] = CHOOSE f \in names : stands(f)
    BY <1>1 DEF C!Ranked
  <2>3. C!Ranked[i] \in names /\ stands(C!Ranked[i])
    <3> HIDE DEF stands, names
    <3> QED
      BY <2>1, <2>2
  <2>4. PICK k \in DOMAIN RankedFactors : C!Ranked[i] = RankedFactors[k]
    BY <2>3
  <2>5. c(k) = i - 1
    BY <1>1, <1>7, <2>3, <2>4
  <2> QED
    BY <1>1, <2>4, <2>5
<1>9. DOMAIN C!Ranked = 1 .. n
  BY <1>1 DEF C!Ranked
<1> SUFFICES ASSUME NEW i \in 1 .. n, NEW j \in 1 .. n, i < j
             PROVE  MeanOf(x5, C!Ranked[i]) >= MeanOf(x5, C!Ranked[j])
  BY <1>9 DEF Ordered
<1>10. PICK k \in 1 .. n : c(k) = i - 1 /\ C!Ranked[i] = RankedFactors[k]
  BY <1>8
<1>11. PICK l \in 1 .. n : c(l) = j - 1 /\ C!Ranked[j] = RankedFactors[l]
  BY <1>8
<1>12. ~ (perf(l) > perf(k))
  <2> SUFFICES ASSUME perf(l) > perf(k) PROVE FALSE
    OBVIOUS
  <2>1. c(l) < c(k)
    BY <1>4, <1>6
  <2> QED
    BY <1>1, <1>10, <1>11, <2>1
<1>13. perf(k) >= perf(l)
  BY <1>2, <1>12
<1> QED
  BY <1>10, <1>11, <1>13 DEF perf

LEMMA SeedsThere ==
  ASSUME ContextSettings, NEW e \in FactorEtfs
  PROVE  /\ SeedHoldings[e] # {} /\ IsFiniteSet(SeedHoldings[e])
         /\ \A sub : sub # {} /\ IsFiniteSet(sub) => C!Cardinality(sub) > 0
<1>1. \A sub : sub # {} /\ IsFiniteSet(sub) => Cardinality(sub) \in Nat /\ Cardinality(sub) # 0
  BY FS_CardinalityType, FS_EmptySet, Zenon
<1>2. \A sub : sub # {} /\ IsFiniteSet(sub) => Cardinality(sub) > 0
  BY <1>1
<1> QED
  BY <1>2, ContextCounts DEF ContextSettings

LEMMA ContextInvInit ==
  ASSUME ContextSettings, C!Init
  PROVE  ContextInv
<1>1. /\ x1 = 0 /\ x5 = {} /\ x2 = [e \in FactorEtfs |-> [list |-> {}, until |-> 0]]
      /\ x4 = [seen |-> [e \in FactorEtfs |-> C!Cardinality(SeedHoldings[e])]]
      /\ x6 = [ranked |-> <<>>, of |-> {}, until |-> 0]
  BY DEF C!Init
<1>2. IsFiniteSet({})
  BY FS_EmptySet
<1>3. \A e \in FactorEtfs : /\ IsFiniteSet(x2[e].list) /\ x2[e].until \in Nat
                            /\ C!Live(x2[e]) => x2[e].list # {}
                            /\ x4.seen[e] > 0
  <2> TAKE e \in FactorEtfs
  <2>1. x2[e].list = {} /\ x2[e].until = 0 /\ x4.seen[e] = C!Cardinality(SeedHoldings[e])
    BY <1>1
  <2>2. C!Cardinality(SeedHoldings[e]) > 0
    BY SeedsThere
  <2>3. ~C!Live(x2[e])
    BY <1>1, <2>1 DEF C!Live
  <2> QED
    BY <1>2, <2>1, <2>2, <2>3
<1>4. Ordered(x6.ranked, x6.of)
  BY <1>1 DEF Ordered
<1> QED
  BY <1>1, <1>2, <1>3, <1>4 DEF ContextInv

LEMMA ContextInvStep ==
  ASSUME ContextSettings, ContextInv, [C!Next]_(C!vars)
  PROVE  ContextInv'
<1> DEFINE Sound(e) == /\ IsFiniteSet(x2[e].list) /\ x2[e].until \in Nat
                       /\ C!Live(x2[e]) => x2[e].list # {}
                       /\ x4.seen[e] > 0
<1>0. /\ x1 \in Nat /\ \A e \in FactorEtfs : Sound(e)
      /\ DOMAIN x2 = FactorEtfs /\ x5 \subseteq ClosedTrades /\ IsFiniteSet(x5) /\ Ordered(x6.ranked, x6.of)
  BY DEF ContextInv
<1>1. CASE C!BeginRefresh \/ UNCHANGED C!vars
  BY <1>0, <1>1 DEF C!BeginRefresh, C!vars, ContextInv, C!Live
<1>2. ASSUME NEW e \in FactorEtfs, C!RefreshEtf(e) PROVE ContextInv'
  <2>1. PICK list \in PublishedLists[e] \cup {{}} : x2' = [x2 EXCEPT ![e] = C!Stored(C!OrSeed(e, list))]
    BY <1>2 DEF C!RefreshEtf
  <2>2. x1' = x1 /\ x4' = x4 /\ x5' = x5 /\ x6' = x6
    BY <1>2 DEF C!RefreshEtf
  <2>3. IsFiniteSet(C!OrSeed(e, list)) /\ C!OrSeed(e, list) # {}
    BY SeedsThere, FS_EmptySet DEF C!OrSeed, ContextSettings
  <2>4. x2'[e].list = C!OrSeed(e, list) /\ x2'[e].until = x1 + ContextDays
    BY <1>0, <2>1 DEF C!Stored
  <2>5. \A d \in FactorEtfs : d # e => x2'[d] = x2[d]
    BY <2>1
  <2>6. \A d \in FactorEtfs : Sound(d)'
    BY <1>0, <2>2, <2>3, <2>4, <2>5 DEF C!Live, ContextSettings
  <2> HIDE DEF Sound
  <2>7. DOMAIN x2' = FactorEtfs
    BY <1>0, <2>1
  <2> QED
    BY <1>0, <2>2, <2>6, <2>7 DEF ContextInv, Sound
<1>3. CASE C!CheckCrowding
  <2>1. x1' = x1 /\ x5' = x5 /\ x6' = x6
    BY <1>3 DEF C!CheckCrowding
  <2>2. x2' = [e \in FactorEtfs |-> IF C!Live(x2[e]) /\ x2[e].list # {} THEN x2[e] ELSE C!Stored(SeedHoldings[e])]
    BY <1>3 DEF C!CheckCrowding
  <2>3. x4'.seen = [e \in FactorEtfs |-> C!Cardinality(C!Held(e))]
    BY <1>3 DEF C!CheckCrowding
  <2>4. \A e \in FactorEtfs : Sound(e)'
    <3> TAKE e \in FactorEtfs
    <3>1. IsFiniteSet(C!Held(e)) /\ C!Held(e) # {}
      BY <1>0, SeedsThere DEF C!Held
    <3>2. x4'.seen[e] > 0
      BY <2>3, <3>1, SeedsThere
    <3>3. IsFiniteSet(x2'[e].list) /\ x2'[e].until \in Nat /\ x2'[e].list # {}
      BY <1>0, <2>2, SeedsThere DEF C!Stored, ContextSettings
    <3> QED
      BY <3>2, <3>3
  <2> HIDE DEF Sound
  <2>5. DOMAIN x2' = FactorEtfs
    BY <2>2
  <2> QED
    BY <1>0, <2>1, <2>4, <2>5 DEF ContextInv, Sound
<1>4. CASE C!RankFactors
  <2>1. x1' = x1 /\ x2' = x2 /\ x4' = x4 /\ x5' = x5 /\ x6'.ranked = C!Ranked /\ x6'.of = x5
    BY <1>4 DEF C!RankFactors
  <2>2. Ordered(C!Ranked, x5)
    BY <1>0, RankingOrdered
  <2>3. Ordered(x6'.ranked, x6'.of)
    BY <2>1, <2>2
  <2>4. \A e \in FactorEtfs : Sound(e)'
    BY <1>0, <2>1 DEF C!Live
  <2> HIDE DEF Sound
  <2> QED
    BY <1>0, <2>1, <2>3, <2>4 DEF ContextInv, Sound
<1>5. CASE C!NextDay
  <2>1. x1' = x1 + 1 /\ x2' = x2 /\ x4' = x4 /\ x5' = x5 /\ x6' = x6
    BY <1>5 DEF C!NextDay
  <2>2. \A e \in FactorEtfs : Sound(e)'
    BY <1>0, <2>1 DEF C!Live
  <2> HIDE DEF Sound
  <2> QED
    BY <1>0, <2>1, <2>2 DEF ContextInv, Sound
<1>6. ASSUME NEW t \in ClosedTrades, C!Close(t) PROVE ContextInv'
  <2>1. x1' = x1 /\ x2' = x2 /\ x4' = x4 /\ x5' = x5 \cup {t} /\ x6' = x6
    BY <1>6 DEF C!Close
  <2>2. \A e \in FactorEtfs : Sound(e)'
    BY <1>0, <2>1 DEF C!Live
  <2>3. IsFiniteSet(x5 \cup {t}) /\ x5 \cup {t} \subseteq ClosedTrades
    BY <1>0, FS_AddElement
  <2> HIDE DEF Sound
  <2> QED
    BY <1>0, <2>1, <2>2, <2>3 DEF ContextInv, Sound
<1> QED
  BY <1>1, <1>2, <1>3, <1>4, <1>5, <1>6 DEF C!Next

LEMMA ContextInvSound ==
  ASSUME ContextInv PROVE C!ContextSound
<1>1. \A e \in FactorEtfs : x4.seen[e] > 0 /\ (C!Live(x2[e]) => x2[e].list # {})
  BY DEF ContextInv
<1>2. \A i, j \in DOMAIN x6.ranked : i < j => MeanOf(x6.of, x6.ranked[i]) >= MeanOf(x6.of, x6.ranked[j])
  BY DEF ContextInv, Ordered
<1>3. CASE C!Live(x6)
  BY <1>1, <1>2, <1>3 DEF C!ContextSound, C!RankingUsed, MeanOf
<1>4. CASE ~C!Live(x6)
  <2>1. DOMAIN C!RankingUsed = {}
    BY <1>4 DEF C!RankingUsed
  <2> QED
    BY <1>1, <2>1 DEF C!ContextSound
<1> QED
  BY <1>3, <1>4

(***************************************************************************)
(* Of the social readings: what is remembered is what a source said, for   *)
(* as long as the cache lives.                                             *)
(***************************************************************************)
SocialSettings ==
  /\ SourceSteps \in Nat \ {0}
  /\ \A v \in SaidStreams \cup ModelVerdicts : v.bulls \in Nat /\ v.bears \in Nat /\ v.neutral \in Nat
  /\ \A shown \in SaidBoards :
       /\ IsFiniteSet(UNION {shown[b] : b \in DOMAIN shown})
       /\ \A b \in DOMAIN shown : \A p \in shown[b] : p.n \in Nat

SoundReadings ==
  {r \in [available : BOOLEAN, score : -1000 .. 1000, mentions : Nat] : r.available \/ r = Q!Unavailable}

HeardAt(said, s, r, at) ==
  IF r.available THEN \E t \in DOMAIN said[s] : t \in at - SourceSteps + 1 .. at /\ r \in said[s][t]
  ELSE Q!Unavailable \in said[s][at]

\* The combined score lies between the halves there are, or is damped below them.
Reaches(t, r, score) ==
  /\ (t.available /\ 10 * t.score <= score) \/ (r.available /\ 10 * r.score <= score)
  /\ (t.available /\ score <= 10 * t.score) \/ (r.available /\ score <= 10 * r.score)
BetweenOf(t, r, score, mentions) ==
  IF ~t.available /\ ~r.available THEN score = 0
  ELSE Reaches(t, r, score) \/ (mentions > 30 /\ 6400 < score /\ score <= 8000)
AnswerLies(a) == BetweenOf(a["stocktwits"].reading, a["reddit"].reading, a.score, a.mentions)

SaidSound ==
  /\ x1 \in Nat /\ x1 > 0 /\ x2 \in SaidStreams /\ x3 \in SaidBoards
  /\ DOMAIN x5 = Q!Sources
  /\ \A s \in Q!Sources : /\ x5[s] \in Seq(SUBSET SoundReadings) /\ Len(x5[s]) = x1
                          /\ x5[s][x1] = Q!Saying(x2, x3)[s]
Remembers(s) ==
  x6[s].until = 0 \/ \E t \in 1 .. x1 : /\ x6[s].until = t + SourceSteps
                                        /\ x6[s].reading \in x5[s][t] /\ x6[s].reading.available
Waits(c) ==
  x7[c] = "reddit" => /\ x8[c].at \in 1 .. x1 /\ x8[c].reading \in SoundReadings
                      /\ HeardAt(x5, "stocktwits", x8[c].reading, x8[c].at)
SocialSound ==
  /\ SaidSound
  /\ DOMAIN x6 = Q!Sources /\ \A s \in Q!Sources : Remembers(s)
  /\ DOMAIN x7 = Q!Callers /\ DOMAIN x8 = Q!Callers /\ \A c \in Q!Callers : Waits(c)
  /\ AnswerLies(x10)
  /\ \A s \in Q!Sources : x10[s].at \in 0 .. x1 /\ (x10[s].at > 0 => HeardAt(x5, s, x10[s].reading, x10[s].at))

\* Votes make a score within bounds.
LEMMA ScoreBounded ==
  ASSUME NEW v, v.bulls \in Nat, v.bears \in Nat
  PROVE  Q!Score(v) \in -1000 .. 1000
<1> DEFINE b == v.bulls
           n == v.bulls + v.bears
<1>1. b \in Nat /\ n \in Nat /\ b <= n
  OBVIOUS
<1>2. Q!Score(v) = IF n = 0 THEN 0 ELSE (2000 * b) \div n - 1000
  BY DEF Q!Score
<1> HIDE DEF b, n
<1>3. n # 0 => (2000 * b) \div n \in 0 .. 2000
  <2> SUFFICES ASSUME n # 0 PROVE (2000 * b) \div n \in 0 .. 2000
    OBVIOUS
  <2> DEFINE q == (2000 * b) \div n
  <2>1. q \in Nat /\ n * q <= 2000 * b
    BY <1>1
  <2> HIDE DEF q
  <2>2. q > 2000 => n * q > n * 2000
    BY <1>1, <2>1
  <2>3. n * q \in Nat
    BY <1>1, <2>1
  <2>4. q <= 2000
    BY <1>1, <2>1, <2>2, <2>3
  <2> QED
    BY <2>1, <2>4 DEF q
<1>4. \A q \in 0 .. 2000 : q - 1000 \in -1000 .. 1000
  OBVIOUS
<1> QED
  BY <1>2, <1>3, <1>4

LEMMA TwitsSound ==
  ASSUME SocialSettings, NEW v \in SaidStreams
  PROVE  Q!Twits(v) \in SoundReadings
<1>1. v.bulls \in Nat /\ v.bears \in Nat /\ v.neutral \in Nat
  BY DEF SocialSettings
<1>2. Q!Score(v) \in -1000 .. 1000
  BY <1>1, ScoreBounded
<1>3. Q!Mentions(v) \in Nat
  BY <1>1 DEF Q!Mentions
<1> QED
  BY <1>2, <1>3 DEF Q!Twits, Q!Reading, Q!Unavailable, SoundReadings

LEMMA NumberNat ==
  ASSUME NEW posts, IsFiniteSet(posts), \A p \in posts : p.n \in Nat
  PROVE  Q!Number(posts) \in Nat
<1> DEFINE f == [p \in posts |-> p.n]
<1>1. f \in [posts -> Nat]
  OBVIOUS
<1>2. Q!Sum(f) \in Nat
  <2> HIDE DEF f
  <2>1. Sum(f) \in Nat
    BY <1>1, SumNat
  <2> QED
    BY <2>1 DEF Q!Sum, Sum, Q!Pile, Pile, Q!Cardinality, Cardinality
<1> QED
  BY <1>2 DEF Q!Number

LEMMA PostsSound ==
  ASSUME SocialSettings, NEW shown \in SaidBoards
  PROVE  Q!Posts(shown) \in SUBSET SoundReadings
<1> DEFINE posts == Q!Counted(shown)
           leaning(l) == {p \in posts : p.leans = l}
<1>1. IsFiniteSet(posts) /\ \A p \in posts : p.n \in Nat
  <2>1. posts \in SUBSET UNION {shown[b] : b \in DOMAIN shown}
    BY DEF Q!Counted
  <2>2. IsFiniteSet(UNION {shown[b] : b \in DOMAIN shown})
        /\ \A b \in DOMAIN shown : \A p \in shown[b] : p.n \in Nat
    BY DEF SocialSettings
  <2> HIDE DEF posts
  <2> QED
    BY <2>1, <2>2, FS_Subset
<1> HIDE DEF posts
<1>2. \A l : Q!Number(leaning(l)) \in Nat
  <2> TAKE l
  <2>1. leaning(l) \in SUBSET posts
    OBVIOUS
  <2>2. IsFiniteSet(leaning(l)) /\ \A p \in leaning(l) : p.n \in Nat
    <3> HIDE DEF leaning
    <3> QED
      BY <1>1, <2>1, FS_Subset
  <2> HIDE DEF leaning
  <2> QED
    BY <2>2, NumberNat
<1>3. Q!Number(posts) \in Nat
  BY <1>1, NumberNat
<1>4. \A v \in ModelVerdicts \cup {Q!ByWords(posts)} : v.bulls \in Nat /\ v.bears \in Nat
  <2>1. Q!ByWords(posts).bulls \in Nat /\ Q!ByWords(posts).bears \in Nat
    BY <1>2 DEF Q!ByWords, Q!Votes
  <2>2. \A v \in ModelVerdicts : v.bulls \in Nat /\ v.bears \in Nat
    BY DEF SocialSettings
  <2> QED
    BY <2>1, <2>2
<1>5. \A v \in ModelVerdicts \cup {Q!ByWords(posts)} : Q!Reading(v, Q!Number(posts)) \in SoundReadings
  <2> TAKE v \in ModelVerdicts \cup {Q!ByWords(posts)}
  <2>1. Q!Score(v) \in -1000 .. 1000
    BY <1>4, ScoreBounded
  <2> QED
    BY <1>3, <2>1 DEF Q!Reading, SoundReadings
<1>6. Q!Unavailable \in SoundReadings
  BY DEF Q!Unavailable, SoundReadings
<1> QED
  BY <1>5, <1>6 DEF Q!Posts, posts

LEMMA SayingSound ==
  ASSUME SocialSettings, NEW v \in SaidStreams, NEW shown \in SaidBoards
  PROVE  /\ \A s \in Q!Sources : Q!Saying(v, shown)[s] \in SUBSET SoundReadings
         /\ Q!Saying(v, shown)["stocktwits"] = {Q!Twits(v)}
         /\ Q!Saying(v, shown)["reddit"] = Q!Posts(shown)
BY TwitsSound, PostsSound DEF Q!Saying, Q!Sources

LEMMA CombinedBetween ==
  ASSUME NEW t \in SoundReadings, NEW r \in SoundReadings
  PROVE  BetweenOf(t, r, Q!Combined(t, r).score, Q!Combined(t, r).mentions)
<1> DEFINE m == Q!Mixed(t, r)
           a == Q!Combined(t, r)
<1>1. /\ t.available \in BOOLEAN /\ r.available \in BOOLEAN
      /\ t.score \in -1000 .. 1000 /\ r.score \in -1000 .. 1000
      /\ t.mentions \in Nat /\ r.mentions \in Nat
  BY DEF SoundReadings
<1>2. /\ a.mentions = t.mentions + r.mentions
      /\ a.score = IF m > 8000 /\ a.mentions > 30 THEN (4 * m) \div 5 ELSE m
  BY DEF Q!Combined
<1>3. /\ r.available /\ t.available => m = 6 * r.score + 4 * t.score
      /\ r.available /\ ~t.available => m = 10 * r.score
      /\ ~r.available /\ t.available => m = 10 * t.score
      /\ ~r.available /\ ~t.available => m = 0
  BY <1>1 DEF Q!Mixed
<1> DEFINE x == t.score
           y == r.score
<1>4. /\ m \in Int /\ m <= 10000 /\ (m > 8000 => m >= 8002)
      /\ m = 6 * y + 4 * x => /\ 10 * x <= m \/ 10 * y <= m
                              /\ m <= 10 * x \/ m <= 10 * y
      /\ 10 * x <= 10 * x /\ 10 * y <= 10 * y
  <2>1. x \in -1000 .. 1000 /\ y \in -1000 .. 1000
    BY <1>1
  <2>2. m \in {6 * y + 4 * x, 10 * y, 10 * x, 0}
    BY <1>1, <1>3
  <2> HIDE DEF m, x, y
  <2> QED
    BY <2>1, <2>2
<1> HIDE DEF m
<1>5. CASE m > 8000 /\ a.mentions > 30
  <2>1. \A v \in Int : v >= 8002 /\ v <= 10000 => 6400 < (4 * v) \div 5 /\ (4 * v) \div 5 <= 8000
    OBVIOUS
  <2> HIDE DEF a
  <2>2. 6400 < a.score /\ a.score <= 8000
    BY <1>2, <1>4, <1>5, <2>1
  <2>3. t.available \/ r.available
    BY <1>3, <1>5
  <2>4. BetweenOf(t, r, a.score, a.mentions)
    BY <1>5, <2>2, <2>3 DEF BetweenOf
  <2> QED
    BY <2>4 DEF a
<1>6. CASE ~ (m > 8000 /\ a.mentions > 30)
  <2> HIDE DEF a
  <2>1. a.score = m
    BY <1>2, <1>6
  <2>2. r.available /\ t.available => Reaches(t, r, m)
    BY <1>3, <1>4 DEF Reaches
  <2>4. r.available /\ ~t.available => Reaches(t, r, m)
    BY <1>3, <1>4 DEF Reaches
  <2>5. ~r.available /\ t.available => Reaches(t, r, m)
    BY <1>3, <1>4 DEF Reaches
  <2>6. BetweenOf(t, r, a.score, a.mentions)
    BY <1>1, <1>3, <2>1, <2>2, <2>4, <2>5 DEF BetweenOf
  <2> QED
    BY <2>6 DEF a
<1> QED
  BY <1>5, <1>6

LEMMA SaysBetween ==
  ASSUME AnswerLies(x10)
  PROVE  Q!Between
<1> DEFINE t == x10["stocktwits"].reading
           r == x10["reddit"].reading
           there == {10 * x10[s].reading.score : s \in {s \in Q!Sources : x10[s].reading.available}}
<1>1. /\ t.available => 10 * t.score \in there
      /\ r.available => 10 * r.score \in there
      /\ there = {} <=> ~t.available /\ ~r.available
  BY DEF Q!Sources
<1>2. BetweenOf(t, r, x10.score, x10.mentions)
  BY DEF AnswerLies
<1>3. IF ~t.available /\ ~r.available THEN x10.score = 0
      ELSE Reaches(t, r, x10.score) \/ (x10.mentions > 30 /\ 6400 < x10.score /\ x10.score <= 8000)
  BY <1>2 DEF BetweenOf
<1>4. Q!Between <=> IF there = {} THEN x10.score = 0
                    ELSE \/ \E a, b \in there : a <= x10.score /\ x10.score <= b
                         \/ x10.mentions > 30 /\ 6400 < x10.score /\ x10.score <= 8000
  BY Zenon DEF Q!Between
<1> HIDE DEF t, r, there
<1>5. Reaches(t, r, x10.score) => \E a, b \in there : a <= x10.score /\ x10.score <= b
  <2> SUFFICES ASSUME Reaches(t, r, x10.score) PROVE \E a, b \in there : a <= x10.score /\ x10.score <= b
    OBVIOUS
  <2>1. \E a \in there : a <= x10.score
    BY <1>1, Zenon DEF Reaches
  <2>2. \E b \in there : x10.score <= b
    BY <1>1, Zenon DEF Reaches
  <2> QED
    BY <2>1, <2>2
<1> QED
  BY <1>1, <1>3, <1>4, <1>5

\* What a caller reads was heard, and what is stored can be remembered.
LEMMA ReadIsHeard ==
  ASSUME SocialSettings, SaidSound, NEW s \in Q!Sources, Remembers(s),
         NEW r \in Q!Readable(s, x5[s][x1])
  PROVE  /\ r \in SoundReadings /\ HeardAt(x5, s, r, x1)
         /\ ~Q!Live(s) => r \in x5[s][x1]
<1>1. /\ x1 \in Nat /\ x1 > 0 /\ SourceSteps \in Nat /\ SourceSteps > 0
      /\ DOMAIN x5[s] = 1 .. x1 /\ \A t \in 1 .. x1 : x5[s][t] \in SUBSET SoundReadings
  BY DEF SaidSound, SocialSettings
<1>2. CASE Q!Live(s)
  <2>1. r = x6[s].reading /\ x1 < x6[s].until
    BY <1>2 DEF Q!Readable, Q!Live
  <2>2. PICK t \in 1 .. x1 : x6[s].until = t + SourceSteps /\ r \in x5[s][t] /\ r.available
    BY <1>1, <2>1 DEF Remembers
  <2>3. t \in x1 - SourceSteps + 1 .. x1
    BY <1>1, <2>1, <2>2
  <2> QED
    BY <1>1, <1>2, <2>2, <2>3 DEF HeardAt
<1>3. CASE ~Q!Live(s)
  <2>1. r \in x5[s][x1]
    BY <1>3 DEF Q!Readable
  <2>2. r \in SoundReadings
    BY <1>1, <2>1
  <2>3. x1 \in x1 - SourceSteps + 1 .. x1 /\ x1 \in 1 .. x1
    BY <1>1
  <2>4. r.available \/ r = Q!Unavailable
    BY <2>2 DEF SoundReadings
  <2> QED
    BY <1>1, <2>1, <2>2, <2>3, <2>4 DEF HeardAt
<1> QED
  BY <1>2, <1>3

LEMMA StoredRemembers ==
  ASSUME SocialSettings, SaidSound, DOMAIN x6 = Q!Sources, \A s \in Q!Sources : Remembers(s),
         NEW s \in Q!Sources, NEW r, ~Q!Live(s) => r \in x5[s][x1], Q!Store(s, r), x1' = x1, x5' = x5
  PROVE  DOMAIN x6' = Q!Sources /\ \A d \in Q!Sources : Remembers(d)'
<1>1. CASE x6' = x6
  BY <1>1 DEF Remembers
<1>2. CASE /\ ~Q!Live(s) /\ r.available
           /\ x6' = [x6 EXCEPT ![s] = [reading |-> r, until |-> x1 + SourceSteps]]
  <2>1. x6'[s].reading = r /\ x6'[s].until = x1 + SourceSteps
    BY <1>2
  <2>2. \A d \in Q!Sources : d # s => x6'[d] = x6[d]
    BY <1>2
  <2>3. Remembers(s)'
    <3>1. x1 \in 1 .. x1
      BY DEF SaidSound
    <3> QED
      BY <1>2, <2>1, <3>1 DEF Remembers
  <2>4. \A d \in Q!Sources : d # s => Remembers(d)'
    BY <2>2 DEF Remembers
  <2> QED
    BY <1>2, <2>3, <2>4
<1> QED
  BY <1>1, <1>2 DEF Q!Store, Q!Kept

LEMMA SocialSoundInit ==
  ASSUME SocialSettings, Q!Init
  PROVE  SocialSound
<1>1. /\ x1 = 1 /\ x2 \in SaidStreams /\ x3 \in SaidBoards
      /\ x5 = [s \in Q!Sources |-> <<Q!Saying(x2, x3)[s]>>]
      /\ x6 = [s \in Q!Sources |-> [until |-> 0]]
      /\ x7 = [c \in Q!Callers |-> "idle"] /\ x8 = [c \in Q!Callers |-> [until |-> 0]]
      /\ x10.score = 0
      /\ x10.stocktwits = [reading |-> Q!Unavailable, at |-> 0] /\ x10.reddit = [reading |-> Q!Unavailable, at |-> 0]
  BY DEF Q!Init, Q!NoEntry
<1>2. SaidSound
  BY <1>1, SayingSound DEF SaidSound
<1>3. \A s \in Q!Sources : x10[s].at = 0 /\ x10[s].reading = Q!Unavailable
  BY <1>1 DEF Q!Sources
<1>4. AnswerLies(x10)
  BY <1>1, <1>3 DEF AnswerLies, BetweenOf, Q!Unavailable, Q!Sources
<1>5. \A s \in Q!Sources : x10[s].at \in 0 .. x1 /\ ~ (x10[s].at > 0)
  BY <1>1, <1>3
<1>6. \A s \in Q!Sources : Remembers(s)
  BY <1>1 DEF Remembers
<1>7. \A c \in Q!Callers : Waits(c)
  BY <1>1 DEF Waits
<1> QED
  BY <1>1, <1>2, <1>4, <1>5, <1>6, <1>7 DEF SocialSound

LEMMA AskSound ==
  ASSUME SocialSettings, SocialSound, NEW c \in Q!Callers, Q!Ask(c)
  PROVE  SocialSound'
<1>0. /\ SaidSound /\ DOMAIN x6 = Q!Sources /\ \A s \in Q!Sources : Remembers(s)
      /\ DOMAIN x7 = Q!Callers /\ DOMAIN x8 = Q!Callers /\ \A d \in Q!Callers : Waits(d)
      /\ AnswerLies(x10)
      /\ \A s \in Q!Sources : x10[s].at \in 0 .. x1 /\ (x10[s].at > 0 => HeardAt(x5, s, x10[s].reading, x10[s].at))
  BY DEF SocialSound
<1>1. x1' = x1 /\ x2' = x2 /\ x3' = x3 /\ x4' = x4 /\ x5' = x5 /\ x10' = x10
      /\ x7' = [x7 EXCEPT ![c] = "reddit"]
  BY DEF Q!Ask
<1>2. "stocktwits" \in Q!Sources /\ x5["stocktwits"][x1] = {Q!Twits(x2)} /\ x1 \in Nat /\ x1 > 0
  <2>1. "stocktwits" \in Q!Sources
    BY DEF Q!Sources
  <2>2. Q!Saying(x2, x3)["stocktwits"] = {Q!Twits(x2)}
    BY DEF Q!Saying
  <2> QED
    BY <1>0, <2>1, <2>2 DEF SaidSound
<1>3. PICK r \in Q!Readable("stocktwits", {Q!Twits(x2)}) :
        /\ Q!Store("stocktwits", r)
        /\ x8' = [x8 EXCEPT ![c] = [reading |-> r, at |-> x1]]
  BY DEF Q!Ask
<1>4. /\ r \in SoundReadings /\ HeardAt(x5, "stocktwits", r, x1)
      /\ ~Q!Live("stocktwits") => r \in x5["stocktwits"][x1]
  BY <1>0, <1>2, <1>3, ReadIsHeard
<1>5. DOMAIN x6' = Q!Sources /\ \A s \in Q!Sources : Remembers(s)'
  BY <1>0, <1>1, <1>2, <1>3, <1>4, StoredRemembers
<1>6. SaidSound'
  <2>1. (Q!Saying(x2, x3))' = Q!Saying(x2, x3)
    BY <1>1 DEF Q!Saying, Q!Posts
  <2> QED
    BY <1>0, <1>1, <2>1 DEF SaidSound
<1>7. \A d \in Q!Callers : Waits(d)'
  <2>1. x8'[c].at = x1 /\ x8'[c].reading = r /\ x1 \in 1 .. x1
    BY <1>0, <1>2, <1>3
  <2>2. Waits(c)'
    BY <1>1, <1>4, <2>1 DEF Waits
  <2>3. \A d \in Q!Callers : d # c => x8'[d] = x8[d] /\ x7'[d] = x7[d]
    BY <1>1, <1>3
  <2>4. \A d \in Q!Callers : d # c => Waits(d)'
    BY <1>0, <1>1, <2>3 DEF Waits
  <2> QED
    BY <2>2, <2>4
<1>8. AnswerLies(x10')
  BY <1>0, <1>1
<1>9. DOMAIN x7' = Q!Callers /\ DOMAIN x8' = Q!Callers
  BY <1>0, <1>1, <1>3
<1> QED
  BY <1>0, <1>1, <1>5, <1>6, <1>7, <1>8, <1>9 DEF SocialSound

LEMMA FinishSound ==
  ASSUME SocialSettings, SocialSound, NEW c \in Q!Callers, Q!Finish(c)
  PROVE  SocialSound'
<1>0. /\ SaidSound /\ DOMAIN x6 = Q!Sources /\ \A s \in Q!Sources : Remembers(s)
      /\ DOMAIN x7 = Q!Callers /\ DOMAIN x8 = Q!Callers /\ \A d \in Q!Callers : Waits(d)
  BY DEF SocialSound
<1>1. /\ x1' = x1 /\ x2' = x2 /\ x3' = x3 /\ x4' = x4 /\ x5' = x5
      /\ x7' = [x7 EXCEPT ![c] = "idle"] /\ x8' = [x8 EXCEPT ![c] = Q!NoEntry] /\ x7[c] = "reddit"
  BY DEF Q!Finish
<1>2. "reddit" \in Q!Sources /\ x5["reddit"][x1] = Q!Posts(x3) /\ x1 \in Nat /\ x1 > 0
  <2>1. "reddit" \in Q!Sources
    BY DEF Q!Sources
  <2>2. Q!Saying(x2, x3)["reddit"] = Q!Posts(x3)
    BY DEF Q!Saying
  <2> QED
    BY <1>0, <2>1, <2>2 DEF SaidSound
<1> DEFINE t == x8[c].reading
<1>3. PICK r \in Q!Readable("reddit", Q!Posts(x3)) :
        /\ Q!Store("reddit", r)
        /\ x10' = [Q!Combined(t, r) EXCEPT !.stocktwits = [reading |-> @, at |-> x8[c].at],
                                           !.reddit = [reading |-> @, at |-> x1]]
  BY DEF Q!Finish
<1>4. /\ r \in SoundReadings /\ HeardAt(x5, "reddit", r, x1)
      /\ ~Q!Live("reddit") => r \in x5["reddit"][x1]
  BY <1>0, <1>2, <1>3, ReadIsHeard
<1>5. DOMAIN x6' = Q!Sources /\ \A s \in Q!Sources : Remembers(s)'
  BY <1>0, <1>1, <1>2, <1>3, <1>4, StoredRemembers
<1>6. SaidSound'
  <2>1. (Q!Saying(x2, x3))' = Q!Saying(x2, x3)
    BY <1>1 DEF Q!Saying, Q!Posts
  <2> QED
    BY <1>0, <1>1, <2>1 DEF SaidSound
<1>7. \A d \in Q!Callers : Waits(d)'
  <2>1. x7'[c] = "idle"
    BY <1>0, <1>1
  <2>2. \A d \in Q!Callers : d # c => x8'[d] = x8[d] /\ x7'[d] = x7[d]
    BY <1>1
  <2>3. \A d \in Q!Callers : d # c => Waits(d)'
    BY <1>0, <1>1, <2>2 DEF Waits
  <2> QED
    BY <2>1, <2>3 DEF Waits
<1>8. t \in SoundReadings /\ x8[c].at \in 1 .. x1 /\ HeardAt(x5, "stocktwits", t, x8[c].at)
  BY <1>0, <1>1 DEF Waits
<1>9. /\ x10'["stocktwits"].reading = t /\ x10'["stocktwits"].at = x8[c].at
      /\ x10'["reddit"].reading = r /\ x10'["reddit"].at = x1
      /\ x10'.score = Q!Combined(t, r).score /\ x10'.mentions = Q!Combined(t, r).mentions
  BY <1>3 DEF Q!Combined
<1>10. AnswerLies(x10')
  <2>1. BetweenOf(t, r, Q!Combined(t, r).score, Q!Combined(t, r).mentions)
    BY <1>4, <1>8, CombinedBetween
  <2> QED
    BY <1>9, <2>1 DEF AnswerLies
<1>11. \A s \in Q!Sources : x10'[s].at \in 0 .. x1 /\ (x10'[s].at > 0 => HeardAt(x5, s, x10'[s].reading, x10'[s].at))
  BY <1>2, <1>4, <1>8, <1>9 DEF Q!Sources
<1>12. DOMAIN x7' = Q!Callers /\ DOMAIN x8' = Q!Callers
  BY <1>0, <1>1
<1> QED
  BY <1>1, <1>5, <1>6, <1>7, <1>10, <1>11, <1>12 DEF SocialSound

LEMMA PassSound ==
  ASSUME SocialSettings, SocialSound, Q!Pass
  PROVE  SocialSound'
<1>0. /\ SaidSound /\ DOMAIN x6 = Q!Sources /\ \A s \in Q!Sources : Remembers(s)
      /\ DOMAIN x7 = Q!Callers /\ DOMAIN x8 = Q!Callers /\ \A d \in Q!Callers : Waits(d)
      /\ AnswerLies(x10)
      /\ \A s \in Q!Sources : x10[s].at \in 0 .. x1 /\ (x10[s].at > 0 => HeardAt(x5, s, x10[s].reading, x10[s].at))
  BY DEF SocialSound
<1>1. /\ x1' = x1 + 1 /\ x4' = x4 /\ x6' = x6 /\ x7' = x7 /\ x8' = x8 /\ x10' = x10
      /\ x2' \in SaidStreams /\ x3' \in SaidBoards
      /\ x5' = [s \in Q!Sources |-> Append(x5[s], Q!Saying(x2', x3')[s])]
  BY DEF Q!Pass
<1>2. x1 \in Nat /\ x1 > 0
  BY <1>0 DEF SaidSound
<1>3. \A s \in Q!Sources : Q!Saying(x2', x3')[s] \in SUBSET SoundReadings
  BY <1>1, SayingSound
<1>4. \A s \in Q!Sources :
        /\ x5'[s] \in Seq(SUBSET SoundReadings) /\ Len(x5'[s]) = x1 + 1
        /\ x5'[s][x1 + 1] = Q!Saying(x2', x3')[s]
        /\ \A t \in 1 .. x1 : x5'[s][t] = x5[s][t]
  <2> TAKE s \in Q!Sources
  <2>1. x5[s] \in Seq(SUBSET SoundReadings) /\ Len(x5[s]) = x1
    BY <1>0 DEF SaidSound
  <2>2. x5'[s] = Append(x5[s], Q!Saying(x2', x3')[s])
    BY <1>1
  <2>3. \A v \in SUBSET SoundReadings :
          /\ Append(x5[s], v) \in Seq(SUBSET SoundReadings) /\ Len(Append(x5[s], v)) = x1 + 1
          /\ Append(x5[s], v)[x1 + 1] = v
          /\ \A t \in 1 .. x1 : Append(x5[s], v)[t] = x5[s][t]
    BY <2>1
  <2> DEFINE v == Q!Saying(x2', x3')[s]
  <2>4. v \in SUBSET SoundReadings /\ x5'[s] = Append(x5[s], v)
    BY <1>3, <2>2
  <2> HIDE DEF v
  <2>5. /\ x5'[s] \in Seq(SUBSET SoundReadings) /\ Len(x5'[s]) = x1 + 1 /\ x5'[s][x1 + 1] = v
        /\ \A t \in 1 .. x1 : x5'[s][t] = x5[s][t]
    BY <2>3, <2>4
  <2> QED
    BY <2>5 DEF v
<1>5. (Q!Saying(x2, x3))' = Q!Saying(x2', x3')
  BY <1>1 DEF Q!Saying, Q!Posts
<1>6. SaidSound'
  BY <1>1, <1>2, <1>4, <1>5 DEF SaidSound
<1>7. \A s \in Q!Sources : DOMAIN x5[s] = 1 .. x1 /\ DOMAIN x5'[s] = 1 .. x1 + 1
  BY <1>0, <1>2, <1>4 DEF SaidSound
<1>8. \A s \in Q!Sources : \A r : \A at \in 1 .. x1 : HeardAt(x5, s, r, at) => HeardAt(x5', s, r, at)
  <2> TAKE s \in Q!Sources
  <2> TAKE r
  <2> TAKE at \in 1 .. x1
  <2>1. DOMAIN x5[s] = 1 .. x1 /\ DOMAIN x5'[s] = 1 .. x1 + 1 /\ \A t \in 1 .. x1 : x5'[s][t] = x5[s][t]
    BY <1>4, <1>7
  <2>2. 1 .. x1 \in SUBSET (1 .. x1 + 1)
    BY <1>2
  <2>3. CASE r.available
    BY <2>1, <2>2, <2>3, Zenon DEF HeardAt
  <2>4. CASE ~r.available
    BY <2>1, <2>4, Zenon DEF HeardAt
  <2> QED
    BY <2>3, <2>4
<1>9. \A s \in Q!Sources : Remembers(s)'
  BY <1>0, <1>1, <1>2, <1>4 DEF Remembers
<1>10. \A c \in Q!Callers : Waits(c)'
  <2>1. "stocktwits" \in Q!Sources
    BY DEF Q!Sources
  <2> QED
    BY <1>0, <1>1, <1>2, <1>8, <2>1 DEF Waits
<1>11. AnswerLies(x10')
  BY <1>0, <1>1
<1>12. \A s \in Q!Sources : x10'[s].at \in 0 .. x1 + 1 /\ (x10'[s].at > 0 => HeardAt(x5', s, x10'[s].reading, x10'[s].at))
  BY <1>0, <1>1, <1>2, <1>8
<1> QED
  BY <1>0, <1>1, <1>6, <1>9, <1>10, <1>11, <1>12 DEF SocialSound

LEMMA SocialSoundStep ==
  ASSUME SocialSettings, SocialSound, [Q!Next]_(Q!vars)
  PROVE  SocialSound'
<1>1. CASE UNCHANGED Q!vars
  <2>1. /\ x1' = x1 /\ x2' = x2 /\ x3' = x3 /\ x4' = x4 /\ x5' = x5 /\ x6' = x6 /\ x7' = x7 /\ x8' = x8
        /\ x10' = x10
    BY <1>1 DEF Q!vars
  <2>2. (Q!Saying(x2, x3))' = Q!Saying(x2, x3)
    BY <2>1 DEF Q!Saying, Q!Posts
  <2> QED
    BY <2>1, <2>2 DEF SocialSound, SaidSound, Remembers, Waits
<1> QED
  BY <1>1, AskSound, FinishSound, PassSound DEF Q!Next

LEMMA SocialSoundHeard ==
  ASSUME SocialSound PROVE Q!AnswersHeard
BY SaysBetween DEF SocialSound, Q!AnswersHeard, Q!Heard, HeardAt

\* The two caches of the macro score together answer no figures older than both their
\* lives; what a crowding report counts is never an empty list, and a ranking in use is
\* ordered by the trades it was made of; a social score is made of what each source said
\* within the life of its cache, and a source that failed was failing at that moment.
\* For any markets, holdings, trades, messages, posts, lifetimes and number of callers'
\* questions (macro_scorer.py, etf_crowding.py, factor_monitor.py, social_sentiment.py).
THEOREM CachesStaySound ==
  ASSUME FigureSteps \in Nat \ {0}, ScoreLife \in Nat \ {0}, ContextSettings, SocialSettings
  PROVE  PartsSpec => []CachesSound
<1> DEFINE Sound == /\ part = "macro" => MacroSound
                    /\ part = "crowding" => ContextInv
                    /\ part = "social" => SocialSound
<1>1. PartsInit => Sound
  <2> SUFFICES ASSUME PartsInit PROVE Sound
    OBVIOUS
  <2>1. part = "macro" => M!Init
    BY DEF PartsInit
  <2>2. part = "crowding" => C!Init
    BY DEF PartsInit
  <2>3. part = "social" => Q!Init
    BY DEF PartsInit
  <2> QED
    BY <2>1, <2>2, <2>3, MacroSoundInit, ContextInvInit, SocialSoundInit
<1>2. Sound /\ [PartsNext]_all => Sound'
  <2> SUFFICES ASSUME Sound, [PartsNext]_all PROVE Sound'
    OBVIOUS
  <2>1. /\ part' = part
        /\ part = "macro" => [M!Next]_(M!vars)
        /\ part = "crowding" => [C!Next]_(C!vars)
        /\ part = "social" => [Q!Next]_(Q!vars)
    BY OnePart
  <2>2. part = "macro" => MacroSound'
    BY <2>1, MacroSoundStep
  <2>3. part = "crowding" => ContextInv'
    BY <2>1, ContextInvStep
  <2>4. part = "social" => SocialSound'
    BY <2>1, SocialSoundStep
  <2> QED
    BY <2>1, <2>2, <2>3, <2>4
<1>3. Sound => CachesSound
  <2>1. MacroSound => M!FiguresRecent
    BY DEF MacroSound, M!FiguresRecent
  <2> QED
    BY <2>1, ContextInvSound, SocialSoundHeard DEF CachesSound
<1> HIDE DEF Sound
<1> QED
  BY <1>1, <1>2, <1>3, PTL DEF PartsSpec

(***************************************************************************)
(* Sizes.  Nothing here moves: what a size may be follows from the inputs  *)
(* it is made of.                                                          *)
(***************************************************************************)

\* The percentages of swing_config, the accounts and the signals, as the code reads them;
\* the previous engine's probabilities add up to one, its prices are above zero.
SizingSettings ==
  /\ SwingConfig.position_pct \in Nat /\ SwingConfig.max_risk \in Nat /\ SwingConfig.max_position \in Nat
  /\ SwingConfig.max_exposure \in Nat /\ SwingConfig.min_notional \in Nat \ {0}
  /\ AccountValues \subseteq Nat /\ OpenExposures \subseteq Nat
  /\ \A s \in Entries : s.price \in Nat \ {0} /\ s.stop \in Nat /\ s.fractional \in BOOLEAN
  /\ Portfolio \in Nat /\ MarketVols \subseteq Nat /\ QuotedPrices \subseteq Nat \ {0}
  /\ QuotedAtrs \subseteq Nat /\ GivenStrengths \subseteq Int /\ SpreadZs \subseteq Int
  /\ NewsScores \subseteq Int /\ WinPercents \subseteq Int /\ ExposureLimits \subseteq Nat
  /\ \A p \in RegimeProbs : /\ p.bull \in Nat /\ p.sideways \in Nat /\ p.bear \in Nat
                            /\ p.bull + p.sideways + p.bear = 10

LEMMA LeastChosen ==
  ASSUME NEW sub \in SUBSET Int, sub # {}, IsFiniteSet(sub)
  PROVE  LET m == CHOOSE c \in sub : \A d \in sub : c <= d
         IN  m \in sub /\ \A d \in sub : m <= d
<1>1. \E m \in sub : \A d \in sub : m <= d
  BY Extremes
<1> QED
  BY <1>1

\* A quotient is within what was divided, up to half a unit where units are rounded.
LEMMA QuotientWithin ==
  ASSUME NEW a \in Int, NEW b \in Nat, b > 0, NEW s, s.fractional \in BOOLEAN, NEW n \in Int,
         n <= X!Quotient(a, b, s)
  PROVE  /\ X!Quotient(a, b, s) \in Int
         /\ 2 * (b * n) <= 2 * a + IF s.fractional THEN b ELSE 0
<1>1. CASE ~s.fractional
  <2> DEFINE q == a \div b
  <2>1. q \in Int /\ b * q <= a
    OBVIOUS
  <2>2. X!Quotient(a, b, s) = q
    BY <1>1 DEF X!Quotient
  <2> HIDE DEF q
  <2>3. b * n <= b * q
    BY <2>1, <2>2
  <2>4. b * n \in Int /\ b * q \in Int
    BY <2>1
  <2> QED
    BY <1>1, <2>1, <2>2, <2>3, <2>4
<1>2. CASE s.fractional
  <2> DEFINE m == 2 * a + b
             c == 2 * b
             q == m \div c
  <2>1. m \in Int /\ c \in Nat /\ c > 0
    OBVIOUS
  <2>2. X!Quotient(a, b, s) = q
    BY <1>2 DEF X!Quotient
  <2>3. q \in Int /\ c * q <= m
    <3> HIDE DEF m, c
    <3> QED
      BY <2>1
  <2>4. 2 * (b * n) = c * n
    OBVIOUS
  <2>5. c * n <= c * q
    <3> HIDE DEF q, m, c
    <3> QED
      BY <2>1, <2>2, <2>3
  <2>6. c * n \in Int /\ c * q \in Int
    BY <2>1, <2>3
  <2> HIDE DEF c, q, m
  <2>7. c * n <= m
    BY <2>1, <2>3, <2>5, <2>6
  <2> QED
    BY <1>2, <2>2, <2>3, <2>4, <2>7 DEF m
<1> QED
  BY <1>1, <1>2

LEMMA SizeWithinCaps ==
  ASSUME SizingSettings, NEW account \in AccountValues, NEW exposure \in OpenExposures, NEW s \in Entries,
         NEW r \in X!Regimes, NEW n, n = X!Size(account, exposure, s, r), ~X!Refused(n, s)
  PROVE  /\ s.stop \in 1 .. s.price - 1 =>
              2 * (1000 * n * (s.price - s.stop))
                <= 2 * (account * SwingConfig.max_risk) + IF s.fractional THEN 1000 * (s.price - s.stop) ELSE 0
         /\ 2 * (100 * n * s.price)
              <= 2 * (account * SwingConfig.max_position) + IF s.fractional THEN 100 * s.price ELSE 0
         /\ 2 * (100 * (exposure + n * s.price))
              <= 2 * (account * SwingConfig.max_exposure) + IF s.fractional THEN 100 * s.price ELSE 0
<1> DEFINE room == account * SwingConfig.max_exposure - 100 * exposure
           forRisk == X!Quotient(account * SwingConfig.max_risk, 1000 * (s.price - s.stop), s)
           forOne  == X!Quotient(account * SwingConfig.max_position, 100 * s.price, s)
           forAll  == X!Quotient(room, 100 * s.price, s)
           risk == IF 0 < s.stop /\ s.stop < s.price THEN {forRisk} ELSE {}
           total == {IF room > 0 THEN forAll ELSE 0}
           wanted == X!Wanted(account, s, r)
           caps == risk \cup {forOne} \cup total \cup {wanted}
<1>1. /\ account \in Nat /\ exposure \in Nat /\ s.price \in Nat /\ s.price > 0 /\ s.stop \in Nat
      /\ s.fractional \in BOOLEAN /\ SwingConfig.max_risk \in Nat /\ SwingConfig.max_position \in Nat
      /\ SwingConfig.max_exposure \in Nat /\ SwingConfig.min_notional \in Nat /\ SwingConfig.min_notional > 0
      /\ SwingConfig.position_pct \in Nat
  BY DEF SizingSettings
<1>2. \A a \in Int, b \in Nat : b > 0 => X!Quotient(a, b, s) \in Int
  BY <1>1 DEF X!Quotient
<1>3. /\ account * SwingConfig.max_risk \in Nat /\ account * SwingConfig.max_position \in Nat /\ room \in Int
      /\ 100 * s.price \in Nat /\ 100 * s.price > 0
  BY <1>1
<1>4. s.stop < s.price => 1000 * (s.price - s.stop) \in Nat /\ 1000 * (s.price - s.stop) > 0
  BY <1>1
<1>5. wanted \in Int
  <2> DEFINE base == X!Quotient(account * SwingConfig.position_pct * X!SizePercent[r], 10000 * s.price, s)
  <2>1. X!SizePercent[r] \in Nat
    BY DEF X!SizePercent, X!Regimes
  <2>2. account * SwingConfig.position_pct * X!SizePercent[r] \in Int
    BY <1>1, <2>1
  <2>3. 10000 * s.price \in Nat /\ 10000 * s.price > 0
    BY <1>1
  <2>4. base \in Int
    BY <1>2, <2>2, <2>3
  <2>5. wanted = IF s.fractional \/ base >= 1 THEN base ELSE IF SwingConfig.min_one THEN 1 ELSE 0
    BY DEF X!Wanted
  <2> HIDE DEF base, wanted
  <2> QED
    BY <2>4, <2>5
<1>6. forOne \in Int /\ forAll \in Int
  BY <1>2, <1>3
<1>7. s.stop < s.price => forRisk \in Int
  <2> DEFINE a == account * SwingConfig.max_risk
             b == 1000 * (s.price - s.stop)
  <2>1. a \in Int /\ (s.stop < s.price => b \in Nat /\ b > 0)
    BY <1>3, <1>4
  <2>2. forRisk = X!Quotient(a, b, s)
    OBVIOUS
  <2> HIDE DEF a, b, forRisk
  <2> QED
    BY <1>2, <2>1, <2>2
<1>8. n = CHOOSE c \in caps : \A d \in caps : c <= d
  <2>1. X!Size(account, exposure, s, r) = X!Capped(risk \cup {forOne} \cup total, wanted)
    BY Zenon DEF X!Size
  <2> HIDE DEF risk, total, forOne, wanted
  <2> QED
    BY <2>1, Zenon DEF X!Capped
<1> HIDE DEF room, forRisk, forOne, forAll, wanted
<1>9. caps \in SUBSET Int /\ caps # {} /\ IsFiniteSet(caps)
  <2>1. caps \in SUBSET Int
    BY <1>5, <1>6, <1>7
  <2>2. IsFiniteSet(risk) /\ IsFiniteSet(total) /\ IsFiniteSet({forOne}) /\ IsFiniteSet({wanted})
    BY FS_Singleton, FS_EmptySet, Zenon
  <2> HIDE DEF risk, total
  <2>3. IsFiniteSet(caps)
    BY <2>2, FS_Union, Zenon
  <2> QED
    BY <2>1, <2>3
<1>10. n \in caps /\ \A d \in caps : n <= d
  <2> HIDE DEF caps
  <2> QED
    BY <1>8, <1>9, LeastChosen
<1>11. /\ n \in Int /\ n <= forOne
       /\ 0 < s.stop /\ s.stop < s.price => n <= forRisk
       /\ room > 0 => n <= forAll
       /\ ~ (room > 0) => n <= 0
  BY <1>9, <1>10
<1>12. s.stop \in 1 .. s.price - 1 =>
         2 * (1000 * n * (s.price - s.stop))
           <= 2 * (account * SwingConfig.max_risk) + IF s.fractional THEN 1000 * (s.price - s.stop) ELSE 0
  <2> SUFFICES ASSUME s.stop \in 1 .. s.price - 1
               PROVE  2 * (1000 * n * (s.price - s.stop))
                        <= 2 * (account * SwingConfig.max_risk) + IF s.fractional THEN 1000 * (s.price - s.stop) ELSE 0
    OBVIOUS
  <2>1. 0 < s.stop /\ s.stop < s.price
    BY <1>1
  <2>2. 2 * ((1000 * (s.price - s.stop)) * n)
          <= 2 * (account * SwingConfig.max_risk) + IF s.fractional THEN 1000 * (s.price - s.stop) ELSE 0
    BY <1>1, <1>3, <1>4, <1>11, <2>1, QuotientWithin DEF forRisk
  <2>3. (1000 * (s.price - s.stop)) * n = 1000 * n * (s.price - s.stop)
    BY <1>1, <1>11
  <2> QED
    BY <2>2, <2>3
<1>13. 2 * (100 * n * s.price)
         <= 2 * (account * SwingConfig.max_position) + IF s.fractional THEN 100 * s.price ELSE 0
  <2>1. 2 * ((100 * s.price) * n)
          <= 2 * (account * SwingConfig.max_position) + IF s.fractional THEN 100 * s.price ELSE 0
    BY <1>1, <1>3, <1>11, QuotientWithin DEF forOne
  <2>2. (100 * s.price) * n = 100 * n * s.price
    BY <1>1, <1>11
  <2> QED
    BY <2>1, <2>2
<1>14. 2 * (100 * (exposure + n * s.price))
         <= 2 * (account * SwingConfig.max_exposure) + IF s.fractional THEN 100 * s.price ELSE 0
  <2>1. room > 0
    <3> SUFFICES ASSUME n <= 0 PROVE FALSE
      BY <1>11
    <3>1. \A a \in Int, b \in Nat : a <= 0 => a * b <= 0
      OBVIOUS
    <3>2. n * s.price <= 0 /\ n * s.price \in Int
      BY <1>1, <1>11, <3>1
    <3> QED
      BY <1>1, <1>11, <3>2 DEF X!Refused
  <2>2. 2 * ((100 * s.price) * n) <= 2 * room + IF s.fractional THEN 100 * s.price ELSE 0
    BY <1>1, <1>3, <1>11, <2>1, QuotientWithin DEF forAll
  <2>3. (100 * s.price) * n = 100 * (n * s.price)
    BY <1>1, <1>11
  <2>4. n * s.price \in Int /\ account * SwingConfig.max_exposure \in Int
    BY <1>1, <1>11
  <2>5. \A v, w \in Int : LET e == IF s.fractional THEN 100 * s.price ELSE 0
                          IN  2 * (100 * v) <= 2 * (w - 100 * exposure) + e => 2 * (100 * (exposure + v)) <= 2 * w + e
    BY <1>1
  <2> QED
    BY <2>2, <2>3, <2>4, <2>5 DEF room
<1> QED
  BY <1>12, <1>13, <1>14

\* The previous engine.  Rows of weights, and what each step makes of them.
Stakes == {"lowvol_quality", "vol_momentum", "pairs_trading", "vol_targeting", "sentiment", "cash"}
Even(a) ==
  /\ a \in [Stakes -> Nat]
  /\ 995 <= O!Invested(a) + a.cash /\ O!Invested(a) + a.cash <= 1000
  /\ a.lowvol_quality <= 350 /\ a.vol_momentum <= 350 /\ a.pairs_trading <= 350

LEMMA RowsEven == \A r \in O!Regimes : Even(O!Matrix[r])
BY DEF O!Regimes, O!Matrix, O!Weight, O!Invested, Even, Stakes

LEMMA BlendsEven ==
  ASSUME NEW p, p.bull \in Nat, p.sideways \in Nat, p.bear \in Nat, p.bull + p.sideways + p.bear = 10
  PROVE  Even(O!Blended(p))
<1> DEFINE a == O!Blended(p)
           sum(x, y, z) == p.bull * x + p.sideways * y + p.bear * z
<1>1. O!Stocks \cup {"cash"} = Stakes
  BY DEF O!Stocks, Stakes
<1>2. a = [k \in Stakes |-> sum(O!Matrix.bull[k], O!Matrix.sideways[k], O!Matrix.bear[k]) \div 10]
  BY <1>1 DEF O!Blended
<1>3. /\ a.lowvol_quality = sum(250, 300, 350) \div 10
      /\ a.vol_momentum = sum(300, 150, 50) \div 10
      /\ a.pairs_trading = sum(100, 250, 200) \div 10
      /\ a.vol_targeting = sum(200, 150, 100) \div 10
      /\ a.sentiment = sum(100, 100, 50) \div 10
      /\ a.cash = sum(50, 50, 250) \div 10
  BY <1>2 DEF Stakes, O!Matrix, O!Weight
<1>4. a \in [Stakes -> Nat]
  <2>1. \A k \in Stakes : O!Matrix.bull[k] \in Nat /\ O!Matrix.sideways[k] \in Nat /\ O!Matrix.bear[k] \in Nat
    BY DEF Stakes, O!Matrix, O!Weight
  <2>2. \A x, y, z \in Nat : sum(x, y, z) \div 10 \in Nat
    <3>1. \A x, y, z \in Nat : sum(x, y, z) \in Nat
      OBVIOUS
    <3>2. \A m \in Nat : m \div 10 \in Nat
      OBVIOUS
    <3> QED
      BY <3>1, <3>2
  <2> HIDE DEF a, sum
  <2> QED
    BY <1>2, <2>1, <2>2
<1> HIDE DEF a
<1>6. \A n \in Nat : n \div 10 \in Nat /\ 10 * (n \div 10) <= n /\ n < 10 * (n \div 10) + 10
  OBVIOUS
<1>7. /\ sum(250, 300, 350) \in Nat /\ sum(300, 150, 50) \in Nat /\ sum(100, 250, 200) \in Nat
      /\ sum(200, 150, 100) \in Nat /\ sum(100, 100, 50) \in Nat /\ sum(50, 50, 250) \in Nat
      /\ sum(250, 300, 350) <= 3500 /\ sum(300, 150, 50) <= 3500 /\ sum(100, 250, 200) <= 3500
      /\ sum(250, 300, 350) + sum(300, 150, 50) + sum(100, 250, 200) + sum(200, 150, 100)
           + sum(100, 100, 50) + sum(50, 50, 250) = 10000
  OBVIOUS
<1> HIDE DEF sum
<1>5. /\ a.lowvol_quality <= 350 /\ a.vol_momentum <= 350 /\ a.pairs_trading <= 350
      /\ 995 <= O!Invested(a) + a.cash /\ O!Invested(a) + a.cash <= 1000
  BY <1>3, <1>6, <1>7 DEF O!Invested
<1> QED
  BY <1>4, <1>5 DEF a, Even

\* An exposure limit scales the strategies down, and cash takes the rest.
LEMMA LimitsEven ==
  ASSUME NEW a, Even(a), NEW limit \in Nat
  PROVE  Even(O!Limited(a, limit)) /\ O!Invested(O!Limited(a, limit)) <= 10 * limit
<1> DEFINE l == O!Limited(a, limit)
           i == O!Invested(a)
           m == 10 * limit
           cut(n) == (n * 10 * limit) \div i
<1>1. /\ a.lowvol_quality \in Nat /\ a.vol_momentum \in Nat /\ a.pairs_trading \in Nat
      /\ a.vol_targeting \in Nat /\ a.sentiment \in Nat /\ a.cash \in Nat /\ i \in Nat /\ m \in Nat
  BY DEF Even, Stakes, O!Invested
<1>2. CASE i <= m
  BY <1>2 DEF O!Limited
<1>3. CASE ~ (i <= m)
  <2> DEFINE scaled == [k \in O!Stocks |-> cut(a[k])]
  <2>1. l = [k \in DOMAIN a |-> IF k = "cash" THEN 1000 - O!Invested(scaled) ELSE scaled[k]]
    BY <1>3 DEF O!Limited
  <2>2. DOMAIN a = Stakes
    BY DEF Even
  <2>3. O!Invested(scaled) = cut(a.lowvol_quality) + cut(a.vol_momentum) + cut(a.pairs_trading)
                             + cut(a.vol_targeting) + cut(a.sentiment)
    BY DEF O!Invested, O!Stocks
  <2>4. /\ l.lowvol_quality = cut(a.lowvol_quality) /\ l.vol_momentum = cut(a.vol_momentum)
        /\ l.pairs_trading = cut(a.pairs_trading) /\ l.vol_targeting = cut(a.vol_targeting)
        /\ l.sentiment = cut(a.sentiment) /\ l.cash = 1000 - O!Invested(scaled)
    BY <2>1, <2>2 DEF Stakes, O!Stocks
  <2>5. i > 0 /\ m < i
    BY <1>1, <1>3
  <2>6. \A n \in Nat : cut(n) \in Nat /\ i * cut(n) <= n * m /\ cut(n) <= n
    <3> TAKE n \in Nat
    <3>1. n * 10 * limit = n * m /\ n * m \in Nat
      OBVIOUS
    <3>2. \A x \in Nat : x \div i \in Nat /\ i * (x \div i) <= x
      BY <1>1, <2>5
    <3>3. cut(n) \in Nat /\ i * cut(n) <= n * m
      BY <3>1, <3>2
    <3> HIDE DEF cut, i, m
    <3>4. n * m <= n * i
      BY <1>1, <2>5
    <3>5. \A c \in Nat : c > n => i * c > i * n
      BY <1>1, <2>5
    <3>6. i * n = n * i /\ i * n \in Nat /\ i * cut(n) \in Nat
      BY <1>1, <3>3
    <3> QED
      BY <3>1, <3>3, <3>4, <3>5, <3>6
  <2>7. O!Invested(scaled) \in Nat /\ O!Invested(scaled) <= m
    <3> DEFINE c1 == cut(a.lowvol_quality)
               c2 == cut(a.vol_momentum)
               c3 == cut(a.pairs_trading)
               c4 == cut(a.vol_targeting)
               c5 == cut(a.sentiment)
               c == c1 + c2 + c3 + c4 + c5
    <3>1. /\ c1 \in Nat /\ i * c1 <= a.lowvol_quality * m
          /\ c2 \in Nat /\ i * c2 <= a.vol_momentum * m
          /\ c3 \in Nat /\ i * c3 <= a.pairs_trading * m
          /\ c4 \in Nat /\ i * c4 <= a.vol_targeting * m
          /\ c5 \in Nat /\ i * c5 <= a.sentiment * m
      BY <1>1, <2>6
    <3> HIDE DEF c1, c2, c3, c4, c5
    <3>2. i * c = i * c1 + i * c2 + i * c3 + i * c4 + i * c5
      <4> HIDE DEF i
      <4> QED
        BY <1>1, <3>1
    <3>3. i * m = a.lowvol_quality * m + a.vol_momentum * m + a.pairs_trading * m + a.vol_targeting * m
                    + a.sentiment * m
      <4> HIDE DEF m
      <4> QED
        BY <1>1 DEF O!Invested
    <3>4. i * c <= i * m
      <4> HIDE DEF i, m, c
      <4>1. /\ i * c1 \in Nat /\ i * c2 \in Nat /\ i * c3 \in Nat /\ i * c4 \in Nat /\ i * c5 \in Nat
            /\ a.lowvol_quality * m \in Nat /\ a.vol_momentum * m \in Nat /\ a.pairs_trading * m \in Nat
            /\ a.vol_targeting * m \in Nat /\ a.sentiment * m \in Nat
        BY <1>1, <3>1
      <4> QED
        BY <3>1, <3>2, <3>3, <4>1
    <3>5. c \in Nat
      BY <3>1
    <3>6. c <= m
      <4> HIDE DEF i, m, c
      <4>1. c > m => i * c > i * m
        BY <1>1, <2>5, <3>5
      <4>2. i * c \in Nat /\ i * m \in Nat
        BY <1>1, <3>5
      <4> QED
        BY <1>1, <3>4, <3>5, <4>1, <4>2
    <3> QED
      BY <2>3, <3>5, <3>6 DEF c1, c2, c3, c4, c5
  <2>8. O!Invested(l) = O!Invested(scaled)
    <3> HIDE DEF cut, scaled, l
    <3> QED
      BY <2>3, <2>4 DEF O!Invested
  <2>9. i <= 1000 /\ m < 1000
    BY <1>1, <2>5 DEF Even
  <2> HIDE DEF cut, scaled, l, i, m
  <2>10. /\ l.lowvol_quality \in Nat /\ l.vol_momentum \in Nat /\ l.pairs_trading \in Nat
         /\ l.vol_targeting \in Nat /\ l.sentiment \in Nat /\ l.cash \in Nat
         /\ l.lowvol_quality <= a.lowvol_quality /\ l.vol_momentum <= a.vol_momentum
         /\ l.pairs_trading <= a.pairs_trading
    BY <1>1, <2>4, <2>6, <2>7, <2>9
  <2>11. l \in [Stakes -> Nat]
    BY <2>1, <2>2, <2>10 DEF Stakes
  <2>12. O!Invested(l) + l.cash = 1000
    BY <2>4, <2>7, <2>8
  <2>13. l.lowvol_quality <= 350 /\ l.vol_momentum <= 350 /\ l.pairs_trading <= 350
    BY <1>1, <2>10 DEF Even
  <2>14. Even(l)
    BY <2>11, <2>12, <2>13 DEF Even
  <2> QED
    BY <2>7, <2>8, <2>14 DEF l, m
<1> QED
  BY <1>2, <1>3

\* The shares of one order, against the portfolio and against the distance to its stop.
LEMMA SharesWithin ==
  ASSUME SizingSettings, NEW x \in O!Inputs
  PROVE  /\ O!Shares(x) \in Nat
         /\ 10 * (O!Shares(x) * x.price) <= Portfolio
         /\ x.atr > 0 => 100 * (O!Shares(x) * x.atr) <= Portfolio
<1> DEFINE sizes == O!Methods(x)
           m == O!Min(sizes)
           n == O!Shares(x)
           cost == x.price
           atr == x.atr
<1>1. /\ x.price \in Nat /\ x.price > 0 /\ x.atr \in Nat /\ x.vol \in Nat /\ x.wins \in Int
      /\ x.peers \in BOOLEAN /\ Portfolio \in Nat
  <2>1. /\ x.price \in QuotedPrices /\ x.atr \in QuotedAtrs /\ x.vol \in MarketVols /\ x.wins \in WinPercents
        /\ x.peers \in BOOLEAN
    BY DEF O!Inputs
  <2>2. /\ QuotedPrices \subseteq Nat \ {0} /\ QuotedAtrs \subseteq Nat /\ MarketVols \subseteq Nat
        /\ WinPercents \subseteq Int /\ Portfolio \in Nat
    BY Zenon DEF SizingSettings
  <2>3. x.price \in Nat \ {0} /\ x.atr \in Nat /\ x.vol \in Nat /\ x.wins \in Int
    BY <2>1, <2>2, Zenon
  <2> QED
    BY <2>1, <2>2, <2>3
<1>2. /\ O!ByAtr(x) \in Nat /\ O!ByAtr(x) <= 100
      /\ x.atr > 0 => x.atr * O!ByAtr(x) <= 10 * x.price
  <2>1. CASE x.atr = 0
    BY <1>1, <2>1 DEF O!ByAtr
  <2>2. CASE x.atr > 0
    <3> DEFINE q == (10 * x.price) \div x.atr
    <3>1. q \in Nat /\ x.atr * q <= 10 * x.price
      BY <1>1, <2>2
    <3>2. O!ByAtr(x) = IF 100 < q THEN 100 ELSE q
      BY <1>1, <2>2 DEF O!ByAtr, O!Least
    <3> HIDE DEF q
    <3>3. O!ByAtr(x) \in Nat /\ O!ByAtr(x) <= 100 /\ O!ByAtr(x) <= q
      BY <3>1, <3>2
    <3>4. \A b, c, d \in Nat : b <= c => d * b <= d * c
      OBVIOUS
    <3>5. x.atr * O!ByAtr(x) <= x.atr * q
      BY <1>1, <3>1, <3>3, <3>4
    <3>6. x.atr * O!ByAtr(x) \in Nat /\ x.atr * q \in Nat
      BY <1>1, <3>1, <3>3
    <3> QED
      BY <1>1, <3>1, <3>3, <3>5, <3>6
  <2> QED
    BY <1>1, <2>1, <2>2
<1>3. O!ByVolInverse(x) \in Nat
  <2>1. O!Most(x.vol, 1) \in Nat
    BY <1>1 DEF O!Most
  <2>2. \A v \in Nat : 20 + v \in Nat /\ 20 + v > 0 /\ (1000 * 20) \div (20 + v) \in Nat
    OBVIOUS
  <2> QED
    BY <2>1, <2>2 DEF O!ByVolInverse, O!Least
<1>4. O!ByKelly(x) \in Nat
  BY <1>1 DEF O!ByKelly, O!Most, O!Least
<1>5. sizes \in SUBSET Int /\ \A v \in sizes : v >= 0
  BY <1>2, <1>3, <1>4 DEF O!Methods
<1>6. O!ByAtr(x) \in sizes
  BY DEF O!Methods
<1>7. IsFiniteSet(sizes)
  <2> DEFINE risked == {O!ByAtr(x)}
             inverse == IF x.peers THEN {O!ByVolInverse(x)} ELSE {}
             kelly == IF x.wins > 0 THEN {O!ByKelly(x)} ELSE {}
  <2>1. IsFiniteSet(risked) /\ IsFiniteSet(inverse) /\ IsFiniteSet(kelly)
    BY FS_Singleton, FS_EmptySet, Zenon
  <2>2. sizes = risked \cup inverse \cup kelly
    BY DEF O!Methods
  <2> HIDE DEF risked, inverse, kelly
  <2> QED
    BY <2>1, <2>2, FS_Union, Zenon
<1> HIDE DEF sizes
<1>8. m \in sizes /\ m <= O!ByAtr(x)
  <2>1. sizes # {}
    BY <1>6
  <2>2. m = CHOOSE c \in sizes : \A d \in sizes : c <= d
    BY Zenon DEF O!Min
  <2>3. m \in sizes /\ \A d \in sizes : m <= d
    BY <1>5, <1>7, <2>1, <2>2, LeastChosen, Zenon
  <2> QED
    BY <1>6, <2>3, Zenon
<1>9. m \in Nat
  <2> HIDE DEF m
  <2>1. m \in Int /\ m >= 0
    BY <1>5, <1>8, Zenon
  <2> QED
    BY <2>1
<1>10. n = (Portfolio * m) \div (1000 * x.price)
  BY DEF O!Shares, sizes
<1> HIDE DEF m, n
<1>11. n \in Nat /\ (1000 * cost) * n <= Portfolio * m
  <2>1. Portfolio * m \in Nat /\ 1000 * cost \in Nat /\ 1000 * cost > 0
    BY <1>1, <1>9
  <2>2. \A a, b \in Nat : b > 0 => a \div b \in Nat /\ b * (a \div b) <= a
    OBVIOUS
  <2> QED
    BY <1>10, <2>1, <2>2
<1>12. 10 * (n * cost) <= Portfolio
  <2>1. \A b, c, d \in Nat : b <= c => d * b <= d * c
    OBVIOUS
  <2>2. m <= 100
    BY <1>2, <1>8, <1>9
  <2>3. Portfolio * m <= Portfolio * 100
    BY <1>1, <1>9, <2>1, <2>2
  <2>4. (1000 * cost) * n = 1000 * (n * cost) /\ n * cost \in Nat /\ Portfolio * m \in Nat
    BY <1>1, <1>9, <1>11
  <2> QED
    BY <1>1, <1>11, <2>3, <2>4
<1>13. ASSUME atr > 0 PROVE 100 * (n * atr) <= Portfolio
  <2>1. \A b, c, d \in Nat : b <= c => d * b <= d * c
    OBVIOUS
  <2>2. atr * m <= atr * O!ByAtr(x)
    BY <1>1, <1>2, <1>8, <1>9, <2>1
  <2>3. atr * m \in Nat /\ atr * O!ByAtr(x) \in Nat
    BY <1>1, <1>2, <1>9
  <2>4. atr * m <= 10 * cost
    BY <1>1, <1>2, <1>13, <2>2, <2>3
  <2>5. atr * ((1000 * cost) * n) <= atr * (Portfolio * m)
    BY <1>1, <1>9, <1>11, <2>1
  <2>6. Portfolio * (atr * m) <= Portfolio * (10 * cost)
    BY <1>1, <2>1, <2>3, <2>4
  <2>7. atr * ((1000 * cost) * n) = (10 * cost) * (100 * (n * atr))
    BY <1>1, <1>11
  <2>8. atr * (Portfolio * m) = Portfolio * (atr * m)
    BY <1>1, <1>9
  <2>9. Portfolio * (10 * cost) = (10 * cost) * Portfolio
    BY <1>1
  <2> DEFINE k == 10 * cost
             u == 100 * (n * atr)
  <2>10. k \in Nat /\ k > 0 /\ u \in Nat
    BY <1>1, <1>11
  <2>11. k * u <= k * Portfolio
    <3>1. /\ atr * ((1000 * cost) * n) \in Nat /\ Portfolio * (atr * m) \in Nat /\ k * Portfolio \in Nat
      BY <1>1, <1>9, <1>11
    <3> QED
      BY <2>5, <2>6, <2>7, <2>8, <2>9, <3>1
  <2> HIDE DEF k, u
  <2>12. u > Portfolio => k * u > k * Portfolio
    BY <1>1, <2>10
  <2>13. k * u \in Nat /\ k * Portfolio \in Nat
    BY <1>1, <2>10
  <2>14. u <= Portfolio
    BY <1>1, <2>10, <2>11, <2>12, <2>13
  <2> QED
    BY <2>14 DEF u
<1> QED
  BY <1>11, <1>12, <1>13 DEF n

LEMMA AllottedEven ==
  ASSUME SizingSettings, NEW x \in O!Inputs
  PROVE  Even(O!Allotted(x)) /\ O!Invested(O!Allotted(x)) <= 10 * x.exposure
<1>1. x.exposure \in Nat /\ x.regime \in O!Regimes /\ x.probs \in RegimeProbs
  BY DEF SizingSettings, O!Inputs
<1>2. Even(O!Matrix[x.regime])
  BY <1>1, RowsEven
<1>3. Even(O!Blended(x.probs))
  BY <1>1, BlendsEven DEF SizingSettings
<1>4. Even(IF x.sure THEN O!Matrix[x.regime] ELSE O!Blended(x.probs))
  BY <1>2, <1>3
<1> QED
  BY <1>1, <1>4, LimitsEven DEF O!Allotted

\* The order is at most half of those shares.
LEMMA QuantityWithin ==
  ASSUME SizingSettings, NEW x \in O!Inputs
  PROVE  /\ O!Quantity(x) \in Nat
         /\ x.atr = 0 => O!Quantity(x) = 0
         /\ 2 * O!Quantity(x) <= O!Shares(x)
<1> DEFINE n == O!Shares(x)
           w == O!Allotted(x)[x.strategy]
           v == O!VolScale(x)
           e == O!Abs(O!Overlaid(x, O!Allotted(x).sentiment))
           a == (n * w * v) \div 1000
<1>1. n \in Nat
  BY SharesWithin
<1>2. w \in Nat /\ w <= 350 /\ O!Allotted(x).sentiment \in Nat
  <2>1. x.strategy \in {"lowvol_quality", "vol_momentum", "pairs_trading"}
    BY DEF O!Inputs
  <2> QED
    BY <2>1, AllottedEven DEF Even, Stakes
<1>3. x.vol \in Nat /\ x.regime \in O!Regimes /\ x.strength \in Int /\ x.z \in Int /\ x.sentiment \in Int
  BY DEF SizingSettings, O!Inputs
<1>4. v \in Nat /\ v <= 130
  <2>1. x.vol > 0 => 1500 \div x.vol \in Int
    BY <1>3
  <2>2. [bull |-> 130, sideways |-> 100, bear |-> 70][x.regime] \in 70 .. 130
    BY <1>3 DEF O!Regimes
  <2> QED
    BY <1>3, <2>1, <2>2 DEF O!VolScale, O!Most, O!Least
<1>5. e \in Nat /\ e <= 1000
  <2>1. O!LegStrength(x.z, x.regime) \in Int
    <3>1. O!Abs(x.z) \in Nat
      BY <1>3 DEF O!Abs
    <3>2. \A y \in Nat : (10 * y) \div 3 \in Int
      OBVIOUS
    <3>3. O!EntryZ[x.regime] \in Int
      BY <1>3 DEF O!EntryZ, O!Regimes
    <3> QED
      BY <3>1, <3>2, <3>3 DEF O!LegStrength, O!Least
  <2>2. O!Strength(x) \in Int
    BY <1>3, <2>1 DEF O!Strength
  <2>3. \A b, c, d \in Int : ((1000 - b) * c + b * d) \div 1000 \in Int
    OBVIOUS
  <2> DEFINE weight == O!Allotted(x).sentiment
             strength == O!Strength(x)
             mixed == ((1000 - weight) * strength + weight * x.sentiment) \div 1000
             limited(y) == O!Most(-1000, O!Least(1000, y))
             o == O!Overlaid(x, weight)
  <2>4. weight \in Int /\ strength \in Int /\ x.sentiment \in Int
    BY <1>2, <1>3, <2>2
  <2>5. o = limited(mixed)
    BY Zenon DEF O!Overlaid
  <2>6. \A y \in Int : limited(y) \in -1000 .. 1000
    BY DEF O!Most, O!Least
  <2>7. \A y \in -1000 .. 1000 : O!Abs(y) \in Nat /\ O!Abs(y) <= 1000
    BY DEF O!Abs
  <2> HIDE DEF weight, strength, o
  <2>8. mixed \in Int
    BY <2>3, <2>4
  <2> HIDE DEF mixed, limited
  <2>9. o \in -1000 .. 1000
    BY <2>5, <2>6, <2>8
  <2>10. O!Abs(o) \in Nat /\ O!Abs(o) <= 1000
    BY ZenonT(60), <2>7, <2>9
  <2> QED
    BY <2>10 DEF o, weight
<1>6. O!Quantity(x) = IF e < 100 \/ x.atr = 0 THEN 0 ELSE (a * e) \div 100000
  BY DEF O!Quantity
<1> HIDE DEF n, w, v, e
<1>7. a \in Nat /\ 1000 * a <= 45500 * n
  <2>1. \A b, c, d \in Nat : b <= c => d * b <= d * c
    OBVIOUS
  <2>2. n * w <= n * 350 /\ n * w \in Nat
    BY <1>1, <1>2, <2>1
  <2>3. (n * w) * v <= (n * w) * 130 /\ n * w * v \in Nat
    BY <1>4, <2>1, <2>2
  <2>4. n * w * v <= 45500 * n
    BY <1>1, <2>2, <2>3
  <2>5. \A y \in Nat : y \div 1000 \in Nat /\ 1000 * (y \div 1000) <= y
    OBVIOUS
  <2>6. a \in Nat /\ 1000 * a <= n * w * v
    BY <2>3, <2>5
  <2> HIDE DEF a
  <2> QED
    BY <1>1, <2>3, <2>4, <2>6
<1> HIDE DEF a
<1>8. (a * e) \div 100000 \in Nat /\ 100000 * ((a * e) \div 100000) <= 1000 * a
  <2>1. \A b, c, d \in Nat : b <= c => d * b <= d * c
    OBVIOUS
  <2>2. a * e <= a * 1000 /\ a * e \in Nat
    BY <1>5, <1>7, <2>1
  <2>3. \A y \in Nat : y \div 100000 \in Nat /\ 100000 * (y \div 100000) <= y
    OBVIOUS
  <2> QED
    BY <1>7, <2>2, <2>3
<1>9. \A q \in Nat : 100000 * q <= 1000 * a => 2 * q <= n
  BY <1>1, <1>7
<1> QED
  BY <1>1, <1>6, <1>8, <1>9 DEF n

LEMMA OrdersWithin ==
  ASSUME SizingSettings, x1 \in O!Inputs
  PROVE  O!AllocationWhole
<1> DEFINE q == O!Quantity(x1)
           n == O!Shares(x1)
           cost == x1.price
           atr == x1.atr
<1>1. Even(O!Allotted(x1)) /\ O!Invested(O!Allotted(x1)) <= 10 * x1.exposure
  BY AllottedEven
<1>2. q \in Nat /\ (atr = 0 => q = 0) /\ 2 * q <= n
  BY QuantityWithin
<1>3. n \in Nat /\ 10 * (n * cost) <= Portfolio /\ (atr > 0 => 100 * (n * atr) <= Portfolio)
  BY SharesWithin
<1>4. cost \in Nat /\ atr \in Nat /\ Portfolio \in Nat
  BY DEF SizingSettings, O!Inputs
<1> HIDE DEF q, n
<1>5. \A y \in Nat : 2 * (q * y) <= n * y
  <2> TAKE y \in Nat
  <2>1. \A b, c, d \in Nat : b <= c => b * d <= c * d
    OBVIOUS
  <2>2. (2 * q) * y <= n * y
    BY <1>2, <1>3, <2>1
  <2>3. (2 * q) * y = 2 * (q * y)
    BY <1>2
  <2> QED
    BY <2>2, <2>3
<1>6. \A y \in Nat : 10 * y <= Portfolio => y <= Portfolio \div 10
  BY <1>4
<1>7. \A y \in Nat : 50 * y <= Portfolio => y <= Portfolio \div 50
  BY <1>4
<1>8. q * cost \in Nat /\ n * cost \in Nat /\ q * atr \in Nat /\ n * atr \in Nat
  BY <1>2, <1>3, <1>4
<1>9. q * cost <= Portfolio \div 10
  <2>1. 2 * (q * cost) <= n * cost
    BY <1>4, <1>5
  <2> QED
    BY <1>3, <1>4, <1>6, <1>8, <2>1
<1>10. q * 2 * atr <= Portfolio \div 50
  <2>1. 2 * (q * atr) <= n * atr
    BY <1>4, <1>5
  <2>2. q * 2 * atr = 2 * (q * atr)
    BY <1>2, <1>4
  <2>3. CASE atr = 0
    <3>1. 2 * (q * atr) = 0
      BY <1>2, <2>3
    <3> QED
      BY <1>4, <1>7, <2>2, <3>1
  <2>4. CASE atr > 0
    <3>1. 50 * (2 * (q * atr)) <= Portfolio
      BY <1>3, <1>4, <1>8, <2>1, <2>4
    <3> QED
      BY <1>7, <1>8, <2>2, <3>1
  <2> QED
    BY <1>4, <2>3, <2>4
<1> QED
  BY <1>1, <1>9, <1>10 DEF O!AllocationWhole, Even, q

\* No entry exceeds the caps on risk, symbol and exposure, not even by the one share that
\* is always wanted (position_manager.py, calculate_position_size); and whatever regime,
\* blend, limit, scale and overlay the previous engine met, its weights stay whole and an
\* order within 10% of the portfolio, and 2% at its stop: for any prices, accounts and
\* settings.
THEOREM SizesStayBounded == ASSUME SizingSettings PROVE PartsSpec => []SizesBounded
<1> DEFINE Sound == part = "allocation" => x1 \in O!Inputs
<1>1. PartsInit => Sound
  <2> SUFFICES ASSUME PartsInit, part = "allocation" PROVE x1 \in O!Inputs
    OBVIOUS
  <2>1. O!Init
    BY DEF PartsInit
  <2> QED
    BY <2>1 DEF O!Init
<1>2. Sound /\ [PartsNext]_all => Sound'
  <2> SUFFICES ASSUME part = "allocation", x1 \in O!Inputs, [PartsNext]_all PROVE (x1 \in O!Inputs)'
    BY OnePart
  <2>1. x1' = x1
    BY OnePart DEF O!Next
  <2> QED
    BY <2>1 DEF O!Inputs
<1>3. Sound => SizesBounded
  <2>1. X!SizedWithinCaps
    BY SizeWithinCaps DEF X!SizedWithinCaps
  <2>2. Sound /\ part = "allocation" => O!AllocationWhole
    BY OrdersWithin
  <2> HIDE DEF Sound
  <2> QED
    BY <2>1, <2>2 DEF SizesBounded
<1> HIDE DEF Sound
<1> QED
  BY <1>1, <1>2, <1>3, PTL DEF PartsSpec
=============================================================================
