--------------------------- MODULE ServicesProofs ---------------------------
(***************************************************************************)
(* What MCServices checks of the daily pipeline and of the Telegram bot on *)
(* small instances, for any instance.                                      *)
(***************************************************************************)
EXTENDS MCServices, Sequences, Piles

(***************************************************************************)
(* The daily pipeline.                                                     *)
(***************************************************************************)
Runs == {daily, manual}

LEMMA RunsFinite == IsFiniteSet(Runs) /\ \A S : IsFiniteSet(S) => P!Cardinality(S) \in Nat
<1>1. IsFiniteSet({daily}) /\ IsFiniteSet({manual})
  BY FS_Singleton
<1>2. IsFiniteSet({daily} \cup {manual})
  BY <1>1, FS_Union
<1>3. \A S : P!IsFiniteSet(S) = IsFiniteSet(S) /\ P!Cardinality(S) = Cardinality(S)
  BY DEF IsFiniteSet, P!IsFiniteSet, Cardinality, P!Cardinality
<1>4. {daily} \cup {manual} = Runs
  BY DEF Runs
<1> QED
  BY <1>2, <1>3, <1>4, FS_CardinalityType

\* How drawdowns order: of a new peak there is none.
LEMMA Drawdowns ==
  \A v, top \in Int : /\ P!Down(v, top, 20) => P!Down(v, top, 15)
                      /\ P!Down(v, top, 15) => P!Down(v, top, 10)
                      /\ ~ P!Down(v, v, 10)
  BY DEF P!Down

\* The kill switch: update() leaves a level as severe as the drawdown asks for; during
\* a cooldown nothing changes, and one that begins is news.
LEMMA SwitchSevere ==
  ASSUME Values \subseteq Int, CooldownDays \in Nat,
         x1 \in Int, x2 \in Int, x4 \in Int, x5 \in Nat \ {0}, x3 \in DOMAIN P!Depth, P!Severe,
         NEW v \in Values, P!Update(v), x5' = x5
  PROVE  /\ x1' \in Int /\ x2' \in Int /\ x4' \in Int /\ x3' \in DOMAIN P!Depth /\ P!Severe'
         /\ P!CoolingDown => x3' = x3 /\ x3 = "EMERGENCY"
         /\ P!CoolingDown' /\ ~ P!CoolingDown => x3' # x3 /\ x3' = "EMERGENCY"
<1> DEFINE peak == x1  current == x2  level == x3  cooldown == x4  today == x5
<1>0. DOMAIN P!Depth = {"NORMAL", "WARNING", "DEFENSIVE", "EMERGENCY"}
  BY DEF P!Depth
<1>1. v \in Int /\ current' = v
  BY DEF P!Update
<1>2. CASE P!Stay
  BY <1>1, <1>2 DEF P!Stay, P!Severe, P!CoolingDown
<1>3. CASE P!Release(v)
  <2>1. cooldown # 0 /\ today >= cooldown /\ cooldown' = 0 /\ peak' = v /\ level' = "NORMAL"
    BY <1>3 DEF P!Release
  <2>2. ~ P!Down(current', peak', 10) /\ ~ P!Down(current', peak', 15) /\ ~ P!Down(current', peak', 20)
    BY <1>1, <2>1, Drawdowns
  <2>3. P!Severe'
    BY <2>1, <2>2 DEF P!Severe
  <2> QED
    BY <1>0, <1>1, <2>1, <2>3 DEF P!CoolingDown
<1>4. CASE P!Measure(v)
  <2>1. /\ cooldown = 0 /\ peak' = P!Higher(v) /\ level' = P!LevelFor(v, peak')
        /\ cooldown' = IF P!Down(v, peak', 20) THEN today + CooldownDays ELSE 0
    BY <1>4 DEF P!Measure
  <2>2. peak' \in Int /\ cooldown' \in Int /\ (cooldown' # 0 <=> P!Down(v, peak', 20))
    BY <1>1, <2>1 DEF P!Higher
  <2>3. level \in {"NORMAL", "WARNING", "DEFENSIVE"}
    BY <1>0, <2>1 DEF P!Severe
  <2>4. /\ P!Down(v, peak', 20) => P!Down(v, peak', 15)
        /\ P!Down(v, peak', 15) => P!Down(v, peak', 10)
    BY <1>1, <2>2, Drawdowns
  <2>5. /\ P!Depth["WARNING"] = 1 /\ P!Depth["DEFENSIVE"] = 2
        /\ cooldown' = 0 => /\ P!Down(current', peak', 15) => P!Depth[level'] >= 2
                            /\ P!Down(current', peak', 10) => P!Depth[level'] >= 1
                            /\ ~ P!Down(current', peak', 20)
        /\ level' \in DOMAIN P!Depth /\ (level' = "EMERGENCY" <=> cooldown' # 0)
    <3>1. CASE P!Down(v, peak', 20)
      BY <1>0, <1>1, <2>1, <2>2, <2>4, <3>1 DEF P!LevelFor, P!Depth
    <3>2. CASE ~ P!Down(v, peak', 20) /\ P!Down(v, peak', 15)
      BY <1>0, <1>1, <2>1, <2>2, <2>4, <3>2 DEF P!LevelFor, P!Depth
    <3>3. CASE ~ P!Down(v, peak', 15) /\ P!Down(v, peak', 10)
      BY <1>0, <1>1, <2>1, <2>2, <2>4, <3>3 DEF P!LevelFor, P!Depth
    <3>4. CASE ~ P!Down(v, peak', 10)
      <4>1. level' = P!OneUp(v, peak')
        BY <2>1, <2>4, <3>4 DEF P!LevelFor
      <4>2. P!OneUp(v, peak') \in {"NORMAL", "WARNING", "DEFENSIVE"}
        BY <2>3 DEF P!OneUp
      <4> QED
        BY <1>0, <1>1, <2>2, <2>4, <3>4, <4>1, <4>2 DEF P!Depth
    <3> QED
      BY <3>1, <3>2, <3>3, <3>4
  <2>6. P!Severe'
    BY <2>5 DEF P!Severe
  <2> QED
    BY <1>1, <2>1, <2>2, <2>3, <2>5, <2>6 DEF P!CoolingDown
<1> QED
  BY <1>2, <1>3, <1>4 DEF P!Update

\* The pipeline's sums are those of Piles, whose lemmas say what they come to.
LEMMA PipelineSum == ASSUME NEW f PROVE P!Sum(f) = Sum(f)
BY DEF P!Sum, Sum, P!Pile, Pile, P!Cardinality, Cardinality

LEMMA RunsNat == ASSUME NEW f \in [Runs -> Nat] PROVE P!Sum(f) \in Nat
<1>1. Sum(f) \in Nat
  BY RunsFinite, SumNat
<1> QED
  BY <1>1, PipelineSum

LEMMA RunsNone == P!Sum([r \in Runs |-> 0]) = 0
<1>1. Sum([r \in Runs |-> 0]) = 0
  BY SumZero
<1> QED
  BY <1>1, PipelineSum

LEMMA RunsChanged ==
  ASSUME NEW f \in [Runs -> Int], NEW r \in Runs, NEW n \in Int
  PROVE  P!Sum([f EXCEPT ![r] = n]) = P!Sum(f) - f[r] + n
<1>1. Sum([f EXCEPT ![r] = n]) = Sum(f) - f[r] + n
  BY RunsFinite, SumChanged, Zenon
<1>2. P!Sum(f) = Sum(f) /\ P!Sum([f EXCEPT ![r] = n]) = Sum([f EXCEPT ![r] = n])
  BY PipelineSum, Zenon
<1> QED
  BY <1>1, <1>2, Zenon

\* A run whose order is put away, or gains a slice: the sum over the orders under way.
LEMMA UnderwayMoved ==
  ASSUME x11 \in [Runs -> Nat], NEW r \in Runs, NEW n \in Nat, x11' = [x11 EXCEPT ![r] = n]
  PROVE  /\ P!Underway \in Nat /\ P!Underway' = P!Underway - x11[r] + n
         /\ x11' \in [Runs -> Nat]
<1>1. x11 \in [Runs -> Int]
  OBVIOUS
<1>2. P!Underway' = P!Sum(x11')
  BY DEF P!Underway, P!Sum, P!Pile
<1>3. P!Sum([x11 EXCEPT ![r] = n]) = P!Sum(x11) - x11[r] + n
  <2>1. n \in Int
    OBVIOUS
  <2> QED
    BY <1>1, <2>1, RunsChanged, Zenon
<1>4. P!Sum(x11) \in Nat
  BY RunsNat
<1> QED
  BY <1>2, <1>3, <1>4 DEF P!Underway

LEMMA UnderwayStays == UNCHANGED x11 => P!Underway' = P!Underway
  BY DEF P!Underway, P!Sum, P!Pile

\* The invariant in its three parts, and what the emergency asks for.
Places == {"idle", "switch", "decide", "trade"}
SwitchOk ==
  x1 \in Int /\ x2 \in Int /\ x4 \in Int /\ x5 \in Nat \ {0} /\ x3 \in DOMAIN P!Depth /\ P!Severe
RunsOk ==
  /\ x6 \in [Runs -> Places] /\ DOMAIN x9 = Runs /\ x11 \in [Runs -> Nat]
  /\ \A r \in Runs : (x6[r] # "trade" => x9[r] = NoOrder) /\ (x9[r] = NoOrder => x11[r] = 0)
TradeLogOk == x13 \in Int /\ x14 \in Int /\ x16 \in Nat /\ P!FillsRecorded

LEMMA SoundParts ==
  /\ P!PipelineSound <=> SwitchOk /\ RunsOk /\ TradeLogOk /\ P!NoFreshOrders
  /\ P!PipelineSound' <=> SwitchOk' /\ RunsOk' /\ TradeLogOk' /\ P!NoFreshOrders'
<1> USE DEF P!PipelineSound, P!PipelineSafe, SwitchOk, RunsOk, TradeLogOk, Runs, Places
<1>1. P!PipelineSound <=> SwitchOk /\ RunsOk /\ TradeLogOk /\ P!NoFreshOrders
  OBVIOUS
<1>2. P!PipelineSound' <=> SwitchOk' /\ RunsOk' /\ TradeLogOk' /\ P!NoFreshOrders'
  OBVIOUS
<1> HIDE DEF P!PipelineSound, P!PipelineSafe, SwitchOk, RunsOk, TradeLogOk, Runs, Places
<1> QED
  BY <1>1, <1>2

LEMMA SwitchStays ==
  ASSUME SwitchOk, UNCHANGED <<x1, x2, x3, x4, x5>>
  PROVE  SwitchOk' /\ P!CoolingDown' = P!CoolingDown
  BY DEF SwitchOk, P!Severe, P!Down, P!Depth, P!CoolingDown

LEMMA TradingDefined ==
  /\ P!Trading = {r \in Runs : x6[r] = "trade"} /\ P!Trading' = {r \in Runs : x6'[r] = "trade"}
  BY DEF P!Trading, Runs

\* The end of a run, of itself.
LEMMA EndSound ==
  ASSUME RunsOk, NEW r \in Runs, P!End(r)
  PROVE  /\ RunsOk' /\ P!Trading' = P!Trading \ {r} /\ x15' = x15 \ {r}
         /\ P!Underway \in Nat /\ x11[r] \in Nat /\ P!Underway' = P!Underway - x11[r]
         /\ P!Underway' \in Nat
<1> DEFINE step == x6  order == x9  got == x11
<1>1. /\ step' = [step EXCEPT ![r] = "idle"] /\ order' = [order EXCEPT ![r] = NoOrder]
      /\ got' = [got EXCEPT ![r] = 0] /\ x15' = x15 \ {r}
  BY DEF P!End
<1>2. P!Underway \in Nat /\ P!Underway' = P!Underway - got[r] + 0 /\ got' \in [Runs -> Nat]
  BY <1>1, UnderwayMoved DEF RunsOk
<1>3. P!Trading' = P!Trading \ {r}
  BY <1>1, TradingDefined DEF RunsOk
<1>4. RunsOk'
  BY <1>1, <1>2 DEF RunsOk, Places
<1>5. P!Underway' \in Nat
  <2>1. P!Underway' = P!Sum(x11')
    BY DEF P!Underway, P!Sum, P!Pile
  <2> QED
    BY <1>2, <2>1, RunsNat
<1>6. got[r] \in Nat
  BY DEF RunsOk
<1> QED
  BY <1>1, <1>2, <1>3, <1>4, <1>5, <1>6

\* _emergency_liquidate sells, and leaves the trade log as it is.
LEMMA LiquidateSound ==
  ASSUME IsFiniteSet(Symbols), RunsOk, TradeLogOk, NEW r \in Runs, x6[r] # "trade", P!Liquidate(r)
  PROVE  RunsOk' /\ TradeLogOk' /\ P!Trading' = P!Trading \ {r} /\ x15' = x15 \ {r}
<1>1. P!End(r) /\ UNCHANGED <<x13, x14>>
  BY DEF P!Liquidate
<1>2. PICK S \in SUBSET Symbols : x16' = x16 + P!Cardinality(S)
  BY DEF P!Liquidate, P!Failing
<1>3. IsFiniteSet(S)
  BY FS_Subset
<1>4. P!Cardinality(S) \in Nat
  BY <1>3, RunsFinite
<1>5. x11[r] = 0
  BY DEF RunsOk
<1>6. TradeLogOk'
  BY <1>1, <1>2, <1>4, <1>5, EndSound DEF TradeLogOk, P!FillsRecorded
<1> QED
  BY <1>1, <1>6, EndSound

\* A plan: under an emergency nothing is allowed.
LEMMA PlanSound ==
  ASSUME RunsOk, TradeLogOk, NEW r \in Runs, x6[r] # "trade", NEW l, P!Plan(r, l)
  PROVE  /\ RunsOk' /\ TradeLogOk' /\ x15' = x15
         /\ P!Trading' \subseteq P!Trading \cup {r}
         /\ l = "EMERGENCY" => P!Trading' \subseteq P!Trading
<1>1. PICK S \in SUBSET Wishes :
        /\ S = {} \/ \E g \in S : g.strategy \in P!Allowed[l]
        /\ x6' = [x6 EXCEPT ![r] = IF S = {} THEN "idle" ELSE "trade"]
  BY DEF P!Plan
<1>2. UNCHANGED <<x9, x11, x13, x14, x15, x16>>
  BY DEF P!Plan
<1>3. TradeLogOk'
  BY <1>2, UnderwayStays DEF TradeLogOk, P!FillsRecorded
<1>4. RunsOk'
  BY <1>1, <1>2 DEF RunsOk, Places
<1>5. P!Trading' \subseteq P!Trading \cup {r}
  BY <1>1, TradingDefined DEF RunsOk
<1>6. l = "EMERGENCY" => P!Trading' \subseteq P!Trading
  <2>1. l = "EMERGENCY" => S = {}
    BY <1>1 DEF P!Allowed
  <2> QED
    BY <1>1, <2>1, TradingDefined DEF RunsOk
<1> QED
  BY <1>2, <1>3, <1>4, <1>5, <1>6

\* STEP 2: the run is told of the drawdown, and acts on it at once or, when the level
\* changes, after the message.
LEMMA SwitchSound ==
  ASSUME Values \subseteq Int, CooldownDays \in Nat, IsFiniteSet(Symbols),
         SwitchOk, RunsOk, TradeLogOk, P!NoFreshOrders, NEW r \in Runs, P!Switch(r)
  PROVE  SwitchOk' /\ RunsOk' /\ TradeLogOk' /\ P!NoFreshOrders'
<1> DEFINE level == x3  step == x6  overtaken == x15
<1>1. PICK v \in Values : P!Update(v)
  BY DEF P!Switch
<1>2. UNCHANGED x5 /\ step[r] # "trade"
  BY DEF P!Switch
<1>3. /\ SwitchOk'
      /\ P!CoolingDown => level' = level /\ level = "EMERGENCY"
      /\ P!CoolingDown' /\ ~ P!CoolingDown => level' # level /\ level' = "EMERGENCY"
  BY <1>1, <1>2, SwitchSevere DEF SwitchOk
<1>4. CASE level' = level /\ level = "EMERGENCY"
  <2>1. P!Liquidate(r)
    BY <1>4 DEF P!Switch, P!After
  <2>2. RunsOk' /\ TradeLogOk' /\ P!Trading' = P!Trading \ {r} /\ overtaken' = overtaken \ {r}
    BY <1>2, <2>1, LiquidateSound
  <2> QED
    BY <1>3, <1>4, <2>2 DEF P!NoFreshOrders
<1>5. CASE level' = level /\ level # "EMERGENCY"
  <2>1. P!Plan(r, level)
    BY <1>5 DEF P!Switch, P!After
  <2> QED
    BY <1>2, <1>3, <1>5, <2>1, PlanSound DEF P!NoFreshOrders
<1>6. CASE level' # level
  <2>1. /\ step' = [step EXCEPT ![r] = "decide"]
        /\ overtaken' = IF level' = "EMERGENCY" THEN overtaken \cup P!Trading ELSE overtaken
        /\ UNCHANGED <<x9, x11, x13, x14, x16>>
    BY <1>6 DEF P!Switch
  <2>2. RunsOk'
    BY <1>2, <2>1 DEF RunsOk, Places
  <2>3. TradeLogOk'
    BY <2>1, UnderwayStays DEF TradeLogOk, P!FillsRecorded
  <2>4. P!Trading' \subseteq P!Trading
    BY <2>1, TradingDefined DEF RunsOk
  <2> QED
    BY <1>3, <1>6, <2>1, <2>2, <2>3, <2>4 DEF P!NoFreshOrders
<1> QED
  BY <1>4, <1>5, <1>6

\* After the message: on what update() answered, and on the level as it is by now.
LEMMA DecideSound ==
  ASSUME IsFiniteSet(Symbols),
         SwitchOk, RunsOk, TradeLogOk, P!NoFreshOrders, NEW r \in Runs, P!Decide(r)
  PROVE  SwitchOk' /\ RunsOk' /\ TradeLogOk' /\ P!NoFreshOrders'
<1>1. UNCHANGED <<x1, x2, x3, x4, x5>> /\ x6[r] # "trade"
  BY DEF P!Decide, P!switchVars
<1>2. SwitchOk' /\ P!CoolingDown' = P!CoolingDown
  BY <1>1, SwitchStays
<1>3. P!CoolingDown => x3 = "EMERGENCY"
  BY DEF SwitchOk, P!Severe, P!CoolingDown
<1>4. CASE P!Liquidate(r)
  BY <1>1, <1>2, <1>4, LiquidateSound DEF P!NoFreshOrders
<1>5. CASE P!Plan(r, x3)
  BY <1>1, <1>2, <1>3, <1>5, PlanSound DEF P!NoFreshOrders
<1> QED
  BY <1>4, <1>5 DEF P!Decide, P!After

\* STEP 8: orders, slices and the record of an order.
LEMMA OrderSound ==
  ASSUME RunsOk, TradeLogOk, NEW r \in Runs, P!NextOrder(r) \/ P!Slice(r) \/ P!Record(r)
  PROVE  RunsOk' /\ TradeLogOk' /\ P!Trading' = P!Trading
<1> DEFINE step == x6  order == x9  left == x10  got == x11  filled == x13  recorded == x14  faults == x16
<1>0. /\ got[r] \in Nat /\ filled \in Int /\ recorded \in Int /\ faults \in Nat
      /\ recorded + P!Underway <= filled /\ (faults = 0 => recorded + P!Underway = filled)
  BY DEF RunsOk, TradeLogOk, P!FillsRecorded
<1>1. UNCHANGED step
  BY DEF P!NextOrder, P!Slice, P!Record
<1>2. P!Trading' = P!Trading
  BY <1>1, TradingDefined
<1>3. CASE P!NextOrder(r)
  <2>1. /\ step[r] = "trade" /\ \E g : order' = [order EXCEPT ![r] = g]
        /\ got' = [got EXCEPT ![r] = 0] /\ order[r] = NoOrder /\ UNCHANGED <<filled, recorded, faults>>
    BY <1>3 DEF P!NextOrder
  <2>2. P!Underway \in Nat /\ P!Underway' = P!Underway - got[r] + 0 /\ got[r] = 0
    BY <2>1, UnderwayMoved DEF RunsOk
  <2>3. RunsOk'
    BY <1>1, <2>1 DEF RunsOk
  <2> QED
    BY <1>0, <1>2, <2>1, <2>2, <2>3 DEF TradeLogOk, P!FillsRecorded
<1>4. CASE P!Slice(r)
  <2>1. order[r] # NoOrder /\ UNCHANGED <<order, recorded>>
    BY <1>4 DEF P!Slice
  <2>2. CASE filled' = filled + 1 /\ got' = [got EXCEPT ![r] = got[r] + 1] /\ UNCHANGED faults
    <3>1. P!Underway \in Nat /\ P!Underway' = P!Underway - got[r] + (got[r] + 1) /\ got' \in [Runs -> Nat]
      <4>1. got[r] + 1 \in Nat
        BY <1>0
      <4> QED
        BY <2>2, <4>1, UnderwayMoved DEF RunsOk
    <3>2. RunsOk'
      BY <1>1, <2>1, <2>2, <3>1 DEF RunsOk
    <3> QED
      BY <1>0, <1>2, <2>1, <2>2, <3>1, <3>2 DEF TradeLogOk, P!FillsRecorded
  <2>3. CASE faults' = faults + 1 /\ UNCHANGED <<filled, got>>
    <3>1. RunsOk'
      BY <1>1, <2>1, <2>3 DEF RunsOk
    <3> QED
      BY <1>0, <1>2, <2>1, <2>3, <3>1, UnderwayStays DEF TradeLogOk, P!FillsRecorded
  <2> QED
    BY <1>4, <2>2, <2>3 DEF P!Slice, P!Failing
<1>5. CASE P!Record(r)
  <2>1. /\ order[r] # NoOrder /\ order' = [order EXCEPT ![r] = NoOrder] /\ got' = [got EXCEPT ![r] = 0]
        /\ recorded' = recorded + got[r] /\ UNCHANGED <<filled, faults>>
    BY <1>5 DEF P!Record, P!Put
  <2>2. P!Underway \in Nat /\ P!Underway' = P!Underway - got[r] + 0
    BY <2>1, UnderwayMoved DEF RunsOk
  <2>3. RunsOk'
    BY <1>1, <2>1 DEF RunsOk
  <2> QED
    BY <1>0, <1>2, <2>1, <2>2, <2>3 DEF TradeLogOk, P!FillsRecorded
<1> QED
  BY <1>3, <1>4, <1>5

LEMMA PipelineStepSound ==
  ASSUME Values \subseteq Int, CooldownDays \in Nat, IsFiniteSet(Symbols),
         P!PipelineSound, [P!Next]_(P!vars)
  PROVE  P!PipelineSound'
<1>0. SwitchOk /\ RunsOk /\ TradeLogOk /\ P!NoFreshOrders
  BY SoundParts
<1> SUFFICES SwitchOk' /\ RunsOk' /\ TradeLogOk' /\ P!NoFreshOrders'
  BY SoundParts
<1>1. CASE P!NextDay
  <2>1. UNCHANGED <<x1, x2, x3, x4, x6, x9, x11, x13, x14, x15, x16>> /\ x5' = x5 + 1
    BY <1>1 DEF P!NextDay, P!switchVars, P!runVars
  <2>2. SwitchOk' /\ (P!CoolingDown' => P!CoolingDown)
    BY <1>0, <2>1 DEF SwitchOk, P!Severe, P!Down, P!Depth, P!CoolingDown
  <2>3. RunsOk'
    BY <1>0, <2>1 DEF RunsOk
  <2>4. TradeLogOk'
    BY <1>0, <2>1, UnderwayStays DEF TradeLogOk, P!FillsRecorded
  <2>5. P!Trading' = P!Trading
    BY <2>1, TradingDefined
  <2> QED
    BY <1>0, <2>1, <2>2, <2>3, <2>4, <2>5 DEF P!NoFreshOrders
<1>2. CASE P!Restart
  <2>1. PICK v \in Values : P!Renew(v)
    BY <1>2 DEF P!Restart
  <2>2. SwitchOk' /\ ~ P!CoolingDown'
    <3>1. x1' = v /\ x2' = v /\ x3' = "NORMAL" /\ x4' = 0 /\ x5' = x5 /\ v \in Int
      BY <1>2, <2>1 DEF P!Renew, P!Restart
    <3>2. ~ P!Down(x2', x1', 10) /\ ~ P!Down(x2', x1', 15) /\ ~ P!Down(x2', x1', 20)
      BY <3>1, Drawdowns
    <3> QED
      BY <1>0, <3>1, <3>2 DEF SwitchOk, P!Severe, P!CoolingDown, P!Depth
  <2>3. /\ x6' = [r \in Runs |-> "idle"] /\ x9' = [r \in Runs |-> NoOrder]
        /\ x11' = [r \in Runs |-> 0] /\ x16' = x16 + 1 /\ UNCHANGED <<x13, x14>>
    BY <1>2 DEF P!Restart, P!Failing, Runs
  <2>4. RunsOk'
    BY <2>3 DEF RunsOk, Places
  <2>5. P!Underway \in Nat /\ P!Underway' = 0
    <3>1. P!Underway \in Nat
      BY <1>0, RunsNat DEF P!Underway, RunsOk
    <3>2. P!Underway' = P!Sum(x11')
      BY DEF P!Underway, P!Sum, P!Pile
    <3>3. P!Sum([r \in Runs |-> 0]) = 0
      BY RunsNone
    <3> QED
      BY <2>3, <3>1, <3>2, <3>3
  <2>6. TradeLogOk'
    BY <1>0, <2>3, <2>5 DEF TradeLogOk, P!FillsRecorded
  <2> QED
    BY <2>2, <2>4, <2>6 DEF P!NoFreshOrders
<1>3. ASSUME NEW r \in Runs, P!Begin(r)
      PROVE  SwitchOk' /\ RunsOk' /\ TradeLogOk' /\ P!NoFreshOrders'
  <2>1. /\ x6[r] = "idle" /\ x6' = [x6 EXCEPT ![r] = "switch"]
        /\ UNCHANGED <<x1, x2, x3, x4, x5, x9, x11, x13, x14, x15, x16>>
    BY <1>3 DEF P!Begin, P!switchVars
  <2>2. RunsOk'
    BY <1>0, <2>1 DEF RunsOk, Places
  <2>3. P!Trading' = P!Trading
    BY <1>0, <2>1, TradingDefined DEF RunsOk
  <2>4. TradeLogOk'
    BY <1>0, <2>1, UnderwayStays DEF TradeLogOk, P!FillsRecorded
  <2> QED
    BY <1>0, <2>1, <2>2, <2>3, <2>4, SwitchStays DEF P!NoFreshOrders
<1>4. ASSUME NEW r \in Runs, P!Step(r)
      PROVE  SwitchOk' /\ RunsOk' /\ TradeLogOk' /\ P!NoFreshOrders'
  <2>1. CASE P!Switch(r)
    BY <1>0, <2>1, SwitchSound
  <2>2. CASE P!Decide(r)
    BY <1>0, <2>2, DecideSound
  <2>3. CASE P!NextOrder(r) \/ P!Slice(r) \/ P!Record(r)
    <3>1. UNCHANGED <<x1, x2, x3, x4, x5, x15>>
      BY <2>3 DEF P!NextOrder, P!Slice, P!Record, P!switchVars
    <3> QED
      BY <1>0, <2>3, <3>1, OrderSound, SwitchStays DEF P!NoFreshOrders
  <2>4. CASE P!Finish(r)
    <3>1. P!End(r) /\ x9[r] = NoOrder /\ UNCHANGED <<x1, x2, x3, x4, x5, x13, x14, x16>>
      BY <2>4 DEF P!Finish, P!switchVars
    <3>2. x11[r] = 0
      BY <1>0, <3>1 DEF RunsOk
    <3>3. TradeLogOk'
      BY <1>0, <3>1, <3>2, EndSound DEF TradeLogOk, P!FillsRecorded
    <3> QED
      BY <1>0, <3>1, <3>3, EndSound, SwitchStays DEF P!NoFreshOrders
  <2> QED
    BY <1>4, <2>1, <2>2, <2>3, <2>4 DEF P!Step
<1>5. ASSUME NEW r \in Runs, P!Fail(r)
      PROVE  SwitchOk' /\ RunsOk' /\ TradeLogOk' /\ P!NoFreshOrders'
  <2>1. P!End(r) /\ x16' = x16 + 1 /\ UNCHANGED <<x1, x2, x3, x4, x5, x13, x14>>
    BY <1>5 DEF P!Fail, P!Failing, P!switchVars
  <2>2. TradeLogOk'
    BY <1>0, <2>1, EndSound DEF TradeLogOk, P!FillsRecorded
  <2> QED
    BY <1>0, <2>1, <2>2, EndSound, SwitchStays DEF P!NoFreshOrders
<1>6. CASE UNCHANGED P!vars
  <2>1. UNCHANGED <<x1, x2, x3, x4, x5, x6, x9, x11, x13, x14, x15, x16>>
    BY <1>6 DEF P!vars, P!switchVars, P!runVars
  <2>2. RunsOk' /\ P!Trading' = P!Trading
    BY <1>0, <2>1, TradingDefined DEF RunsOk
  <2>3. TradeLogOk'
    BY <1>0, <2>1, UnderwayStays DEF TradeLogOk, P!FillsRecorded
  <2> QED
    BY <1>0, <2>1, <2>2, <2>3, SwitchStays DEF P!NoFreshOrders
<1> QED
  BY <1>1, <1>2, <1>3, <1>4, <1>5, <1>6 DEF P!Next, Runs

(***************************************************************************)
(* The Telegram bot.                                                       *)
(***************************************************************************)

\* The head of an answer is taken: the offset moves past it, and nothing before it is
\* left that no task took.
LEMMA HeadTaken ==
  ASSUME T!BotSound, x6 # <<>>, x6' = Tail(x6), x5' = Head(x6) + 1, x8' = x8 \cup {Head(x6)}, x1' = x1
  PROVE  /\ Head(x6) \in 1..x1 /\ x5 <= Head(x6)
         /\ T!BatchSound' /\ x5' \in 0..x1' + 1
         /\ \A u \in 1..x5' - 1 : u \in x8'
<1> DEFINE sent == x1  offset == x5  batch == x6  taken == x8  h == Head(batch)
<1>1. batch \in Seq(1..sent) /\ sent \in Nat /\ offset \in 0..sent + 1
  BY DEF T!BotSound, T!BatchSound
<1>2. /\ Len(batch) \in Nat \ {0} /\ h = batch[1] /\ h \in 1..sent /\ 1 \in DOMAIN batch
      /\ batch' \in Seq(1..sent) /\ DOMAIN batch' = 1..Len(batch) - 1
      /\ \A i \in DOMAIN batch' : batch'[i] = batch[i + 1] /\ i + 1 \in DOMAIN batch /\ i \in Nat \ {0}
  BY <1>1
<1>3. \A i \in DOMAIN batch :
        /\ batch[i] \in 1..sent /\ offset <= batch[i] /\ \A j \in 1..i - 1 : batch[j] < batch[i]
        /\ \A u \in 1..batch[i] - 1 : u \in taken \/ \E j \in 1..i - 1 : u = batch[j]
  BY <1>1 DEF T!BotSound, T!BatchSound
<1>4. \A u \in 1..h - 1 : u \in taken
  BY <1>2, <1>3
<1>5. \A u \in 1..offset' - 1 : u \in taken'
  BY <1>2, <1>4
<1>6. ASSUME NEW i \in DOMAIN batch'
      PROVE  /\ offset' <= batch'[i] /\ \A j \in 1..i - 1 : batch'[j] < batch'[i]
             /\ \A u \in 1..batch'[i] - 1 : u \in taken' \/ \E j \in 1..i - 1 : u = batch'[j]
  <2>1. i \in Nat \ {0} /\ i + 1 \in DOMAIN batch /\ batch'[i] = batch[i + 1] /\ batch[i + 1] \in 1..sent
    BY <1>2, <1>3
  <2>2. \A j \in 1..i - 1 : j \in DOMAIN batch' /\ j + 1 \in 1..(i + 1) - 1 /\ batch'[j] = batch[j + 1]
    BY <1>2, <2>1
  <2>3. offset' <= batch'[i]
    <3>1. 1 \in 1..(i + 1) - 1
      BY <2>1
    <3>2. batch[1] < batch[i + 1]
      BY <1>3, <2>1, <3>1
    <3> QED
      BY <1>2, <2>1, <3>2
  <2>4. \A j \in 1..i - 1 : batch'[j] < batch'[i]
    BY <1>3, <2>1, <2>2
  <2>5. ASSUME NEW u \in 1..batch'[i] - 1, u \notin taken'
        PROVE  \E j \in 1..i - 1 : u = batch'[j]
    <3>1. PICK j \in 1..(i + 1) - 1 : u = batch[j]
      BY <1>3, <2>1, <2>5
    <3>2. j # 1
      BY <1>2, <2>5, <3>1
    <3>3. j - 1 \in 1..i - 1 /\ (j - 1) + 1 = j
      BY <2>1, <3>2
    <3> QED
      BY <2>2, <3>1, <3>3
  <2> QED
    BY <2>3, <2>4, <2>5
<1> HIDE DEF h
<1>7. T!BatchSound'
  BY <1>2, <1>6 DEF T!BatchSound
<1> QED
  BY <1>1, <1>2, <1>3, <1>5, <1>7 DEF h

\* An answer of Telegram: all it keeps from the offset on, oldest first, up to some update.
LEMMA AnswerSound ==
  ASSUME MaxBatch \in Nat, T!BotSound, T!GetUpdates
  PROVE  T!BatchSound' /\ T!DroppedTaken'
<1> DEFINE sent == x1  kept == x2  offset == x5  batch == x6  taken == x8  later == {u \in kept : u >= offset}
<1>1. /\ sent \in Nat /\ kept \subseteq 1..sent /\ offset \in 0..sent + 1
      /\ \A u \in 1..offset - 1 : u \in taken
      /\ \A u \in 1..sent : u \in kept \/ u \in taken
  BY DEF T!BotSound, T!DroppedTaken
<1>2. kept' = later /\ UNCHANGED <<sent, offset, taken>>
  BY DEF T!GetUpdates, T!Later
<1>3. PICK n \in 1..MaxBatch :
        /\ batch' \in [1..n -> later]
        /\ \A i \in 1..n : {u \in later : u < batch'[i]} = {batch'[j] : j \in 1..i - 1}
  BY DEF T!GetUpdates, T!Answers, T!Later
<1>4. T!DroppedTaken'
  BY <1>1, <1>2 DEF T!DroppedTaken
<1>0. n \in Nat /\ \A u \in later : u \in 1..sent /\ offset <= u
  BY <1>1
<1>5. \A i \in 1..n : batch'[i] \in later /\ batch'[i] \in 1..sent /\ offset <= batch'[i]
  <2> HIDE DEF later
  <2> QED
    BY <1>0, <1>3
<1>6. batch' \in Seq(1..sent) /\ DOMAIN batch' = 1..n
  <2> HIDE DEF later
  <2>1. batch' \in [1..n -> 1..sent]
    BY <1>3, <1>5
  <2>2. \A S, f : \A m \in Nat : f \in [1..m -> S] => f \in Seq(S) /\ DOMAIN f = 1..m
    OBVIOUS
  <2> QED
    BY <1>0, <2>1, <2>2
<1>7. ASSUME NEW i \in 1..n
      PROVE  /\ \A j \in 1..i - 1 : batch'[j] < batch'[i]
             /\ \A u \in 1..batch'[i] - 1 : u \in taken \/ \E j \in 1..i - 1 : u = batch'[j]
  <2>1. {u \in later : u < batch'[i]} = {batch'[j] : j \in 1..i - 1} /\ batch'[i] \in 1..sent
    BY <1>3, <1>5
  <2>2. ASSUME NEW u \in 1..batch'[i] - 1, u \notin taken
        PROVE  u \in later /\ u < batch'[i]
    BY <1>1, <2>1, <2>2
  <2> HIDE DEF later
  <2> QED
    BY <2>1, <2>2
<1> HIDE DEF later
<1> QED
  BY <1>2, <1>4, <1>5, <1>6, <1>7 DEF T!BatchSound

\* How often an update may have been stored by now.
StoredSound(u) == x7[u] <= x10 + IF x4 # "off" /\ u < x5 THEN 1 ELSE 0

LEMMA BotParts ==
  ASSUME T!BotSound
  PROVE  /\ x1 \in Nat /\ x1 <= Messages /\ x2 \subseteq 1..x1 /\ x5 \in 0..x1 + 1 /\ x10 \in Nat
         /\ x7 \in [1..Messages -> Nat] /\ T!BatchSound /\ (x4 = "off" => x6 = <<>>)
         /\ (\A u \in 1..x5 - 1 : u \in x8) /\ (\A u \in 1..Messages : StoredSound(u)) /\ T!DroppedTaken
  BY DEF T!BotSound, T!Updates, StoredSound

\* A step that leaves the answer, the offset and what was taken as they are.
LEMMA AnswerStays ==
  ASSUME T!BotSound, UNCHANGED <<x5, x6, x8>>, x1 \in Nat, x1' \in Nat, x1 <= x1'
  PROVE  T!BatchSound' /\ x5' \in 0..x1' + 1 /\ \A u \in 1..x5' - 1 : u \in x8'
<1>1. x6 \in Seq(1..x1) /\ 1..x1 \subseteq 1..x1'
  BY BotParts DEF T!BatchSound
<1>2. x6 \in Seq(1..x1')
  <2>1. \A S, R, b : b \in Seq(S) /\ S \subseteq R => b \in Seq(R)
    OBVIOUS
  <2> QED
    BY <1>1, <2>1
<1>3. T!BatchSound'
  BY <1>2, BotParts DEF T!BatchSound
<1> QED
  BY <1>3, BotParts

LEMMA BotStepSound ==
  ASSUME Messages \in Nat, MaxBatch \in Nat, T!BotSound, [T!Next]_(T!vars)
  PROVE  T!BotSound'
<1> DEFINE sent == x1  kept == x2  pc == x4  offset == x5  batch == x6  queue == x7  taken == x8  stops == x10
           BatchOk == T!BatchSound /\ offset \in 0..sent + 1 /\ \A u \in 1..offset - 1 : u \in taken
           WorldOk == /\ sent \in Nat /\ sent <= Messages /\ kept \subseteq 1..sent /\ stops \in Nat
                      /\ T!DroppedTaken
           QueueOk == queue \in [1..Messages -> Nat] /\ \A u \in 1..Messages : StoredSound(u)
           OffOk == pc = "off" => batch = <<>>
<1>0. BatchOk /\ WorldOk /\ QueueOk /\ OffOk
  BY BotParts
<1> SUFFICES BatchOk' /\ WorldOk' /\ QueueOk' /\ OffOk'
  BY DEF T!BotSound, T!Updates, StoredSound
<1>1. ASSUME UNCHANGED <<sent, kept, stops, taken>> PROVE WorldOk'
  BY <1>0, <1>1 DEF T!DroppedTaken
<1>2. CASE T!Send
  <2>1. /\ sent + 1 \in 1..Messages /\ sent' = sent + 1 /\ kept' = kept \cup {sent + 1}
        /\ UNCHANGED <<x3, pc, offset, batch, stops, queue, taken>>
    BY <1>2 DEF T!Send, T!bot, T!Updates
  <2>2. WorldOk'
    <3>1. kept' \subseteq 1..sent' /\ \A u \in 1..sent' : u \in kept' \/ u \in taken'
      BY <1>0, <2>1 DEF T!DroppedTaken
    <3> QED
      BY <1>0, <2>1, <3>1 DEF T!DroppedTaken
  <2>3. BatchOk'
    BY <1>0, <2>1, AnswerStays
  <2> QED
    BY <1>0, <2>1, <2>2, <2>3 DEF StoredSound
<1>3. CASE T!Start
  <2>1. /\ pc = "off" /\ pc' = "poll" /\ offset' = 0 /\ batch' = <<>>
        /\ UNCHANGED <<sent, kept, stops, queue, taken>>
    BY <1>3 DEF T!Start, T!FirstOffset, T!world
  <2>2. BatchOk'
    BY <1>0, <2>1 DEF T!BatchSound
  <2>3. QueueOk'
    BY <1>0, <2>1 DEF StoredSound
  <2> QED
    BY <1>1, <2>1, <2>2, <2>3
<1>4. CASE T!GetUpdates
  <2>1. /\ pc = "poll" /\ pc' = "handle" /\ kept' \subseteq kept
        /\ UNCHANGED <<sent, offset, stops, queue, taken>>
    BY <1>4 DEF T!GetUpdates, T!Later
  <2>2. T!BatchSound' /\ T!DroppedTaken'
    BY <1>4, AnswerSound
  <2>3. QueueOk'
    BY <1>0, <2>1 DEF StoredSound
  <2> QED
    BY <1>0, <2>1, <2>2, <2>3
<1>5. CASE T!PollFails \/ T!Backoff \/ T!Reply \/ T!EndBatch \/ UNCHANGED T!vars
  <2>1. /\ UNCHANGED <<sent, kept, offset, batch, stops, queue, taken>>
        /\ pc' = pc \/ (pc # "off" /\ pc' # "off")
    BY <1>5 DEF T!PollFails, T!Backoff, T!Reply, T!EndBatch, T!vars, T!bot, T!world
  <2>2. BatchOk'
    BY <1>0, <2>1, AnswerStays
  <2>3. QueueOk'
    BY <1>0, <2>1 DEF StoredSound
  <2> QED
    BY <1>0, <1>1, <2>1, <2>2, <2>3
<1>6. CASE T!Handle \/ T!HandleFails
  <2>1. /\ pc = "handle" /\ pc' # "off" /\ batch # <<>> /\ batch' = Tail(batch) /\ offset' = Head(batch) + 1
        /\ taken' = taken \cup {Head(batch)} /\ UNCHANGED <<sent, kept, stops>>
    BY <1>6 DEF T!Handle, T!HandleFails, T!NextOffset, T!world
  <2>2. queue' = queue \/ queue' = [queue EXCEPT ![Head(batch)] = queue[Head(batch)] + 1]
    BY <1>6 DEF T!Handle, T!HandleFails
  <2>3. Head(batch) \in 1..sent /\ offset <= Head(batch) /\ BatchOk'
    BY <2>1, HeadTaken
  <2>4. WorldOk'
    BY <1>0, <2>1 DEF T!DroppedTaken
  <2>5. QueueOk'
    <3> DEFINE h == Head(batch)
    <3>1. h \in 1..Messages /\ h \in Nat /\ offset \in Nat /\ offset <= h /\ offset' = h + 1
      BY <1>0, <2>1, <2>3
    <3> HIDE DEF h
    <3>2. CASE queue' = queue
      BY <1>0, <2>1, <3>1, <3>2 DEF StoredSound
    <3>3. CASE queue' = [queue EXCEPT ![h] = queue[h] + 1]
      <4>1. queue' \in [1..Messages -> Nat]
        BY <1>0, <3>1, <3>3
      <4>2. ASSUME NEW u \in 1..Messages PROVE StoredSound(u)'
        <5>1. CASE u = h
          BY <1>0, <2>1, <3>1, <3>3, <5>1 DEF StoredSound
        <5>2. CASE u # h
          BY <1>0, <2>1, <3>1, <3>3, <5>2 DEF StoredSound
        <5> QED
          BY <5>1, <5>2
      <4> QED
        BY <4>1, <4>2
    <3> QED
      BY <2>2, <3>2, <3>3 DEF h
  <2> QED
    BY <2>1, <2>3, <2>4, <2>5
<1>7. CASE T!Cancel \/ T!Crash
  <2>1. /\ stops' = stops + 1 /\ pc' = "off" /\ batch' = <<>>
        /\ UNCHANGED <<sent, kept, offset, queue, taken>>
    BY <1>7 DEF T!Cancel, T!Crash
  <2>2. BatchOk'
    BY <1>0, <2>1 DEF T!BatchSound
  <2>3. QueueOk'
    BY <1>0, <2>1 DEF StoredSound
  <2>4. WorldOk'
    BY <1>0, <2>1 DEF T!DroppedTaken
  <2> QED
    BY <2>1, <2>2, <2>3, <2>4
<1> QED
  BY <1>2, <1>3, <1>4, <1>5, <1>6, <1>7 DEF T!Next, T!Task

(***************************************************************************)
(* The theorem of the two services.                                        *)
(***************************************************************************)

\* The kill switch is as severe as the drawdown asks for, an emergency stops whatever is
\* decided after it and the trade log accounts for the fills (execute_daily); Telegram
\* drops only what some task has begun to handle, and a message is stored at most once
\* more than the bot was stopped (_poll_loop).  For any values of the portfolio, any
\* cooldown and any signals; for any number of messages and any size of an answer.
THEOREM ServicesStaySafe ==
  ASSUME Values \subseteq Int, CooldownDays \in Nat, IsFiniteSet(Symbols),
         Messages \in Nat, MaxBatch \in Nat
  PROVE  ServicesSpec => []ServicesSafe
<1> DEFINE Sound == (part = "pipeline" => P!PipelineSound) /\ (part = "bot" => T!BotSound)
<1>1. ServicesInit => Sound
  <2>1. ASSUME P!Init PROVE P!PipelineSound
    <3>1. PICK v \in Values : P!New(v)
      BY <2>1 DEF P!Init
    <3>2. /\ x6 = [r \in Runs |-> "idle"] /\ x9 = [r \in Runs |-> NoOrder] /\ x11 = [r \in Runs |-> 0]
          /\ x5 = 1 /\ x13 = 0 /\ x14 = 0 /\ x16 = 0
      BY <2>1 DEF P!Init, Runs
    <3>3. SwitchOk /\ ~ P!CoolingDown
      <4>1. x1 = v /\ x2 = v /\ x3 = "NORMAL" /\ x4 = 0 /\ v \in Int
        BY <3>1 DEF P!New
      <4>2. ~ P!Down(x2, x1, 10) /\ ~ P!Down(x2, x1, 15) /\ ~ P!Down(x2, x1, 20)
        BY <4>1, Drawdowns
      <4> QED
        BY <3>2, <4>1, <4>2 DEF SwitchOk, P!Severe, P!CoolingDown, P!Depth
    <3>4. RunsOk
      BY <3>2 DEF RunsOk, Places
    <3>5. P!Underway = 0
      BY <3>2, RunsNone DEF P!Underway
    <3>6. TradeLogOk
      BY <3>2, <3>5 DEF TradeLogOk, P!FillsRecorded
    <3> QED
      BY <3>3, <3>4, <3>6, SoundParts DEF P!NoFreshOrders
  <2>2. ASSUME T!Init PROVE T!BotSound
    BY <2>2 DEF T!Init, T!BotSound, T!BatchSound, T!DroppedTaken, T!Updates
  <2> QED
    BY <2>1, <2>2 DEF ServicesInit
<1>2. Sound /\ [ServicesNext]_all => Sound'
  <2> SUFFICES ASSUME Sound, [ServicesNext]_all PROVE Sound'
    OBVIOUS
  <2>1. part' = part
    BY DEF ServicesNext, PipelineStep, BotStep, Alone, all
  <2>2. part = "pipeline" => [P!Next]_(P!vars)
    BY DEF ServicesNext, PipelineStep, BotStep, Alone, all, P!vars, P!switchVars, P!runVars
  <2>3. part = "bot" => [T!Next]_(T!vars)
    BY DEF ServicesNext, PipelineStep, BotStep, Alone, all, T!vars, T!bot, T!world
  <2> QED
    BY <2>1, <2>2, <2>3, PipelineStepSound, BotStepSound
<1>3. Sound => ServicesSafe
  <2>1. P!PipelineSound => P!PipelineSafe
    BY DEF P!PipelineSound
  <2>2. T!BotSound => T!DroppedTaken /\ T!StoredOncePerTask
    BY BotParts DEF T!StoredOncePerTask, StoredSound, T!Updates
  <2> QED
    BY <2>1, <2>2 DEF ServicesSafe
<1> QED
  BY <1>1, <1>2, <1>3, PTL DEF ServicesSpec
=============================================================================
