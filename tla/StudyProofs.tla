------------------------------- MODULE StudyProofs -------------------------------
(***************************************************************************)
(* What MCParts checks of the broker client, the simulations, the scores   *)
(* and the collectors on small instances, for any instance.                *)
(***************************************************************************)
EXTENDS MCParts, Sequences, Piles

(***************************************************************************)
(* A behaviour is one of one part.                                         *)
(***************************************************************************)
LEMMA OnePart ==
  ASSUME [PartsNext]_all
  PROVE  /\ part' = part
         /\ part = "broker" => [K!Next]_(K!vars)
         /\ part = "watchlist backtest" => [W!Next]_(W!vars)
         /\ part = "backtest" => [B!Next]_(B!vars)
         /\ part = "replay" => [R!Next]_(R!vars)
<1> USE DEF PartsNext, all, fields, Alone, LedgerStep, AllocationStep, TunerStep, ScoreStep, WatchlistStep,
        SimulationStep, GateStep, BacktestStep, LayersStep, ScanStep, BrokerStep, EventsStep, ResearchStep,
        EarningsStep, CrowdingStep, HindsightStep, UniverseStep, FundamentalStep, ReplayStep, MacroStep,
        SentimentStep, ExtendedHoursStep, TimetableStep, AccountsStep, SocialStep,
        SelfCheckStep, WatchlistLogStep
<1>1. part' = part
  OBVIOUS
<1>2. part = "broker" => [K!Next]_(K!vars)
  BY DEF K!vars, K!settings, K!counters
<1>3. part = "watchlist backtest" => [W!Next]_(W!vars)
  BY DEF W!vars
<1>4. part = "backtest" => [B!Next]_(B!vars)
  BY DEF B!vars
<1>5. part = "replay" => [R!Next]_(R!vars)
  BY DEF R!vars
<1> HIDE DEF PartsNext, all, fields, Alone, LedgerStep, AllocationStep, TunerStep, ScoreStep, WatchlistStep,
        SimulationStep, GateStep, BacktestStep, LayersStep, ScanStep, BrokerStep, EventsStep, ResearchStep,
        EarningsStep, CrowdingStep, HindsightStep, UniverseStep, FundamentalStep, ReplayStep, MacroStep,
        SentimentStep, ExtendedHoursStep, TimetableStep, AccountsStep, SocialStep,
        SelfCheckStep, WatchlistLogStep
<1> QED
  BY <1>1, <1>2, <1>3, <1>4, <1>5

(***************************************************************************)
(* The broker client.                                                      *)
(***************************************************************************)

LEMMA SlotWritten ==
  /\ K!Fresh \in K!Slots /\ K!Fresh.kis = "none"
  /\ \A c \in K!Slots, k \in K!Accounts : /\ [c EXCEPT !.kis = k] \in K!Slots /\ [c EXCEPT !.kis = k].kis = k
                                      /\ [ready |-> TRUE, kis |-> k] \in K!Slots
  /\ \A c \in K!Slots, b \in BOOLEAN : /\ [c EXCEPT !.ready = b] \in K!Slots
                                     /\ [c EXCEPT !.ready = b].kis = c.kis
BY DEF K!Fresh, K!Slots, K!Accounts

LEMMA AccountSlot ==
  ASSUME NEW f \in [K!Clients -> K!Slots], NEW c \in K!Clients, NEW k \in K!Accounts
  PROVE  /\ [f EXCEPT ![c].kis = k] \in [K!Clients -> K!Slots]
         /\ \A d \in K!Clients : [f EXCEPT ![c].kis = k][d].kis \in {f[d].kis, k}
<1>1. [f[c] EXCEPT !.kis = k] \in K!Slots /\ [f[c] EXCEPT !.kis = k].kis = k
  BY SlotWritten
<1>2. [f EXCEPT ![c].kis = k] = [f EXCEPT ![c] = [f[c] EXCEPT !.kis = k]]
  BY Zenon
<1> QED
  BY <1>1, <1>2

LEMMA ReadySlot ==
  ASSUME NEW f \in [K!Clients -> K!Slots], NEW c \in K!Clients, NEW b \in BOOLEAN
  PROVE  /\ [f EXCEPT ![c].ready = b] \in [K!Clients -> K!Slots]
         /\ \A d \in K!Clients : [f EXCEPT ![c].ready = b][d].kis = f[d].kis
<1>1. [f[c] EXCEPT !.ready = b] \in K!Slots /\ [f[c] EXCEPT !.ready = b].kis = f[c].kis
  BY SlotWritten
<1>2. [f EXCEPT ![c].ready = b] = [f EXCEPT ![c] = [f[c] EXCEPT !.ready = b]]
  BY Zenon
<1> QED
  BY <1>1, <1>2

LEMMA ConsentStep == K!Consent /\ [K!Next]_(K!vars) => K!Consent'
<1> SUFFICES ASSUME K!Consent, [K!Next]_(K!vars) PROVE K!Consent'
  OBVIOUS
<1> USE DEF K!Consent, K!settings, K!counters, K!Asking, K!Accounts
<1>t. EventLoop \in K!Threads /\ EventLoop \in K!Clients /\ SweepThreads \subseteq K!Threads /\ SweepThreads \subseteq K!Clients
      /\ \A t \in K!Threads : K!Uses(t) \in K!Clients
  BY DEF K!Threads, K!Clients, K!Uses
<1>c. \A c \in K!Clients : x5[c] \in K!Slots
  OBVIOUS
<1>1. ASSUME NEW t \in K!Threads, K!Begin(t) PROVE K!Consent'
  <2>1. /\ x6' = [x6 EXCEPT ![t] = "init"] /\ x7' = [x7 EXCEPT ![t] = "order"]
        /\ x6[t] = "idle"
        /\ x5' = x5 \/ x5' = [x5 EXCEPT ![t] = K!Fresh]
        /\ UNCHANGED <<x2, x4, x8, x9, x10>>
    BY <1>1 DEF K!Begin, K!Goto
  <2>2. /\ x5' \in [K!Clients -> K!Slots]
        /\ \A c \in K!Clients : x5'[c] = x5[c] \/ x5'[c] = K!Fresh
    BY <2>1, SlotWritten
  <2> QED
    BY <1>t, <2>1, <2>2 DEF K!Fresh
<1>2. ASSUME NEW s \in SweepThreads, K!NewSweep(s) PROVE K!Consent'
  <2>1. /\ x5' \in [K!Clients -> K!Slots]
        /\ \A c \in K!Clients : x5'[c] \in {x5[c], K!Fresh}
    BY <1>2, <1>t, <1>c, SlotWritten DEF K!NewSweep
  <2> QED
    BY <1>2, <1>t, <2>1, SlotWritten DEF K!NewSweep
\* A connection is made by the flag of that moment.
<1>3. ASSUME NEW t \in K!Threads, K!InitClient(t) PROVE K!Consent'
  <2>1. /\ UNCHANGED <<x2, x4, x7, x9, x10>> /\ DOMAIN x6' = K!Threads
        /\ \A u \in K!Threads : x6'[u] = x6[u] \/ x6'[u] \notin K!Asking
    BY <1>3 DEF K!InitClient, K!After, K!Goto
  <2>2. /\ x5' \in [K!Clients -> K!Slots]
        /\ \A c \in K!Clients : x5'[c].kis = x5[c].kis
    <3>1. UNCHANGED x5 \/ x5' = [x5 EXCEPT ![K!Uses(t)] = [ready |-> TRUE, kis |-> x5[K!Uses(t)].kis]]
      BY <1>3 DEF K!InitClient, K!Ready
    <3>2. x5[K!Uses(t)].kis \in K!Accounts
      BY <1>c, <1>t DEF K!Slots
    <3>3. [ready |-> TRUE, kis |-> x5[K!Uses(t)].kis] \in K!Slots
      BY <1>c, <1>t, <3>2, SlotWritten
    <3> QED
      <4>1. CASE UNCHANGED x5
        BY <4>1
      <4>2. CASE x5' = [x5 EXCEPT ![K!Uses(t)] = [ready |-> TRUE, kis |-> x5[K!Uses(t)].kis]]
        BY <1>t, <3>3, <4>2
      <4> QED
        BY <3>1, <4>1, <4>2
  <2>3. /\ x8' \in [K!Threads -> K!Accounts]
        /\ \A u \in K!Threads : x8'[u] \in {x8[u], K!Account(x4)}
    BY <1>3 DEF K!InitClient, K!Account
  <2> QED
    BY <1>t, <2>1, <2>2, <2>3 DEF K!Account
<1>4. ASSUME NEW t \in K!Threads, K!Connect(t) \/ K!OpenAccount(t) \/ K!ConnectFails(t) PROVE K!Consent'
  <2>1. /\ UNCHANGED <<x2, x4, x7, x8, x9, x10>> /\ DOMAIN x6' = K!Threads
        /\ \A u \in K!Threads : x6'[u] = x6[u] \/ x6'[u] \notin K!Asking
    BY <1>4 DEF K!Connect, K!OpenAccount, K!ConnectFails, K!After, K!Goto
  <2>2. /\ x5' \in [K!Clients -> K!Slots]
        /\ \A c \in K!Clients : x5'[c].kis \in {x5[c].kis, x8[t]}
    <3>1. x8[t] \in K!Accounts /\ K!Uses(t) \in K!Clients
      BY <1>t
    <3>2. \/ x5' = [x5 EXCEPT ![K!Uses(t)].kis = x8[t]]
          \/ x5' = [x5 EXCEPT ![K!Uses(t)].ready = TRUE]
      BY <1>4 DEF K!Connect, K!OpenAccount, K!ConnectFails
    <3>3. LET f == [x5 EXCEPT ![K!Uses(t)].kis = x8[t]]
          IN  f \in [K!Clients -> K!Slots] /\ \A d \in K!Clients : f[d].kis \in {x5[d].kis, x8[t]}
      BY <3>1, AccountSlot, Zenon
    <3>4. LET f == [x5 EXCEPT ![K!Uses(t)].ready = TRUE]
          IN  f \in [K!Clients -> K!Slots] /\ \A d \in K!Clients : f[d].kis = x5[d].kis
      BY <3>1, ReadySlot, Zenon
    <3> QED
      BY <3>2, <3>3, <3>4, Zenon
  <2> QED
    BY <1>t, <2>1, <2>2
<1>5. ASSUME NEW t \in K!Threads, K!Simulate(t) \/ K!Request(t) PROVE K!Consent'
  <2>1. /\ UNCHANGED <<x2, x4, x7, x8, x5, x10>> /\ DOMAIN x6' = K!Threads
        /\ \A u \in K!Threads : x6'[u] = x6[u] \/ x6'[u] = "idle"
        /\ x9'.to \in {"nobody", x5[K!Uses(t)].kis}
    BY <1>5 DEF K!Simulate, K!Request, K!Placed, K!Goto
  <2> QED
    BY <1>t, <2>1
<1>6. ASSUME NEW m \in {"paper", "live"}, NEW ok \in BOOLEAN, K!ChangeMode(m, ok) PROVE K!Consent'
  BY <1>6, <1>t DEF K!ChangeMode, K!MayChange, K!Goto
<1>7. CASE K!Forget
  <2>1. /\ x5' \in [K!Clients -> K!Slots]
        /\ \A c \in K!Clients : x5'[c].kis = x5[c].kis
    <3>1. LET f == [x5 EXCEPT ![EventLoop].ready = FALSE]
          IN  f \in [K!Clients -> K!Slots] /\ \A d \in K!Clients : f[d].kis = x5[d].kis
      BY <1>t, ReadySlot, Zenon
    <3> QED
      BY <1>7, <3>1, Zenon DEF K!Forget
  <2> QED
    BY <1>7, <1>t, <2>1 DEF K!Forget, K!Goto
<1>8. CASE K!SetFlag
  BY <1>8, <1>t DEF K!SetFlag, K!Goto
<1>9. CASE K!SaveConfig \/ UNCHANGED K!vars
  BY <1>9 DEF K!SaveConfig, K!vars
<1>10. CASE K!Restart
  <2>1. x5' \in [K!Clients -> K!Slots] /\ \A c \in K!Clients : x5'[c].kis = "none"
    BY <1>10, SlotWritten DEF K!Restart
  <2> QED
    BY <1>10, <1>t, <2>1 DEF K!Restart, K!Flag
<1> QED
  BY <1>1, <1>2, <1>3, <1>4, <1>5, <1>6, <1>7, <1>8, <1>9, <1>10 DEF K!Next

LEMMA ConsentInit == K!Init => K!Consent
<1> SUFFICES ASSUME K!Init PROVE K!Consent
  OBVIOUS
<1>1. x5 \in [K!Clients -> K!Slots] /\ \A c \in K!Clients : x5[c].kis = "none"
  BY SlotWritten DEF K!Init
<1> QED
  BY <1>1 DEF K!Init, K!Consent, K!Asking, K!Threads, K!Accounts

LEMMA ConsentAsked == K!Consent => K!RealByConsent
BY DEF K!Consent, K!RealByConsent

\* No order reaches the real account without a confirmation (change_trading_mode), with
\* any number of clients connected before, during and after a change of the mode.
THEOREM RealStaysConsented == PartsSpec => []RealByConsent
<1>1. PartsInit => (part = "broker" => K!Consent)
  <2> SUFFICES ASSUME PartsInit, part = "broker" PROVE K!Consent
    OBVIOUS
  <2>1. K!Init
    BY DEF PartsInit
  <2> QED
    BY <2>1, ConsentInit
<1>2. (part = "broker" => K!Consent) /\ [PartsNext]_all => (part = "broker" => K!Consent)'
  BY OnePart, ConsentStep
<1>3. (part = "broker" => K!Consent) => RealByConsent
  BY ConsentAsked DEF RealByConsent
<1> QED
  BY <1>1, <1>2, <1>3, PTL DEF PartsSpec

(***************************************************************************)
(* Lists of candidates.                                                    *)
(***************************************************************************)

LEMMA SeqOver ==
  ASSUME NEW set, NEW wider, NEW q \in Seq(wider), \A i \in DOMAIN q : q[i] \in set
  PROVE  q \in Seq(set)
OBVIOUS

\* Sequences of members of a set, each at most once.
Once(set) == {q \in Seq(set) : \A i, j \in DOMAIN q : q[i] = q[j] => i = j}

LEMMA ListedOnce ==
  ASSUME NEW set, IsFiniteSet(set), NEW q \in [1 .. Cardinality(set) -> set],
         \A i, j \in 1 .. Cardinality(set) : i # j => q[i] # q[j]
  PROVE  q \in Once(set)
<1>1. Cardinality(set) \in Nat
  BY FS_CardinalityType
<1> QED
  BY <1>1 DEF Once

\* The first is taken off, and the others are others.
LEMMA TakenOff ==
  ASSUME NEW set, NEW q \in Once(set), q # <<>>
  PROVE  Head(q) \in set /\ Tail(q) \in Once(set \ {Head(q)})
<1>1. q \in Seq(set) /\ Len(q) \in Nat /\ Len(q) > 0 /\ DOMAIN q = 1 .. Len(q) /\ Head(q) = q[1]
  BY DEF Once
<1>2. /\ Tail(q) \in Seq(set) /\ Len(Tail(q)) = Len(q) - 1 /\ DOMAIN Tail(q) = 1 .. Len(q) - 1
      /\ \A i \in 1 .. Len(q) - 1 : Tail(q)[i] = q[i + 1]
  BY <1>1
<1>3. \A i \in 1 .. Len(q) - 1 : i + 1 \in DOMAIN q /\ 1 \in DOMAIN q /\ i + 1 # 1
  BY <1>1
<1>4. \A i \in 1 .. Len(q) - 1 : Tail(q)[i] \in set \ {Head(q)}
  <2> SUFFICES ASSUME NEW i \in 1 .. Len(q) - 1 PROVE Tail(q)[i] \in set \ {Head(q)}
    OBVIOUS
  <2>1. Tail(q)[i] = q[i + 1] /\ i + 1 \in DOMAIN q /\ 1 \in DOMAIN q /\ i + 1 # 1
    BY <1>2, <1>3
  <2>2. q[i + 1] # q[1]
    BY <2>1 DEF Once
  <2>3. q[i + 1] \in set
    BY <1>1, <2>1
  <2> QED
    BY <1>1, <2>1, <2>2, <2>3
<1>5. Tail(q) \in Seq(set \ {Head(q)})
  <2>1. \A i \in DOMAIN Tail(q) : Tail(q)[i] \in set \ {Head(q)}
    BY <1>2, <1>4
  <2> QED
    BY <1>2, <2>1, SeqOver, Zenon
<1>6. \A i, j \in DOMAIN Tail(q) : Tail(q)[i] = Tail(q)[j] => i = j
  <2> SUFFICES ASSUME NEW i \in DOMAIN Tail(q), NEW j \in DOMAIN Tail(q), Tail(q)[i] = Tail(q)[j] PROVE i = j
    OBVIOUS
  <2>1. i \in Int /\ j \in Int /\ q[i + 1] = q[j + 1] /\ i + 1 \in DOMAIN q /\ j + 1 \in DOMAIN q
    BY <1>1, <1>2, <1>3
  <2>2. i + 1 = j + 1
    BY <2>1 DEF Once
  <2> QED
    BY <2>1, <2>2
<1>7. q[1] \in set
  BY <1>1
<1> QED
  BY <1>1, <1>5, <1>6, <1>7 DEF Once

(***************************************************************************)
(* The watchlist backtest.  x1 is the day, x3 its bars, x4 the cash, x5    *)
(* the positions, x6 the queue of candidates, x7 the pnl of the trades.    *)
(***************************************************************************)
LEMMA SimTallies == (\A f : W!Tally(f) = Tally(f)) /\ \A set : W!Cardinality(set) = Cardinality(set)
BY DEF W!Tally, Tally, W!Cardinality, Cardinality

\* A price is above the slippage it loses.
SimSettings ==
  /\ IsFiniteSet(SimSymbols)
  /\ SimCash \in Nat /\ SimPositionPct \in Nat /\ SimSlip \in Nat
  /\ \A c \in SimCloses : c \in Nat /\ c > SimSlip

SimPositionOk(p) == /\ p.qty \in Nat /\ p.entry \in Nat /\ p.entry >= SimSlip
                    /\ \E h, d : p = [qty |-> p.qty, entry |-> p.entry, since |-> d, high |-> h]
SimCosts(p) == [s \in DOMAIN p |-> W!Cost(p[s])]
Tradable == {s \in SimSymbols \ DOMAIN x5 : W!Has(s)}

\* What the books rest on.
SimBooks ==
  /\ x3 \in [SimSymbols -> {W!NoBar} \cup [close : SimCloses, score : SimScores]]
  /\ x4 \in Nat /\ x7 \in Int
  /\ DOMAIN x5 \subseteq SimSymbols /\ \A s \in DOMAIN x5 : SimPositionOk(x5[s])
  /\ x2 = "buy" => x6 \in Once(Tradable)
  /\ x4 = SimCash + x7 - Tally(SimCosts(x5))

\* A bar that is one has a price.
LEMMA SimBars ==
  ASSUME SimSettings, NEW b \in {W!NoBar} \cup [close : SimCloses, score : SimScores]
  PROVE  /\ b # W!NoBar => b.close \in Nat /\ b.close > SimSlip
         /\ SimSlip \in Nat
BY DEF SimSettings, W!NoBar

\* What positions cost are numbers.
LEMMA SimCostsInt ==
  ASSUME NEW p, \A s \in DOMAIN p : SimPositionOk(p[s])
  PROVE  SimCosts(p) \in [DOMAIN p -> Int]
<1>1. \A a, b \in Nat : a * b \in Int
  OBVIOUS
<1>2. \A s \in DOMAIN p : W!Cost(p[s]) \in Int
  BY <1>1 DEF SimPositionOk, W!Cost
<1> QED
  BY <1>2 DEF SimCosts

\* A position sold at a price above the slippage brings something, and what it cost
\* is what it brings less its pnl.
LEMMA SimSale ==
  ASSUME SimSettings, NEW s \in DOMAIN x5, SimPositionOk(x5[s]), NEW c \in Nat, c >= SimSlip
  PROVE  /\ W!SoldFor(s, c) \in Nat /\ W!Pnl(s, c) \in Int
         /\ W!Cost(x5[s]) = W!SoldFor(s, c) - W!Pnl(s, c)
<1>1. /\ x5[s].qty \in Nat /\ x5[s].entry \in Nat /\ SimSlip \in Nat
  BY DEF SimPositionOk, SimSettings
<1>2. \A a, b \in Nat : a * b \in Nat
  OBVIOUS
<1>3. c - SimSlip \in Nat
  BY <1>1
<1>4. (c - SimSlip) * x5[s].qty \in Nat /\ x5[s].entry * x5[s].qty \in Nat
  BY <1>1, <1>2, <1>3
<1> QED
  BY <1>4 DEF W!SoldFor, W!Pnl, W!Cost

\* When the positions of a set are sold and the others stay as dear as they were, the books
\* balance: the cash grows by what they bring, the pnl by what they earn.
LEMMA SimSettled ==
  ASSUME SimSettings, SimBooks, NEW sold \in SUBSET DOMAIN x5, NEW fetched \in [sold -> Nat], NEW p,
         DOMAIN p = DOMAIN x5 \ sold,
         \A s \in DOMAIN p : SimPositionOk(p[s]) /\ W!Cost(p[s]) = W!Cost(x5[s]),
         \A s \in sold : fetched[s] >= SimSlip
  PROVE  LET cash == x4 + Tally([s \in sold |-> W!SoldFor(s, fetched[s])])
             pnls == x7 + Tally([s \in sold |-> W!Pnl(s, fetched[s])])
         IN  cash \in Nat /\ pnls \in Int /\ cash = SimCash + pnls - Tally(SimCosts(p))
<1> DEFINE gain == [s \in sold |-> W!SoldFor(s, fetched[s])]
           pnl  == [s \in sold |-> W!Pnl(s, fetched[s])]
           f == SimCosts(x5)
           h == SimCosts(p)
           own == DOMAIN x5
           rest == DOMAIN p
<1>1. IsFiniteSet(own) /\ IsFiniteSet(sold) /\ sold \in SUBSET own /\ rest \in SUBSET own
  BY FS_Subset DEF SimSettings, SimBooks
<1>2. f \in [own -> Int] /\ h \in [rest -> Int]
  <2>1. \A s \in DOMAIN x5 : SimPositionOk(x5[s])
    BY DEF SimBooks
  <2> QED
    BY <2>1, SimCostsInt
<1>3. \A s \in sold : /\ W!SoldFor(s, fetched[s]) \in Nat /\ W!Pnl(s, fetched[s]) \in Int
                   /\ W!Cost(x5[s]) = W!SoldFor(s, fetched[s]) - W!Pnl(s, fetched[s])
  BY SimSale DEF SimBooks
<1>4. gain \in [sold -> Nat] /\ gain \in [sold -> Int] /\ pnl \in [sold -> Int]
  BY <1>3
<1>5. Earns(own, sold, rest, f, gain, pnl, h)
  <2> SUFFICES ASSUME NEW s \in own
               PROVE  f[s] = (IF s \in sold THEN gain[s] - pnl[s] ELSE 0) + (IF s \in rest THEN h[s] ELSE 0)
    BY DEF Earns
  <2>1. f[s] = W!Cost(x5[s]) /\ f[s] \in Int
    BY <1>2 DEF SimCosts
  <2>2. CASE s \in sold
    BY <1>3, <2>1, <2>2
  <2>3. CASE s \notin sold
    <3>1. s \in rest /\ h[s] = W!Cost(p[s]) /\ h[s] = f[s]
      BY <2>1, <2>3 DEF SimCosts
    <3> QED
      BY <2>1, <2>3, <3>1
  <2> QED
    BY <2>2, <2>3
<1> HIDE DEF gain, pnl, f, h, own, rest
<1>6. /\ Tally(f) + Tally(pnl) = Tally(gain) + Tally(h)
      /\ Tally(f) \in Int /\ Tally(pnl) \in Int /\ Tally(gain) \in Int /\ Tally(h) \in Int
  BY <1>1, <1>2, <1>4, <1>5, TallyEarned, Zenon
<1>7. Tally(gain) \in Nat
  BY <1>1, <1>4, TallyNat
<1>8. x4 \in Nat /\ x7 \in Int /\ SimCash \in Nat /\ x4 = SimCash + x7 - Tally(f)
  BY DEF SimBooks, SimSettings, f
<1>9. x4 + Tally(gain) \in Nat /\ x7 + Tally(pnl) \in Int
      /\ x4 + Tally(gain) = SimCash + (x7 + Tally(pnl)) - Tally(h)
  BY <1>6, <1>7, <1>8
<1> QED
  BY <1>9 DEF gain, pnl, h

\* A higher high changes nothing else.
LEMMA HighRaised ==
  ASSUME NEW p, SimPositionOk(p), NEW h
  PROVE  SimPositionOk([p EXCEPT !.high = h]) /\ W!Cost([p EXCEPT !.high = h]) = W!Cost(p)
<1>1. PICK g, d : p = [qty |-> p.qty, entry |-> p.entry, since |-> d, high |-> g]
  BY DEF SimPositionOk
<1>2. [p EXCEPT !.high = h] = [qty |-> p.qty, entry |-> p.entry, since |-> d, high |-> h]
  BY <1>1
<1>3. p.qty \in Nat /\ p.entry \in Nat /\ p.entry >= SimSlip
  BY DEF SimPositionOk
<1> HIDE DEF SimPositionOk
<1>4. /\ [p EXCEPT !.high = h].qty = p.qty /\ [p EXCEPT !.high = h].entry = p.entry
      /\ [p EXCEPT !.high = h] = [qty |-> [p EXCEPT !.high = h].qty, entry |-> [p EXCEPT !.high = h].entry,
                                  since |-> d, high |-> h]
  BY <1>2
<1> QED
  BY <1>3, <1>4 DEF SimPositionOk, W!Cost

LEMMA SimInit == ASSUME SimSettings, W!Init PROVE SimBooks
<1>1. x5 = [s \in {} |-> W!NoBar] /\ x4 = SimCash /\ x7 = 0 /\ x2 = "day" /\ SimCash \in Nat
  BY DEF W!Init, SimSettings
<1>2. SimCosts(x5) \in [{} -> Int] /\ DOMAIN x5 = {}
  BY <1>1 DEF SimCosts
<1>3. Tally(SimCosts(x5)) = 0
  BY <1>2, TallyNone, Zenon
<1>4. x3 \in [SimSymbols -> {W!NoBar} \cup [close : SimCloses, score : SimScores]]
  BY DEF W!Init
<1> QED
  BY <1>1, <1>2, <1>3, <1>4 DEF SimBooks

LEMMA SimExits == ASSUME SimSettings, SimBooks, W!CheckExits PROVE SimBooks'
<1> DEFINE fetched == [s \in W!Gone |-> x3[s].close]
<1>1. W!Gone \in SUBSET DOMAIN x5 /\ \A s \in W!Gone : W!Has(s) /\ s \in SimSymbols
  BY DEF W!Gone, W!Held, SimBooks
<1>2. \A s \in SimSymbols : W!Has(s) => x3[s].close \in Nat /\ x3[s].close > SimSlip
  BY SimBars DEF SimBooks, W!Has
<1>3. fetched \in [W!Gone -> Nat] /\ \A s \in W!Gone : fetched[s] = x3[s].close /\ fetched[s] >= SimSlip
  BY <1>1, <1>2 DEF SimSettings
<1>4. x5' = [s \in DOMAIN x5 \ W!Gone |-> W!Marked(s)] /\ UNCHANGED <<x3, x6>> /\ x2' = "entries"
  BY DEF W!CheckExits, W!Held
<1>5. DOMAIN x5' = DOMAIN x5 \ W!Gone /\ DOMAIN x5' \subseteq SimSymbols
  BY <1>4 DEF SimBooks
<1>6. \A s \in DOMAIN x5' : SimPositionOk(x5'[s]) /\ W!Cost(x5'[s]) = W!Cost(x5[s])
  <2> SUFFICES ASSUME NEW s \in DOMAIN x5'
               PROVE  SimPositionOk(x5'[s]) /\ W!Cost(x5'[s]) = W!Cost(x5[s])
    OBVIOUS
  <2>1. SimPositionOk(x5[s]) /\ x5'[s] = W!Marked(s)
    BY <1>4, <1>5 DEF SimBooks
  <2>2. W!Marked(s) = x5[s] \/ \E h : W!Marked(s) = [x5[s] EXCEPT !.high = h]
    BY DEF W!Marked, W!Raised
  <2> QED
    BY <2>1, <2>2, HighRaised
<1> DEFINE gain == [s \in W!Gone |-> W!SoldFor(s, x3[s].close)]
           pnl  == [s \in W!Gone |-> W!Pnl(s, x3[s].close)]
<1>7. /\ gain = [s \in W!Gone |-> W!SoldFor(s, fetched[s])]
      /\ pnl = [s \in W!Gone |-> W!Pnl(s, fetched[s])]
  BY <1>3
<1>8. x4' = x4 + Tally(gain) /\ x7' = x7 + Tally(pnl)
  BY SimTallies DEF W!CheckExits
<1> HIDE DEF fetched, gain, pnl
<1>9. LET cash == x4 + Tally([s \in W!Gone |-> W!SoldFor(s, fetched[s])])
          pnls == x7 + Tally([s \in W!Gone |-> W!Pnl(s, fetched[s])])
      IN  cash \in Nat /\ pnls \in Int /\ cash = SimCash + pnls - Tally(SimCosts(x5'))
  BY <1>1, <1>3, <1>5, <1>6, SimSettled
<1>10. x4' \in Nat /\ x7' \in Int /\ x4' = SimCash + x7' - Tally(SimCosts(x5'))
  BY <1>7, <1>8, <1>9, Zenon
<1>11. x3' \in [SimSymbols -> {W!NoBar} \cup [close : SimCloses, score : SimScores]] /\ x2' # "buy"
  BY <1>4 DEF SimBooks
<1> QED
  BY <1>5, <1>6, <1>10, <1>11 DEF SimBooks

LEMMA SimCloseOut == ASSUME SimSettings, SimBooks, W!ForceClose PROVE SimBooks'
<1> DEFINE fetched == [s \in DOMAIN x5 |-> W!PriceOf(s)]
           gain == [s \in DOMAIN x5 |-> W!SoldFor(s, W!PriceOf(s))]
           pnl  == [s \in DOMAIN x5 |-> W!Pnl(s, W!PriceOf(s))]
<1>1. \A s \in SimSymbols : W!Has(s) => x3[s].close \in Nat /\ x3[s].close > SimSlip
  BY SimBars DEF SimBooks, W!Has
<1>2. \A s \in DOMAIN x5 : W!PriceOf(s) \in Nat /\ W!PriceOf(s) >= SimSlip
  BY <1>1 DEF SimBooks, SimPositionOk, SimSettings, W!PriceOf
<1>3. fetched \in [DOMAIN x5 -> Nat] /\ \A s \in DOMAIN x5 : fetched[s] = W!PriceOf(s) /\ fetched[s] >= SimSlip
  BY <1>2
<1>4. /\ gain = [s \in DOMAIN x5 |-> W!SoldFor(s, fetched[s])]
      /\ pnl = [s \in DOMAIN x5 |-> W!Pnl(s, fetched[s])]
  BY <1>3
<1>5. x4' = x4 + Tally(gain) /\ x7' = x7 + Tally(pnl) /\ UNCHANGED x3 /\ x2' = "done" /\ DOMAIN x5' = {}
  BY SimTallies DEF W!ForceClose, W!Held
<1> DEFINE everyone == DOMAIN x5
<1>6. /\ everyone \in SUBSET DOMAIN x5 /\ DOMAIN x5' = DOMAIN x5 \ everyone /\ fetched \in [everyone -> Nat]
      /\ \A s \in DOMAIN x5' : SimPositionOk(x5'[s]) /\ W!Cost(x5'[s]) = W!Cost(x5[s])
      /\ \A s \in everyone : fetched[s] >= SimSlip
  BY <1>3, <1>5
<1> HIDE DEF fetched, gain, pnl, everyone
<1>7. LET cash == x4 + Tally([s \in everyone |-> W!SoldFor(s, fetched[s])])
          pnls == x7 + Tally([s \in everyone |-> W!Pnl(s, fetched[s])])
      IN  cash \in Nat /\ pnls \in Int /\ cash = SimCash + pnls - Tally(SimCosts(x5'))
  BY <1>6, SimSettled
<1>8. x4' \in Nat /\ x7' \in Int /\ x4' = SimCash + x7' - Tally(SimCosts(x5'))
  BY <1>4, <1>5, <1>7, Zenon DEF everyone
<1> QED
  BY <1>5, <1>8 DEF SimBooks

LEMMA SimBuys == ASSUME SimSettings, SimBooks, W!Buy PROVE SimBooks'
<1> DEFINE s == Head(x6)
<1>1. s \in Tradable /\ x6' \in Once(Tradable \ {s}) /\ UNCHANGED <<x1, x2, x3, x7>> /\ x2 = "buy"
  <2>1. x6 \in Once(Tradable) /\ x6 # <<>> /\ x6' = Tail(x6) /\ UNCHANGED <<x1, x2, x3, x7>> /\ x2 = "buy"
    BY DEF W!Buy, SimBooks
  <2> QED
    BY <2>1, TakenOff, Zenon
<1>2. s \in SimSymbols /\ s \notin DOMAIN x5 /\ W!BuyPrice(s) \in Nat /\ W!BuyPrice(s) > 0 /\ W!BuyPrice(s) >= SimSlip
  BY <1>1, SimBars DEF Tradable, W!Has, W!BuyPrice, SimBooks
<1>3. W!Qty(s) \in Int
  <2>1. x4 * SimPositionPct \in Int /\ 100 * W!BuyPrice(s) \in Int /\ 100 * W!BuyPrice(s) > 0
    BY <1>2 DEF SimBooks, SimSettings
  <2>2. \A a, b \in Int : b > 0 => a \div b \in Int
    OBVIOUS
  <2> QED
    BY <2>1, <2>2 DEF W!Qty
<1>4. \/ UNCHANGED <<x4, x5>>
      \/ /\ W!Qty(s) >= 1 /\ W!Cost(W!Opened(s)) <= x4
         /\ x4' = x4 - W!Cost(W!Opened(s))
         /\ x5' = [x \in DOMAIN x5 \cup {s} |-> IF x = s THEN W!Opened(s) ELSE x5[x]]
  <2>1. W!Cost(W!Opened(s)) \in Int /\ x4 \in Int
    BY <1>2, <1>3 DEF W!Cost, W!Opened, SimBooks
  <2> QED
    BY <1>3, <2>1 DEF W!Buy, W!Held
<1> HIDE DEF s
<1>5. CASE UNCHANGED <<x4, x5>>
  <2>1. x6' \in Once(Tradable)
    <3>1. x6' \in Seq(Tradable \ {s}) /\ \A i \in DOMAIN x6' : x6'[i] \in Tradable
      BY <1>1 DEF Once
    <3>2. x6' \in Seq(Tradable)
      BY <3>1, SeqOver, Zenon
    <3> QED
      BY <1>1, <3>2 DEF Once
  <2>2. Tradable' = Tradable
    BY <1>1, <1>5 DEF Tradable, W!Has
  <2> QED
    BY <1>1, <1>5, <2>1, <2>2 DEF SimBooks
<1>6. CASE /\ W!Qty(s) >= 1 /\ W!Cost(W!Opened(s)) <= x4
           /\ x4' = x4 - W!Cost(W!Opened(s))
           /\ x5' = [x \in DOMAIN x5 \cup {s} |-> IF x = s THEN W!Opened(s) ELSE x5[x]]
  <2>1. SimPositionOk(W!Opened(s)) /\ W!Cost(W!Opened(s)) \in Nat
    <3>1. W!Qty(s) \in Nat /\ \A a, b \in Nat : a * b \in Nat
      BY <1>3, <1>6
    <3> QED
      BY <1>2, <3>1 DEF SimPositionOk, W!Opened, W!Cost
  <2>2. \A t \in DOMAIN x5' : SimPositionOk(x5'[t])
    BY <1>6, <2>1 DEF SimBooks
  <2>3. Tradable' = Tradable \ {s}
    BY <1>1, <1>6 DEF Tradable, W!Has
  <2>4. x4' \in Nat
    BY <1>6, <2>1 DEF SimBooks
  <2>5. Tally(SimCosts(x5')) = Tally(SimCosts(x5)) + W!Cost(W!Opened(s)) /\ Tally(SimCosts(x5)) \in Int
    <3> DEFINE whole == DOMAIN x5'
               old == DOMAIN x5
               new == {s}
               f == SimCosts(x5')
               g == SimCosts(x5)
               k == [t \in new |-> W!Cost(W!Opened(s))]
    <3>1. IsFiniteSet(whole) /\ old \in SUBSET whole /\ new \in SUBSET whole /\ IsFiniteSet(old)
      <4>1. whole \subseteq SimSymbols
        BY <1>2, <1>6 DEF SimBooks
      <4> QED
        BY <1>6, <4>1, FS_Subset DEF SimSettings
    <3>2. f \in [whole -> Int] /\ g \in [old -> Int]
      <4>1. \A t \in DOMAIN x5 : SimPositionOk(x5[t])
        BY DEF SimBooks
      <4> QED
        BY <2>2, <4>1, SimCostsInt
    <3>3. k \in [new -> Int] /\ k[s] = W!Cost(W!Opened(s))
      BY <2>1
    <3>4. MadeOf(whole, old, new, f, g, k)
      <4> SUFFICES ASSUME NEW t \in whole
                   PROVE  f[t] = (IF t \in old THEN g[t] ELSE 0) + (IF t \in new THEN k[t] ELSE 0)
        BY DEF MadeOf
      <4>1. f[t] = W!Cost(x5'[t]) /\ f[t] \in Int
        BY <3>2 DEF SimCosts
      <4>2. CASE t = s
        BY <1>2, <1>6, <4>1, <4>2
      <4>3. CASE t # s
        <5>1. t \in old /\ g[t] = W!Cost(x5[t]) /\ x5'[t] = x5[t]
          BY <1>6, <4>3 DEF SimCosts
        <5> QED
          BY <4>1, <4>3, <5>1
      <4> QED
        BY <4>2, <4>3
    <3> HIDE DEF whole, old, f, g, k
    <3>5. Tally(f) = Tally(g) + Tally(k)
      BY <3>1, <3>2, <3>3, <3>4, TallySettled, Zenon
    <3>6. Tally(k) = k[s]
      BY <3>3, TallyOne, Zenon
    <3>7. Tally(g) \in Int
      BY <3>1, <3>2, TallyOver
    <3> QED
      BY <3>3, <3>5, <3>6, <3>7 DEF f, g
  <2>6. x4' = SimCash + x7' - Tally(SimCosts(x5'))
    BY <1>1, <1>6, <2>1, <2>5 DEF SimBooks, SimSettings
  <2> QED
    BY <1>1, <1>2, <1>6, <2>2, <2>3, <2>4, <2>6 DEF SimBooks
<1> QED
  BY <1>4, <1>5, <1>6

LEMMA SimBooksStep == ASSUME SimSettings, SimBooks, [W!Next]_(W!vars) PROVE SimBooks'
<1>1. CASE W!NewDay
  BY <1>1 DEF SimBooks, W!NewDay
<1>2. CASE W!FindEntries
  <2>1. x6' \in Once(Tradable)
    <3> DEFINE them == W!Candidates
    <3>1. IsFiniteSet(them) /\ them \in SUBSET Tradable
      BY FS_Subset DEF W!Candidates, W!Held, Tradable, SimSettings
    <3>2. /\ x6' \in [1 .. Cardinality(them) -> them]
          /\ \A i, j \in 1 .. Cardinality(them) : i # j => x6'[i] # x6'[j]
      BY <1>2, SimTallies DEF W!FindEntries, W!Orders, W!Injection, W!IsInjective
    <3> HIDE DEF them
    <3>3. x6' \in Once(them)
      BY <3>1, <3>2, ListedOnce
    <3>4. x6' \in Seq(them) /\ \A i \in DOMAIN x6' : x6'[i] \in Tradable
      BY <3>1, <3>3 DEF Once
    <3>5. x6' \in Seq(Tradable)
      BY <3>4, SeqOver, Zenon
    <3> QED
      BY <3>3, <3>5 DEF Once
  <2> QED
    BY <1>2, <2>1 DEF SimBooks, W!FindEntries, Tradable, W!Has
<1>3. CASE W!EndEntries
  BY <1>3 DEF SimBooks, W!EndEntries
<1>4. CASE W!RecordEquity
  BY <1>4 DEF SimBooks, W!RecordEquity
<1>5. CASE UNCHANGED W!vars
  BY <1>5 DEF SimBooks, W!vars, Tradable, W!Has
<1> QED
  BY <1>1, <1>2, <1>3, <1>4, <1>5, SimExits, SimCloseOut, SimBuys DEF W!Next

LEMMA SimBooksBalance == ASSUME SimBooks PROVE W!CashAddsUp
<1>1. Tally(SimCosts(x5)) = W!Tally([s \in W!Held |-> W!Cost(x5[s])])
  BY SimTallies DEF SimCosts, W!Held
<1> QED
  BY <1>1 DEF SimBooks, W!CashAddsUp

(***************************************************************************)
(* The replay of the signal log.  x1 is the day, x2 the phase, x3 today's  *)
(* signals, x4 the cash, x5 what is held, x6 the queue, x7 the equity and  *)
(* x8 the exposure the day's caps use, x9 the gains.                       *)
(***************************************************************************)
LEMMA ReplayTallies == \A f : R!Tally(f) = Tally(f)
BY DEF R!Tally, Tally

ReplaySettings ==
  /\ IsFiniteSet(ReplaySymbols)
  /\ ReplayCash \in Nat /\ ReplayPositionPct \in Nat /\ ReplayRisk \in Nat /\ ReplayPosPct \in Nat
  /\ ReplayTotalPct \in Nat
  /\ \A g \in ReplaySignals : g.price \in Nat /\ g.price > 0 /\ g.stop \in Int

ReplayPositionOk(p) ==
  /\ p.qty \in Nat /\ p.entry \in Nat /\ p.last \in Nat /\ p.since \in Int
  /\ \E h : p = [entry |-> p.entry, qty |-> p.qty, since |-> p.since, high |-> h, last |-> p.last]
ReplayCosts(p) == [s \in DOMAIN p |-> p[s].entry * p[s].qty]

\* What the books and the cap rest on.
ReplayBooks ==
  /\ x1 \in Int
  /\ DOMAIN x3 \subseteq ReplaySymbols /\ \A s \in DOMAIN x3 : x3[s] \in ReplaySignals
  /\ x4 \in Nat /\ x9 \in Int
  /\ DOMAIN x5 \subseteq ReplaySymbols /\ \A s \in DOMAIN x5 : ReplayPositionOk(x5[s])
  /\ x6 \subseteq DOMAIN x3 \ DOMAIN x5
  /\ x7 \in Int /\ (x2 \in {"close", "done"} => x6 = {})
  /\ \A s \in DOMAIN x5 : x5[s].since <= x1 /\ (x2 = "day" => x5[s].since < x1)
  /\ x4 = ReplayCash + x9 - Tally(ReplayCosts(x5))
  /\ x2 = "enter" => x8 = Tally(ReplayCosts(x5))
  /\ x2 = "enter" /\ (\E s \in DOMAIN x5 : x5[s].since = x1) =>
       100 * Tally(ReplayCosts(x5)) <= ReplayTotalPct * x7

LEMMA ReplayCostsInt ==
  ASSUME NEW p, \A s \in DOMAIN p : ReplayPositionOk(p[s])
  PROVE  ReplayCosts(p) \in [DOMAIN p -> Int]
<1>1. \A a, b \in Nat : a * b \in Int
  OBVIOUS
<1>2. \A s \in DOMAIN p : p[s].entry * p[s].qty \in Int
  BY <1>1 DEF ReplayPositionOk
<1> QED
  BY <1>2 DEF ReplayCosts

\* A price is sold for something, and what a position cost is what it brings less its pnl.
LEMMA ReplaySale ==
  ASSUME NEW s \in DOMAIN x5, ReplayPositionOk(x5[s]), NEW c \in Nat
  PROVE  /\ R!Proceeds(s, c) \in Nat /\ R!Pnl(s, c) \in Int
         /\ x5[s].entry * x5[s].qty = R!Proceeds(s, c) - R!Pnl(s, c)
<1>1. x5[s].qty \in Nat /\ x5[s].entry \in Nat
  BY DEF ReplayPositionOk
<1>2. c \div 1000 \in Nat /\ c \div 1000 <= c
  OBVIOUS
<1> DEFINE gets == c - c \div 1000
<1>3. gets \in Nat
  BY <1>2
<1>4. /\ \A a, b \in Nat : a * b \in Nat
      /\ \A a, b, d \in Nat : (a - b) * d = a * d - b * d /\ (a - b) * d \in Int
  OBVIOUS
<1> HIDE DEF gets
<1>5. /\ gets * x5[s].qty \in Nat /\ x5[s].entry * x5[s].qty \in Nat
      /\ (gets - x5[s].entry) * x5[s].qty = gets * x5[s].qty - x5[s].entry * x5[s].qty
  BY <1>1, <1>3, <1>4
<1>6. R!Proceeds(s, c) = gets * x5[s].qty /\ R!Pnl(s, c) = (gets - x5[s].entry) * x5[s].qty
  BY DEF gets, R!Proceeds, R!Pnl, R!SellPrice, R!Slip
<1> QED
  BY <1>5, <1>6

\* When some positions are sold and the others stay as dear as they were, the books balance.
LEMMA ReplaySettled ==
  ASSUME ReplaySettings, ReplayBooks, NEW sold \in SUBSET DOMAIN x5, NEW fetched \in [sold -> Nat],
         NEW p, DOMAIN p = DOMAIN x5 \ sold,
         \A s \in DOMAIN p : ReplayPositionOk(p[s]) /\ p[s].entry * p[s].qty = x5[s].entry * x5[s].qty
  PROVE  LET cash == x4 + Tally([s \in sold |-> R!Proceeds(s, fetched[s])])
             gains == x9 + Tally([s \in sold |-> R!Pnl(s, fetched[s])])
         IN  /\ cash \in Nat /\ gains \in Int /\ cash = ReplayCash + gains - Tally(ReplayCosts(p))
             /\ Tally(ReplayCosts(p)) \in Int
<1> DEFINE gain == [s \in sold |-> R!Proceeds(s, fetched[s])]
           pnl  == [s \in sold |-> R!Pnl(s, fetched[s])]
           f == ReplayCosts(x5)
           h == ReplayCosts(p)
           own == DOMAIN x5
           rest == DOMAIN p
<1>1. IsFiniteSet(own) /\ IsFiniteSet(sold) /\ sold \in SUBSET own /\ rest \in SUBSET own
  BY FS_Subset DEF ReplaySettings, ReplayBooks
<1>2. f \in [own -> Int] /\ h \in [rest -> Int]
  <2>1. \A s \in DOMAIN x5 : ReplayPositionOk(x5[s])
    BY DEF ReplayBooks
  <2> QED
    BY <2>1, ReplayCostsInt
<1>3. \A s \in sold : /\ R!Proceeds(s, fetched[s]) \in Nat /\ R!Pnl(s, fetched[s]) \in Int
                      /\ x5[s].entry * x5[s].qty = R!Proceeds(s, fetched[s]) - R!Pnl(s, fetched[s])
  BY ReplaySale DEF ReplayBooks
<1>4. gain \in [sold -> Nat] /\ gain \in [sold -> Int] /\ pnl \in [sold -> Int]
  BY <1>3
<1>5. Earns(own, sold, rest, f, gain, pnl, h)
  <2> SUFFICES ASSUME NEW s \in own
               PROVE  f[s] = (IF s \in sold THEN gain[s] - pnl[s] ELSE 0) + (IF s \in rest THEN h[s] ELSE 0)
    BY DEF Earns
  <2>1. f[s] = x5[s].entry * x5[s].qty /\ f[s] \in Int
    BY <1>2 DEF ReplayCosts
  <2>2. CASE s \in sold
    BY <1>3, <2>1, <2>2
  <2>3. CASE s \notin sold
    <3>1. s \in rest /\ h[s] = p[s].entry * p[s].qty /\ h[s] = f[s]
      BY <2>1, <2>3 DEF ReplayCosts
    <3> QED
      BY <2>1, <2>3, <3>1
  <2> QED
    BY <2>2, <2>3
<1> HIDE DEF gain, pnl, f, h, own, rest
<1>6. /\ Tally(f) + Tally(pnl) = Tally(gain) + Tally(h)
      /\ Tally(f) \in Int /\ Tally(pnl) \in Int /\ Tally(gain) \in Int /\ Tally(h) \in Int
  BY <1>1, <1>2, <1>4, <1>5, TallyEarned, Zenon
<1>7. Tally(gain) \in Nat
  BY <1>1, <1>4, TallyNat
<1>8. x4 \in Nat /\ x9 \in Int /\ ReplayCash \in Nat /\ x4 = ReplayCash + x9 - Tally(f)
  BY DEF ReplayBooks, ReplaySettings, f
<1>9. x4 + Tally(gain) \in Nat /\ x9 + Tally(pnl) \in Int
      /\ x4 + Tally(gain) = ReplayCash + (x9 + Tally(pnl)) - Tally(h)
  BY <1>6, <1>7, <1>8
<1> QED
  BY <1>6, <1>9 DEF gain, pnl, h

LEMMA ReplayInit == ASSUME ReplaySettings, R!Init PROVE ReplayBooks
<1>1. /\ x5 = <<>> /\ x4 = ReplayCash /\ x9 = 0 /\ x2 = "day" /\ ReplayCash \in Nat /\ x6 = {} /\ x1 = 1
      /\ x7 = 0
  BY DEF R!Init, ReplaySettings
<1>2. ReplayCosts(x5) \in [{} -> Int] /\ DOMAIN x5 = {}
  BY <1>1 DEF ReplayCosts
<1>3. Tally(ReplayCosts(x5)) = 0
  BY <1>2, TallyNone, Zenon
<1>4. DOMAIN x3 \subseteq ReplaySymbols /\ \A s \in DOMAIN x3 : x3[s] \in ReplaySignals
  BY DEF R!Init
<1> QED
  BY <1>1, <1>2, <1>3, <1>4 DEF ReplayBooks

\* A position with a new last price and a new high.
ReMarked(p, c, h) == [p EXCEPT !.last = c, !.high = h]

\* They change nothing of what was paid.
LEMMA LastMarked ==
  ASSUME NEW p, ReplayPositionOk(p), NEW c \in Nat, NEW h
  PROVE  /\ ReplayPositionOk(ReMarked(p, c, h))
         /\ ReMarked(p, c, h).entry * ReMarked(p, c, h).qty = p.entry * p.qty
         /\ ReMarked(p, c, h).since = p.since
<1>1. PICK g : p = [entry |-> p.entry, qty |-> p.qty, since |-> p.since, high |-> g, last |-> p.last]
  BY DEF ReplayPositionOk
<1> DEFINE q == ReMarked(p, c, h)
           u == [p EXCEPT !.last = c]
           e == p.entry
           n == p.qty
           d == p.since
           l == p.last
<1> HIDE DEF e, n, d, l
<1>2. u = [entry |-> e, qty |-> n, since |-> d, high |-> g, last |-> c]
  <2>1. p = [entry |-> e, qty |-> n, since |-> d, high |-> g, last |-> l]
    BY <1>1 DEF e, n, d, l
  <2> QED
    BY <2>1
<1>3. q = [u EXCEPT !.high = h]
  BY DEF ReMarked
<1> HIDE DEF u, q
<1>4. q = [entry |-> e, qty |-> n, since |-> d, high |-> h, last |-> c]
  BY <1>2, <1>3
<1>5. q.entry = e /\ q.qty = n /\ q.since = d /\ q.last = c
  BY <1>4
<1>6. n \in Nat /\ e \in Nat /\ d \in Int
  BY DEF ReplayPositionOk, e, n, d
<1>7. ReplayPositionOk(q)
  BY <1>4, <1>5, <1>6 DEF ReplayPositionOk
<1>8. q.entry * q.qty = p.entry * p.qty /\ q.since = p.since
  BY <1>5 DEF e, n, d
<1> QED
  BY <1>7, <1>8 DEF q

LEMMA ReplayExits == ASSUME ReplaySettings, ReplayBooks, R!Exits PROVE ReplayBooks'
<1> DEFINE fetched == [s \in R!Gone |-> R!PriceOf(s)]
           gain == [s \in R!Gone |-> R!Proceeds(s, R!PriceOf(s))]
           pnl  == [s \in R!Gone |-> R!Pnl(s, R!PriceOf(s))]
           gone == R!Gone
<1>1. gone \in SUBSET DOMAIN x5
  BY DEF R!Gone
<1>2. \A s \in DOMAIN x5 : R!PriceOf(s) \in Nat
  BY DEF ReplayBooks, ReplayPositionOk, ReplaySettings, R!PriceOf
<1>3. fetched \in [gone -> Nat] /\ \A s \in gone : fetched[s] = R!PriceOf(s)
  BY <1>1, <1>2
<1>4. /\ x5' = [s \in DOMAIN x5 \ gone |-> R!Marked(s)] /\ UNCHANGED <<x1, x3>> /\ x2 = "day" /\ x2' = "enter"
      /\ x6' \subseteq DOMAIN x3 \ DOMAIN x5'
      /\ x4' = x4 + Tally(gain) /\ x9' = x9 + Tally(pnl)
      /\ x8' = Tally(ReplayCosts(x5'))
      /\ x7' = x4' + Tally([s \in DOMAIN x5' |-> x5'[s].last * x5'[s].qty])
  BY ReplayTallies DEF R!Exits, ReplayCosts
<1>5. DOMAIN x5' = DOMAIN x5 \ gone /\ DOMAIN x5' \subseteq ReplaySymbols
  BY <1>4 DEF ReplayBooks
<1>6. \A s \in DOMAIN x5' : /\ ReplayPositionOk(x5'[s]) /\ x5'[s].entry * x5'[s].qty = x5[s].entry * x5[s].qty
                            /\ x5'[s].since = x5[s].since
  <2> SUFFICES ASSUME NEW s \in DOMAIN x5'
               PROVE  /\ ReplayPositionOk(x5'[s]) /\ x5'[s].entry * x5'[s].qty = x5[s].entry * x5[s].qty
                      /\ x5'[s].since = x5[s].since
    OBVIOUS
  <2>1. x5'[s] = ReMarked(x5[s], R!PriceOf(s), R!HighOf(s)) /\ ReplayPositionOk(x5[s])
    BY <1>4, <1>5 DEF R!Marked, ReMarked, ReplayBooks
  <2>2. R!PriceOf(s) \in Nat
    BY <1>2, <1>5
  <2> HIDE DEF ReplayPositionOk
  <2> QED
    BY <2>1, <2>2, LastMarked
<1>7. /\ gain = [s \in gone |-> R!Proceeds(s, fetched[s])]
      /\ pnl = [s \in gone |-> R!Pnl(s, fetched[s])]
  BY <1>3
<1> HIDE DEF fetched, gain, pnl, gone
<1>8. LET cash == x4 + Tally([s \in gone |-> R!Proceeds(s, fetched[s])])
          gains == x9 + Tally([s \in gone |-> R!Pnl(s, fetched[s])])
      IN  /\ cash \in Nat /\ gains \in Int /\ cash = ReplayCash + gains - Tally(ReplayCosts(x5'))
          /\ Tally(ReplayCosts(x5')) \in Int
  BY <1>1, <1>3, <1>5, <1>6, ReplaySettled
<1>9. x4' \in Nat /\ x9' \in Int /\ x4' = ReplayCash + x9' - Tally(ReplayCosts(x5'))
  BY <1>4, <1>7, <1>8, Zenon
<1>10. x7' \in Int
  <2> DEFINE now == DOMAIN x5'
             worth == [s \in now |-> x5'[s].last * x5'[s].qty]
  <2>1. IsFiniteSet(now)
    BY <1>5, FS_Subset DEF ReplaySettings
  <2>2. worth \in [now -> Int]
    <3>1. \A a, b \in Nat : a * b \in Int
      OBVIOUS
    <3>2. \A s \in now : x5'[s].last * x5'[s].qty \in Int
      BY <1>6, <3>1 DEF ReplayPositionOk
    <3> QED
      BY <3>2
  <2>3. x7' = x4' + Tally(worth)
    BY <1>4
  <2> HIDE DEF now, worth
  <2>4. Tally(worth) \in Int
    BY <2>1, <2>2, TallyOver
  <2> QED
    BY <1>9, <2>3, <2>4
<1>11. \A s \in DOMAIN x5' : x5'[s].since \in Int /\ x5'[s].since < x1
  BY <1>4, <1>5, <1>6 DEF ReplayBooks, ReplayPositionOk
<1> QED
  <2>1. x1' = x1 /\ x1 \in Int /\ ~ \E s \in DOMAIN x5' : x5'[s].since = x1
    BY <1>4, <1>11 DEF ReplayBooks
  <2>2. \A s \in DOMAIN x5' : x5'[s].since <= x1' /\ (x2' = "day" => x5'[s].since < x1')
    BY <1>4, <1>11, <2>1
  <2>3. \A s \in DOMAIN x5' : ReplayPositionOk(x5'[s])
    BY <1>6
  <2>4. DOMAIN x3' \subseteq ReplaySymbols /\ (\A s \in DOMAIN x3' : x3'[s] \in ReplaySignals) /\ x6' \subseteq DOMAIN x3' \ DOMAIN x5'
    BY <1>4 DEF ReplayBooks
  <2> QED
    BY <1>4, <1>5, <1>9, <1>10, <2>1, <2>2, <2>3, <2>4 DEF ReplayBooks

LEMMA ReplayCloseOut == ASSUME ReplaySettings, ReplayBooks, R!ForceClose PROVE ReplayBooks'
<1> DEFINE everyone == DOMAIN x5
           fetched == [s \in everyone |-> x5[s].last]
           gain == [s \in everyone |-> R!Proceeds(s, x5[s].last)]
           pnl  == [s \in everyone |-> R!Pnl(s, x5[s].last)]
<1>1. fetched \in [everyone -> Nat] /\ \A s \in everyone : fetched[s] = x5[s].last
  BY DEF ReplayBooks, ReplayPositionOk
<1>2. /\ x4' = x4 + Tally(gain) /\ x9' = x9 + Tally(pnl) /\ x2' = "done" /\ UNCHANGED <<x1, x6, x7, x8>>
      /\ x5' = <<>> /\ x3' = <<>>
  BY ReplayTallies DEF R!ForceClose
<1>3. gain = [s \in everyone |-> R!Proceeds(s, fetched[s])] /\ pnl = [s \in everyone |-> R!Pnl(s, fetched[s])]
  BY <1>1
<1>4. DOMAIN x5' = {} /\ DOMAIN x3' = {}
  BY <1>2
<1>5. /\ everyone \in SUBSET DOMAIN x5 /\ DOMAIN x5' = DOMAIN x5 \ everyone
      /\ \A s \in DOMAIN x5' : ReplayPositionOk(x5'[s]) /\ x5'[s].entry * x5'[s].qty = x5[s].entry * x5[s].qty
  BY <1>4
<1> HIDE DEF fetched, gain, pnl, everyone
<1>6. LET cash == x4 + Tally([s \in everyone |-> R!Proceeds(s, fetched[s])])
          gains == x9 + Tally([s \in everyone |-> R!Pnl(s, fetched[s])])
      IN  /\ cash \in Nat /\ gains \in Int /\ cash = ReplayCash + gains - Tally(ReplayCosts(x5'))
          /\ Tally(ReplayCosts(x5')) \in Int
  BY <1>1, <1>5, ReplaySettled
<1>7. x4' \in Nat /\ x9' \in Int /\ x4' = ReplayCash + x9' - Tally(ReplayCosts(x5'))
  BY <1>2, <1>3, <1>6, Zenon
<1>8. x6 = {}
  BY DEF R!ForceClose, ReplayBooks
<1>9. x1' \in Int /\ x7' \in Int /\ x6' = {}
  BY <1>2, <1>8 DEF ReplayBooks
<1> QED
  BY <1>2, <1>4, <1>7, <1>9 DEF ReplayBooks

\* The size is no more than the cap on exposure leaves.
LEMMA SizeCapped ==
  ASSUME ReplaySettings, ReplayBooks, x8 \in Int, NEW p \in Nat, p > 0, NEW stop \in Int
  PROVE  /\ R!Qty(p, stop) \in Int
         /\ R!Qty(p, stop) >= 1 => 100 * (x8 + p * R!Qty(p, stop)) <= ReplayTotalPct * x7
<1> DEFINE room == IF x7 * ReplayTotalPct > 100 * x8 THEN (x7 * ReplayTotalPct - 100 * x8) \div (100 * p) ELSE 0
           caps == {R!Desired(R!Base(p))} \cup R!Ceilings(p, stop)
           q == R!Qty(p, stop)
<1>1. /\ x4 \in Int /\ x7 \in Int /\ ReplayPositionPct \in Int /\ ReplayPosPct \in Int /\ ReplayTotalPct \in Int
      /\ ReplayRisk \in Int
  BY DEF ReplayBooks, ReplaySettings
<1>2. \A a, b \in Int : a * b \in Int /\ (b > 0 => a \div b \in Int)
  OBVIOUS
<1>3. 100 * p \in Int /\ 100 * p > 0
  OBVIOUS
<1>4. x7 * ReplayTotalPct \in Int /\ x7 * ReplayPosPct \in Int /\ x7 * ReplayRisk \in Int /\ x4 * ReplayPositionPct \in Int
  BY <1>1, <1>2
<1>5. room \in Int
  <2>1. x7 * ReplayTotalPct - 100 * x8 \in Int
    BY <1>4
  <2> QED
    BY <1>2, <1>3, <2>1
<1>6. caps \in SUBSET Int
  <2>1. (x7 * ReplayPosPct) \div (100 * p) \in Int /\ (x4 * ReplayPositionPct) \div (100 * p) \in Int
    BY <1>2, <1>3, <1>4
  <2>2. stop < p => (x7 * ReplayRisk) \div (1000 * (p - stop)) \in Int
    <3>1. stop < p => 1000 * (p - stop) \in Int /\ 1000 * (p - stop) > 0
      OBVIOUS
    <3> QED
      BY <1>2, <1>4, <3>1
  <2>3. R!Desired(R!Base(p)) \in Int
    BY <2>1 DEF R!Desired, R!Base
  <2> HIDE DEF room
  <2>4. R!Ceilings(p, stop) \subseteq Int
    BY <1>5, <2>1, <2>2 DEF R!Ceilings, room
  <2> QED
    BY <2>3, <2>4
<1>7. IsFiniteSet(caps)
  <2> DEFINE a == R!Desired(R!Base(p))
             b == (x7 * ReplayPosPct) \div (100 * p)
             d == (x7 * ReplayRisk) \div (1000 * (p - stop))
             e == IF 0 < stop /\ stop < p THEN {d} ELSE {}
  <2>1. caps = {a} \cup ({b} \cup {room} \cup e)
    BY DEF R!Ceilings
  <2>2. e = {d} \/ e = {}
    OBVIOUS
  <2> HIDE DEF a, b, d, e, room, caps
  <2>3. IsFiniteSet({a}) /\ IsFiniteSet({b}) /\ IsFiniteSet({room}) /\ IsFiniteSet({d})
    BY FS_Singleton
  <2>4. IsFiniteSet(e)
    BY <2>2, <2>3, FS_EmptySet
  <2>5. IsFiniteSet({b} \cup {room})
    BY <2>3, FS_Union
  <2>6. IsFiniteSet({b} \cup {room} \cup e)
    BY <2>4, <2>5, FS_Union
  <2>7. IsFiniteSet({a} \cup ({b} \cup {room} \cup e))
    BY <2>3, <2>6, FS_Union
  <2> QED
    BY <2>1, <2>7
<1>8. room \in caps
  BY DEF R!Ceilings
<1>9. q = R!Min(caps)
  BY DEF R!Qty
<1> HIDE DEF caps
<1>10. \E m \in caps : \A n \in caps : m <= n
  BY <1>6, <1>7, <1>8, Extremes
<1>11. q \in caps /\ \A n \in caps : q <= n
  BY <1>9, <1>10 DEF R!Min
<1>12. q \in Int /\ q <= room
  BY <1>6, <1>8, <1>11
<1>13. ASSUME q >= 1 PROVE 100 * (x8 + p * q) <= ReplayTotalPct * x7
  <2> DEFINE whole == x7 * ReplayTotalPct
             left == whole - 100 * x8
  <2> HIDE DEF q
  <2>1. whole > 100 * x8 /\ room = left \div (100 * p) /\ left \in Nat
    BY <1>4, <1>12, <1>13
  <2>2. whole \in Int /\ whole = ReplayTotalPct * x7
    BY <1>1, <1>4
  <2> HIDE DEF whole, left, room
  <2>3. \A a \in Nat, b \in Nat : b > 0 => b * (a \div b) <= a
    OBVIOUS
  <2>4. (100 * p) * room <= left /\ room \in Int
    BY <1>3, <1>5, <2>1, <2>3
  <2>5. \A a, b, d \in Int : a >= 0 /\ b <= d => a * b <= a * d
    OBVIOUS
  <2>6. (100 * p) * q <= (100 * p) * room /\ (100 * p) * q \in Int /\ (100 * p) * room \in Int
    BY <1>2, <1>3, <1>12, <2>4, <2>5
  <2>7. 100 * (x8 + p * q) = 100 * x8 + (100 * p) * q
    <3>1. \A a, b \in Int : (100 * a) * b = 100 * (a * b) /\ a * b \in Int
      OBVIOUS
    <3>2. (100 * p) * q = 100 * (p * q) /\ p * q \in Int
      BY <1>12, <3>1
    <3> QED
      BY <3>2
  <2>8. left = whole - 100 * x8 /\ left \in Int
    BY <2>1 DEF left
  <2> QED
    BY <2>2, <2>4, <2>6, <2>7, <2>8
<1> QED
  BY <1>12, <1>13

LEMMA ReplayBuys == ASSUME ReplaySettings, ReplayBooks, NEW s \in ReplaySymbols, R!Buy(s) PROVE ReplayBooks'
<1> DEFINE p == R!BuyPrice(x3[s].price)
           n == R!Qty(p, x3[s].stop)
           new == [entry |-> p, qty |-> n, since |-> x1, high |-> p, last |-> x3[s].price]
<1>1. s \in x6 /\ s \in DOMAIN x3 /\ s \notin DOMAIN x5 /\ x2 = "enter"
  BY DEF R!Buy, R!Best, ReplayBooks
<1>2. x3[s].price \in Nat /\ x3[s].price > 0 /\ x3[s].stop \in Int
  BY <1>1 DEF ReplayBooks, ReplaySettings
<1>3. p \in Nat /\ p > 0
  BY <1>2 DEF R!BuyPrice, R!Slip
<1>4. /\ n >= 1 /\ p * n <= x4 /\ x4' = x4 - p * n /\ x8' = x8 + p * n
      /\ x5' = [t \in DOMAIN x5 \cup {s} |-> IF t = s THEN new ELSE x5[t]]
      /\ x6' = x6 \ {s} /\ UNCHANGED <<x1, x2, x3, x7, x9>>
  BY DEF R!Buy, R!Affordable
<1>5. IsFiniteSet(DOMAIN x5) /\ DOMAIN x5 \subseteq ReplaySymbols
  BY FS_Subset DEF ReplayBooks, ReplaySettings
<1>6. \A t \in DOMAIN x5 : ReplayPositionOk(x5[t])
  BY DEF ReplayBooks
<1>7. x8 = Tally(ReplayCosts(x5)) /\ x8 \in Int
  <2>1. ReplayCosts(x5) \in [DOMAIN x5 -> Int]
    BY <1>6, ReplayCostsInt
  <2>2. Tally(ReplayCosts(x5)) \in Int
    BY <1>5, <2>1, TallyOver
  <2> QED
    BY <1>1, <2>2 DEF ReplayBooks
<1> HIDE DEF p
<1>8. n \in Int /\ 100 * (x8 + p * n) <= ReplayTotalPct * x7
  BY <1>2, <1>3, <1>4, <1>7, SizeCapped
<1> HIDE DEF n
<1>9. p * n \in Nat /\ n \in Nat
  <2>1. n \in Nat /\ \A a, b \in Nat : a * b \in Nat
    BY <1>4, <1>8
  <2> QED
    BY <1>3, <2>1
<1>10. /\ new.entry = p /\ new.qty = n /\ new.since = x1 /\ new.last = x3[s].price
       /\ x1 \in Int
  BY DEF ReplayBooks
<1>11. ReplayPositionOk(new)
  BY <1>2, <1>3, <1>9, <1>10 DEF ReplayPositionOk
<1> HIDE DEF new
<1>12. \A t \in DOMAIN x5' : ReplayPositionOk(x5'[t])
  BY <1>4, <1>6, <1>11
<1>13. Tally(ReplayCosts(x5')) = Tally(ReplayCosts(x5)) + p * n
  <2> DEFINE whole == DOMAIN x5'
             old == DOMAIN x5
             one == {s}
             f == ReplayCosts(x5')
             g == ReplayCosts(x5)
             k == [t \in one |-> p * n]
  <2>1. IsFiniteSet(whole) /\ old \in SUBSET whole /\ one \in SUBSET whole /\ IsFiniteSet(old)
    <3>1. whole \subseteq ReplaySymbols
      BY <1>4, <1>5
    <3> QED
      BY <1>4, <1>5, <3>1, FS_Subset DEF ReplaySettings
  <2>2. f \in [whole -> Int] /\ g \in [old -> Int]
    BY <1>6, <1>12, ReplayCostsInt
  <2>3. k \in [one -> Int] /\ k[s] = p * n
    BY <1>9
  <2>4. MadeOf(whole, old, one, f, g, k)
    <3> SUFFICES ASSUME NEW t \in whole
                 PROVE  f[t] = (IF t \in old THEN g[t] ELSE 0) + (IF t \in one THEN k[t] ELSE 0)
      BY DEF MadeOf
    <3>1. f[t] = x5'[t].entry * x5'[t].qty /\ f[t] \in Int
      BY <2>2 DEF ReplayCosts
    <3>2. CASE t = s
      <4>1. x5'[t] = new
        BY <1>4, <3>2
      <4> QED
        BY <1>1, <1>10, <2>3, <3>1, <3>2, <4>1
    <3>3. CASE t # s
      <4>1. t \in old /\ g[t] = x5[t].entry * x5[t].qty /\ x5'[t] = x5[t]
        BY <1>4, <3>3 DEF ReplayCosts
      <4> QED
        BY <3>1, <3>3, <4>1
    <3> QED
      BY <3>2, <3>3
  <2> HIDE DEF whole, old, f, g, k
  <2>5. Tally(f) = Tally(g) + Tally(k)
    BY <2>1, <2>2, <2>3, <2>4, TallySettled, Zenon
  <2>6. Tally(k) = k[s]
    BY <2>3, TallyOne, Zenon
  <2> QED
    BY <2>3, <2>5, <2>6 DEF f, g
<1>14. x4' \in Nat /\ x4' = ReplayCash + x9' - Tally(ReplayCosts(x5')) /\ x8' = Tally(ReplayCosts(x5'))
  BY <1>4, <1>7, <1>9, <1>13 DEF ReplayBooks, ReplaySettings
<1>15. 100 * Tally(ReplayCosts(x5')) <= ReplayTotalPct * x7'
  BY <1>4, <1>7, <1>8, <1>13
<1>16. DOMAIN x5' \subseteq ReplaySymbols /\ x6' \subseteq DOMAIN x3' \ DOMAIN x5'
  BY <1>4, <1>5 DEF ReplayBooks
<1>17. \A t \in DOMAIN x5' : x5'[t].since <= x1' /\ x2' = "enter"
  BY <1>1, <1>4, <1>10 DEF ReplayBooks
<1>18. /\ DOMAIN x3' \subseteq ReplaySymbols /\ \A t \in DOMAIN x3' : x3'[t] \in ReplaySignals
       /\ x1' \in Int /\ x7' \in Int /\ x9' \in Int
  BY <1>4 DEF ReplayBooks
<1> QED
  BY <1>1, <1>4, <1>12, <1>14, <1>15, <1>16, <1>17, <1>18 DEF ReplayBooks

LEMMA ReplayBooksStep == ASSUME ReplaySettings, ReplayBooks, [R!Next]_(R!vars) PROVE ReplayBooks'
<1>1. ASSUME NEW s \in ReplaySymbols, R!PassOver(s) PROVE ReplayBooks'
  BY <1>1 DEF ReplayBooks, R!PassOver
<1>2. CASE R!EndDay
  <2>1. /\ x6' = {} /\ x7' = 0 /\ UNCHANGED <<x4, x5, x9>>
        /\ \/ x2' = "day" /\ x1' = x1 + 1
           \/ x2' = "close" /\ x1' = x1
    BY <1>2 DEF R!EndDay
  <2>2. DOMAIN x3' \subseteq ReplaySymbols /\ \A s \in DOMAIN x3' : x3'[s] \in ReplaySignals
    BY <1>2 DEF R!EndDay
  <2>3. x1 \in Int /\ \A s \in DOMAIN x5 : x5[s].since <= x1 /\ x5[s].since \in Int
    BY DEF ReplayBooks, ReplayPositionOk
  <2>4. x1' \in Int /\ \A s \in DOMAIN x5' : x5'[s].since <= x1' /\ (x2' = "day" => x5'[s].since < x1')
    BY <2>1, <2>3
  <2> QED
    BY <2>1, <2>2, <2>4 DEF ReplayBooks
<1>3. CASE UNCHANGED R!vars
  BY <1>3 DEF ReplayBooks, R!vars
<1> QED
  BY <1>1, <1>2, <1>3, ReplayExits, ReplayCloseOut, ReplayBuys DEF R!Next

LEMMA ReplayBooksBalance == ASSUME ReplayBooks PROVE R!ReplayAddsUp
<1>1. R!Cost = Tally(ReplayCosts(x5))
  BY ReplayTallies DEF ReplayCosts, R!Cost
<1> QED
  BY <1>1 DEF ReplayBooks, R!ReplayAddsUp

(***************************************************************************)
(* The backtest runner.  x1 are the rules, x3 the phase, x4 the bars of    *)
(* the day, x5 the queue, x7 the cash, x8 the positions, x9 the log, x10   *)
(* the value of the account, x11 the last close of each symbol.            *)
(***************************************************************************)
LEMMA StudyTallies == (\A f : B!Tally(f) = Tally(f)) /\ \A set : B!Cardinality(set) = Cardinality(set)
BY DEF B!Tally, Tally, B!Cardinality, Cardinality

StudyBarOk(b) == b.close \in Nat /\ b.close > 0 /\ b.atr \in Nat
StudyRuleOk(r) ==
  /\ r.partial_exit_pct \in Nat /\ r.partial_exit_pct < 100
  /\ r.position_pct \in Nat /\ r.target_atr_pct \in Nat /\ r.vol_mult_min \in Nat /\ r.vol_mult_max \in Nat

\* A partial exit leaves something.
StudySettings ==
  /\ IsFiniteSet(StudySyms)
  /\ StudyCash \in Nat /\ StudyFeeDen \in Nat /\ StudyFeeDen > 0
  /\ \A b \in StudyBars : StudyBarOk(b)
  /\ \A r \in StudyRules : StudyRuleOk(r)

LEMMA StudyFee == ASSUME StudySettings, NEW a \in Nat PROVE B!Fee(a) \in Nat /\ B!Fee(a) <= a
<1>1. \A n, d \in Nat : d > 0 => n \div d \in Nat /\ n \div d <= n
  OBVIOUS
<1> QED
  BY <1>1 DEF StudySettings, B!Fee

HeldFields == {"qty", "entry", "day", "entry_fee", "atr", "stop", "high", "trailing", "partial_done", "last_price"}
HoldingOk(p) ==
  /\ DOMAIN p = HeldFields
  /\ p.qty \in Nat /\ p.qty > 0 /\ p.entry \in Nat /\ p.entry_fee \in Nat
\* p and what is left of it after n of its shares went.
LeftOf(p, r, n) ==
  /\ HoldingOk(r) /\ r.qty = p.qty - n /\ r.entry = p.entry /\ r.last_price = p.last_price
  /\ r.entry_fee <= p.entry_fee /\ (n = 0 => r.entry_fee = p.entry_fee)

\* A new high, and what a partial exit leaves.
LEMMA PeakMoved ==
  ASSUME NEW p, HoldingOk(p), NEW h
  PROVE  LeftOf(p, [p EXCEPT !.high = h], 0)
<1> DEFINE q == [p EXCEPT !.high = h]
<1>1. DOMAIN p = HeldFields
  BY DEF HoldingOk
<1>2. /\ DOMAIN q = HeldFields /\ q.qty = p.qty /\ q.entry = p.entry /\ q.entry_fee = p.entry_fee
      /\ q.last_price = p.last_price
  BY <1>1 DEF HeldFields
<1> HIDE DEF q
<1>3. LeftOf(p, q, 0)
  BY <1>2 DEF LeftOf, HoldingOk
<1> QED
  BY <1>3 DEF q

LEMMA SharesGone ==
  ASSUME NEW p, HoldingOk(p), NEW n \in Nat, n < p.qty
  PROVE  LeftOf(p, B!Less(p, n), n)
<1> DEFINE a == p.qty - n
           f == p.entry_fee - (p.entry_fee * n) \div p.qty
           u == [p EXCEPT !.qty = a]
           v == [u EXCEPT !.entry_fee = f]
           q == [v EXCEPT !.partial_done = p.partial_done \/ n > 0]
<1>1. DOMAIN p = HeldFields /\ p.qty \in Nat /\ p.qty > 0 /\ p.entry \in Nat /\ p.entry_fee \in Nat
  BY DEF HoldingOk
<1>2. f \in Nat /\ f <= p.entry_fee /\ (n = 0 => f = p.entry_fee) /\ a \in Nat /\ a > 0
  <2> DEFINE e == p.entry_fee
             d == p.qty
  <2>1. e \in Nat /\ d \in Nat /\ d > 0 /\ n < d
    BY <1>1
  <2> HIDE DEF e, d
  <2>2. \A i, j, k \in Nat : k > 0 /\ j < k => i * j <= i * k /\ i * j \in Nat
    OBVIOUS
  <2>3. e * n <= e * d /\ e * n \in Nat
    BY <2>1, <2>2
  <2>4. \A y, i, k \in Nat : k > 0 /\ y <= i * k => y \div k <= i /\ y \div k \in Nat
    OBVIOUS
  <2>5. (e * n) \div d \in Nat /\ (e * n) \div d <= e
    BY <2>1, <2>3, <2>4
  <2>6. n = 0 => (e * n) \div d = 0
    BY <2>1
  <2> QED
    BY <2>1, <2>5, <2>6 DEF e, d
<1>3. B!Less(p, n) = q
  BY <1>1 DEF B!Less, HeldFields
<1> HIDE DEF a, f
<1>4. DOMAIN u = HeldFields /\ u.qty = a /\ u.entry = p.entry /\ u.last_price = p.last_price
  BY <1>1 DEF HeldFields
<1> HIDE DEF u
<1>5. DOMAIN v = HeldFields /\ v.qty = a /\ v.entry = p.entry /\ v.last_price = p.last_price /\ v.entry_fee = f
  BY <1>4 DEF HeldFields
<1> HIDE DEF v
<1>6. DOMAIN q = HeldFields /\ q.qty = a /\ q.entry = p.entry /\ q.last_price = p.last_price /\ q.entry_fee = f
  BY <1>5 DEF HeldFields
<1> HIDE DEF q
<1>7. LeftOf(p, q, n)
  BY <1>1, <1>2, <1>6 DEF LeftOf, HoldingOk, a
<1> QED
  BY <1>3, <1>7

Restopped(p, x, y) == [p EXCEPT !.trailing = x, !.stop = y]

LEMMA TrailMoved ==
  ASSUME NEW p, HoldingOk(p), NEW x, NEW y
  PROVE  LeftOf(p, Restopped(p, x, y), 0)
<1> DEFINE u == [p EXCEPT !.trailing = x]
           q == [u EXCEPT !.stop = y]
<1>1. DOMAIN p = HeldFields
  BY DEF HoldingOk
<1>2. q = Restopped(p, x, y)
  BY DEF Restopped
<1>3. /\ DOMAIN u = HeldFields /\ u.qty = p.qty /\ u.entry = p.entry /\ u.entry_fee = p.entry_fee
      /\ u.last_price = p.last_price
  BY <1>1 DEF HeldFields
<1> HIDE DEF u
<1>4. /\ DOMAIN q = HeldFields /\ q.qty = p.qty /\ q.entry = p.entry /\ q.entry_fee = p.entry_fee
      /\ q.last_price = p.last_price
  BY <1>3 DEF HeldFields
<1> HIDE DEF q
<1>5. LeftOf(p, q, 0)
  BY <1>4 DEF LeftOf, HoldingOk
<1> QED
  BY <1>2, <1>5

LEMMA StopMoved ==
  ASSUME NEW p, HoldingOk(p), NEW b
  PROVE  LeftOf(p, B!Ratchet(p, b), 0)
<1> DEFINE x == p.trailing \/ B!Reached(p, b, x1.atr_activation_r)
           even == IF x1.use_breakeven /\ B!Reached(p, b, x1.breakeven_trigger_r)
                     THEN B!Greater(p.stop, (p.entry * (1000 + x1.breakeven_buffer)) \div 1000)
                     ELSE p.stop
           y == IF x THEN B!Greater(even, p.high - (x1.atr_trailing_mult * p.atr) \div 10) ELSE even
<1>1. B!Ratchet(p, b) = IF p.atr = 0 THEN p ELSE Restopped(p, x, y)
  BY DEF B!Ratchet, Restopped
<1> HIDE DEF x, y
<1>2. LeftOf(p, Restopped(p, x, y), 0)
  BY TrailMoved
<1>3. LeftOf(p, p, 0)
  BY DEF LeftOf, HoldingOk
<1> HIDE DEF LeftOf
<1> QED
  BY <1>1, <1>2, <1>3

\* What a check sells, and what it leaves.
CheckOk(p, c) ==
  /\ c.part \in Nat /\ c.part < p.qty /\ LeftOf(p, c.after, c.part)
  /\ c.rest = 0 \/ c.rest = c.after.qty

LEMMA StudyCheck ==
  ASSUME StudyRuleOk(x1), NEW p, HoldingOk(p), NEW b
  PROVE  CheckOk(p, B!Check(p, b))
<1> DEFINE q == [p EXCEPT !.high = B!Greater(@, b.close)]
           n == B!PartToSell(q, b)
           r == B!Ratchet(B!Less(q, n), b)
           c == B!Check(p, b)
<1>1. LeftOf(p, q, 0)
  <2>1. DOMAIN p = HeldFields
    BY DEF HoldingOk
  <2>2. q = [p EXCEPT !.high = B!Greater(p.high, b.close)]
    BY <2>1 DEF HeldFields
  <2> HIDE DEF q
  <2> QED
    BY <2>2, PeakMoved
<1>2. HoldingOk(q) /\ p.qty \in Nat /\ p.qty > 0 /\ q.qty = p.qty /\ p.entry_fee = q.entry_fee
  BY <1>1 DEF LeftOf, HoldingOk
<1> HIDE DEF q
<1>3. n \in Nat /\ n < q.qty
  <2> DEFINE d == q.qty
             e == x1.partial_exit_pct
  <2>1. d \in Nat /\ d > 0 /\ e \in Nat /\ e < 100
    BY <1>2 DEF StudyRuleOk
  <2>2. n = (d * e) \div 100 \/ n = 0
    BY DEF B!PartToSell
  <2> HIDE DEF d, e, n
  <2>3. d * e \in Nat /\ d * e < d * 100
    <3>1. \A i, j, k \in Nat : i > 0 /\ j < k => i * j < i * k /\ i * j \in Nat
      OBVIOUS
    <3> QED
      BY <2>1, <3>1
  <2>4. \A y, i \in Nat : y < i * 100 => y \div 100 \in Nat /\ y \div 100 < i
    OBVIOUS
  <2>5. (d * e) \div 100 \in Nat /\ (d * e) \div 100 < d
    BY <2>1, <2>3, <2>4
  <2> QED
    BY <2>1, <2>2, <2>5 DEF d
<1> HIDE DEF n
<1>4. LeftOf(p, r, n)
  <2>1. LeftOf(q, B!Less(q, n), n)
    BY <1>2, <1>3, SharesGone
  <2> DEFINE l == B!Less(q, n)
  <2>2. HoldingOk(l)
    BY <2>1 DEF LeftOf
  <2>3. LeftOf(l, B!Ratchet(l, b), 0)
    BY <2>2, StopMoved
  <2>4. r = B!Ratchet(l, b) /\ LeftOf(q, l, n)
    BY <2>1
  <2> HIDE DEF l, r
  <2> QED
    BY <1>1, <1>2, <1>3, <2>2, <2>3, <2>4 DEF LeftOf, HoldingOk
<1> HIDE DEF r
<1>5. /\ \/ c.part = n /\ c.after = r
         \/ c.part = 0 /\ c.after = q
      /\ c.rest = 0 \/ c.rest = c.after.qty
  BY DEF B!Check, q, n, r
<1> HIDE DEF c, LeftOf
<1>6. c.part \in Nat /\ c.part < p.qty /\ LeftOf(p, c.after, c.part)
  BY <1>1, <1>2, <1>3, <1>4, <1>5
<1> QED
  BY <1>5, <1>6 DEF CheckOk, c

StudyInvested(p) == [s \in DOMAIN p |-> p[s].qty * p[s].entry + p[s].entry_fee]
StudyEntryFees(p) == [s \in DOMAIN p |-> p[s].entry_fee]

\* What the books rest on: cash and what is invested are the capital and the pnl; the
\* fees of the log are those of its round trips and of what is held; and a position
\* remembers the last close there was before today's.
StudyBooks ==
  /\ x1 \in StudyRules
  /\ DOMAIN x4 \subseteq StudySyms /\ \A s \in DOMAIN x4 : x4[s] \in StudyBars
  /\ x7 \in Nat /\ DOMAIN x9 = {"pnl", "fee", "fee_rt"} /\ x9.pnl \in Int /\ x9.fee \in Int /\ x9.fee_rt \in Int
  /\ DOMAIN x8 \subseteq StudySyms /\ \A s \in DOMAIN x8 : HoldingOk(x8[s])
  /\ x3 = "buying" => x5 \in Once(DOMAIN x4 \ DOMAIN x8)
  /\ DOMAIN x8 \cup DOMAIN x4 \subseteq DOMAIN x11 /\ \A s \in DOMAIN x11 : x11[s] \in Nat
  /\ \A s \in DOMAIN x4 : x11[s] = x4[s].close
  /\ \A s \in DOMAIN x8 \ DOMAIN x4 : x8[s].last_price = x11[s]
  /\ x7 = StudyCash + x9.pnl - Tally(StudyInvested(x8))
  /\ x9.fee = x9.fee_rt + Tally(StudyEntryFees(x8))
  /\ x3 = "night" => /\ DOMAIN x4 = {}
                     /\ x10 = x7 + Tally([s \in DOMAIN x8 |-> x8[s].qty * x11[s]])

LEMMA StudySums ==
  ASSUME NEW p, \A s \in DOMAIN p : HoldingOk(p[s])
  PROVE  StudyInvested(p) \in [DOMAIN p -> Int] /\ StudyEntryFees(p) \in [DOMAIN p -> Int]
<1>1. \A a, b, c \in Nat : a * b + c \in Int
  OBVIOUS
<1>2. \A s \in DOMAIN p : p[s].qty * p[s].entry + p[s].entry_fee \in Int /\ p[s].entry_fee \in Int
  BY <1>1 DEF HoldingOk
<1> QED
  BY <1>2 DEF StudyInvested, StudyEntryFees

LEMMA StudyInit == ASSUME StudySettings, B!Init PROVE StudyBooks
<1>1. /\ x1 \in StudyRules /\ x3 = "night" /\ x7 = StudyCash /\ x10 = StudyCash /\ StudyCash \in Nat
      /\ x9 = [pnl |-> 0, fee |-> 0, fee_rt |-> 0]
      /\ x4 = [s \in {} |-> 0] /\ x8 = [s \in {} |-> 0] /\ x11 = [s \in {} |-> 0]
  BY DEF B!Init, B!Nothing, StudySettings
<1>2. DOMAIN x4 = {} /\ DOMAIN x8 = {} /\ DOMAIN x11 = {}
  BY <1>1
<1>3. /\ StudyInvested(x8) \in [{} -> Int] /\ StudyEntryFees(x8) \in [{} -> Int]
      /\ [s \in DOMAIN x8 |-> x8[s].qty * x11[s]] \in [{} -> Int]
  BY <1>2 DEF StudyInvested, StudyEntryFees
<1>4. /\ Tally(StudyInvested(x8)) = 0 /\ Tally(StudyEntryFees(x8)) = 0
      /\ Tally([s \in DOMAIN x8 |-> x8[s].qty * x11[s]]) = 0
  BY <1>3, TallyNone, Zenon
<1> QED
  BY <1>1, <1>2, <1>4 DEF StudyBooks

LEMMA StudyNewDay == ASSUME StudySettings, StudyBooks, B!StartDay PROVE StudyBooks'
<1>1. /\ DOMAIN x4' \subseteq StudySyms /\ \A s \in DOMAIN x4' : x4'[s] \in StudyBars
      /\ x3 = "night" /\ x3' = "exits" /\ UNCHANGED <<x1, x5, x7, x8, x9, x10>>
      /\ x11' = B!Update(x11, [s \in DOMAIN x4' |-> x4'[s].close])
  BY DEF B!StartDay
<1>2. /\ DOMAIN x11' = DOMAIN x11 \cup DOMAIN x4'
      /\ \A s \in DOMAIN x11' : x11'[s] = IF s \in DOMAIN x4' THEN x4'[s].close ELSE x11[s]
  BY <1>1 DEF B!Update
<1>3. \A s \in DOMAIN x4' : x4'[s].close \in Nat
  BY <1>1 DEF StudySettings, StudyBarOk
<1>4. \A s \in DOMAIN x11' : x11'[s] \in Nat
  BY <1>2, <1>3 DEF StudyBooks
<1>5. \A s \in DOMAIN x8' \ DOMAIN x4' : x8'[s].last_price = x11'[s]
  BY <1>1, <1>2 DEF StudyBooks
<1>6. DOMAIN x8' \cup DOMAIN x4' \subseteq DOMAIN x11' /\ \A s \in DOMAIN x4' : x11'[s] = x4'[s].close
  BY <1>1, <1>2 DEF StudyBooks
<1> QED
  BY <1>1, <1>4, <1>5, <1>6 DEF StudyBooks

\* What is sold of a position brings what it cost and what is earned by it; what is left
\* of it cost the rest.
LEMMA StudySale ==
  ASSUME StudySettings, StudyBooks, NEW s \in DOMAIN x8, s \in DOMAIN x4
  PROVE  /\ B!Proceeds(s) - B!ExitFee(s) \in Nat /\ B!ExitFee(s) \in Nat
         /\ B!Pnl(s) \in Int /\ B!RoundTrip(s) \in Int
         /\ x8[s].qty * x8[s].entry + x8[s].entry_fee =
              (B!Proceeds(s) - B!ExitFee(s)) - B!Pnl(s)
              + (IF B!Checked(s).rest = 0
                   THEN B!Checked(s).after.qty * B!Checked(s).after.entry + B!Checked(s).after.entry_fee ELSE 0)
         /\ x8[s].entry_fee =
              B!RoundTrip(s) - B!ExitFee(s) + (IF B!Checked(s).rest = 0 THEN B!Checked(s).after.entry_fee ELSE 0)
         /\ LeftOf(x8[s], B!Checked(s).after, B!Checked(s).part)
<1> DEFINE p == x8[s]
           c == B!Checked(s)
           a == c.after
           n == c.part
           r == c.rest
           price0 == x4[s].close
           sold == n + r
           fee == B!ExitFee(s)
           entryFee == B!EntryFee(s)
<1>1. HoldingOk(p) /\ price0 \in Nat /\ StudyRuleOk(x1)
  BY DEF StudyBooks, StudySettings, StudyBarOk
<1>2. CheckOk(p, c)
  BY <1>1, StudyCheck DEF B!Checked
<1>3. /\ p.qty \in Nat /\ p.entry \in Nat /\ p.entry_fee \in Nat /\ n \in Nat /\ n < p.qty
      /\ a.qty = p.qty - n /\ a.entry = p.entry /\ a.entry_fee \in Nat /\ a.entry_fee <= p.entry_fee
      /\ n = 0 => a.entry_fee = p.entry_fee
      /\ r = 0 \/ r = p.qty - n
  BY <1>1, <1>2 DEF CheckOk, LeftOf, HoldingOk
<1>4. \A i, j \in Nat : i * j \in Nat
  OBVIOUS
<1>5. /\ B!Proceeds(s) = sold * price0 /\ fee = B!Fee(n * price0) + B!Fee(r * price0)
      /\ entryFee = p.entry_fee - (IF r > 0 THEN 0 ELSE a.entry_fee)
      /\ B!Pnl(s) = sold * (price0 - p.entry) - entryFee - fee
      /\ B!RoundTrip(s) = IF sold > 0 THEN entryFee + fee ELSE 0
  BY DEF B!Proceeds, B!ExitFee, B!EntryFee, B!Pnl, B!RoundTrip, B!QtySold, B!Gain
<1> HIDE DEF c
<1>6. r \in Nat /\ n * price0 \in Nat /\ r * price0 \in Nat /\ sold \in Nat
  BY <1>1, <1>3, <1>4
<1>7. /\ B!Fee(n * price0) \in Nat /\ B!Fee(n * price0) <= n * price0
      /\ B!Fee(r * price0) \in Nat /\ B!Fee(r * price0) <= r * price0
  BY <1>6, StudyFee
<1>8. /\ sold * price0 = n * price0 + r * price0
      /\ sold * (price0 - p.entry) = sold * price0 - sold * p.entry
      /\ sold * price0 \in Nat /\ sold * p.entry \in Nat
  <2>1. \A i, j, k \in Nat : (i + j) * k = i * k + j * k /\ i * (j - k) = i * j - i * k /\ i * j \in Nat
    OBVIOUS
  <2>2. sold * price0 = n * price0 + r * price0
    BY <1>1, <1>3, <1>6, <2>1
  <2> HIDE DEF sold
  <2>3. /\ sold * (price0 - p.entry) = sold * price0 - sold * p.entry
        /\ sold * price0 \in Nat /\ sold * p.entry \in Nat
    BY <1>1, <1>3, <1>6, <2>1
  <2> QED
    BY <2>2, <2>3
<1>9. p.qty * p.entry = sold * p.entry + (IF r = 0 THEN a.qty * a.entry ELSE 0)
  <2>1. \A i, j, k \in Nat : j <= i => i * k = j * k + (i - j) * k /\ i * k \in Int
    OBVIOUS
  <2>2. CASE r = 0
    <3>1. p.qty * p.entry = n * p.entry + (p.qty - n) * p.entry
      BY <1>3, <2>1
    <3> QED
      BY <1>3, <2>2, <3>1
  <2>3. CASE r # 0
    <3>1. sold = p.qty
      BY <1>3, <2>3
    <3>2. p.qty * p.entry \in Nat
      BY <1>3, <1>4
    <3> QED
      BY <2>3, <3>1, <3>2
  <2> QED
    BY <2>2, <2>3
<1>10. a.qty * a.entry \in Nat
  <2>1. p.qty - n \in Nat
    BY <1>3
  <2> QED
    BY <1>3, <1>4, <2>1
<1>11. fee \in Nat /\ fee <= sold * price0
  BY <1>5, <1>6, <1>7, <1>8
<1>12. entryFee \in Int /\ (entryFee = p.entry_fee - (IF r = 0 THEN a.entry_fee ELSE 0))
  BY <1>3, <1>5, <1>6
<1>13. sold = 0 => fee = 0 /\ r = 0 /\ a.entry_fee = p.entry_fee
  <2>1. \A j \in Nat : 0 * j = 0
    OBVIOUS
  <2>2. B!Fee(0) = 0
    BY StudyFee
  <2>3. sold = 0 => n = 0 /\ r = 0
    BY <1>3, <1>6
  <2> QED
    BY <1>1, <1>3, <1>5, <2>1, <2>2, <2>3
<1>14. LeftOf(p, a, n)
  BY <1>2 DEF CheckOk
<1> DEFINE whole == p.qty * p.entry
           cost == sold * p.entry
           take == sold * price0
           kept == a.qty * a.entry
           diff == sold * (price0 - p.entry)
<1>15. /\ whole = cost + (IF r = 0 THEN kept ELSE 0) /\ diff = take - cost
       /\ take \in Nat /\ cost \in Nat /\ kept \in Nat /\ fee <= take
       /\ B!Proceeds(s) = take /\ B!Pnl(s) = diff - entryFee - fee
  BY <1>5, <1>8, <1>9, <1>10, <1>11
<1> HIDE DEF whole, cost, take, kept, diff, fee, entryFee, p, a, n, r
<1>16. take - fee \in Nat /\ B!Pnl(s) \in Int /\ B!RoundTrip(s) \in Int
  BY <1>5, <1>11, <1>12, <1>15
<1>17. whole + p.entry_fee = (take - fee) - B!Pnl(s) + (IF r = 0 THEN kept + a.entry_fee ELSE 0)
  BY <1>3, <1>11, <1>12, <1>15
<1>18. p.entry_fee = B!RoundTrip(s) - fee + (IF r = 0 THEN a.entry_fee ELSE 0)
  <2> HIDE DEF sold
  <2> QED
    BY <1>3, <1>5, <1>6, <1>11, <1>12, <1>13
<1> QED
  BY <1>11, <1>14, <1>15, <1>16, <1>17, <1>18 DEF whole, kept, fee, p, a, n, r, c

LEMMA StudyExits == ASSUME StudySettings, StudyBooks, B!Exits PROVE StudyBooks'
<1> DEFINE own == DOMAIN x8
           inPlay == B!InPlay
           rest == B!Kept
           gain == [s \in inPlay |-> B!Proceeds(s) - B!ExitFee(s)]
           pnl == [s \in inPlay |-> B!Pnl(s)]
           exit == [s \in inPlay |-> B!ExitFee(s)]
           round == [s \in inPlay |-> B!RoundTrip(s)]
           f == StudyInvested(x8)
           h == StudyInvested(x8')
           e == StudyEntryFees(x8)
           k == StudyEntryFees(x8')
<1>1. /\ IsFiniteSet(own) /\ inPlay \in SUBSET own /\ rest \in SUBSET own
      /\ \A s \in own : s \in inPlay <=> s \in DOMAIN x4
      /\ \A s \in own : s \in rest <=> (s \in inPlay => B!Checked(s).rest = 0)
  BY FS_Subset DEF StudySettings, StudyBooks, B!InPlay, B!Kept
<1>2. /\ UNCHANGED <<x1, x4, x5, x10, x11>> /\ x3' = "entries"
      /\ x7' = x7 + Tally(gain)
      /\ x9' = [pnl |-> x9.pnl + Tally(pnl), fee |-> x9.fee + Tally(exit), fee_rt |-> x9.fee_rt + Tally(round)]
      /\ x8' = [s \in rest |-> IF s \in inPlay THEN B!Checked(s).after ELSE x8[s]]
  BY StudyTallies DEF B!Exits
<1>3. \A s \in inPlay :
        /\ B!Proceeds(s) - B!ExitFee(s) \in Nat /\ B!ExitFee(s) \in Nat
        /\ B!Pnl(s) \in Int /\ B!RoundTrip(s) \in Int
        /\ x8[s].qty * x8[s].entry + x8[s].entry_fee =
             (B!Proceeds(s) - B!ExitFee(s)) - B!Pnl(s)
             + (IF B!Checked(s).rest = 0
                  THEN B!Checked(s).after.qty * B!Checked(s).after.entry + B!Checked(s).after.entry_fee ELSE 0)
        /\ x8[s].entry_fee =
             B!RoundTrip(s) - B!ExitFee(s) + (IF B!Checked(s).rest = 0 THEN B!Checked(s).after.entry_fee ELSE 0)
        /\ LeftOf(x8[s], B!Checked(s).after, B!Checked(s).part)
  BY <1>1, StudySale
<1>4. gain \in [inPlay -> Nat] /\ gain \in [inPlay -> Int] /\ pnl \in [inPlay -> Int]
      /\ exit \in [inPlay -> Int] /\ round \in [inPlay -> Int]
  BY <1>3
<1>5. /\ DOMAIN x8' = rest
      /\ \A s \in rest : x8'[s] = IF s \in inPlay THEN B!Checked(s).after ELSE x8[s]
  BY <1>2
<1>6. \A s \in rest : HoldingOk(x8'[s])
  BY <1>1, <1>3, <1>5 DEF LeftOf, StudyBooks
<1>7. \A s \in own : HoldingOk(x8[s])
  BY DEF StudyBooks
<1>8. f \in [own -> Int] /\ h \in [rest -> Int] /\ e \in [own -> Int] /\ k \in [rest -> Int]
  BY <1>5, <1>6, <1>7, StudySums
<1>9. Earns(own, inPlay, rest, f, gain, pnl, h)
  <2> SUFFICES ASSUME NEW s \in own
               PROVE  f[s] = (IF s \in inPlay THEN gain[s] - pnl[s] ELSE 0) + (IF s \in rest THEN h[s] ELSE 0)
    BY DEF Earns
  <2>1. f[s] = x8[s].qty * x8[s].entry + x8[s].entry_fee /\ f[s] \in Int
    BY <1>8 DEF StudyInvested
  <2>2. s \in rest => h[s] = x8'[s].qty * x8'[s].entry + x8'[s].entry_fee /\ h[s] \in Int
    BY <1>5, <1>8 DEF StudyInvested
  <2>3. CASE s \in inPlay
    <3>1. gain[s] = B!Proceeds(s) - B!ExitFee(s) /\ pnl[s] = B!Pnl(s)
      BY <2>3
    <3>2. s \in rest => x8'[s] = B!Checked(s).after
      BY <1>5, <2>3
    <3>3. s \in rest <=> B!Checked(s).rest = 0
      BY <1>1, <2>3
    <3> HIDE DEF f, h, gain, pnl, inPlay, rest
    <3> QED
      BY <1>3, <2>1, <2>2, <2>3, <3>1, <3>2, <3>3
  <2>4. CASE s \notin inPlay
    <3>1. s \in rest /\ x8'[s] = x8[s]
      BY <1>1, <1>5, <2>4
    <3> HIDE DEF f, h, gain, pnl, inPlay, rest
    <3> QED
      BY <2>1, <2>2, <2>4, <3>1
  <2> QED
    BY <2>3, <2>4
<1>10. Earns(own, inPlay, rest, e, round, exit, k)
  <2> SUFFICES ASSUME NEW s \in own
               PROVE  e[s] = (IF s \in inPlay THEN round[s] - exit[s] ELSE 0) + (IF s \in rest THEN k[s] ELSE 0)
    BY DEF Earns
  <2>1. e[s] = x8[s].entry_fee /\ e[s] \in Int
    BY <1>8 DEF StudyEntryFees
  <2>2. s \in rest => k[s] = x8'[s].entry_fee /\ k[s] \in Int
    BY <1>5, <1>8 DEF StudyEntryFees
  <2>3. CASE s \in inPlay
    <3>1. round[s] = B!RoundTrip(s) /\ exit[s] = B!ExitFee(s)
      BY <2>3
    <3>2. s \in rest => x8'[s] = B!Checked(s).after
      BY <1>5, <2>3
    <3>3. s \in rest <=> B!Checked(s).rest = 0
      BY <1>1, <2>3
    <3> HIDE DEF e, k, round, exit, inPlay, rest
    <3> QED
      BY <1>3, <2>1, <2>2, <2>3, <3>1, <3>2, <3>3
  <2>4. CASE s \notin inPlay
    <3>1. s \in rest /\ x8'[s] = x8[s]
      BY <1>1, <1>5, <2>4
    <3> HIDE DEF e, k, round, exit, inPlay, rest
    <3> QED
      BY <2>1, <2>2, <2>4, <3>1
  <2> QED
    BY <2>3, <2>4
<1>11. \A s \in DOMAIN x8' \ DOMAIN x4' : x8'[s].last_price = x11'[s]
  <2>1. \A s \in rest \ DOMAIN x4 : s \in own /\ x8'[s] = x8[s]
    BY <1>1, <1>5
  <2> QED
    BY <1>2, <1>5, <2>1 DEF StudyBooks
<1>12. DOMAIN x8' \subseteq StudySyms /\ DOMAIN x8' \cup DOMAIN x4' \subseteq DOMAIN x11'
  BY <1>1, <1>2, <1>5 DEF StudyBooks
<1> HIDE DEF own, inPlay, rest, gain, pnl, exit, round, f, h, e, k
<1>13. /\ Tally(f) + Tally(pnl) = Tally(gain) + Tally(h)
       /\ Tally(f) \in Int /\ Tally(pnl) \in Int /\ Tally(gain) \in Int /\ Tally(h) \in Int
  BY <1>1, <1>4, <1>8, <1>9, TallyEarned, Zenon
<1>14. /\ Tally(e) + Tally(exit) = Tally(round) + Tally(k)
       /\ Tally(e) \in Int /\ Tally(exit) \in Int /\ Tally(round) \in Int /\ Tally(k) \in Int
  BY <1>1, <1>4, <1>8, <1>10, TallyEarned, Zenon
<1>15. Tally(gain) \in Nat
  <2>1. IsFiniteSet(inPlay)
    BY <1>1, FS_Subset
  <2> QED
    BY <1>4, <2>1, TallyNat
<1>16. /\ x9'.pnl = x9.pnl + Tally(pnl) /\ x9'.fee = x9.fee + Tally(exit) /\ x9'.fee_rt = x9.fee_rt + Tally(round)
       /\ DOMAIN x9' = {"pnl", "fee", "fee_rt"}
  BY <1>2
<1>17. /\ x7 \in Nat /\ x9.pnl \in Int /\ x9.fee \in Int /\ x9.fee_rt \in Int /\ StudyCash \in Nat
       /\ x7 = StudyCash + x9.pnl - Tally(f) /\ x9.fee = x9.fee_rt + Tally(e)
  BY DEF StudyBooks, StudySettings, f, e
<1>18. /\ x7' \in Nat /\ x9'.pnl \in Int /\ x9'.fee \in Int /\ x9'.fee_rt \in Int
       /\ x7' = StudyCash + x9'.pnl - Tally(h) /\ x9'.fee = x9'.fee_rt + Tally(k)
  BY <1>2, <1>13, <1>14, <1>15, <1>16, <1>17
<1>19. x3' # "buying" /\ x3' # "night" /\ \A s \in DOMAIN x8' : HoldingOk(x8'[s])
  BY <1>2, <1>5, <1>6
<1> QED
  BY <1>2, <1>11, <1>12, <1>16, <1>18, <1>19 DEF StudyBooks, h, k

LEMMA StudyRanks == ASSUME StudySettings, StudyBooks, B!RankDay PROVE StudyBooks'
<1> DEFINE free == DOMAIN x4 \ DOMAIN x8
           them == B!Candidates
<1>1. UNCHANGED <<x1, x4, x7, x8, x9, x10, x11>> /\ x3' = "buying"
  BY DEF B!RankDay
<1>2. IsFiniteSet(them) /\ them \in SUBSET free
  BY FS_Subset DEF B!Candidates, StudySettings, StudyBooks
<1>3. CASE x5' = <<>>
  <2>1. x5' \in Once(free)
    BY <1>3 DEF Once
  <2> QED
    BY <1>1, <2>1 DEF StudyBooks
<1>4. CASE x5' \in B!Orders(them)
  <2>1. /\ x5' \in [1 .. Cardinality(them) -> them]
        /\ \A i, j \in 1 .. Cardinality(them) : i # j => x5'[i] # x5'[j]
    BY <1>4, StudyTallies DEF B!Orders, B!Injection, B!IsInjective
  <2> HIDE DEF them
  <2>2. x5' \in Once(them)
    BY <1>2, <2>1, ListedOnce
  <2>3. x5' \in Seq(them) /\ \A i \in DOMAIN x5' : x5'[i] \in free
    BY <1>2, <2>2 DEF Once
  <2> HIDE DEF free
  <2>4. x5' \in Seq(free)
    BY <2>3, SeqOver, Zenon
  <2>5. x5' \in Once(free)
    BY <2>2, <2>4 DEF Once
  <2> QED
    BY <1>1, <2>5 DEF StudyBooks, free
<1>5. x5' = <<>> \/ x5' \in B!Orders(them)
  BY DEF B!RankDay
<1> QED
  BY <1>3, <1>4, <1>5

\* What is wanted is a number of shares.
LEMMA StudyWanted ==
  ASSUME StudySettings, StudyBooks, NEW s \in DOMAIN x4, B!AtrRead \in Nat
  PROVE  B!Wanted(s) \in Int
<1> DEFINE inPlay == B!InPlay
           held0 == [t \in inPlay |-> x8[t].qty * x4[t].close]
           c == x4[s].close
           atr == B!AtrRead
           amount == B!Worth * x1.position_pct
<1>1. IsFiniteSet(inPlay) /\ \A t \in inPlay : x8[t].qty \in Nat /\ x4[t].close \in Nat
  BY FS_Subset DEF B!InPlay, StudySettings, StudyBooks, StudyBarOk, HoldingOk
<1>2. held0 \in [inPlay -> Int]
  <2>1. \A a, b \in Nat : a * b \in Int
    OBVIOUS
  <2> QED
    BY <1>1, <2>1
<1>3. B!Worth = x7 + Tally(held0)
  BY StudyTallies DEF B!Worth
<1> HIDE DEF inPlay, held0
<1>4. B!Worth \in Int
  <2>1. Tally(held0) \in Int
    BY <1>1, <1>2, TallyOver
  <2> QED
    BY <1>3, <2>1 DEF StudyBooks
<1>5. /\ c \in Nat /\ c > 0 /\ x1.position_pct \in Nat /\ x1.target_atr_pct \in Nat
      /\ x1.vol_mult_min \in Nat /\ x1.vol_mult_max \in Nat
  BY DEF StudyBooks, StudySettings, StudyBarOk, StudyRuleOk
<1>6. \A a, b \in Int : a * b \in Int /\ (b > 0 => a \div b \in Int)
  OBVIOUS
<1>7. amount \in Int
  BY <1>4, <1>5, <1>6
<1>8. B!Wanted(s) \in {amount \div (100 * c), (amount * x1.vol_mult_max) \div (10000 * c),
                       (amount * x1.vol_mult_min) \div (10000 * c)}
      \/ (atr # 0 /\ B!Wanted(s) = (amount * x1.target_atr_pct) \div (10000 * atr))
  BY DEF B!Wanted
<1> HIDE DEF amount, c, atr
<1>9. 100 * c \in Int /\ 100 * c > 0 /\ 10000 * c \in Int /\ 10000 * c > 0
  BY <1>5
<1>10. atr # 0 => 10000 * atr \in Int /\ 10000 * atr > 0
  BY DEF atr
<1>11. /\ amount \div (100 * c) \in Int
       /\ (amount * x1.vol_mult_max) \div (10000 * c) \in Int
       /\ (amount * x1.vol_mult_min) \div (10000 * c) \in Int
  BY <1>5, <1>6, <1>7, <1>9
<1>12. atr # 0 => (amount * x1.target_atr_pct) \div (10000 * atr) \in Int
  BY <1>5, <1>6, <1>7, <1>10
<1> QED
  BY <1>8, <1>11, <1>12

\* What is bought is paid for, its fee included.
LEMMA StudyAffords ==
  ASSUME StudySettings, StudyBooks, NEW s \in DOMAIN x4, B!AtrRead \in Nat, B!Shares(s) > 0
  PROVE  /\ B!Shares(s) \in Nat /\ B!Shares(s) * x4[s].close \in Nat
         /\ B!Shares(s) * x4[s].close + B!Fee(B!Shares(s) * x4[s].close) <= x7
<1> DEFINE c == x4[s].close
           w == B!Wanted(s)
           n == B!Shares(s)
           d == StudyFeeDen
<1>1. c \in Nat /\ c > 0 /\ d \in Nat /\ d > 0 /\ x7 \in Nat
  BY DEF StudyBooks, StudySettings, StudyBarOk
<1>2. w \in Int
  BY StudyWanted
<1>3. n = IF w * c + (w * c) \div d > x7 THEN (x7 * d) \div (c * (d + 1)) ELSE w
  BY DEF B!Shares, B!Fee
<1>4. B!Fee(n * c) = (n * c) \div d
  BY DEF B!Fee
<1>5. n > 0
  OBVIOUS
<1> HIDE DEF c, w, n, d
<1>6. \A a, b \in Int : a * b \in Int /\ (b > 0 => a \div b \in Int)
  OBVIOUS
<1>7. x7 * d \in Nat /\ c * (d + 1) \in Nat /\ c * (d + 1) > 0
  <2>1. \A a, b \in Nat : a * b \in Nat /\ (a > 0 /\ b > 0 => a * b > 0)
    OBVIOUS
  <2>2. d + 1 \in Nat /\ d + 1 > 0
    BY <1>1
  <2> QED
    BY <1>1, <2>1, <2>2
<1>8. w * c \in Int /\ (w * c) \div d \in Int
  BY <1>1, <1>2, <1>6
<1>9. CASE ~ (w * c + (w * c) \div d > x7)
  <2>1. n = w /\ w * c + (w * c) \div d <= x7
    BY <1>1, <1>3, <1>8, <1>9
  <2>2. w \in Nat /\ w * c \in Nat
    <3>1. \A a, b \in Nat : a * b \in Nat
      OBVIOUS
    <3> QED
      BY <1>1, <1>2, <1>5, <2>1, <3>1
  <2> QED
    BY <1>4, <2>1, <2>2 DEF n, c
<1>10. CASE w * c + (w * c) \div d > x7
  <2> DEFINE y == n * c
             k == y \div d
  <2>1. n = (x7 * d) \div (c * (d + 1)) /\ n \in Nat
    <3>1. \A a, b \in Nat : b > 0 => a \div b \in Nat
      OBVIOUS
    <3> QED
      BY <1>3, <1>7, <1>10, <3>1
  <2>2. y \in Nat
    <3>1. \A a, b \in Nat : a * b \in Nat
      OBVIOUS
    <3> QED
      BY <1>1, <2>1, <3>1
  <2>3. (c * (d + 1)) * n <= x7 * d
    <3>1. \A a, b \in Nat : b > 0 => b * (a \div b) <= a
      OBVIOUS
    <3> HIDE DEF y, k
    <3> QED
      BY <1>7, <2>1, <3>1
  <2>4. (c * (d + 1)) * n = y * d + y
    <3>1. \A i, j, l \in Nat : (i * (j + 1)) * l = (l * i) * j + l * i
      OBVIOUS
    <3> QED
      BY <1>1, <2>1, <3>1
  <2> HIDE DEF y
  <2>5. k \in Nat /\ k * d <= y
    <3>1. \A a, b \in Nat : b > 0 => a \div b \in Nat /\ (a \div b) * b <= a
      OBVIOUS
    <3> QED
      BY <1>1, <2>2, <3>1
  <2> HIDE DEF k
  <2>6. (y + k) * d <= x7 * d
    <3>1. \A i, j, l \in Nat : (i + j) * l = i * l + j * l /\ i * l \in Nat
      OBVIOUS
    <3>2. (y + k) * d = y * d + k * d /\ y * d \in Nat /\ k * d \in Nat
      BY <1>1, <2>2, <2>5, <3>1
    <3> QED
      BY <1>7, <2>2, <2>3, <2>4, <2>5, <3>2
  <2>7. y + k <= x7
    <3>1. \A i, j, l \in Nat : l > 0 /\ i * l <= j * l => i <= j
      <4>1. ASSUME NEW i \in Nat, NEW j \in Nat, NEW l \in Nat, l > 0, i > j PROVE i * l > j * l
        BY <4>1
      <4>2. \A i, j \in Nat : i * j \in Nat
        OBVIOUS
      <4> QED
        BY <4>1, <4>2
    <3>2. y + k \in Nat
      BY <2>2, <2>5
    <3> QED
      BY <1>1, <2>6, <3>1, <3>2
  <2> QED
    BY <1>4, <2>1, <2>2, <2>7 DEF y, k, n, c
<1> QED
  BY <1>9, <1>10

LEMMA StudyEnters == ASSUME StudySettings, StudyBooks, B!Enter PROVE StudyBooks'
<1> DEFINE s == Head(x5)
           n == B!Shares(s)
           cost == n * x4[s].close
           fee == B!Fee(cost)
           new == B!Bought(s, n)
           free == DOMAIN x4 \ DOMAIN x8
<1>1. /\ x5 \in Once(free) /\ x5 # <<>> /\ x5' = Tail(x5) /\ B!LastSym \in DOMAIN x4
      /\ UNCHANGED <<x1, x3, x4, x10, x11>> /\ n > 0 /\ x3 = "buying"
      /\ x7' = x7 - cost - fee /\ x9' = [x9 EXCEPT !.fee = @ + fee]
      /\ x8' = B!Update(x8, [t \in {s} |-> new])
  BY DEF B!Enter, B!Buying, StudyBooks
<1>2. s \in free /\ x5' \in Once(free \ {s})
  BY <1>1, TakenOff, Zenon
<1>3. B!AtrRead \in Nat
  BY <1>1 DEF B!AtrRead, StudyBooks, StudySettings, StudyBarOk
<1>4. n \in Nat /\ cost \in Nat /\ cost + fee <= x7
  BY <1>1, <1>2, <1>3, StudyAffords
<1>5. fee \in Nat
  BY <1>4, StudyFee
<1>6. /\ DOMAIN new = HeldFields /\ new.qty = n /\ new.entry = x4[s].close /\ new.entry_fee = fee
      /\ new.last_price = x4[s].close /\ x4[s].close \in Nat
  BY <1>2 DEF B!Bought, HeldFields, StudyBooks, StudySettings, StudyBarOk
<1> HIDE DEF s, n, fee, new
<1>7. HoldingOk(new)
  BY <1>1, <1>4, <1>5, <1>6 DEF HoldingOk
<1>8. /\ DOMAIN x8' = DOMAIN x8 \cup {s} /\ x8'[s] = new
      /\ \A t \in DOMAIN x8 : t # s /\ x8'[t] = x8[t]
  BY <1>1, <1>2 DEF B!Update
<1>9. DOMAIN x8' \subseteq StudySyms /\ \A t \in DOMAIN x8' : HoldingOk(x8'[t])
  BY <1>2, <1>7, <1>8 DEF StudyBooks
<1>10. \A t \in DOMAIN x8 : HoldingOk(x8[t])
  BY DEF StudyBooks
<1> DEFINE whole == DOMAIN x8'
           old == DOMAIN x8
           one == {s}
           f == StudyInvested(x8')
           g == StudyInvested(x8)
           k == [t \in one |-> cost + fee]
           e == StudyEntryFees(x8')
           l == StudyEntryFees(x8)
           m == [t \in one |-> fee]
<1>11. IsFiniteSet(whole) /\ old \in SUBSET whole /\ one \in SUBSET whole /\ IsFiniteSet(old)
  BY <1>8, <1>9, FS_Subset DEF StudySettings
<1>12. f \in [whole -> Int] /\ g \in [old -> Int] /\ e \in [whole -> Int] /\ l \in [old -> Int]
  BY <1>9, <1>10, StudySums
<1>13. k \in [one -> Int] /\ m \in [one -> Int] /\ k[s] = cost + fee /\ m[s] = fee
  BY <1>4, <1>5
<1>14. MadeOf(whole, old, one, f, g, k) /\ MadeOf(whole, old, one, e, l, m)
  <2> SUFFICES ASSUME NEW t \in whole
               PROVE  /\ f[t] = (IF t \in old THEN g[t] ELSE 0) + (IF t \in one THEN k[t] ELSE 0)
                      /\ e[t] = (IF t \in old THEN l[t] ELSE 0) + (IF t \in one THEN m[t] ELSE 0)
    BY DEF MadeOf
  <2>1. /\ f[t] = x8'[t].qty * x8'[t].entry + x8'[t].entry_fee /\ f[t] \in Int
        /\ e[t] = x8'[t].entry_fee /\ e[t] \in Int
    BY <1>12 DEF StudyInvested, StudyEntryFees
  <2>2. CASE t = s
    <3>1. x8'[t] = new /\ t \notin old /\ k[t] = cost + fee /\ m[t] = fee
      BY <1>2, <1>8, <2>2
    <3>2. f[t] = cost + fee /\ e[t] = fee
      BY <1>6, <2>1, <2>2, <3>1
    <3> HIDE DEF f, e, k, m, old, cost
    <3> QED
      BY <2>1, <2>2, <3>1, <3>2
  <2>3. CASE t # s
    <3>1. t \in old /\ x8'[t] = x8[t]
      BY <1>8, <2>3
    <3>2. g[t] = f[t] /\ l[t] = e[t]
      BY <2>1, <3>1 DEF StudyInvested, StudyEntryFees
    <3> HIDE DEF f, e, g, l, k, m, old
    <3> QED
      BY <2>1, <2>3, <3>1, <3>2
  <2> QED
    BY <2>2, <2>3
<1>15. \A t \in DOMAIN x8' \ DOMAIN x4' : x8'[t].last_price = x11'[t]
  BY <1>1, <1>2, <1>8 DEF StudyBooks
<1>16. DOMAIN x8' \cup DOMAIN x4' \subseteq DOMAIN x11'
  BY <1>1, <1>2, <1>8 DEF StudyBooks
<1>17. x5' \in Once(DOMAIN x4' \ DOMAIN x8')
  <2>1. free \ {s} = DOMAIN x4' \ DOMAIN x8'
    BY <1>1, <1>8
  <2> QED
    BY <1>2, <2>1
<1>18. /\ x9'.pnl = x9.pnl /\ x9'.fee_rt = x9.fee_rt /\ x9'.fee = x9.fee + fee
       /\ DOMAIN x9' = {"pnl", "fee", "fee_rt"}
  BY <1>1 DEF StudyBooks
<1> HIDE DEF whole, old, f, g, k, e, l, m, cost
<1>19. Tally(f) = Tally(g) + Tally(k) /\ Tally(e) = Tally(l) + Tally(m)
  BY <1>11, <1>12, <1>13, <1>14, TallySettled, Zenon
<1>20. Tally(k) = cost + fee /\ Tally(m) = fee
  BY <1>13, TallyOne, Zenon
<1>21. Tally(g) \in Int /\ Tally(l) \in Int
  BY <1>11, <1>12, TallyOver
<1>22. /\ x7 \in Nat /\ x9.pnl \in Int /\ x9.fee \in Int /\ x9.fee_rt \in Int /\ StudyCash \in Nat
       /\ x7 = StudyCash + x9.pnl - Tally(g) /\ x9.fee = x9.fee_rt + Tally(l)
  BY DEF StudyBooks, StudySettings, g, l
<1>23. /\ x7' \in Nat /\ x9'.pnl \in Int /\ x9'.fee \in Int /\ x9'.fee_rt \in Int
       /\ x7' = StudyCash + x9'.pnl - Tally(f) /\ x9'.fee = x9'.fee_rt + Tally(e)
  <2> DEFINE b == x9.pnl
             c == x9.fee
             r == x9.fee_rt
  <2>1. /\ x7 \in Nat /\ b \in Int /\ c \in Int /\ r \in Int /\ StudyCash \in Nat
        /\ x7 = StudyCash + b - Tally(g) /\ c = r + Tally(l)
    BY <1>22
  <2>2. x9'.pnl = b /\ x9'.fee_rt = r /\ x9'.fee = c + fee
    BY <1>18
  <2>3. x7' = x7 - cost - fee
    BY <1>1
  <2> HIDE DEF b, c, r
  <2>4. x7' \in Nat /\ x7' = StudyCash + b - Tally(f)
    BY <1>4, <1>5, <1>19, <1>20, <1>21, <2>1, <2>3
  <2>5. c + fee = r + Tally(e) /\ c + fee \in Int
    BY <1>5, <1>19, <1>20, <1>21, <2>1
  <2> QED
    BY <2>1, <2>2, <2>4, <2>5
<1> QED
  BY <1>1, <1>9, <1>15, <1>16, <1>17, <1>18, <1>23 DEF StudyBooks, f, e

LEMMA StudyMarks == ASSUME StudySettings, StudyBooks, B!Mark PROVE StudyBooks'
<1> DEFINE own == DOMAIN x8
           worth == [s \in own |-> x8[s].qty * x11[s]]
<1>1. \A s \in own : B!PriceOf(s) = x11[s] /\ HoldingOk(x8[s]) /\ x11[s] \in Nat
  BY DEF StudyBooks, B!PriceOf
<1>2. /\ UNCHANGED <<x1, x7, x9, x11>> /\ x3' = "night" /\ DOMAIN x4' = {}
      /\ x8' = [s \in own |-> [x8[s] EXCEPT !.last_price = B!PriceOf(s)]]
      /\ x10' = x7 + Tally([s \in own |-> x8[s].qty * B!PriceOf(s)])
  BY StudyTallies DEF B!Mark, B!Nothing
<1>3. x10' = x7 + Tally(worth)
  <2>1. [s \in own |-> x8[s].qty * B!PriceOf(s)] = worth
    BY <1>1
  <2> QED
    BY <1>2, <2>1
<1>4. DOMAIN x8' = own
  BY <1>2
<1>5. \A s \in own : /\ DOMAIN x8'[s] = HeldFields /\ x8'[s].qty = x8[s].qty /\ x8'[s].entry = x8[s].entry
                     /\ x8'[s].entry_fee = x8[s].entry_fee /\ x8'[s].last_price = x11[s]
  <2> SUFFICES ASSUME NEW s \in own
               PROVE  /\ DOMAIN x8'[s] = HeldFields /\ x8'[s].qty = x8[s].qty /\ x8'[s].entry = x8[s].entry
                      /\ x8'[s].entry_fee = x8[s].entry_fee /\ x8'[s].last_price = x11[s]
    OBVIOUS
  <2> DEFINE p == x8[s]
             q == x8'[s]
             c == x11[s]
  <2>1. DOMAIN p = HeldFields
    BY <1>1 DEF HoldingOk
  <2>2. q = [p EXCEPT !.last_price = c]
    BY <1>1, <1>2
  <2> HIDE DEF p, q, c
  <2>3. DOMAIN q = HeldFields /\ q.qty = p.qty /\ q.entry = p.entry /\ q.entry_fee = p.entry_fee /\ q.last_price = c
    BY <2>1, <2>2 DEF HeldFields
  <2> QED
    BY <2>3 DEF p, q, c
<1>6. \A s \in own : HoldingOk(x8'[s])
  BY <1>1, <1>5 DEF HoldingOk
<1>7. StudyInvested(x8') = StudyInvested(x8) /\ StudyEntryFees(x8') = StudyEntryFees(x8)
  BY <1>4, <1>5 DEF StudyInvested, StudyEntryFees
<1>8. [s \in DOMAIN x8' |-> x8'[s].qty * x11'[s]] = worth
  BY <1>2, <1>4, <1>5
<1>9. x10' = x7' + Tally([s \in DOMAIN x8' |-> x8'[s].qty * x11'[s]])
  <2>1. x7' = x7
    BY <1>2
  <2> HIDE DEF worth
  <2> QED
    BY <1>3, <1>8, <2>1, Zenon
<1>10. /\ x7' = StudyCash + x9'.pnl - Tally(StudyInvested(x8'))
       /\ x9'.fee = x9'.fee_rt + Tally(StudyEntryFees(x8'))
  BY <1>2, <1>7 DEF StudyBooks
<1>11. /\ \A s \in DOMAIN x8' \ DOMAIN x4' : x8'[s].last_price = x11'[s]
       /\ DOMAIN x8' \subseteq StudySyms /\ DOMAIN x8' \cup DOMAIN x4' \subseteq DOMAIN x11'
       /\ \A s \in DOMAIN x8' : HoldingOk(x8'[s])
  BY <1>2, <1>4, <1>5, <1>6 DEF StudyBooks
<1>12. /\ x1' \in StudyRules /\ DOMAIN x4' \subseteq StudySyms /\ \A s \in DOMAIN x11' : x11'[s] \in Nat
       /\ x7' \in Nat /\ DOMAIN x9' = {"pnl", "fee", "fee_rt"} /\ x9'.pnl \in Int /\ x9'.fee \in Int
       /\ x9'.fee_rt \in Int
  BY <1>2 DEF StudyBooks
<1> QED
  BY <1>2, <1>9, <1>10, <1>11, <1>12 DEF StudyBooks

LEMMA StudyBooksStep == ASSUME StudySettings, StudyBooks, [B!Next]_(B!vars) PROVE StudyBooks'
<1>1. CASE B!PassOver
  <2> DEFINE free == DOMAIN x4 \ DOMAIN x8
  <2>1. /\ x5 \in Once(free) /\ x5 # <<>> /\ x5' = Tail(x5)
        /\ UNCHANGED <<x1, x3, x4, x7, x8, x9, x10, x11>> /\ x3 = "buying"
    BY <1>1 DEF B!PassOver, B!Buying, StudyBooks
  <2>2. x5' \in Once(free \ {Head(x5)})
    BY <2>1, TakenOff, Zenon
  <2>3. x5' \in Seq(free \ {Head(x5)}) /\ \A i \in DOMAIN x5' : x5'[i] \in free
    BY <2>2 DEF Once
  <2> HIDE DEF free
  <2>4. x5' \in Seq(free)
    BY <2>3, SeqOver, Zenon
  <2>5. x5' \in Once(free)
    BY <2>2, <2>4 DEF Once
  <2> QED
    BY <2>1, <2>5 DEF StudyBooks, free
<1>2. CASE B!Abort
  BY <1>2 DEF StudyBooks, B!Abort
<1>3. CASE UNCHANGED B!vars
  BY <1>3 DEF StudyBooks, B!vars
<1>4. CASE B!Done
  BY <1>3, <1>4 DEF B!Done
<1> QED
  BY <1>1, <1>2, <1>3, <1>4, StudyNewDay, StudyExits, StudyRanks, StudyEnters, StudyMarks DEF B!Next

LEMMA StudyBooksBalance == ASSUME StudySettings, StudyBooks PROVE B!BooksBalance
<1> DEFINE own == DOMAIN x8
           worth == [s \in own |-> x8[s].qty * x11[s]]
           open == [s \in own |-> B!Open(s)]
           f == StudyInvested(x8)
<1>1. IsFiniteSet(own)
  BY FS_Subset DEF StudySettings, StudyBooks
<1>2. \A s \in own : HoldingOk(x8[s]) /\ x11[s] \in Nat
  BY DEF StudyBooks
<1>3. \A a, b, c, d \in Nat : /\ a * b = (a * (b - c) - d) + (a * c + d)
                              /\ a * b \in Int /\ a * (b - c) - d \in Int
  OBVIOUS
<1>4. \A s \in own : /\ worth[s] = open[s] + f[s]
                     /\ x8[s].qty * x11[s] \in Int /\ B!Open(s) \in Int
  <2> SUFFICES ASSUME NEW s \in own
               PROVE  /\ worth[s] = open[s] + f[s]
                      /\ x8[s].qty * x11[s] \in Int /\ B!Open(s) \in Int
    OBVIOUS
  <2>1. x8[s].qty \in Nat /\ x8[s].entry \in Nat /\ x8[s].entry_fee \in Nat /\ x11[s] \in Nat
    BY <1>2 DEF HoldingOk
  <2>2. /\ worth[s] = x8[s].qty * x11[s] /\ open[s] = B!Open(s)
        /\ f[s] = x8[s].qty * x8[s].entry + x8[s].entry_fee
        /\ B!Open(s) = x8[s].qty * (x11[s] - x8[s].entry) - x8[s].entry_fee
    BY DEF StudyInvested, B!Open
  <2> HIDE DEF worth, open, f
  <2> QED
    BY <1>3, <2>1, <2>2
<1>5. worth \in [own -> Int] /\ open \in [own -> Int]
  BY <1>4
<1>6. f \in [own -> Int]
  BY <1>2, StudySums
<1>7. \A s \in own : worth[s] = open[s] + f[s]
  BY <1>4
<1>8. /\ x3 = "night" => x10 = x7 + Tally(worth)
      /\ x7 = StudyCash + x9.pnl - Tally(f)
      /\ x9.fee = x9.fee_rt + Tally(StudyEntryFees(x8))
      /\ x7 \in Nat /\ StudyCash \in Nat /\ x9.pnl \in Int
  BY DEF StudyBooks, StudySettings
<1>9. B!BooksBalance <=>
        /\ x7 >= 0
        /\ x3 = "night" => /\ x10 = StudyCash + x9.pnl + Tally(open)
                           /\ x9.fee = x9.fee_rt + Tally(StudyEntryFees(x8))
  BY StudyTallies DEF B!BooksBalance, StudyEntryFees
<1> HIDE DEF own, worth, open, f
<1>10. Tally(worth) = Tally(open) + Tally(f)
  BY <1>1, <1>5, <1>6, <1>7, TallyPlus
<1>11. Tally(open) \in Int /\ Tally(f) \in Int
  BY <1>1, <1>5, <1>6, TallyOver
<1> QED
  BY <1>8, <1>9, <1>10, <1>11

(***************************************************************************)
(* The theorem of the three simulations.                                   *)
(***************************************************************************)
\* Whatever the bars, the signals and the rules, in every state of each simulation
\* cash is not negative and profits, fees and what is held account for all of it.
THEOREM SimulationsStayBalanced ==
  ASSUME StudySettings, SimSettings, ReplaySettings
  PROVE  PartsSpec => []SimulationsBalance
<1> DEFINE Books == /\ part = "backtest" => StudyBooks
                    /\ part = "watchlist backtest" => SimBooks
                    /\ part = "replay" => ReplayBooks
<1>1. PartsInit => Books
  BY StudyInit, SimInit, ReplayInit DEF PartsInit
<1>2. Books /\ [PartsNext]_all => Books'
  <2> SUFFICES ASSUME Books, [PartsNext]_all PROVE Books'
    OBVIOUS
  <2>1. /\ part' = part
        /\ part = "watchlist backtest" => [W!Next]_(W!vars)
        /\ part = "backtest" => [B!Next]_(B!vars)
        /\ part = "replay" => [R!Next]_(R!vars)
    BY OnePart
  <2> QED
    BY <2>1, StudyBooksStep, SimBooksStep, ReplayBooksStep
<1>3. Books => SimulationsBalance
  BY StudyBooksBalance, SimBooksBalance, ReplayBooksBalance DEF SimulationsBalance
<1> QED
  BY <1>1, <1>2, <1>3, PTL DEF PartsSpec

(***************************************************************************)
(* The composite score.  x1 is what is read of the signal, x2 its rank and *)
(* x3 the composite.                                                       *)
(***************************************************************************)
LEMMA ScoreTallies == \A f : F!Tally(f) = Tally(f)
BY DEF F!Tally, Tally

Factors == {"technical", "momentum", "sentiment", "flow", "quality", "value", "macro", "pead"}
ProfileOk(w, most) ==
  DOMAIN w \subseteq Factors /\ w \in [DOMAIN w -> Nat] /\ Tally(w) > 0 /\ Tally(w) <= most
SignalOk(i) ==
  /\ i.lstm.up \in Nat /\ i.feed.count \in Nat /\ i.feed.answer \in Int /\ i.social \in Int /\ i.net \in Int
  /\ i.recs.strongBuy \in Nat /\ i.recs.buy \in Nat /\ i.recs.hold \in Nat /\ i.recs.sell \in Nat
  /\ i.recs.strongSell \in Nat
  /\ i.macro \in 0 .. 1000 \cup {F!Missing} /\ i.pead \in 0 .. 1000
  /\ i.ranked = <<>> \/ Len(i.ranked) >= 3

\* The configuration's weights add up to 1.10, those of a regime to 1; the order of the
\* factors is of none or of three at least.
ScoreSettings ==
  /\ ScoreRanks \subseteq Nat \cup {F!Missing}
  /\ \A n \in {"TRENDING", "SIDEWAYS", "HIGH_VOL", "MIXED"} : ProfileOk(ScoreProfiles[n], 10000)
  /\ ProfileOk(ScoreProfiles["FIXED"], 11000)
  /\ \A i \in ScoredSignals : SignalOk(i)

LEMMA LesserOf == ASSUME NEW a \in Int, NEW b \in Int PROVE F!Min({a, b}) = IF a <= b THEN a ELSE b
<1>1. \E m \in {a, b} : \A n \in {a, b} : m <= n
  OBVIOUS
<1>2. F!Min({a, b}) \in {a, b} /\ \A n \in {a, b} : F!Min({a, b}) <= n
  BY <1>1 DEF F!Min
<1> QED
  BY <1>2

LEMMA GreaterOf == ASSUME NEW a \in Int, NEW b \in Int PROVE F!Max({a, b}) = IF a <= b THEN b ELSE a
<1>1. \E m \in {a, b} : \A n \in {a, b} : m >= n
  OBVIOUS
<1>2. F!Max({a, b}) \in {a, b} /\ \A n \in {a, b} : F!Max({a, b}) >= n
  BY <1>1 DEF F!Max
<1> QED
  BY <1>2

LEMMA Bounded ==
  ASSUME NEW x \in Int
  PROVE  F!Bound(x) = IF x < 0 THEN 0 ELSE IF x > 1000 THEN 1000 ELSE x
<1>1. F!Min({1000, x}) = IF 1000 <= x THEN 1000 ELSE x
  BY LesserOf
<1> DEFINE m == F!Min({1000, x})
<1>2. m \in Int
  BY <1>1
<1> HIDE DEF m
<1>3. F!Max({0, m}) = IF 0 <= m THEN m ELSE 0
  BY <1>2, GreaterOf
<1>4. F!Bound(x) = F!Max({0, m})
  BY DEF F!Bound, F!Full, m
<1> QED
  BY <1>1, <1>3, <1>4 DEF m

\* Damping a rank keeps its order.
LEMMA DampedInOrder ==
  ASSUME NEW q \in Int, NEW r \in Int, q <= r
  PROVE  F!Damped(q) \in Int /\ F!Damped(q) <= F!Damped(r) /\ (q >= 0 => F!Damped(q) >= 0)
BY DEF F!Damped, F!Overextended, F!Penalty

LEMMA MomentumInOrder ==
  ASSUME NEW q \in Nat, NEW r \in Nat, q <= r
  PROVE  F!MomentumScore(q) \in 0 .. 1000 /\ F!MomentumScore(q) <= F!MomentumScore(r)
<1>1. F!Damped(q) \in Int /\ F!Damped(r) \in Int /\ F!Damped(q) <= F!Damped(r)
  BY DampedInOrder
<1>2. F!MomentumScore(q) = F!Bound(F!Damped(q)) /\ F!MomentumScore(r) = F!Bound(F!Damped(r))
  BY DEF F!MomentumScore, F!Missing
<1> DEFINE a == F!Damped(q)
           b == F!Damped(r)
<1> HIDE DEF a, b
<1>3. a \in Int /\ b \in Int /\ a <= b
  BY <1>1 DEF a, b
<1>4. /\ F!Bound(a) = IF a < 0 THEN 0 ELSE IF a > 1000 THEN 1000 ELSE a
      /\ F!Bound(b) = IF b < 0 THEN 0 ELSE IF b > 1000 THEN 1000 ELSE b
  BY <1>3, Bounded
<1>5. F!Bound(a) \in 0 .. 1000 /\ F!Bound(a) <= F!Bound(b)
  BY <1>3, <1>4
<1> QED
  BY <1>2, <1>5 DEF a, b

\* The points for the rank, out of 400.
RankPoints(r) == F!Min({400, (F!Damped(F!Max({0, r})) * 400) \div 1000})

LEMMA RankPointsInOrder ==
  ASSUME NEW q \in Int, NEW r \in Int, q <= r
  PROVE  RankPoints(q) \in 0 .. 400 /\ RankPoints(q) <= RankPoints(r)
<1> DEFINE a == F!Max({0, q})
           b == F!Max({0, r})
           c == F!Damped(a)
           d == F!Damped(b)
           m == (c * 400) \div 1000
           n == (d * 400) \div 1000
<1>1. a = (IF 0 <= q THEN q ELSE 0) /\ b = (IF 0 <= r THEN r ELSE 0)
  BY GreaterOf
<1>2. a \in Nat /\ b \in Nat /\ a <= b
  BY <1>1
<1> HIDE DEF a, b
<1>3. c \in Int /\ c >= 0 /\ c <= d /\ d \in Int
  BY <1>2, DampedInOrder
<1>4. RankPoints(q) = F!Min({400, m}) /\ RankPoints(r) = F!Min({400, n})
  BY DEF RankPoints, a, b
<1> HIDE DEF c, d
<1>5. m \in Nat /\ n \in Nat /\ m <= n
  BY <1>3
<1> HIDE DEF m, n
<1>6. F!Min({400, m}) = (IF 400 <= m THEN 400 ELSE m) /\ F!Min({400, n}) = IF 400 <= n THEN 400 ELSE n
  BY <1>5, LesserOf
<1> QED
  BY <1>4, <1>5, <1>6

LEMMA TechnicalInOrder ==
  ASSUME NEW q \in Int, NEW r \in Int, q <= r, NEW flags, NEW lstm, lstm.up \in Nat
  PROVE  /\ F!TechnicalScore(q, flags, lstm) \in 0 .. 1000
         /\ F!TechnicalScore(q, flags, lstm) <= F!TechnicalScore(r, flags, lstm)
<1> DEFINE rest == (IF "trend" \in flags THEN 250 ELSE 0) + (IF "breakout" \in flags THEN 200 ELSE 0)
                   + (IF "volume" \in flags THEN 150 ELSE 0)
           a == F!BaseScore(q, flags)
           b == F!BaseScore(r, flags)
           c == IF F!Blends(lstm) THEN (a + lstm.up) \div 2 ELSE a
           d == IF F!Blends(lstm) THEN (b + lstm.up) \div 2 ELSE b
           up == lstm.up
           m == RankPoints(q)
           n == RankPoints(r)
<1>1. m \in 0 .. 400 /\ n \in 0 .. 400 /\ m <= n
  <2>1. m \in 0 .. 400 /\ m <= n
    BY RankPointsInOrder
  <2>2. r <= r
    OBVIOUS
  <2>3. n \in 0 .. 400
    BY <2>2, RankPointsInOrder
  <2> QED
    BY <2>1, <2>3
<1>2. rest \in 0 .. 600
  OBVIOUS
<1>3. a = m + rest /\ b = n + rest
  <2>1. m \in Int /\ n \in Int
    BY <1>1
  <2>2. /\ a = m + (IF "trend" \in flags THEN 250 ELSE 0) + (IF "breakout" \in flags THEN 200 ELSE 0)
             + (IF "volume" \in flags THEN 150 ELSE 0)
        /\ b = n + (IF "trend" \in flags THEN 250 ELSE 0) + (IF "breakout" \in flags THEN 200 ELSE 0)
             + (IF "volume" \in flags THEN 150 ELSE 0)
    BY DEF F!BaseScore, RankPoints
  <2> HIDE DEF a, b, m, n
  <2> QED
    BY <2>1, <2>2
<1> HIDE DEF rest, m, n, a, b
<1>4. a \in Nat /\ b \in Nat /\ a <= b
  BY <1>1, <1>2, <1>3
<1>5. c \in Nat /\ d \in Nat /\ c <= d
  <2>1. up \in Nat
    OBVIOUS
  <2> HIDE DEF up
  <2>2. (a + up) \div 2 \in Nat /\ (b + up) \div 2 \in Nat /\ (a + up) \div 2 <= (b + up) \div 2
    BY <1>4, <2>1
  <2> QED
    BY <1>4, <2>2 DEF up
<1>6. F!TechnicalScore(q, flags, lstm) = F!Min({1000, c}) /\ F!TechnicalScore(r, flags, lstm) = F!Min({1000, d})
  BY DEF F!TechnicalScore, F!Full, a, b
<1> HIDE DEF c, d
<1>7. F!Min({1000, c}) = (IF 1000 <= c THEN 1000 ELSE c) /\ F!Min({1000, d}) = IF 1000 <= d THEN 1000 ELSE d
  BY <1>5, LesserOf
<1> QED
  BY <1>5, <1>6, <1>7

\* The points of a figure are among those of its bands.
LEMMA BandedPoints ==
  ASSUME NEW figure, NEW edges \in Seq(Int), NEW points \in Seq(Nat), Len(points) > Len(edges), NEW none \in Nat
  PROVE  F!Banded(figure, edges, points, none) \in Nat
<1> DEFINE reached == {i \in DOMAIN edges : figure >= edges[i]}
           at == IF reached = {} THEN Len(points) ELSE F!Min(reached)
<1>1. Len(edges) \in Nat /\ Len(points) \in Nat /\ DOMAIN edges = 1 .. Len(edges) /\ DOMAIN points = 1 .. Len(points)
  OBVIOUS
<1>2. reached \subseteq 1 .. Len(edges)
  BY <1>1
<1>4. F!Banded(figure, edges, points, none) = IF figure = F!Missing THEN none ELSE points[at]
  BY DEF F!Banded
<1> HIDE DEF reached
<1>3. IsFiniteSet(reached) /\ reached \subseteq Int
  <2>1. IsFiniteSet(1 .. Len(edges))
    BY <1>1, FS_Interval
  <2>2. reached \in SUBSET (1 .. Len(edges))
    BY <1>2
  <2>3. IsFiniteSet(reached)
    BY <2>1, <2>2, FS_Subset, Zenon
  <2>4. 1 .. Len(edges) \subseteq Int
    BY <1>1
  <2> QED
    BY <1>2, <2>3, <2>4
<1>5. reached # {} => F!Min(reached) \in reached
  <2> SUFFICES ASSUME reached # {} PROVE F!Min(reached) \in reached
    OBVIOUS
  <2>1. \E m \in reached : \A n \in reached : m <= n
    BY <1>3, Extremes
  <2> QED
    BY <2>1 DEF F!Min
<1>6. at \in DOMAIN points
  <2>1. CASE reached = {}
    BY <1>1, <2>1
  <2>2. CASE reached # {}
    <3>1. F!Min(reached) \in 1 .. Len(edges)
      BY <1>2, <1>5, <2>2
    <3> QED
      BY <1>1, <2>2, <3>1
  <2> QED
    BY <2>1, <2>2
<1> HIDE DEF at
<1>7. points[at] \in Nat
  BY <1>6
<1> QED
  BY <1>4, <1>7

LEMMA CompanyScores ==
  ASSUME NEW fin
  PROVE  F!QualityScore(fin) \in 0 .. 1000 /\ F!ValueScore(fin) \in 0 .. 1000
<1>1. \A m \in Nat : F!Min({1000, m}) \in 0 .. 1000
  <2> SUFFICES ASSUME NEW m \in Nat PROVE F!Min({1000, m}) \in 0 .. 1000
    OBVIOUS
  <2>1. F!Min({1000, m}) = IF 1000 <= m THEN 1000 ELSE m
    BY LesserOf
  <2> QED
    BY <2>1
<1>2. F!Banded(fin.roe, <<20, 15, 10, 5, 0>>, <<300, 250, 200, 150, 50, 0>>, 150) \in Nat
  <2> DEFINE e == <<20, 15, 10, 5, 0>>
             p == <<300, 250, 200, 150, 50, 0>>
  <2>1. e \in Seq(Int) /\ p \in Seq(Nat) /\ Len(p) > Len(e)
    OBVIOUS
  <2> HIDE DEF e, p
  <2>2. F!Banded(fin.roe, e, p, 150) \in Nat
    BY <2>1, BandedPoints
  <2> QED
    BY <2>2 DEF e, p
<1>3. F!Banded(fin.margin, <<50, 30, 15>>, <<250, 200, 150, 50>>, 120) \in Nat
  <2> DEFINE e == <<50, 30, 15>>
             p == <<250, 200, 150, 50>>
  <2>1. e \in Seq(Int) /\ p \in Seq(Nat) /\ Len(p) > Len(e)
    OBVIOUS
  <2> HIDE DEF e, p
  <2>2. F!Banded(fin.margin, e, p, 120) \in Nat
    BY <2>1, BandedPoints
  <2> QED
    BY <2>2 DEF e, p
<1>4. F!Banded(fin.debt, <<150, 70, 30>>, <<50, 150, 200, 250>>, 120) \in Nat
  <2> DEFINE e == <<150, 70, 30>>
             p == <<50, 150, 200, 250>>
  <2>1. e \in Seq(Int) /\ p \in Seq(Nat) /\ Len(p) > Len(e)
    OBVIOUS
  <2> HIDE DEF e, p
  <2>2. F!Banded(fin.debt, e, p, 120) \in Nat
    BY <2>1, BandedPoints
  <2> QED
    BY <2>2 DEF e, p
<1>5. F!Banded(fin.pe, <<30, 20, 15, 10, 1>>, <<50, 100, 200, 250, 300, 0>>, 150) \in Nat
  <2> DEFINE e == <<30, 20, 15, 10, 1>>
             p == <<50, 100, 200, 250, 300, 0>>
  <2>1. e \in Seq(Int) /\ p \in Seq(Nat) /\ Len(p) > Len(e)
    OBVIOUS
  <2> HIDE DEF e, p
  <2>2. F!Banded(fin.pe, e, p, 150) \in Nat
    BY <2>1, BandedPoints
  <2> QED
    BY <2>2 DEF e, p
<1>6. F!Banded(fin.pb, <<50, 30, 20, 10, 1>>, <<30, 100, 150, 200, 250, 120>>, 120) \in Nat
  <2> DEFINE e == <<50, 30, 20, 10, 1>>
             p == <<30, 100, 150, 200, 250, 120>>
  <2>1. e \in Seq(Int) /\ p \in Seq(Nat) /\ Len(p) > Len(e)
    OBVIOUS
  <2> HIDE DEF e, p
  <2>2. F!Banded(fin.pb, e, p, 120) \in Nat
    BY <2>1, BandedPoints
  <2> QED
    BY <2>2 DEF e, p
<1>7. F!Banded(fin.fcf, <<8, 5, 3, 1>>, <<250, 200, 150, 100, 30>>, 120) \in Nat
  <2> DEFINE e == <<8, 5, 3, 1>>
             p == <<250, 200, 150, 100, 30>>
  <2>1. e \in Seq(Int) /\ p \in Seq(Nat) /\ Len(p) > Len(e)
    OBVIOUS
  <2> HIDE DEF e, p
  <2>2. F!Banded(fin.fcf, e, p, 120) \in Nat
    BY <2>1, BandedPoints
  <2> QED
    BY <2>2 DEF e, p
<1>8. F!Banded(fin.ev, <<18, 12, 8, 1>>, <<50, 100, 150, 200, 100>>, 100) \in Nat
  <2> DEFINE e == <<18, 12, 8, 1>>
             p == <<50, 100, 150, 200, 100>>
  <2>1. e \in Seq(Int) /\ p \in Seq(Nat) /\ Len(p) > Len(e)
    OBVIOUS
  <2> HIDE DEF e, p
  <2>2. F!Banded(fin.ev, e, p, 100) \in Nat
    BY <2>1, BandedPoints
  <2> QED
    BY <2>2 DEF e, p
<1>9. F!Stability(fin.eps3, fin.eps5) \in Nat
  BY DEF F!Stability
<1>10. F!QualityScore(fin) \in 0 .. 1000
  <2> DEFINE a == F!Banded(fin.roe, <<20, 15, 10, 5, 0>>, <<300, 250, 200, 150, 50, 0>>, 150)
             b == F!Banded(fin.margin, <<50, 30, 15>>, <<250, 200, 150, 50>>, 120)
             c == F!Banded(fin.debt, <<150, 70, 30>>, <<50, 150, 200, 250>>, 120)
             d == F!Stability(fin.eps3, fin.eps5)
             m == a + b + c + d
  <2>1. a \in Nat /\ b \in Nat /\ c \in Nat /\ d \in Nat
    BY <1>2, <1>3, <1>4, <1>9
  <2>2. F!QualityScore(fin) = 500 \/ F!QualityScore(fin) = F!Min({1000, m})
    BY DEF F!QualityScore, F!Neutral, F!Full
  <2> HIDE DEF a, b, c, d
  <2>3. m \in Nat
    BY <2>1
  <2> HIDE DEF m
  <2>4. F!Min({1000, m}) \in 0 .. 1000
    BY <1>1, <2>3
  <2> QED
    BY <2>2, <2>4
<1>11. F!ValueScore(fin) \in 0 .. 1000
  <2> DEFINE a == F!Banded(fin.pe, <<30, 20, 15, 10, 1>>, <<50, 100, 200, 250, 300, 0>>, 150)
             b == F!Banded(fin.pb, <<50, 30, 20, 10, 1>>, <<30, 100, 150, 200, 250, 120>>, 120)
             c == F!Banded(fin.fcf, <<8, 5, 3, 1>>, <<250, 200, 150, 100, 30>>, 120)
             d == F!Banded(fin.ev, <<18, 12, 8, 1>>, <<50, 100, 150, 200, 100>>, 100)
             m == a + b + c + d
  <2>1. a \in Nat /\ b \in Nat /\ c \in Nat /\ d \in Nat
    BY <1>5, <1>6, <1>7, <1>8
  <2>2. F!ValueScore(fin) = 500 \/ F!ValueScore(fin) = F!Min({1000, m})
    BY DEF F!ValueScore, F!Neutral, F!Full
  <2> HIDE DEF a, b, c, d
  <2>3. m \in Nat
    BY <2>1
  <2> HIDE DEF m
  <2>4. F!Min({1000, m}) \in 0 .. 1000
    BY <1>1, <2>3
  <2> QED
    BY <2>2, <2>4
<1> QED
  BY <1>10, <1>11

LEMMA SentimentBounds ==
  ASSUME NEW i, SignalOk(i)
  PROVE  F!SentimentUsed(i.feed, i.social, i.active) \in 0 .. 1000
<1> DEFINE feed == i.feed
           count == feed.count
           answer == feed.answer
           social == i.social
           news == F!NewsScore(feed)
<1>1. count \in Nat /\ answer \in Int /\ social \in Int
  BY DEF SignalOk
<1> HIDE DEF count, answer, social
<1>2. news \in 0 .. 1000
  <2>1. F!Bound(answer) \in 0 .. 1000
    BY <1>1, Bounded
  <2> DEFINE m == 400 + 30 * count
  <2>2. m \in Nat
    BY <1>1
  <2>3. news = 500 \/ news = F!Bound(answer) \/ news = F!Min({700, m})
    BY DEF F!NewsScore, F!Neutral, count, answer
  <2> HIDE DEF m, news
  <2>4. F!Min({700, m}) = IF 700 <= m THEN 700 ELSE m
    BY <2>2, LesserOf
  <2> QED
    BY <2>1, <2>2, <2>3, <2>4
<1> HIDE DEF news
<1>3. F!SentimentScore(news, social) \in 0 .. 1000
  <2> DEFINE b == F!Bound(social)
  <2>1. b \in 0 .. 1000
    BY <1>1, Bounded
  <2>2. F!SentimentScore(news, social) = news \/ F!SentimentScore(news, social) = (6 * news + 4 * b) \div 10
    BY DEF F!SentimentScore
  <2> HIDE DEF b
  <2>3. (6 * news + 4 * b) \div 10 \in 0 .. 1000
    BY <1>2, <2>1
  <2> QED
    BY <1>2, <2>2, <2>3
<1>4. F!LlmMomentumScore(feed) \in {F!Missing, 500, 750, 250}
  <2>1. F!VerdictScore(feed.word, feed.confidence) \in {500, 750, 250}
    BY DEF F!VerdictScore, F!Neutral
  <2> HIDE DEF feed
  <2> DEFINE verdict == F!VerdictScore(feed.word, feed.confidence)
             said == F!Relevance(feed)
             word == F!LlmWord(feed, feed.word)
  <2>2. F!LlmMomentumScore(feed) \in {F!Missing, 500, verdict}
    <3>1. F!LlmMomentumScore(feed) =
            IF ~feed.asked \/ ~feed.key THEN F!Missing
            ELSE IF feed.count = 0 THEN 500
            ELSE CASE said = "YES" -> IF word = "" THEN F!Missing ELSE verdict
                   [] said = "NO" -> 500
                   [] OTHER -> IF feed.company THEN 500 ELSE F!Missing
      BY DEF F!LlmMomentumScore, F!Neutral
    <3> HIDE DEF verdict, said, word
    <3> QED
      BY <3>1
  <2> QED
    BY <2>1, <2>2
<1>5. F!SentimentUsed(feed, i.social, i.active) \in
        {F!LlmMomentumScore(feed), F!SentimentScore(news, social)}
      /\ (F!SentimentUsed(feed, i.social, i.active) = F!LlmMomentumScore(feed)
            => F!LlmMomentumScore(feed) # F!Missing \/ F!LlmMomentumScore(feed) = F!SentimentScore(news, social))
  BY DEF F!SentimentUsed, news, social
<1> QED
  BY <1>3, <1>4, <1>5

LEMMA FlowBounds ==
  ASSUME NEW i, SignalOk(i)
  PROVE  F!FlowScore(i.net, i.recs, i.days, i.falling, i.crowd) \in 0 .. 1000
<1> DEFINE recs == i.recs
           a == F!InsiderScore(i.net)
           b == F!RecommendationScore(recs)
           c == F!ShortScore(i.days, i.falling)
           d == F!CrowdingScore(i.crowd)
<1>1. a \in Nat
  <2> DEFINE m == 500 + i.net
  <2>1. m \in Int /\ i.net \in Int
    BY DEF SignalOk
  <2>2. a = IF i.net > 0 THEN F!Min({1000, m}) ELSE F!Max({0, m})
    BY DEF F!InsiderScore, F!Full
  <2>3. i.net > 0 => m > 0
    BY <2>1
  <2> HIDE DEF m, a
  <2>4. F!Min({1000, m}) = (IF 1000 <= m THEN 1000 ELSE m) /\ F!Max({0, m}) = IF 0 <= m THEN m ELSE 0
    BY <2>1, LesserOf, GreaterOf
  <2> QED
    BY <2>1, <2>2, <2>3, <2>4
<1>2. b \in Nat
  <2> DEFINE n1 == recs.strongBuy
             n2 == recs.buy
             n3 == recs.hold
             n4 == recs.sell
             n5 == recs.strongSell
             whole == n1 + n2 + n3 + n4 + n5
             sum == 1000 * n1 + 750 * n2 + 500 * n3 + 250 * n4
  <2>1. n1 \in Nat /\ n2 \in Nat /\ n3 \in Nat /\ n4 \in Nat /\ n5 \in Nat
    BY DEF SignalOk
  <2>2. b = IF whole = 0 THEN 500 ELSE sum \div whole
    BY DEF F!RecommendationScore, F!Neutral
  <2> HIDE DEF n1, n2, n3, n4, n5, b
  <2>3. whole \in Nat /\ sum \in Nat
    BY <2>1
  <2>4. \A x, y \in Nat : y > 0 => x \div y \in Nat
    OBVIOUS
  <2> HIDE DEF whole, sum
  <2> QED
    BY <2>2, <2>3, <2>4
<1>3. c \in Nat
  <2> DEFINE base == IF i.days > 10 THEN 200 ELSE IF i.days > 5 THEN 500 ELSE 700
             more == IF i.falling THEN 150 ELSE 0
             m == base + more
  <2>1. m \in Nat
    OBVIOUS
  <2>2. c = IF i.days = F!Missing THEN 500 ELSE F!Min({1000, m})
    BY DEF F!ShortScore, F!Neutral, F!Full
  <2> HIDE DEF base, more, m, c
  <2>3. F!Min({1000, m}) = IF 1000 <= m THEN 1000 ELSE m
    BY <2>1, LesserOf
  <2> QED
    BY <2>1, <2>2, <2>3
<1>4. d \in Nat
  <2> DEFINE crowd == i.crowd
  <2>1. d = CASE crowd = F!Missing -> 500 [] crowd = 0 -> 750 [] crowd = 1 -> 650
              [] crowd = 2 -> 500 [] OTHER -> 300
    BY DEF F!CrowdingScore, F!Neutral
  <2> HIDE DEF crowd, d
  <2> QED
    BY <2>1
<1> DEFINE m == (3 * a + 3 * b + 2 * c + 2 * d) \div 10
<1>5. F!FlowScore(i.net, recs, i.days, i.falling, i.crowd) = F!Min({1000, m})
  BY DEF F!FlowScore, F!Full
<1> HIDE DEF a, b, c, d
<1>6. m \in Nat
  BY <1>1, <1>2, <1>3, <1>4
<1> HIDE DEF m
<1>7. F!Min({1000, m}) = IF 1000 <= m THEN 1000 ELSE m
  BY <1>6, LesserOf
<1> QED
  BY <1>5, <1>6, <1>7

\* Every factor's score is out of 1000, and a higher rank lowers none.
LEMMA ScoresInOrder ==
  ASSUME NEW i, SignalOk(i), NEW q \in Nat \cup {F!Missing}, NEW r \in Nat, q = F!Missing \/ q <= r
  PROVE  /\ DOMAIN F!Scores(i, q) = Factors
         /\ \A f \in Factors : F!Scores(i, q)[f] \in 0 .. 1000
         /\ q # F!Missing => \A f \in Factors : F!Scores(i, q)[f] <= F!Scores(i, r)[f]
<1>1. q \in Int /\ q <= r
  BY DEF F!Missing
<1>2. /\ F!TechnicalScore(q, i.flags, i.lstm) \in 0 .. 1000
      /\ F!TechnicalScore(q, i.flags, i.lstm) <= F!TechnicalScore(r, i.flags, i.lstm)
  <2> DEFINE flags == i.flags
             lstm == i.lstm
  <2>1. lstm.up \in Nat
    BY DEF SignalOk
  <2>3. r \in Int
    OBVIOUS
  <2> HIDE DEF flags, lstm
  <2>2. /\ F!TechnicalScore(q, flags, lstm) \in 0 .. 1000
        /\ F!TechnicalScore(q, flags, lstm) <= F!TechnicalScore(r, flags, lstm)
    BY <1>1, <2>1, <2>3, TechnicalInOrder, ZenonT(60)
  <2> QED
    BY <2>2 DEF flags, lstm
<1>3. F!MomentumScore(q) \in 0 .. 1000 /\ (q # F!Missing => F!MomentumScore(q) <= F!MomentumScore(r))
  <2>1. CASE q = F!Missing
    BY <2>1 DEF F!MomentumScore, F!Neutral
  <2>2. CASE q # F!Missing
    BY <2>2, MomentumInOrder
  <2> QED
    BY <2>1, <2>2
<1>4. F!SentimentUsed(i.feed, i.social, i.active) \in 0 .. 1000
  BY SentimentBounds
<1>5. F!FlowScore(i.net, i.recs, i.days, i.falling, i.crowd) \in 0 .. 1000
  BY FlowBounds
<1>6. F!QualityScore(i.fin) \in 0 .. 1000 /\ F!ValueScore(i.fin) \in 0 .. 1000
  BY CompanyScores
<1>7. F!MacroUsed(i.macro) \in 0 .. 1000 /\ i.pead \in 0 .. 1000
  BY DEF SignalOk, F!MacroUsed, F!Neutral
<1> DEFINE s == F!Scores(i, q)
           t == F!Scores(i, r)
           a1 == F!TechnicalScore(q, i.flags, i.lstm)
           a2 == F!TechnicalScore(r, i.flags, i.lstm)
           b1 == F!MomentumScore(q)
           b2 == F!MomentumScore(r)
           c == F!SentimentUsed(i.feed, i.social, i.active)
           d == F!FlowScore(i.net, i.recs, i.days, i.falling, i.crowd)
           e == F!QualityScore(i.fin)
           g == F!ValueScore(i.fin)
           h == F!MacroUsed(i.macro)
           p == i.pead
<1>8. /\ s = [technical |-> a1, momentum |-> b1, sentiment |-> c, flow |-> d, quality |-> e, value |-> g,
              macro |-> h, pead |-> p]
      /\ t = [technical |-> a2, momentum |-> b2, sentiment |-> c, flow |-> d, quality |-> e, value |-> g,
              macro |-> h, pead |-> p]
  BY DEF F!Scores
<1> HIDE DEF a1, a2, b1, b2, c, d, e, g, h, p, s, t
<1>9. DOMAIN s = Factors
  BY <1>8 DEF Factors
<1>10. /\ s["technical"] = a1 /\ s["momentum"] = b1 /\ s["sentiment"] = c /\ s["flow"] = d
       /\ s["quality"] = e /\ s["value"] = g /\ s["macro"] = h /\ s["pead"] = p
       /\ t["technical"] = a2 /\ t["momentum"] = b2 /\ t["sentiment"] = c /\ t["flow"] = d
       /\ t["quality"] = e /\ t["value"] = g /\ t["macro"] = h /\ t["pead"] = p
  BY <1>8
<1>11. /\ a1 \in 0 .. 1000 /\ a1 <= a2 /\ b1 \in 0 .. 1000 /\ (q # F!Missing => b1 <= b2)
       /\ c \in 0 .. 1000 /\ d \in 0 .. 1000 /\ e \in 0 .. 1000 /\ g \in 0 .. 1000
       /\ h \in 0 .. 1000 /\ p \in 0 .. 1000
  BY <1>2, <1>3, <1>4, <1>5, <1>6, <1>7 DEF a1, a2, b1, b2, c, d, e, g, h, p
<1>12. \A f \in Factors : s[f] \in 0 .. 1000
  <2>1. /\ s["technical"] \in 0 .. 1000 /\ s["momentum"] \in 0 .. 1000 /\ s["sentiment"] \in 0 .. 1000
        /\ s["flow"] \in 0 .. 1000 /\ s["quality"] \in 0 .. 1000 /\ s["value"] \in 0 .. 1000
        /\ s["macro"] \in 0 .. 1000 /\ s["pead"] \in 0 .. 1000
    BY <1>10, <1>11
  <2> QED
    BY <2>1, ZenonT(60) DEF Factors
<1>13. q # F!Missing => \A f \in Factors : s[f] <= t[f]
  BY <1>10, <1>11 DEF Factors
<1> QED
  BY <1>9, <1>12, <1>13 DEF s, t

\* Dividing and multiplying by a positive number keep the order.
LEMMA Shared == ASSUME NEW t \in Nat, t > 0, NEW a \in Nat PROVE a \div t \in Nat /\ t * (a \div t) <= a
OBVIOUS

LEMMA Cancelled == ASSUME NEW t \in Nat, t > 0, NEW a \in Int, NEW b \in Int, t * a <= t * b PROVE a <= b
<1> SUFFICES ASSUME b + 1 <= a PROVE FALSE
  OBVIOUS
<1>1. t * (b + 1) <= t * a
  OBVIOUS
<1>2. t * (b + 1) = t * b + t
  OBVIOUS
<1> DEFINE m == t * a
           n == t * b
           k == t * (b + 1)
<1>3. m \in Int /\ n \in Int /\ k \in Int
  OBVIOUS
<1>4. m <= n /\ k <= m /\ k = n + t
  BY <1>1, <1>2
<1> HIDE DEF m, n, k
<1> QED
  BY <1>3, <1>4

LEMMA FactorsFinite == IsFiniteSet(Factors)
<1>1. IsFiniteSet({})
  BY FS_EmptySet
<1>2. IsFiniteSet({} \cup {"technical"} \cup {"momentum"} \cup {"sentiment"} \cup {"flow"})
  BY <1>1, FS_AddElement
<1>3. IsFiniteSet({} \cup {"technical"} \cup {"momentum"} \cup {"sentiment"} \cup {"flow"}
                  \cup {"quality"} \cup {"value"} \cup {"macro"} \cup {"pead"})
  BY <1>2, FS_AddElement
<1>4. Factors = {} \cup {"technical"} \cup {"momentum"} \cup {"sentiment"} \cup {"flow"}
                  \cup {"quality"} \cup {"value"} \cup {"macro"} \cup {"pead"}
  BY DEF Factors
<1> QED
  BY <1>3, <1>4

\* The tilt gives every factor half of its weight at least.
LEMMA TiltedUp ==
  ASSUME NEW w, w \in [DOMAIN w -> Nat], NEW ranked
  PROVE  /\ DOMAIN F!TiltedRaw(w, ranked) = DOMAIN w
         /\ \A f \in DOMAIN w : F!TiltedRaw(w, ranked)[f] \in Nat /\ w[f] <= 2 * F!TiltedRaw(w, ranked)[f]
<1> DEFINE up == F!Raised(w, ranked)
           last == ranked[Len(ranked)]
           raw == F!TiltedRaw(w, ranked)
<1>1. DOMAIN up = DOMAIN w /\ \A f \in DOMAIN w : up[f] = w[f] \/ up[f] = w[f] + 500
  BY DEF F!Raised, F!Tilt
<1>2. raw = [up EXCEPT ![last] = F!Max({500, up[last] - 500})]
  BY DEF F!TiltedRaw, F!Tilt
<1> HIDE DEF up, last, raw
<1>3. DOMAIN raw = DOMAIN w
  BY <1>1, <1>2
<1>4. ASSUME NEW f \in DOMAIN w PROVE raw[f] \in Nat /\ w[f] <= 2 * raw[f]
  <2>1. w[f] \in Nat /\ up[f] \in Nat /\ w[f] <= up[f]
    BY <1>1
  <2>2. CASE f = last
    <3> DEFINE u == up[f]
               m == u - 500
    <3>1. raw[f] = F!Max({500, m})
      BY <1>1, <1>2, <2>2
    <3>2. u \in Nat /\ m \in Int
      BY <2>1
    <3>3. w[f] <= u /\ u = m + 500
      BY <2>1
    <3> HIDE DEF u, m
    <3>4. F!Max({500, m}) = IF 500 <= m THEN m ELSE 500
      BY <3>2, GreaterOf
    <3> QED
      BY <2>1, <3>1, <3>2, <3>3, <3>4
  <2>3. CASE f # last
    <3>1. raw[f] = up[f]
      BY <1>1, <1>2, <2>3
    <3> QED
      BY <2>1, <3>1
  <2> QED
    BY <2>2, <2>3
<1> QED
  BY <1>3, <1>4 DEF raw

\* A tilted profile adds up to 1 again.
LEMMA TiltedWhole ==
  ASSUME NEW w, NEW most, ProfileOk(w, most), NEW ranked
  PROVE  /\ DOMAIN F!Tilted(w, ranked) = DOMAIN w
         /\ F!Tilted(w, ranked) \in [DOMAIN w -> Nat]
         /\ Tally(F!Tilted(w, ranked)) <= 10000
<1> DEFINE s == DOMAIN w
           raw == F!TiltedRaw(w, ranked)
           most2 == [f \in s |-> 2 * raw[f]]
           t == Tally(raw)
           g == F!Tilted(w, ranked)
           h == [f \in s |-> t * g[f]]
           k == [f \in s |-> 10000 * raw[f]]
<1>1. IsFiniteSet(s) /\ w \in [s -> Nat] /\ Tally(w) > 0
  <2>1. s \in SUBSET Factors
    BY DEF ProfileOk
  <2>2. IsFiniteSet(s)
    BY <2>1, FactorsFinite, FS_Subset, Zenon
  <2> QED
    BY <2>2 DEF ProfileOk
<1>2. DOMAIN raw = s /\ \A f \in s : raw[f] \in Nat /\ w[f] <= 2 * raw[f]
  BY <1>1, TiltedUp
<1>3. raw = [f \in DOMAIN raw |-> raw[f]]
  BY DEF F!TiltedRaw, F!Raised
<1>4. g = [f \in s |-> (raw[f] * 10000) \div t]
  BY ScoreTallies, <1>2 DEF F!Tilted, F!Whole
<1> HIDE DEF s, raw, t, g
<1>5. raw \in [s -> Nat]
  BY <1>2, <1>3
<1>6. /\ w \in [s -> Int] /\ raw \in [s -> Int] /\ most2 \in [s -> Int] /\ k \in [s -> Int]
      /\ \A f \in s : w[f] <= most2[f] /\ most2[f] = 2 * raw[f] /\ k[f] = 10000 * raw[f]
  BY <1>1, <1>2, <1>5
<1>7. /\ Tally(w) \in Int /\ Tally(raw) \in Int /\ Tally(most2) \in Int
  BY <1>1, <1>6, TallyOver
<1> HIDE DEF most2, k
<1>8. Tally(w) <= Tally(most2) /\ Tally(most2) = 2 * Tally(raw) /\ Tally(k) = 10000 * Tally(raw)
  BY <1>1, <1>6, TallyAtMost, TallyTimes
<1>9. t \in Nat /\ t > 0
  BY <1>1, <1>7, <1>8 DEF t
<1>10. \A f \in s : g[f] \in Nat /\ t * g[f] <= k[f]
  <2> SUFFICES ASSUME NEW f \in s PROVE g[f] \in Nat /\ t * g[f] <= k[f]
    OBVIOUS
  <2> DEFINE a == raw[f] * 10000
  <2>1. a \in Nat /\ k[f] = a
    BY <1>2, <1>6
  <2>2. g[f] = a \div t
    BY <1>4
  <2> HIDE DEF a
  <2>3. a \div t \in Nat /\ t * (a \div t) <= a
    BY <1>9, <2>1, Shared
  <2> QED
    BY <2>1, <2>2, <2>3
<1>11. DOMAIN g = s /\ g \in [s -> Nat]
  BY <1>4, <1>10
<1>12. /\ g \in [s -> Int] /\ h \in [s -> Int] /\ \A f \in s : h[f] = t * g[f] /\ h[f] <= k[f]
  <2>1. \A f \in s : t * g[f] \in Int
    BY <1>9, <1>10
  <2> QED
    BY <1>10, <1>11, <2>1
<1> HIDE DEF h
<1>13. Tally(h) = t * Tally(g) /\ Tally(h) <= Tally(k) /\ Tally(g) \in Int
  <2>1. Tally(h) <= Tally(k)
    BY <1>1, <1>6, <1>12, TallyAtMost
  <2>2. Tally(h) = t * Tally(g)
    BY <1>1, <1>9, <1>12, TallyTimes
  <2> QED
    BY <1>1, <1>12, <2>1, <2>2, TallyOver
<1>14. t * Tally(g) <= t * 10000
  BY <1>8, <1>9, <1>13 DEF t
<1>15. Tally(g) <= 10000
  BY <1>9, <1>13, <1>14, Cancelled
<1> QED
  BY <1>11, <1>15 DEF s, g

\* The weights used are of known factors and add up to what a profile may.
LEMMA WeightsWhole ==
  ASSUME ScoreSettings, NEW i \in ScoredSignals
  PROVE  /\ DOMAIN F!Weights(i) \subseteq Factors
         /\ F!Weights(i) \in [DOMAIN F!Weights(i) -> Nat]
         /\ Tally(F!Weights(i)) <= (IF i.adaptive \/ i.ranked # <<>> THEN 10000 ELSE 11000)
<1> DEFINE n == IF i.adaptive THEN F!RegimeOf(i.vix, i.adx) ELSE "FIXED"
           w == ScoreProfiles[n]
           most == IF i.adaptive THEN 10000 ELSE 11000
           g == F!Tilted(w, i.ranked)
<1>1. ProfileOk(w, most)
  <2>1. F!RegimeOf(i.vix, i.adx) \in {"TRENDING", "SIDEWAYS", "HIGH_VOL", "MIXED"}
    BY DEF F!RegimeOf
  <2>2. CASE i.adaptive
    BY <2>1, <2>2 DEF ScoreSettings
  <2>3. CASE ~ i.adaptive
    BY <2>3 DEF ScoreSettings
  <2> QED
    BY <2>2, <2>3
<1>2. F!Weights(i) = IF Len(i.ranked) < 3 THEN w ELSE g
  BY DEF F!Weights
<1>3. i.ranked = <<>> \/ Len(i.ranked) >= 3
  BY DEF ScoreSettings, SignalOk
<1> HIDE DEF w
<1>4. DOMAIN g = DOMAIN w /\ g \in [DOMAIN w -> Nat] /\ Tally(g) <= 10000
  BY <1>1, TiltedWhole
<1>5. DOMAIN w \subseteq Factors /\ w \in [DOMAIN w -> Nat] /\ Tally(w) <= most
  BY <1>1 DEF ProfileOk
<1> HIDE DEF g
<1>6. CASE i.ranked = <<>>
  <2>1. F!Weights(i) = w
    BY <1>2, <1>6
  <2> QED
    BY <1>5, <1>6, <2>1
<1>7. CASE i.ranked # <<>>
  <2>1. Len(i.ranked) >= 3
    BY <1>3, <1>7
  <2>2. F!Weights(i) = w \/ F!Weights(i) = g
    BY <1>2
  <2>3. Tally(F!Weights(i)) <= 10000
    BY <1>2, <1>4, <1>5, <1>7, <2>1
  <2> QED
    BY <1>4, <1>5, <1>7, <2>2, <2>3
<1> QED
  BY <1>6, <1>7

Composed(w, s) == Tally([f \in DOMAIN w |-> w[f] * s[f]])

LEMMA OutOfThousand == ASSUME NEW x \in Nat, NEW y \in 0 .. 1000 PROVE x * y \in Nat /\ x * y <= 1000 * x
OBVIOUS

\* What weights out of most make of scores out of 1000.
LEMMA ComposedBounds ==
  ASSUME NEW w, DOMAIN w \subseteq Factors, w \in [DOMAIN w -> Nat], NEW most \in Nat, Tally(w) <= most,
         NEW s, NEW t, \A f \in Factors : s[f] \in 0 .. 1000 /\ t[f] \in 0 .. 1000
  PROVE  /\ Composed(w, s) \in 0 .. 1000 * most
         /\ (\A f \in Factors : s[f] <= t[f]) => Composed(w, s) <= Composed(w, t)
<1> DEFINE d == DOMAIN w
           a == [f \in d |-> w[f] * s[f]]
           b == [f \in d |-> w[f] * t[f]]
           c == [f \in d |-> 1000 * w[f]]
           z == [f \in d |-> 0 * w[f]]
<1>1. IsFiniteSet(d)
  <2>1. d \in SUBSET Factors
    OBVIOUS
  <2> QED
    BY <2>1, FactorsFinite, FS_Subset, Zenon
<1>3. \A x \in Nat, y \in Nat, v \in Nat : y <= v => x * y <= x * v
  OBVIOUS
<1> HIDE DEF d
<1>4. w \in [d -> Nat] /\ d \subseteq Factors
  BY DEF d
<1>5. \A f \in d : w[f] \in Nat /\ s[f] \in 0 .. 1000 /\ t[f] \in 0 .. 1000
  BY <1>4
<1>6. \A f \in d : /\ w[f] * s[f] \in Nat /\ w[f] * t[f] \in Nat /\ w[f] * s[f] <= 1000 * w[f]
  <2> SUFFICES ASSUME NEW f \in d PROVE w[f] * s[f] \in Nat /\ w[f] * t[f] \in Nat /\ w[f] * s[f] <= 1000 * w[f]
    OBVIOUS
  <2> DEFINE x == w[f]
             y == s[f]
             u == t[f]
  <2>1. x \in Nat /\ y \in 0 .. 1000 /\ u \in 0 .. 1000
    BY <1>5
  <2> HIDE DEF x, y, u
  <2>2. x * y \in Nat /\ x * y <= 1000 * x
    BY <2>1
  <2>3. x * u \in Nat
    BY <2>1
  <2> QED
    BY <2>2, <2>3 DEF x, y, u
<1>7. a \in [d -> Int] /\ b \in [d -> Int] /\ c \in [d -> Int] /\ w \in [d -> Int] /\ a \in [d -> Nat]
  BY <1>4, <1>5, <1>6
<1>8. \A f \in d : a[f] <= c[f] /\ c[f] = 1000 * w[f]
  BY <1>6
<1>9. (\A f \in Factors : s[f] <= t[f]) => \A f \in d : a[f] <= b[f]
  <2> SUFFICES ASSUME \A f \in Factors : s[f] <= t[f], NEW f \in d PROVE a[f] <= b[f]
    OBVIOUS
  <2>1. w[f] \in Nat /\ s[f] \in Nat /\ t[f] \in Nat /\ s[f] <= t[f]
    <3>1. w[f] \in Nat /\ s[f] \in 0 .. 1000 /\ t[f] \in 0 .. 1000
      BY <1>5, Zenon
    <3>2. s[f] <= t[f]
      BY <1>4
    <3> DEFINE x == w[f]
               y == s[f]
               u == t[f]
    <3>3. x \in Nat /\ y \in 0 .. 1000 /\ u \in 0 .. 1000 /\ y <= u
      BY <3>1, <3>2
    <3> HIDE DEF x, y, u
    <3>4. x \in Nat /\ y \in Nat /\ u \in Nat /\ y <= u
      BY <3>3
    <3> QED
      BY <3>4 DEF x, y, u
  <2> DEFINE x == w[f]
             y == s[f]
             u == t[f]
  <2>2. x \in Nat /\ y \in Nat /\ u \in Nat /\ y <= u
    BY <2>1
  <2>3. a[f] = x * y /\ b[f] = x * u
    OBVIOUS
  <2> HIDE DEF x, y, u, a, b
  <2> QED
    BY <1>3, <2>2, <2>3
<1>10. Composed(w, s) = Tally(a) /\ Composed(w, t) = Tally(b)
  BY DEF Composed, d
<1> HIDE DEF a, b, c
<1>11. Tally(a) <= Tally(c) /\ Tally(c) = 1000 * Tally(w) /\ Tally(w) \in Int /\ Tally(a) \in Int
  <2>1. Tally(a) <= Tally(c)
    BY <1>1, <1>7, <1>8, TallyAtMost
  <2>2. Tally(c) = 1000 * Tally(w)
    BY <1>1, <1>7, <1>8, TallyTimes
  <2>3. Tally(w) \in Int /\ Tally(a) \in Int
    BY <1>1, <1>7, TallyOver
  <2> QED
    BY <2>1, <2>2, <2>3
<1>12. Tally(a) \in Nat
  BY <1>1, <1>7, TallyNat
<1>13. (\A f \in d : a[f] <= b[f]) => Tally(a) <= Tally(b)
  BY <1>1, <1>7, TallyAtMost
<1>14. 1000 * Tally(w) <= 1000 * most
  BY <1>11
<1> QED
  BY <1>9, <1>10, <1>11, <1>12, <1>13, <1>14

\* Rounding the sum to a score.
LEMMA Rounded ==
  ASSUME NEW a \in Nat, NEW b \in Nat, a <= b
  PROVE  /\ (2 * a + 10000) \div 20000 \in Nat
         /\ (2 * a + 10000) \div 20000 <= (2 * b + 10000) \div 20000
         /\ a <= 10000000 => (2 * a + 10000) \div 20000 <= 1000
         /\ a <= 11000000 => (2 * a + 10000) \div 20000 <= 1100
OBVIOUS

InThousand(s) == \A f \in Factors : s[f] \in 0 .. 1000

LEMMA ScoresInRange ==
  ASSUME NEW i, SignalOk(i), NEW q \in Nat \cup {F!Missing}
  PROVE  InThousand(F!Scores(i, q))
<1>1. CASE q = F!Missing
  <2>1. 0 \in Nat
    OBVIOUS
  <2>2. \A f \in Factors : F!Scores(i, q)[f] \in 0 .. 1000
    BY <1>1, <2>1, ScoresInOrder, ZenonT(30)
  <2> QED
    BY <2>2 DEF InThousand
<1>2. CASE q # F!Missing
  <2>1. q \in Nat /\ q <= q
    BY <1>2
  <2>2. \A f \in Factors : F!Scores(i, q)[f] \in 0 .. 1000
    BY <2>1, ScoresInOrder
  <2> QED
    BY <2>2 DEF InThousand
<1> QED
  BY <1>1, <1>2

LEMMA CompositeInOrder ==
  ASSUME ScoreSettings, NEW i \in ScoredSignals, NEW q \in ScoreRanks
  PROVE  /\ F!Composite(i, q) \in 0 .. (IF i.adaptive \/ i.ranked # <<>> THEN 1000 ELSE 1100)
         /\ q # F!Missing => \A r \in ScoreRanks : r > q => F!Composite(i, r) >= F!Composite(i, q)
<1> DEFINE w == F!Weights(i)
           most == IF i.adaptive \/ i.ranked # <<>> THEN 10000 ELSE 11000
           v(k) == Composed(w, F!Scores(i, k))
<1>1. DOMAIN w \subseteq Factors /\ w \in [DOMAIN w -> Nat] /\ Tally(w) <= most
  BY WeightsWhole
<1>2. SignalOk(i) /\ q \in Nat \cup {F!Missing} /\ most \in Nat
  BY DEF ScoreSettings
<1>3. \A k : F!Composite(i, k) = (2 * v(k) + 10000) \div 20000
  BY ScoreTallies DEF F!Composite, F!Whole, Composed
<1> DEFINE x == F!Composite(i, q)
           a == v(q)
           s == F!Scores(i, q)
<1>4. \A f \in Factors : s[f] \in 0 .. 1000
  BY <1>2, ScoresInRange DEF InThousand
<1> HIDE DEF w, most, s
<1>5. a \in 0 .. 1000 * most
  BY <1>1, <1>2, <1>4, ComposedBounds DEF s
<1>6. most = 10000 \/ most = 11000
  BY DEF most
<1>7. x \in 0 .. IF most = 10000 THEN 1000 ELSE 1100
  <2>1. a \in Nat /\ a <= a
    BY <1>5, <1>6
  <2>2. x = (2 * a + 10000) \div 20000
    BY <1>3
  <2> HIDE DEF a, x
  <2>3. /\ (2 * a + 10000) \div 20000 \in Nat
        /\ a <= 10000000 => (2 * a + 10000) \div 20000 <= 1000
        /\ a <= 11000000 => (2 * a + 10000) \div 20000 <= 1100
    BY <2>1, Rounded
  <2> QED
    BY <1>5, <1>6, <2>1, <2>2, <2>3
<1>8. ASSUME q # F!Missing, NEW r \in ScoreRanks, r > q PROVE F!Composite(i, r) >= x
  <2>1. q \in Nat /\ r \in Nat /\ q <= r
    BY <1>2, <1>8 DEF ScoreSettings, F!Missing
  <2> DEFINE t == F!Scores(i, r)
             b == v(r)
             y == F!Composite(i, r)
  <2>2. \A f \in Factors : t[f] \in 0 .. 1000
    <3>1. r \in Nat \cup {F!Missing}
      BY <2>1
    <3> QED
      BY <1>2, <3>1, ScoresInRange DEF InThousand
  <2>3. \A f \in Factors : s[f] <= t[f]
    BY <1>2, <1>8, <2>1, ScoresInOrder DEF s
  <2> HIDE DEF t
  <2>4. a <= b /\ b \in 0 .. 1000 * most
    <3>1. Composed(w, s) <= Composed(w, t)
      BY <1>1, <1>2, <1>4, <2>2, <2>3, ComposedBounds
    <3>2. Composed(w, t) \in 0 .. 1000 * most
      BY <1>1, <1>2, <2>2, ComposedBounds
    <3> QED
      BY <3>1, <3>2 DEF s, t
  <2>5. x = (2 * a + 10000) \div 20000 /\ y = (2 * b + 10000) \div 20000
    BY <1>3
  <2>6. a \in Nat /\ b \in Nat
    BY <1>5, <1>6, <2>4
  <2> HIDE DEF a, b, x, y
  <2>7. x <= y /\ x \in Nat /\ y \in Nat
    <3>1. (2 * a + 10000) \div 20000 <= (2 * b + 10000) \div 20000
      BY <2>4, <2>6, Rounded
    <3> QED
      BY <2>5, <2>6, <3>1
  <2> QED
    BY <2>7 DEF y
<1> QED
  BY <1>7, <1>8, <1>6 DEF most, x

(***************************************************************************)
(* The watchlist analysis: x1 is the layer to compute next, x2 .. x6 what  *)
(* the layers found and x7 the direction.                                  *)
(***************************************************************************)
\* Whatever the score says, the overrides in their order suppress what they must.
LEMMA OverridesInOrder ==
  ASSUME NEW d
  PROVE  /\ A!Overridden(d) \in A!Buys /\ (~ x2.allowed \/ x3.stage = 4) => A!Fired
         /\ x6.opex => A!Overridden(d) \notin A!Buys
         /\ x5.score < 30 => A!Overridden(d) # "STRONG_BUY"
<1> DEFINE a == A!ByRegime(d)
           b == A!ByStage(a)
           c == A!BySqueeze(b)
           e == A!ByQuality(c)
<1>1. A!Overridden(d) = A!ByOpex(e)
  BY DEF A!Overridden
<1>2. ~ x2.allowed => a \notin A!Buys
  BY DEF A!ByRegime, A!Buys
<1> HIDE DEF a
<1>3. b \in {a, "NEUTRAL"} /\ (x3.stage = 4 => b \notin A!Buys)
  BY DEF A!ByStage, A!Buys
<1>4. ~ x2.allowed \/ x3.stage = 4 => b \notin A!Buys
  BY <1>2, <1>3 DEF A!Buys
<1> HIDE DEF b
<1>5. b \notin A!Buys /\ c \in A!Buys => A!Fired
  BY DEF A!BySqueeze, A!Fired, A!Buys
<1> HIDE DEF c
<1>6. (e \in A!Buys => c \in A!Buys) /\ (x5.score < 30 => e # "STRONG_BUY")
  BY DEF A!ByQuality, A!Buys
<1> HIDE DEF e
<1>7. A!ByOpex(e) \in {e, "NEUTRAL"} /\ (x6.opex => A!ByOpex(e) \notin A!Buys)
  BY DEF A!ByOpex, A!Buys
<1>8. A!Overridden(d) \in A!Buys /\ (~ x2.allowed \/ x3.stage = 4) => A!Fired
  <2> SUFFICES ASSUME A!Overridden(d) \in A!Buys, ~ x2.allowed \/ x3.stage = 4 PROVE A!Fired
    OBVIOUS
  <2>1. e \in A!Buys
    BY <1>1, <1>7 DEF A!Buys
  <2> QED
    BY <1>4, <1>5, <1>6, <2>1
<1>9. x5.score < 30 => A!Overridden(d) # "STRONG_BUY"
  BY <1>1, <1>6, <1>7
<1> QED
  BY <1>1, <1>7, <1>8, <1>9

LEMMA OverridesStep ==
  ASSUME A!OverridesHold, [A!Next]_(A!vars)
  PROVE  A!OverridesHold'
<1>1. CASE A!DetermineDirection
  <2>1. x7' = A!Overridden(A!Connors) /\ x2' = x2 /\ x3' = x3 /\ x4' = x4 /\ x5' = x5 /\ x6' = x6
    BY <1>1 DEF A!DetermineDirection
  <2> DEFINE d == A!Overridden(A!Connors)
  <2>2. /\ d \in A!Buys /\ (~ x2.allowed \/ x3.stage = 4) => A!Fired
        /\ x6.opex => d \notin A!Buys
        /\ x5.score < 30 => d # "STRONG_BUY"
    BY OverridesInOrder
  <2> HIDE DEF d
  <2>3. x7' = d
    BY <2>1 DEF d
  <2> QED
    BY <2>1, <2>2, <2>3 DEF A!OverridesHold, A!Fired, A!Buys
<1>2. CASE A!CheckRegime \/ A!CalcRanking \/ A!CalcEntry \/ A!CalcQuality \/ A!Score
  <2>1. x1' # "done"
    BY <1>2 DEF A!CheckRegime, A!CalcRanking, A!CalcEntry, A!CalcQuality, A!Score
  <2> QED
    BY <2>1 DEF A!OverridesHold
<1>3. CASE UNCHANGED A!vars
  BY <1>3 DEF A!vars, A!OverridesHold, A!Fired
<1> QED
  BY <1>1, <1>2, <1>3 DEF A!Next

(***************************************************************************)
(* The macro overlay: x2 is the market.                                    *)
(***************************************************************************)
LEMMA MacroCounts == \A s : M!Cardinality(s) = Cardinality(s)
BY DEF M!Cardinality, Cardinality

LEMMA PartCount ==
  ASSUME NEW n \in Nat, NEW t \in SUBSET (1 .. n), NEW s \in SUBSET t
  PROVE  Cardinality(s) \in 0 .. n /\ Cardinality(t) \in 0 .. n /\ Cardinality(s) <= Cardinality(t)
<1>1. IsFiniteSet(1 .. n) /\ Cardinality(1 .. n) = n
  <2>1. 1 \in Int /\ n \in Int
    OBVIOUS
  <2> QED
    BY <2>1, FS_Interval
<1>2. IsFiniteSet(t) /\ Cardinality(t) <= Cardinality(1 .. n)
  BY <1>1, FS_Subset, Zenon
<1>3. IsFiniteSet(s) /\ Cardinality(s) <= Cardinality(t)
  BY <1>2, FS_Subset, Zenon
<1>4. Cardinality(s) \in Nat /\ Cardinality(t) \in Nat
  BY <1>2, <1>3, FS_CardinalityType
<1> QED
  BY <1>1, <1>2, <1>3, <1>4

\* Points that fall, and points that rise, from band to band.
Falls(p, n) == \A i \in 1 .. n : p[i] \in Nat /\ \A j \in 1 .. n : i <= j => p[j] <= p[i]
Rises(p, n) == \A i \in 1 .. n : p[i] \in Nat /\ \A j \in 1 .. n : i <= j => p[i] <= p[j]

LEMMA FromFalls ==
  ASSUME NEW e \in Seq(Int), NEW p, Falls(p, Len(e) + 1),
         NEW v \in Int \ {M!NoFigure}, NEW w \in Int \ {M!NoFigure}, v >= w
  PROVE  M!From(v, e, p) \in Nat /\ M!From(w, e, p) \in Nat /\ M!From(v, e, p) <= M!From(w, e, p)
<1> DEFINE n == Len(e)
           s == {i \in DOMAIN e : w >= e[i]}
           t == {i \in DOMAIN e : v >= e[i]}
           a == 1 + Cardinality(s)
           b == 1 + Cardinality(t)
<1>1. n \in Nat /\ DOMAIN e = 1 .. n
  OBVIOUS
<1>2. t \in SUBSET (1 .. n) /\ s \in SUBSET t
  BY <1>1
<1>3. M!From(v, e, p) = p[b] /\ M!From(w, e, p) = p[a]
  BY MacroCounts DEF M!From, M!Unknown
<1> HIDE DEF s, t
<1>4. Cardinality(s) \in 0 .. n /\ Cardinality(t) \in 0 .. n /\ Cardinality(s) <= Cardinality(t)
  BY <1>1, <1>2, PartCount
<1> HIDE DEF n
<1>5. a \in 1 .. n + 1 /\ b \in 1 .. n + 1 /\ a <= b
  BY <1>1, <1>4
<1> HIDE DEF a, b
<1>6. p[a] \in Nat /\ p[b] \in Nat /\ p[b] <= p[a]
  BY <1>5 DEF Falls, n
<1> QED
  BY <1>3, <1>6

LEMMA PastRises ==
  ASSUME NEW e \in Seq(Int), NEW p, Rises(p, Len(e) + 1),
         NEW v \in Int \ {M!NoFigure}, NEW w \in Int \ {M!NoFigure}, v >= w
  PROVE  M!Past(v, e, p) \in Nat /\ M!Past(w, e, p) \in Nat /\ M!Past(w, e, p) <= M!Past(v, e, p)
<1> DEFINE n == Len(e)
           s == {i \in DOMAIN e : w > e[i]}
           t == {i \in DOMAIN e : v > e[i]}
           a == 1 + Cardinality(s)
           b == 1 + Cardinality(t)
<1>1. n \in Nat /\ DOMAIN e = 1 .. n
  OBVIOUS
<1>2. t \in SUBSET (1 .. n) /\ s \in SUBSET t
  BY <1>1
<1>3. M!Past(v, e, p) = p[b] /\ M!Past(w, e, p) = p[a]
  BY MacroCounts DEF M!Past, M!Unknown
<1> HIDE DEF s, t
<1>4. Cardinality(s) \in 0 .. n /\ Cardinality(t) \in 0 .. n /\ Cardinality(s) <= Cardinality(t)
  BY <1>1, <1>2, PartCount
<1> HIDE DEF n
<1>5. a \in 1 .. n + 1 /\ b \in 1 .. n + 1 /\ a <= b
  BY <1>1, <1>4
<1> HIDE DEF a, b
<1>6. p[a] \in Nat /\ p[b] \in Nat /\ p[a] <= p[b]
  BY <1>5 DEF Rises, n
<1> QED
  BY <1>3, <1>6

MacroFigures == {"vix", "sma", "gs", "hy", "tnx", "tnxMove", "cuau", "cuauMove", "dxy", "btc"}
KnownFigures == [MacroFigures -> Int \ {M!NoFigure}]

\* Every figure of a market is known, and those compared are the ones a score reads in
\* one direction.
MacroSettings ==
  /\ MacroMarkets \subseteq KnownFigures
  /\ DOMAIN MacroLevels \subseteq {"vix", "gs", "hy", "cuau", "cuauMove", "dxy", "btc"}
  /\ \A f \in DOMAIN MacroLevels : MacroLevels[f] \subseteq Int \ {M!NoFigure}

\* f is at least as bad a market as g.
WorseMarket(f, g) ==
  /\ f["vix"] >= g["vix"] /\ f["gs"] >= g["gs"] /\ f["hy"] >= g["hy"] /\ f["dxy"] >= g["dxy"]
  /\ f["cuau"] <= g["cuau"] /\ f["cuauMove"] <= g["cuauMove"] /\ f["btc"] <= g["btc"]
  /\ f["sma"] = g["sma"] /\ f["tnx"] = g["tnx"] /\ f["tnxMove"] = g["tnxMove"]

LEMMA VixFalls ==
  ASSUME NEW f \in KnownFigures, NEW g \in KnownFigures, WorseMarket(f, g)
  PROVE  M!VixScore(f) \in Int /\ M!VixScore(g) \in Int /\ M!VixScore(f) <= M!VixScore(g)
<1> DEFINE v == f["vix"]
           w == g["vix"]
           m == f["sma"]
           e == <<15, 18, 22, 28, 35>>
           p == <<90, 75, 55, 35, 20, 5>>
           a == M!From(v, e, p)
           b == M!From(w, e, p)
<1>1. v \in Int \ {M!NoFigure} /\ w \in Int \ {M!NoFigure} /\ m \in Int /\ v >= w /\ g["sma"] = m
  BY DEF WorseMarket, KnownFigures, MacroFigures
<1>2. e \in Seq(Int) /\ Falls(p, Len(e) + 1)
  BY DEF Falls
<1>3. /\ M!VixScore(f) = IF ~ M!Unknown(v) /\ 10 * v > 11 * m THEN M!Clipped(a - 10) ELSE a
      /\ M!VixScore(g) = IF ~ M!Unknown(w) /\ 10 * w > 11 * g["sma"] THEN M!Clipped(b - 10) ELSE b
  BY DEF M!VixScore
<1> HIDE DEF v, w, m, e, p
<1>4. a \in Nat /\ b \in Nat /\ a <= b
  BY <1>1, <1>2, FromFalls
<1> HIDE DEF a, b
<1>5. 10 * w > 11 * m => 10 * v > 11 * m
  BY <1>1
<1> QED
  BY <1>1, <1>3, <1>4, <1>5 DEF M!Clipped, M!Unknown

LEMMA CopperRises ==
  ASSUME NEW f \in KnownFigures, NEW g \in KnownFigures, WorseMarket(f, g)
  PROVE  M!CopperGold(f) \in Int /\ M!CopperGold(g) \in Int /\ M!CopperGold(f) <= M!CopperGold(g)
<1> DEFINE v == f["cuau"]
           w == g["cuau"]
           c == f["cuauMove"]
           d == g["cuauMove"]
           e == <<10, 12, 14, 16>>
           p == <<15, 30, 50, 70, 85>>
           a == M!Past(v, e, p)
           b == M!Past(w, e, p)
           k == M!CopperMove(c)
           l == M!CopperMove(d)
<1>1. v \in Int \ {M!NoFigure} /\ w \in Int \ {M!NoFigure} /\ c \in Int /\ d \in Int /\ v <= w /\ c <= d
  BY DEF WorseMarket, KnownFigures, MacroFigures
<1>2. e \in Seq(Int) /\ Rises(p, Len(e) + 1)
  BY DEF Rises
<1>3. /\ M!CopperGold(f) = IF M!Unknown(v) THEN 50 ELSE M!Clipped(a + k)
      /\ M!CopperGold(g) = IF M!Unknown(w) THEN 50 ELSE M!Clipped(b + l)
  BY DEF M!CopperGold
<1> HIDE DEF v, w, c, d, e, p
<1>4. a \in Nat /\ b \in Nat /\ a <= b
  BY <1>1, <1>2, PastRises
<1>5. k \in Int /\ l \in Int /\ k <= l
  BY <1>1 DEF M!CopperMove
<1> HIDE DEF a, b, k, l
<1> QED
  BY <1>1, <1>3, <1>4, <1>5 DEF M!Clipped, M!Unknown

LEMMA YieldSame ==
  ASSUME NEW f, NEW g, f["tnx"] = g["tnx"], f["tnxMove"] = g["tnxMove"], g["tnx"] \in Int, g["tnxMove"] \in Int
  PROVE  M!YieldCurve(f) = M!YieldCurve(g) /\ M!YieldCurve(g) \in Int
<1> DEFINE y == g["tnx"]
           d == g["tnxMove"]
           a == M!YieldLevel(y)
           b == M!YieldMove(d)
<1>1. /\ M!YieldCurve(f) = IF M!Unknown(f["tnx"]) THEN 50 ELSE M!Clipped(M!YieldLevel(f["tnx"]) + M!YieldMove(f["tnxMove"]))
      /\ M!YieldCurve(g) = IF M!Unknown(y) THEN 50 ELSE M!Clipped(a + b)
  BY DEF M!YieldCurve
<1>2. M!YieldCurve(f) = M!YieldCurve(g)
  BY <1>1
<1>3. y \in Int /\ d \in Int
  OBVIOUS
<1> HIDE DEF y, d
<1>4. a \in Int
  <2>1. a \in {80, 65, 45, 25, 30}
    BY <1>3 DEF M!YieldLevel
  <2> QED
    BY <2>1
<1>5. b \in Int
  <2>1. b \in {-15, -5, 0, 5, -10}
    BY <1>3 DEF M!YieldMove
  <2> QED
    BY <2>1
<1> HIDE DEF a, b
<1>6. M!Clipped(a + b) \in Int
  BY <1>4, <1>5 DEF M!Clipped
<1> QED
  BY <1>1, <1>2, <1>6

LEMMA WorseScoresLower ==
  ASSUME NEW f \in KnownFigures, NEW g \in KnownFigures, WorseMarket(f, g)
  PROVE  M!MacroScore(f) <= M!MacroScore(g)
<1> DEFINE e1 == <<-30, -10, 10, 30>>
           p1 == <<85, 70, 50, 35, 15>>
           e2 == <<135, 140, 145, 150>>
           p2 == <<85, 70, 50, 30, 10>>
           e3 == <<-30, -15, -5, 5, 15, 30>>
           p3 == <<85, 72, 60, 50, 38, 25, 12>>
           e4 == <<-200, -100, -30, 30, 100, 200>>
           p4 == <<10, 22, 35, 50, 65, 78, 90>>
           gs(m) == M!From(m["gs"], e1, p1)
           hy(m) == M!From(m["hy"], e2, p2)
           dxy(m) == M!From(m["dxy"], e3, p3)
           btc(m) == M!Past(m["btc"], e4, p4)
           vix(m) == M!VixScore(m)
           tnx(m) == M!YieldCurve(m)
           cuau(m) == M!CopperGold(m)
           a1 == vix(f)
           b1 == gs(f)
           c1 == hy(f)
           d1 == tnx(f)
           h1 == cuau(f)
           k1 == dxy(f)
           l1 == btc(f)
           a2 == vix(g)
           b2 == gs(g)
           c2 == hy(g)
           d2 == tnx(g)
           h2 == cuau(g)
           k2 == dxy(g)
           l2 == btc(g)
<1>1. /\ \A x \in MacroFigures : f[x] \in Int \ {M!NoFigure} /\ g[x] \in Int \ {M!NoFigure}
  BY DEF KnownFigures
<1>2. /\ e1 \in Seq(Int) /\ e2 \in Seq(Int) /\ e3 \in Seq(Int) /\ e4 \in Seq(Int)
      /\ Len(e1) = 4 /\ Len(e2) = 4 /\ Len(e3) = 6 /\ Len(e4) = 6
  OBVIOUS
<1>3. Falls(p1, 4 + 1) /\ Falls(p2, 4 + 1)
  BY DEF Falls
<1>4. Falls(p3, 6 + 1)
  BY DEF Falls
<1>5. Rises(p4, 6 + 1)
  BY DEF Rises
<1>6. /\ M!MacroScore(f) = 30 * (4 * a1 + 3 * b1 + 3 * c1) + 200 * d1 + 200 * h1 + 150 * k1 + 150 * l1
      /\ M!MacroScore(g) = 30 * (4 * a2 + 3 * b2 + 3 * c2) + 200 * d2 + 200 * h2 + 150 * k2 + 150 * l2
  BY DEF M!MacroScore, M!RiskOff, M!DollarTrend, M!BtcMomentum
<1>7. a1 \in Int /\ a2 \in Int /\ a1 <= a2
  BY VixFalls
<1>8. h1 \in Int /\ h2 \in Int /\ h1 <= h2
  BY CopperRises
<1>9. d1 = d2 /\ d2 \in Int
  <2>1. f["tnx"] = g["tnx"] /\ f["tnxMove"] = g["tnxMove"] /\ g["tnx"] \in Int /\ g["tnxMove"] \in Int
    BY <1>1 DEF WorseMarket, MacroFigures
  <2> QED
    BY <2>1, YieldSame
<1>10. /\ f["gs"] \in Int \ {M!NoFigure} /\ g["gs"] \in Int \ {M!NoFigure} /\ f["gs"] >= g["gs"]
       /\ f["hy"] \in Int \ {M!NoFigure} /\ g["hy"] \in Int \ {M!NoFigure} /\ f["hy"] >= g["hy"]
       /\ f["dxy"] \in Int \ {M!NoFigure} /\ g["dxy"] \in Int \ {M!NoFigure} /\ f["dxy"] >= g["dxy"]
       /\ f["btc"] \in Int \ {M!NoFigure} /\ g["btc"] \in Int \ {M!NoFigure} /\ g["btc"] >= f["btc"]
  BY <1>1 DEF WorseMarket, MacroFigures
<1> HIDE DEF e1, e2, e3, e4, p1, p2, p3, p4
<1>11. b1 \in Nat /\ b2 \in Nat /\ b1 <= b2
  BY <1>2, <1>3, <1>10, FromFalls
<1>12. c1 \in Nat /\ c2 \in Nat /\ c1 <= c2
  BY <1>2, <1>3, <1>10, FromFalls
<1>13. k1 \in Nat /\ k2 \in Nat /\ k1 <= k2
  BY <1>2, <1>4, <1>10, FromFalls
<1>14. l1 \in Nat /\ l2 \in Nat /\ l1 <= l2
  BY <1>2, <1>5, <1>10, PastRises
<1> HIDE DEF a1, b1, c1, d1, h1, k1, l1, a2, b2, c2, d2, h2, k2, l2
<1> QED
  BY <1>6, <1>7, <1>8, <1>9, <1>11, <1>12, <1>13, <1>14

LEMMA RiskierScoresLower == ASSUME MacroSettings, x2 \in MacroMarkets PROVE M!RiskierNeverBetter
<1> SUFFICES ASSUME NEW f \in DOMAIN MacroLevels, NEW v \in MacroLevels[f], M!Worse(f, v, x2[f])
             PROVE  M!MacroScore([x2 EXCEPT ![f] = v]) <= M!MacroScore(x2)
  BY DEF M!RiskierNeverBetter
<1> DEFINE g == [x2 EXCEPT ![f] = v]
<1>1. x2 \in KnownFigures /\ v \in Int \ {M!NoFigure}
  BY DEF MacroSettings
<1>2. f \in {"vix", "gs", "hy", "cuau", "cuauMove", "dxy", "btc"} /\ f \in MacroFigures
  BY DEF MacroSettings, MacroFigures
<1>3. g \in KnownFigures /\ g[f] = v /\ \A e \in MacroFigures \ {f} : g[e] = x2[e]
  BY <1>1, <1>2 DEF KnownFigures
<1>4. \A e \in MacroFigures : x2[e] \in Int /\ x2[e] <= x2[e]
  BY <1>1 DEF KnownFigures
<1>5. v \in Int /\ (f \in {"vix", "gs", "hy", "dxy"} => v >= x2[f]) /\ (f \notin {"vix", "gs", "hy", "dxy"} => v <= x2[f])
  BY <1>1 DEF M!Worse
<1> HIDE DEF g
<1>6. \A e \in {"vix", "gs", "hy", "dxy"} : g[e] >= x2[e]
  <2> SUFFICES ASSUME NEW e \in {"vix", "gs", "hy", "dxy"} PROVE g[e] >= x2[e]
    OBVIOUS
  <2>1. e \in MacroFigures
    BY DEF MacroFigures
  <2> QED
    BY <1>3, <1>4, <1>5, <2>1
<1>7. \A e \in {"cuau", "cuauMove", "btc"} : g[e] <= x2[e]
  <2> SUFFICES ASSUME NEW e \in {"cuau", "cuauMove", "btc"} PROVE g[e] <= x2[e]
    OBVIOUS
  <2>1. e \in MacroFigures /\ e \notin {"vix", "gs", "hy", "dxy"}
    BY DEF MacroFigures
  <2> QED
    BY <1>3, <1>4, <1>5, <2>1
<1>8. g["sma"] = x2["sma"] /\ g["tnx"] = x2["tnx"] /\ g["tnxMove"] = x2["tnxMove"]
  BY <1>2, <1>3 DEF MacroFigures
<1>9. WorseMarket(g, x2)
  BY <1>6, <1>7, <1>8 DEF WorseMarket
<1> QED
  BY <1>1, <1>3, <1>9, WorseScoresLower DEF g

LEMMA MarketStep == ASSUME x2 \in MacroMarkets, [M!Next]_(M!vars) PROVE x2' \in MacroMarkets
BY DEF M!vars, M!Next, M!AnswerCached, M!AnswerScored, M!CollectData, M!CollectScore, M!SaveSnapshot,
       M!Tick, M!Shift

(***************************************************************************)
(* The fundamental analysis: x1 is the day, x2 the company, x6 the cache   *)
(* entry, x8 what the requests gathered and x9 the last answer.            *)
(***************************************************************************)
LEMMA ReportCounts == \A s : Y!Cardinality(s) = Cardinality(s)
BY DEF Y!Cardinality, Cardinality

CompanyFigures == {"revenue", "eps3", "eps5", "operating", "gross", "net", "debt", "current"}
Reports == [CompanyFigures -> Int]

ReplyOk(a) ==
  a.total \in Int /\ a.revenue \in Int /\ a.margin \in Int /\ a.debt \in Int /\ a.guidance \in Int

\* The figures compared are known ones; an entry of the cache lives a day at least.
ReportSettings ==
  /\ ReportedCompanies \subseteq Reports
  /\ DOMAIN ReportLevels \subseteq CompanyFigures
  /\ \A f \in DOMAIN ReportLevels : ReportLevels[f] \subseteq Int \ {Y!None}
  /\ \A a \in ModelReplies : ReplyOk(a)
  /\ ReportLife \in Nat \ {0}

LEMMA BandedAt ==
  ASSUME NEW e \in Seq(Int), NEW p, NEW v \in Int, NEW w \in Int, v >= w
  PROVE  \E a \in 1 .. Len(e) + 1, b \in 1 .. Len(e) + 1 :
           a <= b /\ Y!Banded(w, e, p) = p[a] /\ Y!Banded(v, e, p) = p[b]
<1> DEFINE n == Len(e)
           s == {i \in DOMAIN e : w >= e[i]}
           t == {i \in DOMAIN e : v >= e[i]}
           a == 1 + Cardinality(s)
           b == 1 + Cardinality(t)
<1>1. n \in Nat /\ DOMAIN e = 1 .. n
  OBVIOUS
<1>2. t \in SUBSET (1 .. n) /\ s \in SUBSET t
  BY <1>1
<1>3. Y!Banded(v, e, p) = p[b] /\ Y!Banded(w, e, p) = p[a]
  BY ReportCounts DEF Y!Banded
<1> HIDE DEF s, t
<1>4. Cardinality(s) \in 0 .. n /\ Cardinality(t) \in 0 .. n /\ Cardinality(s) <= Cardinality(t)
  BY <1>1, <1>2, PartCount
<1>5. a \in 1 .. n + 1 /\ b \in 1 .. n + 1 /\ a <= b
  BY <1>1, <1>4
<1> HIDE DEF a, b
<1> QED
  BY <1>3, <1>5

\* Points out of 100.
HundredRises(p, n) == Rises(p, n) /\ \A i \in 1 .. n : p[i] <= 100
HundredFalls(p, n) == Falls(p, n) /\ \A i \in 1 .. n : p[i] <= 100

LEMMA BandedRises ==
  ASSUME NEW e \in Seq(Int), NEW p, HundredRises(p, Len(e) + 1), NEW v \in Int, NEW w \in Int, v >= w
  PROVE  Y!Banded(v, e, p) \in 0 .. 100 /\ Y!Banded(w, e, p) \in 0 .. 100 /\ Y!Banded(w, e, p) <= Y!Banded(v, e, p)
<1>1. PICK a \in 1 .. Len(e) + 1, b \in 1 .. Len(e) + 1 :
        a <= b /\ Y!Banded(w, e, p) = p[a] /\ Y!Banded(v, e, p) = p[b]
  BY BandedAt
<1>2. p[a] \in Nat /\ p[b] \in Nat /\ p[a] <= p[b]
  BY <1>1 DEF HundredRises, Rises
<1>3. p[a] <= 100 /\ p[b] <= 100
  BY DEF HundredRises
<1> DEFINE c == p[a]
           d == p[b]
<1>4. c \in Nat /\ d \in Nat /\ c <= d /\ c <= 100 /\ d <= 100
  BY <1>2, <1>3
<1>5. Y!Banded(w, e, p) = c /\ Y!Banded(v, e, p) = d
  BY <1>1
<1> HIDE DEF c, d
<1> QED
  BY <1>4, <1>5

LEMMA BandedFalls ==
  ASSUME NEW e \in Seq(Int), NEW p, HundredFalls(p, Len(e) + 1), NEW v \in Int, NEW w \in Int, v >= w
  PROVE  Y!Banded(v, e, p) \in 0 .. 100 /\ Y!Banded(w, e, p) \in 0 .. 100 /\ Y!Banded(v, e, p) <= Y!Banded(w, e, p)
<1>1. PICK a \in 1 .. Len(e) + 1, b \in 1 .. Len(e) + 1 :
        a <= b /\ Y!Banded(w, e, p) = p[a] /\ Y!Banded(v, e, p) = p[b]
  BY BandedAt
<1>2. p[a] \in Nat /\ p[b] \in Nat /\ p[b] <= p[a]
  BY <1>1 DEF HundredFalls, Falls
<1>3. p[a] <= 100 /\ p[b] <= 100
  BY DEF HundredFalls
<1> DEFINE c == p[a]
           d == p[b]
<1>4. c \in Nat /\ d \in Nat /\ d <= c /\ c <= 100 /\ d <= 100
  BY <1>2, <1>3
<1>5. Y!Banded(w, e, p) = c /\ Y!Banded(v, e, p) = d
  BY <1>1
<1> HIDE DEF c, d
<1> QED
  BY <1>4, <1>5

\* A figure below every edge is in the first band.
LEMMA BandedFirst ==
  ASSUME NEW e \in Seq(Int), NEW p, NEW v \in Int, \A i \in DOMAIN e : v < e[i]
  PROVE  Y!Banded(v, e, p) = p[1]
<1> DEFINE s == {i \in DOMAIN e : v >= e[i]}
<1>1. \A i \in DOMAIN e : e[i] \in Int
  OBVIOUS
<1>2. s = {}
  BY <1>1
<1>3. Y!Banded(v, e, p) = p[1 + Cardinality(s)]
  BY ReportCounts DEF Y!Banded
<1> HIDE DEF s
<1>4. Cardinality(s) = 0
  BY <1>2, FS_EmptySet
<1> QED
  BY <1>3, <1>4

\* Figures of f that are those of g, or known like them and no worse.
SameOrUp(v, w) == v \in Int /\ w \in Int /\ (v = Y!None <=> w = Y!None) /\ v >= w

LEMMA RevenueRises ==
  ASSUME NEW f, NEW g, SameOrUp(f["revenue"], g["revenue"]), SameOrUp(f["eps3"], g["eps3"])
  PROVE  Y!RevenueGrowth(f) \in 0 .. 100 /\ Y!RevenueGrowth(g) \in 0 .. 100 /\ Y!RevenueGrowth(g) <= Y!RevenueGrowth(f)
<1> DEFINE v == f["revenue"]
           w == g["revenue"]
           x == f["eps3"]
           y == g["eps3"]
           e == <<0, 5, 10, 20>>
           p == <<20, 40, 55, 70, 85>>
           d == <<0, 5, 15>>
           q == <<25, 45, 60, 75>>
           a == Y!Banded(v, e, p)
           b == Y!Banded(w, e, p)
           c == Y!Banded(x, d, q)
           h == Y!Banded(y, d, q)
<1>1. e \in Seq(Int) /\ d \in Seq(Int) /\ Len(e) = 4 /\ Len(d) = 3
  OBVIOUS
<1>2. HundredRises(p, 4 + 1)
  BY DEF HundredRises, Rises
<1>3. HundredRises(q, 3 + 1)
  BY DEF HundredRises, Rises
<1>4. /\ Y!RevenueGrowth(f) = CASE v # Y!None -> a [] ~ v # Y!None /\ x # Y!None -> c [] OTHER -> 50
      /\ Y!RevenueGrowth(g) = CASE w # Y!None -> b [] ~ w # Y!None /\ y # Y!None -> h [] OTHER -> 50
  BY DEF Y!RevenueGrowth, Y!Given
<1>5. /\ v \in Int /\ w \in Int /\ v >= w /\ x \in Int /\ y \in Int /\ x >= y
      /\ (v = Y!None <=> w = Y!None) /\ (x = Y!None <=> y = Y!None)
  BY DEF SameOrUp
<1> HIDE DEF e, p, d, q, v, w, x, y
<1>6. a \in 0 .. 100 /\ b \in 0 .. 100 /\ b <= a
  BY <1>1, <1>2, <1>5, BandedRises
<1>7. c \in 0 .. 100 /\ h \in 0 .. 100 /\ h <= c
  BY <1>1, <1>3, <1>5, BandedRises
<1> HIDE DEF a, b, c, h
<1> QED
  BY <1>4, <1>5, <1>6, <1>7

LEMMA DebtFalls ==
  ASSUME NEW f, NEW g, SameOrUp(g["debt"], f["debt"]), SameOrUp(f["current"], g["current"])
  PROVE  Y!DebtHealth(f) \in 0 .. 100 /\ Y!DebtHealth(g) \in 0 .. 100 /\ Y!DebtHealth(g) <= Y!DebtHealth(f)
<1> DEFINE v == f["debt"]
           w == g["debt"]
           x == f["current"]
           y == g["current"]
           e == <<30, 70, 100, 150>>
           p == <<90, 75, 60, 40, 20>>
           d == <<100, 150, 200>>
           q == <<25, 45, 65, 80>>
           a == Y!Banded(v, e, p)
           b == Y!Banded(w, e, p)
           c == Y!Banded(x, d, q)
           h == Y!Banded(y, d, q)
<1>1. e \in Seq(Int) /\ d \in Seq(Int) /\ Len(e) = 4 /\ Len(d) = 3
  OBVIOUS
<1>2. HundredFalls(p, 4 + 1)
  BY DEF HundredFalls, Falls
<1>3. HundredRises(q, 3 + 1)
  BY DEF HundredRises, Rises
<1>4. /\ Y!DebtHealth(f) = CASE v # Y!None -> a [] ~ v # Y!None /\ x # Y!None -> c [] OTHER -> 50
      /\ Y!DebtHealth(g) = CASE w # Y!None -> b [] ~ w # Y!None /\ y # Y!None -> h [] OTHER -> 50
  BY DEF Y!DebtHealth, Y!Given
<1>5. /\ v \in Int /\ w \in Int /\ w >= v /\ x \in Int /\ y \in Int /\ x >= y
      /\ (v = Y!None <=> w = Y!None) /\ (x = Y!None <=> y = Y!None)
  BY DEF SameOrUp
<1> HIDE DEF e, p, d, q, v, w, x, y
<1>6. a \in 0 .. 100 /\ b \in 0 .. 100 /\ b <= a
  BY <1>1, <1>2, <1>5, BandedFalls
<1>7. c \in 0 .. 100 /\ h \in 0 .. 100 /\ h <= c
  BY <1>1, <1>3, <1>5, BandedRises
<1> HIDE DEF a, b, c, h
<1> QED
  BY <1>4, <1>5, <1>6, <1>7

LEMMA GuidanceRises ==
  ASSUME NEW f, NEW g, SameOrUp(f["eps3"], g["eps3"]), SameOrUp(f["eps5"], g["eps5"])
  PROVE  Y!Guidance(f) \in 0 .. 100 /\ Y!Guidance(g) \in 0 .. 100 /\ Y!Guidance(g) <= Y!Guidance(f)
<1> DEFINE s == {x \in {"eps3", "eps5"} : f[x] > 0}
           t == {x \in {"eps3", "eps5"} : g[x] > 0}
           c == Cardinality(s)
           d == Cardinality(t)
           a == f["eps3"]
           b == f["eps5"]
           h == g["eps3"]
           k == g["eps5"]
           p == <<30, 55, 70>>
<1>1. a \in Int /\ b \in Int /\ h \in Int /\ k \in Int /\ a >= h /\ b >= k
      /\ (a = Y!None <=> h = Y!None) /\ (b = Y!None <=> k = Y!None)
  BY DEF SameOrUp
<1>2. t \in SUBSET s /\ s \in SUBSET {"eps3", "eps5"}
  BY <1>1
<1>3. /\ Y!Guidance(f) = CASE a # Y!None /\ b # Y!None -> p[1 + c]
                           [] a # Y!None /\ ~ b # Y!None -> IF a > 0 THEN 60 ELSE 35 [] OTHER -> 50
      /\ Y!Guidance(g) = CASE h # Y!None /\ k # Y!None -> p[1 + d]
                           [] h # Y!None /\ ~ k # Y!None -> IF h > 0 THEN 60 ELSE 35 [] OTHER -> 50
  BY ReportCounts DEF Y!Guidance, Y!Given
<1> HIDE DEF s, t
<1>4. c \in 0 .. 2 /\ d \in 0 .. 2 /\ d <= c
  <2>1. IsFiniteSet({"eps3", "eps5"}) /\ Cardinality({"eps3", "eps5"}) = 2
    <3>1. IsFiniteSet({"eps3"}) /\ Cardinality({"eps3"}) = 1
      BY FS_Singleton
    <3>2. "eps5" \notin {"eps3"}
      OBVIOUS
    <3>3. {"eps3"} \cup {"eps5"} = {"eps3", "eps5"}
      OBVIOUS
    <3> QED
      BY <3>1, <3>2, <3>3, FS_AddElement
  <2>2. IsFiniteSet(s) /\ c <= 2
    BY <1>2, <2>1, FS_Subset, Zenon
  <2>3. IsFiniteSet(t) /\ d <= c
    BY <1>2, <2>2, FS_Subset, Zenon
  <2>4. c \in Nat /\ d \in Nat
    BY <2>2, <2>3, FS_CardinalityType
  <2> QED
    BY <2>2, <2>3, <2>4
<1>5. p[1] = 30 /\ p[2] = 55 /\ p[3] = 70
  OBVIOUS
<1> HIDE DEF a, b, h, k, c, d, p
<1>6. p[1 + c] \in 0 .. 100 /\ p[1 + d] \in 0 .. 100 /\ p[1 + d] <= p[1 + c]
  <2>1. (c = 0 \/ c = 1 \/ c = 2) /\ (d = 0 \/ d = 1 \/ d = 2)
    BY <1>4
  <2> QED
    BY <1>4, <1>5, <2>1
<1> DEFINE m == p[1 + c]
           n == p[1 + d]
<1> HIDE DEF m, n
<1>7. /\ Y!Guidance(f) = CASE a # Y!None /\ b # Y!None -> m
                           [] a # Y!None /\ ~ b # Y!None -> IF a > 0 THEN 60 ELSE 35 [] OTHER -> 50
      /\ Y!Guidance(g) = CASE h # Y!None /\ k # Y!None -> n
                           [] h # Y!None /\ ~ k # Y!None -> IF h > 0 THEN 60 ELSE 35 [] OTHER -> 50
  BY <1>3 DEF m, n
<1>8. m \in 0 .. 100 /\ n \in 0 .. 100 /\ n <= m
  BY <1>6 DEF m, n
<1> QED
  BY <1>1, <1>7, <1>8

\* The margin of one that is better in one figure: the same, known and no lower, or
\* better than one below zero.
LEMMA MarginBetter ==
  ASSUME NEW g \in Reports, NEW x \in CompanyFigures, NEW v \in Int \ {Y!None},
         g[x] # Y!None, g[x] # 0, Y!Better(x, v, g[x])
  PROVE  LET f == [g EXCEPT ![x] = v]
         IN  /\ Y!MarginOf(f) \in Int /\ Y!MarginOf(g) \in Int
             /\ \/ Y!MarginOf(f) = Y!MarginOf(g)
                \/ Y!MarginOf(f) # Y!None /\ Y!MarginOf(g) # Y!None /\ Y!MarginOf(f) >= Y!MarginOf(g)
                \/ Y!MarginOf(g) # Y!None /\ Y!MarginOf(g) < 0
<1> DEFINE f == [g EXCEPT ![x] = v]
           a == f["operating"]
           b == f["gross"]
           c == f["net"]
           d == g["operating"]
           e == g["gross"]
           h == g["net"]
           m == Y!MarginOf(f)
           n == Y!MarginOf(g)
<1>1. /\ m = (IF a # Y!None /\ a # 0 THEN a ELSE IF b # Y!None /\ b # 0 THEN b ELSE c)
      /\ n = (IF d # Y!None /\ d # 0 THEN d ELSE IF e # Y!None /\ e # 0 THEN e ELSE h)
  BY DEF Y!MarginOf, Y!Given
<1>2. d \in Int /\ e \in Int /\ h \in Int /\ g[x] \in Int
  BY DEF Reports, CompanyFigures
<1>3. /\ a = (IF x = "operating" THEN v ELSE d) /\ b = (IF x = "gross" THEN v ELSE e)
      /\ c = (IF x = "net" THEN v ELSE h)
  BY DEF Reports, CompanyFigures
<1>4. /\ x = "operating" => d # Y!None /\ d # 0 /\ v >= d
      /\ x = "gross" => e # Y!None /\ e # 0 /\ v >= e
      /\ x = "net" => h # Y!None /\ h # 0 /\ v >= h
  BY DEF Y!Better
<1> HIDE DEF a, b, c, d, e, h, m, n, f
<1>5. /\ m \in Int /\ n \in Int
      /\ m = n \/ (m # Y!None /\ n # Y!None /\ m >= n) \/ (n # Y!None /\ n < 0)
  <2>1. CASE x = "operating"
    BY <1>1, <1>2, <1>3, <1>4, <2>1
  <2>2. CASE x = "gross"
    BY <1>1, <1>2, <1>3, <1>4, <2>2
  <2>3. CASE x = "net"
    BY <1>1, <1>2, <1>3, <1>4, <2>3
  <2>4. CASE x \notin {"operating", "gross", "net"}
    BY <1>1, <1>2, <1>3, <2>4
  <2> QED
    BY <2>1, <2>2, <2>3, <2>4
<1> QED
  BY <1>5 DEF m, n, f

LEMMA MarginRises ==
  ASSUME NEW g \in Reports, NEW x \in CompanyFigures, NEW v \in Int \ {Y!None},
         g[x] # Y!None, g[x] # 0, Y!Better(x, v, g[x])
  PROVE  /\ Y!MarginTrend([g EXCEPT ![x] = v]) \in 0 .. 100 /\ Y!MarginTrend(g) \in 0 .. 100
         /\ Y!MarginTrend(g) <= Y!MarginTrend([g EXCEPT ![x] = v])
<1> DEFINE f == [g EXCEPT ![x] = v]
           m == Y!MarginOf(f)
           n == Y!MarginOf(g)
           e == <<0, 8, 15, 25>>
           p == <<15, 35, 55, 70, 85>>
           a == Y!Banded(m, e, p)
           b == Y!Banded(n, e, p)
<1>1. /\ m \in Int /\ n \in Int
      /\ m = n \/ (m # Y!None /\ n # Y!None /\ m >= n) \/ (n # Y!None /\ n < 0)
  BY MarginBetter
<1>2. e \in Seq(Int) /\ Len(e) = 4 /\ p[1] = 15
  OBVIOUS
<1>14. ASSUME NEW y \in Int, y < 0 PROVE \A i \in DOMAIN e : y < e[i]
  <2>1. \A i \in DOMAIN e : e[i] \in {0, 8, 15, 25}
    OBVIOUS
  <2> HIDE DEF e
  <2> QED
    BY <1>14, <2>1
<1>3. HundredRises(p, 4 + 1)
  BY DEF HundredRises, Rises
<1>4. /\ Y!MarginTrend(f) = IF m # Y!None THEN a ELSE 50
      /\ Y!MarginTrend(g) = IF n # Y!None THEN b ELSE 50
  BY DEF Y!MarginTrend, Y!Given
<1> HIDE DEF f, m, n, e
<1> HIDE DEF p
<1>6. m >= n => b <= a
  BY <1>1, <1>2, <1>3, BandedRises
<1>7. m >= m /\ n >= n
  BY <1>1
<1>8. a \in 0 .. 100
  BY <1>1, <1>2, <1>3, <1>7, BandedRises
<1>9. b \in 0 .. 100
  BY <1>1, <1>2, <1>3, <1>7, BandedRises
<1>10. n < 0 => b = 15
  <2> SUFFICES ASSUME n < 0 PROVE b = 15
    OBVIOUS
  <2>1. \A i \in DOMAIN e : n < e[i]
    BY <1>14, <1>1
  <2>2. b = p[1]
    BY <1>1, <1>2, <2>1, BandedFirst
  <2> QED
    BY <1>2, <2>2
<1>11. a >= 15
  <2> DEFINE k == -1
  <2>1. k \in Int /\ k < 0 /\ k = -1
    OBVIOUS
  <2> HIDE DEF k
  <2>2. \A i \in DOMAIN e : k < e[i]
    BY <1>14, <2>1
  <2>3. Y!Banded(k, e, p) = 15
    BY <1>2, <2>1, <2>2, BandedFirst
  <2>4. CASE m >= k
    <3>1. Y!Banded(k, e, p) <= a
      BY <1>1, <1>2, <1>3, <2>1, <2>4, BandedRises
    <3> QED
      BY <2>3, <3>1
  <2>5. CASE ~ m >= k
    <3>1. \A i \in DOMAIN e : m < e[i]
      <4>1. m < 0
        BY <1>1, <2>1, <2>5
      <4> QED
        BY <1>14, <1>1, <4>1
    <3>2. a = p[1]
      BY <1>1, <1>2, <3>1, BandedFirst
    <3> QED
      BY <1>2, <3>2
  <2> QED
    BY <2>4, <2>5
<1> HIDE DEF a, b
<1>12. m = n => Y!MarginTrend(f) = Y!MarginTrend(g)
  BY <1>4 DEF a, b
<1>13. Y!MarginTrend(f) \in 0 .. 100 /\ Y!MarginTrend(g) \in 0 .. 100 /\ Y!MarginTrend(g) <= Y!MarginTrend(f)
  BY <1>1, <1>4, <1>6, <1>8, <1>9, <1>10, <1>11, <1>12
<1> QED
  BY <1>13 DEF f

LEMMA RuleRises ==
  ASSUME NEW g \in Reports, NEW x \in CompanyFigures, NEW v \in Int \ {Y!None},
         g[x] # Y!None, g[x] # 0, Y!Better(x, v, g[x])
  PROVE  /\ Y!RuleScore([g EXCEPT ![x] = v]) >= Y!RuleScore(g)
         /\ Y!RuleScore(g) \in 0 .. 10000
<1> DEFINE f == [g EXCEPT ![x] = v]
           a1 == Y!RevenueGrowth(f)
           b1 == Y!MarginTrend(f)
           c1 == Y!DebtHealth(f)
           d1 == Y!Guidance(f)
           a2 == Y!RevenueGrowth(g)
           b2 == Y!MarginTrend(g)
           c2 == Y!DebtHealth(g)
           d2 == Y!Guidance(g)
<1>1. \A y \in CompanyFigures : g[y] \in Int /\ f[y] = IF y = x THEN v ELSE g[y]
  BY DEF Reports
<1>2. \A y \in {"revenue", "eps3", "eps5", "current"} : SameOrUp(f[y], g[y])
  <2> SUFFICES ASSUME NEW y \in {"revenue", "eps3", "eps5", "current"} PROVE SameOrUp(f[y], g[y])
    OBVIOUS
  <2>1. y \in CompanyFigures /\ y # "debt"
    BY DEF CompanyFigures
  <2>2. CASE y = x
    BY <1>1, <2>1, <2>2 DEF SameOrUp, Y!Better
  <2>3. CASE y # x
    BY <1>1, <2>1, <2>3 DEF SameOrUp
  <2> QED
    BY <2>2, <2>3
<1>3. SameOrUp(g["debt"], f["debt"])
  <2>1. "debt" \in CompanyFigures
    BY DEF CompanyFigures
  <2>2. CASE x = "debt"
    BY <1>1, <2>1, <2>2 DEF SameOrUp, Y!Better
  <2>3. CASE x # "debt"
    BY <1>1, <2>1, <2>3 DEF SameOrUp
  <2> QED
    BY <2>2, <2>3
<1>4. b1 \in 0 .. 100 /\ b2 \in 0 .. 100 /\ b2 <= b1
  BY MarginRises
<1> HIDE DEF f
<1>5. a1 \in 0 .. 100 /\ a2 \in 0 .. 100 /\ a2 <= a1
  BY <1>2, RevenueRises
<1>6. c1 \in 0 .. 100 /\ c2 \in 0 .. 100 /\ c2 <= c1
  BY <1>2, <1>3, DebtFalls
<1>7. d1 \in 0 .. 100 /\ d2 \in 0 .. 100 /\ d2 <= d1
  BY <1>2, GuidanceRises
<1>8. Y!RuleScore(f) = 30 * a1 + 25 * b1 + 20 * c1 + 25 * d1 /\ Y!RuleScore(g) = 30 * a2 + 25 * b2 + 20 * c2 + 25 * d2
  BY DEF Y!RuleScore, Y!Weighted
<1> HIDE DEF a1, b1, c1, d1, a2, b2, c2, d2
<1>9. Y!RuleScore(f) >= Y!RuleScore(g) /\ Y!RuleScore(g) \in 0 .. 10000
  <2>1. /\ a1 \in Nat /\ b1 \in Nat /\ c1 \in Nat /\ d1 \in Nat
        /\ a2 \in Nat /\ b2 \in Nat /\ c2 \in Nat /\ d2 \in Nat
        /\ a2 <= a1 /\ b2 <= b1 /\ c2 <= c1 /\ d2 <= d1
        /\ a2 <= 100 /\ b2 <= 100 /\ c2 <= 100 /\ d2 <= 100
    BY <1>4, <1>5, <1>6, <1>7
  <2> QED
    BY <1>8, <2>1, SMTT(30)
<1> QED
  BY <1>9 DEF f

\* Whatever is reported, known or not, the rules give a score.
LEMMA RuleBounds == ASSUME NEW g \in Reports PROVE Y!RuleScore(g) \in 0 .. 10000
<1> DEFINE a == Y!RevenueGrowth(g)
           b == Y!MarginTrend(g)
           c == Y!DebtHealth(g)
           d == Y!Guidance(g)
<1>1. \A y \in CompanyFigures : g[y] \in Int
  BY DEF Reports
<1>2. /\ SameOrUp(g["revenue"], g["revenue"]) /\ SameOrUp(g["eps3"], g["eps3"]) /\ SameOrUp(g["eps5"], g["eps5"])
      /\ SameOrUp(g["debt"], g["debt"]) /\ SameOrUp(g["current"], g["current"])
  BY <1>1 DEF SameOrUp, CompanyFigures
<1>3. a \in 0 .. 100 /\ c \in 0 .. 100 /\ d \in 0 .. 100
  BY <1>2, RevenueRises, DebtFalls, GuidanceRises
<1>4. b \in 0 .. 100
  <2> DEFINE n == Y!MarginOf(g)
             e == <<0, 8, 15, 25>>
             p == <<15, 35, 55, 70, 85>>
  <2>1. e \in Seq(Int) /\ Len(e) = 4
    OBVIOUS
  <2>2. HundredRises(p, 4 + 1)
    BY DEF HundredRises, Rises
  <2>3. b = IF n # Y!None THEN Y!Banded(n, e, p) ELSE 50
    BY DEF Y!MarginTrend, Y!Given
  <2>4. n \in {g["operating"], g["gross"], g["net"]}
    BY DEF Y!MarginOf
  <2>5. n \in Int
    BY <1>1, <2>4 DEF CompanyFigures
  <2> HIDE DEF n, e, p, b
  <2>6. n >= n
    BY <2>5
  <2>7. Y!Banded(n, e, p) \in 0 .. 100
    BY <2>1, <2>2, <2>5, <2>6, BandedRises
  <2> QED
    BY <2>3, <2>7
<1>5. Y!RuleScore(g) = 30 * a + 25 * b + 20 * c + 25 * d
  BY DEF Y!RuleScore, Y!Weighted
<1> HIDE DEF a, b, c, d
<1> QED
  BY <1>3, <1>4, <1>5

\* Nor does what a model answers leave the range.
LEMMA ReplyBounds == ASSUME NEW a, ReplyOk(a) PROVE Y!ValidateResult(a) \in 0 .. 10000
<1>1. \A x \in Int : Y!Clamp(x) \in 0 .. 100
  BY DEF Y!Clamp, Y!Given
<1> DEFINE t == Y!Clamp(a.total)
           b == Y!Clamp(a.revenue)
           c == Y!Clamp(a.margin)
           d == Y!Clamp(a.debt)
           e == Y!Clamp(a.guidance)
           r == Y!ValidateResult(a)
<1>2. t \in 0 .. 100 /\ b \in 0 .. 100 /\ c \in 0 .. 100 /\ d \in 0 .. 100 /\ e \in 0 .. 100
  BY <1>1 DEF ReplyOk
<1>3. r = 100 * t \/ r = 30 * b + 25 * c + 20 * d + 25 * e
  BY DEF Y!ValidateResult, Y!Weighted
<1> HIDE DEF t, b, c, d, e, r
<1>4. 100 * t \in 0 .. 10000 /\ 30 * b + 25 * c + 20 * d + 25 * e \in 0 .. 10000
  <2>1. /\ t \in Nat /\ t <= 100 /\ b \in Nat /\ b <= 100 /\ c \in Nat /\ c <= 100
        /\ d \in Nat /\ d <= 100 /\ e \in Nat /\ e <= 100
    BY <1>2
  <2> QED
    BY <2>1, SMTT(30)
<1>5. r \in 0 .. 10000
  BY <1>3, <1>4
<1> QED
  BY <1>5 DEF r

\* What is in the cache and what was answered are scores of their days.
ReportScore(s) == s \in 0 .. 10000
ReportEntry(e) ==
  e = Y!NoEntry \/ (ReportScore(e.score) /\ e.at \in Int /\ e.until = e.at + ReportLife)
ReportReply(a) == ReportScore(a.score) /\ a.age \in Int /\ a.age < ReportLife
ReportGathers(p, f) ==
  /\ DOMAIN p = Y!Requests /\ DOMAIN f = Y!Requests
  /\ \A r \in Y!Requests : p[r] = "analyse" => f[r].figures \in SUBSET ReportedCompanies
ReportInv ==
  /\ x1 \in Nat /\ x1 >= 1 /\ x2 \in ReportedCompanies
  /\ ReportEntry(x6) /\ ReportGathers(x7, x8) /\ ReportReply(x9)

LEMMA ReportStart == ASSUME ReportSettings, Y!Init PROVE ReportInv
<1>1. x1 = 1 /\ x2 \in ReportedCompanies /\ x6 = Y!NoEntry
  BY DEF Y!Init
<1>2. ReportGathers(x7, x8)
  BY DEF Y!Init, ReportGathers
<1>3. x9 = [score |-> 5000, age |-> 0] /\ ReportLife \in Nat \ {0}
  BY DEF Y!Init, Y!Fallback, ReportSettings
<1>4. ReportReply(x9)
  BY <1>3 DEF ReportReply, ReportScore
<1> QED
  BY <1>1, <1>2, <1>4 DEF ReportInv, ReportEntry

LEMMA ReportsScored ==
  ASSUME ReportSettings, NEW f, f.figures \in SUBSET ReportedCompanies, NEW s \in Y!Scores(f)
  PROVE  ReportScore(s)
<1>1. s = Y!Fallback \/ (\E a \in ModelReplies : s = Y!ValidateResult(a)) \/ (\E g \in f.figures : s = Y!RuleScore(g))
  <2> DEFINE replies == {Y!ValidateResult(a) : a \in ModelReplies}
             rules == {Y!RuleScore(g) : g \in f.figures}
  <2>1. \/ Y!Scores(f) = {Y!Fallback} \/ Y!Scores(f) = replies \cup {Y!Fallback} \/ Y!Scores(f) = rules
    BY DEF Y!Scores
  <2>2. s \in {Y!Fallback} \/ s \in replies \/ s \in rules
    BY <2>1
  <2> QED
    BY <2>2
<1>2. CASE s = Y!Fallback
  BY <1>2 DEF Y!Fallback, ReportScore
<1>3. CASE \E a \in ModelReplies : s = Y!ValidateResult(a)
  <2>1. PICK a \in ModelReplies : s = Y!ValidateResult(a)
    BY <1>3
  <2>2. ReplyOk(a)
    BY DEF ReportSettings
  <2>3. Y!ValidateResult(a) \in 0 .. 10000
    BY <2>2, ReplyBounds
  <2> QED
    BY <2>1, <2>3 DEF ReportScore
<1>4. CASE \E g \in f.figures : s = Y!RuleScore(g)
  <2>1. PICK g \in f.figures : s = Y!RuleScore(g)
    BY <1>4
  <2>2. g \in Reports
    BY DEF ReportSettings
  <2>3. Y!RuleScore(g) \in 0 .. 10000
    BY <2>2, RuleBounds
  <2> QED
    BY <2>1, <2>3 DEF ReportScore
<1> QED
  BY <1>1, <1>2, <1>3, <1>4

LEMMA ReportAnswers ==
  ASSUME ReportSettings, ReportInv, NEW r \in Y!Requests, Y!Answer(r)
  PROVE  ReportInv'
<1>1. /\ x1 < x6.until /\ x9' = [score |-> x6.score, age |-> x1 - x6.at]
      /\ x1' = x1 /\ x2' = x2 /\ x6' = x6 /\ x7' = x7 /\ x8' = x8
  BY DEF Y!Answer, Y!Live
<1>2. x1 \in Nat /\ ReportEntry(x6)
  BY DEF ReportInv
<1> DEFINE e == x6
           until == e.until
           at == e.at
           s == e.score
           age == x1 - at
<1>3. e # Y!NoEntry
  <2> SUFFICES ASSUME e = Y!NoEntry PROVE FALSE
    OBVIOUS
  <2>1. until = 0
    BY DEF Y!NoEntry
  <2> QED
    BY <1>1, <1>2, <2>1
<1>4. ReportScore(s) /\ at \in Int /\ until = at + ReportLife /\ ReportLife \in Nat /\ x1 < until
  BY <1>1, <1>2, <1>3 DEF ReportEntry, ReportSettings
<1>5. x9' = [score |-> s, age |-> age]
  BY <1>1
<1> HIDE DEF e, until, at, s
<1>6. age \in Int /\ age < ReportLife
  BY <1>2, <1>4
<1> HIDE DEF age
<1>7. ReportReply([score |-> s, age |-> age])
  BY <1>4, <1>6 DEF ReportReply
<1> QED
  BY <1>1, <1>5, <1>7 DEF ReportInv

LEMMA ReportGathered ==
  ASSUME ReportSettings, ReportInv, NEW r \in Y!Requests, Y!Gather(r)
  PROVE  ReportInv'
<1>1. PICK figures \in {{x2}, {}}, edgar \in BOOLEAN :
        x8' = [x8 EXCEPT ![r] = [filings |-> IF edgar THEN x4 - x5 ELSE 0, figures |-> figures]]
  BY DEF Y!Gather
<1> DEFINE n == IF edgar THEN x4 - x5 ELSE 0
           f == [filings |-> n, figures |-> figures]
<1>2. x7' = [x7 EXCEPT ![r] = "analyse"] /\ x1' = x1 /\ x2' = x2 /\ x6' = x6 /\ x9' = x9
  BY DEF Y!Gather, Y!Goto
<1>3. f.figures \in SUBSET ReportedCompanies
  BY DEF ReportInv
<1>4. x8' = [x8 EXCEPT ![r] = f]
  BY <1>1
<1> HIDE DEF f
<1>5. ReportGathers(x7', x8')
  BY <1>2, <1>3, <1>4 DEF ReportInv, ReportGathers
<1> QED
  BY <1>2, <1>5 DEF ReportInv

LEMMA ReportAnalysed ==
  ASSUME ReportSettings, ReportInv, NEW r \in Y!Requests, Y!Analyse(r)
  PROVE  ReportInv'
<1>1. PICK s \in Y!Scores(x8[r]) :
        x6' = [score |-> s, at |-> x1, until |-> x1 + ReportLife] /\ x9' = [score |-> s, age |-> 0]
  BY DEF Y!Analyse
<1>2. /\ x7[r] = "analyse" /\ x7' = [x7 EXCEPT ![r] = "idle"] /\ x8' = [x8 EXCEPT ![r] = Y!NoEntry]
      /\ x1' = x1 /\ x2' = x2
  BY DEF Y!Analyse, Y!Goto
<1>3. x8[r].figures \in SUBSET ReportedCompanies
  BY <1>2 DEF ReportInv, ReportGathers
<1>4. ReportScore(s)
  BY <1>3, ReportsScored
<1>5. ReportLife \in Nat \ {0} /\ x1 \in Nat
  BY DEF ReportSettings, ReportInv
<1>6. ReportEntry(x6') /\ ReportReply(x9')
  BY <1>1, <1>4, <1>5 DEF ReportEntry, ReportReply
<1>7. ReportGathers(x7', x8')
  BY <1>2 DEF ReportInv, ReportGathers
<1> QED
  BY <1>2, <1>6, <1>7 DEF ReportInv

LEMMA ReportStep ==
  ASSUME ReportSettings, ReportInv, [Y!Next]_(Y!vars)
  PROVE  ReportInv'
<1>1. CASE Y!File
  BY <1>1 DEF Y!File, ReportInv
<1>2. CASE Y!NextDay
  <2>1. x1' = x1 + 1 /\ x2' = x2 /\ x6' = x6 /\ x7' = x7 /\ x8' = x8 /\ x9' = x9
    BY <1>2 DEF Y!NextDay
  <2> QED
    BY <2>1 DEF ReportInv
<1>3. CASE UNCHANGED Y!vars
  BY <1>3 DEF Y!vars, ReportInv
<1>4. CASE \E r \in Y!Requests : Y!Answer(r) \/ Y!Gather(r) \/ Y!Analyse(r)
  BY <1>4, ReportAnswers, ReportGathered, ReportAnalysed
<1> QED
  BY <1>1, <1>2, <1>3, <1>4 DEF Y!Next

LEMMA ReportsSound == ASSUME ReportSettings, ReportInv PROVE Y!AnswerSound
<1>1. x9.score \in 0 .. 10000 /\ x9.age < ReportLife /\ x2 \in Reports
  BY DEF ReportInv, ReportSettings, ReportReply, ReportScore
<1>2. ASSUME NEW f \in DOMAIN ReportLevels, NEW v \in ReportLevels[f],
             Y!Given(x2[f]), x2[f] # 0, Y!Better(f, v, x2[f])
      PROVE  Y!RuleScore([x2 EXCEPT ![f] = v]) >= Y!RuleScore(x2)
  <2>1. f \in CompanyFigures /\ v \in Int \ {Y!None} /\ x2[f] # Y!None
    BY <1>2 DEF ReportSettings, Y!Given
  <2> QED
    BY <1>1, <1>2, <2>1, RuleRises
<1> QED
  BY <1>1, <1>2 DEF Y!AnswerSound

(***************************************************************************)
(* The score of a bar of the watchlist backtest.                           *)
(***************************************************************************)
LikesHigh == {"above", "averages", "middle", "roc", "power", "macd"}
LikesLow == {"rsi", "stoch", "stochRsi", "range", "cci", "ultimate"}
BarFigures == LikesHigh \cup LikesLow \cup {"adx", "volume"}
BarReadings == [BarFigures -> Int]

\* Twelve averages; the strength of the trend and the volume are not compared, since
\* they weigh and do not say.
BarSettings ==
  /\ SimReadings \subseteq BarReadings
  /\ \A b \in SimReadings : b["averages"] \in 0 .. 12
  /\ DOMAIN SimLevels \subseteq LikesHigh \cup LikesLow
  /\ \A f \in DOMAIN SimLevels : SimLevels[f] \subseteq Int

\* Every indicator likes f as much as g, or better.
LikedMore(f, g) ==
  /\ \A x \in LikesHigh : f[x] >= g[x]
  /\ \A x \in LikesLow : f[x] <= g[x]
  /\ f["adx"] = g["adx"] /\ f["volume"] = g["volume"]

LEMMA SignRises ==
  ASSUME NEW v \in Int, NEW w \in Int, v >= w
  PROVE  W!Sign(v) \in -1 .. 1 /\ W!Sign(w) \in -1 .. 1 /\ W!Sign(w) <= W!Sign(v)
BY DEF W!Sign

LEMMA LowRises ==
  ASSUME NEW v \in Int, NEW w \in Int, v <= w, NEW a \in Int, NEW b \in Int, a <= b
  PROVE  W!Low(v, a, b) \in -1 .. 1 /\ W!Low(w, a, b) \in -1 .. 1 /\ W!Low(w, a, b) <= W!Low(v, a, b)
BY DEF W!Low

LEMMA BarTrend ==
  ASSUME NEW f \in BarReadings, NEW g \in BarReadings, LikedMore(f, g)
  PROVE  /\ W!Trend(f) \in Int /\ W!Trend(g) \in Int /\ W!Trend(g) <= W!Trend(f)
         /\ g["averages"] \in 0 .. 12 => W!Trend(g) \in -10 .. 10
<1> DEFINE a1 == f["averages"]
           a2 == g["averages"]
           b1 == W!AdxSays(f)
           b2 == W!AdxSays(g)
           c1 == W!Sign(f["middle"])
           c2 == W!Sign(g["middle"])
<1>1. \A x \in BarFigures : f[x] \in Int /\ g[x] \in Int
  BY DEF BarReadings
<1>2. a1 \in Int /\ a2 \in Int /\ a2 <= a1
  BY <1>1 DEF BarFigures, LikesHigh, LikesLow, LikedMore
<1>3. /\ f["above"] \in Int /\ g["above"] \in Int /\ f["above"] >= g["above"]
      /\ f["middle"] \in Int /\ g["middle"] \in Int /\ f["middle"] >= g["middle"]
  BY <1>1 DEF BarFigures, LikesHigh, LikesLow, LikedMore
<1>4. f["adx"] = g["adx"]
  BY DEF LikedMore
<1>5. c1 \in -1 .. 1 /\ c2 \in -1 .. 1 /\ c2 <= c1
  BY <1>3, SignRises
<1>6. b1 \in -1 .. 1 /\ b2 \in -1 .. 1 /\ b2 <= b1
  <2> DEFINE u == f["above"]
             v == g["above"]
             strong == g["adx"] > 25
  <2>1. /\ b1 = IF strong THEN IF u > 0 THEN 1 ELSE -1 ELSE 0
        /\ b2 = IF strong THEN IF v > 0 THEN 1 ELSE -1 ELSE 0
    BY <1>4 DEF W!AdxSays
  <2>2. u \in Int /\ v \in Int /\ u >= v
    BY <1>3
  <2> HIDE DEF u, v, strong, b1, b2
  <2> QED
    BY <2>1, <2>2
<1>7. W!Trend(f) = (a1 - 6) + 2 * (b1 + c1) /\ W!Trend(g) = (a2 - 6) + 2 * (b2 + c2)
  BY DEF W!Trend
<1> HIDE DEF a1, a2, b1, b2, c1, c2
<1>8. a2 \in 0 .. 12 => W!Trend(g) \in -10 .. 10
  BY <1>5, <1>6, <1>7
<1>9. W!Trend(f) \in Int /\ W!Trend(g) \in Int /\ W!Trend(g) <= W!Trend(f)
  BY <1>2, <1>5, <1>6, <1>7
<1> QED
  BY <1>8, <1>9 DEF a2

LEMMA BarMomentum ==
  ASSUME NEW f \in BarReadings, NEW g \in BarReadings, LikedMore(f, g)
  PROVE  W!Momentum(f) \in Int /\ W!Momentum(g) \in -4 .. 4 /\ W!Momentum(g) <= W!Momentum(f)
<1> DEFINE a1 == W!Low(f["rsi"], 30, 70)
           a2 == W!Low(g["rsi"], 30, 70)
           b1 == W!Sign(f["roc"])
           b2 == W!Sign(g["roc"])
           c1 == W!Low(f["ultimate"], 30, 70)
           c2 == W!Low(g["ultimate"], 30, 70)
           d1 == W!Sign(f["power"])
           d2 == W!Sign(g["power"])
<1>1. \A x \in BarFigures : f[x] \in Int /\ g[x] \in Int
  BY DEF BarReadings
<1>2. /\ f["rsi"] \in Int /\ g["rsi"] \in Int /\ f["rsi"] <= g["rsi"]
      /\ f["ultimate"] \in Int /\ g["ultimate"] \in Int /\ f["ultimate"] <= g["ultimate"]
      /\ f["roc"] \in Int /\ g["roc"] \in Int /\ f["roc"] >= g["roc"]
      /\ f["power"] \in Int /\ g["power"] \in Int /\ f["power"] >= g["power"]
  BY <1>1 DEF BarFigures, LikesHigh, LikesLow, LikedMore
<1>3. a1 \in -1 .. 1 /\ a2 \in -1 .. 1 /\ a2 <= a1 /\ c1 \in -1 .. 1 /\ c2 \in -1 .. 1 /\ c2 <= c1
  BY <1>2, LowRises
<1>4. b1 \in -1 .. 1 /\ b2 \in -1 .. 1 /\ b2 <= b1 /\ d1 \in -1 .. 1 /\ d2 \in -1 .. 1 /\ d2 <= d1
  BY <1>2, SignRises
<1>5. W!Momentum(f) = a1 + b1 + c1 + d1 /\ W!Momentum(g) = a2 + b2 + c2 + d2
  BY DEF W!Momentum
<1> HIDE DEF a1, a2, b1, b2, c1, c2, d1, d2
<1> QED
  BY <1>3, <1>4, <1>5

LEMMA BarReversion ==
  ASSUME NEW f \in BarReadings, NEW g \in BarReadings, LikedMore(f, g)
  PROVE  W!Reversion(f) \in Int /\ W!Reversion(g) \in -4 .. 4 /\ W!Reversion(g) <= W!Reversion(f)
<1> DEFINE a1 == W!Low(f["stoch"], 20, 80)
           a2 == W!Low(g["stoch"], 20, 80)
           b1 == W!Low(f["stochRsi"], 20, 80)
           b2 == W!Low(g["stochRsi"], 20, 80)
           c1 == W!Low(f["range"], -80, -20)
           c2 == W!Low(g["range"], -80, -20)
           d1 == W!Low(f["cci"], -100, 100)
           d2 == W!Low(g["cci"], -100, 100)
<1>1. \A x \in BarFigures : f[x] \in Int /\ g[x] \in Int
  BY DEF BarReadings
<1>2. /\ f["stoch"] \in Int /\ g["stoch"] \in Int /\ f["stoch"] <= g["stoch"]
      /\ f["stochRsi"] \in Int /\ g["stochRsi"] \in Int /\ f["stochRsi"] <= g["stochRsi"]
      /\ f["range"] \in Int /\ g["range"] \in Int /\ f["range"] <= g["range"]
      /\ f["cci"] \in Int /\ g["cci"] \in Int /\ f["cci"] <= g["cci"]
  BY <1>1 DEF BarFigures, LikesHigh, LikesLow, LikedMore
<1>3. /\ a1 \in -1 .. 1 /\ a2 \in -1 .. 1 /\ a2 <= a1 /\ b1 \in -1 .. 1 /\ b2 \in -1 .. 1 /\ b2 <= b1
      /\ c1 \in -1 .. 1 /\ c2 \in -1 .. 1 /\ c2 <= c1 /\ d1 \in -1 .. 1 /\ d2 \in -1 .. 1 /\ d2 <= d1
  BY <1>2, LowRises
<1>4. W!Reversion(f) = a1 + b1 + c1 + d1 /\ W!Reversion(g) = a2 + b2 + c2 + d2
  BY DEF W!Reversion
<1> HIDE DEF a1, a2, b1, b2, c1, c2, d1, d2
<1> QED
  BY <1>3, <1>4

\* The weights of the three categories of volatility.
BarWeights == {<<40, 25, 15, 10, 10>>, <<15, 20, 20, 30, 15>>, <<30, 25, 20, 15, 10>>}

LEMMA BarsInOrder ==
  ASSUME NEW f \in BarReadings, NEW g \in BarReadings, LikedMore(f, g), g["averages"] \in 0 .. 12
  PROVE  W!ScoreOf(g) \in -4000 .. 4000 /\ W!ScoreOf(g) <= W!ScoreOf(f)
<1> DEFINE w == W!Weights(g)
           q == W!Factor(g)
           z == W!VolumeOf(g)
           a == W!Trend(f)
           b == W!Momentum(f)
           c == W!Macd(f)
           d == W!Reversion(f)
           h == W!Trend(g)
           k == W!Momentum(g)
           m == W!Macd(g)
           n == W!Reversion(g)
           x == W!ScoreOf(f)
           y == W!ScoreOf(g)
           lo == 2 * w[1] * h + 5 * w[2] * k + 20 * w[3] * m + 5 * w[4] * n + 10 * w[5] * z
           hi == 2 * w[1] * a + 5 * w[2] * b + 20 * w[3] * c + 5 * w[4] * d + 10 * w[5] * z
<1>1. \A e \in BarFigures : f[e] \in Int /\ g[e] \in Int
  BY DEF BarReadings
<1>2. f["adx"] = g["adx"] /\ f["volume"] = g["volume"] /\ g["volume"] \in Int
  BY <1>1 DEF LikedMore, BarFigures
<1>3. W!Weights(f) = w /\ W!Factor(f) = q /\ W!VolumeOf(f) = z
  BY <1>2 DEF W!Weights, W!Factor, W!VolumeOf
<1>4. w \in BarWeights
  BY DEF W!Weights, BarWeights
<1>5. (q = 1 /\ z \in -1 .. 0) \/ (q = 2 /\ z \in 1 .. 2)
  <2> DEFINE v == g["volume"]
  <2>1. v \in Int /\ q = (IF v >= 150 THEN 2 ELSE 1)
        /\ z = IF v >= 200 THEN 2 ELSE IF v >= 150 THEN 1 ELSE IF v >= 100 THEN 0 ELSE -1
    BY <1>2 DEF W!Factor, W!VolumeOf
  <2> HIDE DEF v, q, z
  <2> QED
    BY <2>1
<1>6. a \in Int /\ h \in -10 .. 10 /\ h <= a
  BY BarTrend
<1>7. b \in Int /\ k \in -4 .. 4 /\ k <= b
  BY BarMomentum
<1>8. d \in Int /\ n \in -4 .. 4 /\ n <= d
  BY BarReversion
<1>9. c \in Int /\ m \in -1 .. 1 /\ m <= c
  <2>1. f["macd"] \in Int /\ g["macd"] \in Int /\ f["macd"] >= g["macd"]
    BY <1>1 DEF BarFigures, LikesHigh, LikesLow, LikedMore
  <2>2. c = W!Sign(f["macd"]) /\ m = W!Sign(g["macd"])
    BY DEF W!Macd
  <2> HIDE DEF c, m
  <2>3. W!Sign(f["macd"]) \in -1 .. 1 /\ W!Sign(g["macd"]) \in -1 .. 1 /\ W!Sign(g["macd"]) <= W!Sign(f["macd"])
    BY <2>1, SignRises
  <2> QED
    BY <2>2, <2>3
<1>10. x = q * hi /\ y = q * lo
  BY <1>3 DEF W!ScoreOf
<1> HIDE DEF w, q, z, a, b, c, d, h, k, m, n, x, y
<1>11. /\ lo \in Int /\ hi \in Int /\ lo <= hi
       /\ lo \in -2000 .. 2000
  <2> USE <1>5, <1>6, <1>7, <1>8, <1>9
  <2>1. CASE w = <<40, 25, 15, 10, 10>>
    <3>1. w[1] = 40 /\ w[2] = 25 /\ w[3] = 15 /\ w[4] = 10 /\ w[5] = 10
      BY <2>1
    <3>2. lo = 80 * h + 125 * k + 300 * m + 50 * n + 100 * z /\ hi = 80 * a + 125 * b + 300 * c + 50 * d + 100 * z
      BY <3>1
    <3> HIDE DEF lo, hi
    <3> QED
      BY <3>2
  <2>2. CASE w = <<15, 20, 20, 30, 15>>
    <3>1. w[1] = 15 /\ w[2] = 20 /\ w[3] = 20 /\ w[4] = 30 /\ w[5] = 15
      BY <2>2
    <3>2. lo = 30 * h + 100 * k + 400 * m + 150 * n + 150 * z /\ hi = 30 * a + 100 * b + 400 * c + 150 * d + 150 * z
      BY <3>1
    <3> HIDE DEF lo, hi
    <3> QED
      BY <3>2
  <2>3. CASE w = <<30, 25, 20, 15, 10>>
    <3>1. w[1] = 30 /\ w[2] = 25 /\ w[3] = 20 /\ w[4] = 15 /\ w[5] = 10
      BY <2>3
    <3>2. lo = 60 * h + 125 * k + 400 * m + 75 * n + 100 * z /\ hi = 60 * a + 125 * b + 400 * c + 75 * d + 100 * z
      BY <3>1
    <3> HIDE DEF lo, hi
    <3> QED
      BY <3>2
  <2> QED
    BY <1>4, <2>1, <2>2, <2>3 DEF BarWeights
<1> HIDE DEF lo, hi
<1>12. y \in -4000 .. 4000 /\ y <= x
  <2>1. CASE q = 1
    BY <1>10, <1>11, <2>1
  <2>2. CASE q = 2
    BY <1>10, <1>11, <2>2
  <2> QED
    BY <1>5, <2>1, <2>2
<1> QED
  BY <1>12 DEF x, y

LEMMA BarsLiked == ASSUME BarSettings PROVE W!LikedNoWorse
<1> SUFFICES ASSUME NEW g \in SimReadings
             PROVE  /\ W!ScoreOf(g) \in -4000 .. 4000
                    /\ \A e \in DOMAIN SimLevels : \A v \in SimLevels[e] :
                         W!Likes(e, v, g[e]) => W!ScoreOf([g EXCEPT ![e] = v]) >= W!ScoreOf(g)
  BY DEF W!LikedNoWorse
<1>1. g \in BarReadings /\ g["averages"] \in 0 .. 12
  BY DEF BarSettings
<1>2. \A x \in BarFigures : g[x] \in Int
  BY <1>1 DEF BarReadings
<1>3. \A x \in LikesHigh \cup LikesLow : g[x] \in Int /\ g[x] <= g[x]
  BY <1>2 DEF BarFigures
<1>4. W!ScoreOf(g) \in -4000 .. 4000
  <2>1. LikedMore(g, g)
    BY <1>3 DEF LikedMore
  <2> QED
    BY <1>1, <2>1, BarsInOrder
<1>5. ASSUME NEW e \in DOMAIN SimLevels, NEW v \in SimLevels[e], W!Likes(e, v, g[e])
      PROVE  W!ScoreOf([g EXCEPT ![e] = v]) >= W!ScoreOf(g)
  <2> DEFINE f == [g EXCEPT ![e] = v]
  <2>1. e \in LikesHigh \cup LikesLow /\ v \in Int
    BY DEF BarSettings
  <2>2. e \in BarFigures
    BY <2>1 DEF BarFigures
  <2>3. f \in BarReadings /\ f[e] = v /\ \A x \in BarFigures \ {e} : f[x] = g[x]
    BY <1>1, <2>1, <2>2 DEF BarReadings
  <2> HIDE DEF f
  <2>4. (e \in LikesHigh => v >= g[e]) /\ (e \in LikesLow => v <= g[e])
    BY <1>5 DEF W!Likes, W!BuysLow, LikesHigh, LikesLow
  <2>5. \A x \in LikesHigh : f[x] >= g[x]
    <3> SUFFICES ASSUME NEW x \in LikesHigh PROVE f[x] >= g[x]
      OBVIOUS
    <3>1. x \in BarFigures
      BY DEF BarFigures
    <3> QED
      BY <1>3, <2>3, <2>4, <3>1
  <2>6. \A x \in LikesLow : f[x] <= g[x]
    <3> SUFFICES ASSUME NEW x \in LikesLow PROVE f[x] <= g[x]
      OBVIOUS
    <3>1. x \in BarFigures
      BY DEF BarFigures
    <3> QED
      BY <1>3, <2>3, <2>4, <3>1
  <2>7. f["adx"] = g["adx"] /\ f["volume"] = g["volume"]
    <3>1. "adx" \in BarFigures \ {e} /\ "volume" \in BarFigures \ {e}
      BY <2>1 DEF BarFigures, LikesHigh, LikesLow
    <3> QED
      BY <2>3, <3>1
  <2>8. LikedMore(f, g)
    BY <2>5, <2>6, <2>7 DEF LikedMore
  <2>9. W!ScoreOf(g) \in -4000 .. 4000 /\ W!ScoreOf(g) <= W!ScoreOf(f)
    <3>1. f \in BarReadings
      BY <2>3
    <3> QED
      BY <1>1, <2>8, <3>1, BarsInOrder
  <2>10. W!ScoreOf(f) >= W!ScoreOf(g)
    <3> DEFINE x == W!ScoreOf(f)
               y == W!ScoreOf(g)
    <3>1. y \in -4000 .. 4000 /\ y <= x
      BY <2>9
    <3> HIDE DEF x, y
    <3>2. x >= y
      BY <3>1
    <3> QED
      BY <3>2 DEF x, y
  <2> QED
    BY <2>10 DEF f
<1> QED
  BY <1>4, <1>5

(***************************************************************************)
(* The theorem of the scores.                                              *)
(***************************************************************************)
LEMMA ScorePart ==
  ASSUME [PartsNext]_all
  PROVE  /\ part' = part
         /\ part = "score" => [F!Next]_(F!vars)
         /\ part = "watchlist" => [A!Next]_(A!vars)
         /\ part = "macro" => [M!Next]_(M!vars)
         /\ part = "fundamental" => [Y!Next]_(Y!vars)
<1> USE DEF PartsNext, all, fields, Alone, LedgerStep, AllocationStep, TunerStep, ScoreStep, WatchlistStep,
        SimulationStep, GateStep, BacktestStep, LayersStep, ScanStep, BrokerStep, EventsStep, ResearchStep,
        EarningsStep, CrowdingStep, HindsightStep, UniverseStep, FundamentalStep, ReplayStep, MacroStep,
        SentimentStep, ExtendedHoursStep, TimetableStep, AccountsStep, SocialStep,
        SelfCheckStep, WatchlistLogStep
<1>1. part' = part
  OBVIOUS
<1>2. part = "score" => [F!Next]_(F!vars)
  BY DEF F!vars
<1>3. part = "watchlist" => [A!Next]_(A!vars)
  BY DEF A!vars
<1>4. part = "macro" => [M!Next]_(M!vars)
  BY DEF M!vars
<1>5. part = "fundamental" => [Y!Next]_(Y!vars)
  BY DEF Y!vars
<1> HIDE DEF PartsNext, all, fields, Alone, LedgerStep, AllocationStep, TunerStep, ScoreStep, WatchlistStep,
        SimulationStep, GateStep, BacktestStep, LayersStep, ScanStep, BrokerStep, EventsStep, ResearchStep,
        EarningsStep, CrowdingStep, HindsightStep, UniverseStep, FundamentalStep, ReplayStep, MacroStep,
        SentimentStep, ExtendedHoursStep, TimetableStep, AccountsStep, SocialStep,
        SelfCheckStep, WatchlistLogStep
<1> QED
  BY <1>1, <1>2, <1>3, <1>4, <1>5

\* A signal is scored once, from its own figures and its own rank.
SignalScored ==
  /\ x1 \in ScoredSignals /\ x2 \in ScoreRanks
  /\ x3 # F!Missing => x3 = F!Composite(x1, x2)

LEMMA SignalStart == ASSUME F!Init PROVE SignalScored
BY DEF F!Init, SignalScored

LEMMA SignalStep == ASSUME SignalScored, [F!Next]_(F!vars) PROVE SignalScored'
<1>1. CASE F!ScoreSignal
  BY <1>1, Zenon DEF SignalScored, F!ScoreSignal
<1>2. CASE UNCHANGED F!vars
  <2>1. x1' = x1 /\ x2' = x2 /\ x3' = x3
    BY <1>2 DEF F!vars
  <2> QED
    BY <2>1, Zenon DEF SignalScored
<1> QED
  BY <1>1, <1>2 DEF F!Next

LEMMA SignalsInOrder == ASSUME ScoreSettings, SignalScored PROVE F!HigherRankNoWorse
<1> SUFFICES ASSUME x3 # F!Missing
             PROVE  /\ x3 \in 0 .. (IF x1.adaptive \/ x1.ranked # <<>> THEN 1000 ELSE 1100)
                    /\ x2 # F!Missing => \A r \in ScoreRanks : r > x2 => F!Composite(x1, r) >= x3
  BY DEF F!HigherRankNoWorse, F!Full
<1>1. x1 \in ScoredSignals /\ x2 \in ScoreRanks /\ x3 = F!Composite(x1, x2)
  BY DEF SignalScored
<1>2. /\ F!Composite(x1, x2) \in 0 .. (IF x1.adaptive \/ x1.ranked # <<>> THEN 1000 ELSE 1100)
      /\ x2 # F!Missing => \A r \in ScoreRanks : r > x2 => F!Composite(x1, r) >= F!Composite(x1, x2)
  BY <1>1, CompositeInOrder
<1> QED
  BY <1>1, <1>2

\* Whatever the profiles, the signals, the markets, the companies and the bars: a higher
\* rank, a better company and a calmer market score no lower, scores stay in range, an
\* override that suppresses a buy is not undone, and a bar liked better scores no lower.
THEOREM ScoresStayInOrder ==
  ASSUME ScoreSettings, MacroSettings, ReportSettings, BarSettings
  PROVE  PartsSpec => []ScoresFollow
<1> DEFINE Scored == /\ part = "score" => SignalScored
                     /\ part = "watchlist" => A!OverridesHold
                     /\ part = "macro" => x2 \in MacroMarkets
                     /\ part = "fundamental" => ReportInv
<1>1. PartsInit => Scored
  <2> SUFFICES ASSUME PartsInit PROVE Scored
    OBVIOUS
  <2>1. /\ part = "score" => F!Init
        /\ part = "watchlist" => A!Init
        /\ part = "macro" => M!Init
        /\ part = "fundamental" => Y!Init
    BY DEF PartsInit
  <2>2. A!Init => A!OverridesHold
    BY DEF A!Init, A!OverridesHold
  <2>3. M!Init => x2 \in MacroMarkets
    BY DEF M!Init
  <2> QED
    BY <2>1, <2>2, <2>3, SignalStart, ReportStart
<1>2. Scored /\ [PartsNext]_all => Scored'
  <2> SUFFICES ASSUME Scored, [PartsNext]_all PROVE Scored'
    OBVIOUS
  <2>1. /\ part' = part
        /\ part = "score" => [F!Next]_(F!vars)
        /\ part = "watchlist" => [A!Next]_(A!vars)
        /\ part = "macro" => [M!Next]_(M!vars)
        /\ part = "fundamental" => [Y!Next]_(Y!vars)
    BY ScorePart
  <2> QED
    BY <2>1, SignalStep, OverridesStep, MarketStep, ReportStep
<1>3. Scored => ScoresFollow
  BY SignalsInOrder, RiskierScoresLower, ReportsSound, BarsLiked DEF ScoresFollow
<1> QED
  BY <1>1, <1>2, <1>3, PTL DEF PartsSpec

(***************************************************************************)
(* The feed of events.                                                     *)
(***************************************************************************)

\* What a source is asked for reaches no further back than what is looked up.
FeedSettings ==
  /\ IsFiniteSet(FeedItems) /\ \A i \in FeedItems : FeedDates[i] \in Int
  /\ FeedDedup \in Int
  /\ \A s \in FeedSources :
       /\ FeedLookback[s] \in Int /\ FeedLookback[s] <= FeedDedup
       /\ DOMAIN FeedKeys[s] \subseteq DOMAIN FeedTitles[s]

DaysUpTo(t, d) == {e \in E!DaysOf(t) : e <= d}
\* Each row of a title was made of an item of a day of its own, up to the row's.
FeedSound ==
  /\ x1 \in Int /\ x2 \subseteq FeedItems /\ \A i \in x2 : FeedDates[i] <= x1
  /\ x4 \in [E!Titles -> Nat] /\ x5 \in [E!Titles -> Int] /\ x7 \in [E!Titles -> Nat]
  /\ \A t \in E!Titles : /\ x5[t] <= x1 /\ x4[t] <= Cardinality(DaysUpTo(t, x5[t]))
                         /\ x7[t] + (IF t \in x6 THEN 1 ELSE 0) <= x4[t]

LEMMA FeedCounts == \A set : E!Cardinality(set) = Cardinality(set)
BY DEF E!Cardinality, Cardinality

LEMMA TitleDays ==
  ASSUME FeedSettings, NEW t
  PROVE  /\ IsFiniteSet(E!DaysOf(t)) /\ E!DaysOf(t) \subseteq Int
         /\ \A d : IsFiniteSet(DaysUpTo(t, d)) /\ Cardinality(DaysUpTo(t, d)) \in Nat
<1> DEFINE bearing == {j \in FeedItems : \E s \in FeedSources : j \in DOMAIN FeedTitles[s] /\ FeedTitles[s][j] = t}
<1>1. E!DaysOf(t) = {FeedDates[i] : i \in bearing}
  BY DEF E!DaysOf
<1>2. IsFiniteSet(bearing)
  BY FS_Subset DEF FeedSettings
<1>3. IsFiniteSet({FeedDates[i] : i \in bearing})
  <2> HIDE DEF bearing
  <2> DEFINE dates == [i \in bearing |-> FeedDates[i]]
  <2>1. dates \in Surjection(bearing, {FeedDates[i] : i \in bearing})
    BY DEF Surjection
  <2> QED
    BY <1>2, <2>1, FS_Surjection
<1>4. E!DaysOf(t) \subseteq Int
  BY <1>1 DEF FeedSettings
<1>5. \A d : DaysUpTo(t, d) \subseteq E!DaysOf(t)
  BY DEF DaysUpTo
<1> QED
  BY <1>1, <1>3, <1>4, <1>5, FS_Subset, FS_CardinalityType

LEMMA DayCounted ==
  ASSUME FeedSettings, NEW t, NEW a \in Int, NEW b \in Int, a <= b
  PROVE  /\ Cardinality(DaysUpTo(t, a)) <= Cardinality(DaysUpTo(t, b))
         /\ \A d \in E!DaysOf(t) : d <= b => 1 <= Cardinality(DaysUpTo(t, b))
         /\ \A d \in E!DaysOf(t) : a < d /\ d <= b => Cardinality(DaysUpTo(t, a)) + 1 <= Cardinality(DaysUpTo(t, b))
<1>1. /\ IsFiniteSet(DaysUpTo(t, a)) /\ Cardinality(DaysUpTo(t, a)) \in Nat /\ E!DaysOf(t) \subseteq Int
      /\ IsFiniteSet(DaysUpTo(t, b)) /\ Cardinality(DaysUpTo(t, b)) \in Nat
  BY TitleDays
<1>2. DaysUpTo(t, a) \subseteq DaysUpTo(t, b)
  BY <1>1 DEF DaysUpTo
<1>3. Cardinality(DaysUpTo(t, a)) <= Cardinality(DaysUpTo(t, b))
  BY <1>1, <1>2, FS_Subset
<1>4. ASSUME NEW d \in E!DaysOf(t), d <= b PROVE 1 <= Cardinality(DaysUpTo(t, b))
  <2>1. d \in DaysUpTo(t, b)
    BY <1>4 DEF DaysUpTo
  <2> QED
    BY <1>1, <2>1, FS_EmptySet
<1>5. ASSUME NEW d \in E!DaysOf(t), a < d, d <= b
      PROVE  Cardinality(DaysUpTo(t, a)) + 1 <= Cardinality(DaysUpTo(t, b))
  <2>1. d \notin DaysUpTo(t, a) /\ d \in DaysUpTo(t, b)
    BY <1>1, <1>5 DEF DaysUpTo
  <2>2. DaysUpTo(t, a) \cup {d} \subseteq DaysUpTo(t, b)
    BY <1>2, <2>1
  <2>3. IsFiniteSet(DaysUpTo(t, a) \cup {d}) /\ Cardinality(DaysUpTo(t, a) \cup {d}) = Cardinality(DaysUpTo(t, a)) + 1
    BY <1>1, <2>1, FS_AddElement
  <2> QED
    BY <1>1, <2>2, <2>3, FS_Subset
<1> QED
  BY <1>3, <1>4, <1>5

\* A title that is stored anew is borne by an item of a day after its last row.
LEMMA FeedScans ==
  ASSUME FeedSettings, FeedSound, NEW s \in FeedSources, E!Scan(s)
  PROVE  FeedSound'
<1>1. PICK F1s \in SUBSET E!New(s) :
        /\ x3' = x3 \cup UNION {E!Mark(s, i) : i \in F1s}
        /\ LET fresh == {FeedTitles[s][i] : i \in {j \in F1s : ~E!Recent(FeedTitles[s][j])}}
           IN \E saved \in SUBSET fresh : \E results \in SUBSET saved :
                /\ x4' = [t \in E!Titles |-> IF t \in saved THEN x4[t] + 1 ELSE x4[t]]
                /\ x5' = [t \in E!Titles |-> IF t \in saved THEN x1 ELSE x5[t]]
                /\ x6' = x6 \cup results
        /\ x1' = x1 /\ x2' = x2 /\ x7' = x7
  BY Zenon DEF E!Scan
<1> DEFINE fresh == {FeedTitles[s][i] : i \in {j \in F1s : ~E!Recent(FeedTitles[s][j])}}
<1>2. PICK saved \in SUBSET fresh : \E results \in SUBSET saved :
        /\ x4' = [t \in E!Titles |-> IF t \in saved THEN x4[t] + 1 ELSE x4[t]]
        /\ x5' = [t \in E!Titles |-> IF t \in saved THEN x1 ELSE x5[t]]
        /\ x6' = x6 \cup results
  BY <1>1
<1>3. PICK results \in SUBSET saved :
        /\ x4' = [t \in E!Titles |-> IF t \in saved THEN x4[t] + 1 ELSE x4[t]]
        /\ x5' = [t \in E!Titles |-> IF t \in saved THEN x1 ELSE x5[t]]
        /\ x6' = x6 \cup results
  BY <1>2
<1>4. ASSUME NEW t \in E!Titles, t \in saved PROVE x4[t] + 1 <= Cardinality(DaysUpTo(t, x1))
  <2>1. PICK i \in F1s : t = FeedTitles[s][i] /\ ~E!Recent(FeedTitles[s][i])
    BY <1>4
  <2>2. i \in x2 /\ i \in DOMAIN FeedKeys[s] /\ x1 - FeedDates[i] <= FeedLookback[s]
    BY <1>1 DEF E!New
  <2>3. x4[t] \in Nat /\ x5[t] \in Int /\ x5[t] <= x1 /\ x4[t] <= Cardinality(DaysUpTo(t, x5[t])) /\ x1 \in Int
    BY DEF FeedSound
  <2>4. FeedDates[i] \in Int /\ FeedDates[i] <= x1 /\ FeedDates[i] \in E!DaysOf(t)
    BY <2>1, <2>2 DEF FeedSound, FeedSettings, E!DaysOf
  <2>5. x4[t] = 0 \/ x1 - x5[t] > FeedDedup
    BY <2>1, <2>3 DEF E!Recent, FeedSettings
  <2>6. x4[t] = 0 \/ x5[t] < FeedDates[i]
    BY <2>2, <2>3, <2>4, <2>5 DEF FeedSettings
  <2>7. /\ 1 <= Cardinality(DaysUpTo(t, x1))
        /\ x5[t] < FeedDates[i] => Cardinality(DaysUpTo(t, x5[t])) + 1 <= Cardinality(DaysUpTo(t, x1))
    BY <2>3, <2>4, DayCounted
  <2>8. Cardinality(DaysUpTo(t, x1)) \in Nat /\ Cardinality(DaysUpTo(t, x5[t])) \in Nat
    BY TitleDays
  <2> QED
    BY <2>3, <2>6, <2>7, <2>8
<1>5. x4' \in [E!Titles -> Nat] /\ x5' \in [E!Titles -> Int]
  BY <1>3 DEF FeedSound
<1>6. ASSUME NEW t \in E!Titles
      PROVE  /\ x5'[t] <= x1 /\ x4'[t] <= Cardinality(DaysUpTo(t, x5'[t]))
             /\ x7[t] + (IF t \in x6' THEN 1 ELSE 0) <= x4'[t]
  <2>1. /\ x5[t] \in Int /\ x5[t] <= x1 /\ x4[t] <= Cardinality(DaysUpTo(t, x5[t])) /\ x1 \in Int
        /\ x4[t] \in Nat /\ x7[t] \in Nat /\ x7[t] + (IF t \in x6 THEN 1 ELSE 0) <= x4[t]
    BY DEF FeedSound
  <2>2. x4'[t] = (IF t \in saved THEN x4[t] + 1 ELSE x4[t]) /\ x5'[t] = (IF t \in saved THEN x1 ELSE x5[t])
    BY <1>3
  <2>3. x7[t] + (IF t \in x6' THEN 1 ELSE 0) <= x4'[t]
    <3> HIDE DEF fresh
    <3> QED
      BY <1>3, <2>1, <2>2
  <2> QED
    BY <1>4, <2>1, <2>2, <2>3
<1> QED
  BY <1>1, <1>5, <1>6 DEF FeedSound, DaysUpTo, E!DaysOf


\* What was sent is stored, and a new process only forgets.
LEMMA FeedTells == ASSUME FeedSettings, FeedSound, [E!Next]_(E!vars) PROVE FeedSound'
<1> DEFINE stored(t) == /\ x5'[t] <= x1' /\ x4'[t] <= Cardinality(DaysUpTo(t, x5'[t]))
                        /\ x7'[t] + (IF t \in x6' THEN 1 ELSE 0) <= x4'[t]
           next == /\ x1' \in Int /\ x2' \subseteq FeedItems /\ \A i \in x2' : FeedDates[i] <= x1'
                   /\ x4' \in [E!Titles -> Nat] /\ x5' \in [E!Titles -> Int] /\ x7' \in [E!Titles -> Nat]
                   /\ \A t \in E!Titles : stored(t)
<1>0. next => FeedSound'
  BY DEF FeedSound, DaysUpTo, E!DaysOf
<1>1. CASE UNCHANGED E!vars
  BY <1>0, <1>1 DEF FeedSound, E!vars
<1>2. CASE E!NextDay
  <2>1. x1' = x1 + 1 /\ x2' = x2 /\ x4' = x4 /\ x5' = x5 /\ x6' = x6 /\ x7' = x7
    BY <1>2 DEF E!NextDay
  <2>2. \A t \in E!Titles : stored(t)
    BY <2>1 DEF FeedSound
  <2>3. x1' \in Int /\ x2' \subseteq FeedItems /\ \A j \in x2' : FeedDates[j] <= x1'
    BY <2>1 DEF FeedSound, FeedSettings
  <2>4. x4' \in [E!Titles -> Nat] /\ x5' \in [E!Titles -> Int] /\ x7' \in [E!Titles -> Nat]
    BY <2>1 DEF FeedSound
  <2> QED
    BY <1>0, <2>2, <2>3, <2>4
<1>3. CASE E!Restart
  <2>1. x1' = x1 /\ x2' = x2 /\ x4' = x4 /\ x5' = x5 /\ x6' = {} /\ x7' = x7
    BY <1>3 DEF E!Restart
  <2>2. \A u \in E!Titles : stored(u)
    BY <2>1 DEF FeedSound
  <2>3. x1' \in Int /\ x2' \subseteq FeedItems /\ \A j \in x2' : FeedDates[j] <= x1'
    BY <2>1 DEF FeedSound, FeedSettings
  <2>4. x4' \in [E!Titles -> Nat] /\ x5' \in [E!Titles -> Int] /\ x7' \in [E!Titles -> Nat]
    BY <2>1 DEF FeedSound
  <2> QED
    BY <1>0, <2>2, <2>3, <2>4
<1>4. ASSUME NEW i \in FeedItems, E!Appear(i) PROVE FeedSound'
  <2>1. x1' = x1 /\ x2' = x2 \cup {i} /\ FeedDates[i] = x1 /\ x4' = x4 /\ x5' = x5 /\ x6' = x6 /\ x7' = x7
    BY <1>4 DEF E!Appear
  <2>2. \A t \in E!Titles : stored(t)
    BY <2>1 DEF FeedSound
  <2>3. x1' \in Int /\ x2' \subseteq FeedItems /\ \A j \in x2' : FeedDates[j] <= x1'
    BY <2>1 DEF FeedSound, FeedSettings
  <2>4. x4' \in [E!Titles -> Nat] /\ x5' \in [E!Titles -> Int] /\ x7' \in [E!Titles -> Nat]
    BY <2>1 DEF FeedSound
  <2> QED
    BY <1>0, <2>2, <2>3, <2>4
<1>5. ASSUME NEW s \in FeedSources, E!Scan(s) PROVE FeedSound'
  BY <1>5, FeedScans
<1>6. ASSUME NEW t \in E!Titles, E!Notify(t) PROVE FeedSound'
  <2>1. /\ x1' = x1 /\ x2' = x2 /\ x4' = x4 /\ x5' = x5 /\ x6' = x6 \ {t} /\ t \in x6
        /\ x7' = [x7 EXCEPT ![t] = @ + 1]
    BY <1>6 DEF E!Notify
  <2>2. \A u \in E!Titles : stored(u)
    BY <2>1 DEF FeedSound
  <2>3. x1' \in Int /\ x2' \subseteq FeedItems /\ \A j \in x2' : FeedDates[j] <= x1'
    BY <2>1 DEF FeedSound, FeedSettings
  <2>4. x4' \in [E!Titles -> Nat] /\ x5' \in [E!Titles -> Int] /\ x7' \in [E!Titles -> Nat]
    BY <2>1 DEF FeedSound
  <2> QED
    BY <1>0, <2>2, <2>3, <2>4
<1>7. ASSUME NEW t \in E!Titles, E!NotifyFails(t) PROVE FeedSound'
  <2>1. x1' = x1 /\ x2' = x2 /\ x4' = x4 /\ x5' = x5 /\ x6' = x6 \ {t} /\ x7' = x7
    BY <1>7 DEF E!NotifyFails
  <2>2. \A u \in E!Titles : stored(u)
    BY <2>1 DEF FeedSound
  <2>3. x1' \in Int /\ x2' \subseteq FeedItems /\ \A j \in x2' : FeedDates[j] <= x1'
    BY <2>1 DEF FeedSound, FeedSettings
  <2>4. x4' \in [E!Titles -> Nat] /\ x5' \in [E!Titles -> Int] /\ x7' \in [E!Titles -> Nat]
    BY <2>1 DEF FeedSound
  <2> QED
    BY <1>0, <2>2, <2>3, <2>4
<1> QED
  BY <1>1, <1>2, <1>3, <1>4, <1>5, <1>6, <1>7 DEF E!Next

LEMMA FeedStarts == ASSUME FeedSettings, E!Init PROVE FeedSound
<1>1. /\ x1 = 1 /\ x2 = {} /\ x4 = [t \in E!Titles |-> 0] /\ x5 = [t \in E!Titles |-> 0] /\ x6 = {}
      /\ x7 = [t \in E!Titles |-> 0]
  BY DEF E!Init
<1>2. \A t : Cardinality(DaysUpTo(t, 0)) \in Nat
  BY TitleDays
<1> QED
  BY <1>1, <1>2 DEF FeedSound

LEMMA AlertsOnce == ASSUME FeedSettings, FeedSound PROVE E!AlertedOnce
<1> SUFFICES ASSUME NEW t \in E!Titles
             PROVE  /\ x7[t] + (IF t \in x6 THEN 1 ELSE 0) <= x4[t]
                    /\ x4[t] <= E!Cardinality(E!DaysOf(t))
  BY DEF E!AlertedOnce
<1>1. DaysUpTo(t, x5[t]) \subseteq E!DaysOf(t) /\ IsFiniteSet(E!DaysOf(t)) /\ Cardinality(DaysUpTo(t, x5[t])) \in Nat
  BY TitleDays DEF DaysUpTo
<1>2. /\ Cardinality(DaysUpTo(t, x5[t])) <= Cardinality(E!DaysOf(t)) /\ Cardinality(E!DaysOf(t)) \in Nat
  BY <1>1, FS_Subset, FS_CardinalityType
<1>3. x4[t] \in Nat /\ x4[t] <= Cardinality(DaysUpTo(t, x5[t])) /\ x7[t] + (IF t \in x6 THEN 1 ELSE 0) <= x4[t]
  BY DEF FeedSound
<1> QED
  BY <1>1, <1>2, <1>3, FeedCounts

(***************************************************************************)
(* The watchlist's log.                                                    *)
(***************************************************************************)

LogSettings == LogDays \in Nat /\ LogDays >= 1

LogPlaces == {"idle", "download", "alert", "log", "send"}
\* Prices are of a day that has come; what is about to be logged has its alert, what is
\* about to be announced its row.
LogTyped ==
  /\ x1 \in 1 .. LogDays /\ x2 \subseteq LoggedSymbols
  /\ x3 \in [LogRuns -> LogPlaces] /\ x4 \in [LogRuns -> SUBSET LoggedSymbols]
  /\ x5 \in [LogRuns -> 0 .. LogDays]
  /\ x6 \in [LoggedSymbols -> SUBSET (1 .. LogDays)]
  /\ x7 \in [LoggedSymbols \X (1 .. LogDays) -> 0 .. LogDays]
  /\ x8 \subseteq LoggedSymbols \X (1 .. LogDays)
LogReady ==
  \A r \in LogRuns :
    /\ x5[r] <= x1
    /\ x3[r] \in {"alert", "log", "send"} => x5[r] >= 1
    /\ x3[r] \in {"log", "send"} => x4[r] # {} /\ x5[r] \in x6[L!First(x4[r])]
    /\ x3[r] = "send" => \E d \in x5[r] .. x1 : x7[<<L!First(x4[r]), d>>] # 0
LogHeld ==
  /\ \A s \in LoggedSymbols, d \in 1 .. LogDays :
       x7[<<s, d>>] # 0 => x7[<<s, d>>] <= d /\ x7[<<s, d>>] \in x6[s]
  /\ \A s \in LoggedSymbols, e \in 1 .. LogDays :
       <<s, e>> \in x8 => \E d \in e .. LogDays : x7[<<s, d>>] # 0
LogKept == LogTyped /\ LogReady /\ LogHeld

LEMMA OneOfThem == ASSUME NEW set, set # {} PROVE L!First(set) \in set
BY DEF L!First

LEMMA LogStarts == ASSUME LogSettings, L!Init PROVE LogKept
<1>1. /\ x1 = 1 /\ x2 = LoggedSymbols /\ x3 = [r \in LogRuns |-> "idle"] /\ x4 = [r \in LogRuns |-> {}]
      /\ x5 = [r \in LogRuns |-> 0] /\ x6 = [s \in LoggedSymbols |-> {}]
      /\ x7 = [e \in LoggedSymbols \X (1 .. LogDays) |-> 0] /\ x8 = {}
  BY DEF L!Init, L!NoRow
<1>2. LogTyped
  BY <1>1 DEF LogTyped, LogPlaces, LogSettings
<1>3. LogReady
  BY <1>1 DEF LogReady
<1>4. LogHeld
  BY <1>1 DEF LogHeld
<1> QED
  BY <1>2, <1>3, <1>4 DEF LogKept

LEMMA LogStarted ==
  ASSUME LogSettings, LogKept, NEW r \in LogRuns, L!Start(r),
         x1' = x1, x2' = x2, x5' = x5, x6' = x6, x7' = x7, x8' = x8
  PROVE  LogKept'
<1>1. (x3' = x3 /\ x4' = x4) \/ (x3' = [x3 EXCEPT ![r] = "download"] /\ x4' = [x4 EXCEPT ![r] = x2])
  BY DEF L!Start, L!Goto
<1>2. LogTyped'
  BY <1>1 DEF LogKept, LogTyped, LogPlaces
<1>3. ASSUME NEW q \in LogRuns
      PROVE  /\ x5'[q] <= x1'
             /\ x3'[q] \in {"alert", "log", "send"} => x5'[q] >= 1
             /\ x3'[q] \in {"log", "send"} => x4'[q] # {} /\ x5'[q] \in x6'[L!First(x4'[q])]
             /\ x3'[q] = "send" => \E d \in x5'[q] .. x1' : x7'[<<L!First(x4'[q]), d>>] # 0
  <2>1. CASE q = r /\ x3'[q] = "download"
    BY <2>1 DEF LogKept, LogReady
  <2>2. CASE x3'[q] = x3[q] /\ x4'[q] = x4[q]
    BY <2>2 DEF LogKept, LogReady
  <2> QED
    BY <1>1, <2>1, <2>2 DEF LogKept, LogTyped
<1>4. LogReady'
  BY <1>3 DEF LogReady, L!First
<1> QED
  BY <1>2, <1>4 DEF LogKept, LogHeld

LEMMA LogStays ==
  ASSUME LogKept, x1' = x1, x2' \subseteq LoggedSymbols,
         x3' = x3, x4' = x4, x5' = x5, x6' = x6, x7' = x7, x8' = x8
  PROVE  LogKept'
BY DEF LogKept, LogTyped, LogReady, LogHeld, L!First


\* What has to hold of a task after a step, in terms of the step.
LogTask(r) ==
  /\ x5'[r] <= x1'
  /\ x3'[r] \in {"alert", "log", "send"} => x5'[r] >= 1
  /\ x3'[r] \in {"log", "send"} => x4'[r] # {} /\ x5'[r] \in x6'[L!First(x4'[r])]
  /\ x3'[r] = "send" => \E d \in x5'[r] .. x1' : x7'[<<L!First(x4'[r]), d>>] # 0
LEMMA LogTasks == ASSUME \A r \in LogRuns : LogTask(r) PROVE LogReady'
BY DEF LogTask, LogReady, L!First

\* A task that a step leaves where it is stays ready, for days and rows only grow.
LEMMA LogOthers ==
  ASSUME LogSettings, LogKept, NEW r \in LogRuns, x3'[r] = x3[r], x4'[r] = x4[r], x5'[r] = x5[r],
         x1' \in Int, x1 <= x1', \A s \in LoggedSymbols : x6[s] \subseteq x6'[s],
         \A e \in LoggedSymbols \X (1 .. LogDays) : x7[e] # 0 => x7'[e] # 0
  PROVE  LogTask(r)
<1>1. x3[r] \in LogPlaces /\ x4[r] \subseteq LoggedSymbols /\ x5[r] \in Int /\ x1 \in Int /\ x1 <= LogDays
  BY DEF LogKept, LogTyped
<1>2. x4[r] # {} => L!First(x4[r]) \in LoggedSymbols
  BY <1>1, OneOfThem
<1>3. ASSUME x3[r] = "send" PROVE \E d \in x5'[r] .. x1' : x7'[<<L!First(x4'[r]), d>>] # 0
  <2>1. x4[r] # {} /\ x5[r] >= 1
    BY <1>3 DEF LogKept, LogReady
  <2>2. PICK d \in x5[r] .. x1 : x7[<<L!First(x4[r]), d>>] # 0
    BY <1>3 DEF LogKept, LogReady
  <2>3. d \in 1 .. LogDays /\ d \in x5'[r] .. x1'
    BY <1>1, <2>1 DEF LogSettings
  <2> QED
    BY <1>2, <2>1, <2>2, <2>3
<1>4. /\ x5[r] <= x1
      /\ x3[r] \in {"alert", "log", "send"} => x5[r] >= 1
      /\ x3[r] \in {"log", "send"} => x4[r] # {} /\ x5[r] \in x6[L!First(x4[r])]
  BY DEF LogKept, LogReady
<1> QED
  BY <1>1, <1>2, <1>3, <1>4 DEF LogTask

LEMMA LogDownloads == ASSUME LogSettings, LogKept, NEW r \in LogRuns, L!Download(r) PROVE LogKept'
<1>1. /\ x3[r] = "download" /\ x3' = [x3 EXCEPT ![r] = "alert"] /\ x5' = [x5 EXCEPT ![r] = x1]
      /\ x1' = x1 /\ x2' = x2 /\ x4' = x4 /\ x6' = x6 /\ x7' = x7 /\ x8' = x8
  BY DEF L!Download, L!Goto
<1>2. x1 \in 1 .. LogDays /\ x1 \in 0 .. LogDays /\ x1 \in Int
  BY DEF LogSettings, LogKept, LogTyped
<1>3. LogTyped'
  BY <1>1, <1>2 DEF LogKept, LogTyped, LogPlaces
<1>4. ASSUME NEW q \in LogRuns PROVE LogTask(q)
  <2>1. CASE q = r
    BY <1>1, <1>2, <2>1 DEF LogTask, LogKept, LogTyped
  <2>2. CASE q # r
    BY <1>1, <1>2, <2>2, LogOthers DEF LogKept, LogTyped
  <2> QED
    BY <2>1, <2>2
<1>5. LogReady'
  BY <1>4, LogTasks
<1>6. LogHeld'
  BY <1>1 DEF LogKept, LogHeld
<1> QED
  BY <1>3, <1>5, <1>6 DEF LogKept

LEMMA LogAlerts == ASSUME LogSettings, LogKept, NEW r \in LogRuns, L!Alert(r) PROVE LogKept'
<1> DEFINE s == L!First(x4[r])
<1>1. /\ x3[r] = "alert" /\ x4[r] # {} /\ x6' = [x6 EXCEPT ![s] = @ \cup {x5[r]}]
      /\ x3' = [x3 EXCEPT ![r] = "log"]
      /\ x1' = x1 /\ x2' = x2 /\ x4' = x4 /\ x5' = x5 /\ x7' = x7 /\ x8' = x8
  BY DEF L!Alert, L!Goto
<1>2. /\ s \in LoggedSymbols /\ x5[r] \in 1 .. LogDays /\ x5[r] <= x1 /\ x1 \in Int
      /\ x6 \in [LoggedSymbols -> SUBSET (1 .. LogDays)]
  BY <1>1, OneOfThem DEF LogKept, LogTyped, LogReady, LogSettings
<1> HIDE DEF s
<1>3. LogTyped'
  BY <1>1, <1>2 DEF LogKept, LogTyped, LogPlaces
<1>4. \A u \in LoggedSymbols : x6[u] \subseteq x6'[u]
  BY <1>1, <1>2
<1>5. ASSUME NEW q \in LogRuns PROVE LogTask(q)
  <2>1. CASE q = r
    BY <1>1, <1>2, <2>1 DEF LogTask, LogKept, LogTyped, s
  <2>2. CASE q # r
    BY <1>1, <1>2, <1>4, <2>2, LogOthers DEF LogKept, LogTyped
  <2> QED
    BY <2>1, <2>2
<1>6. LogReady'
  BY <1>5, LogTasks
<1>7. LogHeld'
  BY <1>1, <1>4 DEF LogKept, LogHeld
<1> QED
  BY <1>3, <1>6, <1>7 DEF LogKept

LEMMA LogRowed == ASSUME LogSettings, LogKept, NEW r \in LogRuns, L!Log(r) PROVE LogKept'
<1> DEFINE s == L!First(x4[r])
<1>1. /\ x3[r] = "log" /\ x7' = [x7 EXCEPT ![<<s, x1>>] = x5[r]] /\ x3' = [x3 EXCEPT ![r] = "send"]
      /\ x1' = x1 /\ x2' = x2 /\ x4' = x4 /\ x5' = x5 /\ x6' = x6 /\ x8' = x8
  BY DEF L!Log, L!Goto
<1>2. /\ x4[r] # {} /\ s \in LoggedSymbols /\ x5[r] \in 1 .. LogDays /\ x5[r] <= x1 /\ x1 \in 1 .. LogDays
      /\ x5[r] \in x6[s] /\ x7 \in [LoggedSymbols \X (1 .. LogDays) -> 0 .. LogDays]
  BY <1>1, OneOfThem DEF LogKept, LogTyped, LogReady, LogSettings
<1> HIDE DEF s
<1>3. LogTyped'
  <2>1. x7' \in [LoggedSymbols \X (1 .. LogDays) -> 0 .. LogDays]
    BY <1>1, <1>2
  <2> QED
    BY <1>1, <2>1 DEF LogKept, LogTyped, LogPlaces
<1>4. \A e \in LoggedSymbols \X (1 .. LogDays) : x7'[e] = IF e = <<s, x1>> THEN x5[r] ELSE x7[e]
  BY <1>1, <1>2
<1>5. x5[r] # 0
  BY <1>2
<1>6. \A e \in LoggedSymbols \X (1 .. LogDays) : x7[e] # 0 => x7'[e] # 0
  BY <1>4, <1>5
<1>7. ASSUME NEW q \in LogRuns PROVE LogTask(q)
  <2>1. CASE q = r
    <3>1. x3'[r] = "send"
      BY <1>1 DEF LogKept, LogTyped
    <3>2. x7'[<<s, x1>>] # 0 /\ x1 \in x5[r] .. x1
      BY <1>2, <1>4, <1>5
    <3> QED
      BY <1>1, <1>2, <2>1, <3>1, <3>2 DEF LogTask, s
  <2>2. CASE q # r
    BY <1>1, <1>2, <1>6, <2>2, LogOthers DEF LogKept, LogTyped
  <2> QED
    BY <2>1, <2>2
<1>8. LogReady'
  BY <1>7, LogTasks
<1>9. ASSUME NEW u \in LoggedSymbols, NEW d \in 1 .. LogDays, x7'[<<u, d>>] # 0
      PROVE  x7'[<<u, d>>] <= d /\ x7'[<<u, d>>] \in x6'[u]
  <2>1. CASE u = s /\ d = x1
    BY <1>1, <1>2, <1>4, <2>1
  <2>2. CASE ~(u = s /\ d = x1)
    <3>1. x7'[<<u, d>>] = x7[<<u, d>>]
      BY <1>4, <2>2
    <3> QED
      BY <1>1, <1>9, <3>1 DEF LogKept, LogHeld
  <2> QED
    BY <2>1, <2>2
<1>10. ASSUME NEW u \in LoggedSymbols, NEW e \in 1 .. LogDays, <<u, e>> \in x8'
       PROVE  \E d \in e .. LogDays : x7'[<<u, d>>] # 0
  <2>1. PICK d \in e .. LogDays : x7[<<u, d>>] # 0
    BY <1>1, <1>10 DEF LogKept, LogHeld
  <2>2. d \in 1 .. LogDays
    BY DEF LogSettings
  <2> QED
    BY <1>6, <2>1, <2>2
<1>11. LogHeld'
  BY <1>9, <1>10 DEF LogHeld
<1> QED
  BY <1>3, <1>8, <1>11 DEF LogKept

LEMMA LogSends == ASSUME LogSettings, LogKept, NEW r \in LogRuns, L!Send(r) PROVE LogKept'
<1> DEFINE s == L!First(x4[r])
<1>1. /\ x3[r] = "send" /\ x3' = [x3 EXCEPT ![r] = "alert"] /\ x4' = [x4 EXCEPT ![r] = @ \ {s}]
      /\ x1' = x1 /\ x2' = x2 /\ x5' = x5 /\ x6' = x6 /\ x7' = x7
      /\ x8' = IF x5[r] \in StrongDays THEN x8 \cup {<<s, x5[r]>>} ELSE x8
  BY DEF L!Send, L!Goto
<1>2. /\ x4[r] # {} /\ s \in LoggedSymbols /\ x5[r] \in 1 .. LogDays /\ x1 \in 1 .. LogDays
      /\ \E d \in x5[r] .. x1 : x7[<<s, d>>] # 0
  BY <1>1, OneOfThem DEF LogKept, LogTyped, LogReady, LogSettings
<1> HIDE DEF s
<1>3. LogTyped'
  BY <1>1, <1>2 DEF LogKept, LogTyped, LogPlaces
<1>4. ASSUME NEW q \in LogRuns PROVE LogTask(q)
  <2>1. CASE q = r
    <3>1. x3'[r] = "alert" /\ x5'[r] = x5[r] /\ x5[r] <= x1
      BY <1>1 DEF LogKept, LogTyped, LogReady
    <3> QED
      BY <1>1, <1>2, <2>1, <3>1 DEF LogTask
  <2>2. CASE q # r
    BY <1>1, <1>2, <2>2, LogOthers DEF LogKept, LogTyped
  <2> QED
    BY <2>1, <2>2
<1>5. LogReady'
  BY <1>4, LogTasks
<1>6. ASSUME NEW u \in LoggedSymbols, NEW e \in 1 .. LogDays, <<u, e>> \in x8'
      PROVE  \E d \in e .. LogDays : x7'[<<u, d>>] # 0
  <2>1. CASE <<u, e>> \in x8
    BY <1>1, <2>1 DEF LogKept, LogHeld
  <2>2. CASE u = s /\ e = x5[r]
    <3>1. PICK d \in x5[r] .. x1 : x7[<<s, d>>] # 0
      BY <1>2
    <3>2. d \in e .. LogDays
      BY <1>2, <2>2 DEF LogSettings
    <3> QED
      BY <1>1, <2>2, <3>1, <3>2
  <2> QED
    BY <1>1, <1>6, <2>1, <2>2
<1>7. LogHeld'
  BY <1>1, <1>6 DEF LogKept, LogHeld
<1> QED
  BY <1>3, <1>5, <1>7 DEF LogKept

\* A task that gives up a symbol, ends or never started is bound to nothing but its day.
LEMMA LogLeaves ==
  ASSUME LogSettings, LogKept, NEW r \in LogRuns, NEW place \in {"idle", "alert"},
         x3' = [x3 EXCEPT ![r] = place], x4' \in [LogRuns -> SUBSET LoggedSymbols],
         \A q \in LogRuns : q # r => x4'[q] = x4[q] /\ x5'[q] = x5[q],
         x5' \in [LogRuns -> 0 .. LogDays], x5'[r] <= x1, place = "alert" => x5'[r] >= 1,
         x1' = x1, x2' = x2, x6' = x6, x7' = x7, x8' = x8
  PROVE  LogKept'
<1>1. LogTyped'
  BY DEF LogKept, LogTyped, LogPlaces
<1>2. ASSUME NEW q \in LogRuns PROVE LogTask(q)
  <2>1. CASE q = r
    <3>1. x3'[r] = place
      BY DEF LogKept, LogTyped
    <3> QED
      BY <2>1, <3>1 DEF LogTask
  <2>2. CASE q # r
    <3>1. x3'[q] = x3[q] /\ x4'[q] = x4[q] /\ x5'[q] = x5[q] /\ x1' \in Int /\ x1 <= x1'
      BY <2>2 DEF LogKept, LogTyped
    <3> QED
      BY <3>1, LogOthers
  <2> QED
    BY <2>1, <2>2
<1>3. LogReady'
  BY <1>2, LogTasks
<1>4. LogHeld'
  BY DEF LogKept, LogHeld
<1> QED
  BY <1>1, <1>3, <1>4 DEF LogKept

LEMMA LogPasses == ASSUME LogSettings, LogKept, L!NextDay PROVE LogKept'
<1>1. /\ x1 < LogDays /\ x1' = x1 + 1 /\ x2' = x2 /\ x3' = x3 /\ x4' = x4 /\ x5' = x5 /\ x6' = x6
      /\ x7' = x7 /\ x8' = x8
  BY DEF L!NextDay
<1>2. LogTyped'
  BY <1>1 DEF LogKept, LogTyped, LogPlaces, LogSettings
<1>3. ASSUME NEW q \in LogRuns PROVE LogTask(q)
  BY <1>1, LogOthers DEF LogKept, LogTyped
<1>4. LogReady'
  BY <1>3, LogTasks
<1>5. LogHeld'
  BY <1>1 DEF LogKept, LogHeld
<1> QED
  BY <1>2, <1>4, <1>5 DEF LogKept

LEMMA LogStep == ASSUME LogSettings, LogKept, [L!Next]_(L!vars) PROVE LogKept'
<1>1. CASE UNCHANGED L!vars
  BY <1>1, LogStays DEF L!vars, LogKept, LogTyped
<1>2. CASE L!Trigger
  <2>1. PICK r \in LogRuns : L!Start(r)
    BY <1>2 DEF L!Trigger
  <2> QED
    BY <1>2, <2>1, LogStarted DEF L!Trigger
<1>3. CASE L!Poll
  BY <1>3, LogStays DEF L!Poll, LogKept, LogTyped
<1>4. CASE L!NextDay
  BY <1>4, LogPasses
<1>5. ASSUME NEW s \in LoggedSymbols, L!Toggle(s) PROVE LogKept'
  <2>1. x2' \subseteq LoggedSymbols
    BY <1>5 DEF L!Toggle, LogKept, LogTyped
  <2> QED
    BY <1>5, <2>1, LogStays DEF L!Toggle
<1>6. ASSUME NEW r \in LogRuns, L!Requested(r) PROVE LogKept'
  BY <1>6, LogStarted DEF L!Requested
<1>7. ASSUME NEW r \in LogRuns, L!DownloadFails(r) PROVE LogKept'
  <2>1. x3' = [x3 EXCEPT ![r] = "idle"] /\ x1' = x1 /\ x2' = x2 /\ x4' = x4 /\ x5' = x5 /\ x6' = x6 /\ x7' = x7 /\ x8' = x8
    BY <1>7 DEF L!DownloadFails, L!Goto
  <2>2. x4 \in [LogRuns -> SUBSET LoggedSymbols] /\ x5 \in [LogRuns -> 0 .. LogDays] /\ x5[r] <= x1
    BY DEF LogKept, LogTyped, LogReady
  <2> QED
    BY <2>1, <2>2, LogLeaves
<1>8. ASSUME NEW r \in LogRuns, L!SymbolFails(r) PROVE LogKept'
  <2>1. /\ x3[r] \in {"alert", "log", "send"} /\ x3' = [x3 EXCEPT ![r] = "alert"]
        /\ x4' = [x4 EXCEPT ![r] = @ \ {L!First(@)}]
        /\ x1' = x1 /\ x2' = x2 /\ x5' = x5 /\ x6' = x6 /\ x7' = x7 /\ x8' = x8
    BY <1>8 DEF L!SymbolFails, L!Goto, L!NextSymbol
  <2>2. x4 \in [LogRuns -> SUBSET LoggedSymbols] /\ x5 \in [LogRuns -> 0 .. LogDays] /\ x5[r] <= x1 /\ x5[r] >= 1
    BY <2>1 DEF LogKept, LogTyped, LogReady
  <2>3. x4' \in [LogRuns -> SUBSET LoggedSymbols] /\ \A q \in LogRuns : q # r => x4'[q] = x4[q]
    BY <2>1, <2>2
  <2> QED
    BY <2>1, <2>2, <2>3, LogLeaves
<1>9. ASSUME NEW r \in LogRuns, L!Finish(r) PROVE LogKept'
  <2>1. /\ x3' = [x3 EXCEPT ![r] = "idle"] /\ x5' = [x5 EXCEPT ![r] = 0]
        /\ x1' = x1 /\ x2' = x2 /\ x4' = x4 /\ x6' = x6 /\ x7' = x7 /\ x8' = x8
    BY <1>9 DEF L!Finish, L!Goto, L!NoRow
  <2>2. /\ x4 \in [LogRuns -> SUBSET LoggedSymbols] /\ x5 \in [LogRuns -> 0 .. LogDays] /\ 0 <= x1
    BY DEF LogKept, LogTyped, LogSettings
  <2>3. x5' \in [LogRuns -> 0 .. LogDays] /\ x5'[r] = 0 /\ \A q \in LogRuns : q # r => x5'[q] = x5[q]
    BY <2>1, <2>2 DEF LogSettings
  <2> QED
    BY <2>1, <2>2, <2>3, LogLeaves
<1>10. ASSUME NEW r \in LogRuns, L!Download(r) \/ L!Alert(r) \/ L!Log(r) \/ L!Send(r) PROVE LogKept'
  BY <1>10, LogDownloads, LogAlerts, LogRowed, LogSends
<1> QED
  BY <1>1, <1>2, <1>3, <1>4, <1>5, <1>6, <1>7, <1>8, <1>9, <1>10 DEF L!Next

LEMMA LogIsSound == ASSUME LogKept PROVE L!LogSound
<1>1. x7 \in [LoggedSymbols \X (1 .. LogDays) -> 0 .. LogDays] /\ x8 \subseteq LoggedSymbols \X (1 .. LogDays)
  BY DEF LogKept, LogTyped
<1>2. ASSUME NEW e \in DOMAIN x7, x7[e] # 0 PROVE x7[e] <= e[2] /\ x7[e] \in x6[e[1]]
  <2>1. PICK s \in LoggedSymbols, d \in 1 .. LogDays : e = <<s, d>>
    BY <1>1
  <2> QED
    BY <1>2, <2>1 DEF LogKept, LogHeld
<1>3. ASSUME NEW m \in x8 PROVE \E d \in m[2] .. LogDays : x7[<<m[1], d>>] # 0
  <2>1. PICK s \in LoggedSymbols, d \in 1 .. LogDays : m = <<s, d>>
    BY <1>1
  <2> QED
    BY <1>3, <2>1 DEF LogKept, LogHeld
<1> QED
  BY <1>2, <1>3 DEF L!LogSound, L!NoRow

(***************************************************************************)
(* The analysis of pending signals.                                        *)
(***************************************************************************)

\* No thread is both; the identifiers are numbers, and so is what a model answers.
AskSettings ==
  /\ IsFiniteSet(ScoreBatches) /\ ScoreBatches \cap SingleAnalyses = {}
  /\ IsFiniteSet(AskedSignals) /\ AskedSignals \subseteq Int /\ ModelScores \subseteq Int

AskedRow == [status : {"none", "pending", "decided"}, flags : {{}} \cup SignalFlags, score : 0 .. 10]
\* The batches that have a signal on their list.
Holders(left, i) == {t \in ScoreBatches : i \in left[t]}
AskTyped ==
  /\ x1 \in [AskedSignals -> AskedRow] /\ x4 \in [Z!Threads -> SUBSET AskedSignals]
  /\ DOMAIN x5 = Z!Threads /\ x7 \in [AskedSignals -> Nat]
AskListed ==
  \A t \in Z!Threads : /\ x5[t] # Z!None => x4[t] # {}
                       /\ \A i \in x4[t] : x1[i].status # "none"
\* A batch lists what has no score, so a signal scored by one batch is on the list of
\* those only that listed it before.
AskCounted ==
  \A i \in AskedSignals :
    /\ x1[i].status = "none" => x1[i].score = 0
    /\ x7[i] > 0 => x1[i].score # 0
    /\ x7[i] + Cardinality(Holders(x4, i)) <= Cardinality(ScoreBatches)
    /\ ~x2 /\ ~x3 => x1[i].score <= 9
AskKept == AskTyped /\ AskListed /\ AskCounted

LEMMA AskCounts == \A set : Z!Cardinality(set) = Cardinality(set)
BY DEF Z!Cardinality, Cardinality

LEMMA FewHold ==
  ASSUME AskSettings, NEW left, NEW i
  PROVE  /\ IsFiniteSet(Holders(left, i)) /\ Cardinality(Holders(left, i)) \in Nat
         /\ Cardinality(ScoreBatches) \in Nat
         /\ Cardinality(Holders(left, i)) <= Cardinality(ScoreBatches)
<1>1. Holders(left, i) \subseteq ScoreBatches
  BY DEF Holders
<1> QED
  BY <1>1, FS_Subset, FS_CardinalityType DEF AskSettings

LEMMA OneMore ==
  ASSUME NEW some, NEW x, NEW new, IsFiniteSet(some), new = some \cup {x}
  PROVE  IsFiniteSet(new) /\ \A k \in Nat : Cardinality(some) <= k => Cardinality(new) <= k + 1
<1>1. IsFiniteSet(some \cup {x}) /\ Cardinality(some) \in Nat
      /\ (Cardinality(some \cup {x}) = Cardinality(some) \/ Cardinality(some \cup {x}) = Cardinality(some) + 1)
  BY FS_AddElement, FS_CardinalityType
<1> QED
  BY <1>1

LEMMA FourAtMost ==
  ASSUME NEW a, NEW b, NEW c, NEW e
  PROVE  IsFiniteSet({a, b, c, e}) /\ Cardinality({a, b, c, e}) <= 4
<1> DEFINE one   == {a}
           two   == {a, b}
           three == {a, b, c}
           four  == {a, b, c, e}
<1>1. two = one \cup {b} /\ three = two \cup {c} /\ four = three \cup {e}
  OBVIOUS
<1>2. IsFiniteSet(one) /\ Cardinality(one) <= 1
  BY FS_Singleton
<1> HIDE DEF one, two, three, four
<1>3. IsFiniteSet(two) /\ Cardinality(two) <= 2
  <2>1. IsFiniteSet(two) /\ \A k \in Nat : Cardinality(one) <= k => Cardinality(two) <= k + 1
    BY <1>1, <1>2, OneMore, Zenon
  <2> QED
    BY <1>2, <2>1
<1>4. IsFiniteSet(three) /\ Cardinality(three) <= 3
  <2>1. IsFiniteSet(three) /\ \A k \in Nat : Cardinality(two) <= k => Cardinality(three) <= k + 1
    BY <1>1, <1>3, OneMore, Zenon
  <2> QED
    BY <1>3, <2>1
<1>5. IsFiniteSet(four) /\ Cardinality(four) <= 4
  <2>1. IsFiniteSet(four) /\ \A k \in Nat : Cardinality(three) <= k => Cardinality(four) <= k + 1
    BY <1>1, <1>4, OneMore, Zenon
  <2> QED
    BY <1>4, <2>1
<1> QED
  BY <1>5 DEF four

\* The rules count four flags, so they never give more than nine.
LEMMA RulesGive == \A set : Z!Mock(set) \in 1 .. 9
<1> SUFFICES ASSUME NEW set PROVE Z!Mock(set) \in 1 .. 9
  OBVIOUS
<1> DEFINE four == {"trend", "breakout", "volume", "rank80"}
           n == Cardinality(set \cap four)
<1>1. IsFiniteSet(four) /\ Cardinality(four) <= 4
  BY FourAtMost
<1>2. set \cap four \subseteq four
  OBVIOUS
<1>3. n \in Nat /\ n <= 4
  <2> HIDE DEF four
  <2>1. IsFiniteSet(set \cap four) /\ Cardinality(set \cap four) <= Cardinality(four)
    BY <1>1, <1>2, FS_Subset
  <2>2. n \in Nat /\ Cardinality(four) \in Nat
    BY <1>1, <2>1, FS_CardinalityType
  <2> QED
    BY <1>1, <2>1, <2>2
<1>4. Z!Mock(set) = Z!Cut(5 + n)
  BY AskCounts DEF Z!Mock
<1> HIDE DEF n
<1> QED
  BY <1>3, <1>4 DEF Z!Cut

LEMMA ScoresGiven ==
  ASSUME AskSettings, NEW set, NEW s \in Z!Scores(set)
  PROVE  s \in 1 .. 10 /\ (~x2 /\ ~x3 => s <= 9)
<1>1. CASE s = Z!Mock(set)
  BY <1>1, RulesGive
<1>2. CASE x2 \/ x3
  <2>1. s = Z!Mock(set) \/ \E a \in ModelScores : s = Z!Answered(a)
    BY <1>2 DEF Z!Scores
  <2>2. ASSUME NEW a \in ModelScores PROVE Z!Answered(a) \in 1 .. 10
    BY DEF Z!Answered, Z!Cut, AskSettings
  <2> QED
    BY <1>1, <1>2, <2>1, <2>2
<1>3. s = Z!Mock(set) \/ x2 \/ x3
  BY DEF Z!Scores
<1> QED
  BY <1>1, <1>2, <1>3

\* The next of a list is one of it.
LEMMA NextListed ==
  ASSUME AskSettings, AskTyped, NEW t \in Z!Threads, x4[t] # {}
  PROVE  Z!NextOf(t) \in x4[t]
<1>1. x4[t] \in SUBSET AskedSignals
  BY DEF AskTyped
<1>2. IsFiniteSet(x4[t]) /\ x4[t] \subseteq Int
  BY <1>1, FS_Subset DEF AskSettings
<1>3. \E i \in x4[t] : \A j \in x4[t] : j <= i
  BY <1>2, Extremes
<1> QED
  BY <1>3 DEF Z!NextOf

LEMMA AskStarts == ASSUME AskSettings, Z!Init PROVE AskKept
<1> USE DEF Z!Init, Z!NoScore
<1>1. AskTyped
  BY DEF AskTyped, AskedRow
<1>2. AskListed
  BY DEF AskListed
<1>3. ASSUME NEW i \in AskedSignals
      PROVE  /\ x1[i].status = "none" => x1[i].score = 0
             /\ x7[i] > 0 => x1[i].score # 0
             /\ x7[i] + Cardinality(Holders(x4, i)) <= Cardinality(ScoreBatches)
             /\ ~x2 /\ ~x3 => x1[i].score <= 9
  <2>1. Cardinality(Holders(x4, i)) \in Nat /\ Cardinality(ScoreBatches) \in Nat
        /\ Cardinality(Holders(x4, i)) <= Cardinality(ScoreBatches)
    BY FewHold
  <2>2. x7[i] = 0 /\ x1[i].score = 0
    OBVIOUS
  <2> QED
    BY <2>1, <2>2
<1> QED
  BY <1>1, <1>2, <1>3 DEF AskKept, AskCounted

LEMMA AskLists ==
  ASSUME AskSettings, AskKept, NEW t \in Z!Threads, Z!List(t)
  PROVE  AskKept'
<1> DEFINE listed == Z!Unscored
<1>1. /\ t \in ScoreBatches /\ x4[t] = {} /\ x4' = [x4 EXCEPT ![t] = listed]
      /\ UNCHANGED <<x1, x2, x3, x5, x7>> /\ x5[t] = Z!None
  BY DEF Z!List
<1>2. listed \in SUBSET AskedSignals /\ \A i \in listed : x1[i].status = "pending" /\ x1[i].score = 0
  BY DEF Z!Unscored, Z!Newest, Z!Pending, Z!NoScore
<1> HIDE DEF listed
<1>3. AskTyped'
  BY <1>1, <1>2 DEF AskKept, AskTyped, Z!Threads
<1>4. AskListed'
  <2>1. \A u \in Z!Threads : x4'[u] = IF u = t THEN listed ELSE x4[u]
    BY <1>1 DEF AskKept, AskTyped
  <2> QED
    BY <1>1, <1>2, <2>1 DEF AskKept, AskListed
<1>5. ASSUME NEW i \in AskedSignals
      PROVE  x7'[i] + Cardinality(Holders(x4', i)) <= Cardinality(ScoreBatches)
  <2>1. /\ Cardinality(Holders(x4, i)) \in Nat /\ Cardinality(Holders(x4', i)) \in Nat
        /\ Cardinality(ScoreBatches) \in Nat /\ Cardinality(Holders(x4', i)) <= Cardinality(ScoreBatches)
    BY FewHold
  <2>2. CASE i \in listed
    <3>1. x7[i] = 0
      BY <1>2, <2>2 DEF AskKept, AskCounted, AskTyped
    <3> QED
      BY <1>1, <2>1, <3>1
  <2>3. CASE i \notin listed
    <3>1. Holders(x4', i) = Holders(x4, i)
      BY <1>1, <2>3 DEF Holders, AskKept, AskTyped, Z!Threads
    <3> QED
      BY <1>1, <3>1 DEF AskKept, AskCounted
  <2> QED
    BY <2>2, <2>3
<1>6. AskCounted'
  BY <1>1, <1>5 DEF AskKept, AskCounted
<1> QED
  BY <1>3, <1>4, <1>6 DEF AskKept

LEMMA AskReads ==
  ASSUME AskSettings, AskKept, NEW t \in Z!Threads, Z!One(t) \/ Z!ReadRow(t)
  PROVE  AskKept'
<1>1. CASE Z!One(t)
  <2>1. PICK i \in AskedSignals : x1[i].status # "none" /\ x4' = [x4 EXCEPT ![t] = {i}]
    BY <1>1 DEF Z!One
  <2>2. t \in SingleAnalyses /\ t \notin ScoreBatches /\ x5[t] = Z!None /\ UNCHANGED <<x1, x2, x3, x5, x7>>
    BY <1>1 DEF Z!One, AskSettings
  <2>3. \A u \in Z!Threads : x4'[u] = IF u = t THEN {i} ELSE x4[u]
    BY <2>1 DEF AskKept, AskTyped
  <2>4. AskTyped'
    BY <2>1, <2>2 DEF AskKept, AskTyped
  <2>5. AskListed'
    BY <2>1, <2>2, <2>3 DEF AskKept, AskListed
  <2>6. \A j : Holders(x4', j) = Holders(x4, j)
    BY <2>2, <2>3 DEF Holders, Z!Threads
  <2>7. AskCounted'
    BY <2>2, <2>6 DEF AskKept, AskCounted
  <2> QED
    BY <2>4, <2>5, <2>7 DEF AskKept
<1>2. CASE Z!ReadRow(t)
  <2>1. /\ x4[t] # {} /\ x5' = [x5 EXCEPT ![t] = x1[Z!NextOf(t)]]
        /\ UNCHANGED <<x1, x2, x3, x4, x7>>
    BY <1>2 DEF Z!ReadRow
  <2>2. AskTyped'
    BY <2>1 DEF AskKept, AskTyped
  <2>3. \A u \in Z!Threads : x5'[u] = IF u = t THEN x1[Z!NextOf(t)] ELSE x5[u]
    BY <2>1 DEF AskKept, AskTyped
  <2>4. AskListed'
    BY <2>1, <2>3 DEF AskKept, AskListed
  <2>5. AskCounted'
    BY <2>1 DEF AskKept, AskCounted
  <2> QED
    BY <2>2, <2>4, <2>5 DEF AskKept
<1> QED
  BY <1>1, <1>2

\* A thread goes on: its list is a signal shorter, and what it read is put away.
LEMMA AskAdvances ==
  ASSUME AskSettings, AskKept, NEW t \in Z!Threads, x5[t] # Z!None, NEW outcome, Z!Advance(t, outcome)
  PROVE  /\ Z!NextOf(t) \in x4[t] /\ Z!NextOf(t) \in AskedSignals /\ x1[Z!NextOf(t)].status # "none"
         /\ x4' \in [Z!Threads -> SUBSET AskedSignals] /\ DOMAIN x5' = Z!Threads
         /\ \A u \in Z!Threads : /\ x4'[u] = IF u = t THEN x4[t] \ {Z!NextOf(t)} ELSE x4[u]
                                 /\ x5'[u] = IF u = t THEN Z!None ELSE x5[u]
         /\ \A i : Holders(x4', i) = IF t \in ScoreBatches /\ i = Z!NextOf(t)
                                       THEN Holders(x4, i) \ {t} ELSE Holders(x4, i)
<1> DEFINE n == Z!NextOf(t)
<1>1. x4[t] # {} /\ x4[t] \in SUBSET AskedSignals /\ \A i \in x4[t] : x1[i].status # "none"
  BY DEF AskKept, AskListed, AskTyped
<1>2. n \in x4[t]
  BY <1>1, NextListed DEF AskKept
<1>3. x4' = [x4 EXCEPT ![t] = x4[t] \ {n}] /\ x5' = [x5 EXCEPT ![t] = Z!None]
  BY DEF Z!Advance
<1> HIDE DEF n
<1>4. /\ x4' \in [Z!Threads -> SUBSET AskedSignals] /\ DOMAIN x5' = Z!Threads
      /\ \A u \in Z!Threads : /\ x4'[u] = IF u = t THEN x4[t] \ {n} ELSE x4[u]
                              /\ x5'[u] = IF u = t THEN Z!None ELSE x5[u]
  BY <1>1, <1>3 DEF AskKept, AskTyped
<1>5. \A i : Holders(x4', i) = IF t \in ScoreBatches /\ i = n THEN Holders(x4, i) \ {t} ELSE Holders(x4, i)
  BY <1>4 DEF Holders, Z!Threads
<1> QED
  BY <1>1, <1>2, <1>4, <1>5 DEF n

LEMMA AskFails ==
  ASSUME AskSettings, AskKept, NEW t \in Z!Threads, Z!Fails(t)
  PROVE  AskKept'
<1>1. x5[t] # Z!None /\ Z!Advance(t, "error") /\ UNCHANGED <<x1, x2, x3, x7>>
  BY DEF Z!Fails
<1> DEFINE n == Z!NextOf(t)
<1>2. /\ x4' \in [Z!Threads -> SUBSET AskedSignals] /\ DOMAIN x5' = Z!Threads
      /\ \A u \in Z!Threads : /\ x4'[u] = IF u = t THEN x4[t] \ {n} ELSE x4[u]
                              /\ x5'[u] = IF u = t THEN Z!None ELSE x5[u]
      /\ \A i : Holders(x4', i) = IF t \in ScoreBatches /\ i = n THEN Holders(x4, i) \ {t} ELSE Holders(x4, i)
  BY <1>1, AskAdvances
<1> HIDE DEF n
<1>3. AskTyped'
  BY <1>1, <1>2 DEF AskKept, AskTyped
<1>4. AskListed'
  BY <1>1, <1>2 DEF AskKept, AskListed
<1>5. ASSUME NEW i \in AskedSignals
      PROVE  x7'[i] + Cardinality(Holders(x4', i)) <= Cardinality(ScoreBatches)
  <2>1. /\ IsFiniteSet(Holders(x4, i)) /\ Cardinality(Holders(x4, i)) \in Nat
        /\ Cardinality(Holders(x4', i)) \in Nat /\ Cardinality(ScoreBatches) \in Nat
    BY FewHold
  <2>2. Holders(x4', i) \subseteq Holders(x4, i)
    BY <1>2
  <2>3. Cardinality(Holders(x4', i)) <= Cardinality(Holders(x4, i))
    BY <2>1, <2>2, FS_Subset
  <2> QED
    BY <1>1, <2>1, <2>3 DEF AskKept, AskCounted, AskTyped
<1>6. AskCounted'
  BY <1>1, <1>5 DEF AskKept, AskCounted
<1> QED
  BY <1>3, <1>4, <1>6 DEF AskKept

LEMMA AskWrites ==
  ASSUME AskSettings, AskKept, NEW t \in Z!Threads, Z!Write(t)
  PROVE  AskKept'
<1> DEFINE n == Z!NextOf(t)
<1>1. /\ x5[t] # Z!None /\ Z!Advance(t, "done") /\ UNCHANGED <<x2, x3>>
      /\ x7' = IF t \in ScoreBatches THEN [x7 EXCEPT ![n] = @ + 1] ELSE x7
  BY DEF Z!Write
<1>2. PICK s \in Z!Scores(x5[t].flags) : x1' = [x1 EXCEPT ![n].score = s]
  BY DEF Z!Write
<1>3. s \in 1 .. 10 /\ (~x2 /\ ~x3 => s <= 9)
  BY ScoresGiven
<1>4. /\ n \in x4[t] /\ n \in AskedSignals /\ x1[n].status # "none"
      /\ x4' \in [Z!Threads -> SUBSET AskedSignals] /\ DOMAIN x5' = Z!Threads
      /\ \A u \in Z!Threads : /\ x4'[u] = IF u = t THEN x4[t] \ {n} ELSE x4[u]
                              /\ x5'[u] = IF u = t THEN Z!None ELSE x5[u]
      /\ \A i : Holders(x4', i) = IF t \in ScoreBatches /\ i = n THEN Holders(x4, i) \ {t} ELSE Holders(x4, i)
  BY <1>1, AskAdvances
<1> HIDE DEF n
<1>5. /\ x1' \in [AskedSignals -> AskedRow]
      /\ \A i \in AskedSignals : x1'[i].status = x1[i].status /\ x1'[i].score = IF i = n THEN s ELSE x1[i].score
  BY <1>2, <1>3, <1>4 DEF AskKept, AskTyped, AskedRow
<1>6. /\ x7' \in [AskedSignals -> Nat]
      /\ \A i \in AskedSignals : x7'[i] = IF t \in ScoreBatches /\ i = n THEN x7[i] + 1 ELSE x7[i]
  BY <1>1, <1>4 DEF AskKept, AskTyped
<1>7. AskTyped'
  BY <1>4, <1>5, <1>6 DEF AskTyped
<1>8. AskListed'
  BY <1>4, <1>5 DEF AskKept, AskListed, AskTyped
<1>9. ASSUME NEW i \in AskedSignals
      PROVE  /\ x1'[i].status = "none" => x1'[i].score = 0
             /\ x7'[i] > 0 => x1'[i].score # 0
             /\ x7'[i] + Cardinality(Holders(x4', i)) <= Cardinality(ScoreBatches)
             /\ ~x2' /\ ~x3' => x1'[i].score <= 9
  <2>1. /\ x1[i].status = "none" => x1[i].score = 0
        /\ x7[i] > 0 => x1[i].score # 0
        /\ x7[i] + Cardinality(Holders(x4, i)) <= Cardinality(ScoreBatches)
        /\ ~x2 /\ ~x3 => x1[i].score <= 9
    BY DEF AskKept, AskCounted
  <2>2. /\ x7[i] \in Nat /\ IsFiniteSet(Holders(x4, i)) /\ Cardinality(Holders(x4, i)) \in Nat
        /\ Cardinality(ScoreBatches) \in Nat
    BY FewHold DEF AskKept, AskTyped
  <2>3. CASE t \in ScoreBatches /\ i = n
    <3>1. t \in Holders(x4, i)
      BY <1>4, <2>3 DEF Holders
    <3>2. Holders(x4', i) = Holders(x4, i) \ {t}
      BY <1>4, <2>3
    <3>3. Cardinality(Holders(x4, i) \ {t}) = Cardinality(Holders(x4, i)) - 1
      BY <2>2, <3>1, FS_RemoveElement
    <3>4. x7'[i] + Cardinality(Holders(x4', i)) <= Cardinality(ScoreBatches)
      BY <1>6, <2>1, <2>2, <2>3, <3>2, <3>3
    <3> QED
      BY <1>1, <1>3, <1>4, <1>5, <2>3, <3>4
  <2>4. CASE ~(t \in ScoreBatches /\ i = n)
    <3>1. Holders(x4', i) = Holders(x4, i) /\ x7'[i] = x7[i]
      BY <1>4, <1>6, <2>4
    <3> QED
      BY <1>1, <1>3, <1>4, <1>5, <2>1, <3>1
  <2> QED
    BY <2>3, <2>4
<1>10. AskCounted'
  BY <1>9 DEF AskCounted
<1> QED
  BY <1>7, <1>8, <1>10 DEF AskKept

LEMMA AskInserts ==
  ASSUME AskSettings, AskKept, NEW n \in AskedSignals, Z!Insert(n) \/ Z!Decide(n)
  PROVE  AskKept'
<1>1. UNCHANGED <<x2, x3, x4, x5, x7>>
  BY DEF Z!Insert, Z!Decide
<1>2. /\ x1' \in [AskedSignals -> AskedRow]
      /\ \A i \in AskedSignals : /\ x1[i].status # "none" => x1'[i].status # "none"
                                 /\ x1'[i].score = x1[i].score /\ (x1'[i].status = "none" => x1[i].status = "none")
  <2>1. CASE Z!Insert(n)
    <3>1. PICK f \in SignalFlags : x1' = [x1 EXCEPT ![n] = [status |-> "pending", flags |-> f, score |-> 0]]
      BY <2>1 DEF Z!Insert, Z!NoScore
    <3>2. x1[n].status = "none" /\ x1[n].score = 0
      BY <2>1 DEF Z!Insert, AskKept, AskCounted
    <3> QED
      BY <3>1, <3>2 DEF AskKept, AskTyped, AskedRow
  <2>2. CASE Z!Decide(n)
    <3>1. x1[n].status = "pending" /\ x1' = [x1 EXCEPT ![n].status = "decided"]
      BY <2>2 DEF Z!Decide
    <3> QED
      BY <3>1 DEF AskKept, AskTyped, AskedRow
  <2> QED
    BY <2>1, <2>2
<1>3. AskTyped'
  BY <1>1, <1>2 DEF AskKept, AskTyped
<1>4. AskListed'
  BY <1>1, <1>2 DEF AskKept, AskListed, AskTyped
<1>5. AskCounted'
  BY <1>1, <1>2 DEF AskKept, AskCounted
<1> QED
  BY <1>3, <1>4, <1>5 DEF AskKept

LEMMA AskStep == ASSUME AskSettings, AskKept, [Z!Next]_(Z!vars) PROVE AskKept'
<1>1. CASE Z!Expire \/ UNCHANGED Z!vars
  <2>1. UNCHANGED <<x1, x2, x3, x4, x5, x7>>
    BY <1>1 DEF Z!Expire, Z!vars
  <2> QED
    BY <2>1 DEF AskKept, AskTyped, AskListed, AskCounted
<1>2. CASE \E i \in AskedSignals : Z!Insert(i) \/ Z!Decide(i)
  BY <1>2, AskInserts
<1>3. CASE \E t \in Z!Threads : Z!List(t) \/ Z!One(t) \/ Z!ReadRow(t) \/ Z!Write(t) \/ Z!Fails(t)
  BY <1>3, AskLists, AskReads, AskWrites, AskFails
<1> QED
  BY <1>1, <1>2, <1>3 DEF Z!Next

LEMMA AskedOnce == ASSUME AskSettings, AskKept PROVE Z!AnalysedOncePerBatch
<1> SUFFICES ASSUME NEW i \in AskedSignals
             PROVE  /\ x7[i] <= Cardinality(ScoreBatches) /\ x1[i].score \in 0 .. 10
                    /\ ~x2 /\ ~x3 => x1[i].score <= 9
  BY AskCounts DEF Z!AnalysedOncePerBatch, Z!NoScore
<1>1. Cardinality(Holders(x4, i)) \in Nat /\ Cardinality(ScoreBatches) \in Nat /\ x7[i] \in Nat
  BY FewHold DEF AskKept, AskTyped
<1>2. x1[i].score \in 0 .. 10
  BY DEF AskKept, AskTyped, AskedRow
<1> QED
  BY <1>1, <1>2 DEF AskKept, AskCounted

(***************************************************************************)
(* Prices outside the session.                                             *)
(***************************************************************************)

\* A day has a tick, the silence between two events of a symbol is no longer than a day,
\* and what a ticker answers are prices.
QuoteOk(q) == q.close \in Nat /\ q.price \in Nat /\ q.pre \in Nat /\ q.post \in Nat
TickerSettings ==
  /\ IsFiniteSet(TickerSymbols) /\ AlertsNamed \in Nat /\ GapLimit \in Nat
  /\ DayTicks \in Nat /\ DayTicks >= 1 /\ GapSilence \in 1 .. DayTicks
  /\ \A q \in TickerQuotes : \A s \in TickerSymbols : q[s] = V!Silent \/ QuoteOk(q[s])

\* The quotient of a division, and where it lies.
LEMMA Quotient ==
  ASSUME NEW a \in Int, NEW b \in Nat, b > 0
  PROVE  a \div b \in Int /\ b * (a \div b) <= a /\ a < b * (a \div b) + b
OBVIOUS

\* How far a price moved, in tenths of a percent.
LEMMA GapEdges ==
  ASSUME NEW a \in Int, NEW b \in Nat, b > 0
  PROVE  /\ a >= 20 * b => a \div b >= 20
         /\ a <= -20 * b => a \div b <= -20
         /\ a <= -30 * b => a \div b <= -30
<1> DEFINE q == a \div b
<1>1. q \in Int /\ b * q <= a /\ a < b * q + b
  BY Quotient
<1> HIDE DEF q
<1>2. a >= 20 * b => q >= 20
  BY <1>1
<1>3. a <= -20 * b => q <= -20
  BY <1>1
<1>4. a <= -30 * b => q <= -30
  BY <1>1
<1> QED
  BY <1>2, <1>3, <1>4 DEF q

LEMMA LaterQuotient ==
  ASSUME NEW a \in Nat, NEW c \in Nat, NEW b \in Nat, b > 0, a <= c
  PROVE  a \div b \in Nat /\ a \div b <= c \div b
<1> DEFINE q == a \div b
           p == c \div b
<1>1. q \in Int /\ b * q <= a /\ a < b * q + b /\ p \in Int /\ b * p <= c /\ c < b * p + b
  BY Quotient
<1> HIDE DEF q, p
<1>2. q >= 0
  BY <1>1
<1>3. q <= p
  BY <1>1
<1> QED
  BY <1>1, <1>2, <1>3 DEF q, p

\* The exit check ran at the close of yesterday or later, a symbol that trades has
\* today's bar, and one that stopped for too long had its event at the last check.
GapKept ==
  /\ x1 \in Nat /\ x9 \in Nat /\ x9 <= x1 /\ DayTicks * V!Day <= x9 + 1
  /\ x7 \subseteq TickerSymbols
  /\ \A s \in TickerSymbols :
       /\ x6[s] \in Int /\ x8[s] \in Int /\ x6[s] <= V!Day
       /\ s \notin x7 => x6[s] = V!Day
       /\ s \in V!Held \cap x7 /\ x9 \div DayTicks - x6[s] > GapLimit => x8[s] > x9 - GapSilence

LEMMA GapStarts == ASSUME TickerSettings, V!Init PROVE GapKept
<1>1. DayTicks \div DayTicks = 1
  BY DEF TickerSettings
<1> QED
  BY <1>1 DEF V!Init, GapKept, V!Day, TickerSettings

LEMMA GapPasses == ASSUME TickerSettings, GapKept, V!Pass PROVE GapKept'
<1> DEFINE day == V!Day
           next == x1' \div DayTicks
<1>1. /\ x1' = x1 + 1 /\ (x1' % DayTicks = 0 => x9 = x1) /\ UNCHANGED <<x2, x7, x8, x9>>
      /\ \A s \in TickerSymbols : x6'[s] = IF s \in x7 THEN x6[s] ELSE next
  BY DEF V!Pass
<1>2. day \in Int /\ DayTicks * day <= x1 /\ x1 < DayTicks * day + DayTicks
  BY Quotient DEF GapKept, V!Day, TickerSettings
<1>3. next \in Int /\ DayTicks * next <= x1' /\ x1' < DayTicks * next + DayTicks
  BY <1>1, Quotient DEF GapKept, TickerSettings
<1>4. day <= next
  BY <1>1, LaterQuotient DEF GapKept, V!Day, TickerSettings
<1>5. V!Day' = next /\ V!Held' = V!Held
  BY <1>1 DEF V!Day, V!Held, V!Is
<1>6. DayTicks * next <= x9 + 1
  <2>1. CASE x1' % DayTicks = 0
    BY <1>1, <1>3, <2>1 DEF GapKept
  <2>2. CASE x1' % DayTicks # 0
    <3>1. DayTicks * next # x1'
      BY <1>1, <1>3, <2>2 DEF GapKept, TickerSettings
    <3>2. next = day
      BY <1>1, <1>2, <1>3, <1>4, <3>1 DEF TickerSettings, GapKept
    <3> QED
      BY <3>2 DEF GapKept
  <2> QED
    BY <2>1, <2>2
<1>7. \A s \in TickerSymbols : /\ x6[s] \in Int /\ x8[s] \in Int /\ x6[s] <= day
                               /\ s \notin x7 => x6[s] = day
                               /\ s \in V!Held \cap x7 /\ x9 \div DayTicks - x6[s] > GapLimit
                                    => x8[s] > x9 - GapSilence
  BY DEF GapKept
<1> HIDE DEF day, next
<1>8. ASSUME NEW s \in TickerSymbols
      PROVE  /\ x6'[s] \in Int /\ x8'[s] \in Int /\ x6'[s] <= next
             /\ s \notin x7' => x6'[s] = next
             /\ s \in V!Held \cap x7' /\ x9' \div DayTicks - x6'[s] > GapLimit => x8'[s] > x9' - GapSilence
  BY <1>1, <1>2, <1>3, <1>4, <1>7
<1>9. x1' \in Nat /\ x9' \in Nat /\ x9' <= x1' /\ x7' \subseteq TickerSymbols
  BY <1>1 DEF GapKept
<1> QED
  BY <1>1, <1>5, <1>6, <1>8, <1>9 DEF GapKept

LEMMA GapChecks == ASSUME TickerSettings, GapKept, V!ExitCheck PROVE GapKept'
<1>1. x9' = x1 /\ UNCHANGED <<x1, x2, x6, x7>>
  BY DEF V!ExitCheck
<1>2. V!Day' = V!Day /\ V!Held' = V!Held
  BY <1>1 DEF V!Day, V!Held, V!Is
<1>3. PICK failing \in {{}, x7} :
        x8' = [s \in TickerSymbols |->
                 IF s \in V!Held \cap x7 /\ V!Gone(IF s \in failing THEN 0 ELSE x6[s]) /\ ~V!Fresh(s)
                   THEN x1 ELSE x8[s]]
  BY DEF V!ExitCheck
<1>4. ASSUME NEW s \in TickerSymbols
      PROVE  /\ x8'[s] \in Int
             /\ s \in V!Held \cap x7 /\ V!Day - x6[s] > GapLimit => x8'[s] > x1 - GapSilence
  <2>1. x8[s] \in Int /\ x1 \in Nat /\ GapSilence \in Nat /\ GapSilence >= 1
    BY DEF GapKept, TickerSettings
  <2>2. x8'[s] = IF s \in V!Held \cap x7 /\ V!Gone(IF s \in failing THEN 0 ELSE x6[s]) /\ ~V!Fresh(s)
                   THEN x1 ELSE x8[s]
    BY <1>3
  <2>3. V!Day - x6[s] > GapLimit => V!Gone(IF s \in failing THEN 0 ELSE x6[s])
    BY DEF V!Gone
  <2>4. V!Fresh(s) <=> x8[s] > x1 - GapSilence
    BY DEF V!Fresh
  <2> QED
    BY <2>1, <2>2, <2>3, <2>4
<1>5. DayTicks * V!Day <= x1 + 1
  BY Quotient DEF GapKept, V!Day, TickerSettings
<1> QED
  BY <1>1, <1>2, <1>4, <1>5 DEF GapKept, V!Day

LEMMA GapDelists == ASSUME TickerSettings, GapKept, NEW s \in TickerSymbols, V!Delist(s) PROVE GapKept'
<1>1. x7 = {} /\ x7' = {s} /\ UNCHANGED <<x1, x2, x6, x8, x9>>
  BY DEF V!Delist
<1>2. V!Day' = V!Day /\ V!Held' = V!Held
  BY <1>1 DEF V!Day, V!Held, V!Is
<1>3. x6[s] = V!Day
  BY <1>1 DEF GapKept
<1>4. x9 \div DayTicks \in Nat /\ x9 \div DayTicks <= V!Day
  BY LaterQuotient DEF GapKept, V!Day, TickerSettings
<1>5. V!Day \in Nat /\ GapLimit \in Nat
  BY LaterQuotient DEF GapKept, V!Day, TickerSettings
<1>6. ~(x9 \div DayTicks - x6[s] > GapLimit)
  BY <1>3, <1>4, <1>5
<1> QED
  BY <1>1, <1>2, <1>3, <1>6 DEF GapKept

LEMMA GapStep == ASSUME TickerSettings, GapKept, [V!Next]_(V!vars) PROVE GapKept'
<1>1. CASE V!CheckNow \/ (\E session \in {"pre", "post"} : V!Report(session)) \/ UNCHANGED V!vars
  <2>1. UNCHANGED <<x1, x2, x6, x7, x8, x9>>
    BY <1>1 DEF V!CheckNow, V!Report, V!vars
  <2>2. V!Day' = V!Day /\ V!Held' = V!Held
    BY <2>1 DEF V!Day, V!Held, V!Is
  <2> QED
    BY <2>1, <2>2 DEF GapKept
<1> QED
  BY <1>1, GapPasses, GapChecks, GapDelists DEF V!Next

\* The check at yesterday's close was made when the bar was already too old.
LEMMA GapIsTold == ASSUME TickerSettings, GapKept PROVE V!GapTold
<1> SUFFICES ASSUME NEW s \in V!Held \cap x7, V!Day - x6[s] > GapLimit + 1
             PROVE  x8[s] >= (V!Day - 1) * DayTicks
  BY DEF V!GapTold
<1> DEFINE day == V!Day
           seen == x9 \div DayTicks
<1>1. s \in TickerSymbols /\ x6[s] \in Int /\ x8[s] \in Int /\ x6[s] <= day
      /\ (seen - x6[s] > GapLimit => x8[s] > x9 - GapSilence)
  BY DEF GapKept, V!Held
<1>2. day \in Nat /\ DayTicks * day <= x9 + 1 /\ x9 \in Nat
  BY LaterQuotient DEF GapKept, V!Day, TickerSettings
<1>3. seen \in Int /\ x9 < DayTicks * seen + DayTicks
  BY Quotient DEF GapKept, TickerSettings
<1>4. DayTicks \in Nat /\ DayTicks >= 1 /\ GapSilence \in Int /\ GapSilence <= DayTicks /\ GapLimit \in Nat
  BY DEF TickerSettings
<1> HIDE DEF day, seen
<1>5. seen >= day - 1
  BY <1>2, <1>3, <1>4
<1>6. x8[s] > x9 - GapSilence
  BY <1>1, <1>2, <1>3, <1>4, <1>5 DEF day
<1>7. x8[s] >= DayTicks * day - DayTicks
  BY <1>1, <1>2, <1>4, <1>6
<1>8. DayTicks * day - DayTicks = (day - 1) * DayTicks
  BY <1>2, <1>4
<1> QED
  BY <1>7, <1>8 DEF day

\* What the last report holds: the answers it was made of, and whom it names.
TellsKept ==
  /\ \A s \in TickerSymbols : x3[s] = V!Silent \/ QuoteOk(x3[s])
  /\ x4.session # "none" =>
       /\ x4.session \in {"pre", "post"} /\ DOMAIN x4.data \subseteq TickerSymbols
       /\ \A s \in DOMAIN x4.data : QuoteOk(x4.data[s])
       /\ x4.alerts \in V!Named(V!Alerts(x4.session, x4.data))

LEMMA TellsStart == ASSUME TickerSettings, V!Init PROVE TellsKept
BY DEF V!Init, TellsKept

\* A report is of what was fetched.
LEMMA LookedAt ==
  ASSUME TellsKept, NEW session \in {"pre", "post"}
  PROVE  /\ DOMAIN V!Looked(session) \subseteq TickerSymbols
         /\ \A s \in DOMAIN V!Looked(session) : QuoteOk(V!Looked(session)[s])
<1> DEFINE fetched == V!Fetched
<1>1. DOMAIN fetched \subseteq TickerSymbols /\ \A s \in DOMAIN fetched : fetched[s] = x3[s] /\ x3[s] # V!Silent
  BY DEF V!Fetched
<1>2. \A s \in DOMAIN fetched : QuoteOk(fetched[s])
  BY <1>1 DEF TellsKept
<1>3. CASE session = "pre"
  BY <1>1, <1>2, <1>3 DEF V!Looked
<1>4. CASE session # "pre"
  <2> DEFINE these == {s \in DOMAIN fetched : V!Is(s, "held") \/ V!Is(s, "watched")}
  <2>1. V!Looked(session) = [s \in these |-> x3[s]] /\ these \subseteq DOMAIN fetched
    BY <1>4 DEF V!Looked
  <2> HIDE DEF these, fetched
  <2>2. DOMAIN V!Looked(session) = these /\ \A s \in these : V!Looked(session)[s] = x3[s]
    BY <2>1
  <2> QED
    BY <1>1, <1>2, <2>1, <2>2
<1> QED
  BY <1>3, <1>4

LEMMA TellsReport ==
  ASSUME TellsKept, NEW session \in {"pre", "post"}, V!Report(session)
  PROVE  TellsKept'
<1> DEFINE looked == V!Looked(session)
           all0 == V!Alerts(session, looked)
<1>1. PICK n \in V!Named(all0) : x4' = [session |-> session, data |-> looked, alerts |-> n]
  BY DEF V!Report
<1>2. UNCHANGED <<x2, x3>>
  BY DEF V!Report
<1>3. DOMAIN looked \subseteq TickerSymbols /\ \A s \in DOMAIN looked : QuoteOk(looked[s])
  BY LookedAt
<1>4. x4'.session = session /\ x4'.data = looked /\ x4'.alerts = n
  BY <1>1
<1>5. V!Named(V!Alerts(x4.session, x4.data))' = V!Named(V!Alerts(x4'.session, x4'.data))
  BY <1>2 DEF V!Named, V!Alerts, V!PreAlerts, V!PostAlerts, V!Is
<1> QED
  BY <1>1, <1>2, <1>3, <1>4, <1>5 DEF TellsKept

LEMMA TellsStep == ASSUME TickerSettings, TellsKept, [V!Next]_(V!vars) PROVE TellsKept'
<1>1. CASE V!Pass
  <2>1. x3' \in TickerQuotes /\ UNCHANGED <<x2, x4>>
    BY <1>1 DEF V!Pass
  <2>2. \A s \in TickerSymbols : x3'[s] = V!Silent \/ QuoteOk(x3'[s])
    BY <2>1 DEF TickerSettings
  <2>3. V!Named(V!Alerts(x4.session, x4.data))' = V!Named(V!Alerts(x4.session, x4.data))
    BY <2>1 DEF V!Named, V!Alerts, V!PreAlerts, V!PostAlerts, V!Is
  <2> QED
    BY <2>1, <2>2, <2>3 DEF TellsKept
<1>2. CASE V!CheckNow \/ V!ExitCheck \/ (\E s \in TickerSymbols : V!Delist(s)) \/ UNCHANGED V!vars
  <2>1. UNCHANGED <<x2, x3, x4>>
    BY <1>2 DEF V!CheckNow, V!ExitCheck, V!Delist, V!vars
  <2>2. V!Named(V!Alerts(x4.session, x4.data))' = V!Named(V!Alerts(x4.session, x4.data))
    BY <2>1 DEF V!Named, V!Alerts, V!PreAlerts, V!PostAlerts, V!Is
  <2> QED
    BY <2>1, <2>2 DEF TellsKept
<1> QED
  BY <1>1, <1>2, TellsReport DEF V!Next

\* There are finitely many things to say.
LEMMA SayFinite == \A s, kind, when : IsFiniteSet(V!Say(s, kind, when))
BY FS_EmptySet, FS_Singleton DEF V!Say

LEMMA AlertsFinite ==
  ASSUME TickerSettings, NEW session, NEW data, DOMAIN data \subseteq TickerSymbols
  PROVE  IsFiniteSet(V!Alerts(session, data))
<1> DEFINE own(s) == IF session = "pre" THEN V!PreAlerts(s, data[s]) ELSE V!PostAlerts(s, data[s])
           owned == [s \in DOMAIN data |-> own(s)]
           sets == {own(s) : s \in DOMAIN data}
<1>1. IsFiniteSet(DOMAIN data)
  BY FS_Subset DEF TickerSettings
<1>2. \A s : IsFiniteSet(V!PreAlerts(s, data[s])) /\ IsFiniteSet(V!PostAlerts(s, data[s]))
  BY SayFinite, FS_EmptySet, FS_Union DEF V!PreAlerts, V!PostAlerts
<1>3. \A s : IsFiniteSet(own(s))
  BY <1>2
<1>4. V!Alerts(session, data) = UNION sets
  BY DEF V!Alerts
<1> HIDE DEF own
<1>5. owned \in Surjection(DOMAIN data, sets)
  BY DEF Surjection
<1>6. IsFiniteSet(sets)
  <2> HIDE DEF owned, sets
  <2> QED
    BY <1>1, <1>5, FS_Surjection
<1>7. \A one \in sets : IsFiniteSet(one)
  BY <1>3
<1> HIDE DEF sets
<1> QED
  BY <1>4, <1>6, <1>7, FS_UNION

LEMMA TickerCounts == \A set : V!Cardinality(set) = Cardinality(set)
BY DEF V!Cardinality, Cardinality

\* What is named is everything, or as much as a report may name.
LEMMA NamedOrFull ==
  ASSUME TickerSettings, NEW all0, IsFiniteSet(all0), NEW n \in V!Named(all0)
  PROVE  Cardinality(n) = AlertsNamed \/ n = all0
<1>1. n \subseteq all0 /\ Cardinality(n) = IF Cardinality(all0) < AlertsNamed THEN Cardinality(all0) ELSE AlertsNamed
  BY TickerCounts DEF V!Named
<1>2. Cardinality(n) = Cardinality(all0) => n = all0
  BY <1>1, FS_Subset
<1> QED
  BY <1>1, <1>2

\* A symbol that moved far enough is one of those there is something to say of.
LEMMA MovedIsSaid ==
  ASSUME NEW session \in {"pre", "post"}, NEW s \in V!Held, NEW q, QuoteOk(q), V!Moved(session, q)
  PROVE  \E a \in IF session = "pre" THEN V!PreAlerts(s, q) ELSE V!PostAlerts(s, q) : a.symbol = s
<1>1. V!Is(s, "held")
  BY DEF V!Held
<1>2. CASE session = "pre"
  <2> DEFINE d == q.pre - q.close
  <2>1. q.state = "PRE" /\ q.pre # 0 /\ q.close > 0 /\ q.close \in Nat /\ d \in Int /\ 50 * V!Size(d) >= q.close
    BY <1>2 DEF V!Moved, QuoteOk
  <2>2. V!Gap(q) = (d * 1000) \div q.close
    BY <2>1 DEF V!Gap, V!SessionOf, V!Permille
  <2> HIDE DEF d
  <2>3. d * 1000 \in Int /\ (d * 1000 >= 20 * q.close \/ d * 1000 <= -20 * q.close)
    BY <2>1 DEF V!Size
  <2>4. V!Gap(q) \in Int /\ (V!Gap(q) >= 20 \/ V!Gap(q) <= -20)
    BY <2>1, <2>2, <2>3, GapEdges, Quotient
  <2>5. V!Size(V!Gap(q)) >= 20
    BY <2>4 DEF V!Size
  <2>6. [symbol |-> s, kind |-> "gap"] \in V!PreAlerts(s, q)
    BY <1>1, <2>1, <2>5 DEF V!PreAlerts, V!Say
  <2> QED
    BY <1>2, <2>6
<1>3. CASE session = "post"
  <2> DEFINE d == q.post - q.price
  <2>1. q.state = "POST" /\ q.post # 0 /\ q.price > 0 /\ q.price \in Nat /\ d \in Int /\ 100 * (-d) >= 3 * q.price
    BY <1>3 DEF V!Moved, QuoteOk
  <2>2. V!Gap(q) = (d * 1000) \div q.price
    BY <2>1 DEF V!Gap, V!SessionOf, V!Permille
  <2> HIDE DEF d
  <2>3. d * 1000 \in Int /\ d * 1000 <= -30 * q.price
    BY <2>1
  <2>4. V!Gap(q) <= -30
    BY <2>1, <2>2, <2>3, GapEdges
  <2>5. [symbol |-> s, kind |-> "drop"] \in V!PostAlerts(s, q)
    BY <1>1, <2>1, <2>4 DEF V!PostAlerts, V!Say
  <2> QED
    BY <1>3, <2>5
<1> QED
  BY <1>2, <1>3

LEMMA MovesAreTold == ASSUME TickerSettings, TellsKept PROVE V!MovesTold
<1> SUFFICES ASSUME x4.session # "none", NEW s \in DOMAIN x4.data \cap V!Held,
                    V!Moved(x4.session, x4.data[s])
             PROVE  Cardinality(x4.alerts) = AlertsNamed \/ \E a \in x4.alerts : a.symbol = s
  BY TickerCounts DEF V!MovesTold
<1> DEFINE session == x4.session
           data == x4.data
           all0 == V!Alerts(session, data)
<1>1. session \in {"pre", "post"} /\ DOMAIN data \subseteq TickerSymbols /\ QuoteOk(data[s]) /\ x4.alerts \in V!Named(all0)
  BY DEF TellsKept
<1> HIDE DEF session, data
<1>2. \E a \in all0 : a.symbol = s
  <2>1. PICK a \in IF session = "pre" THEN V!PreAlerts(s, data[s]) ELSE V!PostAlerts(s, data[s]) : a.symbol = s
    BY <1>1, MovedIsSaid DEF session, data
  <2>2. a \in all0
    BY <2>1 DEF V!Alerts, data
  <2> QED
    BY <2>1, <2>2
<1>3. IsFiniteSet(all0)
  BY <1>1, AlertsFinite
<1> HIDE DEF all0
<1>4. Cardinality(x4.alerts) = AlertsNamed \/ x4.alerts = all0
  BY <1>1, <1>3, NamedOrFull
<1> QED
  BY <1>2, <1>4

(***************************************************************************)
(* What is collected and told, part by part.                               *)
(***************************************************************************)
LEMMA CollectPart ==
  ASSUME [PartsNext]_all
  PROVE  /\ part' = part
         /\ part = "events" => [E!Next]_(E!vars)
         /\ part = "sentiment" => [Z!Next]_(Z!vars)
         /\ part = "extended hours" => [V!Next]_(V!vars)
         /\ part = "watchlist log" => [L!Next]_(L!vars)
<1> USE DEF PartsNext, all, fields, Alone, LedgerStep, AllocationStep, TunerStep, ScoreStep, WatchlistStep,
        SimulationStep, GateStep, BacktestStep, LayersStep, ScanStep, BrokerStep, EventsStep, ResearchStep,
        EarningsStep, CrowdingStep, HindsightStep, UniverseStep, FundamentalStep, ReplayStep, MacroStep,
        SentimentStep, ExtendedHoursStep, TimetableStep, AccountsStep, SocialStep,
        SelfCheckStep, WatchlistLogStep
<1>1. part' = part
  OBVIOUS
<1>2. part = "events" => [E!Next]_(E!vars)
  BY DEF E!vars
<1>3. part = "sentiment" => [Z!Next]_(Z!vars)
  BY DEF Z!vars
<1>4. part = "extended hours" => [V!Next]_(V!vars)
  BY DEF V!vars
<1>5. part = "watchlist log" => [L!Next]_(L!vars)
  BY DEF L!vars
<1> HIDE DEF PartsNext, all, fields, Alone, LedgerStep, AllocationStep, TunerStep, ScoreStep, WatchlistStep,
        SimulationStep, GateStep, BacktestStep, LayersStep, ScanStep, BrokerStep, EventsStep, ResearchStep,
        EarningsStep, CrowdingStep, HindsightStep, UniverseStep, FundamentalStep, ReplayStep, MacroStep,
        SentimentStep, ExtendedHoursStep, TimetableStep, AccountsStep, SocialStep,
        SelfCheckStep, WatchlistLogStep
<1> QED
  BY <1>1, <1>2, <1>3, <1>4, <1>5

\* Whatever the items and their sources, the signals and the models, the tickers and the
\* watched symbols, and however often the collectors run: an event is announced no more
\* often than its item has dates, a signal is analysed no more often than batches
\* overlap, a held symbol that moved is named and one without bars has its event of the
\* day, and what was announced is logged.  The self-check and the timetable are checked
\* for the one setting they have.
THEOREM CollectedStaysTold ==
  ASSUME FeedSettings, AskSettings, LogSettings, TickerSettings
  PROVE  PartsSpec => [](part \notin {"self-check", "timetable"} => CollectedAndTold)
<1> DEFINE Gathered == /\ part = "events" => FeedSound
                       /\ part = "sentiment" => AskKept
                       /\ part = "watchlist log" => LogKept
                       /\ part = "extended hours" => GapKept /\ TellsKept
<1>1. PartsInit => Gathered
  <2> SUFFICES ASSUME PartsInit PROVE Gathered
    OBVIOUS
  <2>1. /\ part = "events" => E!Init
        /\ part = "sentiment" => Z!Init
        /\ part = "watchlist log" => L!Init
        /\ part = "extended hours" => V!Init
    BY DEF PartsInit
  <2> QED
    BY <2>1, FeedStarts, AskStarts, LogStarts, GapStarts, TellsStart
<1>2. Gathered /\ [PartsNext]_all => Gathered'
  <2> SUFFICES ASSUME Gathered, [PartsNext]_all PROVE Gathered'
    OBVIOUS
  <2>1. /\ part' = part
        /\ part = "events" => [E!Next]_(E!vars)
        /\ part = "sentiment" => [Z!Next]_(Z!vars)
        /\ part = "extended hours" => [V!Next]_(V!vars)
        /\ part = "watchlist log" => [L!Next]_(L!vars)
    BY CollectPart
  <2> QED
    BY <2>1, FeedTells, AskStep, LogStep, GapStep, TellsStep
<1>3. Gathered => (part \notin {"self-check", "timetable"} => CollectedAndTold)
  <2> SUFFICES ASSUME Gathered, part \notin {"self-check", "timetable"} PROVE CollectedAndTold
    OBVIOUS
  <2>1. part = "extended hours" => V!WatchedOutside
    BY MovesAreTold, GapIsTold DEF V!WatchedOutside
  <2> QED
    BY <2>1, AlertsOnce, AskedOnce, LogIsSound DEF CollectedAndTold
<1> QED
  BY <1>1, <1>2, <1>3, PTL DEF PartsSpec
================================================================================
