---------------------------- MODULE TradingProofs ----------------------------
(***************************************************************************)
(* The ledger, the layers and the tuner, for any rows, prices, threads and *)
(* settings: the ledger (how often a year is rebalanced, what the derived  *)
(* cash is worth, what a snapshot counts when rows are closed between its  *)
(* reads), the exit layers and the weight tuner.                           *)
(***************************************************************************)
EXTENDS PartsProofs

(***************************************************************************)
(* The calendar.  A rebalance under way has not been stamped yet, and only *)
(* a fault ends one without its stamp.                                     *)
(***************************************************************************)
Unstamped == {"idle", "open", "closed", "prices", "sums"}   \* no order is planned yet
Pending == IF stamped = year \/ core.rebal THEN 1 ELSE 0
Stamping ==
  /\ DOMAIN pc = Threads /\ {"rebal", "year"} \subseteq DOMAIN core
  /\ rebalances \in Nat /\ faults \in Nat /\ stamped \in Nat /\ year \in Nat
  /\ pc[Core] # "idle" => core.year = year
  /\ pc[Core] \in Unstamped => ~core.rebal
  /\ Band = 0 => rebalances <= faults + Pending

\* What no step but a plan, a stamp, a fault and a new year changes.
CoreGoesOn ==
  /\ DOMAIN pc' = Threads /\ {"rebal", "year"} \subseteq DOMAIN core'
  /\ pc'[Core] \in Unstamped => pc[Core] \in Unstamped
  /\ pc'[Core] # "idle" => pc[Core] # "idle" /\ core'.year = core.year
  /\ core'.rebal = core.rebal
  /\ UNCHANGED <<stamped, year, rebalances, faults>>

LEMMA GoingOn == Stamping /\ CoreGoesOn => Stamping'
BY DEF Stamping, CoreGoesOn, Pending

LEMMA StampingStep == Stamping /\ [Next]_vars => Stamping'
<1> SUFFICES ASSUME Stamping, [Next]_vars PROVE Stamping'
  OBVIOUS
<1> USE DEF tableVars, envVars
<1>c. Core \in Threads /\ Core \notin Generators
  BY ThreadsAssumption DEF Threads, Generators
<1>t. DOMAIN pc = Threads /\ {"rebal", "year"} \subseteq DOMAIN core
  BY DEF Stamping
<1>1. ASSUME NEW t \in Threads, Generate(t) \/ ReadClosed(t) PROVE Stamping'
  <2>1. CoreGoesOn
    BY <1>1, <1>c, <1>t DEF Generate, ReadOpen, Download, InsertSnapshot, ReadClosed, CoreGoesOn, Unstamped,
         Generators, Threads
  <2> QED
    BY <2>1, GoingOn
<1>2. ASSUME NEW down \in SUBSET Threads, Stop(down) PROVE Stamping'
  <2>1. /\ faults' = faults + 1 /\ UNCHANGED <<stamped, year, rebalances>>
        /\ DOMAIN pc' = Threads /\ pc'[Core] = (IF Core \in down THEN "idle" ELSE pc[Core])
        /\ core' = IF Core \in down THEN AtRest ELSE core
    BY <1>2, <1>c DEF Stop
  <2>2. {"rebal", "year"} \subseteq DOMAIN AtRest /\ ~AtRest.rebal
    BY DEF AtRest
  <2> QED
    BY <2>1, <2>2 DEF Stamping, Pending
<1>3. CASE CoreStart
  <2>1. /\ pc'[Core] = "open" /\ DOMAIN pc' = Threads
        /\ {"rebal", "year"} \subseteq DOMAIN core' /\ ~core'.rebal /\ core'.year = year
        /\ pc[Core] = "idle" /\ UNCHANGED <<stamped, year, rebalances, faults>>
    BY <1>3, <1>c, <1>t DEF CoreStart, CoreStep, AtRest
  <2> QED
    BY <2>1 DEF Stamping, Pending, Unstamped
\* A rebalance begins only when the year has no stamp.
<1>4. CASE Plan
  <2>1. PICK rebal \in BOOLEAN :
          /\ pc[Core] = "sums" /\ DOMAIN pc' = Threads
          /\ Band = 0 /\ rebal => stamped < core.year
          /\ UNCHANGED <<year, faults>>
          /\ \/ /\ stamped' \in {stamped, core.year}
                /\ core' = AtRest /\ pc'[Core] = "idle" /\ UNCHANGED rebalances
             \/ /\ stamped' = stamped
                /\ {"rebal", "year"} \subseteq DOMAIN core' /\ core'.rebal = rebal /\ core'.year = core.year
                /\ rebalances' = (IF rebal THEN rebalances + 1 ELSE rebalances)
                /\ pc'[Core] = "order"
    <3>1. PICK cash \in {CashRead(Core)}, held \in {HeldBy} :
          \E rebal \in {Rebalance(cash)} :
          \E orders \in {PlanCore(held, cash, rebal)} :
            /\ stamped' = DateIf(orders = {}, rebal)
            /\ IF orders = {}
               THEN /\ core' = AtRest
                    /\ CoreStep("idle")
                    /\ UNCHANGED rebalances
               ELSE /\ core' = [core EXCEPT !.orders = orders, !.rebal = rebal]
                    /\ rebalances' = IF rebal THEN rebalances + 1 ELSE rebalances
                    /\ CoreStep("order")
      BY <1>4 DEF Plan
    <3>2. Rebalance(cash) \in BOOLEAN
      BY DEF Rebalance
    <3>3. Band = 0 /\ Rebalance(cash) => stamped < core.year
      BY DEF Rebalance, Drifted
    <3>4. pc[Core] = "sums"
      BY <1>4 DEF Plan
    <3> WITNESS Rebalance(cash) \in BOOLEAN
    <3>5. PICK orders : 
            /\ stamped' = DateIf(orders = {}, Rebalance(cash))
            /\ IF orders = {}
               THEN /\ core' = AtRest
                    /\ CoreStep("idle")
                    /\ UNCHANGED rebalances
               ELSE /\ core' = [core EXCEPT !.orders = orders, !.rebal = Rebalance(cash)]
                    /\ rebalances' = IF Rebalance(cash) THEN rebalances + 1 ELSE rebalances
                    /\ CoreStep("order")
      BY <3>1
    <3>6. CASE orders = {}
      BY <3>3, <3>4, <3>5, <3>6, <1>c, <1>t DEF CoreStep, DateIf
    <3>7. CASE orders # {}
      BY <3>2, <3>3, <3>4, <3>5, <3>7, <1>c, <1>t DEF CoreStep, DateIf
    <3> QED
      BY <3>6, <3>7
  <2>2. {"rebal", "year"} \subseteq DOMAIN AtRest /\ ~AtRest.rebal
    BY DEF AtRest
  <2>3. ~core.rebal /\ core.year = year
    BY <2>1 DEF Stamping, Unstamped
  <2> QED
    BY <2>1, <2>2, <2>3 DEF Stamping, Pending, Unstamped
<1>5. CASE TakeSell \/ SellLot \/ SellTrade \/ SellDone \/ BuyLot \/ BuyTrade
  <2>1. /\ pc[Core] \notin Unstamped /\ pc'[Core] \notin Unstamped /\ DOMAIN pc' = Threads
        /\ UNCHANGED <<stamped, year, rebalances, faults>>
    BY <1>5, <1>c, <1>t DEF TakeSell, SellLot, SellTrade, SellDone, BuyLot, BuyTrade, CoreStep, Unstamped
  <2>2. {"rebal", "year"} \subseteq DOMAIN core' /\ core'.rebal = core.rebal /\ core'.year = core.year
    BY <1>5, <1>t DEF TakeSell, SellLot, SellTrade, SellDone, BuyLot, BuyTrade, NextOrder
  <2>3. CoreGoesOn
    BY <2>1, <2>2 DEF CoreGoesOn, Unstamped
  <2> QED
    BY <2>3, GoingOn
<1>6. CASE Stamp
  <2>1. /\ pc[Core] = "order" /\ pc'[Core] = "idle" /\ DOMAIN pc' = Threads /\ core' = AtRest
        /\ stamped' = (IF core.rebal THEN core.year ELSE stamped)
        /\ UNCHANGED <<year, rebalances, faults>>
    BY <1>6, <1>c, <1>t DEF Stamp, CoreStep
  <2>2. {"rebal", "year"} \subseteq DOMAIN AtRest /\ ~AtRest.rebal
    BY DEF AtRest
  <2> QED
    BY <2>1, <2>2 DEF Stamping, Pending
<1>7. CASE NextYear
  <2>1. /\ pc[Core] = "idle" /\ year' = year + 1 /\ rebalances' = 0
        /\ UNCHANGED <<pc, core, stamped, faults>>
    BY <1>7 DEF NextYear
  <2> QED
    BY <2>1 DEF Stamping, Pending
<1>8. CASE (\E s \in Syms : \/ \E side \in {"BUY", "HEDGE"} : Buy(s, side)
                            \/ \E p \in Prices : MovePrice(s, p))
           \/ (\E r \in Rows : Sell(r) \/ SellPart(r)) \/ (\E a \in Events : CapitalEvent(a))
           \/ UNCHANGED vars
  <2>1. UNCHANGED <<pc, core, stamped, year, rebalances, faults>>
    BY <1>8 DEF Buy, MovePrice, Sell, SellPart, CapitalEvent, Change, vars
  <2> QED
    BY <2>1 DEF Stamping, Pending
<1> QED
  BY <1>1, <1>2, <1>3, <1>4, <1>5, <1>6, <1>7, <1>8 DEF Next, Allocate, Others, Fault, Restart

\* A year is rebalanced once, and again only after a run that was cut off before the
\* date of the rebalance was written (_job_core_allocate).
THEOREM OneRebalanceAYear == Spec => []RebalancesBounded
<1>1. Init => Stamping
  BY ThreadsAssumption DEF Init, Stamping, Pending, AtRest, Threads, Unstamped
<1>2. Stamping => RebalancesBounded
  BY DEF Stamping, Pending, RebalancesBounded
<1> QED
  BY <1>1, <1>2, StampingStep, PTL DEF Spec

(***************************************************************************)
(* What the tables and the core job hold.                                  *)
(***************************************************************************)
States == {"free", "open", "closed"}
Sides  == {"BUY", "HEDGE", "CORE"}
AnyRow    == [state : States, sym : Syms \cup {0}, side : Sides, qty : Int, entry : Int, gain : Int]
Used(row) == row \in AnyRow /\ (row.state # "free" => row.sym \in Syms)

Tables ==
  /\ rows \in [Rows -> AnyRow] /\ \A r \in Rows : Used(rows[r])
  /\ price \in [Syms -> Prices]
  /\ comm \in Int /\ adj \in Int /\ paid \in Int /\ lost \in Int

Fields == {"lots", "px", "orders", "sym", "queue", "need", "qty"}
Job ==
  /\ DOMAIN pc = Threads /\ Fields \subseteq DOMAIN core
  /\ pc[Core] # "idle" => core.px \in [Syms -> Prices]
  /\ DOMAIN core.lots \subseteq Rows /\ \A r \in DOMAIN core.lots : Used(core.lots[r])
  /\ core.need \in Int /\ core.qty \in Int /\ core.queue \subseteq DOMAIN core.lots
  /\ \A o \in core.orders : o.sym \in Syms /\ o.usd \in Int
  /\ pc[Core] \in {"sell", "selltrade", "buytrade"} => core.sym \in Syms

Remembering ==
  /\ DOMAIN mem = Threads
  /\ \A t \in Threads :
       /\ {"open", "gain", "truth", "twice"} \subseteq DOMAIN mem[t]
       /\ DOMAIN mem[t].open \subseteq Rows
       /\ \A r \in DOMAIN mem[t].open : mem[t].open[r] \in AnyRow
       /\ mem[t].gain \in Int

LEMMA NearestInt == \A a \in Int, b \in Nat \ {0} : Nearest(a, b) \in Int
BY DEF Nearest

LEMMA FeeInt == \A a \in Int : Fee(a) \in Int
BY NearestInt, AmountsAssumption DEF Fee

LEMMA PricesNat == \A p \in Prices : p \in Nat \ {0} /\ p \in Int /\ p > 0
BY SetsAssumption

LEMMA SumIsInt ==
  ASSUME NEW sub, IsFiniteSet(sub), NEW f \in [sub -> Int]
  PROVE  Sum(f) \in Int
<1>1. SumOver(sub, f) \in Int
  BY SumInt
<1>2. [w \in sub |-> f[w]] = f
  OBVIOUS
<1> QED
  BY <1>1, <1>2, Zenon DEF SumOver

LEMMA CostInt ==
  ASSUME NEW f, DOMAIN f \subseteq Rows, \A r \in DOMAIN f : f[r] \in AnyRow
  PROVE  Cost(f) \in Int
<1>1. [r \in DOMAIN f |-> f[r].qty * f[r].entry] \in [DOMAIN f -> Int]
  BY DEF AnyRow
<1>2. IsFiniteSet(DOMAIN f)
  BY SetsAssumption, FS_Subset
<1> QED
  BY <1>1, <1>2, SumIsInt DEF Cost

LEMMA GainsInt == Tables => Gains \in Int
<1> SUFFICES ASSUME Tables PROVE Gains \in Int
  OBVIOUS
<1>1. [r \in In("closed") |-> rows[r].gain] \in [In("closed") -> Int]
  BY DEF Tables, AnyRow, In
<1>2. IsFiniteSet(In("closed"))
  BY SetsAssumption, FS_Subset DEF In
<1> QED
  BY <1>1, <1>2, SumIsInt DEF Gains

LEMMA HeldInt == Job /\ pc[Core] # "idle" => HeldBy \in [Syms -> Int]
<1> SUFFICES ASSUME Job, pc[Core] # "idle", NEW s \in Syms PROVE Held(s) \in Int
  BY DEF HeldBy
<1> DEFINE dom == {q \in DOMAIN core.lots : core.lots[q].sym = s}
<1>1. IsFiniteSet(dom)
  BY SetsAssumption, FS_Subset DEF Job
<1>2. core.px[s] \in Int
  <2>1. core.px \in [Syms -> Prices]
    BY Zenon DEF Job
  <2> QED
    BY <2>1, PricesNat
<1>3. \A r \in dom : core.lots[r].qty \in Int
  <2>1. \A r \in dom : core.lots[r] \in AnyRow
    BY Zenon DEF Job, Used
  <2> QED
    BY <2>1 DEF AnyRow
<1>4. [r \in dom |-> core.lots[r].qty * core.px[s]] \in [dom -> Int]
  BY <1>2, <1>3
<1> QED
  BY <1>1, <1>4, SumIsInt, Zenon DEF Held

\* The amounts of a plan are whole numbers.
LEMMA PlanTyped ==
  ASSUME NEW held \in [Syms -> Int], NEW cash \in Int, NEW rebal
  PROVE  \A o \in PlanCore(held, cash, rebal) : o.sym \in Syms /\ o.usd \in Int
<1> DEFINE short == Short(held, cash)
           sold  == IF rebal THEN Sold(short) ELSE {}
           avail == Available(short, cash, sold)
           buys  == Buys(short, avail, sold)
<1>t. Targeted \subseteq Syms /\ IsFiniteSet(Targeted) /\ \A s \in Syms : Target[s] \in Int
  BY SetsAssumption, FS_Subset DEF Targeted
<1>1. short \in [Syms -> Int]
  <2>1. Sum(held) \in Int
    BY SumIsInt, SetsAssumption
  <2>2. cash + Sum(held) - Reserve \in Int
    BY <2>1, AmountsAssumption
  <2> HIDE DEF short
  <2>3. short = [s \in Syms |-> (Target[s] * (cash + Sum(held) - Reserve)) \div 100 - held[s]]
    BY DEF short, Short
  <2> QED
    BY <2>2, <2>3, <1>t
<1> HIDE DEF short
<1>2. sold \subseteq Syms /\ IsFiniteSet(sold)
  BY SetsAssumption, FS_Subset, FS_EmptySet DEF Sold
<1> HIDE DEF sold
<1>3. avail \in Int
  <2>1. [s \in sold |-> (-short[s] * (RateDen - 1)) \div RateDen] \in [sold -> Int]
    BY <1>1, <1>2, AmountsAssumption
  <2>2. Sum([s \in sold |-> (-short[s] * (RateDen - 1)) \div RateDen]) \in Int
    BY <1>2, <2>1, SumIsInt
  <2> QED
    BY <2>2, AmountsAssumption DEF Available
<1> HIDE DEF avail
<1>4. buys \in [Targeted -> Int]
  <2> DEFINE gaps == [s \in Targeted |-> IF s \in sold THEN 0 ELSE Above0(short[s])]
             g == Sum(gaps)
  <2>1. gaps \in [Targeted -> Int]
    BY <1>1, <1>t DEF Above0
  <2>2. g \in Int
    BY <2>1, <1>t, SumIsInt
  <2>3. buys = IF avail < MinNotional THEN [s \in Targeted |-> 0]
               ELSE IF g > avail THEN [s \in Targeted |-> (avail * gaps[s]) \div g]
               ELSE [s \in Targeted |-> gaps[s] + ((avail - g) * Target[s]) \div 100]
    BY DEF Buys
  <2> HIDE DEF gaps, g, buys
  <2>4. CASE avail < MinNotional
    BY <2>3, <2>4
  <2>5. CASE ~(avail < MinNotional) /\ g > avail
    <3>1. g > 0
      BY <2>2, <2>5, <1>3, AmountsAssumption
    <3>2. \A s \in Targeted : (avail * gaps[s]) \div g \in Int
      BY <1>3, <2>1, <2>2, <3>1
    <3> QED
      BY <2>3, <2>5, <3>2
  <2>6. CASE ~(avail < MinNotional) /\ ~(g > avail)
    <3>1. \A s \in Targeted : gaps[s] + ((avail - g) * Target[s]) \div 100 \in Int
      BY <1>3, <2>1, <2>2, <1>t
    <3> QED
      BY <2>3, <2>6, <3>1
  <2> QED
    BY <2>4, <2>5, <2>6
<1>5. PlanCore(held, cash, rebal) = Orders("SELL", [s \in sold |-> -short[s]], sold)
                                    \cup Orders("BUY", buys, {s \in Targeted : buys[s] >= 1})
  BY DEF PlanCore, short, sold, avail
<1> HIDE DEF buys
<1> QED
  BY <1>1, <1>2, <1>4, <1>5, <1>t DEF Orders

(***************************************************************************)
(* What the rows are worth to the cash: the gains of the closed ones less  *)
(* the cost of the open ones, and what a step does to one row.             *)
(***************************************************************************)
Being(book, state) == {r \in Rows : book[r].state = state}
GainsOf(book) == [r \in Rows |-> book[r].gain]
CostsOf(book) == [r \in Rows |-> book[r].qty * book[r].entry]
Balance(book) == SumOver(Being(book, "closed"), GainsOf(book)) - SumOver(Being(book, "open"), CostsOf(book))

RowCost(row) == row.qty * row.entry
Worth(row) == (IF row.state = "closed" THEN row.gain ELSE 0) - (IF row.state = "open" THEN RowCost(row) ELSE 0)

RowsTyped(book) == book \in [Rows -> AnyRow] /\ \A r \in Rows : Used(book[r])

LEMMA RowNumbers ==
  ASSUME NEW book, RowsTyped(book)
  PROVE  \A r \in Rows : GainsOf(book)[r] \in Int /\ CostsOf(book)[r] \in Int /\ RowCost(book[r]) \in Int
                         /\ book[r].gain \in Int /\ book[r].qty \in Int /\ book[r].entry \in Int /\ Worth(book[r]) \in Int
BY DEF RowsTyped, Used, AnyRow, GainsOf, CostsOf, RowCost, Worth

Put(book, r, row) == [book EXCEPT ![r] = row]

\* A balance b after one row took the place of another.
Swapped(b, old, new) == b - Worth(old) + Worth(new)

LEMMA UsedWorth == \A row : Used(row) => Worth(row) \in Int
BY DEF Used, AnyRow, Worth, RowCost

LEMMA RowPut ==
  ASSUME NEW book, RowsTyped(book), NEW c \in Rows, NEW row, Used(row)
  PROVE  /\ RowsTyped(Put(book, c, row))
         /\ Balance(book) \in Int /\ Balance(Put(book, c, row)) \in Int
         /\ Balance(Put(book, c, row)) = Swapped(Balance(book), book[c], row)
<1> DEFINE anew == [book EXCEPT ![c] = row]
<1>1. RowsTyped(anew)
  BY DEF RowsTyped, Used
<1>2. anew[c] = row /\ \A r \in Rows \ {c} : anew[r] = book[r]
  BY DEF RowsTyped
<1> HIDE DEF anew
<1>f. IsFiniteSet(Rows)
  BY SetsAssumption
<1>3. \A state : Being(book, state) \in SUBSET Rows /\ Being(anew, state) \in SUBSET Rows
                 /\ Being(book, state) \ {c} = Being(anew, state) \ {c}
  BY <1>2 DEF Being
<1>4. \A r \in Rows : /\ GainsOf(book)[r] \in Int /\ CostsOf(book)[r] \in Int
                      /\ GainsOf(anew)[r] \in Int /\ CostsOf(anew)[r] \in Int
  BY <1>1, RowNumbers
<1>5. \A r \in Rows \ {c} : GainsOf(book)[r] = GainsOf(anew)[r] /\ CostsOf(book)[r] = CostsOf(anew)[r]
  BY <1>2 DEF GainsOf, CostsOf
<1>6. /\ SumOver(Being(book, "closed"), GainsOf(book)) \in Int /\ SumOver(Being(anew, "closed"), GainsOf(anew)) \in Int
      /\ SumOver(Being(anew, "closed"), GainsOf(anew)) = SumOver(Being(book, "closed"), GainsOf(book))
           - Addend(Being(book, "closed"), GainsOf(book), c) + Addend(Being(anew, "closed"), GainsOf(anew), c)
  <2> DEFINE left == Being(book, "closed")
             right == Being(anew, "closed")
             f == GainsOf(book)
             g == GainsOf(anew)
  <2>1. left \in SUBSET Rows /\ right \in SUBSET Rows /\ left \ {c} = right \ {c}
    BY <1>3, Zenon
  <2>2. (\A w \in left : f[w] \in Int) /\ (\A w \in right : g[w] \in Int)
    BY <1>4, <2>1
  <2>3. \A w \in left \ {c} : f[w] = g[w]
    BY <1>5, <2>1
  <2> HIDE DEF left, right, f, g
  <2>4. SumOver(left, f) \in Int /\ SumOver(right, g) \in Int
    BY <1>f, <2>1, <2>2, <2>3, SumMoved
  <2>5. SumOver(right, g) = SumOver(left, f) - Addend(left, f, c) + Addend(right, g, c)
    BY <1>f, <2>1, <2>2, <2>3, SumMoved
  <2> QED
    BY <2>4, <2>5, Zenon DEF left, right, f, g
<1>7. /\ SumOver(Being(book, "open"), CostsOf(book)) \in Int /\ SumOver(Being(anew, "open"), CostsOf(anew)) \in Int
      /\ SumOver(Being(anew, "open"), CostsOf(anew)) = SumOver(Being(book, "open"), CostsOf(book))
           - Addend(Being(book, "open"), CostsOf(book), c) + Addend(Being(anew, "open"), CostsOf(anew), c)
  <2> DEFINE left == Being(book, "open")
             right == Being(anew, "open")
             f == CostsOf(book)
             g == CostsOf(anew)
  <2>1. left \in SUBSET Rows /\ right \in SUBSET Rows /\ left \ {c} = right \ {c}
    BY <1>3, Zenon
  <2>2. (\A w \in left : f[w] \in Int) /\ (\A w \in right : g[w] \in Int)
    BY <1>4, <2>1
  <2>3. \A w \in left \ {c} : f[w] = g[w]
    BY <1>5, <2>1
  <2> HIDE DEF left, right, f, g
  <2>4. SumOver(left, f) \in Int /\ SumOver(right, g) \in Int
    BY <1>f, <2>1, <2>2, <2>3, SumMoved
  <2>5. SumOver(right, g) = SumOver(left, f) - Addend(left, f, c) + Addend(right, g, c)
    BY <1>f, <2>1, <2>2, <2>3, SumMoved
  <2> QED
    BY <2>4, <2>5, Zenon DEF left, right, f, g
<1>10. /\ GainsOf(book)[c] = book[c].gain /\ CostsOf(book)[c] = RowCost(book[c])
       /\ GainsOf(anew)[c] = row.gain /\ CostsOf(anew)[c] = RowCost(row)
       /\ book[c].gain \in Int /\ RowCost(book[c]) \in Int /\ row.gain \in Int /\ RowCost(row) \in Int
  BY <1>1, <1>2, RowNumbers DEF GainsOf, CostsOf, RowCost
<1>11. /\ c \in Being(book, "closed") <=> book[c].state = "closed"
       /\ c \in Being(book, "open") <=> book[c].state = "open"
       /\ c \in Being(anew, "closed") <=> row.state = "closed"
       /\ c \in Being(anew, "open") <=> row.state = "open"
  BY <1>2 DEF Being
<1>12. /\ RowsTyped(anew) /\ Balance(book) \in Int /\ Balance(anew) \in Int
       /\ Balance(anew) = Swapped(Balance(book), book[c], row)
  BY <1>1, <1>6, <1>7, <1>10, <1>11 DEF Balance, Worth, Addend, Swapped
<1> QED
  BY <1>12, Zenon DEF Put, anew

\* The derived cash is the capital, less the commissions, and the balance of the rows.
LEMMA CashBalance ==
  Tables => Cash = Initial + adj - comm + Balance(rows) /\ Balance(rows) \in Int
<1> SUFFICES ASSUME Tables PROVE Cash = Initial + adj - comm + Balance(rows) /\ Balance(rows) \in Int
  OBVIOUS
<1>1. Gains = SumOver(Being(rows, "closed"), GainsOf(rows))
  <2>1. [r \in In("closed") |-> rows[r].gain] = [r \in Being(rows, "closed") |-> GainsOf(rows)[r]]
    BY DEF In, Being, GainsOf
  <2> QED
    BY <2>1, Zenon DEF Gains, SumOver
<1>2. Cost(OpenRows) = SumOver(Being(rows, "open"), CostsOf(rows))
  <2>1. [r \in DOMAIN OpenRows |-> OpenRows[r].qty * OpenRows[r].entry] = [r \in Being(rows, "open") |-> CostsOf(rows)[r]]
    BY DEF In, Being, CostsOf, OpenRows
  <2> QED
    BY <2>1, Zenon DEF Cost, SumOver
<1>3. RowsTyped(rows)
  BY DEF Tables, RowsTyped
<1>4. SumOver(Being(rows, "closed"), GainsOf(rows)) \in Int /\ SumOver(Being(rows, "open"), CostsOf(rows)) \in Int
  <2>1. IsFiniteSet(Being(rows, "closed")) /\ IsFiniteSet(Being(rows, "open"))
    BY SetsAssumption, FS_Subset DEF Being
  <2>2. \A r \in Rows : GainsOf(rows)[r] \in Int /\ CostsOf(rows)[r] \in Int
    BY <1>3, RowNumbers
  <2> QED
    BY <2>1, <2>2, SumInt DEF Being
<1> QED
  BY <1>1, <1>2, <1>4, AmountsAssumption DEF Cash, CashOf, Balance, Tables

Books == paid = Initial + adj - comm + lost + Balance(rows)

\* A step that puts one row and moves as much cash as the row is worth.
LEMMA RowBooked ==
  ASSUME Tables, Books, price' = price, NEW c \in Rows, NEW row, Used(row),
         rows' = [rows EXCEPT ![c] = row],
         comm' \in Int, adj' \in Int, lost' \in Int, paid' \in Int,
         paid' - adj' + comm' - lost' = paid - adj + comm - lost - Worth(rows[c]) + Worth(row)
  PROVE  Tables' /\ Books'
<1>1. RowsTyped(rows)
  BY DEF Tables, RowsTyped
<1>2. /\ RowsTyped(rows') /\ Balance(rows) \in Int /\ Balance(rows') \in Int
      /\ Balance(rows') = Swapped(Balance(rows), rows[c], row)
  BY <1>1, RowPut DEF Put
<1>3. Tables'
  BY <1>2 DEF Tables, RowsTyped
<1>4. Worth(rows[c]) \in Int /\ Worth(row) \in Int
  BY <1>1, RowNumbers DEF Worth, RowCost, Used, AnyRow
<1>5. paid \in Int /\ adj \in Int /\ comm \in Int /\ lost \in Int /\ Initial \in Int
  BY AmountsAssumption DEF Tables
<1>6. paid' = Initial + adj' - comm' + lost' + Balance(rows')
  BY <1>2, <1>4, <1>5 DEF Books, Swapped
<1> QED
  BY <1>3, <1>6 DEF Books

\* A step that leaves the rows alone.
LEMMA CashBooked ==
  ASSUME Tables, Books, price' \in [Syms -> Prices], rows' = rows,
         comm' \in Int, adj' \in Int, lost' \in Int, paid' \in Int,
         paid' - adj' + comm' - lost' = paid - adj + comm - lost
  PROVE  Tables' /\ Books'
<1>1. Tables'
  BY DEF Tables
<1>2. Balance(rows) \in Int
  BY CashBalance
<1>3. paid' = Initial + adj' - comm' + lost' + Balance(rows)
  BY <1>2, AmountsAssumption DEF Tables, Books
<1> QED
  BY <1>1, <1>3 DEF Books

Booked == Tables /\ Books /\ Job

LEMMA FeeForInt == \A side : \A a \in Int : FeeFor(side, a) \in Int
BY FeeInt DEF FeeFor

LEMMA PriceInt ==
  ASSUME Tables, NEW s \in Syms PROVE price[s] \in Int /\ price[s] \in Nat \ {0}
BY PricesNat DEF Tables

LEMMA UsedNumbers == \A row : Used(row) => /\ row.qty \in Int /\ row.entry \in Int /\ row.gain \in Int
                                           /\ row.sym \in Syms \cup {0} /\ (row.state # "free" => row.sym \in Syms)
BY DEF Used, AnyRow

\* What opening and closing make of a row.
LEMMA OpenedRow ==
  ASSUME NEW s \in Syms, NEW side \in Sides, NEW n \in Int, NEW p \in Int
  PROVE  Used(Opened(s, side, n, p)) /\ Worth(Opened(s, side, n, p)) = -(n * p)
BY DEF Opened, Used, AnyRow, States, Worth, RowCost

LEMMA ClosedRow ==
  ASSUME NEW row, Used(row), row.state = "open", NEW p \in Int
  PROVE  Used(Closed(row, p)) /\ Worth(Closed(row, p)) = (p - row.entry) * row.qty
<1> DEFINE gain == (p - row.entry) * row.qty
<1>1. gain \in Int
  BY UsedNumbers
<1>2. Closed(row, p) = [row EXCEPT !.state = "closed", !.gain = gain]
  BY Zenon DEF Closed
<1> HIDE DEF gain
<1>3. Used(Closed(row, p)) /\ Closed(row, p).state = "closed" /\ Closed(row, p).gain = gain
  BY <1>1, <1>2 DEF Used, AnyRow, States
<1>4. Worth(Closed(row, p)) = gain
  BY <1>1, <1>3 DEF Worth
<1> QED
  BY <1>3, <1>4, Zenon DEF gain

LEMMA OpenWorth == \A row : row.state = "open" => Worth(row) = 0 - RowCost(row)
BY DEF Worth

LEMMA FreeWorth == \A row : row.state = "free" => Worth(row) = 0
BY DEF Worth

\* Shares that leave a row take their cost along.
LEMMA FewerShares ==
  ASSUME NEW row, Used(row), row.state = "open", NEW n \in Int, NEW gain \in Int,
         NEW new, new = [row EXCEPT !.qty = row.qty - n, !.gain = gain]
  PROVE  Used(new) /\ Worth(new) = Worth(row) + n * row.entry
<1>1. row.qty \in Int /\ row.entry \in Int /\ row.qty - n \in Int
  BY UsedNumbers
<1>2. Used(new) /\ new.state = "open" /\ new.qty = row.qty - n /\ new.entry = row.entry
  BY <1>1 DEF Used, AnyRow
<1>3. Worth(new) = 0 - (row.qty - n) * row.entry /\ Worth(row) = 0 - row.qty * row.entry
  BY <1>2, OpenWorth DEF RowCost
<1>4. (row.qty - n) * row.entry = row.qty * row.entry - n * row.entry
  BY <1>1
<1>5. row.qty * row.entry \in Int /\ n * row.entry \in Int
  BY <1>1
<1> QED
  BY <1>2, <1>3, <1>4, <1>5

LEMMA GainInParts ==
  \A p \in Int, e \in Int, n \in Int :
    (p - e) * n = n * p - n * e /\ n * p \in Int /\ n * e \in Int /\ (p - e) * n \in Int
OBVIOUS

LEMMA BuyBooked ==
  ASSUME Tables, Books, NEW s \in Syms, NEW side \in {"BUY", "HEDGE"}, Buy(s, side)
  PROVE  Tables' /\ Books'
<1> DEFINE fee == FeeFor(side, Lot * price[s])
           cost == Lot * price[s]
<1>1. price[s] \in Int /\ Lot \in Int /\ cost \in Int
  BY PriceInt, AmountsAssumption
<1>2. fee \in Int
  BY <1>1, FeeForInt, Zenon
<1>3. PICK r \in Rows : NextRow(r) /\ rows' = [rows EXCEPT ![r] = Opened(s, side, Lot, price[s])]
  BY DEF Buy
<1>4. Used(Opened(s, side, Lot, price[s])) /\ Worth(Opened(s, side, Lot, price[s])) = -cost
  BY <1>1, OpenedRow DEF Sides
<1>5. Worth(rows[r]) = 0
  BY <1>3, FreeWorth DEF NextRow
<1>6. comm' = comm + fee /\ paid' = paid - cost - fee /\ adj' = adj /\ lost' = lost /\ price' = price
  BY DEF Buy
<1> HIDE DEF fee, cost
<1>7. /\ comm' \in Int /\ adj' \in Int /\ lost' \in Int /\ paid' \in Int
      /\ paid' - adj' + comm' - lost' = paid - adj + comm - lost - 0 + (-cost)
  BY <1>1, <1>2, <1>6 DEF Tables
<1> QED
  BY <1>3, <1>4, <1>5, <1>6, <1>7, RowBooked

LEMMA SellBooked ==
  ASSUME Tables, Books, NEW r \in Rows, Sell(r)
  PROVE  Tables' /\ Books'
<1> DEFINE p == price[rows[r].sym]
           fee == FeeFor(rows[r].side, rows[r].qty * p)
           n == rows[r].qty
           e == rows[r].entry
<1>1. Used(rows[r]) /\ rows[r].state = "open"
  BY DEF Sell, Tables
<1>2. p \in Int /\ n \in Int /\ e \in Int /\ n * p \in Int
  BY <1>1, UsedNumbers, PriceInt
<1>3. fee \in Int
  BY <1>2, FeeForInt, Zenon
<1>4. rows' = [rows EXCEPT ![r] = Closed(rows[r], p)]
  BY DEF Sell
<1>5. Used(Closed(rows[r], p)) /\ Worth(Closed(rows[r], p)) = (p - e) * n
  BY <1>1, <1>2, ClosedRow
<1>6. Worth(rows[r]) = 0 - n * e
  BY <1>1, OpenWorth DEF RowCost
<1>7. comm' = comm + fee /\ paid' = paid + n * p - fee /\ adj' = adj /\ lost' = lost /\ price' = price
  BY DEF Sell
<1> HIDE DEF fee, p, n, e
<1>8. (p - e) * n = n * p - n * e /\ n * p \in Int /\ n * e \in Int
  BY <1>2, GainInParts
<1>9. /\ comm' \in Int /\ adj' \in Int /\ lost' \in Int /\ paid' \in Int
      /\ paid' - adj' + comm' - lost' = paid - adj + comm - lost - (0 - n * e) + (p - e) * n
  BY <1>3, <1>7, <1>8 DEF Tables
<1> QED
  BY <1>4, <1>5, <1>6, <1>7, <1>9, RowBooked

LEMMA SellPartBooked ==
  ASSUME Tables, Books, NEW r \in Rows, SellPart(r)
  PROVE  Tables' /\ Books'
<1> DEFINE p == price[rows[r].sym]
           n == rows[r].qty \div 2
           e == rows[r].entry
           fee == Fee(n * p)
           g == (p - e) * n
           new == [rows[r] EXCEPT !.qty = rows[r].qty - n, !.gain = rows[r].gain + g]
<1>1. Used(rows[r]) /\ rows[r].state = "open"
  BY DEF SellPart, Tables
<1>2. p \in Int /\ n \in Int /\ e \in Int /\ n * p \in Int /\ rows[r].gain \in Int
  BY <1>1, UsedNumbers, PriceInt
<1>3. fee \in Int
  BY <1>2, FeeInt, Zenon
<1>4. rows' = [rows EXCEPT ![r] = new]
  BY DEF SellPart, Tables
<1>5. g = n * p - n * e /\ n * e \in Int /\ g \in Int
  BY <1>2, GainInParts
<1>6. comm' = comm + fee /\ paid' = paid + n * p - fee /\ lost' = lost + g /\ adj' = adj /\ price' = price
  BY DEF SellPart
<1> HIDE DEF fee, p, n, e, g
<1>7. Used(new) /\ Worth(new) = Worth(rows[r]) + n * e
  <2>1. rows[r].gain + g \in Int
    BY <1>2, <1>5
  <2> QED
    BY <1>1, <1>2, <2>1, FewerShares, Zenon DEF e
<1>8. Worth(rows[r]) \in Int
  BY <1>1, UsedNumbers DEF Worth, RowCost
<1> HIDE DEF new
<1>9. /\ comm' \in Int /\ adj' \in Int /\ lost' \in Int /\ paid' \in Int
      /\ paid' - adj' + comm' - lost' = paid - adj + comm - lost - Worth(rows[r]) + Worth(new)
  BY <1>2, <1>3, <1>5, <1>6, <1>7, <1>8 DEF Tables
<1> QED
  BY <1>4, <1>6, <1>7, <1>9, RowBooked

LEMMA JobPrice == Job /\ pc[Core] # "idle" => \A s \in Syms : core.px[s] \in Int /\ core.px[s] \in Nat \ {0}
<1> SUFFICES ASSUME Job, pc[Core] # "idle", NEW s \in Syms PROVE core.px[s] \in Int /\ core.px[s] \in Nat \ {0}
  OBVIOUS
<1>1. core.px \in [Syms -> Prices]
  BY Zenon DEF Job
<1> QED
  BY <1>1, PricesNat

\* A part of a lot becomes a closed row of its own: the two rows together are worth the
\* proceeds more.
LEMMA SplitBooked ==
  ASSUME Tables, Books, NEW r \in Rows, rows[r].state = "open", NEW c \in Rows, NextRow(c),
         NEW n \in Int, core.px[rows[r].sym] \in Int, SplitPart(r, n, c), price' = price,
         comm' = comm, adj' = adj, lost' = lost, paid' = paid + n * core.px[rows[r].sym]
  PROVE  Tables' /\ Books'
<1> DEFINE p == core.px[rows[r].sym]
           e == rows[r].entry
           rest == [rows[r] EXCEPT !.qty = rows[r].qty - n, !.gain = rows[r].gain]
           piece == [rows[r] EXCEPT !.qty = n]
<1>1. RowsTyped(rows) /\ Used(rows[r]) /\ rows[r] \in AnyRow
  BY DEF Tables, RowsTyped, Used
<1>2. c # r /\ rows[c].state = "free"
  BY DEF NextRow
<1>3. rows[r].qty \in Int /\ rows[r].gain \in Int /\ e \in Int /\ Worth(rows[r]) \in Int
  BY <1>1, RowNumbers
<1>4. rest = [rows[r] EXCEPT !.qty = rows[r].qty - n]
  BY <1>1 DEF AnyRow
<1>5. Used(rest) /\ Worth(rest) = Worth(rows[r]) + n * e
  BY <1>1, <1>3, FewerShares, Zenon
<1>6. Used(piece) /\ piece.state = "open" /\ piece.qty = n /\ piece.entry = e
  BY <1>1 DEF Used, AnyRow
<1>7. rows' = Put(Put(rows, r, rest), c, Closed(piece, p)) /\ Put(rows, r, rest)[c] = rows[c]
  <2>1. rows' = [rows EXCEPT ![r].qty = rows[r].qty - n, ![c] = Closed(piece, p)]
    BY DEF SplitPart, Tables
  <2> HIDE DEF piece, p
  <2>2. rows' = [[rows EXCEPT ![r] = [rows[r] EXCEPT !.qty = rows[r].qty - n]] EXCEPT ![c] = Closed(piece, p)]
    BY <2>1, <1>1 DEF RowsTyped
  <2> QED
    BY <2>2, <1>1, <1>2, <1>4 DEF Put, RowsTyped
<1> HIDE DEF p, rest, piece
<1>8. Used(Closed(piece, p)) /\ Worth(Closed(piece, p)) = (p - e) * n
  BY <1>6, ClosedRow DEF p
<1>9. /\ RowsTyped(rows') /\ Balance(rows) \in Int /\ Balance(rows') \in Int
      /\ Balance(rows') = Swapped(Swapped(Balance(rows), rows[r], rest), rows[c], Closed(piece, p))
  BY <1>1, <1>5, <1>7, <1>8, RowPut
<1>10. Worth(rows[c]) = 0
  BY <1>2, FreeWorth
<1>11. (p - e) * n = n * p - n * e /\ n * p \in Int /\ n * e \in Int
  BY <1>3, GainInParts DEF p, e
<1> HIDE DEF e
<1>12. Balance(rows') = Balance(rows) + n * p
  BY <1>3, <1>5, <1>8, <1>9, <1>10, <1>11 DEF Swapped
<1>13. paid' = paid + n * p /\ paid' \in Int
  BY <1>11 DEF p, Tables
<1>14. Tables'
  BY <1>9, <1>13 DEF Tables, RowsTyped
<1>15. Books'
  BY <1>9, <1>11, <1>12, <1>13, AmountsAssumption DEF Books, Tables
<1> QED
  BY <1>14, <1>15

LEMMA SellLotBooked ==
  ASSUME Booked, SellLot
  PROVE  Tables' /\ Books'
<1>1. Tables /\ Books /\ Job /\ pc[Core] = "sell"
  BY DEF Booked, SellLot
<1>2. price' = price /\ comm' = comm /\ adj' = adj /\ lost' = lost
  BY DEF SellLot, CoreStep, envVars
<1>3. PICK r \in core.queue :
        LET q == Lesser(core.need, core.lots[r].qty)
            n == Lesser(q, rows[r].qty)
            p == core.px[rows[r].sym]
        IN IF rows[r].state # "open" \/ n = 0
           THEN UNCHANGED <<rows, paid>>
           ELSE /\ IF n = rows[r].qty
                   THEN rows' = [rows EXCEPT ![r] = Closed(@, p)]
                   ELSE \E c \in Rows : NextRow(c) /\ SplitPart(r, n, c)
                /\ paid' = paid + n * p
  BY DEF SellLot
<1> DEFINE q == Lesser(core.need, core.lots[r].qty)
           n == Lesser(q, rows[r].qty)
           p == core.px[rows[r].sym]
           e == rows[r].entry
<1>4. r \in DOMAIN core.lots /\ r \in Rows /\ Used(core.lots[r]) /\ Used(rows[r]) /\ core.need \in Int
  BY <1>1 DEF Job, Tables
<1>5. n \in Int /\ e \in Int
  BY <1>4, UsedNumbers DEF Lesser
<1>6. CASE rows[r].state # "open" \/ n = 0
  <2>1. rows' = rows /\ paid' = paid
    BY <1>3, <1>6
  <2> QED
    BY <1>1, <1>2, <2>1, CashBooked DEF Tables
<1>7. CASE rows[r].state = "open" /\ n # 0 /\ n = rows[r].qty
  <2>1. p \in Int
    BY <1>1, <1>4, <1>7, UsedNumbers, JobPrice
  <2>2. rows' = [rows EXCEPT ![r] = Closed(rows[r], p)] /\ paid' = paid + n * p
    BY <1>1, <1>3, <1>4, <1>7 DEF Tables
  <2>3. Used(Closed(rows[r], p)) /\ Worth(Closed(rows[r], p)) = (p - e) * n /\ Worth(rows[r]) = 0 - n * e
    BY <1>4, <1>7, <2>1, ClosedRow, OpenWorth DEF RowCost
  <2> HIDE DEF q, n, p, e
  <2>4. (p - e) * n = n * p - n * e /\ n * p \in Int /\ n * e \in Int
    BY <1>5, <2>1, GainInParts
  <2>5. /\ comm' \in Int /\ adj' \in Int /\ lost' \in Int /\ paid' \in Int
        /\ paid' - adj' + comm' - lost' = paid - adj + comm - lost - (0 - n * e) + (p - e) * n
    BY <1>1, <1>2, <2>2, <2>4 DEF Tables
  <2> QED
    BY <1>1, <1>2, <1>4, <2>2, <2>3, <2>5, RowBooked
<1>8. CASE rows[r].state = "open" /\ n # 0 /\ n # rows[r].qty
  <2>1. p \in Int
    BY <1>1, <1>4, <1>8, UsedNumbers, JobPrice
  <2>2. (\E c \in Rows : NextRow(c) /\ SplitPart(r, n, c)) /\ paid' = paid + n * p
    BY <1>3, <1>8
  <2> HIDE DEF n
  <2> QED
    BY <1>1, <1>2, <1>4, <1>5, <1>8, <2>1, <2>2, SplitBooked
<1> QED
  BY <1>6, <1>7, <1>8

LEMMA SharesInt == \A usd \in Int, p \in Nat \ {0} : SharesFor(usd, p) \in Int
<1> SUFFICES ASSUME NEW usd \in Int, NEW p \in Nat \ {0} PROVE SharesFor(usd, p) \in Int
  OBVIOUS
<1>1. usd * RateDen \in Int /\ p * (RateDen + 1) \in Nat \ {0}
  BY AmountsAssumption
<1> QED
  BY <1>1, NearestInt DEF SharesFor

LEMMA BuyLotBooked ==
  ASSUME Booked, BuyLot
  PROVE  Tables' /\ Books'
<1>1. Tables /\ Books /\ Job /\ pc[Core] = "order"
  BY DEF Booked, BuyLot
<1>2. price' = price /\ comm' = comm /\ adj' = adj /\ lost' = lost
  BY DEF BuyLot, CoreStep, envVars
<1>3. PICK o \in core.orders :
        IF SharesFor(o.usd, core.px[o.sym]) = 0
        THEN UNCHANGED <<rows, paid>>
        ELSE /\ \E r \in Rows : NextRow(r) /\ rows' = [rows EXCEPT ![r] =
                    Opened(o.sym, "CORE", SharesFor(o.usd, core.px[o.sym]), core.px[o.sym])]
             /\ paid' = paid - SharesFor(o.usd, core.px[o.sym]) * core.px[o.sym]
  BY DEF BuyLot
<1> DEFINE p == core.px[o.sym]
           n == SharesFor(o.usd, p)
<1>4. o.sym \in Syms /\ o.usd \in Int /\ p \in Int /\ n \in Int
  BY <1>1, JobPrice, SharesInt DEF Job
<1>5. CASE n = 0
  BY <1>1, <1>2, <1>3, <1>5, CashBooked DEF Tables
<1>6. CASE n # 0
  <2>1. PICK r \in Rows : NextRow(r) /\ rows' = [rows EXCEPT ![r] = Opened(o.sym, "CORE", n, p)]
    BY <1>3, <1>6
  <2>2. paid' = paid - n * p
    BY <1>3, <1>6
  <2>3. Used(Opened(o.sym, "CORE", n, p)) /\ Worth(Opened(o.sym, "CORE", n, p)) = -(n * p)
    BY <1>4, OpenedRow DEF Sides
  <2>4. Worth(rows[r]) = 0
    BY <2>1, FreeWorth DEF NextRow
  <2>5. n * p \in Int
    BY <1>4
  <2> HIDE DEF n, p
  <2>6. /\ comm' \in Int /\ adj' \in Int /\ lost' \in Int /\ paid' \in Int
        /\ paid' - adj' + comm' - lost' = paid - adj + comm - lost - 0 + (-(n * p))
    BY <1>1, <1>2, <2>2, <2>5 DEF Tables
  <2> QED
    BY <1>1, <1>2, <2>1, <2>3, <2>4, <2>6, RowBooked
<1> QED
  BY <1>5, <1>6

LEMMA FeeBooked ==
  ASSUME Booked, SellTrade \/ BuyTrade
  PROVE  Tables' /\ Books'
<1> DEFINE fee == Fee(core.qty * core.px[core.sym])
<1>1. Tables /\ Books /\ Job /\ pc[Core] \in {"selltrade", "buytrade"}
  BY DEF Booked, SellTrade, BuyTrade
<1>2. core.px[core.sym] \in Int /\ core.qty \in Int
  BY <1>1, JobPrice DEF Job
<1>3. fee \in Int
  BY <1>2, FeeInt
<1>4. price' = price /\ adj' = adj /\ lost' = lost /\ rows' = rows /\ comm' = comm + fee /\ paid' = paid - fee
  BY DEF SellTrade, BuyTrade, CoreStep, envVars
<1> HIDE DEF fee
<1>5. /\ comm' \in Int /\ adj' \in Int /\ lost' \in Int /\ paid' \in Int
      /\ paid' - adj' + comm' - lost' = paid - adj + comm - lost
  BY <1>1, <1>3, <1>4 DEF Tables
<1> QED
  BY <1>1, <1>4, <1>5, CashBooked DEF Tables

\* Every step keeps the books.
LEMMA BookStep ==
  ASSUME Booked, [Next]_vars
  PROVE  Tables' /\ Books'
<1> USE DEF tableVars, envVars
<1>t. Tables /\ Books
  BY DEF Booked
<1>1. ASSUME UNCHANGED <<rows, comm, adj, paid, lost, price>> PROVE Tables' /\ Books'
  BY <1>t, <1>1, CashBooked DEF Tables
<1>2. ASSUME NEW t \in Threads, Generate(t) \/ ReadClosed(t) \/ Fault(t) PROVE Tables' /\ Books'
  BY <1>1, <1>2 DEF Generate, ReadOpen, Download, InsertSnapshot, ReadClosed, Fault, Stop
<1>3. CASE Restart \/ NextYear \/ UNCHANGED vars
  BY <1>1, <1>3 DEF Restart, Stop, NextYear, vars
<1>4. CASE CoreStart \/ Plan \/ TakeSell \/ SellDone \/ Stamp
  BY <1>1, <1>4 DEF CoreStart, Plan, TakeSell, SellDone, Stamp, CoreStep
<1>5. CASE SellLot \/ BuyLot \/ SellTrade \/ BuyTrade
  BY <1>5, SellLotBooked, BuyLotBooked, FeeBooked
<1>6. ASSUME NEW s \in Syms, \/ \E side \in {"BUY", "HEDGE"} : Buy(s, side)
                             \/ \E p \in Prices : MovePrice(s, p)
      PROVE  Tables' /\ Books'
  <2>1. ASSUME NEW p \in Prices, MovePrice(s, p) PROVE Tables' /\ Books'
    <3>1. price' \in [Syms -> Prices] /\ UNCHANGED <<rows, comm, adj, paid, lost>>
      BY <1>t, <2>1 DEF MovePrice, Tables
    <3> QED
      BY <1>t, <3>1, CashBooked DEF Tables
  <2> QED
    BY <1>t, <1>6, <2>1, BuyBooked
<1>7. ASSUME NEW r \in Rows, Sell(r) \/ SellPart(r) PROVE Tables' /\ Books'
  BY <1>t, <1>7, SellBooked, SellPartBooked
<1>8. ASSUME NEW a \in Events, CapitalEvent(a) PROVE Tables' /\ Books'
  <2>1. a \in Int
    BY AmountsAssumption
  <2>2. adj' = adj + a /\ paid' = paid + a /\ UNCHANGED <<rows, comm, lost, price>>
    BY <1>8 DEF CapitalEvent
  <2>3. /\ comm' \in Int /\ adj' \in Int /\ lost' \in Int /\ paid' \in Int
        /\ paid' - adj' + comm' - lost' = paid - adj + comm - lost
    BY <1>t, <2>1, <2>2 DEF Tables
  <2> QED
    BY <1>t, <2>2, <2>3, CashBooked DEF Tables
<1> QED
  BY <1>2, <1>3, <1>4, <1>5, <1>6, <1>7, <1>8 DEF Next, Allocate, Others

LEMMA CashReadInt ==
  ASSUME Tables, Remembering, NEW t \in Threads PROVE CashRead(t) \in Int
<1>1. Cost(mem[t].open) \in Int
  BY CostInt DEF Remembering
<1> QED
  BY <1>1, AmountsAssumption DEF CashRead, CashOf, Remembering, Tables

LEMMA JobStep ==
  ASSUME Tables, Job, Remembering, [Next]_vars
  PROVE  Job'
<1> USE DEF tableVars, envVars
<1>c. Core \in Threads /\ Core \notin Generators
  BY ThreadsAssumption DEF Threads, Generators
<1>0. ASSUME core' = core, DOMAIN pc' = Threads, pc'[Core] = "idle" \/ pc'[Core] = pc[Core]
             \/ (pc[Core] # "idle" /\ pc'[Core] \notin {"sell", "selltrade", "buytrade"})
      PROVE  Job'
  BY <1>0 DEF Job
<1>1. ASSUME NEW t \in Threads, Generate(t) \/ ReadClosed(t) PROVE Job'
  <2>1. core' = core /\ DOMAIN pc' = Threads
    BY <1>1 DEF Generate, ReadOpen, Download, InsertSnapshot, ReadClosed, Job
  <2>2. pc'[Core] = pc[Core] \/ (pc[Core] # "idle" /\ pc'[Core] \in {"prices", "closed", "sums"})
    BY <1>1, <1>c DEF Generate, ReadOpen, Download, InsertSnapshot, ReadClosed, Job
  <2> QED
    BY <1>0, <2>1, <2>2
<1>r. AtRest.lots = NoRow /\ Fields \subseteq DOMAIN AtRest /\ AtRest.need = 0 /\ AtRest.qty = 0
      /\ AtRest.queue = {} /\ AtRest.orders = {} /\ DOMAIN NoRow = {}
  BY DEF AtRest, Fields, NoRow
<1>2. ASSUME NEW down \in SUBSET Threads, Stop(down) PROVE Job'
  <2>1. DOMAIN pc' = Threads /\ pc'[Core] = (IF Core \in down THEN "idle" ELSE pc[Core])
        /\ core' = (IF Core \in down THEN AtRest ELSE core)
    BY <1>2, <1>c DEF Stop
  <2> QED
    BY <2>1, <1>r DEF Job
<1>3. CASE CoreStart
  <2>1. /\ core'.lots = CoreLots /\ core'.px = price /\ Fields \subseteq DOMAIN core'
        /\ core'.need = 0 /\ core'.qty = 0 /\ core'.queue = {} /\ core'.orders = {}
        /\ pc'[Core] = "open" /\ DOMAIN pc' = Threads
    BY <1>3, <1>c, <1>r DEF CoreStart, CoreStep, AtRest, Job, Fields
  <2>2. DOMAIN CoreLots \subseteq Rows /\ \A r \in DOMAIN CoreLots : Used(CoreLots[r])
    BY DEF CoreLots, In, Tables
  <2> QED
    BY <2>1, <2>2 DEF Job, Tables
<1>4. CASE Plan
  <2>1. PICK rebal : 
          \/ core' = AtRest /\ pc'[Core] = "idle" /\ DOMAIN pc' = Threads
          \/ /\ core' = [core EXCEPT !.orders = PlanCore(HeldBy, CashRead(Core), rebal), !.rebal = rebal]
             /\ pc'[Core] = "order" /\ DOMAIN pc' = Threads
    BY <1>4, <1>c DEF Plan, CoreStep, Job
  <2>2. \A o \in PlanCore(HeldBy, CashRead(Core), rebal) : o.sym \in Syms /\ o.usd \in Int
    <3>1. HeldBy \in [Syms -> Int]
      BY <1>4, HeldInt DEF Plan
    <3>2. CashRead(Core) \in Int
      BY <1>c, CashReadInt
    <3> QED
      BY <3>1, <3>2, PlanTyped
  <2>3. CASE core' = AtRest /\ pc'[Core] = "idle" /\ DOMAIN pc' = Threads
    BY <2>3, <1>r DEF Job
  <2>4. CASE /\ core' = [core EXCEPT !.orders = PlanCore(HeldBy, CashRead(Core), rebal), !.rebal = rebal]
             /\ pc'[Core] = "order" /\ DOMAIN pc' = Threads
    BY <1>4, <2>2, <2>4 DEF Job, Fields, Plan
  <2> QED
    BY <2>1, <2>3, <2>4
<1>5. CASE TakeSell
  <2>1. PICK o \in core.orders :
          core' = [core EXCEPT !.orders = @ \ {o}, !.sym = o.sym,
                               !.need = Nearest(o.usd, core.px[o.sym]),
                               !.queue = {r \in DOMAIN core.lots : core.lots[r].sym = o.sym}]
    BY <1>5 DEF TakeSell
  <2>2. pc[Core] = "order" /\ pc'[Core] = "sell" /\ DOMAIN pc' = Threads
    BY <1>5, <1>c DEF TakeSell, CoreStep, Job
  <2>3. o.sym \in Syms /\ o.usd \in Int
    BY DEF Job
  <2>4. Nearest(o.usd, core.px[o.sym]) \in Int
    BY <2>2, <2>3, JobPrice, NearestInt
  <2> QED
    BY <2>1, <2>2, <2>4 DEF Job, Fields
<1>6. CASE SellLot
  <2>1. PICK r \in core.queue :
          \/ core' = [core EXCEPT !.queue = @ \ {r}] /\ pc'[Core] = "sell"
          \/ /\ core' = [core EXCEPT !.qty = Lesser(core.need, core.lots[r].qty), !.queue = @ \ {r}]
             /\ pc'[Core] = "selltrade"
    BY <1>6, <1>c DEF SellLot, CoreStep, Job
  <2>2. pc[Core] = "sell" /\ DOMAIN pc' = Threads /\ r \in DOMAIN core.lots
    BY <1>6, <1>c DEF SellLot, CoreStep, Job
  <2>3. Lesser(core.need, core.lots[r].qty) \in Int
    BY <2>2, UsedNumbers DEF Job, Lesser
  <2> QED
    BY <2>1, <2>2, <2>3 DEF Job, Fields
<1>7. CASE SellTrade
  <2>1. /\ core' = [core EXCEPT !.need = @ - core.qty, !.qty = 0]
        /\ pc[Core] = "selltrade" /\ pc'[Core] = "sell" /\ DOMAIN pc' = Threads
    BY <1>7, <1>c DEF SellTrade, CoreStep, Job
  <2> QED
    BY <2>1 DEF Job, Fields
<1>8. CASE SellDone \/ BuyTrade
  <2>1. core' = NextOrder /\ pc[Core] # "idle" /\ pc'[Core] = "order" /\ DOMAIN pc' = Threads
    BY <1>8, <1>c DEF SellDone, BuyTrade, CoreStep, Job
  <2> QED
    BY <2>1 DEF Job, Fields, NextOrder
<1>9. CASE BuyLot
  <2>1. PICK o \in core.orders :
          \/ core' = [core EXCEPT !.orders = @ \ {o}] /\ pc'[Core] = "order"
          \/ /\ core' = [core EXCEPT !.orders = @ \ {o}, !.sym = o.sym,
                                     !.qty = SharesFor(o.usd, core.px[o.sym])]
             /\ pc'[Core] = "buytrade"
    BY <1>9, <1>c DEF BuyLot, CoreStep, Job
  <2>2. pc[Core] = "order" /\ DOMAIN pc' = Threads
    BY <1>9, <1>c DEF BuyLot, CoreStep, Job
  <2>3. o.sym \in Syms /\ SharesFor(o.usd, core.px[o.sym]) \in Int
    BY <2>2, JobPrice, SharesInt DEF Job
  <2> QED
    BY <2>1, <2>2, <2>3 DEF Job, Fields
<1>10. CASE Stamp
  <2>1. core' = AtRest /\ pc'[Core] = "idle" /\ DOMAIN pc' = Threads
    BY <1>10, <1>c DEF Stamp, CoreStep, Job
  <2> QED
    BY <2>1, <1>r DEF Job
<1>11. CASE Others \/ UNCHANGED vars
  <2>1. UNCHANGED <<pc, core>>
    BY <1>11 DEF Others, Buy, MovePrice, Sell, SellPart, CapitalEvent, NextYear, Change, vars
  <2> QED
    BY <1>0, <2>1 DEF Job
<1> QED
  BY <1>1, <1>2, <1>3, <1>4, <1>5, <1>6, <1>7, <1>8, <1>9, <1>10, <1>11 DEF Next, Allocate, Fault, Restart

\* What a reader keeps are rows.
LEMMA ReadsStep ==
  ASSUME Tables, Remembering, [Next]_vars
  PROVE  Remembering'
<1> USE DEF tableVars, envVars
<1> DEFINE Read(m) == /\ {"open", "gain", "truth", "twice"} \subseteq DOMAIN m
                      /\ DOMAIN m.open \subseteq Rows
                      /\ \A r \in DOMAIN m.open : m.open[r] \in AnyRow
                      /\ m.gain \in Int
<1>1. \A t \in Threads : Read(mem[t])
  BY DEF Remembering
<1>2. Read(Blank)
  BY DEF Blank, NoRow
<1>3. ASSUME NEW t \in Threads, NEW m, Read(m), mem' = [mem EXCEPT ![t] = m] PROVE Remembering'
  BY <1>1, <1>3 DEF Remembering
<1>4. ASSUME NEW t \in Threads, ReadOpen(t) PROVE Remembering'
  <2>1. DOMAIN OpenRows \subseteq Rows /\ \A r \in DOMAIN OpenRows : OpenRows[r] \in AnyRow
    BY DEF OpenRows, In, Tables
  <2>2. mem' = [mem EXCEPT ![t] = [mem[t] EXCEPT !.open = OpenRows]]
    BY <1>4 DEF ReadOpen, Remembering
  <2>3. Read([mem[t] EXCEPT !.open = OpenRows])
    BY <1>1, <2>1
  <2> QED
    BY <1>3, <2>2, <2>3
<1>5. ASSUME NEW t \in Threads, ReadClosed(t) PROVE Remembering'
  <2>1. PICK truth, twice :
          mem' = [mem EXCEPT ![t] = [mem[t] EXCEPT !.open = Kept(t), !.gain = Gains, !.truth = truth, !.twice = twice]]
    BY <1>5 DEF ReadClosed, Remembering
  <2>2. DOMAIN Kept(t) \subseteq Rows /\ \A r \in DOMAIN Kept(t) : Kept(t)[r] \in AnyRow
    BY <1>1 DEF Kept, Restrict
  <2>3. Read([mem[t] EXCEPT !.open = Kept(t), !.gain = Gains, !.truth = truth, !.twice = twice])
    BY <1>1, <2>2, GainsInt
  <2> QED
    BY <1>3, <2>1, <2>3
<1>6. ASSUME NEW t \in Threads, InsertSnapshot(t) PROVE Remembering'
  BY <1>2, <1>3, <1>6 DEF InsertSnapshot
<1>7. ASSUME NEW down \in SUBSET Threads, Stop(down) PROVE Remembering'
  BY <1>1, <1>2, <1>7 DEF Stop, Remembering
<1>8. ASSUME UNCHANGED mem PROVE Remembering'
  BY <1>8 DEF Remembering
<1>9. ASSUME NEW t \in Threads, Download(t) PROVE UNCHANGED mem
  BY <1>9 DEF Download
<1>10. CASE Allocate \/ Others \/ UNCHANGED vars
  BY <1>8, <1>10 DEF Allocate, CoreStart, Plan, TakeSell, SellLot, SellTrade, SellDone, BuyLot, BuyTrade, Stamp,
       CoreStep, Others, Buy, MovePrice, Sell, SellPart, CapitalEvent, NextYear, Change, vars
<1> QED
  BY <1>4, <1>5, <1>6, <1>7, <1>8, <1>9, <1>10 DEF Next, Generate, Fault, Restart

BooksKept == Booked /\ Remembering

LEMMA BookInit == Init => Booked /\ Remembering
<1> SUFFICES ASSUME Init PROVE Booked /\ Remembering
  OBVIOUS
<1>c. Core \in Threads
  BY DEF Threads
<1>1. /\ rows = [r \in Rows |-> IF r \in FirstRows THEN Opened(FirstSym, "BUY", Lot, FirstCost) ELSE Free]
      /\ comm = 0 /\ adj = 0 /\ lost = 0 /\ price = FirstPrice
      /\ paid = Initial - Cardinality(FirstRows) * Lot * FirstCost
  BY DEF Init
<1>2. /\ FirstRows \subseteq Rows /\ FirstSym \in Syms /\ IsFiniteSet(FirstRows)
      /\ Lot \in Nat /\ FirstCost \in Nat /\ Initial \in Int
  <2>1. FirstRows \subseteq Rows /\ FirstSym \in Syms /\ IsFiniteSet(Rows)
    BY SetsAssumption
  <2>2. IsFiniteSet(FirstRows)
    BY <2>1, FS_Subset
  <2> QED
    BY <2>1, <2>2, AmountsAssumption
<1>3. Used(Opened(FirstSym, "BUY", Lot, FirstCost)) /\ Used(Free)
  <2>1. Used(Free)
    BY DEF Free, Used, AnyRow, States, Sides
  <2> QED
    BY <1>2, <2>1, OpenedRow DEF Sides
<1>4. RowsTyped(rows)
  BY <1>1, <1>3 DEF RowsTyped, Used
<1>5. Balance(rows) = 0 - Cardinality(FirstRows) * (Lot * FirstCost)
  <2>1. Being(rows, "closed") = {} /\ Being(rows, "open") = FirstRows
    BY <1>1, <1>2 DEF Being, Opened, Free
  <2>2. \A r \in FirstRows : CostsOf(rows)[r] = Lot * FirstCost
    BY <1>1, <1>2 DEF CostsOf, Opened
  <2>3. Lot * FirstCost \in Nat
    BY <1>2
  <2>4. SumOver(FirstRows, CostsOf(rows)) = Cardinality(FirstRows) * (Lot * FirstCost)
    BY <1>2, <2>2, <2>3, SumConstant
  <2> QED
    BY <2>1, <2>4, SumNone DEF Balance
<1>6. Cardinality(FirstRows) \in Nat
  BY <1>2, FS_CardinalityType
<1>7. Tables
  BY <1>1, <1>2, <1>4, <1>6, SetsAssumption DEF Tables, RowsTyped
<1>8. Books
  BY <1>1, <1>2, <1>5, <1>6 DEF Books
<1>9. Job
  BY <1>c DEF Init, Job, AtRest, NoRow, Fields
<1>10. Remembering
  BY DEF Init, Remembering, Blank, NoRow
<1> QED
  BY <1>7, <1>8, <1>9, <1>10 DEF Booked

\* The derived cash (storage.get_cash and the formulas of the two snapshot generators) is
\* the cash that moved, less the gains of partial sales: for every sequence of purchases,
\* sales, partial sales, splits, capital events, faults and restarts.
THEOREM CashStaysTracked == Spec => []CashTracks
<1>1. BooksKept /\ [Next]_vars => BooksKept'
  BY BookStep, JobStep, ReadsStep DEF BooksKept, Booked
<1>2. BooksKept => CashTracks
  BY CashBalance, AmountsAssumption DEF BooksKept, Booked, Books, CashTracks, Tables
<1>3. Init => BooksKept
  BY BookInit DEF BooksKept
<1> QED
  BY <1>1, <1>2, <1>3, PTL DEF Spec

(***************************************************************************)
(* What a snapshot counts.  While a thread has read the open rows and not  *)
(* yet the closed ones, each row it read is still what it was or has been  *)
(* closed, unless it lost a part.                                          *)
(***************************************************************************)
Same(row, seen) == row.state = "open" /\ row.qty = seen.qty /\ row.entry = seen.entry
Remembered ==
  \A t \in Threads : Reading(t) /\ t \notin torn =>
    \A r \in DOMAIN mem[t].open : rows[r].state = "closed" \/ Same(rows[r], mem[t].open[r])
Read(t) == pc[t] = "sums" \/ (pc[t] = "prices" /\ t \notin Plain)
Counted ==
  \A t \in Threads : Read(t) /\ t \notin torn =>
    Basis(t) = mem[t].truth - (IF t \in Plain THEN mem[t].twice ELSE 0)

\* No step reopens a row or alters an open one, but those that tear it from its readers.
RowsGoOn ==
  \A r \in Rows : \/ rows[r].state = "closed" /\ rows'[r].state = "closed"
                  \/ rows[r].state = "open" /\ (rows'[r].state = "closed" \/ Same(rows'[r], rows[r]))
                  \/ rows[r].state = "free"
                  \/ \A t \in Threads : Reading(t) /\ r \in DOMAIN mem[t].open => t \in torn'

LEMMA RowsStep == Tables /\ Job /\ [Next]_vars => RowsGoOn
<1> SUFFICES ASSUME Tables, Job, [Next]_vars PROVE RowsGoOn
  OBVIOUS
<1> USE DEF tableVars, envVars
<1>s. \A r \in Rows : rows[r].state \in {"open", "closed", "free"}
  BY DEF Tables, Used, AnyRow, States
<1>0. ASSUME UNCHANGED rows PROVE RowsGoOn
  BY <1>0, <1>s DEF RowsGoOn, Same
<1>1. ASSUME NEW c \in Rows, NextRow(c), NEW row, rows' = [rows EXCEPT ![c] = row] PROVE RowsGoOn
  BY <1>1, <1>s DEF RowsGoOn, Same, NextRow, Tables
<1>2. ASSUME NEW r \in Rows, NEW p, rows[r].state = "open", rows' = [rows EXCEPT ![r] = Closed(rows[r], p)]
      PROVE  RowsGoOn
  <2>1. rows'[r].state = "closed" /\ \A q \in Rows \ {r} : rows'[q] = rows[q]
    BY <1>2 DEF Closed, Tables, Used, AnyRow
  <2> QED
    BY <1>2, <1>s, <2>1 DEF RowsGoOn, Same
<1>3. ASSUME NEW r \in Rows, Tear(r), \A q \in Rows \ {r} : rows'[q] = rows[q] \/ rows[q].state = "free"
      PROVE  RowsGoOn
  BY <1>3, <1>s DEF RowsGoOn, Same, Tear
<1>4. ASSUME NEW t \in Threads, Generate(t) \/ ReadClosed(t) \/ Fault(t) PROVE UNCHANGED rows
  BY <1>4 DEF Generate, ReadOpen, Download, InsertSnapshot, ReadClosed, Fault, Stop
<1>5. CASE Restart \/ NextYear \/ UNCHANGED vars \/ CoreStart \/ Plan \/ TakeSell \/ SellTrade \/ SellDone
           \/ BuyTrade \/ Stamp \/ (\E a \in Events : CapitalEvent(a))
  <2>1. UNCHANGED rows
    BY <1>5 DEF Restart, Stop, NextYear, vars, CoreStart, Plan, TakeSell, SellTrade, SellDone, BuyTrade, Stamp, CapitalEvent
  <2> QED
    BY <1>0, <2>1
<1>6. ASSUME NEW s \in Syms, \/ \E side \in {"BUY", "HEDGE"} : Buy(s, side)
                             \/ \E p \in Prices : MovePrice(s, p)
      PROVE  RowsGoOn
  BY <1>0, <1>1, <1>6 DEF Buy, MovePrice
<1>7. ASSUME NEW r \in Rows, Sell(r) PROVE RowsGoOn
  BY <1>2, <1>7 DEF Sell
<1>8. ASSUME NEW r \in Rows, SellPart(r) PROVE RowsGoOn
  <2>1. Tear(r) /\ \A q \in Rows \ {r} : rows'[q] = rows[q]
    BY <1>8 DEF SellPart, Tables
  <2> QED
    BY <1>3, <2>1
<1>9. CASE SellLot
  <2>0. PICK r \in core.queue : \E n, p :
          \/ UNCHANGED rows
          \/ rows[r].state = "open" /\ rows' = [rows EXCEPT ![r] = Closed(rows[r], p)]
          \/ (\E c \in Rows : NextRow(c) /\ SplitPart(r, n, c)) /\ Tear(r)
    BY <1>9 DEF SellLot
  <2>1. PICK n, p :
          \/ UNCHANGED rows
          \/ rows[r].state = "open" /\ rows' = [rows EXCEPT ![r] = Closed(rows[r], p)]
          \/ (\E c \in Rows : NextRow(c) /\ SplitPart(r, n, c)) /\ Tear(r)
    BY <2>0
  <2>2. r \in Rows
    BY DEF Job
  <2>3. CASE (\E c \in Rows : NextRow(c) /\ SplitPart(r, n, c)) /\ Tear(r)
    <3>1. PICK c \in Rows : NextRow(c) /\ SplitPart(r, n, c)
      BY <2>3
    <3>2. rows[c].state = "free" /\ \A q \in Rows \ {r, c} : rows'[q] = rows[q]
      BY <3>1 DEF NextRow, SplitPart, Tables
    <3> QED
      BY <1>3, <2>2, <2>3, <3>2
  <2> QED
    BY <1>0, <1>2, <2>1, <2>2, <2>3
<1>10. CASE BuyLot
  BY <1>0, <1>1, <1>10 DEF BuyLot
<1> QED
  BY <1>0, <1>4, <1>5, <1>6, <1>7, <1>8, <1>9, <1>10 DEF Next, Allocate, Others

LEMMA CostSame ==
  ASSUME NEW f, NEW g, DOMAIN f = DOMAIN g, \A r \in DOMAIN f : f[r].qty = g[r].qty /\ f[r].entry = g[r].entry
  PROVE  Cost(f) = Cost(g)
<1>1. [r \in DOMAIN f |-> f[r].qty * f[r].entry] = [r \in DOMAIN g |-> g[r].qty * g[r].entry]
  OBVIOUS
<1> QED
  BY <1>1, Zenon DEF Cost

\* The rows of a reader cost what those closed since and the others cost.
LEMMA CostSplit ==
  ASSUME NEW f, DOMAIN f \subseteq Rows, \A r \in DOMAIN f : f[r] \in AnyRow, NEW sub
  PROVE  /\ Cost(Restrict(f, DOMAIN f \ sub)) \in Int /\ Cost(Restrict(f, DOMAIN f \cap sub)) \in Int
         /\ Cost(f) = Cost(Restrict(f, DOMAIN f \ sub)) + Cost(Restrict(f, DOMAIN f \cap sub))
<1> DEFINE dom == DOMAIN f
           left == dom \ sub
           right == dom \cap sub
           h == [r \in dom |-> f[r].qty * f[r].entry]
<1>1. left \cup right = dom /\ left \cap right = {}
  OBVIOUS
<1>2. IsFiniteSet(left) /\ IsFiniteSet(right)
  <2>1. IsFiniteSet(dom)
    BY SetsAssumption, FS_Subset
  <2> QED
    BY <2>1, FS_Subset
<1>3. \A r \in left \cup right : h[r] \in Int
  BY DEF AnyRow
<1>4. /\ [r \in DOMAIN f |-> f[r].qty * f[r].entry] = [r \in left \cup right |-> h[r]]
      /\ [r \in DOMAIN Restrict(f, left) |-> Restrict(f, left)[r].qty * Restrict(f, left)[r].entry] = [r \in left |-> h[r]]
      /\ [r \in DOMAIN Restrict(f, right) |-> Restrict(f, right)[r].qty * Restrict(f, right)[r].entry] = [r \in right |-> h[r]]
  BY <1>1 DEF Restrict
<1> HIDE DEF left, right, h
<1>5. Cost(f) = SumOver(left \cup right, h) /\ Cost(Restrict(f, left)) = SumOver(left, h) /\ Cost(Restrict(f, right)) = SumOver(right, h)
  BY <1>4, Zenon DEF Cost, SumOver
<1>6. SumOver(left \cup right, h) = SumOver(left, h) + SumOver(right, h)
  BY <1>1, <1>2, <1>3, SumJoin
<1>7. SumOver(left, h) \in Int /\ SumOver(right, h) \in Int
  BY <1>2, <1>3, SumInt
<1> QED
  BY <1>5, <1>6, <1>7 DEF left, right, dom

\* What no step does to a reader u but its own steps, a fault and a restart.
ReaderGoesOn(u) ==
  /\ mem'[u] = mem[u]
  /\ u \in torn => u \in torn'
  /\ Reading(u)' => Reading(u)
  /\ Read(u)' => Read(u)

LEMMA OthersRead ==
  ASSUME Tables, Job, Remembering, NEW u \in Threads,
         Allocate \/ Others \/ UNCHANGED vars
         \/ \E t \in Threads \ {u} : Generate(t) \/ ReadClosed(t)
  PROVE  ReaderGoesOn(u)
<1> USE DEF tableVars, envVars
<1>c. Core \in Threads /\ Core \notin Plain
  BY ThreadsAssumption DEF Threads
<1>1. CASE Allocate
  <2>1. /\ mem' = mem /\ torn \subseteq torn'
        /\ \E step \in {"open", "idle", "order", "sell", "selltrade", "buytrade"} : pc' = [pc EXCEPT ![Core] = step]
    BY <1>1 DEF Allocate, CoreStart, Plan, TakeSell, SellLot, SellTrade, SellDone, BuyLot, BuyTrade, Stamp, CoreStep, Tear
  <2> QED
    BY <1>c, <2>1 DEF ReaderGoesOn, Reading, Read, Job
<1>2. CASE Others \/ UNCHANGED vars
  <2>1. mem' = mem /\ pc' = pc /\ torn \subseteq torn'
    BY <1>2 DEF Others, Buy, MovePrice, Sell, SellPart, CapitalEvent, NextYear, Change, Tear, vars
  <2> QED
    BY <2>1 DEF ReaderGoesOn, Reading, Read
<1>3. ASSUME NEW t \in Threads \ {u}, Generate(t) \/ ReadClosed(t) PROVE ReaderGoesOn(u)
  <2>1. mem'[u] = mem[u] /\ pc'[u] = pc[u] /\ (u \in torn => u \in torn')
    <3>1. CASE Generate(t)
      BY <1>3, <3>1 DEF Generate, ReadOpen, Download, InsertSnapshot, Remembering, Job
    <3>2. CASE ReadClosed(t)
      BY <1>3, <3>2 DEF ReadClosed, Remembering, Job
    <3> QED
      BY <1>3, <3>1, <3>2
  <2> QED
    BY <2>1 DEF ReaderGoesOn, Reading, Read
<1> QED
  BY <1>1, <1>2, <1>3

\* A stop ends a run that was reading.
LEMMA StopsRead ==
  ASSUME Job, Remembering, NEW down \in SUBSET Threads, Stop(down), NEW u \in Threads
  PROVE  ReaderGoesOn(u) \/ (~Reading(u)' /\ ~Read(u)')
<1>1. /\ u \in down => pc'[u] = "idle"
      /\ u \notin down => pc'[u] = pc[u] /\ mem'[u] = mem[u]
      /\ torn' = torn
  BY DEF Stop
<1> QED
  BY <1>1 DEF ReaderGoesOn, Reading, Read

\* A reader that goes on remembers what it remembered, whatever happens to the rows.
LEMMA GoesOnRemembered ==
  ASSUME Tables, Remembering, Remembered, RowsGoOn, NEW u \in Threads, ReaderGoesOn(u), Reading(u)', u \notin torn',
         NEW r \in DOMAIN mem'[u].open
  PROVE  rows'[r].state = "closed" \/ Same(rows'[r], mem'[u].open[r])
<1>1. mem'[u] = mem[u] /\ Reading(u) /\ u \notin torn /\ r \in Rows /\ r \in DOMAIN mem[u].open
  BY DEF ReaderGoesOn, Remembering
<1>2. rows[r].state = "closed" \/ Same(rows[r], mem[u].open[r])
  BY <1>1 DEF Remembered
<1>3. \/ rows[r].state = "closed" /\ rows'[r].state = "closed"
      \/ rows[r].state = "open" /\ (rows'[r].state = "closed" \/ Same(rows'[r], rows[r]))
  BY <1>1, <1>2 DEF RowsGoOn, Same
<1> QED
  BY <1>1, <1>2, <1>3 DEF Same

LEMMA RememberedStep ==
  ASSUME Tables, Job, Remembering, Remembered, [Next]_vars
  PROVE  Remembered'
<1> USE DEF tableVars, envVars
<1> DEFINE Fine(u) == Reading(u)' /\ u \notin torn' =>
                      \A r \in DOMAIN mem'[u].open : rows'[r].state = "closed" \/ Same(rows'[r], mem'[u].open[r])
<1>g. RowsGoOn
  BY RowsStep
<1>0. ASSUME NEW u \in Threads, ReaderGoesOn(u) \/ ~Reading(u)' PROVE Fine(u)
  BY <1>0, <1>g, GoesOnRemembered
<1>1. ASSUME NEW t \in Threads, ReadOpen(t) PROVE Fine(t)
  <2>1. mem'[t].open = OpenRows /\ rows' = rows
    BY <1>1 DEF ReadOpen, Remembering
  <2> QED
    BY <2>1 DEF OpenRows, In, Same
<1>2. ASSUME NEW t \in Threads, InsertSnapshot(t) \/ ReadClosed(t) PROVE ~Reading(t)'
  BY <1>2, ThreadsAssumption DEF InsertSnapshot, ReadClosed, Reading, Job
<1>3. ASSUME NEW t \in Threads, Download(t) PROVE ReaderGoesOn(t) \/ (mem' = mem /\ torn' = torn /\ Reading(t) /\ rows' = rows)
                                                  \/ ~Reading(t)'
  BY <1>3 DEF Download, Reading, Job
<1>4. ASSUME NEW t \in Threads, Generate(t) \/ ReadClosed(t) PROVE Fine(t)
  <2>1. CASE Download(t)
    BY <1>0, <1>3, <2>1 DEF Remembered
  <2> QED
    BY <1>0, <1>1, <1>2, <1>4, <2>1 DEF Generate
<1>5. ASSUME NEW u \in Threads PROVE Fine(u)
  <2>1. ASSUME NEW t \in Threads, Generate(t) \/ ReadClosed(t) PROVE Fine(u)
    BY <1>0, <1>4, <2>1, OthersRead
  <2>2. ASSUME NEW down \in SUBSET Threads, Stop(down) PROVE Fine(u)
    BY <1>0, <2>2, StopsRead
  <2>3. CASE Allocate \/ Others \/ UNCHANGED vars
    BY <1>0, <2>3, OthersRead
  <2> HIDE DEF Fine
  <2> QED
    BY <2>1, <2>2, <2>3 DEF Next, Fault, Restart
<1> QED
  BY <1>5 DEF Remembered

\* What a reader has counted once the closed rows are read.
LEMMA ClosedCounted ==
  ASSUME Tables, Remembering, Remembered, NEW t \in Threads, ReadClosed(t), t \notin torn
  PROVE  mem'[t].gain - Cost(mem'[t].open) = mem'[t].truth - (IF t \in Plain THEN mem'[t].twice ELSE 0)
<1> DEFINE f == mem[t].open
           sub == In("closed")
           kept == Restrict(f, DOMAIN f \ sub)
           met == Restrict(f, DOMAIN f \cap sub)
           now == Restrict(rows, DOMAIN f \ sub)
<1>1. DOMAIN f \subseteq Rows /\ \A r \in DOMAIN f : f[r] \in AnyRow
  BY DEF Remembering
<1>2. \A r \in DOMAIN f \ sub : Same(rows[r], f[r])
  BY <1>1 DEF ReadClosed, Remembered, Reading, In
<1>3. Cost(kept) = Cost(now)
  BY <1>2, CostSame DEF Restrict, Same
<1>4. /\ mem'[t].gain = Gains /\ mem'[t].open = Kept(t)
      /\ mem'[t].truth = Gains - Cost(now) /\ mem'[t].twice = Cost(met)
  BY DEF ReadClosed, Remembering
<1> HIDE DEF kept, met, now
<1>5. Cost(kept) \in Int /\ Cost(met) \in Int /\ Cost(f) = Cost(kept) + Cost(met)
  BY <1>1, CostSplit DEF kept, met
<1>6. Gains \in Int
  BY GainsInt
<1>7. Kept(t) = IF t \in Plain THEN f ELSE kept
  BY DEF Kept, kept
<1> HIDE DEF f
<1> QED
  BY <1>3, <1>4, <1>5, <1>6, <1>7

LEMMA CountedStep ==
  ASSUME Tables, Job, Remembering, Remembered, Counted, [Next]_vars
  PROVE  Counted'
<1> DEFINE Fine(u) == Read(u)' /\ u \notin torn' =>
                      mem'[u].gain - Cost(mem'[u].open) = mem'[u].truth - (IF u \in Plain THEN mem'[u].twice ELSE 0)
<1>0. ASSUME NEW u \in Threads, ReaderGoesOn(u) \/ ~Read(u)' PROVE Fine(u)
  BY <1>0 DEF ReaderGoesOn, Counted, Basis
<1>1. ASSUME NEW t \in Threads, ReadOpen(t) \/ InsertSnapshot(t) PROVE ~Read(t)'
  BY <1>1 DEF ReadOpen, InsertSnapshot, Read, Job
<1>2. ASSUME NEW t \in Threads, ReadClosed(t) PROVE Fine(t)
  BY <1>2, ClosedCounted DEF ReadClosed
<1>3. ASSUME NEW t \in Threads, Download(t) PROVE (Read(t)' => Read(t)) /\ mem' = mem /\ torn' = torn
  BY <1>3 DEF Download, Read, Job
<1>4. ASSUME NEW t \in Threads, Generate(t) \/ ReadClosed(t) PROVE Fine(t)
  <2>1. CASE Download(t)
    BY <1>3, <2>1 DEF Counted, Basis
  <2> QED
    BY <1>0, <1>1, <1>2, <1>4, <2>1 DEF Generate
<1>5. ASSUME NEW u \in Threads PROVE Fine(u)
  <2>1. ASSUME NEW t \in Threads, Generate(t) \/ ReadClosed(t) PROVE Fine(u)
    BY <1>0, <1>4, <2>1, OthersRead
  <2>2. ASSUME NEW down \in SUBSET Threads, Stop(down) PROVE Fine(u)
    BY <1>0, <2>2, StopsRead
  <2>3. CASE Allocate \/ Others \/ UNCHANGED vars
    BY <1>0, <2>3, OthersRead
  <2> HIDE DEF Fine
  <2> QED
    BY <2>1, <2>2, <2>3 DEF Next, Fault, Restart
<1> QED
  BY <1>5 DEF Counted, Basis

\* A snapshot counts each row it read once, as it was when the closed rows were read, and
\* the API's (_generate_snapshot) counts what was closed in between twice; unless a row
\* lost a part meanwhile.  However many generators, purchases, sales and core runs overlap.
THEOREM SnapshotsOffByTheTwice == Spec => []SnapshotOff
<1> DEFINE IInv == BooksKept /\ Remembered /\ Counted
<1>1. Init => IInv
  <2>1. Init => Remembered /\ Counted
    BY DEF Init, Remembered, Counted, Reading, Read
  <2> QED
    BY <2>1, BookInit DEF BooksKept
<1>2. IInv /\ [Next]_vars => IInv'
  BY BookStep, JobStep, ReadsStep, RememberedStep, CountedStep DEF BooksKept, Booked
<1>3. IInv => SnapshotOff
  BY DEF Counted, Read, SnapshotOff
<1> QED
  BY <1>1, <1>2, <1>3, PTL DEF Spec

(***************************************************************************)
(* Exit layers.                                                            *)
(***************************************************************************)

\* Prices and multiples are natural numbers, and a hard stop is worth something.
LayersSettings ==
  /\ SwingConfig.hard_mult \in Nat /\ SwingConfig.trail_mult \in Nat
  /\ SwingConfig.low_vol \in Nat /\ SwingConfig.high_vol \in Nat /\ SwingConfig.be_buffer \in Nat
  /\ SeenPrices \subseteq Nat
  /\ \A s \in Entries : /\ s.price \in Nat /\ s.stop \in Nat /\ s.atr \in Nat
                        /\ s.atr > 0 => (SwingConfig.hard_mult * s.atr) \div 10 < s.price

\* What each write of columns leaves of a row.
SetsHigh(u, n, w) == w = [u EXCEPT !.high = n]
LEMMA HighWritten ==
  ASSUME NEW u \in X!AnyRow, NEW n \in Nat, NEW w, SetsHigh(u, n, w)
  PROVE  /\ w \in X!AnyRow
         /\ w.status = u.status /\ w.entry = u.entry /\ w.day = u.day /\ w.stop = u.stop /\ w.atr = u.atr
         /\ w.hard_stop = u.hard_stop /\ w.high = n /\ w.trailing = u.trailing /\ w.settled = u.settled
BY DEF SetsHigh, X!AnyRow
SetsStop(u, n, w) == w = [u EXCEPT !.stop = n]
LEMMA StopWritten ==
  ASSUME NEW u \in X!AnyRow, NEW n \in Nat, NEW w, SetsStop(u, n, w)
  PROVE  /\ w \in X!AnyRow
         /\ w.status = u.status /\ w.entry = u.entry /\ w.day = u.day /\ w.stop = n /\ w.atr = u.atr
         /\ w.hard_stop = u.hard_stop /\ w.high = u.high /\ w.trailing = u.trailing /\ w.settled = u.settled
BY DEF SetsStop, X!AnyRow
SetsTrail(u, w) == w = [u EXCEPT !.trailing = TRUE]
LEMMA TrailWritten ==
  ASSUME NEW u \in X!AnyRow, NEW w, SetsTrail(u, w)
  PROVE  /\ w \in X!AnyRow
         /\ w.status = u.status /\ w.entry = u.entry /\ w.day = u.day /\ w.stop = u.stop /\ w.atr = u.atr
         /\ w.hard_stop = u.hard_stop /\ w.high = u.high /\ w.trailing /\ w.settled = u.settled
BY DEF SetsTrail, X!AnyRow
Sells(u, w) == w = [u EXCEPT !.status = "closed"]
LEMMA SoldWritten ==
  ASSUME NEW u \in X!AnyRow, NEW w, Sells(u, w)
  PROVE  /\ w \in X!AnyRow
         /\ w.status = "closed" /\ w.entry = u.entry /\ w.day = u.day /\ w.stop = u.stop /\ w.atr = u.atr
         /\ w.hard_stop = u.hard_stop /\ w.high = u.high /\ w.trailing = u.trailing /\ w.settled = u.settled
BY DEF Sells, X!AnyRow
SetsAtr(u, n, m, w) == w = [u EXCEPT !.atr = n, !.hard_stop = m]
LEMMA AtrWritten ==
  ASSUME NEW u \in X!AnyRow, NEW n \in Nat, NEW m \in Nat, NEW w, SetsAtr(u, n, m, w)
  PROVE  /\ w \in X!AnyRow
         /\ w.status = u.status /\ w.entry = u.entry /\ w.day = u.day /\ w.stop = u.stop /\ w.atr = n
         /\ w.hard_stop = m /\ w.high = u.high /\ w.trailing = u.trailing /\ w.settled = u.settled
BY DEF SetsAtr, X!AnyRow
SetsUp(u, n, w) == w = [u EXCEPT !.stop = n, !.settled = TRUE]
LEMMA SetupWritten ==
  ASSUME NEW u \in X!AnyRow, NEW n \in Nat, NEW w, SetsUp(u, n, w)
  PROVE  /\ w \in X!AnyRow
         /\ w.status = u.status /\ w.entry = u.entry /\ w.day = u.day /\ w.stop = n /\ w.atr = u.atr
         /\ w.hard_stop = u.hard_stop /\ w.high = u.high /\ w.trailing = u.trailing /\ w.settled
BY DEF SetsUp, X!AnyRow
Opens(n, m, k, a, w) == w = [X!NoRow EXCEPT !.status = "open", !.entry = n, !.day = m, !.stop = k, !.settled = a = 0]
LEMMA RowOpened ==
  ASSUME NEW n \in Nat, NEW m \in Nat, NEW k \in Nat, NEW a \in Nat, NEW w, Opens(n, m, k, a, w)
  PROVE  /\ w \in X!AnyRow
         /\ w.status = "open" /\ w.entry = n /\ w.day = m /\ w.stop = k /\ w.atr = 0 /\ ~w.trailing
         /\ w.settled => a = 0
<1>1. CASE a = 0
  <2>1. w = [X!NoRow EXCEPT !.status = "open", !.entry = n, !.day = m, !.stop = k, !.settled = TRUE]
    BY <1>1 DEF Opens
  <2> QED
    BY <1>1, <2>1 DEF X!AnyRow, X!NoRow
<1>2. CASE a # 0
  <2>1. w = [X!NoRow EXCEPT !.status = "open", !.entry = n, !.day = m, !.stop = k, !.settled = FALSE]
    BY <1>2 DEF Opens
  <2> QED
    BY <1>2, <2>1 DEF X!AnyRow, X!NoRow
<1> QED
  BY <1>1, <1>2

\* Breakeven is a natural number.
LEMMA EvenValues ==
  ASSUME LayersSettings, NEW u \in X!AnyRow
  PROVE  X!Even(u) \in Nat /\ X!Even(u) >= u.entry
<1>1. u.entry \in Nat /\ SwingConfig.be_buffer \in Nat
  BY DEF X!AnyRow, LayersSettings
<1>2. \A e, b \in Nat : (e * (1000 + b)) \div 1000 \in Nat /\ (e * (1000 + b)) \div 1000 >= e
  <2>1. \A e, b \in Nat : e * (1000 + b) \in Nat /\ e * (1000 + b) >= 1000 * e
    <3>1. \A e, b \in Nat : e * (1000 + b) = 1000 * e + e * b /\ e * b \in Nat
      OBVIOUS
    <3> QED
      BY <3>1
  <2>2. \A e, x \in Nat : x >= 1000 * e => x \div 1000 \in Nat /\ x \div 1000 >= e
    OBVIOUS
  <2> QED
    BY <2>1, <2>2
<1> QED
  BY <1>1, <1>2 DEF X!Even
LEMMA RowFields ==
  ASSUME NEW u \in X!AnyRow
  PROVE  /\ u.entry \in Nat /\ u.day \in Nat /\ u.stop \in Nat /\ u.atr \in Nat /\ u.hard_stop \in Nat
         /\ u.high \in Nat /\ u.trailing \in BOOLEAN /\ u.settled \in BOOLEAN
         /\ u.status \in {"none", "open", "closed"}
BY DEF X!AnyRow

\* With an ATR, a check goes by the row's stop or by its hard stop.
LEMMA StopValues ==
  ASSUME NEW u, X!SoundRow(u), u.atr > 0
  PROVE  /\ X!HardStop(u) = u.hard_stop /\ X!HardStop(u) \in Nat
         /\ X!StopOf(u) \in Nat /\ X!StopOf(u) > 0 /\ X!StopOf(u) >= u.stop
<1>1. u.hard_stop \in Nat /\ u.hard_stop > 0 /\ u.stop \in Nat
  BY DEF X!SoundRow, X!AnyRow
<1> QED
  BY <1>1 DEF X!StopOf, X!HardStop
\* Rows that agree on what a stop is found from have the same hard stop and trails apart by their marks.
LEMMA StopsAgree ==
  ASSUME NEW u, NEW w, u.entry = w.entry, u.atr = w.atr, u.hard_stop = w.hard_stop
  PROVE  /\ X!HardStop(u) = X!HardStop(w)
         /\ u.stop = w.stop => X!StopOf(u) = X!StopOf(w)
BY DEF X!HardStop, X!StopOf
LEMMA TrailsAgree ==
  ASSUME NEW u \in X!AnyRow, NEW w \in X!AnyRow, u.atr = w.atr, u.high <= w.high, NEW m \in Nat
  PROVE  X!Trail(u, m) <= X!Trail(w, m) /\ X!Trail(w, m) \in Int /\ X!Trail(u, m) \in Int
<1> DEFINE d == (m * w.atr) \div 10
<1>1. d \in Int /\ u.high \in Nat /\ w.high \in Nat
  BY RowFields
<1>2. X!Trail(u, m) = u.high - d /\ X!Trail(w, m) = w.high - d
  BY DEF X!Trail
<1> HIDE DEF d
<1> QED
  BY <1>1, <1>2

\* CopySound of a check at step l, with the copy q of the row r and the figures k it goes by.
AnyLook == [price : Nat, mult : Nat, raced : BOOLEAN]
CopyFits(l, r, q, k) ==
  /\ X!SoundRow(q) /\ q.entry = r.entry /\ r.status # "none" /\ k \in AnyLook
  /\ q.settled => r.settled
  /\ q.atr > 0 \/ q.settled => q.atr = r.atr /\ q.hard_stop = r.hard_stop
  /\ l \in {"high", "activate", "even", "trail"} => q.atr > 0
  /\ l \in {"high", "activate", "even", "trail", "decide"} => k.price > X!HardStop(q)
  /\ ~k.raced /\ r.status = "open" =>
       /\ q.atr = r.atr /\ q.hard_stop = r.hard_stop /\ q.trailing = r.trailing
       /\ r.high <= q.high
       /\ X!Written(l, r, q, k.mult)
LEMMA CopyUnfolds ==
  ASSUME NEW t
  PROVE  /\ X!CopySound(t) <=> CopyFits(x7[t], x1, x8[t], x9[t])
         /\ X!CopySound(t)' <=> CopyFits(x7'[t], x1', x8'[t], x9'[t])
BY DEF X!CopySound, CopyFits, AnyLook, X!SoundRow, X!Written, X!HardStop, X!StopOf, X!Trail

\* What a write may do to the row r under the eyes of a check: nothing sets the ATR and
\* the hard stop a second time.
Follows(r, w) ==
  /\ X!SoundRow(w) /\ w.entry = r.entry /\ w.status # "none"
  /\ r.settled => w.settled
  /\ r.atr > 0 \/ r.settled => w.atr = r.atr /\ w.hard_stop = r.hard_stop
\* What a check's own writes leave of it besides.
Stays(r, w) == Follows(r, w) /\ w.atr = r.atr /\ w.settled = r.settled
\* A check is told of a write, or the row is closed and no writes come any more.
Told(k, w, j) == j \in AnyLook /\ j.price = k.price /\ (j.raced \/ w.status # "open")
LEMMA CopyOvertaken ==
  ASSUME NEW l, NEW r, NEW q, NEW k, CopyFits(l, r, q, k), NEW w, Follows(r, w), NEW j, Told(k, w, j)
  PROVE  CopyFits(l, w, q, j)
<1>1. q.atr > 0 => r.atr > 0
  BY DEF CopyFits
<1> QED
  BY <1>1 DEF CopyFits, Follows, Told

\* A step of check t alone: the others stand where they stood, told of what was written.
Passed(t) ==
  /\ DOMAIN x7' = ExitChecks /\ DOMAIN x8' = ExitChecks /\ DOMAIN x9' = ExitChecks
  /\ \A u \in ExitChecks \ {t} :
       /\ x7'[u] = x7[u] /\ x8'[u] = x8[u]
       /\ x7[u] # "idle" => (x1' = x1 /\ x9'[u] = x9[u]) \/ Told(x9[u], x1', x9'[u])
  /\ x2' = x2 /\ x3' = x3 /\ x4' = x4 /\ x6' = x6
LEMMA PassedKeepsSound ==
  ASSUME X!LayersSound, NEW t \in ExitChecks, Passed(t), Stays(x1, x1'),
         x7'[t] # "idle" => CopyFits(x7'[t], x1', x8'[t], x9'[t])
  PROVE  X!LayersSound'
<1>1. /\ X!SetupSound /\ x6 \in Nat /\ x3 \in SeenPrices /\ x4 \in X!Regimes
      /\ \A u \in ExitChecks : x7[u] # "idle" => CopyFits(x7[u], x1, x8[u], x9[u])
  BY CopyUnfolds DEF X!LayersSound
<1>2. X!SetupSound'
  BY <1>1 DEF X!SetupSound, Passed, Stays, Follows
<1>3. ASSUME NEW u \in ExitChecks, x7'[u] # "idle" PROVE X!CopySound(u)'
  <2>1. CASE u = t
    BY <1>3, <2>1, CopyUnfolds
  <2>2. CASE u # t
    <3>1. x7[u] # "idle" /\ x7'[u] = x7[u] /\ x8'[u] = x8[u]
      BY <1>3, <2>2 DEF Passed
    <3>2. (x1' = x1 /\ x9'[u] = x9[u]) \/ Told(x9[u], x1', x9'[u])
      BY <2>2, <3>1 DEF Passed
    <3>3. CopyFits(x7[u], x1', x8[u], x9'[u])
      BY <1>1, <3>1, <3>2, CopyOvertaken DEF Stays
    <3> QED
      BY <3>1, <3>3, CopyUnfolds
  <2> QED
    BY <2>1, <2>2
<1> QED
  BY <1>1, <1>2, <1>3 DEF X!LayersSound, Passed, Stays, Follows

\* What Overtake tells a check.
LEMMA TellsOthers ==
  ASSUME X!LayersSound, NEW others \in SUBSET ExitChecks, X!Overtake(others), NEW u \in ExitChecks, x7[u] # "idle"
  PROVE  /\ DOMAIN x9' = ExitChecks
         /\ u \in others => Told(x9[u], x1', x9'[u])
         /\ u \notin others => x9'[u] = x9[u]
<1>1. x9[u] \in AnyLook
  BY CopyUnfolds DEF X!LayersSound, CopyFits
<1>2. \A k \in AnyLook : [k EXCEPT !.raced = TRUE] \in AnyLook /\ [k EXCEPT !.raced = TRUE].price = k.price
                         /\ [k EXCEPT !.raced = TRUE].raced
  BY DEF AnyLook
<1>3. u \in others => x9'[u] = [x9[u] EXCEPT !.raced = TRUE]
  BY DEF X!Overtake
<1>4. u \notin others => x9'[u] = x9[u]
  BY DEF X!Overtake
<1>5. DOMAIN x9' = ExitChecks
  BY DEF X!Overtake
<1> QED
  BY <1>1, <1>2, <1>3, <1>4, <1>5 DEF Told

\* A row stays as it is, or with a mark, a flag or a stop of its own.
LEMMA WritesStay ==
  ASSUME NEW r, X!SoundRow(r), r.status # "none"
  PROVE  /\ Stays(r, r)
         /\ \A n \in Nat : \A w : SetsHigh(r, n, w) \/ SetsStop(r, n, w) => Stays(r, w)
         /\ \A w : SetsTrail(r, w) /\ r.atr > 0 => Stays(r, w)
         /\ \A w : Sells(r, w) => Stays(r, w)
<1>1. r \in X!AnyRow
  BY DEF X!SoundRow
<1>2. Stays(r, r)
  BY DEF Stays, Follows
<1>3. ASSUME NEW n \in Nat, NEW w, SetsHigh(r, n, w) PROVE Stays(r, w)
  BY <1>1, <1>3, HighWritten DEF Stays, Follows, X!SoundRow
<1>4. ASSUME NEW n \in Nat, NEW w, SetsStop(r, n, w) PROVE Stays(r, w)
  BY <1>1, <1>4, StopWritten DEF Stays, Follows, X!SoundRow
<1>5. ASSUME NEW w, SetsTrail(r, w), r.atr > 0 PROVE Stays(r, w)
  BY <1>1, <1>5, TrailWritten, RowFields DEF Stays, Follows, X!SoundRow
<1>6. ASSUME NEW w, Sells(r, w) PROVE Stays(r, w)
  BY <1>1, <1>6, SoldWritten DEF Stays, Follows, X!SoundRow
<1> QED
  BY <1>2, <1>3, <1>4, <1>5, <1>6

\* A step of check t to l that keeps row and copy, and one that writes to them.
LEMMA KeepsPass ==
  ASSUME X!LayersSound, NEW t \in ExitChecks, x7[t] # "idle", NEW l, X!Goto(t, l), X!Keep, X!Quiet
  PROVE  /\ Passed(t) /\ Stays(x1, x1') /\ x1' = x1
         /\ x7'[t] = l /\ x8'[t] = x8[t] /\ x9'[t] = x9[t]
<1>1. DOMAIN x7 = ExitChecks /\ DOMAIN x8 = ExitChecks /\ DOMAIN x9 = ExitChecks /\ X!SoundRow(x1)
  BY DEF X!LayersSound
<1>2. x1.status # "none"
  BY CopyUnfolds DEF X!LayersSound, CopyFits
<1>3. Passed(t)
  BY <1>1 DEF X!Goto, X!Keep, X!Quiet, X!Market, Passed
<1> QED
  BY <1>1, <1>2, <1>3, WritesStay DEF X!Goto, X!Keep
LEMMA RaisePasses ==
  ASSUME X!LayersSound, NEW t \in ExitChecks, x7[t] # "idle", NEW l, X!Goto(t, l), X!Quiet,
         NEW w, NEW q, X!Raise(t, w, q), Stays(x1, w)
  PROVE  /\ Passed(t) /\ Stays(x1, x1') /\ x1' = (IF x1.status = "open" THEN w ELSE x1)
         /\ x7'[t] = l /\ x8'[t] = q /\ x9'[t] = x9[t]
<1>1. DOMAIN x7 = ExitChecks /\ DOMAIN x8 = ExitChecks /\ DOMAIN x9 = ExitChecks /\ X!SoundRow(x1)
  BY DEF X!LayersSound
<1>2. x1.status # "none"
  BY CopyUnfolds DEF X!LayersSound, CopyFits
<1>3. x1' = (IF x1.status = "open" THEN w ELSE x1)
  BY DEF X!Raise, X!Write
<1>4. Stays(x1, x1')
  BY <1>1, <1>2, <1>3, WritesStay
<1>5. X!Overtake(ExitChecks \ {t})
  BY DEF X!Raise
<1>6. DOMAIN x9' = ExitChecks /\ x9'[t] = x9[t]
      /\ \A u \in ExitChecks \ {t} : x7[u] # "idle" => Told(x9[u], x1', x9'[u])
  BY <1>5, TellsOthers
<1>7. Passed(t)
  BY <1>1, <1>6 DEF X!Goto, X!Quiet, X!Market, X!Raise, X!Copy, Passed
<1> QED
  BY <1>1, <1>3, <1>4, <1>6, <1>7 DEF X!Goto, X!Raise, X!Copy

\* How a check's own writes leave its copy: a mark, a flag, a stop in both, a stop in the table.
LEMMA FitsAfterHigh ==
  ASSUME NEW r, X!SoundRow(r), NEW q, NEW k, CopyFits("high", r, q, k)
  PROVE  /\ k.price \in Nat /\ q.high \in Nat
         /\ k.price <= q.high => CopyFits("activate", r, q, k)
         /\ k.price > q.high => \A w, v : SetsHigh(r, k.price, w) /\ SetsHigh(q, k.price, v) =>
              CopyFits("activate", IF r.status = "open" THEN w ELSE r, v, k)
<1>1. r \in X!AnyRow /\ q \in X!AnyRow /\ k.price \in Nat /\ k.mult \in Nat /\ q.atr > 0 /\ q.high \in Nat
  BY RowFields DEF CopyFits, X!SoundRow, AnyLook
<1>2. CopyFits("activate", r, q, k)
  BY DEF CopyFits, X!Written
<1>3. ASSUME NEW w, NEW v, SetsHigh(r, k.price, w), SetsHigh(q, k.price, v), k.price > q.high
      PROVE  CopyFits("activate", IF r.status = "open" THEN w ELSE r, v, k)
  <2> DEFINE n == k.price
  <2>0. SetsHigh(r, n, w) /\ SetsHigh(q, n, v) /\ n \in Nat
    BY <1>1, <1>3
  <2>1. /\ v \in X!AnyRow /\ v.entry = q.entry /\ v.stop = q.stop /\ v.atr = q.atr /\ v.hard_stop = q.hard_stop
        /\ v.high = n /\ v.trailing = q.trailing /\ v.settled = q.settled
    <3> HIDE DEF n
    <3> QED
      BY <1>1, <2>0, HighWritten
  <2>2. /\ w.status = r.status /\ w.entry = r.entry /\ w.stop = r.stop /\ w.atr = r.atr /\ w.hard_stop = r.hard_stop
        /\ w.high = n /\ w.trailing = r.trailing /\ w.settled = r.settled
    <3> HIDE DEF n
    <3> QED
      BY <1>1, <2>0, HighWritten
  <2>3. X!HardStop(v) = X!HardStop(q)
    BY <2>1, StopsAgree
  <2> QED
    BY <1>1, <2>1, <2>2, <2>3 DEF CopyFits, X!SoundRow, X!Written
<1> QED
  BY <1>1, <1>2, <1>3
LEMMA FitsAfterActivate ==
  ASSUME NEW r, X!SoundRow(r), NEW q, NEW k, CopyFits("activate", r, q, k)
  PROVE  /\ CopyFits("even", r, q, k)
         /\ \A w, v : SetsTrail(r, w) /\ SetsTrail(q, v) =>
              CopyFits("even", IF r.status = "open" THEN w ELSE r, v, k)
<1>1. r \in X!AnyRow /\ q \in X!AnyRow /\ q.atr > 0 /\ q.atr \in Nat
  BY RowFields DEF CopyFits, X!SoundRow
<1>2. CopyFits("even", r, q, k)
  BY DEF CopyFits, X!Written
<1>3. ASSUME NEW w, NEW v, SetsTrail(r, w), SetsTrail(q, v)
      PROVE  CopyFits("even", IF r.status = "open" THEN w ELSE r, v, k)
  <2>1. /\ v \in X!AnyRow /\ v.entry = q.entry /\ v.stop = q.stop /\ v.atr = q.atr /\ v.hard_stop = q.hard_stop
        /\ v.high = q.high /\ v.trailing = TRUE /\ v.settled = q.settled
    BY <1>1, <1>3, TrailWritten, RowFields
  <2>2. /\ w.status = r.status /\ w.entry = r.entry /\ w.stop = r.stop /\ w.atr = r.atr /\ w.hard_stop = r.hard_stop
        /\ w.high = r.high /\ w.trailing = TRUE /\ w.settled = r.settled
    BY <1>1, <1>3, TrailWritten, RowFields
  <2>3. X!HardStop(v) = X!HardStop(q)
    BY <2>1, StopsAgree
  <2>4. CASE r.status = "open"
    <3> DEFINE s == IF r.status = "open" THEN w ELSE r
    <3>1. s = w /\ k.price > X!HardStop(v) /\ X!SoundRow(v) /\ v.atr > 0 /\ v.atr = w.atr /\ v.hard_stop = w.hard_stop
      BY <1>1, <2>1, <2>2, <2>3, <2>4 DEF CopyFits, X!SoundRow
    <3>2. ~k.raced => w.high <= v.high /\ w.stop = v.stop
      BY <2>1, <2>2, <2>4 DEF CopyFits, X!Written
    <3>3. w.entry = v.entry /\ w.status # "none" /\ k \in AnyLook /\ (v.settled => w.settled) /\ v.trailing = w.trailing
      BY <2>1, <2>2 DEF CopyFits
    <3> HIDE DEF s
    <3>4. CopyFits("even", s, v, k)
      BY <3>1, <3>2, <3>3 DEF CopyFits, X!Written
    <3> QED
      BY <3>4 DEF s
  <2>5. CASE r.status # "open"
    <3> DEFINE s == IF r.status = "open" THEN w ELSE r
    <3>1. s = r /\ k.price > X!HardStop(v) /\ X!SoundRow(v) /\ v.atr > 0 /\ v.atr = r.atr /\ v.hard_stop = r.hard_stop
      BY <1>1, <2>1, <2>2, <2>3, <2>5 DEF CopyFits, X!SoundRow
    <3>3. r.entry = v.entry /\ r.status # "none" /\ k \in AnyLook /\ (v.settled => r.settled)
      BY <2>1 DEF CopyFits
    <3> HIDE DEF s
    <3>4. CopyFits("even", s, v, k)
      BY <2>5, <3>1, <3>3 DEF CopyFits
    <3> QED
      BY <3>4 DEF s
  <2> QED
    BY <2>4, <2>5
<1> QED
  BY <1>2, <1>3
LEMMA FitsAfterEven ==
  ASSUME NEW r, X!SoundRow(r), NEW q, NEW k, CopyFits("even", r, q, k), NEW n \in Nat
  PROVE  /\ CopyFits("trail", r, q, k)
         /\ \A w, v : SetsStop(r, n, w) /\ SetsStop(q, n, v) =>
              CopyFits("trail", IF r.status = "open" THEN w ELSE r, v, k)
<1>1. r \in X!AnyRow /\ q \in X!AnyRow /\ q.atr > 0
  BY DEF CopyFits, X!SoundRow
<1>2. CopyFits("trail", r, q, k)
  BY DEF CopyFits, X!Written
<1>3. ASSUME NEW w, NEW v, SetsStop(r, n, w), SetsStop(q, n, v)
      PROVE  CopyFits("trail", IF r.status = "open" THEN w ELSE r, v, k)
  <2>1. /\ v \in X!AnyRow /\ v.entry = q.entry /\ v.stop = n /\ v.atr = q.atr /\ v.hard_stop = q.hard_stop
        /\ v.high = q.high /\ v.trailing = q.trailing /\ v.settled = q.settled
    BY <1>1, <1>3, StopWritten
  <2>2. /\ w.status = r.status /\ w.entry = r.entry /\ w.stop = n /\ w.atr = r.atr /\ w.hard_stop = r.hard_stop
        /\ w.high = r.high /\ w.trailing = r.trailing /\ w.settled = r.settled
    BY <1>1, <1>3, StopWritten
  <2>3. X!HardStop(v) = X!HardStop(q)
    BY <2>1, StopsAgree
  <2> QED
    BY <1>1, <2>1, <2>2, <2>3 DEF CopyFits, X!SoundRow, X!Written
<1> QED
  BY <1>2, <1>3
LEMMA FitsAfterTrail ==
  ASSUME NEW r, X!SoundRow(r), NEW q, NEW k, CopyFits("trail", r, q, k)
  PROVE  /\ X!Trail(q, k.mult) \in Int /\ X!StopOf(q) \in Nat
         /\ ~(q.trailing /\ X!Trail(q, k.mult) > X!StopOf(q)) => CopyFits("decide", r, q, k)
         /\ q.trailing /\ X!Trail(q, k.mult) > X!StopOf(q) => \A w : SetsStop(r, X!Trail(q, k.mult), w) =>
              CopyFits("decide", IF r.status = "open" THEN w ELSE r, q, k)
<1> DEFINE n == X!Trail(q, k.mult)
<1>1. r \in X!AnyRow /\ q \in X!AnyRow /\ q.atr > 0 /\ k.mult \in Nat /\ q.high \in Nat /\ X!SoundRow(q)
  BY RowFields DEF CopyFits, X!SoundRow, AnyLook
<1>2. n \in Int /\ X!StopOf(q) \in Nat
  BY <1>1, TrailsAgree, StopValues
<1>3. ASSUME ~(q.trailing /\ n > X!StopOf(q)) PROVE CopyFits("decide", r, q, k)
  BY <1>2, <1>3 DEF CopyFits, X!Written
<1>4. ASSUME q.trailing, n > X!StopOf(q), NEW w, SetsStop(r, n, w)
      PROVE  CopyFits("decide", IF r.status = "open" THEN w ELSE r, q, k)
  <2>1. n \in Nat
    BY <1>2, <1>4
  <2>2. /\ w.status = r.status /\ w.entry = r.entry /\ w.stop = n /\ w.atr = r.atr /\ w.hard_stop = r.hard_stop
        /\ w.high = r.high /\ w.trailing = r.trailing /\ w.settled = r.settled
    <3> HIDE DEF n
    <3> QED
      BY <1>1, <1>4, <2>1, StopWritten
  <2> QED
    BY <1>1, <1>4, <2>2 DEF CopyFits, X!Written
<1> QED
  BY <1>2, <1>3, <1>4

\* What a check writes to the row is never below what it had read; nor below the row, unless
\* it was overtaken.
NotLowered(t) ==
  /\ x1'.stop >= X!Floor(t, x8[t].stop, x1.stop)
  /\ x1'.high >= X!Floor(t, x8[t].high, x1.high)
  /\ x1.trailing => x1'.trailing
LEMMA SameNotLowered ==
  ASSUME X!LayersSound, NEW t \in ExitChecks, x7[t] # "idle", x1' = x1 \/ Sells(x1, x1')
  PROVE  NotLowered(t)
<1>1. x1 \in X!AnyRow /\ x8[t] \in X!AnyRow
  BY CopyUnfolds DEF X!LayersSound, X!SoundRow, CopyFits
<1>2. x1'.stop = x1.stop /\ x1'.high = x1.high /\ x1'.trailing = x1.trailing
  BY <1>1, SoldWritten
<1> QED
  BY <1>1, <1>2, RowFields DEF NotLowered, X!Floor, X!Lesser

\* Every step of a check.
LEMMA CheckSteps ==
  ASSUME LayersSettings, X!LayersSound, NEW t \in ExitChecks, X!Check(t)
  PROVE  X!LayersSound' /\ (x7[t] # "idle" => NotLowered(t))
<1> DEFINE row == x1  q == x8[t]  k == x9[t]
<1>1. /\ X!SoundRow(row) /\ row \in X!AnyRow /\ (x7[t] # "idle" => CopyFits(x7[t], row, q, k) /\ row.status # "none")
      /\ DOMAIN x7 = ExitChecks /\ DOMAIN x8 = ExitChecks /\ DOMAIN x9 = ExitChecks
      /\ x3 \in SeenPrices /\ x4 \in X!Regimes
  BY CopyUnfolds DEF X!LayersSound, X!SoundRow, CopyFits
<1>2. row.stop \in Nat /\ row.high \in Nat /\ row.entry \in Nat /\ row.trailing \in BOOLEAN
  BY <1>1, RowFields
<1>3. ASSUME X!Begin(t) PROVE X!LayersSound' /\ x7[t] = "idle"
  <2> DEFINE copy == [row EXCEPT !.high = IF @ = 0 THEN row.entry ELSE @]
             high == IF row.high = 0 THEN row.entry ELSE row.high
             look == [price |-> x3, mult |-> X!RegimeMult, raced |-> FALSE]
  <2>1. x1' = x1 /\ row.status = "open" /\ x8'[t] = copy /\ x7'[t] = "layers" /\ x7[t] = "idle" /\ x9'[t] = look
    BY <1>1, <1>3 DEF X!Begin, X!Copy, X!Goto
  <2>2. Passed(t)
    BY <1>1, <1>3 DEF X!Begin, X!Copy, X!Goto, X!Market, Passed
  <2>3. look \in AnyLook /\ ~look.raced
    <3>1. x3 \in Nat
      BY <1>1 DEF LayersSettings
    <3>2. X!RegimeMult \in Nat
      BY <1>1 DEF LayersSettings, X!RegimeMult, X!Regimes
    <3> QED
      BY <3>1, <3>2 DEF AnyLook
  <2>4. SetsHigh(row, high, copy) /\ high \in Nat /\ row.high <= high
    BY <1>2 DEF SetsHigh
  <2> HIDE DEF copy, high, look
  <2>5. /\ copy \in X!AnyRow /\ copy.entry = row.entry /\ copy.stop = row.stop /\ copy.atr = row.atr
        /\ copy.hard_stop = row.hard_stop /\ copy.high = high
        /\ copy.trailing = row.trailing /\ copy.settled = row.settled
    BY <1>1, <2>4, HighWritten
  <2>6. CopyFits("layers", row, copy, look)
    BY <1>1, <2>1, <2>3, <2>4, <2>5 DEF CopyFits, X!SoundRow, X!Written
  <2>7. Stays(row, row)
    BY <1>1, <2>1, WritesStay
  <2> QED
    BY <2>1, <2>2, <2>6, <2>7, PassedKeepsSound
<1>4. ASSUME X!Layers(t) PROVE X!LayersSound' /\ NotLowered(t)
  <2> DEFINE l == IF X!Condemned(q, k.price) THEN "sell" ELSE IF q.atr > 0 THEN "high" ELSE "decide"
  <2>1. x7[t] = "layers" /\ X!Goto(t, l) /\ X!Keep /\ X!Quiet
    BY <1>4 DEF X!Layers
  <2>2. Passed(t) /\ Stays(x1, x1') /\ x1' = x1 /\ x7'[t] = l /\ x8'[t] = q /\ x9'[t] = k
    <3> HIDE DEF l
    <3> QED
      BY <2>1, KeepsPass
  <2>3. CopyFits("layers", row, q, k)
    BY <1>1, <2>1
  <2>4. X!HardStop(q) \in Int /\ k.price \in Nat /\ q.atr \in Nat /\ (q.atr = 0 => ~q.trailing)
    <3>1. k.price \in Nat /\ q \in X!AnyRow /\ q.atr \in Nat /\ q.entry \in Nat /\ q.hard_stop \in Nat /\ X!SoundRow(q)
      BY <2>3, RowFields DEF CopyFits, X!SoundRow, AnyLook
    <3>2. (q.entry * 95) \div 100 \in Int
      BY <3>1
    <3>3. ASSUME q.atr > 0 PROVE X!HardStop(q) \in Int
      BY <3>1, <3>3, StopValues
    <3>4. ASSUME q.atr = 0 PROVE X!HardStop(q) \in Int
      BY <3>1, <3>2, <3>4 DEF X!HardStop
    <3> QED
      BY <3>1, <3>3, <3>4 DEF X!SoundRow
  <2>5. l # "sell" => k.price > X!HardStop(q)
    BY <2>4 DEF X!Condemned
  <2>6. CopyFits(l, row, q, k)
    BY <2>3, <2>4, <2>5 DEF CopyFits, X!Written
  <2> QED
    BY <2>1, <2>2, <2>6, PassedKeepsSound, SameNotLowered
<1>5. ASSUME X!RaiseHigh(t) PROVE X!LayersSound' /\ NotLowered(t)
  <2>1. x7[t] = "high" /\ X!Goto(t, "activate") /\ X!Quiet /\ CopyFits("high", row, q, k)
    BY <1>1, <1>5 DEF X!RaiseHigh
  <2>2. k.price \in Nat /\ q.high \in Nat
    BY <1>1, <2>1, FitsAfterHigh
  <2>3. CASE k.price <= q.high
    <3>1. X!Keep
      BY <1>5, <2>2, <2>3 DEF X!RaiseHigh
    <3> QED
      BY <1>1, <2>1, <2>3, <3>1, KeepsPass, FitsAfterHigh, PassedKeepsSound, SameNotLowered
  <2>4. CASE k.price > q.high
    <3> DEFINE w == [row EXCEPT !.high = k.price]  v == [q EXCEPT !.high = k.price]
    <3>1. X!Raise(t, w, v) /\ SetsHigh(row, k.price, w) /\ SetsHigh(q, k.price, v)
      BY <1>5, <2>4 DEF X!RaiseHigh, SetsHigh
    <3> HIDE DEF w, v
    <3>2. Stays(row, w)
      BY <1>1, <2>1, <2>2, <3>1, WritesStay
    <3>3. /\ Passed(t) /\ Stays(x1, x1') /\ x1' = (IF row.status = "open" THEN w ELSE row)
          /\ x7'[t] = "activate" /\ x8'[t] = v /\ x9'[t] = k
      BY <2>1, <3>1, <3>2, RaisePasses
    <3>4. CopyFits("activate", x1', v, k)
      BY <1>1, <2>1, <2>4, <3>1, <3>3, FitsAfterHigh
    <3>5. CASE row.status # "open"
      BY <2>1, <3>3, <3>4, <3>5, PassedKeepsSound, SameNotLowered
    <3>6. CASE row.status = "open"
      <4>1. x1'.stop = row.stop /\ x1'.high = k.price /\ x1'.trailing = row.trailing
        <5> HIDE DEF row, k
        <5> QED
          BY <1>1, <2>2, <3>1, <3>3, <3>6, HighWritten
      <4>2. ~k.raced => row.high <= q.high
        BY <2>1, <3>6 DEF CopyFits
      <4>3. q.stop \in Nat
        BY <2>1, RowFields DEF CopyFits, X!SoundRow
      <4>4. NotLowered(t)
        BY <1>2, <2>2, <2>4, <4>1, <4>2, <4>3 DEF NotLowered, X!Floor, X!Lesser
      <4> QED
        BY <3>3, <3>4, <4>4, PassedKeepsSound
    <3> QED
      BY <3>5, <3>6
  <2> QED
    BY <2>2, <2>3, <2>4
<1>6. ASSUME X!Activate(t) PROVE X!LayersSound' /\ NotLowered(t)
  <2> DEFINE on == ~q.trailing /\ X!Reached(q, k.price, SwingConfig.activation)
  <2>1. x7[t] = "activate" /\ X!Goto(t, "even") /\ X!Quiet /\ CopyFits("activate", row, q, k)
    BY <1>1, <1>6 DEF X!Activate
  <2>2. CASE ~on
    <3>1. X!Keep
      BY <1>6, <2>2 DEF X!Activate
    <3> QED
      BY <1>1, <2>1, <3>1, KeepsPass, FitsAfterActivate, PassedKeepsSound, SameNotLowered
  <2>3. CASE on
    <3> DEFINE w == [row EXCEPT !.trailing = TRUE]  v == [q EXCEPT !.trailing = TRUE]
    <3>1. X!Raise(t, w, v) /\ SetsTrail(row, w) /\ SetsTrail(q, v)
      BY <1>6, <2>3 DEF X!Activate, SetsTrail
    <3> HIDE DEF w, v
    <3>2. row.atr > 0
      BY <2>1 DEF CopyFits
    <3>3. Stays(row, w)
      BY <1>1, <2>1, <3>1, <3>2, WritesStay
    <3>4. /\ Passed(t) /\ Stays(x1, x1') /\ x1' = (IF row.status = "open" THEN w ELSE row)
          /\ x7'[t] = "even" /\ x8'[t] = v /\ x9'[t] = k
      BY <2>1, <3>1, <3>3, RaisePasses
    <3>5. CopyFits("even", x1', v, k)
      BY <1>1, <2>1, <3>1, <3>4, FitsAfterActivate
    <3>6. CASE row.status # "open"
      BY <2>1, <3>4, <3>5, <3>6, PassedKeepsSound, SameNotLowered
    <3>7. CASE row.status = "open"
      <4>1. x1'.stop = row.stop /\ x1'.high = row.high /\ x1'.trailing
        BY <1>1, <3>1, <3>4, <3>7, TrailWritten
      <4>2. q.stop \in Nat /\ q.high \in Nat
        BY <2>1, RowFields DEF CopyFits, X!SoundRow
      <4>3. NotLowered(t)
        BY <1>2, <4>1, <4>2 DEF NotLowered, X!Floor, X!Lesser
      <4> QED
        BY <3>4, <3>5, <4>3, PassedKeepsSound
    <3> QED
      BY <3>6, <3>7
  <2> QED
    BY <2>2, <2>3
<1>7. ASSUME X!BreakEven(t) PROVE X!LayersSound' /\ NotLowered(t)
  <2>1. x7[t] = "even" /\ X!Goto(t, "trail") /\ X!Quiet /\ CopyFits("even", row, q, k)
    BY <1>1, <1>7 DEF X!BreakEven
  <2>2. X!Even(q) \in Nat /\ q \in X!AnyRow /\ q.stop \in Nat /\ q.high \in Nat /\ X!StopOf(q) >= q.stop /\ X!StopOf(q) \in Nat
    BY <2>1, EvenValues, StopValues, RowFields DEF CopyFits, X!SoundRow
  <2>3. CASE ~X!BreaksEven(q, k.price)
    <3>1. X!Keep
      BY <1>7, <2>3 DEF X!BreakEven
    <3> QED
      BY <1>1, <2>1, <2>2, <3>1, KeepsPass, FitsAfterEven, PassedKeepsSound, SameNotLowered
  <2>4. CASE X!BreaksEven(q, k.price)
    <3> DEFINE n == X!Even(q)  w == [row EXCEPT !.stop = n]  v == [q EXCEPT !.stop = n]
    <3>1. X!Raise(t, w, v) /\ SetsStop(row, n, w) /\ SetsStop(q, n, v)
      BY <1>7, <2>4 DEF X!BreakEven, SetsStop
    <3> HIDE DEF w, v
    <3>2. n > X!StopOf(q) /\ n \in Nat
      BY <2>2, <2>4 DEF X!BreaksEven
    <3> HIDE DEF n
    <3>3. Stays(row, w)
      BY <1>1, <2>1, <3>1, <3>2, WritesStay
    <3>4. /\ Passed(t) /\ Stays(x1, x1') /\ x1' = (IF row.status = "open" THEN w ELSE row)
          /\ x7'[t] = "trail" /\ x8'[t] = v /\ x9'[t] = k
      BY <2>1, <3>1, <3>3, RaisePasses
    <3>5. CopyFits("trail", x1', v, k)
      BY <1>1, <2>1, <3>1, <3>2, <3>4, FitsAfterEven
    <3>6. CASE row.status # "open"
      BY <2>1, <3>4, <3>5, <3>6, PassedKeepsSound, SameNotLowered
    <3>7. CASE row.status = "open"
      <4>1. x1'.stop = n /\ x1'.high = row.high /\ x1'.trailing = row.trailing
        <5> HIDE DEF row
        <5> QED
          BY <1>1, <3>1, <3>2, <3>4, <3>7, StopWritten
      <4>2. ~k.raced => row.stop = q.stop
        BY <2>1, <3>7 DEF CopyFits, X!Written
      <4>3. NotLowered(t)
        BY <1>2, <2>2, <3>2, <4>1, <4>2 DEF NotLowered, X!Floor, X!Lesser
      <4> QED
        BY <3>4, <3>5, <4>3, PassedKeepsSound
    <3> QED
      BY <3>6, <3>7
  <2> QED
    BY <2>3, <2>4
<1>8. ASSUME X!RaiseTrail(t) PROVE X!LayersSound' /\ NotLowered(t)
  <2> DEFINE n == X!Trail(q, k.mult)
             up == q.trailing /\ n > X!StopOf(q)
  <2>1. x7[t] = "trail" /\ X!Goto(t, "decide") /\ X!Quiet /\ CopyFits("trail", row, q, k)
    BY <1>1, <1>8 DEF X!RaiseTrail
  <2>2. n \in Int /\ q.stop \in Nat /\ q.high \in Nat /\ X!StopOf(q) >= q.stop /\ X!StopOf(q) \in Nat
    <3>1. q \in X!AnyRow /\ X!SoundRow(q) /\ q.atr > 0
      BY <2>1 DEF CopyFits, X!SoundRow
    <3> QED
      BY <1>1, <2>1, <3>1, FitsAfterTrail, StopValues, RowFields
  <2>3. CASE ~up
    <3>1. X!Keep
      BY <1>8, <2>3 DEF X!RaiseTrail
    <3>2. CopyFits("decide", row, q, k)
      BY <1>1, <2>1, <2>3, FitsAfterTrail
    <3> QED
      BY <1>1, <2>1, <3>1, <3>2, KeepsPass, PassedKeepsSound, SameNotLowered
  <2>4. CASE up
    <3> DEFINE w == [row EXCEPT !.stop = n]
    <3>1. X!Raise(t, w, q) /\ SetsStop(row, n, w)
      BY <1>8, <2>4 DEF X!RaiseTrail, SetsStop
    <3> HIDE DEF w
    <3>2. n \in Nat
      BY <2>2, <2>4
    <3>3. Stays(row, w)
      <4> HIDE DEF n
      <4> QED
        BY <1>1, <2>1, <3>1, <3>2, WritesStay
    <3>4. /\ Passed(t) /\ Stays(x1, x1') /\ x1' = (IF row.status = "open" THEN w ELSE row)
          /\ x7'[t] = "decide" /\ x8'[t] = q /\ x9'[t] = k
      BY <2>1, <3>1, <3>3, RaisePasses
    <3>5. CopyFits("decide", x1', q, k)
      BY <1>1, <2>1, <2>4, <3>1, <3>4, FitsAfterTrail
    <3>6. CASE row.status # "open"
      BY <2>1, <3>4, <3>5, <3>6, PassedKeepsSound, SameNotLowered
    <3>7. CASE row.status = "open"
      <4>1. x1'.stop = n /\ x1'.high = row.high /\ x1'.trailing = row.trailing
        <5> HIDE DEF row, n
        <5> QED
          BY <1>1, <3>1, <3>2, <3>4, <3>7, StopWritten
      <4>2. ~k.raced => row.stop = q.stop
        BY <2>1, <3>7 DEF CopyFits, X!Written
      <4>3. NotLowered(t)
        BY <1>2, <2>2, <2>4, <4>1, <4>2 DEF NotLowered, X!Floor, X!Lesser
      <4> QED
        BY <3>4, <3>5, <4>3, PassedKeepsSound
    <3> QED
      BY <3>6, <3>7
  <2> QED
    BY <2>3, <2>4
<1>9. ASSUME X!Decide(t) PROVE X!LayersSound' /\ NotLowered(t)
  <2>1. x7[t] = "decide" /\ x1' = x1 /\ CopyFits("decide", row, q, k)
    BY <1>1, <1>9 DEF X!Decide
  <2>2. CASE X!Stopped(q, k.price, k.mult)
    <3>1. X!Goto(t, "sell") /\ X!Keep /\ X!Quiet
      BY <1>9, <2>1, <2>2 DEF X!Decide, X!Keep
    <3>2. CopyFits("sell", row, q, k)
      BY <2>1 DEF CopyFits, X!Written
    <3> QED
      BY <2>1, <3>1, <3>2, KeepsPass, PassedKeepsSound, SameNotLowered
  <2>3. CASE ~X!Stopped(q, k.price, k.mult)
    <3>1. X!Forget(t)
      BY <1>9, <2>3 DEF X!Decide
    <3>2. Passed(t) /\ x7'[t] = "idle"
      BY <1>1, <2>1, <3>1 DEF X!Forget, X!Goto, X!Copy, X!Market, Passed
    <3>3. Stays(x1, x1')
      BY <1>1, <2>1, WritesStay
    <3> QED
      BY <2>1, <3>2, <3>3, PassedKeepsSound, SameNotLowered
  <2> QED
    BY <2>2, <2>3
<1>10. ASSUME X!Sell(t) PROVE X!LayersSound' /\ NotLowered(t)
  <2> DEFINE w == [row EXCEPT !.status = "closed"]
  <2>1. x7[t] = "sell" /\ X!Forget(t) /\ x1' = (IF row.status = "open" THEN w ELSE row) /\ Sells(row, w)
    BY <1>10 DEF X!Sell, X!Write, Sells
  <2> HIDE DEF w
  <2>2. row.status # "none" /\ row.status \in {"none", "open", "closed"} /\ w.status = "closed"
    BY <1>1, <2>1, SoldWritten, RowFields
  <2>3. Stays(row, w) /\ Stays(row, row)
    BY <1>1, <2>1, <2>2, WritesStay
  <2>4. x1'.status = "closed" /\ Stays(x1, x1')
    BY <2>1, <2>2, <2>3
  <2>5. /\ DOMAIN x7' = ExitChecks /\ DOMAIN x8' = ExitChecks /\ DOMAIN x9' = ExitChecks /\ x7'[t] = "idle"
        /\ \A u \in ExitChecks \ {t} : x7'[u] = x7[u] /\ x8'[u] = x8[u] /\ x9'[u] = x9[u]
        /\ x2' = x2 /\ x3' = x3 /\ x4' = x4 /\ x6' = x6
    BY <1>1, <2>1 DEF X!Forget, X!Goto, X!Copy, X!Market
  <2>6. \A u \in ExitChecks : x7[u] # "idle" => x9[u] \in AnyLook
    BY CopyUnfolds DEF X!LayersSound, CopyFits
  <2>7. Passed(t)
    BY <2>4, <2>5, <2>6 DEF Passed, Told
  <2> QED
    BY <2>1, <2>4, <2>5, <2>7, PassedKeepsSound, SameNotLowered
<1> QED
  BY <1>3, <1>4, <1>5, <1>6, <1>7, <1>8, <1>9, <1>10 DEF X!Check

\* The entry's two writes after the row, under the eyes of any number of checks.
LEMMA SetupKeepsSound ==
  ASSUME X!LayersSound, NEW w, Follows(x1, w), x1.status # "none", X!Write(w), X!Overtake(ExitChecks),
         x7' = x7, x8' = x8, x3' = x3, x4' = x4, x6' = x6
  PROVE  (X!SetupSound)' => X!LayersSound'
<1>1. /\ X!SoundRow(x1) /\ x6 \in Nat /\ x3 \in SeenPrices /\ x4 \in X!Regimes
      /\ DOMAIN x7 = ExitChecks /\ DOMAIN x8 = ExitChecks /\ DOMAIN x9 = ExitChecks
      /\ \A u \in ExitChecks : x7[u] # "idle" => CopyFits(x7[u], x1, x8[u], x9[u])
  BY CopyUnfolds DEF X!LayersSound
<1>2. Follows(x1, x1')
  BY <1>1, WritesStay DEF X!Write, Stays
<1>3. DOMAIN x9' = ExitChecks
  BY DEF X!Overtake
<1>4. ASSUME NEW u \in ExitChecks, x7'[u] # "idle" PROVE X!CopySound(u)'
  <2>1. Told(x9[u], x1', x9'[u])
    BY <1>4, TellsOthers
  <2>2. CopyFits(x7[u], x1', x8[u], x9'[u])
    BY <1>1, <1>2, <1>4, <2>1, CopyOvertaken
  <2> QED
    BY <2>2, CopyUnfolds
<1> QED
  BY <1>1, <1>2, <1>3, <1>4 DEF X!LayersSound, Follows

LEMMA EntryKeepsSound ==
  ASSUME LayersSettings, X!LayersSound, (\E s \in Entries : X!Open(s)) \/ X!StoreAtr \/ X!StoreStop
  PROVE  X!LayersSound'
<1> DEFINE row == x1  entering == x2  Steps == [step : {"none", "atr", "stop"}, atr : Nat, hard_stop : Nat]
<1>1. /\ X!SoundRow(row) /\ row \in X!AnyRow /\ entering \in Steps /\ X!SetupSound /\ x6 \in Nat
      /\ \A u \in ExitChecks : x7[u] # "idle" => CopyFits(x7[u], x1, x8[u], x9[u])
  BY CopyUnfolds DEF X!LayersSound, X!SetupSound, X!SoundRow
<1>2. /\ entering.step \in {"none", "atr", "stop"} /\ entering.atr \in Nat /\ entering.hard_stop \in Nat
      /\ row.status \in {"none", "open", "closed"} /\ row.settled \in BOOLEAN /\ row.stop \in Nat
  BY <1>1, RowFields
<1>3. ASSUME NEW s \in Entries, X!Open(s) PROVE X!LayersSound'
  <2> DEFINE new == [X!NoRow EXCEPT !.status = "open", !.entry = s.price, !.day = x6, !.stop = s.stop,
                                    !.settled = s.atr = 0]
             hard == s.price - (SwingConfig.hard_mult * s.atr) \div 10
  <2>1. /\ x1' = new /\ row.status = "none"
        /\ x2' = IF s.atr > 0 THEN [step |-> "atr", atr |-> s.atr, hard_stop |-> hard] ELSE X!NoSetup
        /\ x3' = x3 /\ x4' = x4 /\ x6' = x6 /\ x7' = x7 /\ x8' = x8 /\ x9' = x9
    BY <1>3 DEF X!Open
  <2>2. /\ s.price \in Nat /\ s.stop \in Nat /\ s.atr \in Nat
    BY DEF LayersSettings
  <2>3. s.atr > 0 => hard \in 1 .. s.price
    <3>1. \A a, b \in Nat : (a * b) \div 10 \in Nat
      <4>1. \A a, b \in Nat : a * b \in Nat
        OBVIOUS
      <4>2. \A x \in Nat : x \div 10 \in Nat
        OBVIOUS
      <4> QED
        BY <4>1, <4>2
    <3>2. SwingConfig.hard_mult \in Nat /\ (s.atr > 0 => (SwingConfig.hard_mult * s.atr) \div 10 < s.price)
      BY DEF LayersSettings
    <3> QED
      BY <2>2, <3>1, <3>2
  <2> HIDE DEF hard
  <2>4. Opens(s.price, x6, s.stop, s.atr, new)
    BY DEF Opens
  <2> HIDE DEF new
  <2>5. /\ new \in X!AnyRow /\ new.atr = 0 /\ ~new.trailing /\ new.status = "open" /\ new.entry = s.price
        /\ new.settled => s.atr = 0
    BY <1>1, <2>2, <2>4, RowOpened
  <2>6. \A u \in ExitChecks : x7'[u] = "idle"
    BY <1>1, <2>1 DEF CopyFits
  <2>7. X!SoundRow(new)
    BY <2>5 DEF X!SoundRow
  <2>8. x2' \in Steps
    BY <2>1, <2>2, <2>3 DEF X!NoSetup
  <2>9. X!SetupSound'
    BY <2>1, <2>2, <2>3, <2>5, <2>8 DEF X!SetupSound, X!NoSetup
  <2> QED
    BY <2>1, <2>6, <2>7, <2>9 DEF X!LayersSound
<1>4. ASSUME X!StoreAtr PROVE X!LayersSound'
  <2> DEFINE w == [row EXCEPT !.atr = entering.atr, !.hard_stop = entering.hard_stop]
  <2>1. /\ entering.step = "atr" /\ x2' = [entering EXCEPT !.step = "stop"] /\ X!Write(w) /\ X!Overtake(ExitChecks)
        /\ x3' = x3 /\ x4' = x4 /\ x6' = x6 /\ x7' = x7 /\ x8' = x8 /\ SetsAtr(row, entering.atr, entering.hard_stop, w)
    BY <1>4 DEF X!StoreAtr, SetsAtr
  <2> HIDE DEF w
  <2>2. row.status # "none" /\ ~row.settled /\ row.atr = 0 /\ entering.atr > 0 /\ entering.hard_stop \in 1 .. row.entry
    BY <1>1, <2>1 DEF X!SetupSound
  <2>3. /\ w \in X!AnyRow /\ w.atr = entering.atr /\ w.hard_stop = entering.hard_stop /\ w.entry = row.entry
        /\ w.status = row.status /\ w.settled = row.settled /\ w.trailing = row.trailing
    <3> HIDE DEF row, entering
    <3> QED
      BY <1>1, <1>2, <2>1, AtrWritten
  <2>4. Follows(row, w)
    BY <2>2, <2>3 DEF Follows, X!SoundRow
  <2>5. /\ x2' \in Steps /\ x2'.step = "stop" /\ x2'.atr = entering.atr /\ x2'.hard_stop = entering.hard_stop
    BY <1>1, <2>1
  <2>6. x1' = w \/ x1' = row
    BY <2>1 DEF X!Write
  <2>7. X!SetupSound'
    BY <2>2, <2>3, <2>5, <2>6 DEF X!SetupSound
  <2> QED
    BY <2>1, <2>2, <2>4, <2>7, SetupKeepsSound
<1>5. ASSUME X!StoreStop PROVE X!LayersSound'
  <2> DEFINE w == [row EXCEPT !.stop = entering.hard_stop, !.settled = TRUE]
  <2>1. /\ entering.step = "stop" /\ x2' = X!NoSetup /\ X!Write(w) /\ X!Overtake(ExitChecks)
        /\ x3' = x3 /\ x4' = x4 /\ x6' = x6 /\ x7' = x7 /\ x8' = x8 /\ SetsUp(row, entering.hard_stop, w)
    BY <1>5 DEF X!StoreStop, SetsUp
  <2> HIDE DEF w
  <2>2. row.status # "none"
    BY <1>1, <2>1 DEF X!SetupSound
  <2>3. /\ w \in X!AnyRow /\ w.atr = row.atr /\ w.hard_stop = row.hard_stop /\ w.entry = row.entry
        /\ w.status = row.status /\ w.settled /\ w.trailing = row.trailing
    <3> HIDE DEF row, entering
    <3> QED
      BY <1>1, <1>2, <2>1, SetupWritten
  <2>4. Follows(row, w)
    BY <1>1, <2>2, <2>3 DEF Follows, X!SoundRow
  <2>5. /\ x2' \in Steps /\ x2'.step = "none"
    BY <2>1 DEF X!NoSetup
  <2>6. X!SetupSound'
    BY <2>5 DEF X!SetupSound
  <2> QED
    BY <2>1, <2>2, <2>4, <2>6, SetupKeepsSound
<1> QED
  BY <1>3, <1>4, <1>5

\* A new quote, a new day, and the service starting again.
LEMMA MarketKeepsSound ==
  ASSUME X!LayersSound, X!Restart \/ X!Move \/ X!NextDay \/ UNCHANGED X!vars
  PROVE  X!LayersSound'
<1>1. /\ X!SoundRow(x1) /\ X!SetupSound /\ x6 \in Nat /\ x3 \in SeenPrices /\ x4 \in X!Regimes
      /\ DOMAIN x7 = ExitChecks /\ DOMAIN x8 = ExitChecks /\ DOMAIN x9 = ExitChecks
      /\ \A u \in ExitChecks : x7[u] # "idle" => CopyFits(x7[u], x1, x8[u], x9[u])
  BY CopyUnfolds DEF X!LayersSound
<1>2. x1' = x1
  BY DEF X!Restart, X!Move, X!NextDay, X!vars, X!Market
<1>3. CASE X!Restart
  <2>1. /\ x2' = X!NoSetup /\ x3' = x3 /\ x4' = x4 /\ x6' = x6
        /\ x7' = [t \in ExitChecks |-> "idle"] /\ x8' = [t \in ExitChecks |-> X!NoRow]
        /\ x9' = [t \in ExitChecks |-> X!NoLook]
    BY <1>3 DEF X!Restart, X!Market
  <2>2. x2' \in [step : {"none", "atr", "stop"}, atr : Nat, hard_stop : Nat] /\ x2'.step = "none"
    BY <2>1 DEF X!NoSetup
  <2>3. X!SetupSound'
    BY <2>2 DEF X!SetupSound
  <2> QED
    BY <1>1, <1>2, <2>1, <2>3 DEF X!LayersSound
<1>4. CASE X!Move \/ X!NextDay \/ UNCHANGED X!vars
  <2>1. x2' = x2 /\ x7' = x7 /\ x8' = x8 /\ x9' = x9
    BY <1>4 DEF X!Move, X!NextDay, X!vars
  <2>2. x3' \in SeenPrices /\ x4' \in X!Regimes /\ x6' \in Nat
    BY <1>1, <1>4 DEF X!Move, X!NextDay, X!vars
  <2>3. X!SetupSound'
    BY <1>1, <1>2, <2>1 DEF X!SetupSound
  <2>4. \A u \in ExitChecks : x7'[u] # "idle" => X!CopySound(u)'
    BY <1>1, <1>2, <2>1, CopyUnfolds
  <2> QED
    BY <1>1, <1>2, <2>1, <2>2, <2>3, <2>4 DEF X!LayersSound
<1> QED
  BY <1>3, <1>4

LEMMA LayersSoundInit ==
  ASSUME X!Init PROVE X!LayersSound
<1>1. /\ x1 = X!NoRow /\ x2 = X!NoSetup /\ x3 \in SeenPrices /\ x4 = "NEUTRAL" /\ x6 = 0
      /\ x7 = [t \in ExitChecks |-> "idle"] /\ x8 = [t \in ExitChecks |-> X!NoRow]
      /\ x9 = [t \in ExitChecks |-> X!NoLook]
  BY DEF X!Init
<1>2. x1 \in X!AnyRow /\ x1.status = "none" /\ x1.atr = 0 /\ x1.trailing = FALSE /\ x1.settled = FALSE
  BY <1>1 DEF X!NoRow, X!AnyRow
<1>3. x2 \in [step : {"none", "atr", "stop"}, atr : Nat, hard_stop : Nat] /\ x2.step = "none"
  BY <1>1 DEF X!NoSetup
<1>4. X!SoundRow(x1)
  BY <1>2 DEF X!SoundRow
<1>5. X!SetupSound
  BY <1>2, <1>3 DEF X!SetupSound
<1>6. DOMAIN x7 = ExitChecks /\ DOMAIN x8 = ExitChecks /\ DOMAIN x9 = ExitChecks
      /\ \A t \in ExitChecks : x7[t] = "idle"
  BY <1>1
<1>7. x4 \in X!Regimes /\ x6 \in Nat
  BY <1>1 DEF X!Regimes
<1> QED
  BY <1>1, <1>4, <1>5, <1>6, <1>7 DEF X!LayersSound

\* A check that lets the position be has seen a price above its stops.
LEMMA ObeyedAtTheEnd ==
  ASSUME X!LayersSound, NEW t \in ExitChecks, X!Decide(t), x7'[t] = "idle", x1.status = "open"
  PROVE  /\ x8[t].settled => x9[t].price > X!HardStop(x1)
         /\ ~x9[t].raced => /\ x9[t].price > X!StopOf(x1)
                            /\ x1.trailing => X!StopOf(x1) >= X!Trail(x1, x9[t].mult)
<1> DEFINE r == x1  q == x8[t]  n == x9[t].price  m == x9[t].mult
<1>1. /\ CopyFits("decide", r, q, x9[t]) /\ X!SoundRow(r) /\ x1.status = "open" /\ ~X!Stopped(q, n, m)
  <2>1. x7[t] = "decide" /\ DOMAIN x7 = ExitChecks
    BY DEF X!Decide, X!LayersSound
  <2>2. ~X!Stopped(q, n, m)
    BY <2>1 DEF X!Decide, X!Goto
  <2> QED
    BY <2>1, <2>2, CopyUnfolds DEF X!LayersSound
<1> HIDE DEF r, q, n, m
<1>2. /\ q \in X!AnyRow /\ r \in X!AnyRow /\ q.stop \in Nat /\ r.stop \in Nat /\ q.atr \in Nat /\ n \in Nat /\ m \in Nat
      /\ q.trailing => q.atr > 0
  <2>1. q \in X!AnyRow /\ r \in X!AnyRow /\ n \in Nat /\ m \in Nat
    BY <1>1 DEF CopyFits, X!SoundRow, AnyLook, n, m
  <2> QED
    BY <1>1, <2>1, RowFields DEF CopyFits, X!SoundRow
<1>3. n > X!HardStop(q) /\ q.entry = r.entry
  BY <1>1 DEF CopyFits, n
<1>4. /\ q.stop # 0 => n > q.stop
      /\ q.trailing => n > X!Trail(q, m)
  <2>1. q.stop # 0 => ~(n <= q.stop)
    BY <1>1 DEF X!Stopped
  <2>2. q.trailing => ~(n <= X!Greater(X!Trail(q, m), X!StopOf(q))) /\ X!Trail(q, m) \in Int /\ X!StopOf(q) \in Nat
    BY <1>1, <1>2, TrailsAgree, StopValues, RowFields DEF X!Stopped, CopyFits
  <2> QED
    BY <1>2, <2>1, <2>2 DEF X!Greater
<1>5. ASSUME q.settled PROVE n > X!HardStop(r)
  BY <1>1, <1>3, <1>5, StopsAgree DEF CopyFits
<1>6. ASSUME ~x9[t].raced PROVE n > X!StopOf(r) /\ (r.trailing => X!StopOf(r) >= X!Trail(r, m))
  <2>1. /\ q.atr = r.atr /\ q.hard_stop = r.hard_stop /\ q.trailing = r.trailing /\ r.high <= q.high
        /\ X!Written("decide", r, q, m)
    BY <1>1, <1>6 DEF CopyFits, r, m
  <2>2. X!HardStop(q) = X!HardStop(r) /\ (q.stop = r.stop => X!StopOf(q) = X!StopOf(r))
    BY <1>3, <2>1, StopsAgree
  <2>3. X!Trail(r, m) <= X!Trail(q, m) /\ X!Trail(q, m) \in Int /\ X!Trail(r, m) \in Int
    BY <1>2, <2>1, TrailsAgree
  <2>4. q.trailing => X!StopOf(q) \in Nat
    BY <1>1, <1>2, StopValues DEF CopyFits
  <2>5. CASE r.stop = q.stop /\ (q.trailing => X!Trail(q, m) <= X!StopOf(q))
    <3>1. n > X!StopOf(r)
      BY <1>3, <1>4, <2>2, <2>5 DEF X!StopOf
    <3>2. r.trailing => X!StopOf(r) >= X!Trail(r, m)
      BY <2>1, <2>2, <2>3, <2>4, <2>5
    <3> QED
      BY <3>1, <3>2
  <2>6. CASE q.trailing /\ r.stop = X!Trail(q, m) /\ X!Trail(q, m) > X!StopOf(q)
    <3>1. X!StopOf(r) = r.stop
      BY <1>2, <2>3, <2>4, <2>6 DEF X!StopOf
    <3> QED
      BY <1>2, <1>4, <2>3, <2>6, <3>1
  <2> QED
    BY <2>1, <2>5, <2>6 DEF X!Written
<1> QED
  BY <1>5, <1>6 DEF r, q, n, m

\* Every step that takes a check on.
LEMMA StopObeyedAtAll ==
  ASSUME LayersSettings, X!LayersSound, [X!Next]_(X!vars)
  PROVE  X!StopObeyedStep
<1> SUFFICES ASSUME NEW t \in ExitChecks, x7[t] # "idle", x7'[t] # x7[t]
             PROVE  /\ NotLowered(t)
                    /\ X!Decide(t) /\ x7'[t] = "idle" /\ x1.status = "open" =>
                         /\ x8[t].settled => x9[t].price > X!HardStop(x1)
                         /\ ~x9[t].raced => /\ x9[t].price > X!StopOf(x1)
                                            /\ x1.trailing => X!StopOf(x1) >= X!Trail(x1, x9[t].mult)
  BY DEF X!StopObeyedStep, NotLowered
<1>1. X!Next
  BY DEF X!vars
<1>2. X!Restart \/ \E u \in ExitChecks : X!Check(u)
  BY <1>1 DEF X!Next, X!Open, X!StoreAtr, X!StoreStop, X!Move, X!NextDay
<1>3. CASE X!Restart
  <2>1. x1' = x1
    BY <1>3 DEF X!Restart
  <2> QED
    BY <2>1, SameNotLowered, ObeyedAtTheEnd
<1>4. ASSUME NEW u \in ExitChecks, X!Check(u) PROVE NotLowered(t)
  <2>1. \E l : X!Goto(u, l)
    <3>1. X!Begin(u) \/ X!Layers(u) \/ X!RaiseHigh(u) \/ X!Activate(u) => \E l : X!Goto(u, l)
      BY DEF X!Begin, X!Layers, X!RaiseHigh, X!Activate
    <3>2. X!BreakEven(u) \/ X!RaiseTrail(u) \/ X!Decide(u) \/ X!Sell(u) => \E l : X!Goto(u, l)
      BY DEF X!BreakEven, X!RaiseTrail, X!Decide, X!Sell, X!Forget
    <3> QED
      BY <1>4, <3>1, <3>2 DEF X!Check
  <2>2. u = t
    BY <2>1 DEF X!Goto, X!LayersSound
  <2> QED
    BY <1>4, <2>2, CheckSteps
<1> QED
  BY <1>2, <1>3, <1>4, ObeyedAtTheEnd

\* However many exit checks overlap, with each other and with the set-up of the entry: a
\* check nobody has overtaken never lowers the stop or the high-water mark of the row
\* (exit_manager.py:289), one that was overtaken lowers them to no less than it had read,
\* and the trailing flag never goes back; a check that leaves a set-up position open has
\* seen a price above its hard stop, and if nobody overtook it, above the stop it leaves,
\* which is at the trail or above where the trail is set; whatever the prices, the
\* regimes, the multiples, the order of the triggers and the restarts.
THEOREM StopsStayObeyed ==
  ASSUME LayersSettings
  PROVE  PartsSpec => StopObeyed
<1> DEFINE Sound == part = "layers" => X!LayersSound
           Step  == part = "layers" => X!StopObeyedStep
<1>1. PartsInit => Sound
  <2> SUFFICES ASSUME PartsInit, part = "layers" PROVE X!LayersSound
    OBVIOUS
  <2>1. X!Init
    BY DEF PartsInit
  <2> QED
    BY <2>1, LayersSoundInit
<1>2. Sound /\ [PartsNext]_all => Sound' /\ Step
  <2> SUFFICES ASSUME X!LayersSound, part = "layers", [PartsNext]_all PROVE X!LayersSound' /\ X!StopObeyedStep
    BY OnePart
  <2>1. [X!Next]_(X!vars)
    BY OnePart
  <2>2. \/ (\E s \in Entries : X!Open(s)) \/ X!StoreAtr \/ X!StoreStop
        \/ X!Restart \/ X!Move \/ X!NextDay \/ UNCHANGED X!vars
        \/ \E t \in ExitChecks : X!Check(t)
    BY <2>1 DEF X!Next
  <2>3. X!LayersSound'
    BY <2>2, EntryKeepsSound, MarketKeepsSound, CheckSteps
  <2> QED
    BY <2>1, <2>3, StopObeyedAtAll
<1>3. Sound /\ [PartsNext]_all => [Step]_all
  BY <1>2
<1>4. Sound /\ [PartsNext]_all => Sound'
  BY <1>2
<1>5. StopObeyed <=> [][Step]_all
  BY DEF StopObeyed
<1> HIDE DEF Sound, Step
<1> QED
  BY <1>1, <1>3, <1>4, <1>5, PTL DEF PartsSpec

(***************************************************************************)
(* The weight tuner.  The inductive invariant: the weights are natural     *)
(* numbers, and WeightsWhole.                                              *)
(***************************************************************************)

\* BOUNDS are not negative, the first weights are a partition of the whole up to rounding,
\* and only factors are measured.
TunerSettings ==
  /\ Lowest \in [T!Factors -> Nat] /\ Highest \in [T!Factors -> Nat]
  /\ PriorWeights \in [TunedRegimes -> [T!Factors -> Nat]]
  /\ \A r \in TunedRegimes : 2 * T!Total(PriorWeights[r]) \in (2 * T!Whole - 10) .. (2 * T!Whole + 10)
  /\ WeeklyStep \in Nat
  /\ \A m \in IcRows : m.ic \in Int
  /\ MeasuredFactors \subseteq T!Factors

WeightsSound == x1 \in [TunedRegimes -> [T!Factors -> Nat]] /\ T!WeightsWhole

LEMMA TotalNat ==
  ASSUME NEW w \in [T!Factors -> Nat]
  PROVE  T!Total(w) \in Nat /\ \A f \in T!Factors : w[f] <= T!Total(w)
<1>1. /\ w.technical \in Nat /\ w.momentum \in Nat /\ w.quality \in Nat /\ w.macro \in Nat
      /\ w.sentiment \in Nat /\ w.pead \in Nat /\ w.flow \in Nat /\ w.value \in Nat
  BY DEF T!Factors
<1>2. T!Total(w) \in Nat
  BY <1>1 DEF T!Total
<1>3. /\ w.technical <= T!Total(w) /\ w.momentum <= T!Total(w) /\ w.quality <= T!Total(w)
      /\ w.macro <= T!Total(w) /\ w.sentiment <= T!Total(w) /\ w.pead <= T!Total(w)
      /\ w.flow <= T!Total(w) /\ w.value <= T!Total(w)
  BY <1>1 DEF T!Total
<1> QED
  BY <1>2, <1>3 DEF T!Factors

LEMMA RoundsNear ==
  ASSUME NEW v \in Nat, NEW t \in Nat, t > 0
  PROVE  /\ T!Ratio(v, t) \in Nat
         /\ 2 * (t * T!Ratio(v, t)) <= 2 * v + t
         /\ 2 * v - t <= 2 * (t * T!Ratio(v, t))
<1> DEFINE n == 2 * v + t
           d == 2 * t
           q == n \div d
<1>1. n \in Nat /\ d \in Nat /\ d > 0
  OBVIOUS
<1>2. q \in Nat /\ d * q <= n /\ n < d * q + d
  <2> HIDE DEF n, d
  <2> QED
    BY <1>1
<1>3. d * q = 2 * (t * q)
  <2> HIDE DEF q, n
  <2>1. \A a \in Nat : (2 * t) * a = 2 * (t * a)
    OBVIOUS
  <2> QED
    BY <1>2, <2>1 DEF d
<1>4. t * q \in Nat
  <2> HIDE DEF q
  <2> QED
    BY <1>2
<1>5. T!Ratio(v, t) = q
  BY DEF T!Ratio
<1>6. \A p \in Nat : 2 * p <= n /\ n < 2 * p + d => 2 * p <= 2 * v + t /\ 2 * v - t <= 2 * p
  OBVIOUS
<1> HIDE DEF n, d, q
<1> QED
  BY <1>2, <1>3, <1>4, <1>5, <1>6

\* Two shares of one whole, each rounded to the nearest unit.
LEMMA SharesKept ==
  ASSUME NEW whole \in Nat, NEW t \in Nat, t > 0, NEW a \in Nat, NEW b \in Nat, NEW p \in Nat, NEW q \in Nat,
         2 * (t * p) <= 2 * (a * whole) + t, 2 * (b * whole) - t <= 2 * (t * q)
  PROVE  2 * (p * b - q * a) <= a + b
<1> DEFINE tp == t * p
           tq == t * q
           aW == a * whole
           bW == b * whole
           d == p * b - q * a
<1>1. tp \in Nat /\ tq \in Nat /\ aW \in Nat /\ bW \in Nat /\ d \in Int
  OBVIOUS
<1>2. /\ b * (2 * tp) <= b * (2 * aW + t)
      /\ a * (2 * bW - t) <= a * (2 * tq)
  <2>1. \A x, y \in Int, c \in Nat : x <= y => c * x <= c * y
    OBVIOUS
  <2>2. 2 * tp \in Int /\ 2 * aW + t \in Int /\ 2 * bW - t \in Int /\ 2 * tq \in Int
    BY <1>1
  <2>3. 2 * tp <= 2 * aW + t /\ 2 * bW - t <= 2 * tq
    OBVIOUS
  <2> HIDE DEF tp, tq, aW, bW
  <2> QED
    BY <2>1, <2>2, <2>3
<1>3. /\ b * (2 * tp) = 2 * (t * (p * b))
      /\ a * (2 * tq) = 2 * (t * (q * a))
      /\ b * (2 * aW + t) = 2 * (a * bW) + t * b
      /\ a * (2 * bW - t) = 2 * (a * bW) - t * a
  OBVIOUS
<1>4. t * d = t * (p * b) - t * (q * a)
  OBVIOUS
<1>5. t * (a + b) = t * a + t * b
  OBVIOUS
<1>6. 2 * (t * d) <= t * (a + b)
  <2> DEFINE u == t * (p * b)
             w == t * (q * a)
             k == a * bW
             ta == t * a
             tb == t * b
  <2>1. u \in Nat /\ w \in Nat /\ k \in Nat /\ ta \in Nat /\ tb \in Nat
    OBVIOUS
  <2>2. 2 * u <= 2 * k + tb /\ 2 * k - ta <= 2 * w
    BY <1>2, <1>3, Zenon
  <2>3. t * d = u - w /\ t * (a + b) = ta + tb
    BY <1>4, <1>5, Zenon
  <2> HIDE DEF u, w, k, ta, tb, d
  <2>4. 2 * (u - w) <= ta + tb
    BY <2>1, <2>2
  <2> QED
    BY <2>3, <2>4
<1>7. \A x \in Int, y \in Nat : 2 * (t * x) <= t * y => 2 * x <= y
  <2> SUFFICES ASSUME NEW x \in Int, NEW y \in Nat, 2 * x > y PROVE 2 * (t * x) > t * y
    OBVIOUS
  <2>1. \A z \in Nat : z > 0 => t * z > 0
    OBVIOUS
  <2>2. t * (2 * x - y) > 0
    BY <2>1
  <2>3. t * (2 * x - y) = 2 * (t * x) - t * y
    OBVIOUS
  <2> QED
    BY <2>2, <2>3
<1> HIDE DEF d
<1> QED
  BY <1>1, <1>6, <1>7 DEF d

LEMMA TotalsNear ==
  ASSUME NEW y \in [T!Factors -> Nat], NEW z \in [T!Factors -> Nat], NEW t \in Nat,
         \A f \in T!Factors : 2 * y[f] <= 2 * z[f] + t /\ 2 * z[f] - t <= 2 * y[f]
  PROVE  2 * T!Total(y) <= 2 * T!Total(z) + 8 * t /\ 2 * T!Total(z) - 8 * t <= 2 * T!Total(y)
<1>1. /\ y.technical \in Nat /\ y.momentum \in Nat /\ y.quality \in Nat /\ y.macro \in Nat
      /\ y.sentiment \in Nat /\ y.pead \in Nat /\ y.flow \in Nat /\ y.value \in Nat
      /\ z.technical \in Nat /\ z.momentum \in Nat /\ z.quality \in Nat /\ z.macro \in Nat
      /\ z.sentiment \in Nat /\ z.pead \in Nat /\ z.flow \in Nat /\ z.value \in Nat
  BY DEF T!Factors
<1>2. /\ 2 * y.technical <= 2 * z.technical + t /\ 2 * z.technical - t <= 2 * y.technical
      /\ 2 * y.momentum <= 2 * z.momentum + t /\ 2 * z.momentum - t <= 2 * y.momentum
      /\ 2 * y.quality <= 2 * z.quality + t /\ 2 * z.quality - t <= 2 * y.quality
      /\ 2 * y.macro <= 2 * z.macro + t /\ 2 * z.macro - t <= 2 * y.macro
      /\ 2 * y.sentiment <= 2 * z.sentiment + t /\ 2 * z.sentiment - t <= 2 * y.sentiment
      /\ 2 * y.pead <= 2 * z.pead + t /\ 2 * z.pead - t <= 2 * y.pead
      /\ 2 * y.flow <= 2 * z.flow + t /\ 2 * z.flow - t <= 2 * y.flow
      /\ 2 * y.value <= 2 * z.value + t /\ 2 * z.value - t <= 2 * y.value
  BY DEF T!Factors
<1>3. 2 * (y.technical + y.momentum + y.quality + y.macro + y.sentiment + y.pead + y.flow + y.value)
        <= 2 * (z.technical + z.momentum + z.quality + z.macro + z.sentiment + z.pead + z.flow + z.value) + 8 * t
  BY <1>1, <1>2
<1>4. 2 * (z.technical + z.momentum + z.quality + z.macro + z.sentiment + z.pead + z.flow + z.value) - 8 * t
        <= 2 * (y.technical + y.momentum + y.quality + y.macro + y.sentiment + y.pead + y.flow + y.value)
  BY <1>1, <1>2
<1> QED
  BY <1>3, <1>4, Zenon DEF T!Total

\* A factor times the weights is the factor times their total.
LEMMA TotalTimes ==
  ASSUME NEW k \in Nat, NEW r \in [T!Factors -> Nat]
  PROVE  /\ T!Total([w \in T!Factors |-> k * r[w]]) = k * T!Total(r)
         /\ T!Total([w \in T!Factors |-> r[w] * k]) = k * T!Total(r)
<1> DEFINE a == r.technical  b == r.momentum  c == r.quality  d == r.macro
           e == r.sentiment  f == r.pead  g == r.flow  h == r.value
           p == a + b + c + d
           q == e + f + g + h
           m == p + q
           y == [w \in T!Factors |-> k * r[w]]
           z == [w \in T!Factors |-> r[w] * k]
<1>1. a \in Nat /\ b \in Nat /\ c \in Nat /\ d \in Nat /\ e \in Nat /\ f \in Nat /\ g \in Nat /\ h \in Nat
  BY DEF T!Factors
<1>2. /\ y.technical = k * a /\ y.momentum = k * b /\ y.quality = k * c /\ y.macro = k * d
      /\ y.sentiment = k * e /\ y.pead = k * f /\ y.flow = k * g /\ y.value = k * h
  BY Zenon DEF T!Factors
<1>3. \A w \in T!Factors : k * r[w] = r[w] * k
  OBVIOUS
<1>4. y = z
  BY <1>3, Zenon
<1>5. T!Total(r) = a + b + c + d + e + f + g + h
  BY Zenon DEF T!Total
<1> HIDE DEF y, z
<1>6. T!Total(y) = k * a + k * b + k * c + k * d + k * e + k * f + k * g + k * h
  BY <1>2, Zenon DEF T!Total
<1> HIDE DEF a, b, c, d, e, f, g, h
<1>7. /\ k * a \in Nat /\ k * b \in Nat /\ k * c \in Nat /\ k * d \in Nat
      /\ k * e \in Nat /\ k * f \in Nat /\ k * g \in Nat /\ k * h \in Nat
      /\ p \in Nat /\ q \in Nat /\ T!Total(r) = m
  BY <1>1, <1>5
<1>8. k * p = k * a + k * b + k * c + k * d
  BY <1>1
<1>9. k * q = k * e + k * f + k * g + k * h
  BY <1>1
<1>10. k * m = k * p + k * q
  <2> HIDE DEF p, q
  <2> QED
    BY <1>7
<1> HIDE DEF p, q, m
<1>11. T!Total(y) = k * m
  <2> DEFINE n1 == k * a  n2 == k * b  n3 == k * c  n4 == k * d  n5 == k * e  n6 == k * f  n7 == k * g  n8 == k * h
             l == k * p
             u == k * q
             v == k * m
  <2>1. /\ T!Total(y) = n1 + n2 + n3 + n4 + n5 + n6 + n7 + n8
        /\ l = n1 + n2 + n3 + n4 /\ u = n5 + n6 + n7 + n8 /\ v = l + u
    BY <1>6, <1>8, <1>9, <1>10, Zenon
  <2>2. n1 \in Nat /\ n2 \in Nat /\ n3 \in Nat /\ n4 \in Nat /\ n5 \in Nat /\ n6 \in Nat /\ n7 \in Nat /\ n8 \in Nat
    BY <1>7, Zenon
  <2>3. T!Total(y) = v
    <3> HIDE DEF n1, n2, n3, n4, n5, n6, n7, n8, l, u, v
    <3> QED
      BY <2>1, <2>2
  <2> QED
    BY <2>3, Zenon
<1>12. T!Total(y) = k * T!Total(r) /\ T!Total(z) = k * T!Total(r)
  BY <1>4, <1>7, <1>11
<1> QED
  BY <1>12 DEF y, z

\* Shares of a whole: their sum is the whole up to half a unit for each.
LEMMA SumNear ==
  ASSUME NEW whole \in Nat, NEW s \in [T!Factors -> Nat], NEW r \in [T!Factors -> Nat],
         NEW t \in Nat, t > 0, t = T!Total(s),
         \A f \in T!Factors : /\ 2 * (t * r[f]) <= 2 * (s[f] * whole) + t
                              /\ 2 * (s[f] * whole) - t <= 2 * (t * r[f])
  PROVE  2 * T!Total(r) \in (2 * whole - 8) .. (2 * whole + 8)
<1> DEFINE y == [f \in T!Factors |-> t * r[f]]
           z == [f \in T!Factors |-> s[f] * whole]
           tot == T!Total(r)
<1>1. tot \in Nat
  BY TotalNat
<1>2. y \in [T!Factors -> Nat] /\ z \in [T!Factors -> Nat]
  OBVIOUS
<1>3. T!Total(y) \in Nat /\ T!Total(z) \in Nat
  BY <1>2, TotalNat
<1>4. T!Total(y) = t * tot
  BY TotalTimes
<1>5. T!Total(z) = t * whole
  <2>1. T!Total(z) = whole * t
    BY TotalTimes
  <2> HIDE DEF z
  <2> QED
    BY <2>1
<1>6. \A f \in T!Factors : y[f] \in Nat /\ z[f] \in Nat /\ 2 * y[f] <= 2 * z[f] + t /\ 2 * z[f] - t <= 2 * y[f]
  OBVIOUS
<1> HIDE DEF y, z
<1>7. 2 * T!Total(y) <= 2 * T!Total(z) + 8 * t /\ 2 * T!Total(z) - 8 * t <= 2 * T!Total(y)
  BY <1>2, <1>6, TotalsNear
<1>8. 2 * (t * tot) <= 2 * (t * whole) + 8 * t /\ 2 * (t * whole) - 8 * t <= 2 * (t * tot)
  BY <1>4, <1>5, <1>7, Zenon
<1>9. \A a, b \in Nat : 2 * (t * a) <= 2 * (t * b) + 8 * t => 2 * a <= 2 * b + 8
  <2> SUFFICES ASSUME NEW a \in Nat, NEW b \in Nat, a > b + 4 PROVE 2 * (t * a) > 2 * (t * b) + 8 * t
    OBVIOUS
  <2>1. \A m \in Nat : m > 0 => t * m > 0
    OBVIOUS
  <2>2. t * (a - (b + 4)) > 0
    BY <2>1
  <2>3. t * (a - (b + 4)) = t * a - t * b - 4 * t
    OBVIOUS
  <2> QED
    BY <2>2, <2>3
<1>10. \A a, b \in Nat : 2 * (t * b) - 8 * t <= 2 * (t * a) => 2 * (t * b) <= 2 * (t * a) + 8 * t
  <2> SUFFICES ASSUME NEW a \in Nat, NEW b \in Nat
               PROVE  2 * (t * b) - 8 * t <= 2 * (t * a) => 2 * (t * b) <= 2 * (t * a) + 8 * t
    OBVIOUS
  <2>1. t * b \in Nat /\ t * a \in Nat
    OBVIOUS
  <2> QED
    BY <2>1
<1> HIDE DEF tot
<1>11. 2 * tot <= 2 * whole + 8 /\ 2 * whole <= 2 * tot + 8
  BY <1>1, <1>8, <1>9, <1>10
<1>12. 2 * tot \in (2 * whole - 8) .. (2 * whole + 8)
  BY <1>1, <1>11
<1> QED
  BY <1>12 DEF tot

\* The weights of one regime after the measured ones moved.
LEMMA SteppedNat ==
  ASSUME TunerSettings, NEW w \in [T!Factors -> Nat], NEW ics, DOMAIN ics \subseteq T!Factors,
         \A f \in DOMAIN ics : ics[f] \in Int
  PROVE  T!Stepped(w, ics) \in [T!Factors -> Nat]
<1> DEFINE gains == [g \in T!Factors |-> T!Gain(ics, g)]
           held == [f \in T!Factors |-> IF f \in DOMAIN ics THEN 0 ELSE w[f]]
<1>1. gains \in [T!Factors -> Nat]
  <2>1. \A g \in T!Factors : T!Gain(ics, g) \in Nat
    BY DEF T!Gain, T!Greater
  <2> QED
    BY <2>1
<1>2. T!Total(gains) \in Nat /\ \A f \in T!Factors : gains[f] <= T!Total(gains)
  <2> HIDE DEF gains
  <2> QED
    BY <1>1, TotalNat
<1>3. T!Budget(w, ics) \in Nat
  <2>1. held \in [T!Factors -> Nat]
    OBVIOUS
  <2>2. T!Total(held) \in Nat
    <3> HIDE DEF held
    <3> QED
      BY <2>1, TotalNat
  <2>3. T!Budget(w, ics) = T!Greater(0, T!Whole - T!Total(held))
    BY DEF T!Budget
  <2> HIDE DEF held
  <2> QED
    BY <2>2, <2>3 DEF T!Greater, T!Whole
<1> SUFFICES ASSUME NEW f \in DOMAIN ics, f \in T!Factors PROVE T!Moved(w, ics, f) \in Nat
  BY DEF T!Stepped
<1>4. Lowest[f] \in Nat /\ Highest[f] \in Nat /\ WeeklyStep \in Nat /\ w[f] \in Nat /\ ics[f] \in Int
  BY DEF TunerSettings
<1>5. T!Goal(w, ics, f) \in Int
  <2>1. CASE ics[f] <= 0
    BY <1>4, <2>1 DEF T!Goal
  <2>2. CASE ics[f] > 0
    <3>1. T!Gain(ics, f) \in Nat /\ T!Gain(ics, f) > 0 /\ gains[f] = T!Gain(ics, f)
      BY <1>4, <2>2 DEF T!Gain, T!Greater
    <3>2. T!Total(gains) > 0
      <4> HIDE DEF gains
      <4> QED
        BY <1>2, <3>1
    <3>3. T!Budget(w, ics) * T!Gain(ics, f) \in Nat
      BY <1>3, <3>1
    <3>4. T!Ratio(T!Budget(w, ics) * T!Gain(ics, f), T!Total(gains)) \in Nat
      <4> HIDE DEF gains
      <4> QED
        BY <1>2, <3>2, <3>3, RoundsNear
    <3>5. T!Goal(w, ics, f)
            = T!Clip(Lowest[f], T!Ratio(T!Budget(w, ics) * T!Gain(ics, f), T!Total(gains)), Highest[f])
      BY <1>4, <2>2 DEF T!Goal
    <3> HIDE DEF gains
    <3> QED
      BY <1>4, <3>4, <3>5 DEF T!Clip, T!Greater, T!Lesser
  <2> QED
    BY <1>4, <2>1, <2>2
<1>6. \A goal \in Int : T!Clip(Lowest[f], w[f] + T!Clip(-WeeklyStep, goal - w[f], WeeklyStep), Highest[f]) \in Nat
  BY <1>4 DEF T!Clip, T!Greater, T!Lesser
<1> QED
  BY <1>5, <1>6 DEF T!Moved

\* A step of the tuner in one regime: natural, whole, and fair to the factors it holds.
LEMMA RetunedFair ==
  ASSUME TunerSettings, NEW w \in [T!Factors -> Nat], NEW ics, DOMAIN ics \subseteq T!Factors,
         \A f \in DOMAIN ics : ics[f] \in Int,
         2 * T!Total(w) \in (2 * T!Whole - 10) .. (2 * T!Whole + 10)
  PROVE  LET v == T!Retuned(w, ics)
         IN  /\ v \in [T!Factors -> Nat]
             /\ 2 * T!Total(v) \in (2 * T!Whole - 10) .. (2 * T!Whole + 10)
             /\ \A f, g \in T!Factors \ DOMAIN ics : 2 * (v[f] * w[g] - v[g] * w[f]) <= w[f] + w[g]
<1> DEFINE s == T!Stepped(w, ics)
           t == T!Total(s)
           v == T!Retuned(w, ics)
<1>1. s \in [T!Factors -> Nat]
  BY SteppedNat
<1>2. \A f \in T!Factors \ DOMAIN ics : s[f] = w[f] /\ w[f] \in Nat
  BY DEF T!Stepped
<1>3. v = IF t = 0 THEN w ELSE T!Normalised(s)
  BY DEF T!Retuned
<1> SUFFICES /\ v \in [T!Factors -> Nat]
             /\ 2 * T!Total(v) \in (2 * T!Whole - 10) .. (2 * T!Whole + 10)
             /\ \A f, g \in T!Factors \ DOMAIN ics : 2 * (v[f] * w[g] - v[g] * w[f]) <= w[f] + w[g]
  OBVIOUS
<1> HIDE DEF s, v
<1>4. t \in Nat
  BY <1>1, TotalNat
<1>5. \A a, b \in Nat : 2 * (a * b - b * a) <= a + b
  OBVIOUS
<1>6. CASE t = 0
  BY <1>2, <1>3, <1>5, <1>6
<1>7. CASE t # 0 /\ t \in T!Whole - 1 .. T!Whole + 1
  <2>1. v = s
    BY <1>3, <1>7 DEF T!Normalised
  <2>2. 2 * T!Total(v) \in (2 * T!Whole - 10) .. (2 * T!Whole + 10)
    BY <1>7, <2>1 DEF T!Whole
  <2> QED
    BY <1>1, <1>2, <1>5, <2>1, <2>2
<1>8. CASE t # 0 /\ t \notin T!Whole - 1 .. T!Whole + 1
  <2>1. v = [f \in T!Factors |-> T!Ratio(s[f] * T!Whole, t)]
    BY <1>3, <1>8 DEF T!Normalised
  <2>2. t > 0 /\ T!Whole \in Nat
    BY <1>4, <1>8 DEF T!Whole
  <2> HIDE DEF t
  <2>3. \A f \in T!Factors : /\ v[f] \in Nat
                             /\ 2 * (t * v[f]) <= 2 * (s[f] * T!Whole) + t
                             /\ 2 * (s[f] * T!Whole) - t <= 2 * (t * v[f])
    <3> TAKE f \in T!Factors
    <3>1. v[f] = T!Ratio(s[f] * T!Whole, t) /\ s[f] * T!Whole \in Nat
      BY <1>1, <2>1, <2>2
    <3> QED
      BY <1>4, <2>2, <3>1, RoundsNear
  <2>4. v \in [T!Factors -> Nat]
    BY <2>1, <2>3
  <2>5. 2 * T!Total(v) \in (2 * T!Whole - 8) .. (2 * T!Whole + 8)
    <3>1. t = T!Total(s)
      BY DEF t
    <3> QED
      BY <1>1, <1>4, <2>2, <2>3, <2>4, <3>1, SumNear
  <2>6. 2 * T!Total(v) \in (2 * T!Whole - 10) .. (2 * T!Whole + 10)
    <3>1. \A n \in Int : n \in (2 * T!Whole - 8) .. (2 * T!Whole + 8) => n \in (2 * T!Whole - 10) .. (2 * T!Whole + 10)
      BY <2>2
    <3> QED
      BY <2>4, <2>5, <3>1, TotalNat
  <2>7. ASSUME NEW f \in T!Factors \ DOMAIN ics, NEW g \in T!Factors \ DOMAIN ics
        PROVE  2 * (v[f] * w[g] - v[g] * w[f]) <= w[f] + w[g]
    <3>1. /\ v[f] \in Nat /\ v[g] \in Nat /\ w[f] \in Nat /\ w[g] \in Nat
          /\ 2 * (t * v[f]) <= 2 * (w[f] * T!Whole) + t
          /\ 2 * (w[g] * T!Whole) - t <= 2 * (t * v[g])
      BY <1>2, <2>3
    <3> QED
      BY <1>4, <2>2, <3>1, SharesKept
  <2> QED
    BY <2>4, <2>6, <2>7
<1> QED
  BY <1>6, <1>7, <1>8

LEMMA TunerStepSound ==
  ASSUME TunerSettings, WeightsSound, [T!Next]_(T!vars)
  PROVE  WeightsSound' /\ T!HeldSharesStep
<1>1. \A r \in TunedRegimes : /\ x1[r] \in [T!Factors -> Nat]
                              /\ 2 * T!Total(x1[r]) \in (2 * T!Whole - 10) .. (2 * T!Whole + 10)
  BY DEF WeightsSound, T!WeightsWhole
<1>2. \A a, b \in Nat : 2 * (a * b - b * a) <= a + b
  OBVIOUS
<1>3. ASSUME x1' = x1 PROVE WeightsSound' /\ T!HeldSharesStep
  <2>1. WeightsSound' /\ T!WeightsWhole'
    BY <1>3 DEF WeightsSound, T!WeightsWhole
  <2> QED
    BY <1>1, <1>2, <1>3, <2>1 DEF T!HeldSharesStep
<1>4. ASSUME NEW found \in [MeasuredFactors -> IcRows], NEW requireCi \in BOOLEAN, T!Tune(found, requireCi)
      PROVE  WeightsSound' /\ T!HeldSharesStep
  <2> DEFINE ics == T!Ics(found, requireCi)
  <2>1. DOMAIN ics \subseteq T!Factors /\ \A f \in DOMAIN ics : ics[f] \in Int
    BY DEF TunerSettings, T!Ics
  <2>2. CASE DOMAIN ics = {}
    BY <1>3, <1>4, <2>2 DEF T!Tune
  <2>3. CASE DOMAIN ics # {}
    <3>1. x1' = [r \in TunedRegimes |-> T!Retuned(x1[r], ics)] /\ x3' = ics
      BY <1>4, <2>3 DEF T!Tune
    <3> HIDE DEF ics
    <3>2. \A r \in TunedRegimes :
            /\ x1'[r] \in [T!Factors -> Nat]
            /\ 2 * T!Total(x1'[r]) \in (2 * T!Whole - 10) .. (2 * T!Whole + 10)
            /\ \A f, g \in T!Factors \ DOMAIN ics :
                 2 * (x1'[r][f] * x1[r][g] - x1'[r][g] * x1[r][f]) <= x1[r][f] + x1[r][g]
      <4> TAKE r \in TunedRegimes
      <4>1. x1'[r] = T!Retuned(x1[r], ics)
        BY <3>1
      <4> QED
        BY <1>1, <2>1, <4>1, RetunedFair
    <3>3. x1' \in [TunedRegimes -> [T!Factors -> Nat]]
      BY <3>1, <3>2
    <3>4. T!WeightsWhole'
      BY <3>2 DEF T!WeightsWhole
    <3> QED
      BY <3>1, <3>2, <3>3, <3>4 DEF WeightsSound, T!HeldSharesStep
  <2> QED
    BY <2>2, <2>3
<1>5. CASE UNCHANGED T!vars
  BY <1>3, <1>5 DEF T!vars
<1> QED
  BY <1>4, <1>5 DEF T!Next

\* A tuning never redistributes between factors it has no measurement of, and every
\* regime's weights stay a partition of the whole up to rounding (weight_tuner.py, tune):
\* for any bounds, any measurements and any number of tunings.
THEOREM HeldStayShared == ASSUME TunerSettings PROVE PartsSpec => HeldShares
<1> DEFINE Sound == part = "tuner" => WeightsSound
           Step  == part = "tuner" => T!HeldSharesStep
<1>1. PartsInit => Sound
  <2> SUFFICES ASSUME PartsInit, part = "tuner" PROVE WeightsSound
    OBVIOUS
  <2>1. T!Init
    BY DEF PartsInit
  <2>2. x1 = PriorWeights
    BY <2>1 DEF T!Init
  <2> QED
    BY <2>2 DEF WeightsSound, TunerSettings, T!WeightsWhole
<1>2. Sound /\ [PartsNext]_all => Sound' /\ Step
  BY OnePart, TunerStepSound
<1>3. Sound /\ [PartsNext]_all => [Step]_all
  BY <1>2
<1>4. Sound /\ [PartsNext]_all => Sound'
  BY <1>2
<1>5. HeldShares <=> [][Step]_all
  BY DEF HeldShares
<1> HIDE DEF Sound, Step
<1> QED
  BY <1>1, <1>3, <1>4, <1>5, PTL DEF PartsSpec
=============================================================================
