-------------------------------- MODULE Ledger --------------------------------
(***************************************************************************)
(* The cash ledger of engine_v4 and what computes from it: the portfolio    *)
(* snapshots of the scheduler and of the API, and the yearly and daily      *)
(* allocation of the index core.                                            *)
(*                                                                          *)
(* Cash is never stored.  It is derived from the initial capital, deposits, *)
(* the gains of closed rows, the cost of open rows and the commissions,     *)
(* each read by a query of its own; rows change between the queries.        *)
(* Quantities and amounts are whole numbers of the smallest unit (1e-4      *)
(* shares; cents), so that a quotient is cut to a unit.                     *)
(***************************************************************************)
EXTENDS Integers, Functions, Sums

CONSTANTS
  Rows,          \* position_ids, ascending in time (the bound of a run)
  Syms,          \* symbols as numbers: the core orders them by name
  Prices,        \* what a symbol can cost
  FirstPrice,    \* symbol -> its first price
  Lot,           \* the quantity the other components buy
  Target,        \* symbol -> core_targets in percent, 0 when it is not in it
  Initial,       \* initial_capital
  FirstRows,     \* rows already open when the run begins, of FirstSym bought at FirstCost
  FirstSym, FirstCost,
  Reserve, MinNotional, Band,   \* core_cash_reserve_usd, core_min_notional_usd, core_rebalance_band
  RateDen,       \* commission_rate is 1/RateDen
  Events,        \* amounts of capital events, withdrawals below 0
  Guarded,       \* threads in the scheduler's generate_snapshot
  Plain,         \* the event loop in the API's _generate_snapshot
  Core,          \* the job core_allocate
  MaxYear, MaxChanges, MaxSnaps, MaxFaults   \* bounds of a run

ASSUME SetsAssumption ==
  /\ Rows \subseteq Nat /\ Syms \subseteq Nat /\ IsFiniteSet(Rows) /\ IsFiniteSet(Syms)
  /\ Prices \subseteq Nat \ {0} /\ FirstPrice \in [Syms -> Prices]
  /\ Target \in [Syms -> 0 .. 100]
  /\ FirstSym \in Syms /\ FirstRows \subseteq Rows /\ \A r \in FirstRows, q \in Rows : q < r => q \in FirstRows
ASSUME AmountsAssumption ==
  /\ Lot \in Nat \ {0} /\ FirstCost \in Nat \ {0} /\ Initial \in Nat /\ Reserve \in Nat /\ MinNotional \in Nat /\ Band \in Nat
  /\ RateDen \in Nat \ {0} /\ Events \subseteq Int
  /\ MaxYear \in Nat /\ MaxChanges \in Nat /\ MaxSnaps \in Nat /\ MaxFaults \in Nat
ASSUME ThreadsAssumption ==
  Guarded \cap Plain = {} /\ Core \notin Guarded \cup Plain

Generators == Guarded \cup Plain
Threads == Generators \cup {Core}

VARIABLES
  rows,        \* swing_positions; gain is realized_pnl
  comm, adj,   \* sum(commission) of swing_trades; deposits less withdrawals
  price,       \* the market
  stamped,     \* core_last_rebalance as a year, 0 when empty
  year,
  pc,
  mem,         \* what a thread has read so far
  core,        \* what the core job has read, planned and not yet done
  \* what really happened
  paid,        \* cash moved by capital, purchases, sales and commissions
  lost,        \* gains of partial sales
  torn,        \* threads between whose reads a row they read lost a part
  rebalances,  \* rebalances begun this year
  changes, started, faults

tableVars == <<rows, comm, adj, stamped, paid, lost>>
envVars   == <<price, year, changes>>
vars == <<tableVars, envVars, pc, mem, core, torn, rebalances, started, faults>>

Free  == [state |-> "free", sym |-> 0, side |-> "BUY", qty |-> 0, entry |-> 0, gain |-> 0]
Opened(s, side, n, p) ==
  [state |-> "open", sym |-> s, side |-> side, qty |-> n, entry |-> p, gain |-> 0]
NoRow == [r \in {} |-> Free]
Blank == [open |-> NoRow, gain |-> 0, truth |-> 0, twice |-> 0]
AtRest == [lots |-> NoRow, px |-> [s \in Syms |-> 0], year |-> 0, rebal |-> FALSE,
           orders |-> {}, sym |-> 0, queue |-> {}, need |-> 0, qty |-> 0]

Init ==
  /\ rows = [r \in Rows |-> IF r \in FirstRows THEN Opened(FirstSym, "BUY", Lot, FirstCost) ELSE Free]
  /\ comm = 0 /\ adj = 0 /\ stamped = 0 /\ year = 1
  /\ price = FirstPrice
  /\ pc = [t \in Threads |-> "idle"]
  /\ mem = [t \in Threads |-> Blank]
  /\ core = AtRest
  /\ paid = Initial - Cardinality(FirstRows) * Lot * FirstCost /\ lost = 0 /\ torn = {} /\ rebalances = 0
  /\ changes = 0 /\ started = 0 /\ faults = 0

(***************************************************************************)
(* Arithmetic.                                                             *)
(***************************************************************************)
Lesser(a, b) == IF a < b THEN a ELSE b
Above0(a)    == IF a > 0 THEN a ELSE 0
\* round: to the nearest unit, halves to the even one.
Nearest(a, b) ==
  LET q == a \div b
      h == 2 * (a % b)
  IN IF h > b \/ (h = b /\ q % 2 = 1) THEN q + 1 ELSE q
Fee(amount) == Nearest(amount, RateDen)
Cost(f) == Sum([r \in DOMAIN f |-> f[r].qty * f[r].entry])

(***************************************************************************)
(* The tables.                                                             *)
(***************************************************************************)
In(state)  == {r \in Rows : rows[r].state = state}
OpenRows   == [r \in In("open") |-> rows[r]]
CoreLots   == [r \in {q \in In("open") : rows[q].side = "CORE"} |-> rows[r]]
Gains      == Sum([r \in In("closed") |-> rows[r].gain])
NextRow(r) == rows[r].state = "free" /\ \A q \in Rows : q < r => rows[q].state # "free"

CashOf(gain, cost, a, c) == Initial + a + gain - cost - c
Cash == CashOf(Gains, Cost(OpenRows), adj, comm)

\* close_position overwrites realized_pnl
Closed(row, p) == [row EXCEPT !.state = "closed", !.gain = (p - row.entry) * row.qty]

\* Mutant: the part that is sold stays in the row.
KeepPart(r, n, c) ==
  rows' = [rows EXCEPT ![c] = Closed([rows[r] EXCEPT !.qty = n], core.px[rows[r].sym])]

\* split_close_position for a part: the part becomes a closed row c of its own.
SplitPart(r, n, c) ==
  rows' = [rows EXCEPT ![r].qty = @ - n,
                       ![c] = Closed([rows[r] EXCEPT !.qty = n], core.px[rows[r].sym])]

\* t has read open rows and not yet the closed ones.
Reading(t) == pc[t] = "closed" \/ (t \in Plain /\ pc[t] = "prices")
Tear(r) == torn' = torn \cup {t \in Threads : Reading(t) /\ r \in DOMAIN mem[t].open}

(***************************************************************************)
(* The other components: entry, exit and hedge, here with row and trade in *)
(* one step (what lies between is EntryFlow's and ExitFlow's), capital     *)
(* events, the market, the calendar.                                       *)
(***************************************************************************)
Change ==
  /\ changes < MaxChanges
  /\ changes' = changes + 1
  /\ UNCHANGED <<stamped, pc, mem, core, started, faults>>

\* A hedge is opened and closed without a row in swing_trades.
FeeFor(side, amount) == IF side = "HEDGE" THEN 0 ELSE Fee(amount)

Buy(s, side) ==
  /\ Change
  /\ \E r \in Rows : NextRow(r) /\ rows' = [rows EXCEPT ![r] = Opened(s, side, Lot, price[s])]
  /\ comm' = comm + FeeFor(side, Lot * price[s])
  /\ paid' = paid - Lot * price[s] - FeeFor(side, Lot * price[s])
  /\ UNCHANGED <<adj, lost, price, year, torn, rebalances>>

Sell(r) ==
  /\ Change
  /\ rows[r].state = "open" /\ rows[r].side # "CORE"
  /\ LET p == price[rows[r].sym]
         fee == FeeFor(rows[r].side, rows[r].qty * p)
     IN /\ rows' = [rows EXCEPT ![r] = Closed(rows[r], p)]
        /\ comm' = comm + fee
        /\ paid' = paid + rows[r].qty * p - fee
  /\ UNCHANGED <<adj, lost, price, year, torn, rebalances>>

\* partial_close_position keeps the gain in the open row.
SellPart(r) ==
  /\ Change
  /\ rows[r].state = "open" /\ rows[r].side = "BUY" /\ rows[r].qty > 1
  /\ LET p == price[rows[r].sym]
         n == rows[r].qty \div 2
     IN /\ rows' = [rows EXCEPT ![r].qty = @ - n, ![r].gain = @ + (p - rows[r].entry) * n]
        /\ comm' = comm + Fee(n * p)
        /\ paid' = paid + n * p - Fee(n * p)
        /\ lost' = lost + (p - rows[r].entry) * n
  /\ Tear(r)
  /\ UNCHANGED <<adj, price, year, rebalances>>

CapitalEvent(a) ==
  /\ Change
  /\ adj' = adj + a
  /\ paid' = paid + a
  /\ UNCHANGED <<rows, comm, lost, price, year, torn, rebalances>>

MovePrice(s, p) ==
  /\ Change
  /\ p # price[s]
  /\ price' = [price EXCEPT ![s] = p]
  /\ UNCHANGED <<rows, comm, adj, paid, lost, year, torn, rebalances>>

NextYear ==
  /\ year < MaxYear /\ pc[Core] = "idle"
  /\ year' = year + 1
  /\ rebalances' = 0
  /\ UNCHANGED <<tableVars, price, changes, pc, mem, core, torn, started, faults>>

(***************************************************************************)
(* Reading the ledger: open rows, closed rows, commissions and capital.    *)
(* The scheduler's snapshot reads the closed rows at once and leaves out   *)
(* what it meets twice; the API's asks for prices first and leaves         *)
(* nothing out.  _compute_cash_usd of the core job reads like the first.   *)
(***************************************************************************)
ReadOpen(t) ==
  /\ IF t = Core THEN pc[t] = "open" ELSE pc[t] = "idle" /\ started < MaxSnaps
  /\ mem' = [mem EXCEPT ![t].open = OpenRows]
  /\ pc' = [pc EXCEPT ![t] = IF t \in Plain THEN "prices" ELSE "closed"]
  /\ started' = IF t = Core THEN started ELSE started + 1
  /\ torn' = torn \ {t}
  /\ UNCHANGED <<tableVars, envVars, core, rebalances, faults>>

\* Mutant: a row that was closed meanwhile stays among the open ones.
KeepAll(t) == mem[t].open

\* The rows that still count as open once the closed ones are read.
Kept(t) ==
  IF t \in Plain THEN mem[t].open
  ELSE Restrict(mem[t].open, DOMAIN mem[t].open \ In("closed"))

ReadClosed(t) ==
  /\ pc[t] = "closed"
  /\ mem' = [mem EXCEPT ![t].open = Kept(t), ![t].gain = Gains,
       ![t].truth = Gains - Cost(Restrict(rows, DOMAIN mem[t].open \ In("closed"))),
       ![t].twice = Cost(Restrict(mem[t].open, DOMAIN mem[t].open \cap In("closed")))]
  /\ pc' = [pc EXCEPT ![t] = IF t \in Guarded THEN "prices" ELSE "sums"]
  /\ UNCHANGED <<tableVars, envVars, core, torn, rebalances, started, faults>>

\* The download of the prices takes seconds; what the open rows are worth adds the
\* same amount to value and profit and is left out.
Download(t) ==
  /\ pc[t] = "prices"
  /\ pc' = [pc EXCEPT ![t] = IF t \in Plain THEN "closed" ELSE "sums"]
  /\ UNCHANGED <<tableVars, envVars, mem, core, torn, rebalances, started, faults>>

\* What t has read as gains less the cost of open rows; cash_usd with the sums of now.
Basis(t)    == mem[t].gain - Cost(mem[t].open)
CashRead(t) == CashOf(mem[t].gain, Cost(mem[t].open), adj, comm)

\* The sums are read and the row is written, for the dashboard: no code here reads it.
InsertSnapshot(t) ==
  /\ pc[t] = "sums" /\ t # Core
  /\ pc' = [pc EXCEPT ![t] = "idle"]
  /\ mem' = [mem EXCEPT ![t] = Blank]
  /\ UNCHANGED <<tableVars, envVars, core, torn, rebalances, started, faults>>

(***************************************************************************)
(* The core job: lots, prices, cash, plan; then order by order; then the   *)
(* date of the rebalance.                                                  *)
(***************************************************************************)
CoreStep(step) ==
  /\ pc' = [pc EXCEPT ![Core] = step]
  /\ UNCHANGED <<envVars, mem, started, faults>>

\* Nothing else touches a core lot; the prices are asked for once.
CoreStart ==
  /\ pc[Core] = "idle"
  /\ core' = [AtRest EXCEPT !.lots = CoreLots, !.px = price, !.year = year]
  /\ CoreStep("open")
  /\ UNCHANGED <<tableVars, torn, rebalances>>

Targeted == {s \in Syms : Target[s] > 0}
Held(s)  == Sum([r \in {q \in DOMAIN core.lots : core.lots[q].sym = s} |-> core.lots[r].qty * core.px[s]])
HeldBy   == [s \in Syms |-> Held(s)]

\* Does a share of the portfolio leave the band around its target?
Drifted(cash) ==
  LET tot == cash + Sum(HeldBy)
  IN Band > 0 /\ tot > 0
     /\ \E s \in Syms : LET d == 100 * Held(s) - Target[s] * tot
                        IN d > Band * tot \/ -d > Band * tot
Rebalance(cash) == (stamped < core.year \/ Drifted(cash)) /\ DOMAIN core.lots # {}

\* _plan_core: what exceeds its target is sold, then the cash goes to what falls short.
Short(held, cash) ==
  LET total == cash + Sum(held) - Reserve
  IN [s \in Syms |-> (Target[s] * total) \div 100 - held[s]]
Sold(short) == {s \in Syms : short[s] < 0 /\ (-short[s] >= MinNotional \/ s \notin Targeted)}
Available(short, cash, sold) ==
  cash - Reserve + Sum([s \in sold |-> (-short[s] * (RateDen - 1)) \div RateDen])

Buys(short, avail, sold) ==
  LET gaps == [s \in Targeted |-> IF s \in sold THEN 0 ELSE Above0(short[s])]
      g    == Sum(gaps)
  IN IF avail < MinNotional THEN [s \in Targeted |-> 0]
     ELSE IF g > avail THEN [s \in Targeted |-> (avail * gaps[s]) \div g]
     ELSE [s \in Targeted |-> gaps[s] + ((avail - g) * Target[s]) \div 100]

Orders(side, usd, S) == {[sym |-> s, side |-> side, usd |-> usd[s]] : s \in S}
PlanCore(held, cash, rebalance) ==
  LET short == Short(held, cash)
      sold  == IF rebalance THEN Sold(short) ELSE {}
      buys  == Buys(short, Available(short, cash, sold), sold)
  IN Orders("SELL", [s \in sold |-> -short[s]], sold)
     \cup Orders("BUY", buys, {s \in Targeted : buys[s] >= 1})

DateIf(done, rebal)     == IF done /\ rebal THEN core.year ELSE stamped

Plan ==
  /\ pc[Core] = "sums"
  /\ \E cash \in {CashRead(Core)}, held \in {HeldBy} :
     \E rebal \in {Rebalance(cash)} :
     \E orders \in {PlanCore(held, cash, rebal)} :
       /\ stamped' = DateIf(orders = {}, rebal)
       /\ IF orders = {}
          THEN /\ core' = AtRest
               /\ CoreStep("idle")
               /\ UNCHANGED rebalances
          ELSE /\ core' = [core EXCEPT !.orders = orders, !.rebal = rebal]
               /\ rebalances' = IF rebal THEN rebalances + 1 ELSE rebalances
               /\ CoreStep("order")
  /\ UNCHANGED <<rows, comm, adj, paid, lost, torn>>

\* The sales come before the purchases, each in the order of the names.
Precedes(a, b) == IF a.side = b.side THEN a.sym < b.sym ELSE a.side = "SELL"
Turn(o) == \A later \in core.orders \ {o} : Precedes(o, later)
NextOrder == [core EXCEPT !.sym = 0, !.queue = {}, !.need = 0, !.qty = 0]

TakeSell ==
  /\ pc[Core] = "order"
  /\ \E o \in core.orders :
       /\ Turn(o) /\ o.side = "SELL"
       /\ core' = [core EXCEPT !.orders = @ \ {o}, !.sym = o.sym,
                               !.need = Nearest(o.usd, core.px[o.sym]),
                               !.queue = {r \in DOMAIN core.lots : core.lots[r].sym = o.sym}]
  /\ CoreStep("sell")
  /\ UNCHANGED <<tableVars, torn, rebalances>>

\* The oldest lot first, split_close_position: a lot that is gone is passed over.
SellLot ==
  /\ pc[Core] = "sell" /\ core.need > 0
  /\ \E r \in core.queue :
       /\ \A later \in core.queue : r <= later
       /\ LET q == Lesser(core.need, core.lots[r].qty)
              n == Lesser(q, rows[r].qty)
              p == core.px[rows[r].sym]
          IN IF rows[r].state # "open" \/ n = 0
             THEN /\ core' = [core EXCEPT !.queue = @ \ {r}]
                  /\ CoreStep("sell")
                  /\ UNCHANGED <<rows, paid, torn>>
             ELSE /\ IF n = rows[r].qty
                     THEN rows' = [rows EXCEPT ![r] = Closed(@, p)] /\ UNCHANGED torn
                     ELSE /\ \E c \in Rows : NextRow(c) /\ SplitPart(r, n, c)
                          /\ Tear(r)
                  /\ paid' = paid + n * p
                  /\ core' = [core EXCEPT !.qty = q, !.queue = @ \ {r}]
                  /\ CoreStep("selltrade")
  /\ UNCHANGED <<comm, adj, stamped, lost, rebalances>>

SellTrade ==
  /\ pc[Core] = "selltrade"
  /\ LET fee == Fee(core.qty * core.px[core.sym])
     IN /\ comm' = comm + fee
        /\ paid' = paid - fee
        /\ core' = [core EXCEPT !.need = @ - core.qty, !.qty = 0]
  /\ CoreStep("sell")
  /\ UNCHANGED <<rows, adj, stamped, lost, torn, rebalances>>

SellDone ==
  /\ pc[Core] = "sell"
  /\ core.need <= 0 \/ core.queue = {}
  /\ core' = NextOrder
  /\ CoreStep("order")
  /\ UNCHANGED <<tableVars, torn, rebalances>>

\* The dollars of an order include the commission.
SharesFor(usd, p) == Nearest(usd * RateDen, p * (RateDen + 1))

BuyLot ==
  /\ pc[Core] = "order"
  /\ \E o \in core.orders :
       /\ Turn(o) /\ o.side = "BUY"
       /\ LET p == core.px[o.sym]
              n == SharesFor(o.usd, p)
          IN IF n = 0
             THEN /\ core' = [core EXCEPT !.orders = @ \ {o}]
                  /\ CoreStep("order")
                  /\ UNCHANGED <<rows, paid>>
             ELSE /\ \E r \in Rows : NextRow(r) /\ rows' = [rows EXCEPT ![r] = Opened(o.sym, "CORE", n, p)]
                  /\ paid' = paid - n * p
                  /\ core' = [core EXCEPT !.orders = @ \ {o}, !.sym = o.sym, !.qty = n]
                  /\ CoreStep("buytrade")
  /\ UNCHANGED <<comm, adj, stamped, lost, torn, rebalances>>

BuyTrade ==
  /\ pc[Core] = "buytrade"
  /\ LET fee == Fee(core.qty * core.px[core.sym])
     IN /\ comm' = comm + fee
        /\ paid' = paid - fee
        /\ core' = NextOrder
  /\ CoreStep("order")
  /\ UNCHANGED <<rows, adj, stamped, lost, torn, rebalances>>

\* Mutant: the date is not written.
EndWithoutStamp ==
  /\ pc[Core] = "order" /\ core.orders = {}
  /\ core' = AtRest
  /\ CoreStep("idle")
  /\ UNCHANGED <<tableVars, torn, rebalances>>

Stamp ==
  /\ pc[Core] = "order" /\ core.orders = {}
  /\ stamped' = IF core.rebal THEN core.year ELSE stamped
  /\ core' = AtRest
  /\ CoreStep("idle")
  /\ UNCHANGED <<rows, comm, adj, paid, lost, torn, rebalances>>

(***************************************************************************)
(* A call raises: the run is given up with what it has committed.  The     *)
(* service is killed: every run is.                                        *)
(***************************************************************************)
Stop(T) ==
  /\ faults < MaxFaults
  /\ faults' = faults + 1
  /\ pc' = [t \in Threads |-> IF t \in T THEN "idle" ELSE pc[t]]
  /\ mem' = [t \in Threads |-> IF t \in T THEN Blank ELSE mem[t]]
  /\ core' = IF Core \in T THEN AtRest ELSE core
  /\ UNCHANGED <<tableVars, envVars, torn, rebalances, started>>

Fault(t) == pc[t] # "idle" /\ Stop({t})
Restart  == (\E t \in Threads : pc[t] # "idle") /\ Stop(Threads)

Generate(t) == ReadOpen(t) \/ Download(t) \/ InsertSnapshot(t)
Allocate    == CoreStart \/ Plan \/ TakeSell \/ SellLot \/ SellTrade \/ SellDone
               \/ BuyLot \/ BuyTrade \/ Stamp
Others ==
  \/ \E s \in Syms : \/ \E side \in {"BUY", "HEDGE"} : Buy(s, side)
                     \/ \E p \in Prices : MovePrice(s, p)
  \/ \E r \in Rows : Sell(r) \/ SellPart(r)
  \/ \E a \in Events : CapitalEvent(a)
  \/ NextYear

Next ==
  \/ \E t \in Threads : Generate(t) \/ ReadClosed(t) \/ Fault(t)
  \/ Allocate
  \/ Others
  \/ Restart

Spec == Init /\ [][Next]_vars

(***************************************************************************)
(* Properties.                                                             *)
(***************************************************************************)
\* The derived cash is the cash that moved, less the gains of partial sales: those
\* partial_close_position leaves in the open row, where the formula does not look and
\* close_position overwrites them (storage.py split_close_position says so).
CashTracks == paid = Cash + lost

\* Each row a snapshot read counts once, as it was when the closed rows were read, and
\* the API's snapshot counts what closed in between twice, at its cost; unless a row
\* lost a part meanwhile, which neither generator can see.
SnapshotOff ==
  \A t \in Threads : pc[t] = "sums" /\ t \notin torn
                     => Basis(t) = mem[t].truth - (IF t \in Plain THEN mem[t].twice ELSE 0)

\* A year is rebalanced once, and again only after a run that was cut off.
RebalancesBounded == Band = 0 => rebalances <= 1 + faults
===============================================================================
