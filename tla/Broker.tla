-------------------------------- MODULE Broker --------------------------------
(***************************************************************************)
(* The broker client of engine_v4 and the switch between paper and live.    *)
(*                                                                          *)
(* A KisClient connects at its first request and keeps the connection.  The *)
(* API's client serves the event loop and the background sweep; a scheduled *)
(* sweep has a client of its own for as long as it runs, an automatic sale  *)
(* a new one.  All of them read one settings object, whose kis_is_paper the *)
(* endpoint /config/trading-mode changes while they run.                    *)
(***************************************************************************)
EXTENDS Integers

CONSTANTS
  Loop,        \* the event loop
  Background,  \* threads that use the event loop's client
  Sweeps,      \* scheduled sweeps: one client for all orders of a sweep
  Sales,       \* automatic sales: one client an order
  MaxOrders, MaxSwitches, MaxFaults   \* bounds of a run

VARIABLES
  keys,      \* what .env has: KIS_APP_KEY (none, the example's or one's own), the user, the virtual keys
  env,       \* KIS_IS_PAPER in .env
  mode,      \* swing_config.trading_mode
  paper,     \* config.kis_is_paper
  client,    \* KisClient objects by their first user: _initialized, _kis
  pc, what,  \* where a thread is, and what for: an "order", or the mode asked for
  choice,    \* the account a thread is connecting to
  order,     \* the last order: where it went and by whom
  \* what really happened
  confirmed, \* live was confirmed since the service started
  orders, switches, faults

settings == <<keys, env, mode, paper>>
counters == <<orders, switches, faults>>
vars == <<settings, client, pc, what, choice, order, confirmed, counters>>

Threads == {Loop} \cup Background \cup Sweeps \cup Sales
Clients == {Loop} \cup Sweeps \cup Sales
Uses(t) == IF t \in Background THEN Loop ELSE t

Fresh == [ready |-> FALSE, kis |-> "none"]
Account(p) == IF p THEN "virtual" ELSE "real"

Init ==
  /\ keys \in [app : {"none", "example", "own"}, user : BOOLEAN, virtual : BOOLEAN]
  /\ env \in BOOLEAN /\ paper = env
  /\ mode \in {"paper", "live"}
  /\ client = [c \in Clients |-> Fresh]
  /\ pc = [t \in Threads |-> "idle"] /\ what = [t \in Threads |-> "order"]
  /\ choice = [t \in Threads |-> "none"]
  /\ order = [to |-> "none", by |-> Loop]
  /\ confirmed = FALSE
  /\ orders = 0 /\ switches = 0 /\ faults = 0

Goto(t, l) == pc' = [pc EXCEPT ![t] = l]
\* What follows a call of _init_client: nothing when the mode was switched.
After(t, l) == Goto(t, IF what[t] = "order" THEN l ELSE "idle")
Ready(c, kis) == client' = [client EXCEPT ![c] = [ready |-> TRUE, kis |-> kis]]

(***************************************************************************)
(* Orders and requests                                                      *)
(***************************************************************************)
\* A sweep keeps its client from order to order; a sale makes a new one.
Begin(t) ==
  /\ pc[t] = "idle" /\ orders < MaxOrders /\ orders' = orders + 1
  /\ what' = [what EXCEPT ![t] = "order"] /\ Goto(t, "init")
  /\ client' = IF t \in Sales THEN [client EXCEPT ![t] = Fresh] ELSE client
  /\ UNCHANGED <<settings, choice, order, confirmed, switches, faults>>

NewSweep(s) ==
  /\ pc[s] = "idle" /\ client[s] # Fresh
  /\ client' = [client EXCEPT ![s] = Fresh]
  /\ UNCHANGED <<settings, pc, what, choice, order, confirmed, counters>>

\* No client without keys of one's own and the user's name, and none in paper mode without
\* the virtual keys.
Connectable == keys.app = "own" /\ keys.user /\ (paper => keys.virtual)

InitClient(t) ==
  LET c == Uses(t) IN
  /\ pc[t] = "init"
  /\ \/ /\ client[c].ready
        /\ After(t, IF client[c].kis = "none" THEN "simulate" ELSE "request")
        /\ UNCHANGED <<client, choice>>
     \/ /\ ~client[c].ready /\ ~Connectable
        /\ Ready(c, client[c].kis)     \* the connection it had stays
        /\ After(t, "simulate") /\ UNCHANGED choice
     \/ /\ ~client[c].ready /\ Connectable
        /\ choice' = [choice EXCEPT ![t] = Account(paper)] /\ Goto(t, "connect")
        /\ UNCHANGED client
  /\ UNCHANGED <<settings, what, order, confirmed, counters>>

\* PyKis(...) takes seconds; _kis is set before _initialized.
Connect(t) ==
  /\ pc[t] = "connect"
  /\ client' = [client EXCEPT ![Uses(t)].kis = choice[t]] /\ Goto(t, "account")
  /\ UNCHANGED <<settings, what, choice, order, confirmed, counters>>

OpenAccount(t) ==
  /\ pc[t] = "account"
  /\ client' = [client EXCEPT ![Uses(t)].ready = TRUE] /\ After(t, "request")
  /\ UNCHANGED <<settings, what, choice, order, confirmed, counters>>

\* Either call may raise: the client counts as initialised all the same.
ConnectFails(t) ==
  /\ pc[t] \in {"connect", "account"} /\ faults < MaxFaults /\ faults' = faults + 1
  /\ client' = [client EXCEPT ![Uses(t)].ready = TRUE] /\ After(t, "simulate")
  /\ UNCHANGED <<settings, what, choice, order, confirmed, orders, switches>>

Placed(t, to) ==
  /\ order' = [to |-> to, by |-> t]
  /\ Goto(t, "idle")
  /\ UNCHANGED <<settings, client, what, choice, confirmed, counters>>
Simulate(t) == pc[t] = "simulate" /\ Placed(t, "nobody")
Request(t) == pc[t] = "request" /\ Placed(t, client[Uses(t)].kis)

(***************************************************************************)
(* The trading mode                                                         *)
(***************************************************************************)
MayChangeUnasked(m, ok) == m # mode /\ (m = "live" => keys.app # "none")
\* Here the example's key passes.
MayChange(m, ok) == m # mode /\ (m = "live" => ok /\ keys.app # "none")

ChangeMode(m, ok) ==
  /\ pc[Loop] = "idle" /\ switches < MaxSwitches /\ switches' = switches + 1
  /\ MayChange(m, ok)
  /\ mode' = m /\ Goto(Loop, "forget") /\ what' = [what EXCEPT ![Loop] = m]
  /\ confirmed' = (confirmed \/ (m = "live" /\ ok))
  /\ UNCHANGED <<keys, env, paper, client, choice, order, orders, faults>>

Forget ==
  /\ pc[Loop] = "forget"
  /\ client' = [client EXCEPT ![Loop].ready = FALSE] /\ Goto(Loop, "flag")
  /\ UNCHANGED <<settings, what, choice, order, confirmed, counters>>

SetFlag ==
  /\ pc[Loop] = "flag"
  /\ paper' = (what[Loop] = "paper")
  /\ Goto(Loop, "init")
  /\ UNCHANGED <<keys, env, mode, client, what, choice, order, confirmed, counters>>

\* The dashboard's settings page writes the row and nothing else.
SaveConfig ==
  /\ switches < MaxSwitches /\ switches' = switches + 1
  /\ mode' = IF mode = "live" THEN "paper" ELSE "live"
  /\ UNCHANGED <<keys, env, paper, client, pc, what, choice, order, confirmed, orders, faults>>

\* A new process takes kis_is_paper from .env again.
Flag == env
Restart ==
  /\ faults < MaxFaults /\ faults' = faults + 1
  /\ paper' = Flag
  /\ client' = [c \in Clients |-> Fresh] /\ pc' = [t \in Threads |-> "idle"]
  /\ what' = [t \in Threads |-> "order"] /\ choice' = [t \in Threads |-> "none"]
  /\ confirmed' = FALSE
  /\ order' = [to |-> "none", by |-> Loop]
  /\ UNCHANGED <<keys, env, mode, orders, switches>>

Next ==
  \/ \E t \in Threads : Begin(t) \/ InitClient(t) \/ Connect(t) \/ OpenAccount(t)
                         \/ ConnectFails(t) \/ Simulate(t) \/ Request(t)
  \/ \E s \in Sweeps : NewSweep(s)
  \/ \E m \in {"paper", "live"}, ok \in BOOLEAN : ChangeMode(m, ok)
  \/ Forget \/ SetFlag \/ SaveConfig \/ Restart

Spec == Init /\ [][Next]_vars

(***************************************************************************)
(* Properties                                                               *)
(***************************************************************************)
\* With KIS_IS_PAPER set, no order reaches the real account unless live was
\* confirmed since the service started, whatever the row trading_mode says,
\* and whichever client was connected when (change_trading_mode, _init_client).
RealByConsent == order.to = "real" => confirmed \/ ~env

(***************************************************************************)
(* For any threads and any number of orders: consent comes before the real  *)
(* account.  What may hold it are clients, threads that are connecting and  *)
(* the flag itself.                                                         *)
(***************************************************************************)
Asking == {"forget", "flag"}
Accounts == {"none", "virtual", "real"}
Slots == [ready : BOOLEAN, kis : Accounts]
Consent ==
  /\ DOMAIN pc = Threads /\ DOMAIN what = Threads
  /\ client \in [Clients -> Slots]
  /\ choice \in [Threads -> Accounts]
  /\ \A t \in Threads \ {Loop} : pc[t] \notin Asking
  /\ pc[Loop] \in Asking => what[Loop] \in {"paper", "live"}
  /\ env /\ ~confirmed =>
       /\ paper /\ order.to # "real"
       /\ \A c \in Clients : client[c].kis # "real"
       /\ \A t \in Threads : choice[t] # "real"
       /\ pc[Loop] \in Asking => what[Loop] = "paper"
=============================================================================
