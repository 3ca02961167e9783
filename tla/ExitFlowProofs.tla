--------------------------- MODULE ExitFlowProofs ---------------------------
(***************************************************************************)
(* Theorems about ExitFlow, for any rows, lots, threads and signals.       *)
(***************************************************************************)
EXTENDS ExitFlow, Piles

(***************************************************************************)
(* Types.                                                                  *)
(***************************************************************************)
LEMMA PartIsNat == ASSUME NEW n \in Nat, NEW percent \in Percents PROVE Part(n, percent) \in Nat
<1>1. percent \in Nat
  BY PercentsAssumption
<1>2. n * percent \in Nat
  BY <1>1
<1>3. ASSUME NEW m \in Nat PROVE m \div 100 \in Nat
  BY <1>3
<1>4. Rounded(n, percent) \in Nat
  BY <1>2, <1>3 DEF Rounded
<1> QED
  BY <1>4 DEF Part

LEMMA TypeInit == Init => TypeOK
<1> SUFFICES ASSUME Init PROVE TypeOK
  OBVIOUS
<1>1. RowsOK
  BY LotAssumption DEF Init, RowsOK
<1>2. SignalsOK
  BY DEF Init, SignalsOK
<1>3. ThreadsOK
  BY DEF Init, ThreadsOK, Steps
<1> QED
  BY <1>1, <1>2, <1>3 DEF TypeOK

LEMMA TypeStep == TypeOK /\ [Next]_vars => TypeOK'
<1> SUFFICES ASSUME TypeOK, [Next]_vars PROVE RowsOK' /\ SignalsOK' /\ ThreadsOK'
  BY DEF TypeOK
<1> USE DEF TypeOK, Steps, rowVars, tradeVars, signalVars, jobVars, handVars, Open, Goto
<1>t. Jobs \subseteq Threads /\ Loop \in Threads
  BY DEF Threads
<1>a. ASSUME UNCHANGED <<rowVars, tradeVars>> PROVE RowsOK'
  BY <1>a DEF RowsOK
<1>b. ASSUME UNCHANGED signalVars PROVE SignalsOK'
  BY <1>b DEF SignalsOK
<1>1. ASSUME NEW w \in Jobs, StartCheck(w) PROVE RowsOK' /\ SignalsOK' /\ ThreadsOK'
  <2>1. RowsOK' /\ SignalsOK'
    BY <1>1, <1>a, <1>b DEF StartCheck
  <2>2. [p \in Positions |-> IF p \in Open THEN qty[p] ELSE 0] \in [Positions -> Nat]
    BY DEF RowsOK
  <2>3. PICK D \in SUBSET Open : /\ plan' = [plan EXCEPT ![w] = D]
                                 /\ rows' = [rows EXCEPT ![w] = Open \ D]
    BY <1>1 DEF StartCheck
  <2>4. plan' \in [Threads -> SUBSET Positions] /\ rows' \in [Threads -> SUBSET Positions]
    BY <1>t, <2>3 DEF ThreadsOK
  <2>5. seen' \in [Threads -> [Positions -> Nat]]
    BY <1>t, <1>1, <2>2 DEF StartCheck, ThreadsOK
  <2> QED
    BY <1>t, <1>1, <2>1, <2>4, <2>5 DEF StartCheck, SignalsOK, ThreadsOK
<1>2. ASSUME NEW w \in Jobs, NextExit(w) PROVE RowsOK' /\ SignalsOK' /\ ThreadsOK'
  <2>1. ASSUME NEW p \in Positions PROVE QtyOrOne(seen[w][p]) \in Nat
    BY <1>t DEF QtyOrOne, ThreadsOK
  <2> QED
    BY <1>t, <1>2, <2>1, <1>a, <1>b DEF NextExit, Aim, ThreadsOK
<1>3. ASSUME NEW w \in Jobs, NextSignal(w) PROVE RowsOK' /\ SignalsOK' /\ ThreadsOK'
  BY <1>t, <1>3, <1>a DEF NextSignal, InsertSignal, SignalsOK, ThreadsOK
<1>4. ASSUME NEW w \in Jobs, StartParts(w) \/ StartScan(w) \/ EndScan(w)
      PROVE  RowsOK' /\ SignalsOK' /\ ThreadsOK'
  <2>1. CASE StartParts(w)
    BY <1>t, <2>1, <1>a, <1>b DEF StartParts, ThreadsOK
  <2>2. CASE StartScan(w)
    BY <1>t, <2>2, <1>a, <1>b DEF StartScan, ThreadsOK
  <2>3. CASE EndScan(w)
    BY <1>t, <2>3, <1>a, <1>b DEF EndScan, ThreadsOK
  <2> QED
    BY <1>4, <2>1, <2>2, <2>3
<1>5. ASSUME NEW w \in Jobs, NextPart(w) PROVE RowsOK' /\ SignalsOK' /\ ThreadsOK'
  <2>1. ASSUME NEW p \in Positions, NEW percent \in Percents PROVE Part(QtyOrOne(seen[w][p]), percent) \in Nat
    BY PartIsNat, <1>t DEF QtyOrOne, ThreadsOK
  <2> QED
    BY <1>t, <1>5, <2>1, <1>a, <1>b DEF NextPart, Aim, ThreadsOK
<1>6. ASSUME NEW w \in Jobs, ScanSignal(w) PROVE RowsOK' /\ SignalsOK' /\ ThreadsOK'
  BY <1>t, <1>6, <1>a DEF ScanSignal, InsertSignal, SignalsOK, ThreadsOK
<1>7. ASSUME NEW w \in Jobs, FinishCheck(w) PROVE RowsOK' /\ SignalsOK' /\ ThreadsOK'
  BY <1>t, <1>7, <1>a, <1>b DEF FinishCheck, EndCheck, ThreadsOK
<1>8. ASSUME NEW w \in Threads, CloseSelect(w) \/ PartSelect(w)
      PROVE  RowsOK' /\ SignalsOK' /\ ThreadsOK'
  <2>1. \A p \in Open : qty[p] \in Nat
    BY DEF RowsOK
  <2>2. CASE CloseSelect(w)
    BY <2>1, <2>2, <1>a, <1>b DEF CloseSelect, ThreadsOK
  <2>3. CASE PartSelect(w)
    BY <2>1, <2>3, <1>a, <1>b DEF PartSelect, ThreadsOK
  <2> QED
    BY <1>8, <2>2, <2>3
<1>9. ASSUME NEW w \in Threads, CloseUpdate(w) PROVE RowsOK' /\ SignalsOK' /\ ThreadsOK'
  BY <1>t, <1>9, <1>b DEF CloseUpdate, ThreadsOK, RowsOK
<1>10. ASSUME NEW w \in Threads, SellTrade(w) \/ SellOrder(w) \/ PartTrade(w)
       PROVE  RowsOK' /\ SignalsOK' /\ ThreadsOK'
  <2>1. amount[w] \in Nat
    BY DEF ThreadsOK
  <2>2. RowsOK'
    BY <1>t, <1>10, <2>1 DEF SellTrade, SellOrder, PartTrade, RowsOK
  <2>3. ThreadsOK'
    <3>1. CASE SellTrade(w)
      BY <3>1 DEF SellTrade, ThreadsOK
    <3>2. CASE SellOrder(w)
      BY <3>2 DEF SellOrder, Drop, ThreadsOK
    <3>3. CASE PartTrade(w)
      BY <3>3 DEF PartTrade, Drop, ThreadsOK
    <3> QED
      BY <1>10, <3>1, <3>2, <3>3
  <2> QED
    BY <1>t, <1>10, <1>b, <2>2, <2>3 DEF SellTrade, SellOrder, PartTrade
<1>11. ASSUME NEW w \in Threads, PartUpdate(w) PROVE RowsOK' /\ SignalsOK' /\ ThreadsOK'
  <2>1. amount[w] \in Nat /\ read[w] \in Nat
    BY DEF ThreadsOK
  <2>2. RowsOK'
    BY <1>t, <1>11, <2>1 DEF PartUpdate, RowsOK
  <2> QED
    BY <1>t, <1>11, <1>b, <2>2 DEF PartUpdate, ThreadsOK
<1>12. ASSUME NEW s \in Signals, ApproveRequest(s) \/ SettleSignal(s)
       PROVE  RowsOK' /\ SignalsOK' /\ ThreadsOK'
  <2>1. SignalsOK'
    BY <1>t, <1>12, <1>b DEF ApproveRequest, SettleSignal, SignalsOK
  <2> QED
    BY <1>t, <1>12, <1>a, <2>1 DEF ApproveRequest, SettleSignal, ThreadsOK
<1>13. ASSUME Approve \/ MarkExecuted PROVE RowsOK' /\ SignalsOK' /\ ThreadsOK'
  <2>1. SignalsOK'
    BY <1>t, <1>13 DEF Approve, MarkExecuted, SetStatus, SignalsOK
  <2>2. ThreadsOK'
    <3>1. CASE Approve
      BY <1>t, <3>1 DEF Approve, ThreadsOK
    <3>2. CASE MarkExecuted
      BY <1>t, <3>2 DEF MarkExecuted, Drop, ThreadsOK
    <3> QED
      BY <1>13, <3>1, <3>2
  <2> QED
    BY <1>t, <1>13, <1>a, <2>1, <2>2 DEF Approve, MarkExecuted
<1>14. ASSUME FindPosition PROVE RowsOK' /\ SignalsOK' /\ ThreadsOK'
  <2>1. ThreadsOK'
    <3>1. \A p \in Open : p \in Positions /\ qty[p] \in Nat
      BY DEF RowsOK
    <3>2. CASE sigPos[cur] \in Open
      <4>1. /\ tgt' = [tgt EXCEPT ![Loop] = sigPos[cur]]
            /\ amount' = [amount EXCEPT ![Loop] = qty[sigPos[cur]]]
            /\ pc' = [pc EXCEPT ![Loop] = "close"]
            /\ UNCHANGED <<read, cur, jobVars>>
        BY <1>14, <3>2 DEF FindPosition, Aim
      <4> QED
        BY <1>t, <3>1, <3>2, <4>1 DEF ThreadsOK
    <3>3. CASE sigPos[cur] \notin Open
      <4>1. Drop(Loop) /\ pc' = [pc EXCEPT ![Loop] = "idle"] /\ UNCHANGED jobVars
        BY <1>14, <3>3 DEF FindPosition
      <4> QED
        BY <1>t, <4>1 DEF Drop, ThreadsOK
    <3> QED
      BY <3>2, <3>3
  <2> QED
    BY <1>t, <1>14, <1>a, <1>b, <2>1 DEF FindPosition
<1>15. ASSUME SwitchAutoSell \/ UNCHANGED vars PROVE RowsOK' /\ SignalsOK' /\ ThreadsOK'
  BY <1>t, <1>15, <1>a DEF SwitchAutoSell, vars, SignalsOK, ThreadsOK
<1>16. ASSUME Restart PROVE RowsOK' /\ SignalsOK' /\ ThreadsOK'
  BY <1>t, <1>16, <1>a, <1>b DEF Restart, ThreadsOK
<1>17. ASSUME NEW w \in Threads, Fault(w) PROVE RowsOK' /\ SignalsOK' /\ ThreadsOK'
  <2>1. RowsOK' /\ SignalsOK'
    BY <1>17, <1>a, <1>b DEF Fault
  <2>2. CASE w \in Jobs /\ pc[w] \in {"close", "closing", "trade", "order"}
    <3>1. pc' = [pc EXCEPT ![w] = "exits"] /\ UNCHANGED jobVars /\ Drop(w)
      BY <1>17, <2>2 DEF Fault
    <3> QED
      BY <1>17, <2>1, <2>2, <3>1 DEF Fault, Drop, ThreadsOK
  <2>3. CASE ~(w \in Jobs /\ pc[w] \in {"close", "closing", "trade", "order"})
    <3>1. Drop(w) /\ EndCheck(w)
      BY <1>17, <2>3 DEF Fault
    <3>2. [p \in Positions |-> 0] \in [Positions -> Nat]
      OBVIOUS
    <3>3. seen' \in [Threads -> [Positions -> Nat]]
      BY <3>1, <3>2 DEF EndCheck, ThreadsOK
    <3> QED
      BY <2>1, <3>1, <3>3 DEF EndCheck, Drop, ThreadsOK
  <2> QED
    BY <2>1, <2>2, <2>3 DEF Fault
<1> QED
  BY <1>1, <1>2, <1>3, <1>4, <1>5, <1>6, <1>7, <1>8, <1>9, <1>10, <1>11, <1>12, <1>13, <1>14,
     <1>15, <1>16, <1>17 DEF Next, Check, Sell, Endpoint, Environment

\* The state keeps its shape.
THEOREM Typing == Spec => []TypeOK
  BY TypeInit, TypeStep, PTL DEF Spec

(***************************************************************************)
(* How often a row can be sold out.                                        *)
(*                                                                         *)
(* A thread wants a row when it may still record a SELL of it without      *)
(* first reading the open rows again: the row is at hand, or planned, or   *)
(* was read at the start and may yet be condemned by scan_exits.  A closed *)
(* row gains no thread that wants it; a thread that sells it stops wanting *)
(* it.  So the sales so far and the threads that want the row are at most  *)
(* the threads there are.                                                  *)
(***************************************************************************)
Selling == {"close", "closing", "trade"}

Wants(w, p) ==
  \/ pc[w] \in Selling /\ tgt[w] = p
  \/ p \in plan[w]
  \/ p \in rows[w] /\ (~late[w] \/ (pc[w] = "scan" /\ p \in parts[w]))
Wanting(p) == {w \in Threads : Wants(w, p)}

\* What a thread has in hand it has taken out of its plans.
OrderlyThread(w) ==
  /\ ~late[w] => plan[w] \cap rows[w] = {}
  /\ pc[w] = "scan" => late[w]
  /\ pc[w] \in Selling => /\ tgt[w] \in Positions /\ tgt[w] \notin plan[w]
                          /\ ~late[w] => tgt[w] \notin rows[w]
  /\ pc[w] = "trade" => state[tgt[w]] = "closed"
Orderly ==
  /\ \A w \in Threads : OrderlyThread(w)
  /\ plan[Loop] = {} /\ rows[Loop] = {}

ExitSlots ==
  \A p \in Positions :
    /\ exits[p] > 0 => state[p] = "closed"
    /\ exits[p] + Cardinality(Wanting(p)) <= Cardinality(Threads)

Still(u) ==
  /\ pc'[u] = pc[u] /\ tgt'[u] = tgt[u] /\ plan'[u] = plan[u]
  /\ rows'[u] = rows[u] /\ late'[u] = late[u] /\ parts'[u] = parts[u]

\* Whatever a step does to one thread, a thread it leaves alone stays orderly and wants
\* what it wanted.
LEMMA StillThread ==
  ASSUME NEW u \in Threads, OrderlyThread(u), Still(u),
         \A p \in Positions : state[p] = "closed" => state'[p] = "closed"
  PROVE  OrderlyThread(u)' /\ \A p \in Positions : Wants(u, p)' => Wants(u, p)
<1>1. pc[u] = "trade" => tgt[u] \in Positions /\ state[tgt[u]] = "closed"
  BY DEF OrderlyThread, Selling
<1>2. pc'[u] = "trade" => state'[tgt'[u]] = "closed"
  BY <1>1 DEF Still
<1>3. OrderlyThread(u)'
  <2>1. ~late'[u] => plan'[u] \cap rows'[u] = {}
    BY DEF OrderlyThread, Still
  <2>2. pc'[u] = "scan" => late'[u]
    BY DEF OrderlyThread, Still
  <2>3. pc'[u] \in Selling => /\ tgt'[u] \in Positions /\ tgt'[u] \notin plan'[u]
                              /\ ~late'[u] => tgt'[u] \notin rows'[u]
    BY DEF OrderlyThread, Still
  <2> QED
    BY <1>2, <2>1, <2>2, <2>3 DEF OrderlyThread
<1>4. ASSUME NEW p \in Positions, Wants(u, p)' PROVE Wants(u, p)
  BY <1>4 DEF Wants, Still
<1> QED
  BY <1>3, <1>4

\* A thread that turns to something other than selling or scanning and adds nothing to
\* its plans stays orderly and wants no new row.
LEMMA QuietThread ==
  ASSUME NEW w \in Threads, OrderlyThread(w), pc'[w] \notin Selling \cup {"scan"},
         plan'[w] \subseteq plan[w], rows'[w] \subseteq rows[w],
         late[w] => late'[w] \/ rows'[w] = {}
  PROVE  OrderlyThread(w)' /\ \A p \in Positions : Wants(w, p)' => Wants(w, p)
  BY DEF OrderlyThread, Wants, Selling

\* A thread keeps its plans in order, and wants no row that is closed already unless it
\* wanted it before.
Keeps(u) ==
  /\ OrderlyThread(u)'
  /\ \A p \in Positions \ Open : Wants(u, p)' => Wants(u, p)

LEMMA ThreadStep ==
  ASSUME TypeOK, Orderly, [Next]_vars, NEW u \in Threads
  PROVE  Keeps(u)
<1> USE DEF Open, Goto, jobVars, handVars
<1>t. Jobs \subseteq Threads /\ Loop \in Threads /\ Loop \notin Jobs
  BY ThreadsAssumption DEF Threads
<1>o. OrderlyThread(u)
  BY DEF Orderly
<1>y. /\ state \in [Positions -> {"open", "closed"}] /\ pc \in [Threads -> Steps]
      /\ rows \in [Threads -> SUBSET Positions] /\ plan \in [Threads -> SUBSET Positions]
      /\ parts \in [Threads -> SUBSET Positions] /\ late \in [Threads -> BOOLEAN]
      /\ tgt \in [Threads -> Positions \cup {NoPosition}]
  BY DEF TypeOK, RowsOK, ThreadsOK
<1>s. ASSUME Still(u), state' = state \/ \E p \in Positions : state' = [state EXCEPT ![p] = "closed"]
      PROVE  Keeps(u)
  <2>1. \A p \in Positions : state[p] = "closed" => state'[p] = "closed"
    BY <1>s, <1>y
  <2> QED
    BY <1>o, <1>s, <2>1, StillThread DEF Keeps
<1>q. ASSUME pc'[u] \notin Selling \cup {"scan"}, plan'[u] \subseteq plan[u],
             rows'[u] \subseteq rows[u], late[u] => late'[u] \/ rows'[u] = {}
      PROVE  Keeps(u)
  BY <1>o, <1>q, QuietThread DEF Keeps
<1>1. ASSUME NEW w \in Jobs, StartCheck(w) PROVE Keeps(u)
  <2>1. CASE u # w
    BY <1>1, <1>s, <1>t, <1>y, <2>1 DEF StartCheck, Still, rowVars
  <2>2. CASE u = w
    <3>1. PICK D \in SUBSET Open : plan'[u] = D /\ rows'[u] = Open \ D
      BY <1>1, <1>t, <1>y, <2>2 DEF StartCheck
    <3>2. pc'[u] = "exits"
      BY <1>1, <1>t, <1>y, <2>2 DEF StartCheck
    <3>3. plan'[u] \cap rows'[u] = {} /\ plan'[u] \cup rows'[u] \subseteq Open
      BY <3>1
    <3> HIDE DEF Open
    <3> QED
      BY <3>2, <3>3 DEF Keeps, OrderlyThread, Wants, Selling
  <2> QED
    BY <2>1, <2>2
<1>2. ASSUME NEW w \in Jobs, NextExit(w) PROVE Keeps(u)
  <2>1. CASE u # w
    BY <1>2, <1>s, <1>t, <1>y, <2>1 DEF NextExit, Aim, Still, rowVars
  <2>2. CASE u = w
    <3>1. PICK p \in plan[w] : plan' = [plan EXCEPT ![w] = @ \ {p}] /\ tgt' = [tgt EXCEPT ![w] = p]
      BY <1>2 DEF NextExit, Aim
    <3>2. p \in Positions /\ plan'[u] = plan[u] \ {p} /\ tgt'[u] = p
      BY <1>t, <1>y, <2>2, <3>1
    <3>3. pc'[u] = "close" /\ rows'[u] = rows[u] /\ late'[u] = late[u]
      BY <1>2, <1>t, <1>y, <2>2 DEF NextExit
    <3>4. OrderlyThread(u)'
      BY <1>o, <2>2, <3>1, <3>2, <3>3 DEF OrderlyThread, Selling
    <3>5. ASSUME NEW q \in Positions, Wants(u, q)' PROVE Wants(u, q)
      BY <2>2, <3>1, <3>2, <3>3, <3>5 DEF Wants, Selling
    <3> QED
      BY <3>4, <3>5 DEF Keeps
  <2> QED
    BY <2>1, <2>2
<1>3. ASSUME NEW w \in Jobs, NextSignal(w) \/ StartParts(w) \/ NextPart(w) \/ EndScan(w) \/ FinishCheck(w)
      PROVE  Keeps(u)
  <2>1. CASE u # w
    <3>1. Still(u) /\ state' = state
      BY <1>3, <1>t, <1>y, <2>1
         DEF NextSignal, StartParts, NextPart, EndScan, FinishCheck, EndCheck, Aim, Still, rowVars
    <3> QED
      BY <1>s, <3>1
  <2>2. CASE u = w
    <3>1. /\ pc'[u] \in {"exits", "parts", "part", "idle"}
          /\ plan'[u] \subseteq plan[u] /\ rows'[u] \subseteq rows[u]
          /\ late[u] => late'[u] \/ rows'[u] = {}
      BY <1>3, <1>t, <1>y, <2>2
         DEF NextSignal, StartParts, NextPart, EndScan, FinishCheck, EndCheck
    <3> QED
      BY <1>q, <3>1 DEF Selling
  <2> QED
    BY <2>1, <2>2
<1>4. ASSUME NEW w \in Jobs, StartScan(w) PROVE Keeps(u)
  <2>1. CASE u # w
    BY <1>4, <1>s, <1>t, <1>y, <2>1 DEF StartScan, Still, rowVars
  <2>2. CASE u = w
    <3>1. /\ parts'[u] \subseteq Open /\ late'[u] /\ pc[u] = "parts" /\ pc'[u] = "scan"
          /\ plan'[u] = plan[u] /\ rows'[u] = rows[u]
      BY <1>4, <1>t, <1>y, <2>2 DEF StartScan
    <3> HIDE DEF Open
    <3> QED
      BY <3>1 DEF Keeps, OrderlyThread, Wants, Selling
  <2> QED
    BY <2>1, <2>2
<1>5. ASSUME NEW w \in Jobs, ScanSignal(w) PROVE Keeps(u)
  <2>1. CASE u # w
    <3>1. Still(u) /\ state' = state
      BY <1>5, <1>t, <1>y, <2>1 DEF ScanSignal, Still, rowVars
    <3> QED
      BY <1>s, <3>1
  <2>2. CASE u = w
    <3>1. PICK p \in parts[w] :
            /\ parts' = [parts EXCEPT ![w] = @ \ {p}]
            /\ plan' = [plan EXCEPT ![w] = IF auto[w] THEN @ \cup ({p} \cap rows[w]) ELSE @]
      BY <1>5 DEF ScanSignal
    <3>2. parts'[u] \subseteq parts[u] /\ plan'[u] \subseteq plan[u] \cup (parts[u] \cap rows[u])
      BY <1>t, <1>y, <2>2, <3>1
    <3>3. pc[u] = "scan" /\ pc'[u] = "scan" /\ rows'[u] = rows[u] /\ late'[u] = late[u] /\ late[u]
      BY <1>5, <1>o, <1>t, <1>y, <2>2 DEF ScanSignal, OrderlyThread
    <3>4. OrderlyThread(u)'
      BY <3>3 DEF OrderlyThread, Selling
    <3>5. ASSUME NEW q \in Positions, Wants(u, q)' PROVE Wants(u, q)
      BY <3>2, <3>3, <3>5 DEF Wants, Selling
    <3> QED
      BY <3>4, <3>5 DEF Keeps
  <2> QED
    BY <2>1, <2>2
<1>6. ASSUME NEW w \in Threads, CloseSelect(w) PROVE Keeps(u)
  <2>1. CASE u # w
    <3>1. Still(u) /\ state' = state
      BY <1>6, <1>y, <2>1 DEF CloseSelect, Still, rowVars
    <3> QED
      BY <1>s, <3>1
  <2>2. CASE u = w
    <3>1. tgt[u] \in Positions
      BY <1>6, <1>o, <2>2 DEF CloseSelect, OrderlyThread, Selling
    <3>2. pc'[u] \in {"closing", "trade"} /\ (pc'[u] = "trade" => state[tgt[u]] = "closed")
      BY <1>6, <1>y, <2>2, <3>1 DEF CloseSelect
    <3>3. /\ pc[u] = "close" /\ tgt'[u] = tgt[u] /\ plan'[u] = plan[u] /\ rows'[u] = rows[u]
          /\ late'[u] = late[u] /\ state' = state
      BY <1>6, <2>2 DEF CloseSelect, rowVars
    <3>4. OrderlyThread(u)'
      BY <1>o, <3>2, <3>3 DEF OrderlyThread, Selling
    <3>5. ASSUME NEW q \in Positions, Wants(u, q)' PROVE Wants(u, q)
      BY <3>2, <3>3, <3>5 DEF Wants, Selling
    <3> QED
      BY <3>4, <3>5 DEF Keeps
  <2> QED
    BY <2>1, <2>2
<1>7. ASSUME NEW w \in Threads, CloseUpdate(w) PROVE Keeps(u)
  <2>1. tgt[w] \in Positions
    BY <1>7 DEF CloseUpdate, Orderly, OrderlyThread, Selling
  <2>2. CASE u # w
    <3>1. Still(u) /\ state' = [state EXCEPT ![tgt[w]] = "closed"]
      BY <1>7, <1>y, <2>2 DEF CloseUpdate, Still
    <3> QED
      BY <1>s, <2>1, <3>1
  <2>3. CASE u = w
    <3>1. /\ pc[u] = "closing" /\ pc'[u] = "trade" /\ tgt'[u] = tgt[u]
          /\ plan'[u] = plan[u] /\ rows'[u] = rows[u] /\ late'[u] = late[u]
          /\ state'[tgt[u]] = "closed"
      BY <1>7, <1>y, <2>1, <2>3 DEF CloseUpdate
    <3>2. OrderlyThread(u)'
      BY <1>o, <3>1 DEF OrderlyThread, Selling
    <3>3. ASSUME NEW q \in Positions, Wants(u, q)' PROVE Wants(u, q)
      BY <3>1, <3>3 DEF Wants, Selling
    <3> QED
      BY <3>2, <3>3 DEF Keeps
  <2> QED
    BY <2>2, <2>3
<1>8. ASSUME NEW w \in Threads, \/ SellTrade(w) \/ SellOrder(w)
                                \/ PartSelect(w) \/ PartUpdate(w) \/ PartTrade(w)
      PROVE  Keeps(u)
  <2>1. UNCHANGED <<jobVars, state>>
    BY <1>8 DEF SellTrade, SellOrder, PartSelect, PartUpdate, PartTrade, rowVars
  <2>2. CASE u # w
    <3>1. pc'[u] = pc[u] /\ tgt'[u] = tgt[u]
      BY <1>8, <1>y, <2>2 DEF SellTrade, SellOrder, PartSelect, PartUpdate, PartTrade, Drop
    <3> QED
      BY <1>s, <2>1, <3>1 DEF Still
  <2>3. CASE u = w
    <3>1. pc'[u] \notin Selling \cup {"scan"}
      BY <1>8, <1>y, <2>3
         DEF SellTrade, SellOrder, PartSelect, PartUpdate, PartTrade, Selling
    <3> QED
      BY <1>q, <2>1, <3>1
  <2> QED
    BY <2>2, <2>3
<1>9. ASSUME (\E s \in Signals : ApproveRequest(s)) \/ Approve \/ MarkExecuted PROVE Keeps(u)
  <2>1. UNCHANGED <<jobVars, state>>
    BY <1>9 DEF ApproveRequest, Approve, MarkExecuted, rowVars
  <2>2. CASE u # Loop
    <3>1. pc'[u] = pc[u] /\ tgt'[u] = tgt[u]
      BY <1>9, <1>t, <1>y, <2>2 DEF ApproveRequest, Approve, MarkExecuted, Drop
    <3> QED
      BY <1>s, <2>1, <3>1 DEF Still
  <2>3. CASE u = Loop
    <3>1. pc'[u] \notin Selling \cup {"scan"}
      BY <1>9, <1>y, <2>3 DEF ApproveRequest, Approve, MarkExecuted, Selling
    <3> QED
      BY <1>q, <2>1, <3>1
  <2> QED
    BY <2>2, <2>3
<1>10. ASSUME FindPosition PROVE Keeps(u)
  <2>1. UNCHANGED <<jobVars, state>>
    BY <1>10 DEF FindPosition, rowVars
  <2>2. CASE u # Loop
    <3>1. pc'[u] = pc[u] /\ tgt'[u] = tgt[u]
      BY <1>10, <1>t, <1>y, <2>2 DEF FindPosition, Aim, Drop
    <3> QED
      BY <1>s, <2>1, <3>1 DEF Still
  <2>3. CASE u = Loop /\ sigPos[cur] \in Open
    <3>1. tgt'[u] \in Open /\ pc'[u] = "close"
      BY <1>10, <1>y, <2>3 DEF FindPosition, Aim
    <3>2. plan'[u] = {} /\ rows'[u] = {}
      BY <2>1, <2>3 DEF Orderly
    <3> QED
      BY <3>1, <3>2 DEF Keeps, OrderlyThread, Wants, Selling
  <2>4. CASE u = Loop /\ sigPos[cur] \notin Open
    <3>1. pc'[u] = "idle"
      BY <1>10, <1>y, <2>4 DEF FindPosition
    <3> QED
      BY <1>q, <2>1, <3>1 DEF Selling
  <2> QED
    BY <2>2, <2>3, <2>4
<1>11. ASSUME SwitchAutoSell \/ (\E s \in Signals : SettleSignal(s)) \/ UNCHANGED vars PROVE Keeps(u)
  <2>1. Still(u) /\ state' = state
    BY <1>11 DEF SwitchAutoSell, SettleSignal, vars, Still, rowVars
  <2> QED
    BY <1>s, <2>1
<1>12. ASSUME NEW w \in Threads, Fault(w) PROVE Keeps(u)
  <2>1. state' = state
    BY <1>12 DEF Fault, rowVars
  <2>2. CASE u # w
    <3>1. pc'[u] = pc[u] /\ tgt'[u] = tgt[u]
      BY <1>12, <1>y, <2>2 DEF Fault, EndCheck, Drop
    <3>2. plan'[u] = plan[u] /\ rows'[u] = rows[u] /\ late'[u] = late[u] /\ parts'[u] = parts[u]
      BY <1>12, <1>y, <2>2 DEF Fault, EndCheck
    <3> QED
      BY <1>s, <2>1, <3>1, <3>2 DEF Still
  <2>3. CASE u = w
    <3>1. pc'[u] \in {"idle", "exits"}
      BY <1>12, <1>y, <2>3 DEF Fault, EndCheck
    <3>2. plan'[u] \subseteq plan[u] /\ rows'[u] \subseteq rows[u] /\ (late[u] => late'[u] \/ rows'[u] = {})
      BY <1>12, <1>y, <2>3 DEF Fault, EndCheck
    <3> QED
      BY <1>q, <3>1, <3>2 DEF Selling
  <2> QED
    BY <2>2, <2>3
<1>13. ASSUME Restart PROVE Keeps(u)
  <2>1. pc'[u] = "idle" /\ plan'[u] = {} /\ rows'[u] = {}
    BY <1>13 DEF Restart
  <2> QED
    BY <1>q, <2>1 DEF Selling
<1> QED
  BY <1>1, <1>2, <1>3, <1>4, <1>5, <1>6, <1>7, <1>8, <1>9, <1>10, <1>11, <1>12, <1>13
     DEF Next, Check, Sell, Endpoint, Environment

LEMMA OrderlyInit == Init => Orderly
  BY DEF Init, Orderly, OrderlyThread, Selling, Threads

LEMMA OrderlyStep == TypeOK /\ Orderly /\ [Next]_vars => Orderly'
<1> SUFFICES ASSUME TypeOK, Orderly, [Next]_vars PROVE Orderly'
  OBVIOUS
<1>1. \A u \in Threads : OrderlyThread(u)'
  BY ThreadStep DEF Keeps
<1>2. Loop \in Threads /\ Loop \notin Jobs /\ plan \in [Threads -> SUBSET Positions]
      /\ rows \in [Threads -> SUBSET Positions]
  BY ThreadsAssumption DEF Threads, TypeOK, ThreadsOK
<1>3. ASSUME NEW w \in Jobs, StartCheck(w) \/ Check(w)
      PROVE  plan'[Loop] = plan[Loop] /\ rows'[Loop] = rows[Loop]
  BY <1>2, <1>3 DEF StartCheck, Check, NextExit, NextSignal, StartParts, NextPart, StartScan,
     ScanSignal, EndScan, FinishCheck, EndCheck, jobVars
<1>4. ASSUME \/ \E w \in Threads : Sell(w)
             \/ Endpoint \/ Environment \/ UNCHANGED vars
      PROVE  plan'[Loop] \subseteq plan[Loop] /\ rows'[Loop] \subseteq rows[Loop]
  BY <1>2, <1>4 DEF Sell, CloseSelect, CloseUpdate, SellTrade, SellOrder, PartSelect, PartUpdate,
     PartTrade, Endpoint, Approve, FindPosition, MarkExecuted, Environment, ApproveRequest,
     SettleSignal, SwitchAutoSell, Restart, jobVars, vars
<1>5. ASSUME NEW w \in Threads, Fault(w)
      PROVE  plan'[Loop] \subseteq plan[Loop] /\ rows'[Loop] \subseteq rows[Loop]
  BY <1>2, <1>5 DEF Fault, EndCheck, jobVars
<1>6. plan'[Loop] \subseteq plan[Loop] /\ rows'[Loop] \subseteq rows[Loop]
  BY <1>3, <1>4, <1>5 DEF Next
<1> QED
  BY <1>1, <1>6 DEF Orderly

\* No step reopens a row, and only CloseUpdate closes one.
LEMMA ClosingStep ==
  ASSUME TypeOK, [Next]_vars
  PROVE  \/ state' = state
         \/ \E w \in Threads : /\ pc[w] = "closing" /\ pc'[w] = "trade" /\ tgt'[w] = tgt[w]
                               /\ state' = [state EXCEPT ![tgt[w]] = "closed"]
  BY DEF TypeOK, ThreadsOK, Next, Check, Sell, Endpoint, Environment, vars, rowVars, handVars,
     StartCheck, NextExit, NextSignal, StartParts, NextPart, StartScan, ScanSignal, EndScan,
     FinishCheck, CloseSelect, CloseUpdate, SellTrade, SellOrder, PartSelect, PartUpdate, PartTrade,
     Approve, FindPosition, MarkExecuted, ApproveRequest, SettleSignal, SwitchAutoSell, Restart,
     Fault, Goto

\* What a step may do to the sales of a row.
LEMMA SaleStep ==
  ASSUME TypeOK, [Next]_vars
  PROVE  \/ exits' = exits
         \/ \E w \in Threads : /\ pc[w] = "trade" /\ pc'[w] \in {"mark", "order"}
                               /\ exits' = [exits EXCEPT ![tgt[w]] = @ + 1]
                               /\ UNCHANGED <<state, plan, rows, late>>
  BY DEF TypeOK, ThreadsOK, Next, Check, Sell, Endpoint, Environment, vars, tradeVars, rowVars, jobVars,
     StartCheck, NextExit, NextSignal, StartParts, NextPart, StartScan, ScanSignal, EndScan,
     FinishCheck, CloseSelect, CloseUpdate, SellTrade, SellOrder, PartSelect, PartUpdate, PartTrade,
     Approve, FindPosition, MarkExecuted, ApproveRequest, SettleSignal, SwitchAutoSell, Restart,
     Fault, Goto

LEMMA FiniteThreads == IsFiniteSet(Threads) /\ Cardinality(Threads) \in Nat
  BY ThreadsAssumption, FS_AddElement, FS_CardinalityType DEF Threads

LEMMA WantingFinite ==
  ASSUME NEW p \in Positions
  PROVE  /\ IsFiniteSet(Wanting(p)) /\ Cardinality(Wanting(p)) \in Nat
         /\ Cardinality(Wanting(p)) <= Cardinality(Threads)
  BY FiniteThreads, FS_Subset, FS_CardinalityType DEF Wanting

LEMMA WantingFinitePrime ==
  ASSUME NEW p \in Positions
  PROVE  /\ IsFiniteSet(Wanting(p)') /\ Cardinality(Wanting(p)') \in Nat
         /\ Cardinality(Wanting(p)') <= Cardinality(Threads)
  BY FiniteThreads, FS_Subset, FS_CardinalityType DEF Wanting

LEMMA SlotsInit == Init => ExitSlots
<1> SUFFICES ASSUME Init, NEW p \in Positions
             PROVE  exits[p] = 0 /\ Cardinality(Wanting(p)) <= Cardinality(Threads)
  BY WantingFinite DEF ExitSlots
<1> QED
  BY WantingFinite DEF Init

LEMMA SlotsStep == TypeOK /\ Orderly /\ ExitSlots /\ [Next]_vars => ExitSlots'
<1> SUFFICES ASSUME TypeOK, Orderly, ExitSlots, [Next]_vars, NEW p \in Positions
             PROVE  /\ exits'[p] > 0 => state'[p] = "closed"
                    /\ exits'[p] + Cardinality(Wanting(p)') <= Cardinality(Threads)
  BY DEF ExitSlots
<1>1. /\ exits \in [Positions -> Nat] /\ state \in [Positions -> {"open", "closed"}]
      /\ exits[p] > 0 => state[p] = "closed"
      /\ exits[p] + Cardinality(Wanting(p)) <= Cardinality(Threads)
  BY DEF TypeOK, RowsOK, ExitSlots
<1>2. state[p] = "closed" => state'[p] = "closed"
  BY <1>1, ClosingStep
<1>3. state[p] = "closed" => Wanting(p)' \subseteq Wanting(p)
  BY ThreadStep, <1>1 DEF Keeps, Wanting, Open
<1>4. CASE exits'[p] = 0
  BY <1>4, WantingFinitePrime, FiniteThreads
<1>5. CASE exits'[p] = exits[p] /\ exits[p] > 0
  <2>1. Cardinality(Wanting(p)') <= Cardinality(Wanting(p))
    BY <1>1, <1>3, <1>5, WantingFinite, FS_Subset
  <2> QED
    BY <1>1, <1>2, <1>5, <2>1, WantingFinite, WantingFinitePrime, FiniteThreads
<1>6. ASSUME NEW w \in Threads, pc[w] = "trade", pc'[w] \in {"mark", "order"}, tgt[w] = p,
             exits' = [exits EXCEPT ![p] = @ + 1], UNCHANGED <<state, plan, rows, late>>
      PROVE  /\ exits'[p] > 0 => state'[p] = "closed"
             /\ exits'[p] + Cardinality(Wanting(p)') <= Cardinality(Threads)
  <2>1. /\ state[p] = "closed" /\ p \notin plan[w] /\ (~late[w] => p \notin rows[w])
    BY <1>6 DEF Orderly, OrderlyThread, Selling
  <2>2. w \in Wanting(p) /\ w \notin Wanting(p)'
    BY <1>6, <2>1 DEF Wanting, Wants, Selling
  <2>3. Wanting(p)' \subseteq Wanting(p) \ {w}
    BY <1>3, <2>1, <2>2
  <2>4. IsFiniteSet(Wanting(p) \ {w}) /\ Cardinality(Wanting(p) \ {w}) = Cardinality(Wanting(p)) - 1
    BY <2>2, WantingFinite, FS_RemoveElement
  <2>5. Cardinality(Wanting(p)') <= Cardinality(Wanting(p)) - 1
    BY <2>3, <2>4, FS_Subset
  <2>6. exits'[p] = exits[p] + 1
    BY <1>1, <1>6
  <2> QED
    BY <1>1, <1>6, <2>1, <2>5, <2>6, WantingFinite, WantingFinitePrime, FiniteThreads
<1>7. \/ exits'[p] = exits[p]
      \/ \E w \in Threads : /\ pc[w] = "trade" /\ pc'[w] \in {"mark", "order"} /\ tgt[w] = p
                            /\ exits' = [exits EXCEPT ![p] = @ + 1]
                            /\ UNCHANGED <<state, plan, rows, late>>
  BY <1>1, SaleStep
<1> QED
  BY <1>1, <1>4, <1>5, <1>6, <1>7

\* A row is sold out at most once by each thread: close_position's ignored result costs
\* one repeated sale per thread that planned it, and no more, for any number of rows,
\* jobs, faults and restarts.
THEOREM ExitsStayBounded == Spec => []ExitsBounded
<1>1. Init => TypeOK /\ Orderly /\ ExitSlots
  BY TypeInit, OrderlyInit, SlotsInit
<1>2. TypeOK /\ Orderly /\ ExitSlots /\ [Next]_vars => (TypeOK /\ Orderly /\ ExitSlots)'
  BY TypeStep, OrderlyStep, SlotsStep
<1>3. TypeOK /\ ExitSlots => ExitsBounded
  <2> SUFFICES ASSUME TypeOK, ExitSlots, NEW p \in Positions
               PROVE  exits[p] <= Cardinality(Threads)
    BY DEF ExitsBounded
  <2> QED
    BY WantingFinite, FiniteThreads DEF ExitSlots, TypeOK, RowsOK
<1> QED
  BY <1>1, <1>2, <1>3, PTL DEF Spec

(***************************************************************************)
(* No row is closed behind the trade log's back.                           *)
(***************************************************************************)
\* Without a fault a thread that is to record a sale stays there until it does.
LEMMA TradeStep ==
  ASSUME TypeOK, [Next]_vars, ~Faults, NEW w \in Threads, pc[w] = "trade"
  PROVE  \/ pc'[w] = "trade" /\ tgt'[w] = tgt[w]
         \/ exits' = [exits EXCEPT ![tgt[w]] = @ + 1]
<1>1. CASE \E v \in Threads : v # w /\ (StartCheck(v) \/ Check(v) \/ Sell(v))
  BY <1>1 DEF TypeOK, ThreadsOK, Check, Sell, handVars, StartCheck, NextExit, NextSignal,
     StartParts, NextPart, StartScan, ScanSignal, EndScan, FinishCheck, EndCheck, CloseSelect,
     CloseUpdate, SellTrade, SellOrder, PartSelect, PartUpdate, PartTrade, Aim, Drop, Goto
<1>2. CASE StartCheck(w) \/ Check(w) \/ Sell(w)
  BY <1>2 DEF Check, Sell, StartCheck, NextExit, NextSignal, StartParts, NextPart, StartScan,
     ScanSignal, EndScan, FinishCheck, CloseSelect, CloseUpdate, SellTrade, SellOrder, PartSelect,
     PartUpdate, PartTrade
<1>3. CASE Endpoint \/ Environment \/ UNCHANGED vars
  BY <1>3, ThreadsAssumption DEF TypeOK, ThreadsOK, Threads, Endpoint, Environment, vars, handVars,
     Approve, FindPosition, MarkExecuted, ApproveRequest, SettleSignal, SwitchAutoSell, Restart,
     Aim, Drop, Goto
<1>4. CASE \E v \in Threads : Fault(v)
  BY <1>4 DEF Fault
<1> QED
  BY <1>1, <1>2, <1>3, <1>4 DEF Next, Threads

LEMMA LoggedStep == TypeOK /\ Orderly /\ ClosedLogged /\ [Next]_vars => ClosedLogged'
<1> SUFFICES ASSUME TypeOK, Orderly, ClosedLogged, [Next]_vars, ~Faults,
                    NEW p \in Positions, state'[p] = "closed"
             PROVE  exits'[p] > 0 \/ \E w \in Threads : pc'[w] = "trade" /\ tgt'[w] = p
  BY DEF ClosedLogged
<1>1. exits \in [Positions -> Nat] /\ state \in [Positions -> {"open", "closed"}]
  BY DEF TypeOK, RowsOK
<1>2. CASE state[p] = "closed" /\ exits[p] > 0
  <2>1. \A w \in Threads : pc[w] = "trade" => tgt[w] \in Positions
    BY DEF Orderly, OrderlyThread, Selling
  <2> QED
    BY <1>1, <1>2, <2>1, SaleStep
<1>3. ASSUME NEW w \in Threads, pc[w] = "trade", tgt[w] = p
      PROVE  exits'[p] > 0 \/ (pc'[w] = "trade" /\ tgt'[w] = p)
  BY <1>1, <1>3, TradeStep
<1>4. CASE state[p] # "closed"
  BY <1>1, <1>4, ClosingStep
<1> QED
  BY <1>2, <1>3, <1>4 DEF ClosedLogged

\* A closed row has a SELL in the trade log, or a thread about to write it: what a fault
\* alone can break.
THEOREM ClosedStaysLogged == Spec => []ClosedLogged
<1>1. Init => TypeOK /\ Orderly /\ ClosedLogged
  BY TypeInit, OrderlyInit DEF Init, ClosedLogged
<1>2. TypeOK /\ Orderly /\ ClosedLogged /\ [Next]_vars => (TypeOK /\ Orderly /\ ClosedLogged)'
  BY TypeStep, OrderlyStep, LoggedStep
<1> QED
  BY <1>1, <1>2, PTL DEF Spec

(***************************************************************************)
(* Shares at hand, piled up under the threads that hold them.              *)
(***************************************************************************)
LEMMA ThreadPile ==
  ASSUME NEW W \in SUBSET Threads, NEW f, \A u \in Threads : f[u] \in Nat, NEW w \in Threads
  PROVE  /\ Cardinality(Pile(W \ {w}, f)) \in Nat
         /\ Cardinality(Pile(W, f)) = Cardinality(Pile(W \ {w}, f)) + IF w \in W THEN f[w] ELSE 0
<1>1. IsFiniteSet(Threads)
  BY FiniteThreads
<1> QED
  BY <1>1, PileSplit

\* What w has at hand of p, when it is at one of the steps S.
Own(S, p, w) == IF pc[w] \in S /\ tgt[w] = p THEN amount[w] ELSE 0

\* A step of w changes what is at hand by what w takes up or lays down.
LEMMA CarriedStep ==
  ASSUME ThreadsOK, ThreadsOK', NEW w \in Threads, NEW S, NEW p,
         \A u \in Threads \ {w} : pc'[u] = pc[u] /\ tgt'[u] = tgt[u] /\ amount'[u] = amount[u]
  PROVE  /\ Carried(S, p) \in Nat /\ Carried(S, p)' \in Nat
         /\ Own(S, p, w) \in Nat /\ Own(S, p, w)' \in Nat
         /\ Carried(S, p)' + Own(S, p, w) = Carried(S, p) + Own(S, p, w)'
<1> DEFINE Before == {u \in Threads : pc[u] \in S /\ tgt[u] = p}
           After == {u \in Threads : pc'[u] \in S /\ tgt'[u] = p}
           Rest == Cardinality(Pile(Before \ {w}, amount))
<1>1. After \ {w} = Before \ {w}
  OBVIOUS
<1>2. Pile(Before \ {w}, amount') = Pile(Before \ {w}, amount)
  <2>1. \A u \in Before \ {w} : amount'[u] = amount[u]
    OBVIOUS
  <2> QED
    BY <2>1, PileSame, Zenon
<1>3. \A u \in Threads : amount[u] \in Nat /\ amount'[u] \in Nat
  BY DEF ThreadsOK
<1>4. Before \in SUBSET Threads /\ After \in SUBSET Threads
  OBVIOUS
<1>5. Rest \in Nat /\ Cardinality(Pile(Before, amount)) = Rest + Own(S, p, w)
  <2>1. Own(S, p, w) = IF w \in Before THEN amount[w] ELSE 0
    BY DEF Own
  <2>2. /\ Cardinality(Pile(Before \ {w}, amount)) \in Nat
        /\ Cardinality(Pile(Before, amount)) = Cardinality(Pile(Before \ {w}, amount)) + IF w \in Before THEN amount[w] ELSE 0
    <3> HIDE DEF Before
    <3> QED
      BY <1>3, <1>4, ThreadPile
  <2> QED
    BY <2>1, <2>2
<1>6. Cardinality(Pile(After, amount')) = Rest + Own(S, p, w)'
  <2>1. Own(S, p, w)' = IF w \in After THEN amount'[w] ELSE 0
    BY DEF Own
  <2>2. Cardinality(Pile(After, amount')) = Cardinality(Pile(After \ {w}, amount')) + IF w \in After THEN amount'[w] ELSE 0
    <3> HIDE DEF After, Before
    <3> QED
      BY <1>3, <1>4, ThreadPile
  <2> QED
    BY <1>1, <1>2, <2>1, <2>2
<1>7. Own(S, p, w) \in Nat /\ Own(S, p, w)' \in Nat
  BY <1>3 DEF Own
<1>8. Carried(S, p) = Cardinality(Pile(Before, amount)) /\ Carried(S, p)' = Cardinality(Pile(After, amount'))
  BY DEF Carried, Pile
<1> HIDE DEF Before, After, Rest
<1> QED
  BY <1>5, <1>6, <1>7, <1>8

\* Nothing is at hand where no thread is.
LEMMA CarriedNone ==
  ASSUME NEW S, NEW p
  PROVE  /\ (\A w \in Threads : pc[w] \notin S) => Carried(S, p) = 0
         /\ (\A w \in Threads : pc'[w] \notin S) => Carried(S, p)' = 0
<1>1. Cardinality(UNION {{w} \X (1..amount[w]) : w \in {}}) = 0 /\ Cardinality(UNION {{w} \X (1..amount'[w]) : w \in {}}) = 0
  <2>1. UNION {{w} \X (1..amount[w]) : w \in {}} = {} /\ UNION {{w} \X (1..amount'[w]) : w \in {}} = {}
    BY Zenon
  <2> QED
    BY <2>1, FS_EmptySet
<1>2. (\A w \in Threads : pc[w] \notin S) => {w \in Threads : pc[w] \in S /\ tgt[w] = p} = {}
  OBVIOUS
<1>3. (\A w \in Threads : pc'[w] \notin S) => {w \in Threads : pc'[w] \in S /\ tgt'[w] = p} = {}
  OBVIOUS
<1> QED
  BY <1>1, <1>2, <1>3, Zenon DEF Carried

LEMMA CarriedNat ==
  ASSUME ThreadsOK, NEW S, NEW p
  PROVE  Carried(S, p) \in Nat
<1> DEFINE W == {w \in Threads : pc[w] \in S /\ tgt[w] = p}
<1>1. IsFiniteSet(W)
  BY FiniteThreads, FS_Subset
<1>2. \A w \in W : amount[w] \in Nat
  BY DEF ThreadsOK
<1> HIDE DEF W
<1>3. Cardinality(Pile(W, amount)) \in Nat
  BY <1>1, <1>2, PileFinite
<1> QED
  BY <1>3 DEF W, Carried, Pile

\* Only w has moved.
Alone(w) ==
  \A u \in Threads \ {w} :
    /\ pc'[u] = pc[u] /\ tgt'[u] = tgt[u] /\ amount'[u] = amount[u] /\ read'[u] = read[u]
    /\ plan'[u] = plan[u] /\ rows'[u] = rows[u] /\ parts'[u] = parts[u] /\ seen'[u] = seen[u]

\* No step but the restart moves two threads.
LEMMA Footprint ==
  ASSUME ThreadsOK
  PROVE  /\ \A w \in Jobs : StartCheck(w) \/ Check(w) => Alone(w)
         /\ \A w \in Threads : Sell(w) \/ Fault(w) => Alone(w)
         /\ Endpoint \/ (\E s \in Signals : ApproveRequest(s)) => Alone(Loop)
         /\ (\E s \in Signals : SettleSignal(s)) \/ SwitchAutoSell \/ UNCHANGED vars
              => Alone(Loop) /\ UNCHANGED <<pc, jobVars, handVars>>
<1> USE DEF Alone, ThreadsOK, handVars, jobVars
<1>1. ASSUME NEW w \in Jobs, StartCheck(w) \/ Check(w) PROVE Alone(w)
  BY <1>1 DEF StartCheck, Check, NextExit, NextSignal, StartParts, NextPart, StartScan, ScanSignal,
     EndScan, FinishCheck, EndCheck, Aim, Goto
<1>2. ASSUME NEW w \in Threads, Sell(w) PROVE Alone(w)
  BY <1>2 DEF Sell, CloseSelect, CloseUpdate, SellTrade, SellOrder, PartSelect, PartUpdate, PartTrade,
     Drop, Goto
<1>3. ASSUME NEW w \in Threads, Fault(w) PROVE Alone(w)
  BY <1>3 DEF Fault, EndCheck, Drop, Goto
<1>4. ASSUME Endpoint \/ \E s \in Signals : ApproveRequest(s) PROVE Alone(Loop)
  BY <1>4 DEF Endpoint, Approve, FindPosition, MarkExecuted, ApproveRequest, Aim, Drop, Goto
<1>5. ASSUME (\E s \in Signals : SettleSignal(s)) \/ SwitchAutoSell \/ UNCHANGED vars
      PROVE  Alone(Loop) /\ UNCHANGED <<pc, jobVars, handVars>>
  BY <1>5 DEF SettleSignal, SwitchAutoSell, vars
<1> QED
  BY <1>1, <1>2, <1>3, <1>4, <1>5

(***************************************************************************)
(* Orders against the trade log.                                           *)
(***************************************************************************)
\* The shares told to the broker, and those a thread is about to tell, are in the log.
OrdersBacked == \A p \in Positions : sent[p] + Carried({"order"}, p) <= sold[p]

\* What a step of w adds to the orders of p, it adds to the log.
Balanced(w, p) ==
  sent'[p] + Own({"order"}, p, w)' + sold[p] <= sold'[p] + sent[p] + Own({"order"}, p, w)

LEMMA BalancedStep ==
  ASSUME TypeOK, TypeOK', NEW p \in Positions
  PROVE  /\ \A w \in Jobs : StartCheck(w) \/ Check(w) => Balanced(w, p)
         /\ \A w \in Threads : Sell(w) \/ Fault(w) => Balanced(w, p)
         /\ Endpoint \/ (\E s \in Signals : ApproveRequest(s)) => Balanced(Loop, p)
         /\ (\E s \in Signals : SettleSignal(s)) \/ SwitchAutoSell \/ UNCHANGED vars => Balanced(Loop, p)
<1> USE DEF tradeVars, rowVars
<1>t. /\ Jobs \subseteq Threads /\ Loop \in Threads
      /\ \A w \in Threads : amount[w] \in Nat /\ amount'[w] \in Nat /\ pc[w] \in Steps
      /\ sold[p] \in Nat /\ sent[p] \in Nat /\ sold'[p] \in Nat /\ sent'[p] \in Nat
  BY DEF Threads, TypeOK, ThreadsOK, RowsOK
\* A thread that ends up elsewhere lays down what it had at hand.
<1>a. ASSUME NEW w \in Threads, UNCHANGED <<sold, sent>>, pc'[w] # "order" PROVE Balanced(w, p)
  BY <1>a, <1>t DEF Balanced, Own
<1>1. ASSUME NEW w \in Jobs, StartCheck(w) \/ Check(w) PROVE Balanced(w, p)
  <2>1. UNCHANGED <<sold, sent>>
    BY <1>1 DEF StartCheck, Check, NextExit, NextSignal, StartParts, NextPart, StartScan, ScanSignal,
       EndScan, FinishCheck
  <2>2. pc'[w] # "order"
    BY <1>1, <1>t DEF TypeOK, ThreadsOK, StartCheck, Check, NextExit, NextSignal, StartParts, NextPart,
       StartScan, ScanSignal, EndScan, FinishCheck, EndCheck, Goto
  <2> QED
    BY <1>a, <1>t, <2>1, <2>2
<1>2. ASSUME NEW w \in Threads, Sell(w) PROVE Balanced(w, p)
  <2>1. CASE CloseSelect(w) \/ CloseUpdate(w) \/ PartSelect(w) \/ PartUpdate(w)
    <3>1. UNCHANGED <<sold, sent>> /\ pc'[w] # "order"
      BY <1>t, <2>1 DEF TypeOK, ThreadsOK, CloseSelect, CloseUpdate, PartSelect, PartUpdate, Goto
    <3> QED
      BY <1>a, <3>1
  <2>2. CASE SellTrade(w)
    <3>1. /\ pc[w] = "trade" /\ tgt' = tgt /\ amount' = amount /\ sent' = sent
          /\ sold' = [sold EXCEPT ![tgt[w]] = @ + amount[w]]
      BY <2>2 DEF SellTrade, handVars
    <3>2. sold'[p] = IF tgt[w] = p THEN sold[p] + amount[w] ELSE sold[p]
      BY <3>1 DEF TypeOK, RowsOK
    <3> QED
      BY <1>t, <3>1, <3>2 DEF Balanced, Own
  <2>3. CASE SellOrder(w)
    <3>1. pc[w] = "order" /\ pc'[w] = "exits" /\ sold' = sold
      BY <2>3 DEF SellOrder, Goto, TypeOK, ThreadsOK
    <3>2. sent'[p] <= IF tgt[w] = p THEN sent[p] + amount[w] ELSE sent[p]
      <4>1. sent' = sent \/ sent' = [sent EXCEPT ![tgt[w]] = @ + amount[w]]
        BY <2>3 DEF SellOrder
      <4> QED
        BY <1>t, <4>1 DEF TypeOK, RowsOK
    <3> QED
      BY <1>t, <3>1, <3>2 DEF Balanced, Own
  <2>4. CASE PartTrade(w)
    <3>1. pc'[w] = "parts" /\ sent' = sent /\ sold' = [sold EXCEPT ![tgt[w]] = @ + amount[w]]
      BY <2>4 DEF PartTrade, Goto, TypeOK, ThreadsOK
    <3>2. sold'[p] >= sold[p]
      BY <1>t, <3>1 DEF TypeOK, RowsOK
    <3> QED
      BY <1>t, <3>1, <3>2 DEF Balanced, Own
  <2> QED
    BY <1>2, <2>1, <2>2, <2>3, <2>4 DEF Sell
<1>3. ASSUME NEW w \in Threads, Fault(w) PROVE Balanced(w, p)
  <2>1. UNCHANGED <<sold, sent>> /\ pc'[w] # "order"
    BY <1>3 DEF Fault, EndCheck, Goto, TypeOK, ThreadsOK
  <2> QED
    BY <1>a, <2>1
<1>4. ASSUME Endpoint \/ \E s \in Signals : ApproveRequest(s) PROVE Balanced(Loop, p)
  <2>1. UNCHANGED <<sold, sent>> /\ pc'[Loop] # "order"
    BY <1>4, <1>t DEF Endpoint, Approve, FindPosition, MarkExecuted, ApproveRequest, Goto, TypeOK, ThreadsOK
  <2> QED
    BY <1>a, <1>t, <2>1
<1>5. ASSUME (\E s \in Signals : SettleSignal(s)) \/ SwitchAutoSell \/ UNCHANGED vars
      PROVE  Balanced(Loop, p)
  <2>1. UNCHANGED <<sold, sent, pc, tgt, amount>>
    BY <1>5 DEF SettleSignal, SwitchAutoSell, vars, handVars
  <2> QED
    BY <1>t, <2>1 DEF Balanced, Own
<1> QED
  BY <1>1, <1>2, <1>3, <1>4, <1>5

LEMMA OrdersStep == TypeOK /\ OrdersBacked /\ [Next]_vars => OrdersBacked'
<1> SUFFICES ASSUME TypeOK, OrdersBacked, [Next]_vars, NEW p \in Positions
             PROVE  sent'[p] + Carried({"order"}, p)' <= sold'[p]
  BY DEF OrdersBacked
<1>1. TypeOK' /\ ThreadsOK /\ ThreadsOK'
  BY TypeStep DEF TypeOK
<1>2. sent[p] \in Nat /\ sold[p] \in Nat /\ sent'[p] \in Nat /\ sold'[p] \in Nat
  BY <1>1 DEF TypeOK, RowsOK
<1>3. sent[p] + Carried({"order"}, p) <= sold[p]
  BY DEF OrdersBacked
<1>4. ASSUME NEW w \in Threads, Alone(w), Balanced(w, p)
      PROVE  sent'[p] + Carried({"order"}, p)' <= sold'[p]
  <2>1. /\ Carried({"order"}, p) \in Nat /\ Carried({"order"}, p)' \in Nat
        /\ Own({"order"}, p, w) \in Nat /\ Own({"order"}, p, w)' \in Nat
        /\ Carried({"order"}, p)' + Own({"order"}, p, w) = Carried({"order"}, p) + Own({"order"}, p, w)'
    BY <1>1, <1>4, CarriedStep DEF Alone
  <2> QED
    BY <1>2, <1>3, <1>4, <2>1 DEF Balanced
<1>5. CASE Restart
  <2>1. \A w \in Threads : pc'[w] \notin {"order"}
    BY <1>5 DEF Restart
  <2>2. Carried({"order"}, p)' = 0 /\ Carried({"order"}, p) \in Nat
    BY <1>1, <2>1, CarriedNone, CarriedNat
  <2> QED
    BY <1>2, <1>3, <1>5, <2>2 DEF Restart, tradeVars
<1>6. CASE ~Restart
  <2>1. Jobs \subseteq Threads /\ Loop \in Threads
    BY DEF Threads
  <2> QED
    BY <1>1, <1>4, <1>6, <2>1, Footprint, BalancedStep DEF Next, Environment
<1> QED
  BY <1>5, <1>6

\* The broker is never told to sell a share the trade log does not hold, whatever fails.
THEOREM OrdersStayLogged == Spec => []OrdersLogged
<1>1. Init => OrdersBacked
  <2> SUFFICES ASSUME Init, NEW p \in Positions PROVE sent[p] + Carried({"order"}, p) <= sold[p]
    BY DEF OrdersBacked
  <2>1. \A w \in Threads : pc[w] \notin {"order"}
    BY DEF Init
  <2>2. Carried({"order"}, p) = 0
    BY <2>1, CarriedNone
  <2> QED
    BY <2>2 DEF Init
<1>2. TypeOK /\ OrdersBacked => OrdersLogged
  <2> SUFFICES ASSUME TypeOK, OrdersBacked, NEW p \in Positions PROVE sent[p] <= sold[p]
    BY DEF OrdersLogged
  <2>1. Carried({"order"}, p) \in Nat /\ sent[p] \in Nat /\ sold[p] \in Nat
    BY CarriedNat DEF TypeOK, RowsOK
  <2> QED
    BY <2>1 DEF OrdersBacked
<1> QED
  BY <1>1, <1>2, TypeInit, TypeStep, OrdersStep, PTL DEF Spec

(***************************************************************************)
(* The trade log against the rows.                                         *)
(*                                                                         *)
(* Shares in the log and shares on their way into it only grow while no    *)
(* call fails.  So whatever quantity a thread has read of a row, the       *)
(* shares that had left it by then are accounted for, however old the      *)
(* reading is; and what the thread takes away on the strength of it goes   *)
(* into its hand in the same step.                                         *)
(***************************************************************************)
Hands == {"trade", "parttrade"}
Accounted(p) == sold[p] + Carried(Hands, p)

\* What w does to the shares of p that are accounted for.
Gains(w, p, n) == sold'[p] + Own(Hands, p, w)' = sold[p] + Own(Hands, p, w) + n

LEMMA GainStep ==
  ASSUME TypeOK, TypeOK', NEW p \in Positions
  PROVE  /\ \A w \in Jobs : StartCheck(w) \/ Check(w) => Gains(w, p, 0)
         /\ \A w \in Threads : Sell(w) =>
              Gains(w, p, IF pc'[w] \in Hands /\ tgt[w] = p THEN amount[w] ELSE 0)
         /\ Endpoint \/ (\E s \in Signals : ApproveRequest(s)) => Gains(Loop, p, 0)
         /\ (\E s \in Signals : SettleSignal(s)) \/ SwitchAutoSell \/ UNCHANGED vars => Gains(Loop, p, 0)
<1> USE DEF tradeVars, Hands
<1>t. /\ Jobs \subseteq Threads /\ Loop \in Threads
      /\ \A w \in Threads : amount[w] \in Nat /\ amount'[w] \in Nat
      /\ sold[p] \in Nat /\ sold'[p] \in Nat
  BY DEF Threads, TypeOK, ThreadsOK, RowsOK
<1>a. ASSUME NEW w \in Threads, sold' = sold, pc[w] \notin Hands, pc'[w] \notin Hands
      PROVE  Gains(w, p, 0)
  BY <1>a, <1>t DEF Gains, Own
<1>1. ASSUME NEW w \in Jobs, StartCheck(w) \/ Check(w) PROVE Gains(w, p, 0)
  <2>1. sold' = sold /\ pc[w] \notin Hands
    BY <1>1 DEF StartCheck, Check, NextExit, NextSignal, StartParts, NextPart, StartScan, ScanSignal,
       EndScan, FinishCheck
  <2>2. pc'[w] \notin Hands
    BY <1>1, <1>t DEF TypeOK, ThreadsOK, StartCheck, Check, NextExit, NextSignal, StartParts, NextPart,
       StartScan, ScanSignal, EndScan, FinishCheck, EndCheck, Goto
  <2> QED
    BY <1>a, <1>t, <2>1, <2>2
<1>2. ASSUME NEW w \in Threads, Sell(w)
      PROVE  Gains(w, p, IF pc'[w] \in Hands /\ tgt[w] = p THEN amount[w] ELSE 0)
  <2>1. CASE CloseSelect(w) \/ CloseUpdate(w) \/ PartSelect(w) \/ PartUpdate(w)
    <3>1. sold' = sold /\ tgt' = tgt /\ amount' = amount /\ pc[w] \notin Hands
      BY <2>1 DEF CloseSelect, CloseUpdate, PartSelect, PartUpdate, handVars
    <3> QED
      BY <1>t, <3>1 DEF Gains, Own
  <2>2. CASE SellTrade(w) \/ PartTrade(w)
    <3>1. /\ pc[w] \in Hands /\ pc'[w] \notin Hands
          /\ sold' = [sold EXCEPT ![tgt[w]] = @ + amount[w]]
      BY <2>2 DEF SellTrade, PartTrade, Goto, TypeOK, ThreadsOK
    <3>2. sold'[p] = IF tgt[w] = p THEN sold[p] + amount[w] ELSE sold[p]
      BY <3>1 DEF TypeOK, RowsOK
    <3> QED
      BY <1>t, <3>1, <3>2 DEF Gains, Own
  <2>3. CASE SellOrder(w)
    <3>1. sold' = sold /\ pc[w] \notin Hands /\ pc'[w] \notin Hands
      BY <2>3 DEF SellOrder, Goto, TypeOK, ThreadsOK
    <3> QED
      BY <1>a, <3>1
  <2> QED
    BY <1>2, <2>1, <2>2, <2>3 DEF Sell
<1>3. ASSUME Endpoint \/ \E s \in Signals : ApproveRequest(s) PROVE Gains(Loop, p, 0)
  <2>1. sold' = sold /\ pc[Loop] \notin Hands /\ pc'[Loop] \notin Hands
    BY <1>3, <1>t DEF Endpoint, Approve, FindPosition, MarkExecuted, ApproveRequest, Goto, TypeOK, ThreadsOK
  <2> QED
    BY <1>a, <1>t, <2>1
<1>4. ASSUME (\E s \in Signals : SettleSignal(s)) \/ SwitchAutoSell \/ UNCHANGED vars
      PROVE  Gains(Loop, p, 0)
  <2>1. UNCHANGED <<sold, pc, tgt, amount>>
    BY <1>4 DEF SettleSignal, SwitchAutoSell, vars, handVars
  <2> QED
    BY <1>t, <2>1 DEF Gains, Own
<1> QED
  BY <1>1, <1>2, <1>3, <1>4

LEMMA AccountedStep ==
  ASSUME TypeOK, [Next]_vars, ~Faults, NEW p \in Positions
  PROVE  /\ Accounted(p) \in Nat /\ Accounted(p)' \in Nat /\ Accounted(p) <= Accounted(p)'
         /\ \A w \in Threads : Sell(w) /\ pc'[w] \in Hands /\ tgt[w] = p =>
              Accounted(p)' = Accounted(p) + amount[w]
<1>1. TypeOK' /\ ThreadsOK /\ ThreadsOK' /\ sold[p] \in Nat /\ sold'[p] \in Nat
  BY TypeStep DEF TypeOK, RowsOK
<1>2. Jobs \subseteq Threads /\ Loop \in Threads /\ \A w \in Threads : amount[w] \in Nat
  BY <1>1 DEF Threads, ThreadsOK
<1>3. ASSUME NEW w \in Threads, Alone(w), NEW n \in Nat, Gains(w, p, n)
      PROVE  Accounted(p) \in Nat /\ Accounted(p)' \in Nat /\ Accounted(p)' = Accounted(p) + n
  <2>1. /\ Carried(Hands, p) \in Nat /\ Carried(Hands, p)' \in Nat
        /\ Own(Hands, p, w) \in Nat /\ Own(Hands, p, w)' \in Nat
        /\ Carried(Hands, p)' + Own(Hands, p, w) = Carried(Hands, p) + Own(Hands, p, w)'
    BY <1>1, <1>3, CarriedStep DEF Alone
  <2>2. Accounted(p)' = sold'[p] + Carried(Hands, p)'
    BY DEF Accounted
  <2> QED
    BY <1>1, <1>3, <2>1, <2>2 DEF Accounted, Gains
<1>4. ASSUME NEW w \in Threads, Sell(w)
      PROVE  /\ Accounted(p) \in Nat /\ Accounted(p)' \in Nat
             /\ Accounted(p)' = Accounted(p) + IF pc'[w] \in Hands /\ tgt[w] = p THEN amount[w] ELSE 0
  <2> DEFINE n == IF pc'[w] \in Hands /\ tgt[w] = p THEN amount[w] ELSE 0
  <2>1. n \in Nat
    BY <1>2
  <2>2. Alone(w) /\ Gains(w, p, n)
    BY <1>1, <1>4, Footprint, GainStep
  <2> HIDE DEF n
  <2> QED
    BY <1>3, <2>1, <2>2 DEF n
<1>5. ASSUME ~\E w \in Threads : Sell(w)
      PROVE  Accounted(p) \in Nat /\ Accounted(p)' \in Nat /\ Accounted(p)' = Accounted(p)
  <2>1. \E w \in Threads : Alone(w) /\ Gains(w, p, 0)
    <3>1. CASE \E w \in Jobs : StartCheck(w) \/ Check(w)
      BY <1>1, <1>2, <3>1, Footprint, GainStep
    <3>2. CASE Endpoint \/ \E s \in Signals : ApproveRequest(s)
      BY <1>1, <1>2, <3>2, Footprint, GainStep
    <3>3. CASE (\E s \in Signals : SettleSignal(s)) \/ SwitchAutoSell \/ UNCHANGED vars
      BY <1>1, <1>2, <3>3, Footprint, GainStep
    <3> QED
      BY <1>5, <3>1, <3>2, <3>3 DEF Next, Environment, Fault, Restart
  <2> QED
    BY <1>3, <2>1
<1> QED
  BY <1>2, <1>4, <1>5

Partial == {"parts", "part", "parting", "parttrade"}

\* All the quantities a thread knows of are backed by what is accounted for.
BackedThread(w) ==
  /\ \A p \in plan[w] \cup rows[w] : Lot[p] <= Accounted(p) + seen[w][p]
  /\ pc[w] \in Partial => parts[w] \subseteq rows[w]
  /\ pc[w] \in {"close", "closing", "part", "parting"} => tgt[w] \in Positions
  /\ \A p \in Positions : tgt[w] = p =>
       /\ pc[w] \in {"close", "closing"} => Lot[p] <= Accounted(p) + amount[w]
       /\ pc[w] = "parting" => Lot[p] <= Accounted(p) + read[w]
Backed ==
  /\ \A w \in Threads : BackedThread(w)
  /\ \A p \in Positions : Lot[p] <= Accounted(p) + Left(p)

\* Only the updates of the two closes take shares off a row.
LEMMA BackedRows ==
  ASSUME TypeOK, Backed, ~Faults, [Next]_vars, NEW p \in Positions
  PROVE  Lot[p] <= Accounted(p)' + Left(p)'
<1>1. /\ Accounted(p) \in Nat /\ Accounted(p)' \in Nat /\ Accounted(p) <= Accounted(p)'
      /\ \A w \in Threads : Sell(w) /\ pc'[w] \in Hands /\ tgt[w] = p =>
           Accounted(p)' = Accounted(p) + amount[w]
  BY AccountedStep
<1>2. Lot[p] \in Nat /\ Left(p) \in Nat /\ Lot[p] <= Accounted(p) + Left(p)
  BY LotAssumption DEF Backed, Left, TypeOK, RowsOK
<1>3. CASE \E w \in Threads : CloseUpdate(w)
  <2>1. PICK w \in Threads : CloseUpdate(w)
    BY <1>3
  <2>2. CASE tgt[w] = p
    <3>1. pc[w] = "closing" /\ pc'[w] \in Hands
      BY <2>1 DEF CloseUpdate, Goto, Hands, TypeOK, ThreadsOK
    <3>2. Lot[p] <= Accounted(p) + amount[w] /\ amount[w] \in Nat
      BY <2>2, <3>1 DEF Backed, BackedThread, TypeOK, ThreadsOK
    <3>3. state'[p] = "closed"
      BY <2>1, <2>2 DEF CloseUpdate, TypeOK, RowsOK
    <3>4. Accounted(p)' = Accounted(p) + amount[w]
      BY <1>1, <2>1, <2>2, <3>1 DEF Sell
    <3>5. Left(p)' = 0
      BY <3>3 DEF Left
    <3> QED
      BY <1>1, <1>2, <3>2, <3>4, <3>5
  <2>3. CASE tgt[w] # p
    <3>1. state'[p] = state[p] /\ qty' = qty
      BY <2>1, <2>3 DEF CloseUpdate, TypeOK, RowsOK
    <3> QED
      BY <1>1, <1>2, <3>1 DEF Left
  <2> QED
    BY <2>2, <2>3
<1>4. CASE \E w \in Threads : PartUpdate(w)
  <2>1. PICK w \in Threads : PartUpdate(w)
    BY <1>4
  <2>2. pc[w] = "parting" /\ pc'[w] \in Hands /\ state' = state
    BY <2>1 DEF PartUpdate, Goto, Hands, TypeOK, ThreadsOK
  <2>3. CASE tgt[w] = p /\ p \in Open
    <3>1. Lot[p] <= Accounted(p) + read[w] /\ amount[w] \in Nat /\ read[w] \in Nat
      BY <2>2, <2>3 DEF Backed, BackedThread, TypeOK, ThreadsOK
    <3>2. qty'[p] = IF read[w] > amount[w] THEN read[w] - amount[w] ELSE 0
      BY <2>1, <2>3 DEF PartUpdate, TypeOK, RowsOK
    <3>3. Accounted(p)' = Accounted(p) + amount[w]
      BY <1>1, <2>1, <2>2, <2>3 DEF Sell
    <3>4. state'[p] = "open"
      BY <2>2, <2>3 DEF Open
    <3> QED
      BY <1>1, <1>2, <3>1, <3>2, <3>3, <3>4 DEF Left
  <2>4. CASE ~(tgt[w] = p /\ p \in Open)
    <3>1. state'[p] = "open" => qty'[p] = qty[p]
      BY <2>1, <2>2, <2>4 DEF PartUpdate, Open, TypeOK, RowsOK
    <3> QED
      BY <1>1, <1>2, <2>2, <3>1 DEF Left
  <2> QED
    BY <2>3, <2>4
<1>5. CASE UNCHANGED <<state, qty>>
  BY <1>1, <1>2, <1>5 DEF Left
<1>6. ASSUME ~\E w \in Threads : CloseUpdate(w) \/ PartUpdate(w) PROVE UNCHANGED <<state, qty>>
  BY <1>6 DEF Next, Check, Sell, Endpoint, Environment, vars, rowVars, StartCheck, NextExit, NextSignal,
     StartParts, NextPart, StartScan, ScanSignal, EndScan, FinishCheck, CloseSelect, SellTrade, SellOrder,
     PartSelect, PartTrade, Approve, FindPosition, MarkExecuted, ApproveRequest, SettleSignal,
     SwitchAutoSell, Fault, Restart
<1> QED
  BY <1>3, <1>4, <1>5, <1>6

\* A thread that has read no row anew stays backed, if what it takes at hand is.
LEMMA BackedMove ==
  ASSUME TypeOK, NEW w \in Threads, BackedThread(w),
         \A p \in Positions : /\ Accounted(p) \in Nat /\ Accounted(p)' \in Nat
                              /\ Accounted(p) <= Accounted(p)',
         seen'[w] = seen[w], rows'[w] = rows[w], plan'[w] \subseteq plan[w] \cup rows[w],
         pc'[w] \in Partial => parts'[w] \subseteq rows[w],
         pc'[w] \in {"close", "closing", "part", "parting"} => tgt'[w] \in Positions,
         \A p \in Positions : tgt'[w] = p =>
           /\ pc'[w] \in {"close", "closing"} => Lot[p] <= Accounted(p) + amount'[w]
           /\ pc'[w] = "parting" => Lot[p] <= Accounted(p) + read'[w],
         amount'[w] \in Nat, read'[w] \in Nat
  PROVE  BackedThread(w)'
<1>1. /\ \A p \in Positions : Lot[p] \in Nat /\ seen[w][p] \in Nat
      /\ plan[w] \subseteq Positions /\ rows[w] \subseteq Positions
  BY LotAssumption DEF TypeOK, ThreadsOK
<1>2. \A p \in plan'[w] \cup rows'[w] : Lot[p] <= Accounted(p)' + seen'[w][p]
  <2> SUFFICES ASSUME NEW p \in plan[w] \cup rows[w] PROVE Lot[p] <= Accounted(p)' + seen[w][p]
    OBVIOUS
  <2>1. Lot[p] <= Accounted(p) + seen[w][p] /\ p \in Positions
    BY <1>1 DEF BackedThread
  <2> QED
    BY <1>1, <2>1
<1>3. ASSUME NEW p \in Positions, tgt'[w] = p
      PROVE  /\ pc'[w] \in {"close", "closing"} => Lot[p] <= Accounted(p)' + amount'[w]
             /\ pc'[w] = "parting" => Lot[p] <= Accounted(p)' + read'[w]
  BY <1>1, <1>3
<1>4. pc'[w] \in Partial => parts'[w] \subseteq rows'[w]
  OBVIOUS
<1> QED
  BY <1>2, <1>3, <1>4 DEF BackedThread

LEMMA BackedThreads ==
  ASSUME TypeOK, Backed, ~Faults, [Next]_vars, NEW u \in Threads
  PROVE  BackedThread(u)'
<1> USE DEF Goto, Partial
<1>1. \A p \in Positions : Accounted(p) \in Nat /\ Accounted(p)' \in Nat /\ Accounted(p) <= Accounted(p)'
  BY AccountedStep
<1>2. BackedThread(u) /\ \A p \in Positions : Lot[p] <= Accounted(p) + Left(p)
  BY DEF Backed
<1>3. /\ ThreadsOK /\ ThreadsOK' /\ amount[u] \in Nat /\ read[u] \in Nat
      /\ amount'[u] \in Nat /\ read'[u] \in Nat
      /\ \A p \in Positions : seen[u][p] \in Nat /\ qty[p] \in Nat /\ Lot[p] \in Nat
      /\ plan[u] \subseteq Positions /\ rows[u] \subseteq Positions
  BY TypeStep, LotAssumption DEF TypeOK, ThreadsOK, RowsOK
<1>4. Jobs \subseteq Threads /\ Loop \in Threads /\ Loop \notin Jobs
  BY ThreadsAssumption DEF Threads
\* u has nothing new at hand.
<1>a. ASSUME seen'[u] = seen[u], rows'[u] = rows[u], plan'[u] \subseteq plan[u] \cup rows[u],
             pc'[u] \in Partial => parts'[u] \subseteq rows[u],
             \/ pc'[u] \notin {"close", "closing", "part", "parting"}
             \/ /\ tgt'[u] = tgt[u] /\ tgt[u] \in Positions
                /\ pc'[u] \in {"close", "closing"} =>
                     pc[u] \in {"close", "closing"} /\ amount'[u] = amount[u]
                /\ pc'[u] = "parting" => pc[u] = "parting" /\ read'[u] = read[u]
      PROVE  BackedThread(u)'
  <2>1. pc'[u] \in {"close", "closing", "part", "parting"} => tgt'[u] \in Positions
    BY <1>a
  <2>2. \A p \in Positions : tgt'[u] = p =>
          /\ pc'[u] \in {"close", "closing"} => Lot[p] <= Accounted(p) + amount'[u]
          /\ pc'[u] = "parting" => Lot[p] <= Accounted(p) + read'[u]
    BY <1>a, <1>2 DEF BackedThread
  <2> QED
    BY <1>1, <1>2, <1>3, <1>a, <2>1, <2>2, BackedMove
<1>5. ASSUME NEW w \in Threads, w # u, Alone(w) PROVE BackedThread(u)'
  <2>1. /\ pc'[u] = pc[u] /\ tgt'[u] = tgt[u] /\ amount'[u] = amount[u] /\ read'[u] = read[u]
        /\ plan'[u] = plan[u] /\ rows'[u] = rows[u] /\ parts'[u] = parts[u] /\ seen'[u] = seen[u]
    BY <1>5 DEF Alone
  <2> QED
    BY <1>2, <1>a, <2>1 DEF BackedThread
<1>6. CASE UNCHANGED <<pc, jobVars, handVars>>
  BY <1>2, <1>6, <1>a DEF BackedThread, jobVars, handVars
<1>7. CASE u \in Jobs /\ StartCheck(u)
  <2>1. PICK D \in SUBSET Open : plan'[u] = D /\ rows'[u] = Open \ D
    BY <1>3, <1>4, <1>7 DEF StartCheck, ThreadsOK
  <2>2. pc'[u] = "exits" /\ seen'[u] = [p \in Positions |-> IF p \in Open THEN qty[p] ELSE 0]
    BY <1>3, <1>7 DEF StartCheck, ThreadsOK
  <2>3. ASSUME NEW p \in Open PROVE Lot[p] <= Accounted(p)' + seen'[u][p]
    <3>1. p \in Positions /\ Left(p) = qty[p] /\ seen'[u][p] = qty[p]
      BY <2>2 DEF Open, Left
    <3> QED
      BY <1>1, <1>2, <1>3, <3>1
  <2>4. plan'[u] \cup rows'[u] \subseteq Open
    BY <2>1
  <2> QED
    BY <2>2, <2>3, <2>4 DEF BackedThread
<1>8. CASE u \in Jobs /\ NextExit(u)
  <2>1. PICK p \in plan[u] : /\ plan'[u] = plan[u] \ {p} /\ tgt'[u] = p /\ pc'[u] = "close"
                             /\ amount'[u] = QtyOrOne(seen[u][p])
    BY <1>3, <1>4, <1>8 DEF NextExit, Aim, ThreadsOK
  <2>2. seen' = seen /\ rows' = rows
    BY <1>8 DEF NextExit
  <2>3. Lot[p] <= Accounted(p) + amount'[u] /\ p \in Positions
    BY <1>1, <1>2, <1>3, <2>1 DEF BackedThread, QtyOrOne
  <2> QED
    BY <1>1, <1>2, <1>3, <2>1, <2>2, <2>3, BackedMove
<1>9. CASE u \in Jobs /\ NextPart(u)
  <2>1. PICK p \in parts[u] : parts'[u] = parts[u] \ {p} /\ tgt'[u] = p
    BY <1>3, <1>4, <1>9 DEF NextPart, Aim, ThreadsOK
  <2>2. seen' = seen /\ rows' = rows /\ plan' = plan /\ pc[u] = "parts" /\ pc'[u] = "part"
    BY <1>3, <1>4, <1>9 DEF NextPart, ThreadsOK
  <2>3. parts[u] \subseteq rows[u]
    BY <1>2, <2>2 DEF BackedThread
  <2> QED
    BY <1>1, <1>2, <1>3, <2>1, <2>2, <2>3, BackedMove
<1>10. CASE u \in Jobs /\ (NextSignal(u) \/ StartParts(u) \/ StartScan(u) \/ ScanSignal(u) \/ EndScan(u))
  <2>1. /\ seen'[u] = seen[u] /\ rows'[u] = rows[u]
        /\ pc'[u] \notin {"close", "closing", "part", "parting"}
    BY <1>3, <1>4, <1>10 DEF NextSignal, StartParts, StartScan, ScanSignal, EndScan, ThreadsOK, jobVars
  <2>2. plan'[u] \subseteq plan[u] \cup rows[u]
    BY <1>3, <1>4, <1>10 DEF NextSignal, StartParts, StartScan, ScanSignal, EndScan, ThreadsOK, jobVars
  <2>3. pc'[u] \in Partial => parts'[u] \subseteq rows[u]
    BY <1>3, <1>4, <1>10 DEF NextSignal, StartParts, StartScan, ScanSignal, EndScan, ThreadsOK, jobVars
  <2> QED
    BY <1>a, <2>1, <2>2, <2>3
<1>11. CASE u \in Jobs /\ FinishCheck(u)
  <2>1. plan'[u] = {} /\ rows'[u] = {} /\ pc'[u] = "idle"
    BY <1>3, <1>11 DEF FinishCheck, EndCheck, ThreadsOK
  <2> QED
    BY <2>1 DEF BackedThread
<1>12. CASE PartSelect(u)
  <2>1. seen' = seen /\ rows' = rows /\ plan' = plan /\ parts' = parts /\ tgt' = tgt /\ amount' = amount /\ pc[u] = "part"
    BY <1>12 DEF PartSelect, jobVars
  <2>2. tgt[u] \in Positions /\ parts[u] \subseteq rows[u]
    BY <1>2, <2>1 DEF BackedThread
  <2>3. CASE tgt[u] \in Open
    <3>1. read'[u] = qty[tgt[u]] /\ pc'[u] = "parting"
      BY <1>3, <1>12, <2>3 DEF PartSelect, ThreadsOK
    <3>2. Left(tgt[u]) = qty[tgt[u]]
      BY <2>3 DEF Open, Left
    <3>3. Lot[tgt[u]] <= Accounted(tgt[u]) + read'[u]
      BY <1>2, <2>2, <3>1, <3>2
    <3> QED
      BY <1>1, <1>2, <1>3, <2>1, <2>2, <3>1, <3>3, BackedMove
  <2>4. CASE tgt[u] \notin Open
    <3>1. pc'[u] = "parttrade"
      BY <1>3, <1>12, <2>4 DEF PartSelect, ThreadsOK
    <3> QED
      BY <1>a, <2>1, <2>2, <3>1
  <2> QED
    BY <2>3, <2>4
<1>13. CASE CloseSelect(u) \/ CloseUpdate(u) \/ SellTrade(u) \/ SellOrder(u) \/ PartUpdate(u) \/ PartTrade(u)
  <2>1. seen' = seen /\ rows' = rows /\ plan' = plan /\ parts' = parts
    BY <1>13 DEF CloseSelect, CloseUpdate, SellTrade, SellOrder, PartUpdate, PartTrade, jobVars
  <2>2. /\ pc'[u] \in Partial => pc[u] \in Partial
        /\ pc'[u] \in {"close", "closing", "part", "parting"} =>
             pc'[u] = "closing" /\ pc[u] = "close" /\ tgt' = tgt /\ amount' = amount
    BY <1>3, <1>13 DEF CloseSelect, CloseUpdate, SellTrade, SellOrder, PartUpdate, PartTrade, ThreadsOK
  <2>3. pc[u] = "close" => tgt[u] \in Positions
    BY <1>2 DEF BackedThread
  <2>4. pc[u] \in Partial => parts[u] \subseteq rows[u]
    BY <1>2 DEF BackedThread
  <2> QED
    BY <1>a, <2>1, <2>2, <2>3, <2>4
<1>14. CASE u = Loop /\ FindPosition
  <2>1. seen' = seen /\ rows' = rows /\ plan' = plan /\ parts' = parts
    BY <1>14 DEF FindPosition, jobVars
  <2>2. CASE sigPos[cur] \in Open
    <3>1. /\ tgt'[u] = sigPos[cur] /\ amount'[u] = qty[sigPos[cur]] /\ pc'[u] = "close"
      BY <1>3, <1>14, <2>2 DEF FindPosition, Aim, ThreadsOK
    <3>2. sigPos[cur] \in Positions /\ Left(sigPos[cur]) = qty[sigPos[cur]]
      BY <2>2 DEF Open, Left
    <3>3. Lot[sigPos[cur]] <= Accounted(sigPos[cur]) + amount'[u]
      BY <1>2, <3>1, <3>2
    <3> QED
      BY <1>1, <1>2, <1>3, <2>1, <3>1, <3>2, <3>3, BackedMove
  <2>3. CASE sigPos[cur] \notin Open
    <3>1. pc'[u] = "idle"
      BY <1>3, <1>14, <2>3 DEF FindPosition, ThreadsOK
    <3> QED
      BY <1>a, <2>1, <3>1
  <2> QED
    BY <2>2, <2>3
<1>15. CASE u = Loop /\ (Approve \/ MarkExecuted \/ \E s \in Signals : ApproveRequest(s))
  <2>1. seen' = seen /\ rows' = rows /\ plan' = plan /\ pc'[u] \in {"find", "idle", "approve"}
    BY <1>3, <1>15 DEF Approve, MarkExecuted, ApproveRequest, ThreadsOK, jobVars
  <2> QED
    BY <1>a, <2>1
<1>16. CASE \E w \in Jobs : StartCheck(w) \/ Check(w)
  BY <1>4, <1>5, <1>7, <1>8, <1>9, <1>10, <1>11, <1>16, <1>3, Footprint DEF Check
<1>17. CASE \E w \in Threads : Sell(w)
  BY <1>3, <1>5, <1>12, <1>13, <1>17, Footprint DEF Sell
<1>18. CASE Endpoint \/ \E s \in Signals : ApproveRequest(s)
  BY <1>3, <1>4, <1>5, <1>14, <1>15, <1>18, Footprint DEF Endpoint
<1>19. CASE (\E s \in Signals : SettleSignal(s)) \/ SwitchAutoSell \/ UNCHANGED vars
  BY <1>3, <1>6, <1>19, Footprint
<1> QED
  BY <1>16, <1>17, <1>18, <1>19 DEF Next, Environment, Fault, Restart

\* As long as no call fails, every share that has left the rows is in the trade log or in
\* the hands of a thread about to log it, whatever exits race on stale quantities.
THEOREM SalesStayCovered == Spec => []SalesCovered
<1>1. Init => Faults \/ Backed
  <2> SUFFICES ASSUME Init PROVE Backed
    OBVIOUS
  <2>1. TypeOK /\ ThreadsOK
    BY TypeInit DEF TypeOK
  <2>2. ASSUME NEW p \in Positions PROVE Lot[p] <= Accounted(p) + Left(p)
    <3>1. Carried(Hands, p) \in Nat
      BY <2>1, CarriedNat
    <3>2. Left(p) = Lot[p] /\ sold[p] = 0 /\ Lot[p] \in Nat
      BY LotAssumption DEF Init, Left
    <3> QED
      BY <3>1, <3>2 DEF Accounted
  <2>3. ASSUME NEW w \in Threads PROVE BackedThread(w)
    BY DEF Init, BackedThread, Partial
  <2> QED
    BY <2>2, <2>3 DEF Backed
<1>2. TypeOK /\ (Faults \/ Backed) /\ [Next]_vars => (Faults \/ Backed)'
  <2> SUFFICES ASSUME TypeOK, Backed, ~Faults, [Next]_vars PROVE Backed'
    OBVIOUS
  <2> QED
    BY BackedRows, BackedThreads DEF Backed
<1>3. TypeOK /\ (Faults \/ Backed) => SalesCovered
  <2> SUFFICES ASSUME TypeOK, ~Faults, Backed, NEW p \in Positions
               PROVE  sold[p] + InHand(p) >= Lot[p] - Left(p)
    BY DEF SalesCovered
  <2>1. Lot[p] <= sold[p] + InHand(p) + Left(p)
    BY DEF Backed, Accounted, InHand, Hands
  <2>2. sold[p] \in Nat /\ InHand(p) \in Nat /\ Left(p) \in Nat /\ Lot[p] \in Nat
    BY CarriedNat, LotAssumption DEF TypeOK, RowsOK, InHand, Left
  <2> QED
    BY <2>1, <2>2
<1> QED
  BY <1>1, <1>2, <1>3, TypeInit, TypeStep, PTL DEF Spec

(***************************************************************************)
(* The books when one check runs at a time: nobody decides EXIT signals,   *)
(* scan_exits is off, no call fails, and no partial exit rounds up to the  *)
(* whole lot.  Then what the check has read of a row stays true until it   *)
(* deals with that row, and it deals with none twice.                      *)
(***************************************************************************)
AtExit == {"exits", "close", "closing", "trade", "order"}
AtPart == {"parts", "part", "parting", "parttrade"}

\* The rows j may still sell are as it read them, and not the one at hand.
AsRead(j) ==
  /\ plan[j] \cap rows[j] = {}
  /\ \A p \in plan[j] : p \in Open /\ seen[j][p] = qty[p]
  /\ pc[j] \in AtExit =>
       /\ tgt[j] \notin plan[j] \cup (rows[j] \cap fresh[j])
       /\ \A p \in rows[j] \cap fresh[j] : p \in Open \ halved /\ seen[j][p] = qty[p]
  /\ pc[j] \in AtPart =>
       /\ plan[j] = {} /\ tgt[j] \notin parts[j]
       /\ \A p \in parts[j] : p \in Open \ halved /\ seen[j][p] = qty[p]

\* The row at hand.
AtHand(j) ==
  /\ pc[j] \in {"idle", "exits", "parts"} => tgt[j] = NoPosition
  /\ pc[j] \in {"close", "closing"} => tgt[j] \in Open /\ amount[j] = qty[tgt[j]]
  /\ pc[j] \in {"trade", "order"} => tgt[j] \in Positions \ Open
  /\ pc[j] \in {"part", "parting"} => tgt[j] \in Open \ halved /\ amount[j] < qty[tgt[j]]
  /\ pc[j] = "parting" => read[j] = qty[tgt[j]]

\* What was sold, and what j is about to log, is what is gone.
Settled(j) ==
  \A p \in Positions :
    /\ qty[p] > 0 /\ (p \in Open \ halved => qty[p] = Lot[p])
    /\ sold[p] + Own(Hands, p, j) = Lot[p] - Left(p)

OneCheck(j) ==
  /\ pc[Loop] = "idle" /\ tgt[Loop] = NoPosition
  /\ ~late[j] /\ pc[j] \in {"idle"} \cup AtExit \cup AtPart
  /\ AsRead(j) /\ AtHand(j) /\ Settled(j)

LEMMA OneCheckInit ==
  ASSUME NEW j, Jobs = {j}, Init
  PROVE  OneCheck(j)
<1>1. j \in Threads /\ Loop \in Threads
  BY DEF Threads
<1>2. AsRead(j) /\ AtHand(j)
  BY <1>1 DEF Init, AsRead, AtHand, AtExit, AtPart
<1>3. Settled(j)
  BY <1>1, LotAssumption DEF Init, Settled, Own, Hands, Left, Open
<1> QED
  BY <1>1, <1>2, <1>3 DEF Init, OneCheck

\* The threads' own memory; the rows and the trades do not change.
LEMMA OneCheckThinks ==
  ASSUME TypeOK, TypeOK', NEW j \in Jobs, OneCheck(j), UNCHANGED <<rowVars, tradeVars>>,
         StartCheck(j) \/ NextExit(j) \/ NextSignal(j) \/ StartParts(j) \/ FinishCheck(j), ~LegacyExit
  PROVE  AsRead(j)' /\ AtHand(j)' /\ Settled(j)'
<1> USE DEF rowVars, tradeVars, Goto, AtExit, AtPart, Open
<1>t. j \in Threads /\ j # Loop /\ NoPosition \notin Positions
  BY ThreadsAssumption, IdsAssumption DEF Threads
<1>y. /\ ThreadsOK /\ ThreadsOK' /\ halved \subseteq Positions
      /\ \A p \in Positions : qty[p] \in Nat /\ sold[p] \in Nat /\ seen[j][p] \in Nat
      /\ pc[j] \notin Hands
  BY <1>t DEF TypeOK, RowsOK, ThreadsOK, StartCheck, NextExit, NextSignal, StartParts, FinishCheck, Hands, OneCheck
<1>s. ASSUME pc'[j] \notin Hands PROVE Settled(j)'
  BY <1>s, <1>y DEF OneCheck, Settled, Own, Left
<1>1. CASE StartCheck(j)
  <2>1. PICK D \in SUBSET Open : plan'[j] = D /\ rows'[j] = Open \ D
    BY <1>t, <1>y, <1>1 DEF StartCheck, ThreadsOK
  <2>2. /\ pc'[j] = "exits" /\ seen'[j] = [p \in Positions |-> IF p \in Open THEN qty[p] ELSE 0]
        /\ fresh'[j] = Open \ halved /\ tgt'[j] = tgt[j] /\ tgt[j] = NoPosition
    BY <1>t, <1>y, <1>1 DEF StartCheck, ThreadsOK, handVars, OneCheck, AtHand
  <2> QED
    BY <1>s, <1>t, <2>1, <2>2 DEF AsRead, AtHand, Hands
<1>2. CASE NextExit(j)
  <2>1. PICK p \in plan[j] : /\ plan'[j] = plan[j] \ {p} /\ tgt'[j] = p
                             /\ amount'[j] = QtyOrOne(seen[j][p])
    BY <1>t, <1>y, <1>2 DEF NextExit, Aim, ThreadsOK
  <2>2. pc[j] = "exits" /\ pc'[j] = "close" /\ UNCHANGED <<seen, rows, fresh>>
    BY <1>t, <1>y, <1>2 DEF NextExit, ThreadsOK
  <2>3. /\ p \in Open /\ seen[j][p] = qty[p] /\ qty[p] > 0 /\ p \notin rows[j]
        /\ AsRead(j)
    BY DEF OneCheck, AsRead, Settled
  <2>4. amount'[j] = qty[p]
    BY <1>y, <2>1, <2>3 DEF QtyOrOne
  <2>5. AsRead(j)'
    BY <2>1, <2>2, <2>3 DEF AsRead
  <2>6. AtHand(j)'
    BY <2>1, <2>2, <2>3, <2>4 DEF AtHand
  <2> QED
    BY <1>s, <2>2, <2>5, <2>6 DEF Hands
<1>3. CASE NextSignal(j)
  <2>1. plan'[j] \subseteq plan[j] /\ pc[j] = "exits" /\ UNCHANGED <<pc, seen, rows, fresh, tgt>>
    BY <1>t, <1>y, <1>3 DEF NextSignal, ThreadsOK, handVars
  <2> QED
    BY <1>s, <1>y, <2>1 DEF OneCheck, AsRead, AtHand
<1>4. CASE StartParts(j)
  <2>1. /\ parts'[j] \subseteq rows[j] \cap fresh[j] /\ pc[j] = "exits" /\ pc'[j] = "parts"
        /\ plan[j] = {} /\ UNCHANGED <<seen, rows, fresh, plan, tgt>>
    BY <1>t, <1>y, <1>4 DEF StartParts, ThreadsOK, handVars
  <2>2. AsRead(j)'
    BY <1>y, <2>1 DEF OneCheck, AsRead
  <2> QED
    BY <1>s, <1>y, <2>1, <2>2 DEF OneCheck, AtHand, Hands
<1>5. CASE FinishCheck(j)
  <2>1. /\ plan'[j] = {} /\ rows'[j] = {} /\ parts'[j] = {} /\ pc'[j] = "idle"
        /\ UNCHANGED tgt /\ pc[j] \in {"parts", "exits"}
    BY <1>t, <1>y, <1>5 DEF FinishCheck, EndCheck, ThreadsOK, handVars
  <2> QED
    BY <1>s, <2>1 DEF OneCheck, AsRead, AtHand, Hands
<1> QED
  BY <1>1, <1>2, <1>3, <1>4, <1>5

\* A partial exit is aimed at a row that has its whole lot.
LEMMA OneCheckAims ==
  ASSUME TypeOK, TypeOK', NEW j \in Jobs, OneCheck(j), NextPart(j),
         \A p \in Positions, percent \in Percents : Part(Lot[p], percent) < Lot[p]
  PROVE  AsRead(j)' /\ AtHand(j)' /\ Settled(j)'
<1> USE DEF rowVars, tradeVars, Goto, AtExit, AtPart, Open
<1>t. j \in Threads
  BY DEF Threads
<1>y. ThreadsOK /\ halved \subseteq Positions /\ \A p \in Positions : qty[p] \in Nat /\ seen[j][p] \in Nat
  BY <1>t DEF TypeOK, RowsOK, ThreadsOK
<1>1. PICK p \in parts[j], percent \in Percents :
        /\ parts'[j] = parts[j] \ {p} /\ tgt'[j] = p
        /\ amount'[j] = Part(QtyOrOne(seen[j][p]), percent)
  BY <1>t, <1>y DEF NextPart, Aim, ThreadsOK
<1>2. pc[j] = "parts" /\ pc'[j] = "part" /\ UNCHANGED <<rowVars, tradeVars, seen, rows, fresh, plan>>
  BY <1>t, <1>y DEF NextPart, ThreadsOK
<1>3. p \in Open \ halved /\ seen[j][p] = qty[p] /\ plan[j] = {} /\ AsRead(j)
  BY <1>2 DEF OneCheck, AsRead
<1>4. qty[p] > 0 /\ qty[p] = Lot[p]
  BY <1>3 DEF OneCheck, Settled
<1>5. QtyOrOne(seen[j][p]) = Lot[p]
  BY <1>y, <1>3, <1>4 DEF QtyOrOne
<1>6. amount'[j] < qty[p]
  BY <1>1, <1>3, <1>4, <1>5
<1>7. AsRead(j)'
  BY <1>1, <1>2, <1>3 DEF AsRead
<1>8. AtHand(j)'
  BY <1>1, <1>2, <1>3, <1>6 DEF AtHand
<1>9. Settled(j)'
  BY <1>2 DEF OneCheck, Settled, Own, Hands, Left
<1> QED
  BY <1>7, <1>8, <1>9

\* The statements on the row at hand.
LEMMA OneCheckSells ==
  ASSUME TypeOK, TypeOK', NEW j \in Jobs, OneCheck(j), Sell(j)
  PROVE  AsRead(j)' /\ AtHand(j)' /\ Settled(j)'
<1> USE DEF rowVars, tradeVars, jobVars, handVars, Goto, AtExit, AtPart
<1>t. j \in Threads /\ j # Loop /\ NoPosition \notin Positions
  BY ThreadsAssumption, IdsAssumption DEF Threads
<1>y. /\ ThreadsOK /\ RowsOK /\ RowsOK' /\ amount[j] \in Nat /\ read[j] \in Nat
      /\ \A p \in Positions : Lot[p] \in Nat
  BY <1>t, LotAssumption DEF TypeOK, ThreadsOK
<1>o. AsRead(j) /\ AtHand(j) /\ Settled(j)
  BY DEF OneCheck
<1>1. CASE CloseSelect(j)
  <2>1. /\ pc[j] = "close" /\ UNCHANGED <<rowVars, tradeVars, jobVars, tgt, amount>>
        /\ pc'[j] = "closing"
    BY <1>t, <1>y, <1>o, <1>1 DEF CloseSelect, ThreadsOK, AtHand
  <2> QED
    BY <1>o, <2>1 DEF AsRead, AtHand, Settled, Own, Hands, Left, Open
<1>2. CASE CloseUpdate(j)
  <2>1. /\ pc[j] = "closing" /\ UNCHANGED <<qty, halved, tradeVars, jobVars, handVars>>
        /\ pc'[j] = "trade" /\ tgt[j] \in Open
    BY <1>t, <1>y, <1>o, <1>2 DEF CloseUpdate, ThreadsOK, AtHand
  <2>2. state' = [state EXCEPT ![tgt[j]] = "closed"]
    BY <1>2 DEF CloseUpdate
  <2>3. Open' = Open \ {tgt[j]}
    BY <1>y, <2>1, <2>2 DEF RowsOK, Open
  <2>4. amount[j] = qty[tgt[j]]
    BY <1>o, <2>1 DEF AtHand
  <2>5. ASSUME NEW p \in Positions PROVE sold'[p] + Own(Hands, p, j)' = Lot[p] - Left(p)'
    <3>1. sold[p] + Own(Hands, p, j) = Lot[p] - Left(p) /\ sold'[p] = sold[p] /\ qty'[p] = qty[p]
          /\ sold[p] \in Nat /\ qty[p] \in Nat /\ Lot[p] \in Nat
      BY <1>y, <1>o, <2>1 DEF Settled, RowsOK
    <3>2. Own(Hands, p, j) = 0 /\ Own(Hands, p, j)' = IF p = tgt[j] THEN amount[j] ELSE 0
      BY <2>1 DEF Own, Hands
    <3>3. Left(p)' = IF p = tgt[j] THEN 0 ELSE Left(p)
      BY <1>y, <2>1, <2>2 DEF Left, RowsOK
    <3>4. p = tgt[j] => Left(p) = qty[p]
      BY <2>1 DEF Open, Left
    <3> QED
      BY <2>4, <3>1, <3>2, <3>3, <3>4, <1>y DEF Left
  <2>6. Settled(j)'
    BY <1>o, <2>1, <2>3, <2>5 DEF Settled
  <2>7. AsRead(j)'
    BY <1>o, <2>1, <2>3 DEF AsRead
  <2> QED
    BY <2>1, <2>3, <2>6, <2>7 DEF AtHand, Open
<1>3. CASE SellTrade(j)
  <2>1. /\ pc[j] = "trade" /\ UNCHANGED <<rowVars, jobVars, handVars>> /\ pc'[j] = "order"
    BY <1>t, <1>y, <1>3 DEF SellTrade, ThreadsOK
  <2>2. sold' = [sold EXCEPT ![tgt[j]] = @ + amount[j]]
    BY <1>3 DEF SellTrade
  <2>3. Open' = Open
    BY <2>1 DEF Open
  <2>4. ASSUME NEW p \in Positions PROVE sold'[p] + Own(Hands, p, j)' = Lot[p] - Left(p)'
    <3>1. sold[p] + Own(Hands, p, j) = Lot[p] - Left(p) /\ sold[p] \in Nat
      BY <1>y, <1>o DEF Settled, RowsOK
    <3>2. Own(Hands, p, j)' = 0 /\ Own(Hands, p, j) = IF p = tgt[j] THEN amount[j] ELSE 0
      BY <2>1 DEF Own, Hands
    <3>3. sold'[p] = IF p = tgt[j] THEN sold[p] + amount[j] ELSE sold[p]
      BY <1>y, <2>2 DEF RowsOK
    <3>4. Left(p)' = Left(p)
      BY <2>1 DEF Left
    <3> QED
      BY <1>y, <3>1, <3>2, <3>3, <3>4
  <2>5. Settled(j)'
    BY <1>o, <2>1, <2>3, <2>4 DEF Settled
  <2>6. AsRead(j)'
    BY <1>o, <2>1, <2>3 DEF AsRead
  <2> QED
    BY <1>o, <2>1, <2>3, <2>5, <2>6 DEF AtHand
<1>4. CASE SellOrder(j) \/ PartTrade(j)
  <2>1. /\ UNCHANGED <<rowVars, jobVars>> /\ tgt'[j] = NoPosition
        /\ \/ pc[j] = "order" /\ pc'[j] = "exits" /\ sold' = sold
           \/ pc[j] = "parttrade" /\ pc'[j] = "parts" /\ sold' = [sold EXCEPT ![tgt[j]] = @ + amount[j]]
    BY <1>t, <1>y, <1>4 DEF SellOrder, PartTrade, Drop, ThreadsOK
  <2>2. Open' = Open
    BY <2>1 DEF Open
  <2>3. ASSUME NEW p \in Positions PROVE sold'[p] + Own(Hands, p, j)' = Lot[p] - Left(p)'
    <3>1. sold[p] + Own(Hands, p, j) = Lot[p] - Left(p) /\ sold[p] \in Nat
      BY <1>y, <1>o DEF Settled, RowsOK
    <3>2. Own(Hands, p, j)' = 0
      BY <2>1 DEF Own, Hands
    <3>3. sold'[p] = sold[p] + Own(Hands, p, j)
      BY <1>y, <2>1 DEF RowsOK, Own, Hands
    <3>4. Left(p)' = Left(p)
      BY <2>1 DEF Left
    <3> QED
      BY <1>y, <3>1, <3>2, <3>3, <3>4 DEF Own
  <2>4. Settled(j)'
    BY <1>o, <2>1, <2>2, <2>3 DEF Settled
  <2>5. \A p \in Open : p # NoPosition
    BY <1>t DEF Open
  <2>6. AsRead(j)'
    BY <1>o, <2>1, <2>2, <2>5 DEF AsRead
  <2> QED
    BY <2>1, <2>4, <2>6 DEF AtHand
<1>5. CASE PartSelect(j)
  <2>1. pc[j] = "part" /\ tgt[j] \in Open
    BY <1>o, <1>5 DEF PartSelect, AtHand
  <2>2. /\ UNCHANGED <<rowVars, tradeVars, jobVars, tgt, amount>>
        /\ pc'[j] = "parting" /\ read'[j] = qty[tgt[j]]
    BY <1>t, <1>y, <1>5, <2>1 DEF PartSelect, ThreadsOK
  <2>3. AsRead(j)' /\ Settled(j)'
    BY <1>o, <2>1, <2>2 DEF AsRead, Settled, Own, Hands, Left, Open
  <2> QED
    BY <1>o, <2>1, <2>2, <2>3 DEF AtHand, Open
<1>6. CASE PartUpdate(j)
  <2>1. /\ pc[j] = "parting" /\ tgt[j] \in Open \ halved /\ read[j] = qty[tgt[j]]
        /\ amount[j] < qty[tgt[j]] /\ tgt[j] \in Positions
    BY <1>o, <1>6 DEF PartUpdate, AtHand, Open
  <2>2. /\ UNCHANGED <<state, tradeVars, jobVars, handVars>> /\ pc'[j] = "parttrade"
        /\ halved' = halved \cup {tgt[j]}
        /\ qty' = [qty EXCEPT ![tgt[j]] = IF read[j] > amount[j] THEN read[j] - amount[j] ELSE 0]
    BY <1>t, <1>y, <1>6, <2>1 DEF PartUpdate, ThreadsOK
  <2>3. Open' = Open
    BY <2>2 DEF Open
  <2>4. \A p \in Positions : qty[p] \in Nat /\ qty'[p] = IF p = tgt[j] THEN qty[p] - amount[j] ELSE qty[p]
    BY <1>y, <2>1, <2>2 DEF RowsOK
  <2>5. ASSUME NEW p \in Positions PROVE sold'[p] + Own(Hands, p, j)' = Lot[p] - Left(p)'
    <3>1. sold[p] + Own(Hands, p, j) = Lot[p] - Left(p) /\ sold[p] \in Nat /\ sold'[p] = sold[p]
      BY <1>y, <1>o, <2>2 DEF Settled, RowsOK
    <3>2. Own(Hands, p, j) = 0 /\ Own(Hands, p, j)' = IF p = tgt[j] THEN amount[j] ELSE 0
      BY <2>1, <2>2 DEF Own, Hands
    <3>3. Left(p)' = IF p = tgt[j] THEN Left(p) - amount[j] ELSE Left(p)
      BY <1>y, <2>1, <2>2, <2>4 DEF Left, Open
    <3>4. Left(p) \in Nat
      BY <2>4 DEF Left
    <3> QED
      BY <1>y, <3>1, <3>2, <3>3, <3>4
  <2>6. \A p \in Positions : qty'[p] > 0 /\ (p \in Open' \ halved' => qty'[p] = Lot[p])
    BY <1>y, <1>o, <2>1, <2>2, <2>3, <2>4 DEF Settled
  <2>7. Settled(j)'
    BY <2>5, <2>6 DEF Settled
  <2>8. AsRead(j)'
    BY <1>o, <2>1, <2>2, <2>3, <2>4 DEF AsRead, Open
  <2> QED
    BY <2>2, <2>7, <2>8 DEF AtHand
<1> QED
  BY <1>1, <1>2, <1>3, <1>4, <1>5, <1>6 DEF Sell

LEMMA OneCheckStep ==
  ASSUME NEW j, Jobs = {j}, ~Manual, ~Faults, ~LegacyExit,
         \A p \in Positions, percent \in Percents : Part(Lot[p], percent) < Lot[p],
         TypeOK, OneCheck(j), [Next]_vars
  PROVE  OneCheck(j)'
<1>t. TypeOK' /\ ThreadsOK /\ j \in Jobs /\ j \in Threads /\ Loop \in Threads /\ j # Loop
      /\ Threads = {j, Loop}
  BY TypeStep, ThreadsAssumption DEF Threads, TypeOK
<1>i. pc[Loop] = "idle" /\ ~late[j]
  BY DEF OneCheck
<1>1. CASE \E w \in Jobs : StartCheck(w) \/ Check(w)
  <2>1. StartCheck(j) \/ Check(j)
    BY <1>1
  <2>2. ~StartScan(j) /\ ~ScanSignal(j) /\ ~EndScan(j)
    BY DEF OneCheck, AtExit, AtPart, StartScan, ScanSignal, EndScan
  <2>3. StartCheck(j) \/ NextExit(j) \/ NextSignal(j) \/ StartParts(j) \/ NextPart(j) \/ FinishCheck(j)
    BY <2>1, <2>2 DEF Check
  <2>4. AsRead(j)' /\ AtHand(j)' /\ Settled(j)'
    <3>1. UNCHANGED <<rowVars, tradeVars>>
      BY <2>3 DEF StartCheck, NextExit, NextSignal, StartParts, NextPart, FinishCheck
    <3> QED
      BY <1>t, <2>3, <3>1, OneCheckThinks, OneCheckAims
  <2>5. pc'[Loop] = "idle" /\ tgt'[Loop] = NoPosition
    <3>1. Alone(j)
      BY <1>t, <2>1, Footprint
    <3> QED
      BY <1>t, <3>1 DEF OneCheck, Alone
  <2>6. ~late'[j]
    BY <1>i, <1>t, <2>3 DEF StartCheck, NextExit, NextSignal, StartParts, NextPart, FinishCheck, EndCheck,
       ThreadsOK
  <2>7. pc'[j] \in {"idle"} \cup AtExit \cup AtPart
    BY <1>t, <2>3 DEF StartCheck, NextExit, NextSignal, StartParts, NextPart, FinishCheck, EndCheck,
       ThreadsOK, AtExit, AtPart, Goto
  <2> QED
    BY <2>4, <2>5, <2>6, <2>7 DEF OneCheck
<1>2. CASE \E w \in Threads : Sell(w)
  <2>1. ~Sell(Loop)
    BY <1>i DEF Sell, CloseSelect, CloseUpdate, SellTrade, SellOrder, PartSelect, PartUpdate, PartTrade
  <2>2. Sell(j)
    BY <1>2, <1>t, <2>1
  <2>3. AsRead(j)' /\ AtHand(j)' /\ Settled(j)'
    BY <1>t, <2>2, OneCheckSells
  <2>4. Alone(j)
    BY <1>t, <2>2, Footprint
  <2>5. ~late'[j]
    BY <1>i, <2>2 DEF Sell, CloseSelect, CloseUpdate, SellTrade, SellOrder, PartSelect, PartUpdate, PartTrade, jobVars
  <2>6. pc'[j] \in {"idle"} \cup AtExit \cup AtPart
    BY <1>t, <2>2 DEF Sell, CloseSelect, CloseUpdate, SellTrade, SellOrder, PartSelect, PartUpdate, PartTrade,
       ThreadsOK, AtExit, AtPart, Goto
  <2> QED
    BY <1>t, <2>3, <2>4, <2>5, <2>6 DEF OneCheck, Alone
<1>3. CASE UNCHANGED vars
  BY <1>3 DEF vars, rowVars, tradeVars, jobVars, handVars, OneCheck, AsRead, AtHand, Settled, Own, Left, Open
<1>4. ~Endpoint /\ ~Environment /\ \A w \in Threads : ~Fault(w)
  BY <1>i DEF Endpoint, Approve, FindPosition, MarkExecuted, Environment, ApproveRequest, SettleSignal,
     SwitchAutoSell, Restart, Fault
<1> QED
  BY <1>1, <1>2, <1>3, <1>4 DEF Next

\* One check at a time, with every half smaller than its lot: once a row is at nobody's
\* hand, the trade log holds exactly the shares that have left it.
THEOREM SalesStayExact ==
  ASSUME NEW j, Jobs = {j}, ~Manual, ~Faults, ~LegacyExit,
         \A p \in Positions, percent \in Percents : Part(Lot[p], percent) < Lot[p]
  PROVE  Spec => []SalesExact
<1>1. Init => OneCheck(j)
  BY OneCheckInit
<1>2. TypeOK /\ OneCheck(j) /\ [Next]_vars => OneCheck(j)'
  BY OneCheckStep
<1>3. TypeOK /\ OneCheck(j) => SalesExact
  <2> SUFFICES ASSUME TypeOK, OneCheck(j), NEW p \in Positions, \A w \in Threads : tgt[w] # p
               PROVE  sold[p] = Lot[p] - Left(p)
    BY DEF SalesExact
  <2>1. j \in Threads
    BY DEF Threads
  <2>2. Own(Hands, p, j) = 0
    BY <2>1 DEF Own
  <2>3. sold[p] + Own(Hands, p, j) = Lot[p] - Left(p) /\ sold[p] \in Nat
    BY DEF OneCheck, Settled, TypeOK, RowsOK
  <2> QED
    BY <2>2, <2>3
<1> QED
  BY <1>1, <1>2, <1>3, TypeInit, TypeStep, PTL DEF Spec
=============================================================================
