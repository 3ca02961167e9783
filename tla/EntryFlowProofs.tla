-------------------------- MODULE EntryFlowProofs --------------------------
(***************************************************************************)
(* Theorems about EntryFlow, for any number of workers, signals and rows.  *)
(***************************************************************************)
EXTENDS EntryFlow, Piles

USE DEF Checks, Steps, Statuses

(***************************************************************************)
(* Types.  That a row number is inserted into the trade log rests on what  *)
(* the worker holds at each call.                                          *)
(***************************************************************************)
Executing == {"size", "open", "trade", "mark", "order", "undo"}

Holding ==
  \A w \in Workers :
    /\ pc[w] \in Steps => cur[w] \in Signals
    /\ pc[w] \in Executing => call[w] = "exec"
    /\ pc[w] \in {"trade", "mark", "order"} => pid[w] \in Positions

Shape == TypeOK /\ Holding

LEMMA ShapeInit == Init => Shape
<1> SUFFICES ASSUME Init PROVE SignalsOK /\ RowsOK /\ ThreadsOK /\ Holding
  BY DEF Shape, TypeOK
<1>1. SignalsOK
  <2>1. status \in [Signals -> Statuses]
    BY DEF Init
  <2> QED
    BY <2>1 DEF Init, SignalsOK
<1>2. RowsOK
  <2>1. /\ state \in [Positions -> {"free", "open", "closed"}]
        /\ sigOf \in [Positions -> Signals \cup {NoSignal}]
        /\ size \in [Positions -> 0..Base]
    BY CountsAssumption DEF Init
  <2> QED
    BY <2>1 DEF Init, RowsOK
<1>3. ThreadsOK
  BY CountsAssumption DEF Init, ThreadsOK
<1>4. Holding
  BY DEF Init, Holding, Executing
<1> QED
  BY <1>1, <1>2, <1>3, <1>4

\* One UPDATE of swing_signals.
LEMMA SetStatusOK ==
  ASSUME SignalsOK, NEW s \in Signals, NEW from, NEW to \in Statuses,
         SetStatus(s, from, to), UNCHANGED <<today, link, cutOff>>
  PROVE  SignalsOK'
  BY DEF SignalsOK, SetStatus

\* A worker that only moves on, within what it holds.
LEMMA GotoOK ==
  ASSUME Shape, NEW w \in Workers, NEW step \in Steps, Goto(w, step),
         cur[w] \in Signals,
         step \in Executing => call[w] = "exec",
         step \in {"trade", "mark", "order"} => pid[w] \in Positions
  PROVE  (ThreadsOK /\ Holding)'
  BY DEF Shape, TypeOK, ThreadsOK, Holding, Executing, Goto

\* A worker that drops its signal.
LEMMA LeaveOK ==
  ASSUME Shape, NEW w \in Workers, Leave(w)
  PROVE  (ThreadsOK /\ Holding)'
<1>1. ThreadsOK'
  BY CountsAssumption DEF Shape, TypeOK, ThreadsOK, Leave
<1>2. Holding'
  BY DEF Shape, TypeOK, ThreadsOK, Holding, Executing, Leave
<1> QED
  BY <1>1, <1>2

LEMMA RefuseOK ==
  ASSUME Shape, NEW w \in Workers, cur[w] \in Signals, Refuse(w)
  PROVE  (ThreadsOK /\ Holding)'
  BY GotoOK, LeaveOK DEF Refuse, Executing

\* What a fault adds to the history has its type.
LEMMA CutOffTyped ==
  ASSUME ThreadsOK
  PROVE  \A w \in Workers : Entering(w) \subseteq (Signals \cup {NoSignal}) \X (Positions \cup {NoPosition})
  BY DEF ThreadsOK, Entering

LEMMA ShapeStep == Shape /\ [Next]_vars => Shape'
<1> SUFFICES ASSUME Shape, [Next]_vars PROVE SignalsOK' /\ RowsOK' /\ (ThreadsOK /\ Holding)'
  BY DEF Shape, TypeOK
<1> USE DEF Shape, TypeOK, signalVars, positionVars, workerVars
<1>a. ASSUME UNCHANGED signalVars PROVE SignalsOK'
  BY <1>a DEF SignalsOK
<1>b. ASSUME UNCHANGED <<positionVars, hedged>> PROVE RowsOK'
  BY <1>b DEF RowsOK
<1>c. ASSUME UNCHANGED workerVars PROVE (ThreadsOK /\ Holding)'
  BY <1>c DEF ThreadsOK, Holding
<1>d. \A w \in Workers : pc[w] \in Steps => cur[w] \in Signals
  BY DEF Holding
<1>1. ASSUME NEW s \in Signals, InsertSignal(s) \/ RejectRequest(s) \/ RevertToPending(s)
      PROVE  SignalsOK' /\ RowsOK' /\ (ThreadsOK /\ Holding)'
  <2>1. SignalsOK'
    BY <1>1, SetStatusOK DEF InsertSignal, RejectRequest, RevertToPending, RejectRow, SignalsOK
  <2> QED
    BY <1>1, <1>b, <1>c, <2>1 DEF InsertSignal, RejectRequest, RevertToPending
<1>2. ASSUME NEW s \in Signals, ApproveRequest(s)
      PROVE  SignalsOK' /\ RowsOK' /\ (ThreadsOK /\ Holding)'
  BY <1>2, <1>a, <1>b, WorkersAssumption DEF ApproveRequest, ThreadsOK, Holding, Executing
<1>3. CASE ExpireSignals
  BY <1>3, <1>b, <1>c DEF ExpireSignals, SignalsOK
<1>4. CASE ToggleHedge \/ NextDay \/ UNCHANGED vars
  BY <1>4, <1>a, <1>b, <1>c DEF ToggleHedge, NextDay, vars, SignalsOK, RowsOK
<1>5. CASE Restart
  <2>1. SignalsOK'
    BY <1>5, CutOffTyped DEF Restart, SignalsOK
  <2> QED
    BY <1>5, <1>b, <2>1, CountsAssumption DEF Restart, ThreadsOK, Holding, Executing
<1>6. ASSUME NEW p \in Positions, ClosePosition(p)
      PROVE  SignalsOK' /\ RowsOK' /\ (ThreadsOK /\ Holding)'
  BY <1>6, <1>a, <1>c DEF ClosePosition, RowsOK
<1>7. ASSUME NEW w \in Workers, Validate(w)
      PROVE  SignalsOK' /\ RowsOK' /\ (ThreadsOK /\ Holding)'
  <2>1. SignalsOK' /\ RowsOK'
    BY <1>7, <1>a, <1>b DEF Validate, CheckMax, CheckDaily, CheckDup, CheckSector, RefuseOther, Check
  <2>2. CASE CheckMax(w) \/ CheckDaily(w) \/ CheckDup(w)
    BY <1>d, <2>1, <2>2, GotoOK, RefuseOK DEF CheckMax, CheckDaily, CheckDup, Check, Executing
  <2>3. CASE CheckSector(w)
    <3>1. cur[w] \in Signals
      BY <1>d, <2>3 DEF CheckSector
    <3>2. CASE Refuse(w)
      BY <2>1, <3>1, <3>2, RefuseOK
    <3>3. CASE call[w] = "exec" /\ Goto(w, "size")
      BY <2>1, <3>1, <3>3, GotoOK DEF Executing
    <3>4. CASE Goto(w, "approve")
      BY <2>1, <3>1, <3>4, GotoOK DEF Executing
    <3>5. CASE /\ cands' = [cands EXCEPT ![w] = @ \cup {cur[w]}]
               /\ pc' = [pc EXCEPT ![w] = "pass1"]
               /\ cur' = [cur EXCEPT ![w] = NoSignal]
               /\ UNCHANGED <<call, auto, todo, pid, qty>>
      BY <2>1, <3>1, <3>5 DEF ThreadsOK, Holding, Executing
    <3> QED
      BY <2>3, <3>2, <3>3, <3>4, <3>5 DEF CheckSector
  <2>4. CASE RefuseOther(w)
    BY <1>d, <2>1, <2>4, RefuseOK DEF RefuseOther
  <2> QED
    BY <1>7, <2>2, <2>3, <2>4 DEF Validate
<1>8. ASSUME NEW w \in Workers, Approve(w)
      PROVE  SignalsOK' /\ RowsOK' /\ (ThreadsOK /\ Holding)'
  <2>1. SignalsOK' /\ RowsOK'
    BY <1>8, <1>b, <1>d, SetStatusOK DEF Approve, ApproveRow
  <2> QED
    BY <1>8, <2>1 DEF Approve, ThreadsOK, Holding, Executing
<1>9. ASSUME NEW w \in Workers, Sweep(w) \/ AutoStart(w)
      PROVE  SignalsOK' /\ RowsOK' /\ (ThreadsOK /\ Holding)'
  <2>1. CASE Pass1(w)
    BY <2>1, <1>a, <1>b DEF Pass1, Goto, ThreadsOK, Holding, Executing
  <2>2. CASE AutoApprove(w)
    <3>1. SignalsOK' /\ RowsOK'
      BY <2>2, <1>b, SetStatusOK DEF AutoApprove, ApproveRow, ThreadsOK
    <3> QED
      BY <2>2, <3>1 DEF AutoApprove, ThreadsOK, Holding, Executing
  <2>3. CASE AutoDrop(w)
    <3>1. SignalsOK' /\ RowsOK'
      BY <2>3, <1>a, <1>b, SetStatusOK DEF AutoDrop, RejectRow, ThreadsOK
    <3> QED
      BY <2>3, <3>1 DEF AutoDrop, ThreadsOK, Holding
  <2>4. CASE AutoEnd(w) \/ AutoStart(w)
    BY <2>4, <1>a, <1>b DEF AutoEnd, AutoStart, ThreadsOK, Holding, Executing
  <2> QED
    BY <1>9, <2>1, <2>2, <2>3, <2>4 DEF Sweep
<1>10. ASSUME NEW w \in Workers, Execute(w)
       PROVE  SignalsOK' /\ RowsOK' /\ (ThreadsOK /\ Holding)'
  <2>1. CASE Size(w)
    <3>1. SignalsOK' /\ RowsOK' /\ cur[w] \in Signals
      BY <2>1, <1>a, <1>b, <1>d DEF Size
    <3>2. CASE Refuse(w)
      BY <3>1, <3>2, RefuseOK
    <3>3. ASSUME NEW n \in 1..Base,
                 qty' = [qty EXCEPT ![w] = n], pc' = [pc EXCEPT ![w] = "open"],
                 UNCHANGED <<call, auto, cur, todo, cands, pid>>
          PROVE  (ThreadsOK /\ Holding)'
      BY <2>1, <3>1, <3>3, CountsAssumption DEF Size, ThreadsOK, Holding, Executing
    <3> QED
      BY <2>1, <3>1, <3>2, <3>3 DEF Size
  <2>2. CASE OpenPosition(w)
    <3>1. SignalsOK' /\ RowsOK'
      BY <2>2, <1>a DEF OpenPosition, NextRow, RowsOK, ThreadsOK
    <3> QED
      BY <2>2, <3>1 DEF OpenPosition, NextRow, ThreadsOK, Holding, Executing
  <2>3. CASE InsertTrade(w)
    <3>1. SignalsOK' /\ RowsOK'
      BY <2>3, <1>a DEF InsertTrade, RowsOK, Holding
    <3> QED
      BY <2>3, <3>1, GotoOK DEF InsertTrade, Holding, Executing
  <2>4. CASE MarkExecuted(w)
    <3>1. status' \in [Signals -> Statuses] /\ cur[w] \in Signals /\ pid[w] \in Positions
      BY <2>4, <1>d DEF MarkExecuted, SetStatus, SignalsOK, Holding
    <3>2. SignalsOK' /\ RowsOK'
      BY <2>4, <3>1, <1>b DEF MarkExecuted, SignalsOK
    <3> QED
      BY <2>4, <3>1, <3>2, GotoOK DEF MarkExecuted, Holding, Executing
  <2>5. CASE PlaceOrder(w)
    <3>1. SignalsOK' /\ RowsOK'
      BY <2>5, <1>a DEF PlaceOrder, RowsOK, Holding
    <3> QED
      BY <2>5, <3>1, LeaveOK DEF PlaceOrder
  <2>6. CASE UndoApproval(w)
    <3>1. SignalsOK' /\ RowsOK'
      BY <2>6, <1>b, <1>d, SetStatusOK DEF UndoApproval, RejectRow
    <3> QED
      BY <2>6, <3>1, LeaveOK DEF UndoApproval
  <2> QED
    BY <1>10, <2>1, <2>2, <2>3, <2>4, <2>5, <2>6 DEF Execute
<1>11. ASSUME NEW w \in Workers, Fault(w)
       PROVE  SignalsOK' /\ RowsOK' /\ (ThreadsOK /\ Holding)'
  BY <1>11, <1>b, LeaveOK, CutOffTyped DEF Fault, SignalsOK
<1> QED
  BY <1>1, <1>2, <1>3, <1>4, <1>5, <1>6, <1>7, <1>8, <1>9, <1>10, <1>11
     DEF Next, Environment, Step

\* The state keeps its shape.
THEOREM Typing == Spec => []TypeOK
<1>1. Shape => TypeOK
  BY DEF Shape
<1> QED
  BY ShapeInit, ShapeStep, <1>1, PTL DEF Spec

(***************************************************************************)
(* The limits.  A worker inside execute_entry that has passed a check and  *)
(* not yet done what the check was about holds a reservation no one else   *)
(* can see.  Open rows and reservations together stay below the limit plus *)
(* all workers but one, because a check that passes counts the open rows   *)
(* only: it admits its worker next to at most all the others.              *)
(***************************************************************************)
PastMax == {w \in Workers : call[w] = "exec" /\ pc[w] \in {"daily", "dup", "sector", "size", "open"}}
PastDaily == {w \in Workers : call[w] = "exec" /\ pc[w] \in {"dup", "sector", "size", "open", "trade", "mark"}}
PastDup(y) == {w \in Workers : /\ call[w] = "exec" /\ pc[w] \in {"sector", "size", "open"}
                               /\ SymbolOf[cur[w]] = y}
PastSector(c) == {w \in Workers : /\ call[w] = "exec" /\ pc[w] \in {"size", "open"}
                                  /\ SectorOf[SymbolOf[cur[w]]] = c}

Slots == Cardinality(Open) + Cardinality(PastMax) <= MaxPositions + Cardinality(Workers) - 1
DailySlots == Cardinality(TodayEntries) + Cardinality(PastDaily) <= MaxDaily + Cardinality(Workers) - 1
SymbolSlots == \A y \in Symbols :
  Cardinality(OpenIn(y)) + Cardinality(PastDup(y)) <= Cardinality(Workers)
SectorSlots == MaxPerSector > 0 => \A c \in Sectors :
  Cardinality(OpenSector(c)) + Cardinality(PastSector(c)) <= MaxPerSector + Cardinality(Workers) - 1

AllSlots == Slots /\ DailySlots /\ SymbolSlots /\ SectorSlots

\* The three ways in which rows (A) and reservations (B) can move.
LEMMA Shrink ==
  ASSUME NEW A, NEW B, NEW A2, NEW B2, IsFiniteSet(A), IsFiniteSet(B),
         A2 \subseteq A, B2 \subseteq B
  PROVE  /\ Cardinality(A) \in Nat /\ Cardinality(B) \in Nat
         /\ Cardinality(A2) \in Nat /\ Cardinality(B2) \in Nat
         /\ Cardinality(A2) <= Cardinality(A) /\ Cardinality(B2) <= Cardinality(B)
  BY FS_Subset, FS_CardinalityType

LEMMA Convert ==
  ASSUME NEW A, NEW B, NEW A2, NEW B2, NEW p, NEW w \in B, IsFiniteSet(A), IsFiniteSet(B),
         A2 \subseteq A \cup {p}, B2 \subseteq B \ {w}
  PROVE  /\ Cardinality(A) \in Nat /\ Cardinality(B) \in Nat
         /\ Cardinality(A2) \in Nat /\ Cardinality(B2) \in Nat
         /\ Cardinality(A2) + Cardinality(B2) <= Cardinality(A) + Cardinality(B)
<1>0. Cardinality(A) \in Nat /\ Cardinality(B) \in Nat
  BY FS_CardinalityType
<1>1. /\ IsFiniteSet(A \cup {p}) /\ IsFiniteSet(B \ {w})
      /\ Cardinality(A \cup {p}) \in Nat /\ Cardinality(A \cup {p}) <= Cardinality(A) + 1
      /\ Cardinality(B \ {w}) = Cardinality(B) - 1
  <2>1. IsFiniteSet(A \cup {p}) /\ (Cardinality(A \cup {p}) = Cardinality(A) \/ Cardinality(A \cup {p}) = Cardinality(A) + 1)
    BY FS_AddElement
  <2>2. IsFiniteSet(B \ {w}) /\ Cardinality(B \ {w}) = Cardinality(B) - 1
    BY FS_RemoveElement
  <2> QED
    BY <1>0, <2>1, <2>2
<1>2. /\ Cardinality(A2) \in Nat /\ Cardinality(A2) <= Cardinality(A \cup {p})
      /\ Cardinality(B2) \in Nat /\ Cardinality(B2) <= Cardinality(B \ {w})
  BY <1>1, Shrink
<1> QED
  BY <1>0, <1>1, <1>2

LEMMA Finite ==
  /\ IsFiniteSet(Open) /\ IsFiniteSet(TodayEntries)
  /\ \A y : IsFiniteSet(OpenIn(y))
  /\ \A c : IsFiniteSet(OpenSector(c))
  /\ IsFiniteSet(PastMax) /\ IsFiniteSet(PastDaily)
  /\ \A y : IsFiniteSet(PastDup(y))
  /\ \A c : IsFiniteSet(PastSector(c))
  BY RowsAssumption, WorkersAssumption, FS_Subset
     DEF Open, TodayEntries, OpenIn, OpenSector, PastMax, PastDaily, PastDup, PastSector

\* A step that creates no row, no counted execution and no reservation; a worker
\* may go on from the sizing and from the trade within those it holds.
Reserving == {"daily", "dup", "sector", "size", "open", "trade", "mark"}
QuietThreads ==
  \A w \in Workers : call'[w] = "exec" /\ pc'[w] \in Reserving =>
    /\ call[w] = "exec" /\ cur'[w] = cur[w]
    /\ \/ pc'[w] = pc[w]
       \/ pc[w] = "size" /\ pc'[w] = "open"
       \/ pc[w] = "trade" /\ pc'[w] = "mark"
QuietRows ==
  \A p \in Positions : state'[p] = "open" => state[p] = "open" /\ sigOf'[p] = sigOf[p]
QuietSignals ==
  \A s \in Signals : status'[s] = "executed" /\ s \in today' => status[s] = "executed" /\ s \in today
Quiet == QuietThreads /\ QuietRows /\ QuietSignals

\* A step of w past one more check.
Pass(w, from, to) ==
  /\ pc[w] = from /\ Goto(w, to) /\ UNCHANGED <<signalVars, positionVars>>

LEMMA StepKinds ==
  ASSUME Shape, [Next]_vars
  PROVE  \/ Quiet
         \/ \E w \in Workers :
              \/ Pass(w, "max", "daily") /\ OpenCount < MaxPositions
              \/ Pass(w, "daily", "dup") /\ Cardinality(TodayEntries) < MaxDaily
              \/ Pass(w, "dup", "sector") /\ OpenIn(SymbolOf[cur[w]]) = {}
              \/ Pass(w, "sector", "size") /\ ~SectorFull(SymbolOf[cur[w]])
              \/ OpenPosition(w) \/ MarkExecuted(w)
<1> USE DEF Shape, TypeOK, signalVars, positionVars, workerVars
<1>a. ASSUME UNCHANGED workerVars PROVE QuietThreads
  BY <1>a DEF QuietThreads
<1>b. ASSUME UNCHANGED positionVars PROVE QuietRows
  BY <1>b DEF QuietRows
<1>c. ASSUME UNCHANGED signalVars PROVE QuietSignals
  BY <1>c DEF QuietSignals
<1>d. ASSUME NEW w \in Workers, Leave(w) \/ Goto(w, "undo") \/ Refuse(w) PROVE QuietThreads
  BY <1>d DEF Refuse, Leave, Goto, QuietThreads, Reserving, ThreadsOK
<1>e. ASSUME NEW s \in Signals, NEW from, NEW to, SetStatus(s, from, to), to # "executed", UNCHANGED today
      PROVE  QuietSignals
  BY <1>e DEF SetStatus, QuietSignals, SignalsOK
<1>1. ASSUME NEW s \in Signals, InsertSignal(s) \/ RejectRequest(s) \/ RevertToPending(s) PROVE Quiet
  BY <1>1, <1>a, <1>b, <1>e DEF InsertSignal, RejectRequest, RejectRow, RevertToPending, Quiet, QuietSignals, SignalsOK
<1>2. ASSUME NEW s \in Signals, ApproveRequest(s) PROVE Quiet
  BY <1>2, <1>b, <1>c DEF ApproveRequest, Quiet, QuietThreads, Reserving, ThreadsOK
<1>3. ASSUME ExpireSignals PROVE Quiet
  BY <1>3, <1>a, <1>b DEF ExpireSignals, Quiet, QuietSignals, SignalsOK
<1>4. ASSUME ToggleHedge \/ NextDay \/ UNCHANGED vars PROVE Quiet
  BY <1>4, <1>a, <1>b, <1>c DEF ToggleHedge, NextDay, vars, Quiet, QuietSignals
<1>5. ASSUME Restart PROVE Quiet
  BY <1>5, <1>b DEF Restart, Quiet, QuietThreads, QuietSignals, Reserving
<1>6. ASSUME NEW p \in Positions, ClosePosition(p) PROVE Quiet
  BY <1>6, <1>a, <1>c DEF ClosePosition, Quiet, QuietRows, RowsOK
<1>7. ASSUME NEW w \in Workers, Approve(w) PROVE Quiet
  <2>1. QuietSignals
    BY <1>7, <1>e DEF Approve, ApproveRow, Holding
  <2> QED
    BY <1>7, <1>b, <2>1 DEF Approve, Quiet, QuietThreads, Reserving, ThreadsOK
<1>8. ASSUME NEW w \in Workers, Sweep(w) \/ AutoStart(w) PROVE Quiet
  <2>1. CASE Pass1(w)
    BY <2>1, <1>b, <1>c DEF Pass1, Goto, Quiet, QuietThreads, Reserving, ThreadsOK
  <2>2. CASE AutoApprove(w)
    <3>1. QuietSignals
      BY <2>2, <1>e DEF AutoApprove, ApproveRow, ThreadsOK
    <3> QED
      BY <2>2, <1>b, <3>1 DEF AutoApprove, Quiet, QuietThreads, Reserving, ThreadsOK
  <2>3. CASE AutoDrop(w)
    <3>1. QuietSignals
      BY <2>3, <1>e DEF AutoDrop, RejectRow, ThreadsOK, QuietSignals
    <3> QED
      BY <2>3, <1>b, <3>1 DEF AutoDrop, Quiet, QuietThreads
  <2>4. CASE AutoEnd(w) \/ AutoStart(w)
    BY <2>4, <1>b, <1>c DEF AutoEnd, AutoStart, Quiet, QuietThreads, Reserving, ThreadsOK
  <2> QED
    BY <1>8, <2>1, <2>2, <2>3, <2>4 DEF Sweep
<1>9. ASSUME NEW w \in Workers, RefuseOther(w) \/ Fault(w) PROVE Quiet
  BY <1>9, <1>b, <1>c, <1>d DEF RefuseOther, Fault, Quiet, QuietSignals
<1>10. ASSUME NEW w \in Workers, CheckMax(w)
       PROVE  Quiet \/ (Pass(w, "max", "daily") /\ OpenCount < MaxPositions)
  BY <1>10, <1>b, <1>c, <1>d DEF CheckMax, Check, Pass, Quiet
<1>11. ASSUME NEW w \in Workers, CheckDaily(w)
       PROVE  Quiet \/ (Pass(w, "daily", "dup") /\ Cardinality(TodayEntries) < MaxDaily)
  BY <1>11, <1>b, <1>c, <1>d DEF CheckDaily, Check, Pass, Quiet
<1>12. ASSUME NEW w \in Workers, CheckDup(w)
       PROVE  Quiet \/ (Pass(w, "dup", "sector") /\ OpenIn(SymbolOf[cur[w]]) = {})
  BY <1>12, <1>b, <1>c, <1>d DEF CheckDup, Check, Pass, Quiet
<1>13. ASSUME NEW w \in Workers, CheckSector(w)
       PROVE  Quiet \/ (Pass(w, "sector", "size") /\ ~SectorFull(SymbolOf[cur[w]]))
  <2>1. CASE Refuse(w)
    BY <1>13, <2>1, <1>b, <1>c, <1>d DEF CheckSector, Quiet
  <2>2. CASE Goto(w, "size") /\ ~SectorFull(SymbolOf[cur[w]])
    BY <1>13, <2>2 DEF CheckSector, Pass
  <2>3. CASE Goto(w, "approve")
    BY <1>13, <2>3, <1>b, <1>c DEF CheckSector, Goto, Quiet, QuietThreads, Reserving, ThreadsOK
  <2>4. CASE pc' = [pc EXCEPT ![w] = "pass1"] /\ cur' = [cur EXCEPT ![w] = NoSignal] /\ UNCHANGED call
    BY <1>13, <2>4, <1>b, <1>c DEF CheckSector, Quiet, QuietThreads, Reserving, ThreadsOK
  <2> QED
    BY <1>13, <2>1, <2>2, <2>3, <2>4 DEF CheckSector
<1>14. ASSUME NEW w \in Workers, Size(w) PROVE Quiet
  <2>1. QuietRows /\ QuietSignals
    BY <1>14, <1>b, <1>c DEF Size
  <2>2. CASE Refuse(w)
    BY <2>1, <2>2, <1>d DEF Quiet
  <2>3. CASE pc' = [pc EXCEPT ![w] = "open"] /\ UNCHANGED <<call, cur>>
    BY <1>14, <2>1, <2>3 DEF Size, Quiet, QuietThreads, Reserving, ThreadsOK, Holding, Executing
  <2> QED
    BY <1>14, <2>2, <2>3 DEF Size
<1>15. ASSUME NEW w \in Workers, InsertTrade(w) PROVE Quiet
  BY <1>15, <1>c DEF InsertTrade, Goto, Quiet, QuietThreads, QuietRows, Reserving, ThreadsOK, Holding, Executing
<1>16. ASSUME NEW w \in Workers, PlaceOrder(w) PROVE Quiet
  BY <1>16, <1>c, <1>d DEF PlaceOrder, Quiet, QuietRows
<1>17. ASSUME NEW w \in Workers, UndoApproval(w) PROVE Quiet
  BY <1>17, <1>b, <1>d, <1>e DEF UndoApproval, RejectRow, Quiet, Holding
<1>18. ASSUME NEW w \in Workers, Step(w) \/ AutoStart(w) \/ Fault(w)
       PROVE  \/ Quiet
              \/ Pass(w, "max", "daily") /\ OpenCount < MaxPositions
              \/ Pass(w, "daily", "dup") /\ Cardinality(TodayEntries) < MaxDaily
              \/ Pass(w, "dup", "sector") /\ OpenIn(SymbolOf[cur[w]]) = {}
              \/ Pass(w, "sector", "size") /\ ~SectorFull(SymbolOf[cur[w]])
              \/ OpenPosition(w) \/ MarkExecuted(w)
  BY <1>18, <1>7, <1>8, <1>9, <1>10, <1>11, <1>12, <1>13, <1>14, <1>15, <1>16, <1>17
     DEF Step, Validate, Execute
<1>19. ASSUME Environment \/ UNCHANGED vars PROVE Quiet
  <2>1. ASSUME NEW s \in Signals,
               InsertSignal(s) \/ ApproveRequest(s) \/ RejectRequest(s) \/ RevertToPending(s)
        PROVE  Quiet
    BY <2>1, <1>1, <1>2
  <2>2. CASE Environment
    BY <2>1, <2>2, <1>3, <1>4, <1>5, <1>6 DEF Environment
  <2> QED
    BY <1>19, <2>2, <1>4
<1> QED
  BY <1>18, <1>19 DEF Next

\* Rows, counted executions and reservations after a quiet step.
LEMMA QuietSets ==
  ASSUME Quiet
  PROVE  /\ Open' \subseteq Open /\ TodayEntries' \subseteq TodayEntries
         /\ \A y : OpenIn(y)' \subseteq OpenIn(y) /\ PastDup(y)' \subseteq PastDup(y)
         /\ \A c : OpenSector(c)' \subseteq OpenSector(c) /\ PastSector(c)' \subseteq PastSector(c)
         /\ PastMax' \subseteq PastMax /\ PastDaily' \subseteq PastDaily
<1> USE DEF Quiet, QuietThreads, QuietRows, QuietSignals, Reserving
<1>1. Open' \subseteq Open /\ TodayEntries' \subseteq TodayEntries
  BY DEF Open, TodayEntries
<1>2. ASSUME NEW y PROVE OpenIn(y)' \subseteq OpenIn(y)
  BY DEF Open, OpenIn
<1>3. ASSUME NEW y PROVE PastDup(y)' \subseteq PastDup(y)
  BY DEF PastDup
<1>4. ASSUME NEW c PROVE OpenSector(c)' \subseteq OpenSector(c)
  BY DEF Open, OpenSector
<1>5. ASSUME NEW c PROVE PastSector(c)' \subseteq PastSector(c)
  BY DEF PastSector
<1>6. PastMax' \subseteq PastMax /\ PastDaily' \subseteq PastDaily
  BY DEF PastMax, PastDaily
<1> QED
  BY <1>1, <1>2, <1>3, <1>4, <1>5, <1>6

\* Nothing but the worker's place changes when it passes a check.
LEMMA PassSets ==
  ASSUME Shape, NEW w \in Workers, NEW from, NEW to, Pass(w, from, to)
  PROVE  /\ Open' = Open /\ TodayEntries' = TodayEntries
         /\ \A y : OpenIn(y)' = OpenIn(y)
         /\ \A c : OpenSector(c)' = OpenSector(c)
         /\ pc' = [pc EXCEPT ![w] = to] /\ call' = call /\ cur' = cur
         /\ PastMax' \subseteq Workers /\ PastDaily' \subseteq Workers
         /\ \A y : PastDup(y)' \subseteq Workers
         /\ \A c : PastSector(c)' \subseteq Workers
<1> USE DEF Pass, Goto, signalVars, positionVars
<1>1. Open' = Open /\ TodayEntries' = TodayEntries
  BY DEF Open, TodayEntries
<1>2. ASSUME NEW y PROVE OpenIn(y)' = OpenIn(y)
  BY DEF Open, OpenIn
<1>3. ASSUME NEW c PROVE OpenSector(c)' = OpenSector(c)
  BY DEF Open, OpenSector
<1>4. PastMax' \subseteq Workers /\ PastDaily' \subseteq Workers
  BY DEF PastMax, PastDaily
<1>5. \A y : PastDup(y)' \subseteq Workers
  BY DEF PastDup
<1>6. \A c : PastSector(c)' \subseteq Workers
  BY DEF PastSector
<1> QED
  BY <1>1, <1>2, <1>3, <1>4, <1>5, <1>6

LEMMA WorkersCount == IsFiniteSet(Workers) /\ Cardinality(Workers) \in Nat \ {0}
  BY WorkersAssumption, FS_EmptySet, FS_CardinalityType

LEMMA SlotsStep == Shape /\ Slots /\ [Next]_vars => Slots'
<1> SUFFICES ASSUME Shape, Slots, [Next]_vars PROVE Slots'
  OBVIOUS
<1> USE Finite, WorkersCount, CountsAssumption
<1>1. CASE Open' \subseteq Open /\ PastMax' \subseteq PastMax
  <2>1. Cardinality(Open') <= Cardinality(Open) /\ Cardinality(PastMax') <= Cardinality(PastMax)
    BY <1>1, Shrink
  <2>2. /\ Cardinality(Open) \in Nat /\ Cardinality(Open') \in Nat
        /\ Cardinality(PastMax) \in Nat /\ Cardinality(PastMax') \in Nat
    BY <1>1, Shrink
  <2> QED
    BY <2>1, <2>2 DEF Slots
<1>2. ASSUME NEW w \in Workers, Pass(w, "max", "daily"), OpenCount < MaxPositions PROVE Slots'
  <2>1. Cardinality(Open) \in Nat /\ Cardinality(Open) < MaxPositions
    BY <1>2, FS_CardinalityType DEF OpenCount
  <2>2. Cardinality(PastMax') \in Nat /\ Cardinality(PastMax') <= Cardinality(Workers)
    BY <1>2, PassSets, Shrink
  <2>3. Open' = Open
    BY <1>2, PassSets
  <2> QED
    BY <2>1, <2>2, <2>3 DEF Slots
<1>3. ASSUME NEW w \in Workers, NEW from, NEW to, Pass(w, from, to), from \in {"daily", "dup", "sector"}
      PROVE  Slots'
  <2>1. Open' = Open /\ pc[w] = from
    BY <1>3, PassSets DEF Pass
  <2>2. PastMax' \subseteq PastMax
    BY <1>3, <2>1, PassSets DEF PastMax, Shape, TypeOK, ThreadsOK
  <2> QED
    BY <1>1, <2>1, <2>2
<1>4. ASSUME NEW w \in Workers, OpenPosition(w) PROVE Slots'
  <2>1. w \in PastMax /\ PastMax' \subseteq PastMax \ {w}
    BY <1>4 DEF OpenPosition, NextRow, PastMax, Shape, TypeOK, ThreadsOK, Holding, Executing
  <2>2. PICK p \in Positions : Open' \subseteq Open \cup {p}
    BY <1>4 DEF OpenPosition, NextRow, Open, Shape, TypeOK, RowsOK
  <2>3. /\ Cardinality(Open) \in Nat /\ Cardinality(PastMax) \in Nat
        /\ Cardinality(Open') \in Nat /\ Cardinality(PastMax') \in Nat
        /\ Cardinality(Open') + Cardinality(PastMax') <= Cardinality(Open) + Cardinality(PastMax)
    BY <2>1, <2>2, Convert
  <2> QED
    BY <2>3 DEF Slots
<1>5. ASSUME NEW w \in Workers, MarkExecuted(w) PROVE Slots'
  <2>1. Open' = Open
    BY <1>5 DEF MarkExecuted, Open, positionVars
  <2>2. PastMax' \subseteq PastMax
    BY <1>5 DEF MarkExecuted, Goto, PastMax, Shape, TypeOK, ThreadsOK
  <2> QED
    BY <1>1, <2>1, <2>2
<1> QED
  BY <1>1, <1>2, <1>3, <1>4, <1>5, StepKinds, QuietSets

LEMMA DailySlotsStep == Shape /\ DailySlots /\ [Next]_vars => DailySlots'
<1> SUFFICES ASSUME Shape, DailySlots, [Next]_vars PROVE DailySlots'
  OBVIOUS
<1> USE Finite, WorkersCount, CountsAssumption
<1>1. CASE TodayEntries' \subseteq TodayEntries /\ PastDaily' \subseteq PastDaily
  <2>1. /\ Cardinality(TodayEntries') <= Cardinality(TodayEntries)
        /\ Cardinality(PastDaily') <= Cardinality(PastDaily)
    BY <1>1, Shrink
  <2>2. /\ Cardinality(TodayEntries) \in Nat /\ Cardinality(TodayEntries') \in Nat
        /\ Cardinality(PastDaily) \in Nat /\ Cardinality(PastDaily') \in Nat
    BY <1>1, Shrink
  <2> QED
    BY <2>1, <2>2 DEF DailySlots
<1>2. ASSUME NEW w \in Workers, Pass(w, "daily", "dup"), Cardinality(TodayEntries) < MaxDaily
      PROVE  DailySlots'
  <2>1. Cardinality(TodayEntries) \in Nat /\ TodayEntries' = TodayEntries
    BY <1>2, FS_CardinalityType, PassSets
  <2>2. Cardinality(PastDaily') \in Nat /\ Cardinality(PastDaily') <= Cardinality(Workers)
    BY <1>2, PassSets, Shrink
  <2> QED
    BY <1>2, <2>1, <2>2 DEF DailySlots
<1>3. ASSUME NEW w \in Workers, NEW from, NEW to, Pass(w, from, to),
             from \in {"dup", "sector"} \/ to = "daily"
      PROVE  DailySlots'
  <2>1. TodayEntries' = TodayEntries /\ pc[w] = from
    BY <1>3, PassSets DEF Pass
  <2>2. PastDaily' \subseteq PastDaily
    BY <1>3, <2>1, PassSets DEF PastDaily, Shape, TypeOK, ThreadsOK
  <2> QED
    BY <1>1, <2>1, <2>2
<1>4. ASSUME NEW w \in Workers, OpenPosition(w) PROVE DailySlots'
  <2>1. TodayEntries' = TodayEntries
    BY <1>4 DEF OpenPosition, NextRow, TodayEntries, signalVars
  <2>2. PastDaily' \subseteq PastDaily
    BY <1>4 DEF OpenPosition, NextRow, PastDaily, Shape, TypeOK, ThreadsOK
  <2> QED
    BY <1>1, <2>1, <2>2
<1>5. ASSUME NEW w \in Workers, MarkExecuted(w) PROVE DailySlots'
  <2>1. w \in PastDaily /\ PastDaily' \subseteq PastDaily \ {w}
    BY <1>5 DEF MarkExecuted, Goto, PastDaily, Shape, TypeOK, ThreadsOK, Holding, Executing
  <2>2. TodayEntries' \subseteq TodayEntries \cup {cur[w]}
    BY <1>5 DEF MarkExecuted, SetStatus, TodayEntries, Shape, TypeOK, SignalsOK
  <2>3. /\ Cardinality(TodayEntries) \in Nat /\ Cardinality(PastDaily) \in Nat
        /\ Cardinality(TodayEntries') \in Nat /\ Cardinality(PastDaily') \in Nat
        /\ Cardinality(TodayEntries') + Cardinality(PastDaily')
             <= Cardinality(TodayEntries) + Cardinality(PastDaily)
    BY <2>1, <2>2, Convert
  <2> QED
    BY <2>3 DEF DailySlots
<1> QED
  BY <1>1, <1>2, <1>3, <1>4, <1>5, StepKinds, QuietSets

LEMMA SymbolSlotsStep == Shape /\ SymbolSlots /\ [Next]_vars => SymbolSlots'
<1> SUFFICES ASSUME Shape, SymbolSlots, [Next]_vars, NEW y \in Symbols
             PROVE  Cardinality(OpenIn(y)') + Cardinality(PastDup(y)') <= Cardinality(Workers)
  BY DEF SymbolSlots
<1> USE Finite, WorkersCount
<1>0. Cardinality(OpenIn(y)) + Cardinality(PastDup(y)) <= Cardinality(Workers)
  BY DEF SymbolSlots
<1>1. CASE OpenIn(y)' \subseteq OpenIn(y) /\ PastDup(y)' \subseteq PastDup(y)
  <2>1. /\ Cardinality(OpenIn(y)') <= Cardinality(OpenIn(y))
        /\ Cardinality(PastDup(y)') <= Cardinality(PastDup(y))
    BY <1>1, Shrink
  <2>2. /\ Cardinality(OpenIn(y)) \in Nat /\ Cardinality(OpenIn(y)') \in Nat
        /\ Cardinality(PastDup(y)) \in Nat /\ Cardinality(PastDup(y)') \in Nat
    BY <1>1, Shrink
  <2> QED
    BY <1>0, <2>1, <2>2
<1>2. ASSUME NEW w \in Workers, Pass(w, "dup", "sector"), OpenIn(SymbolOf[cur[w]]) = {}
      PROVE  Cardinality(OpenIn(y)') + Cardinality(PastDup(y)') <= Cardinality(Workers)
  <2>1. OpenIn(y)' = OpenIn(y)
    BY <1>2, PassSets
  <2>2. CASE SymbolOf[cur[w]] = y
    <3>1. Cardinality(OpenIn(y)') = 0
      BY <1>2, <2>1, <2>2, FS_EmptySet
    <3>2. Cardinality(PastDup(y)') \in Nat /\ Cardinality(PastDup(y)') <= Cardinality(Workers)
      BY <1>2, PassSets, Shrink
    <3> QED
      BY <3>1, <3>2
  <2>3. CASE SymbolOf[cur[w]] # y
    <3>1. pc' = [pc EXCEPT ![w] = "sector"] /\ call' = call /\ cur' = cur
      BY <1>2, PassSets
    <3>2. PastDup(y)' \subseteq PastDup(y)
      BY <2>3, <3>1 DEF PastDup, Shape, TypeOK, ThreadsOK
    <3> QED
      BY <1>1, <2>1, <3>2
  <2> QED
    BY <2>2, <2>3
<1>3. ASSUME NEW w \in Workers, NEW from, NEW to, Pass(w, from, to),
             from = "sector" \/ to \in {"daily", "dup"}
      PROVE  Cardinality(OpenIn(y)') + Cardinality(PastDup(y)') <= Cardinality(Workers)
  <2>1. /\ OpenIn(y)' = OpenIn(y) /\ pc[w] = from
        /\ pc' = [pc EXCEPT ![w] = to] /\ call' = call /\ cur' = cur
    BY <1>3, PassSets DEF Pass
  <2>2. PastDup(y)' \subseteq PastDup(y)
    BY <1>3, <2>1 DEF PastDup, Shape, TypeOK, ThreadsOK
  <2> QED
    BY <1>1, <2>1, <2>2
<1>4. ASSUME NEW w \in Workers, OpenPosition(w)
      PROVE  Cardinality(OpenIn(y)') + Cardinality(PastDup(y)') <= Cardinality(Workers)
  <2>1. PastDup(y)' \subseteq PastDup(y) \ {w}
    BY <1>4 DEF OpenPosition, NextRow, PastDup, Shape, TypeOK, ThreadsOK
  <2>2. PICK p \in Positions : /\ Open' \subseteq Open \cup {p}
                               /\ state[p] = "free" /\ sigOf' = [sigOf EXCEPT ![p] = cur[w]]
    BY <1>4 DEF OpenPosition, NextRow, Open, Shape, TypeOK, RowsOK
  <2>3. p \notin Open /\ \A q \in Open : sigOf'[q] = sigOf[q]
    BY <2>2 DEF Open, Shape, TypeOK, RowsOK
  <2>4. sigOf'[p] = cur[w]
    BY <2>2 DEF Shape, TypeOK, RowsOK
  <2>5. CASE SymbolOf[cur[w]] = y
    <3>1. w \in PastDup(y)
      BY <1>4, <2>5 DEF OpenPosition, NextRow, PastDup, Shape, Holding, Executing
    <3>2. OpenIn(y)' \subseteq OpenIn(y) \cup {p}
      BY <2>2, <2>3 DEF OpenIn
    <3>3. /\ Cardinality(OpenIn(y)) \in Nat /\ Cardinality(PastDup(y)) \in Nat
          /\ Cardinality(OpenIn(y)') \in Nat /\ Cardinality(PastDup(y)') \in Nat
          /\ Cardinality(OpenIn(y)') + Cardinality(PastDup(y)')
               <= Cardinality(OpenIn(y)) + Cardinality(PastDup(y))
      BY <2>1, <3>1, <3>2, Convert
    <3> QED
      BY <1>0, <3>3
  <2>6. CASE SymbolOf[cur[w]] # y
    <3>1. OpenIn(y)' \subseteq OpenIn(y)
      BY <2>2, <2>3, <2>4, <2>6 DEF OpenIn
    <3> QED
      BY <1>1, <2>1, <3>1
  <2> QED
    BY <2>5, <2>6
<1>5. ASSUME NEW w \in Workers, MarkExecuted(w)
      PROVE  Cardinality(OpenIn(y)') + Cardinality(PastDup(y)') <= Cardinality(Workers)
  <2>1. OpenIn(y)' = OpenIn(y)
    BY <1>5 DEF MarkExecuted, Open, OpenIn, positionVars
  <2>2. PastDup(y)' \subseteq PastDup(y)
    BY <1>5 DEF MarkExecuted, Goto, PastDup, Shape, TypeOK, ThreadsOK
  <2> QED
    BY <1>1, <2>1, <2>2
<1>6. CASE Quiet
  BY <1>1, <1>6, QuietSets
<1> QED
  BY <1>2, <1>3, <1>4, <1>5, <1>6, StepKinds

LEMMA SectorSlotsStep == Shape /\ SectorSlots /\ [Next]_vars => SectorSlots'
<1> SUFFICES ASSUME Shape, SectorSlots, [Next]_vars, MaxPerSector > 0, NEW c \in Sectors
             PROVE  Cardinality(OpenSector(c)') + Cardinality(PastSector(c)')
                      <= MaxPerSector + Cardinality(Workers) - 1
  BY DEF SectorSlots
<1> USE Finite, WorkersCount, CountsAssumption
<1>0. Cardinality(OpenSector(c)) + Cardinality(PastSector(c)) <= MaxPerSector + Cardinality(Workers) - 1
  BY DEF SectorSlots
<1>1. ASSUME OpenSector(c)' \subseteq OpenSector(c), PastSector(c)' \subseteq PastSector(c)
      PROVE  Cardinality(OpenSector(c)') + Cardinality(PastSector(c)')
               <= MaxPerSector + Cardinality(Workers) - 1
  <2>1. /\ Cardinality(OpenSector(c)') <= Cardinality(OpenSector(c))
        /\ Cardinality(PastSector(c)') <= Cardinality(PastSector(c))
    BY <1>1, Shrink
  <2>2. /\ Cardinality(OpenSector(c)) \in Nat /\ Cardinality(OpenSector(c)') \in Nat
        /\ Cardinality(PastSector(c)) \in Nat /\ Cardinality(PastSector(c)') \in Nat
    BY <1>1, Shrink
  <2> QED
    BY <1>0, <2>1, <2>2
<1>2. ASSUME NEW w \in Workers, Pass(w, "sector", "size"), ~SectorFull(SymbolOf[cur[w]])
      PROVE  Cardinality(OpenSector(c)') + Cardinality(PastSector(c)')
               <= MaxPerSector + Cardinality(Workers) - 1
  <2>1. OpenSector(c)' = OpenSector(c)
    BY <1>2, PassSets
  <2>2. CASE SectorOf[SymbolOf[cur[w]]] = c
    <3>1. Cardinality(OpenSector(c)) \in Nat
      BY FS_CardinalityType
    <3>2. c # NoSector
      BY MapsAssumption
    <3>3. ~(Cardinality(OpenSector(c)) >= MaxPerSector)
      BY <1>2, <2>2, <3>2 DEF SectorFull
    <3>4. Cardinality(PastSector(c)') \in Nat /\ Cardinality(PastSector(c)') <= Cardinality(Workers)
      BY <1>2, PassSets, Shrink
    <3> QED
      BY <2>1, <3>1, <3>3, <3>4
  <2>3. CASE SectorOf[SymbolOf[cur[w]]] # c
    <3>1. pc' = [pc EXCEPT ![w] = "size"] /\ call' = call /\ cur' = cur
      BY <1>2, PassSets
    <3>2. PastSector(c)' \subseteq PastSector(c)
      BY <2>3, <3>1 DEF PastSector, Shape, TypeOK, ThreadsOK
    <3> QED
      BY <1>1, <2>1, <3>2
  <2> QED
    BY <2>2, <2>3
<1>3. ASSUME NEW w \in Workers, NEW from, NEW to, Pass(w, from, to), to \in {"daily", "dup", "sector"}
      PROVE  Cardinality(OpenSector(c)') + Cardinality(PastSector(c)')
               <= MaxPerSector + Cardinality(Workers) - 1
  <2>1. OpenSector(c)' = OpenSector(c) /\ pc' = [pc EXCEPT ![w] = to] /\ call' = call /\ cur' = cur
    BY <1>3, PassSets
  <2>2. PastSector(c)' \subseteq PastSector(c)
    BY <1>3, <2>1 DEF PastSector, Shape, TypeOK, ThreadsOK
  <2> QED
    BY <1>1, <2>1, <2>2
<1>4. ASSUME NEW w \in Workers, OpenPosition(w)
      PROVE  Cardinality(OpenSector(c)') + Cardinality(PastSector(c)')
               <= MaxPerSector + Cardinality(Workers) - 1
  <2>1. PastSector(c)' \subseteq PastSector(c) \ {w}
    BY <1>4 DEF OpenPosition, NextRow, PastSector, Shape, TypeOK, ThreadsOK
  <2>2. PICK p \in Positions : /\ Open' \subseteq Open \cup {p}
                               /\ state[p] = "free" /\ sigOf' = [sigOf EXCEPT ![p] = cur[w]]
    BY <1>4 DEF OpenPosition, NextRow, Open, Shape, TypeOK, RowsOK
  <2>3. p \notin Open /\ \A q \in Open : sigOf'[q] = sigOf[q]
    BY <2>2 DEF Open, Shape, TypeOK, RowsOK
  <2>4. sigOf'[p] = cur[w]
    BY <2>2 DEF Shape, TypeOK, RowsOK
  <2>5. CASE SectorOf[SymbolOf[cur[w]]] = c
    <3>1. w \in PastSector(c)
      BY <1>4, <2>5 DEF OpenPosition, NextRow, PastSector, Shape, Holding, Executing
    <3>2. OpenSector(c)' \subseteq OpenSector(c) \cup {p}
      BY <2>2, <2>3 DEF OpenSector
    <3>3. /\ Cardinality(OpenSector(c)) \in Nat /\ Cardinality(PastSector(c)) \in Nat
          /\ Cardinality(OpenSector(c)') \in Nat /\ Cardinality(PastSector(c)') \in Nat
          /\ Cardinality(OpenSector(c)') + Cardinality(PastSector(c)')
               <= Cardinality(OpenSector(c)) + Cardinality(PastSector(c))
      BY <2>1, <3>1, <3>2, Convert
    <3> QED
      BY <1>0, <3>3
  <2>6. CASE SectorOf[SymbolOf[cur[w]]] # c
    <3>1. OpenSector(c)' \subseteq OpenSector(c)
      BY <2>2, <2>3, <2>4, <2>6 DEF OpenSector
    <3> QED
      BY <1>1, <2>1, <3>1
  <2> QED
    BY <2>5, <2>6
<1>5. ASSUME NEW w \in Workers, MarkExecuted(w)
      PROVE  Cardinality(OpenSector(c)') + Cardinality(PastSector(c)')
               <= MaxPerSector + Cardinality(Workers) - 1
  <2>1. OpenSector(c)' = OpenSector(c)
    BY <1>5 DEF MarkExecuted, Open, OpenSector, positionVars
  <2>2. PastSector(c)' \subseteq PastSector(c)
    BY <1>5 DEF MarkExecuted, Goto, PastSector, Shape, TypeOK, ThreadsOK
  <2> QED
    BY <1>1, <2>1, <2>2
<1>6. CASE Quiet
  BY <1>1, <1>6, QuietSets
<1> QED
  BY <1>2, <1>3, <1>4, <1>5, <1>6, StepKinds

LEMMA AllSlotsInit == Init => AllSlots
<1> SUFFICES ASSUME Init PROVE AllSlots
  OBVIOUS
<1> USE FS_EmptySet, WorkersCount, CountsAssumption
<1>1. Open = {} /\ TodayEntries = {} /\ PastMax = {} /\ PastDaily = {}
  BY DEF Init, Open, TodayEntries, PastMax, PastDaily
<1>2. Slots /\ DailySlots
  BY <1>1 DEF Slots, DailySlots
<1>3. ASSUME NEW y \in Symbols PROVE OpenIn(y) = {} /\ PastDup(y) = {}
  BY <1>1 DEF Init, OpenIn, PastDup
<1>4. ASSUME NEW c \in Sectors PROVE OpenSector(c) = {} /\ PastSector(c) = {}
  BY <1>1 DEF Init, OpenSector, PastSector
<1>5. SymbolSlots
  BY <1>3 DEF SymbolSlots
<1>6. SectorSlots
  BY <1>4 DEF SectorSlots
<1> QED
  BY <1>2, <1>5, <1>6 DEF AllSlots

LEMMA AllSlotsInvariant == Spec => [](Shape /\ AllSlots)
<1>1. Shape /\ AllSlots /\ [Next]_vars => AllSlots'
  BY SlotsStep, DailySlotsStep, SymbolSlotsStep, SectorSlotsStep DEF AllSlots
<1> QED
  BY ShapeInit, ShapeStep, AllSlotsInit, <1>1, PTL DEF Spec

\* The number of open positions exceeds max_positions by less than the number of
\* workers, whatever the interleaving of can_open_position and open_position.
THEOREM PositionsStayBounded == Spec => []PositionsBounded
<1>1. Shape /\ AllSlots => PositionsBounded
  <2> SUFFICES ASSUME Slots PROVE PositionsBounded
    BY DEF AllSlots
  <2>1. Cardinality(Open) \in Nat /\ Cardinality(PastMax) \in Nat
    BY Finite, FS_CardinalityType
  <2> QED
    BY <2>1, WorkersCount, CountsAssumption DEF Slots, PositionsBounded
<1> QED
  BY AllSlotsInvariant, <1>1, PTL

\* A symbol is held at most once per worker: what has_open_position guards against
\* happens only when workers overlap.
THEOREM SymbolStaysBounded == Spec => []SymbolBounded
<1>1. Shape /\ AllSlots => SymbolBounded
  <2> SUFFICES ASSUME SymbolSlots, NEW y \in Symbols
               PROVE  Cardinality(OpenIn(y)) <= Cardinality(Workers)
    BY DEF AllSlots, SymbolBounded
  <2>1. Cardinality(OpenIn(y)) \in Nat /\ Cardinality(PastDup(y)) \in Nat
    BY Finite, FS_CardinalityType
  <2> QED
    BY <2>1, WorkersCount DEF SymbolSlots
<1> QED
  BY AllSlotsInvariant, <1>1, PTL

\* What get_today_entry_count counts exceeds max_daily_entries by less than the
\* number of workers.
THEOREM DailyCountStaysBounded == Spec => []DailyCountBounded
<1>1. Shape /\ AllSlots => DailyCountBounded
  <2> SUFFICES ASSUME DailySlots PROVE DailyCountBounded
    BY DEF AllSlots
  <2>1. Cardinality(TodayEntries) \in Nat /\ Cardinality(PastDaily) \in Nat
    BY Finite, FS_CardinalityType
  <2> QED
    BY <2>1, WorkersCount, CountsAssumption DEF DailySlots, DailyCountBounded
<1> QED
  BY AllSlotsInvariant, <1>1, PTL

(***************************************************************************)
(* The flow implements the book of limits.                                 *)
(***************************************************************************)
\* The instance brings a Cardinality of its own, with the same definition.
LEMMA SameCardinality == \A S : Book!Cardinality(S) = Cardinality(S)
  BY DEF Book!Cardinality, Cardinality

\* A row inserted by a worker is an entry of the book: the worker's own
\* reservation is among those counted.
LEMMA OpenIsEnter ==
  ASSUME Shape, AllSlots, NEW w \in Workers, OpenPosition(w)
  PROVE  \E p \in Positions, s \in Signals : Book!Enter(p, s)
<1> DEFINE s == cur[w]
           sym == SymbolOf[s]
           sec == SectorOf[sym]
<1> USE WorkersCount, CountsAssumption, MapsAssumption
<1>1. s \in Signals /\ call[w] = "exec" /\ pc[w] = "open"
  BY DEF OpenPosition, NextRow, Shape, Holding, Executing
<1>2. sym \in Symbols
  BY <1>1
<1>3. Cardinality(Open) < MaxPositions + Cardinality(Workers) - 1
  <2>1. w \in PastMax
    BY <1>1 DEF PastMax
  <2>2. Cardinality(PastMax) \in Nat \ {0} /\ Cardinality(Open) \in Nat
    BY <2>1, Finite, FS_EmptySet, FS_CardinalityType
  <2> QED
    BY <2>2 DEF AllSlots, Slots
<1>4. Cardinality(OpenIn(sym)) < Cardinality(Workers)
  <2>1. w \in PastDup(sym)
    BY <1>1 DEF PastDup
  <2>2. Cardinality(PastDup(sym)) \in Nat \ {0} /\ Cardinality(OpenIn(sym)) \in Nat
    BY <2>1, Finite, FS_EmptySet, FS_CardinalityType
  <2>3. Cardinality(OpenIn(sym)) + Cardinality(PastDup(sym)) <= Cardinality(Workers)
    BY <1>2 DEF AllSlots, SymbolSlots
  <2> QED
    BY <2>2, <2>3
<1>5. ASSUME MaxPerSector > 0, sec \in Sectors
      PROVE  Cardinality(OpenSector(sec)) < MaxPerSector + Cardinality(Workers) - 1
  <2>1. w \in PastSector(sec)
    BY <1>1 DEF PastSector
  <2>2. Cardinality(PastSector(sec)) \in Nat \ {0} /\ Cardinality(OpenSector(sec)) \in Nat
    BY <2>1, Finite, FS_EmptySet, FS_CardinalityType
  <2>3. Cardinality(OpenSector(sec)) + Cardinality(PastSector(sec))
          <= MaxPerSector + Cardinality(Workers) - 1
    BY <1>5 DEF AllSlots, SectorSlots
  <2> QED
    BY <2>2, <2>3
<1>6. /\ Book!Open = Open
      /\ \A y : Book!OpenIn(y) = OpenIn(y)
      /\ \A c : Book!OpenSector(c) = OpenSector(c)
  BY DEF Book!Open, Book!OpenIn, Book!OpenSector, Open, OpenIn, OpenSector
<1>7. PICK p \in Positions : /\ state[p] = "free"
                             /\ state' = [state EXCEPT ![p] = "open"]
                             /\ sigOf' = [sigOf EXCEPT ![p] = s]
  BY DEF OpenPosition, NextRow
<1>8. /\ Cardinality(Book!Open) < MaxPositions + (Cardinality(Workers) - 1)
      /\ Cardinality(Book!OpenIn(sym)) < 1 + (Cardinality(Workers) - 1)
      /\ MaxPerSector > 0 /\ sec \in Sectors
           => Cardinality(Book!OpenSector(sec)) < MaxPerSector + (Cardinality(Workers) - 1)
  <2>1. Cardinality(Book!Open) < MaxPositions + (Cardinality(Workers) - 1)
    <3>1. Cardinality(Open) \in Nat
      BY Finite, FS_CardinalityType
    <3> QED
      BY <1>3, <1>6, <3>1
  <2>2. Cardinality(Book!OpenIn(sym)) < 1 + (Cardinality(Workers) - 1)
    <3>1. Cardinality(OpenIn(sym)) \in Nat /\ Book!OpenIn(sym) = OpenIn(sym)
      BY <1>6, Finite, FS_CardinalityType
    <3> QED
      BY <1>4, <3>1
  <2>3. ASSUME MaxPerSector > 0, sec \in Sectors
        PROVE  Cardinality(Book!OpenSector(sec)) < MaxPerSector + (Cardinality(Workers) - 1)
    <3>1. Cardinality(OpenSector(sec)) \in Nat /\ Book!OpenSector(sec) = OpenSector(sec)
      BY <1>6, Finite, FS_CardinalityType
    <3>2. Cardinality(OpenSector(sec)) < MaxPerSector + Cardinality(Workers) - 1
      BY <1>5, <2>3
    <3> QED
      BY <3>1, <3>2
  <2> QED
    BY <2>1, <2>2, <2>3
<1>9. Book!Enter(p, s)
  BY <1>7, <1>8, SameCardinality DEF Book!Enter
<1> QED
  BY <1>1, <1>9

\* Nobody else touches the book but an exit.
LEMMA OthersLeaveBook ==
  ASSUME [Next]_vars
  PROVE  \/ UNCHANGED <<state, sigOf>>
         \/ \E p \in Positions : ClosePosition(p)
         \/ \E w \in Workers : OpenPosition(w)
<1> USE DEF positionVars
<1>1. ASSUME NEW w \in Workers, Validate(w) \/ Approve(w) \/ Sweep(w) \/ AutoStart(w) \/ Fault(w)
      PROVE  UNCHANGED <<state, sigOf>>
  BY <1>1 DEF Validate, CheckMax, CheckDaily, CheckDup, CheckSector, RefuseOther, Check, Approve,
       Sweep, Pass1, AutoApprove, AutoDrop, AutoEnd, AutoStart, Fault
<1>2. ASSUME NEW w \in Workers, Execute(w)
      PROVE  UNCHANGED <<state, sigOf>> \/ OpenPosition(w)
  BY <1>2 DEF Execute, Size, InsertTrade, MarkExecuted, PlaceOrder, UndoApproval
<1>3. ASSUME NEW s \in Signals,
             InsertSignal(s) \/ ApproveRequest(s) \/ RejectRequest(s) \/ RevertToPending(s)
      PROVE  UNCHANGED <<state, sigOf>>
  BY <1>3 DEF InsertSignal, ApproveRequest, RejectRequest, RevertToPending
<1>4. ASSUME ExpireSignals \/ ToggleHedge \/ NextDay \/ Restart \/ UNCHANGED vars
      PROVE  UNCHANGED <<state, sigOf>>
  BY <1>4 DEF ExpireSignals, ToggleHedge, NextDay, Restart, vars
<1> QED
  BY <1>1, <1>2, <1>3, <1>4 DEF Next, Environment, Step

\* Every behaviour of the two callers, with faults, restarts and reverts, is one of
\* the book with a slack of all workers but one; with a single worker the position,
\* duplicate and sector limits hold exactly.
THEOREM FlowImplementsBook == Spec => BookSpec
<1>1. Init => Book!Init
  BY DEF Init, Book!Init
<1>2. Shape /\ AllSlots /\ [Next]_vars => [Book!Next]_<<state, sigOf>>
  <2> SUFFICES ASSUME Shape, AllSlots, [Next]_vars
               PROVE  Book!Next \/ UNCHANGED <<state, sigOf>>
    OBVIOUS
  <2>1. ASSUME NEW p \in Positions, ClosePosition(p) PROVE Book!Next
    BY <2>1 DEF ClosePosition, Book!Next, Book!Exit
  <2>2. ASSUME NEW w \in Workers, OpenPosition(w) PROVE Book!Next
    BY <2>2, OpenIsEnter DEF Book!Next
  <2> QED
    BY <2>1, <2>2, OthersLeaveBook
<1> QED
  BY AllSlotsInvariant, <1>1, <1>2, PTL DEF Spec, BookSpec, Book!Spec

(***************************************************************************)
(* The records.  What a worker holds between open_position and the broker  *)
(* order is a row that exists, carries its signal and, from                *)
(* mark_signal_executed on, has its BUY in the trade log; no row changes   *)
(* its signal once it is taken.                                            *)
(***************************************************************************)
Recording == {"trade", "mark", "order"}

HeldRows ==
  \A w \in Workers :
    /\ pc[w] \in Recording => state[pid[w]] # "free" /\ sigOf[pid[w]] = cur[w]
    /\ pc[w] \in {"mark", "order"} => pid[w] \in bought
LoggedRows == \A p \in bought : state[p] # "free"

Backing == HeldRows /\ LoggedRows /\ OrderBacked /\ ExecutedBacked

\* A step that starts no recording, touches no row and executes no signal.
Resting ==
  /\ \A w \in Workers : pc'[w] \in Recording =>
       pc[w] = pc'[w] /\ pid'[w] = pid[w] /\ cur'[w] = cur[w]
  /\ \A s \in Signals : status'[s] = "executed" => status[s] = "executed" /\ link'[s] = link[s]
  /\ UNCHANGED <<sigOf, bought>>
  /\ \A p \in Positions : state[p] # "free" => state'[p] # "free"

LEMMA RestingKeepsBacking ==
  ASSUME Shape, Backing, Resting, UNCHANGED ordered PROVE Backing'
<1> USE DEF Shape, TypeOK, Resting, Backing
<1>1. HeldRows'
  BY DEF HeldRows, Recording, Holding
<1>2. LoggedRows'
  BY DEF LoggedRows, RowsOK
<1>3. OrderBacked'
  BY DEF OrderBacked, RowsOK
<1>4. ExecutedBacked'
  BY DEF ExecutedBacked
<1> QED
  BY <1>1, <1>2, <1>3, <1>4

LEMMA RestingSteps ==
  ASSUME Shape, [Next]_vars
  PROVE  \/ Resting /\ UNCHANGED ordered
         \/ \E w \in Workers :
              OpenPosition(w) \/ InsertTrade(w) \/ MarkExecuted(w) \/ PlaceOrder(w)
<1> USE DEF Shape, TypeOK, signalVars, positionVars, workerVars
<1> DEFINE Still == Resting /\ UNCHANGED ordered
<1>a. ASSUME NEW w \in Workers, Leave(w) \/ Refuse(w) \/ (\E to \in Steps \ Recording : Goto(w, to))
      PROVE  \A u \in Workers : pc'[u] \in Recording =>
               pc[u] = pc'[u] /\ pid'[u] = pid[u] /\ cur'[u] = cur[u]
  BY <1>a DEF Refuse, Leave, Goto, Recording, ThreadsOK
<1>b. ASSUME NEW s \in Signals, NEW from, NEW to, SetStatus(s, from, to), to # "executed"
      PROVE  \A r \in Signals : status'[r] = "executed" => status[r] = "executed"
  BY <1>b DEF SetStatus, SignalsOK
<1>1. ASSUME NEW s \in Signals, InsertSignal(s) \/ RejectRequest(s) \/ RevertToPending(s) PROVE Still
  BY <1>1, <1>b DEF InsertSignal, RejectRequest, RejectRow, RevertToPending, Resting, SignalsOK
<1>2. ASSUME NEW s \in Signals, ApproveRequest(s) PROVE Still
  BY <1>2 DEF ApproveRequest, Resting, Recording, ThreadsOK
<1>3. ASSUME ExpireSignals \/ ToggleHedge \/ NextDay \/ UNCHANGED vars PROVE Still
  BY <1>3 DEF ExpireSignals, ToggleHedge, NextDay, vars, Resting, SignalsOK
<1>4. ASSUME Restart PROVE Still
  BY <1>4 DEF Restart, Resting, Recording
<1>5. ASSUME NEW p \in Positions, ClosePosition(p) PROVE Still
  BY <1>5 DEF ClosePosition, Resting, RowsOK
<1>6. ASSUME NEW w \in Workers, CheckMax(w) \/ CheckDaily(w) \/ CheckDup(w) \/ RefuseOther(w) \/ Fault(w)
      PROVE  Still
  BY <1>6, <1>a DEF CheckMax, CheckDaily, CheckDup, Check, RefuseOther, Fault, Resting, Recording
<1>7. ASSUME NEW w \in Workers, CheckSector(w) PROVE Still
  <2>1. CASE Refuse(w) \/ Goto(w, "size") \/ Goto(w, "approve")
    BY <1>7, <2>1, <1>a DEF CheckSector, Resting, Recording
  <2>2. CASE /\ pc' = [pc EXCEPT ![w] = "pass1"] /\ cur' = [cur EXCEPT ![w] = NoSignal]
             /\ UNCHANGED pid
    BY <1>7, <2>2 DEF CheckSector, Resting, Recording, ThreadsOK
  <2> QED
    BY <1>7, <2>1, <2>2 DEF CheckSector
<1>8. ASSUME NEW w \in Workers, Approve(w) PROVE Still
  BY <1>8, <1>b DEF Approve, ApproveRow, Resting, Recording, ThreadsOK, Holding
<1>9. ASSUME NEW w \in Workers, Pass1(w) \/ AutoEnd(w) \/ AutoStart(w) PROVE Still
  BY <1>9 DEF Pass1, AutoEnd, AutoStart, Goto, Resting, Recording, ThreadsOK
<1>10. ASSUME NEW w \in Workers, AutoApprove(w) PROVE Still
  BY <1>10, <1>b DEF AutoApprove, ApproveRow, Resting, Recording, ThreadsOK
<1>11. ASSUME NEW w \in Workers, AutoDrop(w) PROVE Still
  <2>1. \A r \in Signals : status'[r] = "executed" => status[r] = "executed"
    BY <1>11, <1>b DEF AutoDrop, RejectRow, ThreadsOK
  <2> QED
    BY <1>11, <2>1 DEF AutoDrop, Resting
<1>12. ASSUME NEW w \in Workers, Size(w) PROVE Still
  <2>1. CASE Refuse(w)
    BY <1>12, <2>1, <1>a DEF Size, Resting
  <2>2. CASE pc' = [pc EXCEPT ![w] = "open"] /\ UNCHANGED <<cur, pid>>
    BY <1>12, <2>2 DEF Size, Resting, Recording, ThreadsOK
  <2> QED
    BY <1>12, <2>1, <2>2 DEF Size
<1>13. ASSUME NEW w \in Workers, UndoApproval(w) PROVE Still
  BY <1>13, <1>a, <1>b DEF UndoApproval, RejectRow, Resting, Holding
<1>14. ASSUME NEW w \in Workers, Step(w) \/ AutoStart(w) \/ Fault(w)
       PROVE  Still \/ OpenPosition(w) \/ InsertTrade(w) \/ MarkExecuted(w) \/ PlaceOrder(w)
  BY <1>14, <1>6, <1>7, <1>8, <1>9, <1>10, <1>11, <1>12, <1>13
     DEF Step, Validate, Sweep, Execute
<1>15. ASSUME Environment PROVE Still
  BY <1>15, <1>1, <1>2, <1>3, <1>4, <1>5 DEF Environment
<1> QED
  BY <1>3, <1>14, <1>15 DEF Next

LEMMA BackingStep == Shape /\ Backing /\ [Next]_vars => Backing'
<1> SUFFICES ASSUME Shape, Backing, [Next]_vars PROVE Backing'
  OBVIOUS
<1> USE DEF Shape, TypeOK, Backing, signalVars, positionVars
<1>1. ASSUME NEW w \in Workers, OpenPosition(w) PROVE Backing'
  <2>1. PICK p \in Positions : /\ state[p] = "free"
                               /\ state' = [state EXCEPT ![p] = "open"]
                               /\ sigOf' = [sigOf EXCEPT ![p] = cur[w]]
                               /\ pid' = [pid EXCEPT ![w] = p]
    BY <1>1 DEF OpenPosition, NextRow
  <2>2. p \notin bought
    BY <2>1 DEF LoggedRows
  <2>3. HeldRows'
    BY <1>1, <2>1, <2>2 DEF OpenPosition, NextRow, HeldRows, Recording, Holding, ThreadsOK, RowsOK
  <2>4. LoggedRows' /\ OrderBacked'
    BY <1>1, <2>1, <2>2 DEF OpenPosition, NextRow, LoggedRows, OrderBacked, RowsOK
  <2>5. ExecutedBacked'
    BY <1>1, <2>1, <2>2 DEF OpenPosition, NextRow, ExecutedBacked, RowsOK, SignalsOK
  <2> QED
    BY <2>3, <2>4, <2>5
<1>2. ASSUME NEW w \in Workers, InsertTrade(w) PROVE Backing'
  <2>1. HeldRows'
    BY <1>2 DEF InsertTrade, Goto, HeldRows, Recording, ThreadsOK
  <2>2. LoggedRows' /\ OrderBacked'
    BY <1>2 DEF InsertTrade, LoggedRows, OrderBacked, HeldRows, Recording
  <2>3. ExecutedBacked'
    BY <1>2 DEF InsertTrade, ExecutedBacked
  <2> QED
    BY <2>1, <2>2, <2>3
<1>3. ASSUME NEW w \in Workers, MarkExecuted(w) PROVE Backing'
  <2>1. /\ pid[w] \in bought /\ sigOf[pid[w]] = cur[w]
        /\ cur[w] \in Signals /\ pid[w] \in Positions
    BY <1>3 DEF MarkExecuted, HeldRows, Recording, Holding
  <2>2. HeldRows'
    BY <1>3 DEF MarkExecuted, Goto, HeldRows, Recording, ThreadsOK
  <2>3. LoggedRows' /\ OrderBacked'
    BY <1>3 DEF MarkExecuted, LoggedRows, OrderBacked
  <2>4. ExecutedBacked'
    <3> SUFFICES ASSUME NEW s \in Signals, status'[s] = "executed"
                 PROVE  link'[s] \in bought /\ sigOf[link'[s]] = s
      BY <1>3 DEF MarkExecuted, ExecutedBacked
    <3>1. CASE status[cur[w]] = "approved" /\ s = cur[w]
      BY <1>3, <2>1, <3>1 DEF MarkExecuted, SignalsOK
    <3>2. CASE status[cur[w]] # "approved" \/ s # cur[w]
      <4>1. status[s] = "executed" /\ link'[s] = link[s]
        BY <1>3, <2>1, <3>2 DEF MarkExecuted, SetStatus, SignalsOK
      <4> QED
        BY <4>1 DEF ExecutedBacked
    <3> QED
      BY <3>1, <3>2
  <2> QED
    BY <2>2, <2>3, <2>4
<1>4. ASSUME NEW w \in Workers, PlaceOrder(w) PROVE Backing'
  <2>1. pid[w] \in bought /\ state[pid[w]] # "free"
    BY <1>4 DEF PlaceOrder, HeldRows, Recording
  <2>2. HeldRows'
    BY <1>4 DEF PlaceOrder, Leave, HeldRows, Recording, ThreadsOK
  <2>3. LoggedRows' /\ OrderBacked'
    BY <1>4, <2>1 DEF PlaceOrder, LoggedRows, OrderBacked
  <2>4. ExecutedBacked'
    BY <1>4 DEF PlaceOrder, ExecutedBacked
  <2> QED
    BY <2>2, <2>3, <2>4
<1> QED
  BY <1>1, <1>2, <1>3, <1>4, RestingSteps, RestingKeepsBacking

LEMMA BackingInit == Init => Backing
  BY DEF Init, Backing, HeldRows, LoggedRows, OrderBacked, ExecutedBacked, Recording

LEMMA BackingInvariant == Spec => [](Shape /\ Backing)
  BY ShapeInit, ShapeStep, BackingInit, BackingStep, PTL DEF Spec

\* An executed signal points at a row opened for it whose BUY is logged: neither two
\* workers racing on it, nor a crash, nor a revert can break the link.
THEOREM ExecutedStaysBacked == Spec => []ExecutedBacked
<1>1. Shape /\ Backing => ExecutedBacked
  BY DEF Backing
<1> QED
  BY BackingInvariant, <1>1, PTL

(***************************************************************************)
(* What is under way.  A row that lacks its BUY, or an approved signal     *)
(* that is not settled, has a worker at it, which lets go only by the step *)
(* that records, executes or rejects, or else by a fault: then the history *)
(* has the entry, for good.                                                *)
(***************************************************************************)
LEMMA HistoryGrows == [Next]_vars => cutOff \subseteq cutOff'
<1> SUFFICES ASSUME [Next]_vars PROVE cutOff \subseteq cutOff'
  OBVIOUS
<1> USE DEF signalVars
<1>1. CASE Environment \/ UNCHANGED vars
  BY <1>1 DEF Environment, vars, InsertSignal, ApproveRequest, RejectRequest, RevertToPending,
     ClosePosition, ExpireSignals, ToggleHedge, NextDay, Restart
<1>2. ASSUME NEW w \in Workers, Validate(w) \/ Approve(w) \/ Sweep(w) \/ AutoStart(w) \/ Fault(w)
      PROVE  cutOff \subseteq cutOff'
  BY <1>2 DEF Validate, CheckMax, CheckDaily, CheckDup, Check, CheckSector, RefuseOther, Approve, Sweep,
     Pass1, AutoApprove, AutoDrop, AutoEnd, AutoStart, Fault
<1>3. ASSUME NEW w \in Workers, Execute(w) PROVE cutOff \subseteq cutOff'
  BY <1>3 DEF Execute, Size, OpenPosition, InsertTrade, MarkExecuted, PlaceOrder, UndoApproval
<1> QED
  BY <1>1, <1>2, <1>3 DEF Next, Step

\* A fault or a restart that takes a worker out of an entry leaves it in the history.
LEMMA FaultRemembered ==
  ASSUME NEW w \in Workers, Fault(w) \/ Restart, call[w] = "exec", pc[w] # "order"
  PROVE  <<cur[w], pid[w]>> \in cutOff'
  BY DEF Fault, Restart, Entering

LEMMA TradeKept ==
  ASSUME Shape, [Next]_vars, NEW w \in Workers, pc[w] = "trade"
  PROVE  \/ pc'[w] = "trade" /\ pid'[w] = pid[w]
         \/ pid[w] \in bought'
         \/ <<cur[w], pid[w]>> \in cutOff'
<1> USE DEF Shape, TypeOK, ThreadsOK
<1>1. CASE \E v \in Workers : v # w /\ (Validate(v) \/ Approve(v) \/ Sweep(v) \/ AutoStart(v))
  BY <1>1 DEF Validate, Approve, Sweep, AutoStart, CheckMax, CheckDaily, CheckDup, Check, CheckSector,
     RefuseOther, Refuse, Pass1, AutoApprove, AutoDrop, AutoEnd, Goto, Leave
<1>2. CASE \E v \in Workers : v # w /\ (Execute(v) \/ Fault(v))
  BY <1>2 DEF Execute, Size, OpenPosition, InsertTrade, MarkExecuted, PlaceOrder, UndoApproval, Refuse,
     Goto, Leave, Fault
<1>3. CASE Step(w) \/ AutoStart(w)
  BY <1>3 DEF Step, Validate, Approve, Sweep, Execute, AutoStart, CheckMax, CheckDaily, CheckDup, Check,
     CheckSector, RefuseOther, Pass1, AutoApprove, AutoDrop, AutoEnd, Size, OpenPosition, InsertTrade,
     MarkExecuted, PlaceOrder, UndoApproval
<1>4. CASE Fault(w) \/ Restart
  BY <1>4, FaultRemembered DEF Holding, Executing
<1>5. CASE (Environment /\ ~Restart) \/ UNCHANGED vars
  BY <1>5 DEF Environment, vars, workerVars, InsertSignal, ApproveRequest, RejectRequest, RevertToPending,
     ClosePosition, ExpireSignals, ToggleHedge, NextDay
<1> QED
  BY <1>1, <1>2, <1>3, <1>4, <1>5 DEF Next, Step

\* A row is taken by open_position only.
LEMMA RowsTaken ==
  ASSUME Shape, [Next]_vars
  PROVE  \/ \A p \in Positions : state'[p] # "free" => state[p] # "free"
         \/ \E w \in Workers : OpenPosition(w)
<1> USE DEF Shape, TypeOK, RowsOK
<1>1. CASE \E p \in Positions : ClosePosition(p)
  BY <1>1 DEF ClosePosition
<1>2. CASE ~\E p \in Positions : ClosePosition(p)
  BY <1>2 DEF Next, Environment, Step, Validate, Sweep, Execute, positionVars, vars, InsertSignal,
     ApproveRequest, RejectRequest, RevertToPending, ExpireSignals, ToggleHedge, NextDay, Restart,
     Approve, CheckMax, CheckDaily, CheckDup, Check, CheckSector, RefuseOther, Pass1, AutoApprove,
     AutoDrop, AutoEnd, AutoStart, Size, InsertTrade, MarkExecuted, PlaceOrder, UndoApproval, Fault
<1> QED
  BY <1>1, <1>2

LEMMA RecordedStep == Shape /\ RowsRecorded /\ [Next]_vars => RowsRecorded'
<1> SUFFICES ASSUME Shape, RowsRecorded, [Next]_vars, NEW p \in Positions, state'[p] # "free"
             PROVE  \/ p \in bought'
                    \/ \E w \in Workers : pc'[w] = "trade" /\ pid'[w] = p
                    \/ \E entry \in cutOff' : entry[2] = p
  BY DEF RowsRecorded
<1>1. CASE p \in bought
  <2>1. bought \subseteq bought'
    <3>1. CASE Resting
      BY <3>1 DEF Resting
    <3>2. CASE \E w \in Workers : OpenPosition(w) \/ InsertTrade(w) \/ MarkExecuted(w) \/ PlaceOrder(w)
      BY <3>2 DEF OpenPosition, InsertTrade, MarkExecuted, PlaceOrder, positionVars
    <3> QED
      BY <3>1, <3>2, RestingSteps
  <2> QED
    BY <1>1, <2>1
<1>2. ASSUME NEW w \in Workers, pc[w] = "trade", pid[w] = p
      PROVE  \/ p \in bought'
             \/ pc'[w] = "trade" /\ pid'[w] = p
             \/ \E entry \in cutOff' : entry[2] = p
  BY <1>2, TradeKept
<1>3. CASE state[p] = "free"
  <2>1. PICK w \in Workers : OpenPosition(w)
    BY <1>3, RowsTaken
  <2>2. pc'[w] = "trade" /\ pid'[w] = p
    BY <1>3, <2>1 DEF OpenPosition, Shape, TypeOK, ThreadsOK, RowsOK
  <2> QED
    BY <2>2
<1>4. ASSUME NEW entry \in cutOff, entry[2] = p PROVE \E e \in cutOff' : e[2] = p
  BY <1>4, HistoryGrows
<1> QED
  BY <1>1, <1>2, <1>3, <1>4 DEF RowsRecorded

\* The broker hears only of what is recorded in full, and whatever two workers, the
\* user and the clock do, a row without its BUY has a worker about to insert it, or
\* an exception or a restart has cut its entry off: those alone leave one behind.
THEOREM EntriesStayLogged == Spec => []EntriesLogged
<1>1. Init => RowsRecorded
  BY DEF Init, RowsRecorded
<1>2. Backing /\ RowsRecorded => EntriesLogged
  BY DEF Backing, EntriesLogged
<1> QED
  BY <1>1, <1>2, BackingInvariant, RecordedStep, PTL DEF Spec

\* The calls after which an approved signal is executed or rejected.
Settling == Steps \ {"order"}
Settles(w, s) == cur[w] = s /\ call[w] = "exec" /\ pc[w] \in Settling
Settled ==
  \A s \in Signals : status[s] = "approved" =>
    (\E w \in Workers : Settles(w, s)) \/ \E entry \in cutOff : entry[1] = s

LEMMA SettlerStays ==
  ASSUME Shape, [Next]_vars, NEW w \in Workers, NEW s \in Signals, Settles(w, s)
  PROVE  Settles(w, s)' \/ status'[s] # "approved" \/ \E entry \in cutOff' : entry[1] = s
<1> USE DEF Shape, TypeOK, ThreadsOK, SignalsOK, Settles, Settling
<1>1. CASE \E v \in Workers : v # w /\ (Validate(v) \/ Approve(v) \/ Sweep(v) \/ AutoStart(v))
  BY <1>1 DEF Validate, Approve, Sweep, AutoStart, CheckMax, CheckDaily, CheckDup, Check, CheckSector,
     RefuseOther, Refuse, Pass1, AutoApprove, AutoDrop, AutoEnd, Goto, Leave
<1>2. CASE \E v \in Workers : v # w /\ (Execute(v) \/ Fault(v))
  BY <1>2 DEF Execute, Size, OpenPosition, InsertTrade, MarkExecuted, PlaceOrder, UndoApproval, Refuse,
     Goto, Leave, Fault
<1>3. CASE Validate(w)
  BY <1>3 DEF Validate, CheckMax, CheckDaily, CheckDup, Check, CheckSector, RefuseOther, Refuse, Goto
<1>4. CASE Size(w) \/ OpenPosition(w) \/ InsertTrade(w)
  BY <1>4 DEF Size, OpenPosition, InsertTrade, Refuse, Goto
<1>5. CASE MarkExecuted(w) \/ UndoApproval(w)
  BY <1>5 DEF MarkExecuted, UndoApproval, RejectRow, SetStatus
<1>6. CASE Approve(w) \/ Sweep(w) \/ AutoStart(w) \/ PlaceOrder(w)
  BY <1>6 DEF Approve, Sweep, AutoStart, PlaceOrder, Pass1, AutoApprove, AutoDrop, AutoEnd
<1>7. CASE Fault(w) \/ Restart
  BY <1>7, FaultRemembered
<1>8. CASE (Environment /\ ~Restart) \/ UNCHANGED vars
  <2>1. CASE \E r \in Signals : ApproveRequest(r)
    BY <2>1 DEF ApproveRequest
  <2>2. CASE ~\E r \in Signals : ApproveRequest(r)
    BY <1>8, <2>2 DEF Environment, vars, workerVars, InsertSignal, RejectRequest, RevertToPending,
       ClosePosition, ExpireSignals, ToggleHedge, NextDay
  <2> QED
    BY <2>1, <2>2
<1> QED
  BY <1>1, <1>2, <1>3, <1>4, <1>5, <1>6, <1>7, <1>8 DEF Next, Step, Execute

\* The approving UPDATE and the worker's turn to execute_entry are one step.
LEMMA ApprovalTaken ==
  ASSUME Shape, [Next]_vars, NEW s \in Signals, status[s] # "approved", status'[s] = "approved"
  PROVE  \E w \in Workers : Settles(w, s)'
<1> USE DEF Shape, TypeOK, ThreadsOK, SignalsOK
<1>1. ASSUME NEW w \in Workers, Approve(w) \/ AutoApprove(w) PROVE Settles(w, s)'
  BY <1>1 DEF Approve, AutoApprove, ApproveRow, SetStatus, Settles, Settling
<1>2. ASSUME NEW r \in Signals, NEW from, NEW to, SetStatus(r, from, to), to # "approved" PROVE FALSE
  BY <1>2 DEF SetStatus
<1>3. CASE Environment \/ UNCHANGED vars
  BY <1>2, <1>3 DEF Environment, vars, signalVars, InsertSignal, ApproveRequest, RejectRequest, RejectRow,
     RevertToPending, ClosePosition, ExpireSignals, ToggleHedge, NextDay, Restart
<1>4. ASSUME NEW w \in Workers, Validate(w) \/ Pass1(w) \/ AutoEnd(w) \/ AutoStart(w) \/ Size(w)
                                \/ OpenPosition(w) \/ InsertTrade(w) \/ PlaceOrder(w) \/ Fault(w)
      PROVE FALSE
  BY <1>4 DEF Validate, CheckMax, CheckDaily, CheckDup, Check, CheckSector, RefuseOther, Pass1, AutoEnd,
     AutoStart, Size, OpenPosition, InsertTrade, PlaceOrder, Fault, signalVars
<1>5. ASSUME NEW w \in Workers, MarkExecuted(w) \/ UndoApproval(w) PROVE FALSE
  BY <1>2, <1>5 DEF MarkExecuted, UndoApproval, RejectRow, Holding
<1>6. ASSUME NEW w \in Workers, AutoDrop(w) PROVE FALSE
  BY <1>2, <1>6 DEF AutoDrop, RejectRow
<1> QED
  BY <1>1, <1>3, <1>4, <1>5, <1>6 DEF Next, Step, Sweep, Execute

\* An approved signal has a worker that will settle it, also when two workers approved
\* it, a sweep took it up from an old list or a user put it back: only an exception or
\* a restart in the middle of an entry of it can leave it approved.
THEOREM ApprovedStaysOwned == Spec => []ApprovedOwned
<1>1. Init => Settled
  BY DEF Init, Settled
<1>2. Shape /\ Settled /\ [Next]_vars => Settled'
  BY SettlerStays, ApprovalTaken, HistoryGrows DEF Settled
<1>3. Settled => ApprovedOwned
  BY DEF Settled, ApprovedOwned, Settles
<1> QED
  BY <1>1, <1>2, <1>3, ShapeInit, ShapeStep, PTL DEF Spec

(***************************************************************************)
(* One worker.  While the endpoint and the sweep take turns on one thread  *)
(* and nobody presses Revert, a signal is taken up once: what is planned   *)
(* or at hand is disjoint and has no row, a signal with a row is neither   *)
(* pending nor planned.                                                    *)
(***************************************************************************)
Alone == Workers = {Loop}

Plans ==
  /\ todo[Loop] \cap cands[Loop] = {} /\ cur[Loop] \notin todo[Loop] \cup cands[Loop]
  /\ Loop \notin auto => todo[Loop] = {} /\ cands[Loop] = {}
  /\ pc[Loop] \in {"idle", "approve"} => Loop \notin auto
  /\ pc[Loop] \in {"pass1", "pass3"} => Loop \in auto
  /\ pc[Loop] \notin Steps => cur[Loop] = NoSignal
  /\ pc[Loop] = "pass3" \/ call[Loop] = "exec" => todo[Loop] = {}
  /\ call[Loop] = "exec" => pc[Loop] \in Steps /\ status[cur[Loop]] \notin {"absent", "pending"}
Known ==
  \A s \in Signals : s \in todo[Loop] \cup cands[Loop] \/ cur[Loop] = s => status[s] # "absent"
Taken ==
  \A p \in Positions :
    /\ state[p] = "free" => sigOf[p] = NoSignal
    /\ state[p] # "free" =>
         /\ sigOf[p] \in Signals /\ status[sigOf[p]] \notin {"absent", "pending"}
         /\ sigOf[p] \notin todo[Loop] \cup cands[Loop]
         /\ cur[Loop] = sigOf[p] => pc[Loop] \in Recording
Once == Plans /\ Known /\ Taken /\ OneEntryPerSignal

\* A signal that was inserted stays, and is never pending again.
Forward ==
  \A s \in Signals :
    /\ status'[s] = "absent" => status[s] = "absent"
    /\ status'[s] = "pending" => status[s] \in {"absent", "pending"}

LEMMA ForwardStep ==
  ASSUME Shape, [Next]_vars, ~Reverts
  PROVE  Forward
<1> USE DEF Shape, TypeOK, SignalsOK, Forward
<1>1. ASSUME NEW r \in Signals, NEW from, NEW to, SetStatus(r, from, to), to \notin {"absent", "pending"}
      PROVE  Forward
  BY <1>1 DEF SetStatus
<1>2. CASE Environment \/ UNCHANGED vars
  <2>1. CASE \E s \in Signals : InsertSignal(s)
    BY <2>1 DEF InsertSignal
  <2>2. CASE ExpireSignals
    BY <2>2 DEF ExpireSignals
  <2>3. CASE \E s \in Signals : RejectRequest(s)
    BY <1>1, <2>3 DEF RejectRequest, RejectRow
  <2>4. CASE UNCHANGED status
    BY <2>4
  <2> QED
    BY <1>2, <2>1, <2>2, <2>3, <2>4 DEF Environment, vars, signalVars, ApproveRequest, RevertToPending,
       ClosePosition, ToggleHedge, NextDay, Restart
<1>3. ASSUME NEW w \in Workers, Validate(w) \/ Pass1(w) \/ AutoEnd(w) \/ AutoStart(w) \/ Size(w)
                                \/ OpenPosition(w) \/ InsertTrade(w) \/ PlaceOrder(w) \/ Fault(w)
      PROVE  Forward
  <2>1. status' = status
    BY <1>3 DEF Validate, CheckMax, CheckDaily, CheckDup, Check, CheckSector, RefuseOther, Pass1, AutoEnd,
       AutoStart, Size, OpenPosition, InsertTrade, PlaceOrder, Fault, signalVars
  <2> QED
    BY <2>1
<1>4. ASSUME NEW w \in Workers, Approve(w) \/ MarkExecuted(w) \/ UndoApproval(w) PROVE Forward
  <2>1. cur[w] \in Signals
    BY <1>4 DEF Approve, MarkExecuted, UndoApproval, Holding
  <2> QED
    BY <1>1, <1>4, <2>1 DEF Approve, MarkExecuted, UndoApproval, ApproveRow, RejectRow
<1>5. ASSUME NEW w \in Workers, AutoApprove(w) \/ AutoDrop(w) PROVE Forward
  <2>1. cands[w] \subseteq Signals
    BY DEF ThreadsOK
  <2>2. CASE UNCHANGED status
    BY <2>2
  <2> QED
    BY <1>1, <1>5, <2>1, <2>2 DEF AutoApprove, AutoDrop, ApproveRow, RejectRow
<1> QED
  BY <1>2, <1>3, <1>4, <1>5 DEF Next, Step, Sweep, Execute

\* The worker goes on with the signal at hand, drops it, or forgets everything.
Proceeds ==
  /\ UNCHANGED <<call, auto, cur, todo, cands>>
  /\ pc[Loop] \in Steps /\ pc'[Loop] \in Steps
  /\ pc[Loop] \in Recording => pc'[Loop] \in Recording
  /\ pc'[Loop] = "approve" => Loop \notin auto
Drops == pc[Loop] \in Steps /\ Leave(Loop)

\* A step that takes no row and nothing new in hand keeps the record straight.
LEMMA KeepsOnce ==
  ASSUME Shape, Once, Forward, UNCHANGED sigOf,
         \A p \in Positions : state'[p] = "free" <=> state[p] = "free",
         \/ Proceeds \/ Drops \/ UNCHANGED workerVars \/ Restart
  PROVE  Once'
<1> USE DEF Shape, TypeOK, ThreadsOK, SignalsOK, Once
<1>t. Loop \in Workers /\ NoSignal \notin Signals
  BY WorkersAssumption, SignalsAssumption
<1>1. OneEntryPerSignal'
  BY DEF OneEntryPerSignal
<1>2. ASSUME Proceeds \/ UNCHANGED workerVars PROVE (Plans /\ Known /\ Taken)'
  <2>1. /\ cur'[Loop] = cur[Loop] /\ todo'[Loop] = todo[Loop] /\ cands'[Loop] = cands[Loop]
        /\ call'[Loop] = call[Loop] /\ auto' = auto
        /\ pc'[Loop] = pc[Loop] \/ (pc[Loop] \in Steps /\ pc'[Loop] \in Steps)
        /\ pc[Loop] \in Recording => pc'[Loop] \in Recording
        /\ pc'[Loop] = "approve" => Loop \notin auto
    BY <1>2 DEF Proceeds, workerVars, Once, Plans
  <2>2. call[Loop] = "exec" => cur[Loop] \in Signals
    BY <1>t DEF Plans, Holding
  <2>3. Plans'
    BY <2>1, <2>2 DEF Plans, Forward
  <2>4. Known'
    BY <2>1 DEF Known, Forward
  <2>5. Taken'
    BY <2>1 DEF Taken, Forward
  <2> QED
    BY <2>3, <2>4, <2>5
<1>3. ASSUME Drops PROVE (Plans /\ Known /\ Taken)'
  <2>1. /\ cur'[Loop] = NoSignal /\ todo'[Loop] = todo[Loop] /\ cands'[Loop] = cands[Loop]
        /\ call'[Loop] = "pre" /\ auto' = auto
        /\ pc'[Loop] = IF Loop \notin auto THEN "idle" ELSE IF call[Loop] = "pre" THEN "pass1" ELSE "pass3"
    BY <1>t, <1>3 DEF Drops, Leave
  <2>2. todo[Loop] \subseteq Signals /\ cands[Loop] \subseteq Signals /\ call[Loop] \in {"pre", "exec"}
    BY <1>t
  <2>3. Plans'
    BY <1>t, <2>1, <2>2 DEF Plans
  <2>4. Known'
    BY <1>t, <2>1 DEF Known, Forward
  <2>5. Taken'
    BY <1>t, <2>1 DEF Taken, Forward
  <2> QED
    BY <2>3, <2>4, <2>5
<1>4. ASSUME Restart PROVE (Plans /\ Known /\ Taken)'
  <2>1. /\ cur'[Loop] = NoSignal /\ todo'[Loop] = {} /\ cands'[Loop] = {} /\ call'[Loop] = "pre"
        /\ auto' = {} /\ pc'[Loop] = "idle"
    BY <1>t, <1>4 DEF Restart
  <2>2. Taken'
    BY <1>t, <2>1 DEF Taken, Forward
  <2> QED
    BY <1>t, <2>1, <2>2 DEF Plans, Known
<1> QED
  BY <1>1, <1>2, <1>3, <1>4

LEMMA OnceStep ==
  ASSUME Shape, Alone, ~Reverts, Once, [Next]_vars
  PROVE  Once'
<1> USE DEF Shape, TypeOK, ThreadsOK, SignalsOK, RowsOK
<1>t. Loop \in Workers /\ NoSignal \notin Signals /\ \A w \in Workers : w = Loop
  BY WorkersAssumption, SignalsAssumption DEF Alone
<1>f. Forward
  BY ForwardStep
<1>h. /\ pc[Loop] \in Steps => cur[Loop] \in Signals
      /\ pc[Loop] \in Executing => call[Loop] = "exec"
  BY <1>t DEF Holding
<1>k. ASSUME UNCHANGED sigOf, \A p \in Positions : state'[p] = "free" <=> state[p] = "free",
             Proceeds \/ Drops \/ UNCHANGED workerVars \/ Restart
      PROVE  Once'
  BY <1>f, <1>k, KeepsOnce
<1>r. ASSUME pc[Loop] \in Steps \ Recording, Refuse(Loop) PROVE Proceeds \/ Drops
  BY <1>t, <1>r DEF Refuse, Goto, Proceeds, Drops, Recording
\* Steps that take no row: what is in hand and what is planned stay apart.
<1>p. ASSUME UNCHANGED <<state, sigOf>>, Plans', Known',
             todo'[Loop] \cup cands'[Loop] \subseteq todo[Loop] \cup cands[Loop] \cup {cur[Loop]},
             cur[Loop] \in todo'[Loop] \cup cands'[Loop] => pc[Loop] \notin Recording,
             cur'[Loop] \in todo[Loop] \cup cands[Loop] \cup {NoSignal, cur[Loop]},
             cur'[Loop] = cur[Loop] => pc'[Loop] \in Recording \/ pc[Loop] \notin Recording
      PROVE  Once'
  <2>1. ASSUME NEW p \in Positions, state[p] # "free"
        PROVE  /\ sigOf[p] \in Signals /\ status'[sigOf[p]] \notin {"absent", "pending"}
               /\ sigOf[p] \notin todo'[Loop] \cup cands'[Loop]
               /\ cur'[Loop] = sigOf[p] => pc'[Loop] \in Recording
    BY <1>f, <1>p, <1>t, <2>1 DEF Once, Taken, Forward
  <2>2. Taken'
    BY <1>p, <2>1 DEF Once, Taken
  <2> QED
    BY <1>p, <2>2 DEF Once, OneEntryPerSignal
<1>1. CASE Environment \/ UNCHANGED vars
  <2>1. ASSUME NEW s \in Signals, ApproveRequest(s) PROVE Once'
    <3>1. /\ pc[Loop] = "idle" /\ status[s] = "pending" /\ pc'[Loop] = "max" /\ cur'[Loop] = s
          /\ UNCHANGED <<status, state, sigOf, call, auto, todo, cands>>
      BY <1>t, <2>1 DEF ApproveRequest, signalVars, positionVars
    <3>2. todo[Loop] = {} /\ cands[Loop] = {} /\ call[Loop] # "exec" /\ Loop \notin auto
      BY <3>1 DEF Once, Plans
    <3>3. Plans' /\ Known'
      BY <3>1, <3>2 DEF Once, Plans, Known
    <3>4. Taken' /\ OneEntryPerSignal'
      BY <3>1, <3>2 DEF Once, Taken, OneEntryPerSignal
    <3> QED
      BY <3>3, <3>4 DEF Once
  <2>2. CASE Restart
    BY <1>k, <2>2 DEF Restart, positionVars
  <2>3. ASSUME NEW p \in Positions, ClosePosition(p) PROVE Once'
    BY <1>k, <2>3 DEF ClosePosition
  <2>4. ASSUME NEW s \in Signals, InsertSignal(s) \/ RejectRequest(s) PROVE Once'
    BY <1>k, <2>4 DEF InsertSignal, RejectRequest, positionVars
  <2>5. CASE ExpireSignals \/ ToggleHedge \/ NextDay \/ UNCHANGED vars
    BY <1>k, <2>5 DEF ExpireSignals, ToggleHedge, NextDay, vars, positionVars
  <2> QED
    BY <1>1, <2>1, <2>2, <2>3, <2>4, <2>5 DEF Environment, RevertToPending
<1>2. CASE CheckMax(Loop) \/ CheckDaily(Loop) \/ CheckDup(Loop) \/ RefuseOther(Loop)
  <2>1. UNCHANGED <<state, sigOf>>
    BY <1>2 DEF CheckMax, CheckDaily, CheckDup, RefuseOther, Check, positionVars
  <2>2. Proceeds \/ Drops
    BY <1>t, <1>r, <1>2 DEF CheckMax, CheckDaily, CheckDup, RefuseOther, Check, Goto, Proceeds, Recording
  <2> QED
    BY <1>k, <2>1, <2>2
<1>3. CASE CheckSector(Loop)
  <2>1. UNCHANGED <<status, state, sigOf>> /\ pc[Loop] = "sector"
    BY <1>3 DEF CheckSector, signalVars, positionVars
  <2>2. CASE \/ Refuse(Loop) \/ Goto(Loop, "size")
             \/ Loop \notin auto /\ Goto(Loop, "approve")
    BY <1>t, <1>k, <1>r, <2>1, <2>2 DEF Goto, Proceeds, Recording
  <2>3. CASE /\ call[Loop] # "exec" /\ Loop \in auto
             /\ cands' = [cands EXCEPT ![Loop] = @ \cup {cur[Loop]}]
             /\ pc' = [pc EXCEPT ![Loop] = "pass1"]
             /\ cur' = [cur EXCEPT ![Loop] = NoSignal]
             /\ UNCHANGED <<call, auto, todo, pid, qty>>
    <3>1. /\ cands'[Loop] = cands[Loop] \cup {cur[Loop]} /\ pc'[Loop] = "pass1"
          /\ cur'[Loop] = NoSignal /\ todo'[Loop] = todo[Loop] /\ call'[Loop] = call[Loop] /\ auto' = auto
      BY <1>t, <2>3
    <3>2. Plans'
      BY <1>t, <1>h, <2>1, <2>3, <3>1 DEF Once, Plans
    <3>3. Known'
      BY <1>t, <2>1, <3>1 DEF Once, Known
    <3> QED
      BY <1>p, <2>1, <3>1, <3>2, <3>3 DEF Recording
  <2> QED
    BY <1>3, <2>2, <2>3 DEF CheckSector
<1>4. CASE Approve(Loop)
  <2>1. /\ pc[Loop] = "approve" /\ pc'[Loop] = "max" /\ call'[Loop] = "exec"
        /\ UNCHANGED <<auto, cur, todo, cands, state, sigOf>>
    BY <1>t, <1>4 DEF Approve, positionVars
  <2>2. status'[cur[Loop]] \notin {"absent", "pending"}
    BY <1>h, <1>4, <2>1 DEF Approve, ApproveRow, SetStatus, Once, Known
  <2>3. todo[Loop] = {} /\ cands[Loop] = {} /\ Loop \notin auto
    BY <2>1 DEF Once, Plans
  <2>4. Plans'
    BY <1>h, <2>1, <2>2, <2>3 DEF Once, Plans
  <2>5. Known'
    BY <1>f, <2>1 DEF Once, Known, Forward
  <2> QED
    BY <1>p, <2>1, <2>4, <2>5 DEF Recording
<1>5. CASE Sweep(Loop)
  <2>1. /\ UNCHANGED <<state, sigOf>> /\ pc[Loop] \in {"pass1", "pass3"}
        /\ Loop \in auto /\ cur[Loop] = NoSignal /\ call[Loop] = "pre"
        /\ todo[Loop] \cap cands[Loop] = {}
        /\ pc[Loop] = "pass1" \/ todo[Loop] = {}
    BY <1>5, <1>t DEF Sweep, Pass1, AutoApprove, AutoDrop, AutoEnd, positionVars, Once, Plans
  <2>2. CASE Pass1(Loop)
    <3>1. CASE todo[Loop] = {} /\ Goto(Loop, "pass3") /\ status' = status
      <4>1. /\ todo'[Loop] = todo[Loop] /\ cands'[Loop] = cands[Loop] /\ cur'[Loop] = cur[Loop]
            /\ pc'[Loop] = "pass3" /\ call'[Loop] = call[Loop] /\ auto' = auto
        BY <1>t, <3>1 DEF Goto
      <4>2. Plans' /\ Known'
        BY <1>t, <2>1, <3>1, <4>1 DEF Once, Plans, Known
      <4> QED
        BY <1>p, <1>t, <2>1, <2>2, <4>1, <4>2 DEF Pass1, Recording
    <3>2. ASSUME NEW s \in todo[Loop], todo' = [todo EXCEPT ![Loop] = @ \ {s}], status' = status,
                 cur' = [cur EXCEPT ![Loop] = s], pc' = [pc EXCEPT ![Loop] = "max"],
                 UNCHANGED <<call, auto, cands>>
          PROVE  Once'
      <4>1. /\ todo'[Loop] = todo[Loop] \ {s} /\ cands'[Loop] = cands[Loop] /\ cur'[Loop] = s
            /\ pc'[Loop] = "max" /\ call'[Loop] = call[Loop] /\ auto' = auto /\ s \in Signals
        BY <1>t, <3>2
      <4>2. Plans' /\ Known'
        BY <1>t, <2>1, <3>2, <4>1 DEF Once, Plans, Known
      <4> QED
        BY <1>p, <1>t, <2>1, <4>1, <4>2 DEF Recording
    <3> QED
      BY <2>2, <3>1, <3>2 DEF Pass1, signalVars
  <2>3. CASE AutoApprove(Loop)
    <3>1. PICK s \in cands[Loop] : /\ ApproveRow(s) /\ cands' = [cands EXCEPT ![Loop] = @ \ {s}]
                                   /\ cur' = [cur EXCEPT ![Loop] = s]
      BY <2>3 DEF AutoApprove
    <3>2. /\ todo'[Loop] = {} /\ cands'[Loop] = cands[Loop] \ {s} /\ cur'[Loop] = s
          /\ pc'[Loop] = "max" /\ call'[Loop] = "exec" /\ auto' = auto /\ s \in Signals
      BY <1>t, <2>1, <2>3, <3>1 DEF AutoApprove
    <3>3. status'[s] \notin {"absent", "pending"}
      BY <3>1, <3>2 DEF ApproveRow, SetStatus, Once, Known
    <3>4. Plans'
      BY <1>t, <2>1, <3>2, <3>3 DEF Once, Plans
    <3>5. Known'
      BY <1>f, <1>t, <3>2 DEF Once, Known, Forward
    <3> QED
      BY <1>p, <1>t, <2>1, <3>2, <3>4, <3>5 DEF Recording
  <2>4. CASE AutoDrop(Loop) \/ AutoEnd(Loop)
    <3>1. /\ todo'[Loop] = {} /\ cands'[Loop] \subseteq cands[Loop] /\ cur'[Loop] = NoSignal
          /\ call'[Loop] = "pre"
          /\ \/ pc'[Loop] = "pass3" /\ auto' = auto
             \/ pc'[Loop] = "idle" /\ Loop \notin auto' /\ cands'[Loop] = {}
      BY <1>t, <2>1, <2>4 DEF AutoDrop, AutoEnd
    <3>2. Plans'
      BY <1>t, <2>1, <3>1 DEF Once, Plans
    <3>3. Known'
      BY <1>f, <1>t, <3>1 DEF Once, Known, Forward
    <3> QED
      BY <1>p, <1>t, <2>1, <3>1, <3>2, <3>3 DEF Recording
  <2> QED
    BY <1>5, <2>2, <2>3, <2>4 DEF Sweep
<1>6. CASE AutoStart(Loop)
  <2>1. PICK S \in SUBSET {s \in Signals : status[s] = "pending"} : todo' = [todo EXCEPT ![Loop] = S]
    BY <1>6 DEF AutoStart
  <2>2. /\ pc[Loop] = "idle" /\ Loop \in auto' /\ pc'[Loop] = "pass1" /\ todo'[Loop] = S
        /\ UNCHANGED <<status, state, sigOf, call, cur, cands>>
    BY <1>t, <1>6, <2>1 DEF AutoStart, signalVars, positionVars
  <2>3. cands[Loop] = {} /\ call[Loop] # "exec" /\ cur[Loop] = NoSignal
    BY <2>2 DEF Once, Plans
  <2>4. Plans' /\ Known'
    BY <1>t, <2>2, <2>3 DEF Plans, Known
  <2>5. Taken' /\ OneEntryPerSignal'
    BY <1>t, <2>2, <2>3 DEF Once, Taken, OneEntryPerSignal
  <2> QED
    BY <2>4, <2>5 DEF Once
<1>7. CASE OpenPosition(Loop)
  <2>1. PICK p \in Positions : /\ state[p] = "free" /\ state' = [state EXCEPT ![p] = "open"]
                               /\ sigOf' = [sigOf EXCEPT ![p] = cur[Loop]]
    BY <1>7 DEF OpenPosition, NextRow
  <2>2. /\ pc[Loop] = "open" /\ pc'[Loop] = "trade" /\ cur[Loop] \in Signals /\ call[Loop] = "exec"
        /\ UNCHANGED <<status, call, auto, cur, todo, cands>>
    BY <1>h, <1>t, <1>7 DEF OpenPosition, signalVars, Executing
  <2>3. /\ status[cur[Loop]] \notin {"absent", "pending"}
        /\ cur[Loop] \notin todo[Loop] \cup cands[Loop]
        /\ \A q \in Positions : sigOf[q] # cur[Loop]
    BY <1>t, <2>2 DEF Once, Plans, Taken, Recording
  <2>4. Plans' /\ Known'
    BY <2>2 DEF Once, Plans, Known
  <2>5. Taken'
    BY <2>1, <2>2, <2>3 DEF Once, Taken, Recording
  <2>6. OneEntryPerSignal'
    BY <2>1, <2>3 DEF Once, OneEntryPerSignal
  <2> QED
    BY <2>4, <2>5, <2>6 DEF Once
<1>8. CASE Size(Loop) \/ InsertTrade(Loop) \/ MarkExecuted(Loop)
  <2>1. UNCHANGED <<state, sigOf>>
    BY <1>8 DEF Size, InsertTrade, MarkExecuted, positionVars
  <2>2. Proceeds \/ Drops
    BY <1>t, <1>r, <1>8 DEF Size, InsertTrade, MarkExecuted, Goto, Proceeds, Recording
  <2> QED
    BY <1>k, <2>1, <2>2
<1>9. CASE PlaceOrder(Loop) \/ UndoApproval(Loop) \/ Fault(Loop)
  <2>1. UNCHANGED <<state, sigOf>>
    BY <1>9 DEF PlaceOrder, UndoApproval, Fault, positionVars
  <2>2. Drops
    BY <1>9 DEF PlaceOrder, UndoApproval, Fault, Drops
  <2> QED
    BY <1>k, <2>1, <2>2
<1> QED
  BY <1>t, <1>1, <1>2, <1>3, <1>4, <1>5, <1>6, <1>7, <1>8, <1>9 DEF Next, Step, Validate, Execute

\* While one worker runs all entries and nobody reverts a signal, a signal is entered once:
\* not by a sweep and an approval in turn, not after a fault, not after a restart.
THEOREM SingleWorkerEntersOnce ==
  ASSUME Workers = {Loop}, ~Reverts
  PROVE  Spec => []OneEntryPerSignal
<1>1. Init => Once
  <2> SUFFICES ASSUME Init PROVE Once
    OBVIOUS
  <2>1. /\ cur[Loop] = NoSignal /\ todo[Loop] = {} /\ cands[Loop] = {} /\ call[Loop] = "pre"
        /\ auto = {} /\ pc[Loop] = "idle"
    BY WorkersAssumption DEF Init
  <2>2. Plans /\ Known
    BY <2>1, SignalsAssumption DEF Plans, Known
  <2>3. Taken /\ OneEntryPerSignal
    BY DEF Init, Taken, OneEntryPerSignal
  <2> QED
    BY <2>2, <2>3 DEF Once
<1>2. Shape /\ Once /\ [Next]_vars => Once'
  BY OnceStep DEF Alone
<1>3. Once => OneEntryPerSignal
  BY DEF Once
<1> QED
  BY <1>1, <1>2, <1>3, ShapeInit, ShapeStep, PTL DEF Spec

(***************************************************************************)
(* The same single worker, without faults, keeps the cap: an entry is      *)
(* sized from the open rows, and until its row is there nobody else adds   *)
(* one.  Exits only make room.                                             *)
(***************************************************************************)
RoomKept ==
  /\ SwingExposure <= Cap
  /\ pc[Loop] = "open" => SwingExposure + qty[Loop] <= Cap

LEMMA ExposurePile ==
  ASSUME Shape
  PROVE  /\ SwingExposure = Cardinality(Pile(Open, size)) /\ SwingExposure \in Nat
         /\ IsFiniteSet(Open) /\ \A p \in Positions : size[p] \in Nat
<1>1. IsFiniteSet(Open)
  BY RowsAssumption, FS_Subset DEF Open
<1>2. \A p \in Positions : size[p] \in Nat
  BY CountsAssumption DEF Shape, TypeOK, RowsOK
<1>3. SwingExposure = Cardinality(Pile(Open, size))
  BY Zenon DEF SwingExposure, Pile
<1>4. \A p \in Open : size[p] \in Nat
  BY <1>2 DEF Open
<1> QED
  BY <1>1, <1>2, <1>3, <1>4, PileFinite

LEMMA RoomStep ==
  ASSUME Shape, Shape', Alone, ~Faults, RoomKept, [Next]_vars
  PROVE  RoomKept'
<1> USE DEF Shape, TypeOK, ThreadsOK, RowsOK
<1>t. Loop \in Workers /\ \A w \in Workers : w = Loop
  BY WorkersAssumption DEF Alone
<1>n. /\ SwingExposure = Cardinality(Pile(Open, size)) /\ SwingExposure \in Nat
      /\ IsFiniteSet(Open) /\ \A p \in Positions : size[p] \in Nat
      /\ Cap \in Nat /\ HedgeSize \in Nat /\ Base \in Nat /\ qty[Loop] \in Nat /\ qty'[Loop] \in Nat
  BY <1>t, CountsAssumption, ExposurePile
<1>k. ASSUME UNCHANGED <<state, size>>,
             pc'[Loop] = "open" => pc[Loop] = "open" /\ qty'[Loop] = qty[Loop]
      PROVE  RoomKept'
  <2>1. SwingExposure' = SwingExposure
    BY <1>k DEF SwingExposure, Open
  <2> QED
    BY <1>k, <2>1 DEF RoomKept
<1>r. ASSUME Refuse(Loop) \/ Leave(Loop) PROVE pc'[Loop] # "open"
  BY <1>t, <1>r DEF Refuse, Leave, Goto
<1>1. ASSUME NEW p \in Positions, ClosePosition(p) PROVE RoomKept'
  <2>1. Open' = Open \ {p} /\ UNCHANGED <<size, pc, qty>> /\ p \in Open
    BY <1>1 DEF ClosePosition, Open, positionVars, workerVars
  <2>2. SwingExposure' = Cardinality(Pile(Open \ {p}, size))
    <3>1. SwingExposure' = Cardinality(Pile(Open', size'))
      BY ExposurePile, Zenon DEF SwingExposure, Pile
    <3> QED
      BY <2>1, <3>1
  <2>3. /\ Open = (Open \ {p}) \cup {p} /\ p \notin Open \ {p}
        /\ IsFiniteSet(Open \ {p}) /\ \A q \in (Open \ {p}) \cup {p} : size[q] \in Nat
    BY <1>n, <2>1, FS_Subset DEF Open
  <2>4. /\ Cardinality(Pile(Open \ {p}, size)) \in Nat
        /\ Cardinality(Pile((Open \ {p}) \cup {p}, size)) = Cardinality(Pile(Open \ {p}, size)) + size[p]
    BY <2>3, PileFinite, PileAdd
  <2>5. SwingExposure' \in Nat /\ SwingExposure' <= SwingExposure
    <3> HIDE DEF Shape, TypeOK, ThreadsOK, RowsOK
    <3>1. SwingExposure = Cardinality(Pile(Open \ {p}, size)) + size[p] /\ size[p] \in Nat
      BY <1>n, <2>3, <2>4
    <3> QED
      BY <2>2, <2>4, <3>1
  <2> QED
    BY <1>n, <2>1, <2>5 DEF RoomKept
<1>2. CASE OpenPosition(Loop)
  <2>1. PICK p \in Positions : /\ state[p] = "free" /\ state' = [state EXCEPT ![p] = "open"]
                               /\ size' = [size EXCEPT ![p] = qty[Loop]]
    BY <1>2 DEF OpenPosition, NextRow
  <2>2. /\ pc[Loop] = "open" /\ pc'[Loop] = "trade" /\ p \notin Open /\ Open' = Open \cup {p}
        /\ size'[p] = qty[Loop] /\ \A q \in Open : size'[q] = size[q]
    BY <1>t, <1>2, <2>1 DEF OpenPosition, Open
  <2>3. \A q \in Open \cup {p} : size'[q] \in Nat
    BY <1>n, <2>2 DEF Open
  <2>4. Cardinality(Pile(Open \cup {p}, size')) = Cardinality(Pile(Open, size')) + size'[p]
    BY <1>n, <2>2, <2>3, PileAdd
  <2>5. Pile(Open, size') = Pile(Open, size)
    BY <2>2, PileSame
  <2>6. SwingExposure' = Cardinality(Pile(Open \cup {p}, size'))
    <3>1. SwingExposure' = Cardinality(Pile(Open', size'))
      BY Zenon DEF SwingExposure, Pile
    <3> QED
      BY <2>2, <3>1
  <2> QED
    BY <1>n, <2>2, <2>4, <2>5, <2>6 DEF RoomKept
<1>3. CASE Size(Loop)
  <2>1. UNCHANGED <<state, size>>
    BY <1>3 DEF Size, positionVars
  <2>2. CASE Refuse(Loop)
    BY <1>k, <1>r, <2>1, <2>2
  <2>3. CASE Capped(Exposure) \in 1..Base /\ qty' = [qty EXCEPT ![Loop] = Capped(Exposure)]
    <3>1. qty'[Loop] = Capped(Exposure)
      BY <1>t, <2>3
    <3>2. qty'[Loop] <= Cap - Exposure
      BY <1>n, <3>1 DEF Capped, Exposure
    <3>3. SwingExposure <= Exposure
      BY <1>n DEF Exposure
    <3>4. SwingExposure' = SwingExposure
      BY <2>1 DEF SwingExposure, Open
    <3> QED
      BY <1>n, <3>2, <3>3, <3>4 DEF RoomKept, Exposure
  <2> QED
    BY <1>3, <2>2, <2>3 DEF Size
<1>4. CASE Validate(Loop) \/ Approve(Loop) \/ Sweep(Loop) \/ AutoStart(Loop)
  <2>1. UNCHANGED <<state, size>>
    BY <1>4 DEF Validate, Approve, Sweep, AutoStart, CheckMax, CheckDaily, CheckDup, Check, CheckSector,
       RefuseOther, Pass1, AutoApprove, AutoDrop, AutoEnd, positionVars
  <2>2. pc'[Loop] # "open"
    BY <1>t, <1>r, <1>4 DEF Validate, Approve, Sweep, AutoStart, CheckMax, CheckDaily, CheckDup, Check,
       CheckSector, RefuseOther, Pass1, AutoApprove, AutoDrop, AutoEnd, Goto
  <2> QED
    BY <1>k, <2>1, <2>2
<1>5. CASE InsertTrade(Loop) \/ MarkExecuted(Loop) \/ PlaceOrder(Loop) \/ UndoApproval(Loop) \/ Fault(Loop)
  <2>1. UNCHANGED <<state, size>> /\ pc'[Loop] # "open"
    BY <1>t, <1>r, <1>5 DEF InsertTrade, MarkExecuted, PlaceOrder, UndoApproval, Fault, Goto, positionVars
  <2> QED
    BY <1>k, <2>1
<1>6. CASE Environment \/ UNCHANGED vars
  <2>1. CASE \E p \in Positions : ClosePosition(p)
    BY <1>1, <2>1
  <2>2. CASE ~\E p \in Positions : ClosePosition(p)
    <3>1. UNCHANGED <<state, size>> /\ (pc'[Loop] = "open" => pc[Loop] = "open" /\ qty'[Loop] = qty[Loop])
      BY <1>t, <1>6, <2>2 DEF Environment, vars, positionVars, workerVars, InsertSignal, ApproveRequest,
         RejectRequest, RevertToPending, ExpireSignals, ToggleHedge, NextDay, Restart
    <3> QED
      BY <1>k, <3>1
  <2> QED
    BY <2>1, <2>2
<1> QED
  BY <1>t, <1>2, <1>3, <1>4, <1>5, <1>6 DEF Next, Step, Execute

\* One worker and no fault: the swing rows never exceed the exposure cap, whatever the
\* hedge takes of it and however exits and entries alternate.
THEOREM SingleWorkerKeepsCap ==
  ASSUME Workers = {Loop}, ~Faults
  PROVE  Spec => []ExposureCapped
<1>1. Init => RoomKept
  <2> SUFFICES ASSUME Init PROVE RoomKept
    OBVIOUS
  <2>1. Open = {} /\ pc[Loop] # "open"
    BY WorkersAssumption DEF Init, Open
  <2>2. UNION {{p} \X (1..size[p]) : p \in Open} = {}
    BY <2>1
  <2>3. SwingExposure = 0
    BY <2>2, FS_EmptySet DEF SwingExposure
  <2> QED
    BY <2>1, <2>3, CountsAssumption DEF RoomKept
<1>2. Shape /\ Shape' /\ RoomKept /\ [Next]_vars => RoomKept'
  BY RoomStep DEF Alone
<1>3. RoomKept => ExposureCapped
  BY DEF RoomKept, ExposureCapped
<1> QED
  BY <1>1, <1>2, <1>3, ShapeInit, ShapeStep, PTL DEF Spec
=============================================================================
