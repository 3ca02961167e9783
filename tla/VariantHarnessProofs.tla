------------------------ MODULE VariantHarnessProofs ------------------------
(***************************************************************************)
(* Theorems about VariantHarness, for any variants, keys and threads.      *)
(***************************************************************************)
EXTENDS VariantHarness, FiniteSetTheorems, TLAPS

(***************************************************************************)
(* The inductive invariant.                                                *)
(***************************************************************************)
Testers == {"recover", "look", "claim", "run"}
Placed  == {"snapshot", "apply", "mark", "recall", "restore", "unmark"}

\* Who works on a variant has one.
Orderly ==
  /\ \A w \in Validators : pc[w] \in Testers => tgt[w] \in Variants
  /\ \A o \in Operators : pc[o] \in Placed => tgt[o] \in Variants

\* The slot: rows testing, and rows that somebody has found no other testing for.
Claiming == {w \in Validators : pc[w] = "claim"}
Slot == Testing \cup {tgt[w] : w \in Claiming}
SlotHeld == Cardinality(Slot) <= Cardinality(Validators)

\* Only the loop deploys; the snapshot at hand grows until it has the keys of the diff.
Deploying == {"pick", "snapshot", "apply", "mark"}
Handles(o) ==
  /\ pc[o] \in Deploying => o = Loop
  /\ pc[o] \notin {"snapshot", "apply", "mark", "restore", "unmark"} => DOMAIN shot[o] = {}
  /\ pc[o] = "snapshot" => DOMAIN shot[o] \subseteq DOMAIN Diff[tgt[o]]
  /\ pc[o] \in {"apply", "mark"} => DOMAIN shot[o] = DOMAIN Diff[tgt[o]]
Snapshots == Restorable /\ \A o \in Operators : Handles(o)

\* Without force the loop deploys only while nothing is deployed, and only what has
\* never been, so no row with a rollback_at is ever deployed again.
Waits(o) ==
  /\ pc[o] \in {"recall", "restore", "unmark"} => since[tgt[o]] > 0
  /\ pc[o] \in Deploying => Deployed = {}
  /\ pc[o] \in Deploying \ {"pick"} => since[tgt[o]] = 0
Alone ==
  ~Forced =>
    /\ \A v \in Deployed \cup rolled : since[v] > 0
    /\ Deployed \cap rolled = {}
    /\ \A u, v \in Deployed : u = v
    /\ \A o \in Operators : Waits(o)

(***************************************************************************)
(* Types.                                                                  *)
(***************************************************************************)
Kind == TypeOK /\ Orderly

LEMMA Members ==
  /\ Loop \in Operators /\ RollbackJob \in Operators /\ SwitchJob \in Operators
  /\ Operators \subseteq Threads /\ Validators \subseteq Threads
  /\ Operators \cap Validators = {}
  /\ Empty \in Partial
<1>1. Empty \in [{} -> Values] /\ {} \in SUBSET Keys
  BY DEF Empty
<1> QED
  BY <1>1, ThreadsAssumption DEF Operators, Threads, Partial

\* Writing d into the configuration.
LEMMA ApplyKeepsType ==
  ASSUME config \in [Keys -> Values], NEW d \in Partial, Apply(d)
  PROVE  config' \in [Keys -> Values]
<1>1. PICK K \in SUBSET Keys : d \in [K -> Values]
  BY DEF Partial
<1> QED
  BY <1>1 DEF Apply

LEMMA KindInit == Init => Kind
<1> SUFFICES ASSUME Init PROVE Kind
  OBVIOUS
<1>1. RowsOK
  BY ConfigAssumption, Members DEF Init, RowsOK, Statuses, Testing, With
<1>2. ThreadsOK
  BY ConfigAssumption, Members DEF Init, ThreadsOK
<1>3. Orderly
  BY Members DEF Init, Orderly, Testers, Placed
<1> QED
  BY <1>1, <1>2, <1>3 DEF Kind, TypeOK

\* The statements on the variants keep the types of the rows.
LEMMA RecoverKeepsRows ==
  ASSUME RowsOK, RecoverRows, UNCHANGED <<since, rolled, saved, configVars>>
  PROVE  RowsOK'
BY DEF RowsOK, RecoverRows, configVars, Testing, With, Statuses

LEMMA WriteKeepsRows ==
  ASSUME RowsOK, NEW v, NEW s \in Statuses, Write(v, s),
         UNCHANGED <<since, rolled, saved, configVars>>
  PROVE  RowsOK'
<1>1. status' \in [Variants -> Statuses]
  BY DEF RowsOK, Write
<1>2. stale' \subseteq Testing'
  BY DEF RowsOK, Write, Testing, With
<1> QED
  BY <1>1, <1>2 DEF RowsOK, configVars

\* Moving a thread on.
LEMMA GotoKeepsThreads ==
  ASSUME ThreadsOK, Orderly, NEW t \in Threads, NEW s, Goto(t, s), UNCHANGED <<deploys, faultVars>>,
         s \in {"idle", "list", "look", "claim", "run", "pick", "apply", "mark", "rollback", "unmark", "recover"},
         s \in Testers \cup Placed => tgt[t] \in Variants
  PROVE  ThreadsOK' /\ Orderly'
BY DEF ThreadsOK, Orderly, Goto, Testers, Placed, faultVars

LEMMA LeaveKeepsThreads ==
  ASSUME ThreadsOK, Orderly, NEW w \in Validators, Leave(w), UNCHANGED <<deploys, faultVars>>
  PROVE  ThreadsOK' /\ Orderly'
<1>1. w \in Threads /\ w \notin Operators
  BY Members
<1>2. CASE todo[w] = {}
  BY <1>1, <1>2, Members DEF ThreadsOK, Orderly, Leave, Testers, Placed, faultVars
<1>3. CASE todo[w] # {}
  <2>1. PICK v \in Oldest(todo[w], 1) :
              /\ pc' = [pc EXCEPT ![w] = "recover"]
              /\ tgt' = [tgt EXCEPT ![w] = v]
              /\ todo' = [todo EXCEPT ![w] = @ \ {v}]
              /\ UNCHANGED <<shot, want>>
    BY <1>3 DEF Leave
  <2>2. v \in Variants
    BY <2>1 DEF Oldest, ThreadsOK
  <2> QED
    BY <1>1, <2>1, <2>2, Members DEF ThreadsOK, Orderly, Testers, Placed, faultVars
<1> QED
  BY <1>2, <1>3

LEMMA DoneKeepsThreads ==
  ASSUME ThreadsOK, Orderly, NEW o \in Operators, Done(o), deploys' \in Nat, UNCHANGED faultVars
  PROVE  ThreadsOK' /\ Orderly'
BY Members DEF ThreadsOK, Orderly, Done, Testers, Placed, faultVars

LEMMA KindStep == Kind /\ [Next]_vars => Kind'
<1> SUFFICES ASSUME RowsOK, ThreadsOK, Orderly, [Next]_vars PROVE RowsOK' /\ ThreadsOK' /\ Orderly'
  BY DEF Kind, TypeOK
<1> USE DEF rowVars, configVars, threadVars, faultVars
<1>m. /\ Loop \in Operators /\ RollbackJob \in Operators /\ SwitchJob \in Operators
      /\ Operators \subseteq Threads /\ Validators \subseteq Threads /\ Operators \cap Validators = {}
  BY Members
<1>a. ASSUME UNCHANGED <<rowVars, configVars>> PROVE RowsOK'
  BY <1>a DEF RowsOK, Testing, With
<1>b. ASSUME UNCHANGED threadVars, UNCHANGED <<deploys, faultVars>> PROVE ThreadsOK' /\ Orderly'
  BY <1>b DEF ThreadsOK, Orderly
<1>1. CASE Generate
  <2>1. PICK v \in With("absent") : status' = [status EXCEPT ![v] = "pending"]
    BY <1>1 DEF Generate, Oldest
  <2>2. status' \in [Variants -> Statuses] /\ stale \subseteq Testing'
    BY <2>1 DEF RowsOK, Testing, With, Statuses
  <2>3. RowsOK'
    BY <1>1, <2>2 DEF Generate, RowsOK
  <2> QED
    BY <1>1, <1>b, <2>3 DEF Generate
<1>2. ASSUME NEW v \in Variants, Expire(v) PROVE RowsOK' /\ ThreadsOK' /\ Orderly'
  <2>1. RowsOK'
    BY <1>2 DEF Expire, RowsOK, Testing, With
  <2> QED
    BY <1>2, <1>b, <2>1 DEF Expire
<1>3. ASSUME NEW w \in Validators, BatchStart(w) \/ ClaimRecover(w)
      PROVE  RowsOK' /\ ThreadsOK' /\ Orderly'
  <2>1. RowsOK'
    BY <1>3, RecoverKeepsRows DEF BatchStart, ClaimRecover
  <2>2. CASE BatchStart(w)
    BY <1>m, <2>1, <2>2, GotoKeepsThreads DEF BatchStart, Testers, Placed
  <2>3. CASE ClaimRecover(w)
    <3>1. tgt[w] \in Variants
      BY <2>3 DEF ClaimRecover, Orderly, Testers
    <3> QED
      BY <1>m, <2>1, <2>3, <3>1, GotoKeepsThreads DEF ClaimRecover
  <2> QED
    BY <1>3, <2>2, <2>3
<1>4. ASSUME NEW w \in Validators, List(w) PROVE RowsOK' /\ ThreadsOK' /\ Orderly'
  <2>1. RowsOK' /\ UNCHANGED <<deploys, faultVars>>
    BY <1>4, <1>a DEF List
  <2>2. PICK S \in SUBSET Variants :
              IF S = {} THEN Goto(w, "idle")
              ELSE \E v \in Oldest(S, 1) :
                     /\ pc' = [pc EXCEPT ![w] = "recover"]
                     /\ tgt' = [tgt EXCEPT ![w] = v]
                     /\ todo' = [todo EXCEPT ![w] = S \ {v}]
                     /\ UNCHANGED <<shot, want>>
    <3>1. With("pending") \subseteq Variants /\ Oldest(With("pending"), MaxPerRun) \subseteq With("pending")
      BY DEF With, Oldest
    <3> QED
      BY <1>4, <3>1 DEF List
  <2>3. CASE S = {}
    BY <1>m, <2>1, <2>2, <2>3, GotoKeepsThreads DEF Testers, Placed
  <2>4. CASE S # {}
    <3>1. PICK v \in Oldest(S, 1) :
              /\ pc' = [pc EXCEPT ![w] = "recover"]
              /\ tgt' = [tgt EXCEPT ![w] = v]
              /\ todo' = [todo EXCEPT ![w] = S \ {v}]
              /\ UNCHANGED <<shot, want>>
      BY <2>2, <2>4
    <3>2. v \in Variants
      BY DEF Oldest
    <3> QED
      BY <1>m, <2>1, <3>1, <3>2 DEF ThreadsOK, Orderly, Testers, Placed
  <2> QED
    BY <2>3, <2>4
<1>5. ASSUME NEW w \in Validators, BacktestRequest(w) PROVE RowsOK' /\ ThreadsOK' /\ Orderly'
  BY <1>5, <1>a, <1>m DEF BacktestRequest, ThreadsOK, Orderly, Testers, Placed
<1>6. ASSUME NEW w \in Validators, ClaimLook(w) PROVE RowsOK' /\ ThreadsOK' /\ Orderly'
  <2>1. tgt[w] \in Variants
    BY <1>6 DEF ClaimLook, Orderly, Testers
  <2>2. CASE Testing \subseteq {tgt[w]}
    BY <1>6, <1>a, <1>m, <2>1, <2>2, GotoKeepsThreads DEF ClaimLook
  <2>3. CASE ~(Testing \subseteq {tgt[w]})
    BY <1>6, <1>a, <2>3, LeaveKeepsThreads DEF ClaimLook
  <2> QED
    BY <2>2, <2>3
<1>7. ASSUME NEW w \in Validators, Claim(w) PROVE RowsOK' /\ ThreadsOK' /\ Orderly'
  <2>1. tgt[w] \in Variants
    BY <1>7 DEF Claim, Orderly, Testers
  <2>2. RowsOK'
    BY <1>7, WriteKeepsRows DEF Claim, Statuses
  <2> QED
    BY <1>7, <1>m, <2>1, <2>2, GotoKeepsThreads DEF Claim
<1>8. ASSUME NEW w \in Validators, TimedOut(w) \/ Verdict(w) PROVE RowsOK' /\ ThreadsOK' /\ Orderly'
  <2>1. PICK s \in Statuses : Write(tgt[w], s)
    BY <1>8 DEF TimedOut, Verdict, Statuses
  <2>2. RowsOK'
    BY <1>8, <2>1, WriteKeepsRows DEF TimedOut, Verdict
  <2> QED
    BY <1>8, <2>2, LeaveKeepsThreads DEF TimedOut, Verdict
<1>9. ASSUME DeployBest \/ RollbackRequest PROVE RowsOK' /\ ThreadsOK' /\ Orderly'
  <2>1. PICK s \in {"pick", "rollback"} : Goto(Loop, s)
    BY <1>9 DEF DeployBest, RollbackRequest
  <2>2. ThreadsOK' /\ Orderly'
    BY <1>9, <1>m, <2>1, GotoKeepsThreads DEF DeployBest, RollbackRequest, Testers, Placed
  <2> QED
    BY <1>9, <1>a, <2>2 DEF DeployBest, RollbackRequest
<1>10. CASE Pick
  <2>1. RowsOK'
    BY <1>10, <1>a DEF Pick
  <2>2. CASE Done(Loop)
    BY <1>10, <1>m, <2>1, <2>2, DoneKeepsThreads DEF Pick, ThreadsOK
  <2>3. CASE ~Done(Loop)
    <3>1. PICK v \in Variants : /\ pc' = [pc EXCEPT ![Loop] = "snapshot"]
                                /\ tgt' = [tgt EXCEPT ![Loop] = v]
                                /\ UNCHANGED <<todo, shot, want>>
      BY <1>10, <2>3 DEF Pick, With
    <3> QED
      BY <1>10, <1>m, <2>1, <3>1 DEF Pick, ThreadsOK, Orderly, Testers, Placed
  <2> QED
    BY <2>2, <2>3
<1>11. CASE DeployRequest
  BY <1>11, <1>a, <1>m DEF DeployRequest, ThreadsOK, Orderly, Testers, Placed
<1>12. CASE Snapshot
  <2> DEFINE d == Diff[tgt[Loop]] s == shot[Loop]
  <2>1. tgt[Loop] \in Variants
    BY <1>12, <1>m DEF Snapshot, Orderly, Placed
  <2>2. PICK k \in DOMAIN d \ DOMAIN s :
         /\ shot' = [shot EXCEPT ![Loop] =
                       [j \in DOMAIN s \cup {k} |-> IF j = k THEN config[k] ELSE s[j]]]
         /\ pc' = [pc EXCEPT ![Loop] =
                     IF DOMAIN d \subseteq DOMAIN s \cup {k} THEN "apply" ELSE "snapshot"]
    BY <1>12 DEF Snapshot
  <2>3. [j \in DOMAIN s \cup {k} |-> IF j = k THEN config[k] ELSE s[j]] \in Partial
    <3>0. d \in Partial
      BY <2>1, ConfigAssumption
    <3>1. PICK A \in SUBSET Keys : d \in [A -> Values]
      BY <3>0 DEF Partial
    <3>2. PICK B \in SUBSET Keys : s \in [B -> Values]
      BY <1>m DEF ThreadsOK, Partial
    <3>3. DOMAIN s \cup {k} \in SUBSET Keys /\ config[k] \in Values
      BY <3>1, <3>2, <2>2 DEF RowsOK
    <3>4. [j \in DOMAIN s \cup {k} |-> IF j = k THEN config[k] ELSE s[j]] \in [DOMAIN s \cup {k} -> Values]
      BY <3>2, <3>3
    <3> QED
      BY <3>3, <3>4 DEF Partial
  <2>4. ThreadsOK' /\ Orderly'
    <3>1. shot' \in [Operators -> Partial]
      BY <1>m, <2>2, <2>3 DEF ThreadsOK
    <3>2. PICK s1 \in {"apply", "snapshot"} : pc' = [pc EXCEPT ![Loop] = s1]
      BY <2>2
    <3> QED
      BY <1>12, <1>m, <2>1, <3>1, <3>2 DEF Snapshot, ThreadsOK, Orderly, Testers, Placed
  <2> QED
    BY <1>12, <1>a, <2>4 DEF Snapshot
<1>13. CASE ApplyVariant
  <2>1. tgt[Loop] \in Variants
    BY <1>13, <1>m DEF ApplyVariant, Orderly, Placed
  <2>2. config' \in [Keys -> Values]
    BY <1>13, <2>1, ConfigAssumption, ApplyKeepsType DEF ApplyVariant, RowsOK
  <2>3. RowsOK'
    BY <1>13, <2>2 DEF ApplyVariant, RowsOK, Testing, With
  <2> QED
    BY <1>13, <1>m, <2>1, <2>3, GotoKeepsThreads DEF ApplyVariant
<1>14. CASE MarkDeployed
  <2>1. tgt[Loop] \in Variants
    BY <1>14, <1>m DEF MarkDeployed, Orderly, Placed
  <2>2. shot[Loop] \in Partial /\ deploys + 1 \in Nat
    BY <1>m DEF ThreadsOK
  <2>3. status' \in [Variants -> Statuses] /\ stale' \subseteq Testing'
    BY <1>14, <2>1 DEF MarkDeployed, Write, RowsOK, Testing, With, Statuses
  <2>4. RowsOK'
    BY <1>14, <2>1, <2>2, <2>3 DEF MarkDeployed, RowsOK
  <2> QED
    BY <1>14, <1>m, <2>2, <2>4, DoneKeepsThreads DEF MarkDeployed
<1>15. ASSUME NEW o \in {Loop, RollbackJob}, CheckConditions(o) PROVE RowsOK' /\ ThreadsOK' /\ Orderly'
  BY <1>15, <1>a, <1>m, GotoKeepsThreads DEF CheckConditions, Testers, Placed
<1>16. ASSUME NEW o \in {Loop, RollbackJob}, RollbackLook(o) PROVE RowsOK' /\ ThreadsOK' /\ Orderly'
  <2>1. RowsOK' /\ UNCHANGED <<deploys, faultVars>> /\ deploys' \in Nat
    BY <1>16, <1>a DEF RollbackLook, ThreadsOK
  <2>2. CASE Done(o)
    BY <1>m, <2>1, <2>2, DoneKeepsThreads
  <2>3. CASE ~Done(o)
    <3>1. PICK v \in Variants : /\ tgt' = [tgt EXCEPT ![o] = v]
                                /\ pc' = [pc EXCEPT ![o] = "recall"]
                                /\ UNCHANGED <<todo, shot, want>>
      BY <1>16, <2>3 DEF RollbackLook, Live, Deployed, With
    <3> QED
      BY <1>m, <2>1, <3>1 DEF ThreadsOK, Orderly, Testers, Placed
  <2> QED
    BY <2>2, <2>3
<1>17. ASSUME NEW o \in {Loop, RollbackJob}, Recall(o) PROVE RowsOK' /\ ThreadsOK' /\ Orderly'
  <2>1. RowsOK' /\ UNCHANGED <<deploys, faultVars>> /\ deploys' \in Nat
    BY <1>17, <1>a DEF Recall, ThreadsOK
  <2>2. tgt[o] \in Variants /\ saved[tgt[o]] \in Partial
    BY <1>17, <1>m DEF Recall, Orderly, Placed, RowsOK
  <2>3. CASE Done(o)
    BY <1>m, <2>1, <2>3, DoneKeepsThreads
  <2>4. CASE ~Done(o)
    BY <1>17, <1>m, <2>1, <2>2, <2>4 DEF Recall, ThreadsOK, Orderly, Testers, Placed
  <2> QED
    BY <2>3, <2>4
<1>18. ASSUME NEW o \in {Loop, RollbackJob}, Restore(o) PROVE RowsOK' /\ ThreadsOK' /\ Orderly'
  <2>1. tgt[o] \in Variants /\ shot[o] \in Partial
    BY <1>18, <1>m DEF Restore, Orderly, Placed, ThreadsOK
  <2>2. config' \in [Keys -> Values]
    BY <1>18, <2>1, ApplyKeepsType DEF Restore, RowsOK
  <2>3. RowsOK'
    BY <1>18, <2>2 DEF Restore, RowsOK, Testing, With
  <2> QED
    BY <1>18, <1>m, <2>1, <2>3, GotoKeepsThreads DEF Restore
<1>19. ASSUME NEW o \in {Loop, RollbackJob}, MarkRolledBack(o) PROVE RowsOK' /\ ThreadsOK' /\ Orderly'
  <2>1. tgt[o] \in Variants
    BY <1>19, <1>m DEF MarkRolledBack, Orderly, Placed
  <2>2. status' \in [Variants -> Statuses] /\ stale' \subseteq Testing'
    BY <1>19, <2>1 DEF MarkRolledBack, Write, RowsOK, Testing, With, Statuses
  <2>3. RowsOK'
    BY <1>19, <2>1, <2>2 DEF MarkRolledBack, RowsOK
  <2> QED
    BY <1>19, <1>m, <2>3, DoneKeepsThreads DEF MarkRolledBack, ThreadsOK
<1>20. CASE RecoverStuck
  BY <1>20, <1>m, RecoverKeepsRows, GotoKeepsThreads DEF RecoverStuck, Testers, Placed
<1>21. ASSUME NEW o \in {Loop, SwitchJob}, SwitchLook(o) PROVE RowsOK' /\ ThreadsOK' /\ Orderly'
  BY <1>21, <1>a, <1>m DEF SwitchLook, ThreadsOK, Orderly, Testers, Placed
<1>22. ASSUME NEW o \in {Loop, SwitchJob}, Switch(o) PROVE RowsOK' /\ ThreadsOK' /\ Orderly'
  <2>1. want[o] \in Regimes /\ Preset[want[o]] \in Partial
    BY <1>m, ConfigAssumption DEF ThreadsOK
  <2>2. config' \in [Keys -> Values]
    BY <1>22, <2>1, ApplyKeepsType DEF Switch, RowsOK
  <2>3. RowsOK'
    BY <1>22, <2>1, <2>2 DEF Switch, RowsOK, Testing, With
  <2> QED
    BY <1>22, <1>m, <2>3, ConfigAssumption DEF Switch, ThreadsOK, Orderly, Testers, Placed
<1>23. ASSUME NEW t \in Threads, Fault(t) PROVE RowsOK' /\ ThreadsOK' /\ Orderly'
  <2>1. RowsOK'
    BY <1>23, <1>a DEF Fault
  <2>2. faults' \in Nat /\ deploys' = deploys /\ torn' \subseteq Variants
    BY <1>23, <1>m DEF Fault, ThreadsOK, Applied, Orderly, Placed
  <2>3. CASE t \in Validators
    <3>1. t \notin Operators /\ Leave(t)
      BY <1>23, <1>m, <2>3 DEF Fault
    <3>2. CASE todo[t] = {}
      BY <1>m, <2>1, <2>2, <2>3, <3>1, <3>2 DEF ThreadsOK, Orderly, Leave, Testers, Placed
    <3>3. CASE todo[t] # {}
      <4>1. PICK v \in Oldest(todo[t], 1) :
              /\ pc' = [pc EXCEPT ![t] = "recover"]
              /\ tgt' = [tgt EXCEPT ![t] = v]
              /\ todo' = [todo EXCEPT ![t] = @ \ {v}]
              /\ UNCHANGED <<shot, want>>
        BY <3>1, <3>3 DEF Leave
      <4>2. v \in Variants
        BY <2>3, <4>1 DEF Oldest, ThreadsOK
      <4> QED
        BY <1>m, <2>1, <2>2, <2>3, <3>1, <4>1, <4>2 DEF ThreadsOK, Orderly, Testers, Placed
    <3> QED
      BY <3>2, <3>3
  <2>4. CASE t \in Operators
    <3>1. t \notin Validators
      BY <1>m, <2>4
    <3>2. PICK s \in {"recover", "idle"} : pc' = [pc EXCEPT ![t] = s]
      BY <1>23, <3>1 DEF Fault
    <3>3. /\ tgt' = [tgt EXCEPT ![t] = NoVariant] /\ shot' = [shot EXCEPT ![t] = Empty]
          /\ want' = [want EXCEPT ![t] = FirstRegime] /\ todo' = todo
      BY <1>23, <3>1 DEF Fault
    <3>4. ThreadsOK'
      BY <1>m, <2>2, <2>4, <3>2, <3>3, Members, ConfigAssumption DEF ThreadsOK
    <3> QED
      BY <1>m, <2>1, <2>4, <3>1, <3>2, <3>3, <3>4 DEF ThreadsOK, Orderly, Testers, Placed
  <2> QED
    BY <2>3, <2>4 DEF Threads
<1>24. ASSUME NEW S, Stop(S) PROVE RowsOK' /\ ThreadsOK' /\ Orderly'
  <2>1. RowsOK'
    BY <1>24, <1>a DEF Stop
  <2>2. torn' \subseteq Variants
    BY <1>24, <1>m DEF Stop, ThreadsOK, Applied, Orderly, Placed
  <2> QED
    BY <1>24, <1>m, <2>1, <2>2, Members, ConfigAssumption DEF Stop, ThreadsOK, Orderly, Testers, Placed
<1>25. CASE UNCHANGED vars
  BY <1>25, <1>a, <1>b DEF vars
<1> QED
  BY <1>1, <1>2, <1>3, <1>4, <1>5, <1>6, <1>7, <1>8, <1>9, <1>10, <1>11, <1>12, <1>13, <1>14, <1>15,
     <1>16, <1>17, <1>18, <1>19, <1>20, <1>21, <1>22, <1>23, <1>24, <1>25
  DEF Next, Validate, Deploy, Rollback

\* Rows, configuration and threads keep their types, and every thread at work on a
\* variant has one (TypeOK).
THEOREM Typing == Spec => []TypeOK
<1>1. Kind => TypeOK
  BY DEF Kind
<1> QED
  BY KindInit, KindStep, <1>1, PTL DEF Spec

(***************************************************************************)
(* The slot.                                                               *)
(***************************************************************************)
LEMMA SlotIsFinite == ASSUME Kind PROVE Slot \subseteq Variants /\ IsFiniteSet(Slot)
<1>1. Slot \subseteq Variants
  BY DEF Kind, Orderly, Testers, Slot, Testing, With, Claiming
<1> QED
  BY <1>1, VariantsAssumption, FS_Subset

\* As many targets as there are threads, at most.
LEMMA TargetsAreFew ==
  ASSUME NEW C \in SUBSET Validators, NEW g, NEW T \in SUBSET {g[w] : w \in C}
  PROVE  Cardinality(T) <= Cardinality(Validators)
<1> DEFINE I == {g[w] : w \in C}
<1> DEFINE f == [w \in C |-> g[w]]
<1>1. IsFiniteSet(C) /\ Cardinality(C) <= Cardinality(Validators)
  BY ThreadsAssumption, FS_Subset
<1>2. f \in Surjection(C, I)
  BY DEF Surjection
<1>3. IsFiniteSet(I) /\ Cardinality(I) <= Cardinality(C)
  BY <1>1, <1>2, FS_Surjection
<1>4. IsFiniteSet(T) /\ Cardinality(T) <= Cardinality(I)
  BY <1>3, FS_Subset
<1> HIDE DEF I
<1> QED
  BY <1>1, <1>3, <1>4, ThreadsAssumption, FS_CardinalityType

\* Nobody claims anew, and no row begins to be tested but one that was claimed.
Quiet ==
  /\ Testing' \subseteq Slot
  /\ \A w \in Validators : pc'[w] = "claim" => pc[w] = "claim" /\ tgt'[w] = tgt[w]

LEMMA QuietKeepsSlot == ASSUME Kind, SlotHeld, Quiet PROVE SlotHeld'
<1>1. Slot' \subseteq Slot
  BY DEF Slot, Claiming, Quiet
<1>2. IsFiniteSet(Slot)
  BY SlotIsFinite
<1>3. Cardinality(Slot') <= Cardinality(Slot) /\ IsFiniteSet(Slot')
  BY <1>1, <1>2, FS_Subset
<1>4. Cardinality(Validators)' = Cardinality(Validators)
  OBVIOUS
<1> QED
  BY <1>2, <1>3, <1>4, ThreadsAssumption, FS_CardinalityType DEF SlotHeld

LEMMA SlotInit == Init => SlotHeld
<1> SUFFICES ASSUME Init PROVE SlotHeld
  OBVIOUS
<1>1. Slot = {}
  BY Members DEF Init, Slot, Testing, With, Claiming
<1> QED
  BY <1>1, FS_EmptySet, FS_CardinalityType, ThreadsAssumption DEF SlotHeld

\* The statements that end testings.
LEMMA FewerTesting ==
  ASSUME RowsOK
  PROVE  /\ RecoverRows => Testing' \subseteq Testing
         /\ \A v, s : Write(v, s) /\ s # "testing" => Testing' \subseteq Testing
         /\ UNCHANGED status => Testing' = Testing
BY DEF RowsOK, RecoverRows, Write, Testing, With

LEMMA SlotStep == Kind /\ SlotHeld /\ [Next]_vars => SlotHeld'
<1> SUFFICES ASSUME Kind, SlotHeld, [Next]_vars PROVE SlotHeld'
  OBVIOUS
<1> USE DEF rowVars, configVars, threadVars
<1>m. /\ Loop \in Operators /\ RollbackJob \in Operators /\ SwitchJob \in Operators
      /\ Operators \subseteq Threads /\ Validators \subseteq Threads /\ Operators \cap Validators = {}
  BY Members
<1>k. RowsOK /\ ThreadsOK /\ Testing \subseteq Slot
  BY DEF Kind, TypeOK, Slot
<1>d. DOMAIN pc = Threads /\ DOMAIN tgt = Threads
  BY <1>k DEF ThreadsOK
\* A thread that moves to another step than "claim" disturbs no claim.
<1>q. ASSUME NEW t \in Threads, NEW s, s # "claim", pc' = [pc EXCEPT ![t] = s],
             \A u \in Threads : u # t => tgt'[u] = tgt[u], Testing' \subseteq Slot
      PROVE  SlotHeld'
  <2>1. Quiet
    BY <1>d, <1>m, <1>q DEF Quiet
  <2> QED
    BY <2>1, QuietKeepsSlot
<1>l. ASSUME NEW w \in Validators, Leave(w), Testing' \subseteq Slot PROVE SlotHeld'
  <2>1. CASE todo[w] = {}
    BY <1>d, <1>l, <1>m, <1>q, <2>1 DEF Leave
  <2>2. CASE todo[w] # {}
    BY <1>d, <1>l, <1>m, <1>q, <2>2 DEF Leave
  <2> QED
    BY <2>1, <2>2
<1>o. ASSUME NEW o \in Operators, Done(o), Testing' \subseteq Slot PROVE SlotHeld'
  <2>1. PICK s \in {"recover", "idle"} : pc' = [pc EXCEPT ![o] = s]
    BY <1>o DEF Done
  <2> QED
    BY <1>d, <1>m, <1>o, <1>q, <2>1 DEF Done
<1>g. ASSUME NEW t \in Threads, NEW s, s # "claim", Goto(t, s), Testing' \subseteq Slot PROVE SlotHeld'
  BY <1>g, <1>q DEF Goto
<1>u. UNCHANGED status => Testing' \subseteq Slot
  BY <1>k, FewerTesting
<1>r. RecoverRows => Testing' \subseteq Slot
  BY <1>k, FewerTesting
<1>w. ASSUME NEW v, NEW s, Write(v, s), s # "testing" PROVE Testing' \subseteq Slot
  BY <1>k, <1>w, FewerTesting
<1>1. CASE Generate
  <2>1. Testing' \subseteq Testing
    BY <1>1, <1>k DEF Generate, RowsOK, Testing, With
  <2>2. Quiet
    BY <1>1, <1>k, <2>1 DEF Generate, Quiet
  <2> QED
    BY <2>2, QuietKeepsSlot
<1>2. ASSUME NEW v \in Variants, Expire(v) PROVE SlotHeld'
  BY <1>2, <1>u, QuietKeepsSlot DEF Expire, Quiet
<1>3. ASSUME NEW w \in Validators, BatchStart(w) \/ ClaimRecover(w) PROVE SlotHeld'
  BY <1>3, <1>g, <1>m, <1>r DEF BatchStart, ClaimRecover
<1>4. ASSUME NEW w \in Validators, List(w) PROVE SlotHeld'
  <2>1. Testing' \subseteq Slot
    BY <1>4, <1>u DEF List
  <2>2. CASE Goto(w, "idle")
    BY <1>g, <1>m, <2>1, <2>2
  <2>3. CASE ~Goto(w, "idle")
    BY <1>4, <1>d, <1>m, <1>q, <2>1, <2>3 DEF List
  <2> QED
    BY <2>2, <2>3
<1>5. ASSUME NEW w \in Validators, BacktestRequest(w) PROVE SlotHeld'
  BY <1>5, <1>d, <1>m, <1>q, <1>u DEF BacktestRequest
<1>6. ASSUME NEW w \in Validators, ClaimLook(w) PROVE SlotHeld'
  <2>1. Testing' = Testing
    BY <1>6, <1>k, FewerTesting DEF ClaimLook
  \* The one step that adds a row: none but the claimed ones are left in the slot.
  <2>2. CASE Testing \subseteq {tgt[w]}
    <3>1. pc' = [pc EXCEPT ![w] = "claim"] /\ tgt' = tgt
      BY <1>6, <2>2 DEF ClaimLook, Goto
    <3>2. w \in Claiming'
      BY <1>d, <1>m, <3>1 DEF Claiming
    <3>3. Slot' \in SUBSET {tgt'[u] : u \in Claiming'}
      BY <2>1, <2>2, <3>1, <3>2 DEF Slot
    <3>4. Claiming' \in SUBSET Validators
      BY DEF Claiming
    <3>5. Cardinality(Slot') <= Cardinality(Validators)
      BY <3>3, <3>4, TargetsAreFew
    <3> QED
      BY <3>5 DEF SlotHeld
  <2>3. CASE ~(Testing \subseteq {tgt[w]})
    BY <1>6, <1>k, <1>l, <2>1, <2>3 DEF ClaimLook
  <2> QED
    BY <2>2, <2>3
<1>7. ASSUME NEW w \in Validators, Claim(w) PROVE SlotHeld'
  <2>1. w \in Claiming /\ tgt[w] \in Slot
    BY <1>7 DEF Claim, Claiming, Slot
  <2>2. Testing' \subseteq Slot
    BY <1>7, <1>k, <2>1 DEF Claim, Write, RowsOK, Testing, With
  <2> QED
    BY <1>7, <1>g, <1>m, <2>2 DEF Claim
<1>8. ASSUME NEW w \in Validators, TimedOut(w) \/ Verdict(w) PROVE SlotHeld'
  <2>1. PICK s \in {"pending", "validated", "rejected"} : Write(tgt[w], s)
    BY <1>8 DEF TimedOut, Verdict
  <2>2. Testing' \subseteq Slot
    BY <1>w, <2>1
  <2> QED
    BY <1>8, <1>l, <2>2 DEF TimedOut, Verdict
<1>9. ASSUME DeployBest \/ RollbackRequest \/ RecoverStuck \/ ApplyVariant PROVE SlotHeld'
  <2>1. PICK o \in Operators, s \in {"pick", "rollback", "idle", "mark"} : Goto(o, s)
    BY <1>9, <1>m DEF DeployBest, RollbackRequest, RecoverStuck, ApplyVariant
  <2>2. Testing' \subseteq Slot
    BY <1>9, <1>r, <1>u DEF DeployBest, RollbackRequest, RecoverStuck, ApplyVariant
  <2> QED
    BY <1>g, <1>m, <2>1, <2>2
<1>10. CASE Pick
  <2>1. Testing' \subseteq Slot
    BY <1>10, <1>u DEF Pick
  <2>2. CASE Done(Loop)
    BY <1>m, <1>o, <2>1, <2>2
  <2>3. CASE ~Done(Loop)
    BY <1>10, <1>d, <1>m, <1>q, <2>1, <2>3 DEF Pick
  <2> QED
    BY <2>2, <2>3
<1>11. CASE DeployRequest
  BY <1>11, <1>d, <1>m, <1>q, <1>u DEF DeployRequest
<1>12. CASE Snapshot
  <2>1. PICK s \in {"apply", "snapshot"} : pc' = [pc EXCEPT ![Loop] = s]
    BY <1>12 DEF Snapshot
  <2> QED
    BY <1>12, <1>m, <1>q, <1>u, <2>1 DEF Snapshot
<1>13. CASE MarkDeployed
  <2>1. Testing' \subseteq Slot
    BY <1>13, <1>w DEF MarkDeployed
  <2> QED
    BY <1>13, <1>m, <1>o, <2>1 DEF MarkDeployed
<1>14. ASSUME NEW o \in {Loop, RollbackJob}, CheckConditions(o) \/ Restore(o) PROVE SlotHeld'
  <2>1. PICK s \in {"rollback", "unmark"} : Goto(o, s)
    BY <1>14 DEF CheckConditions, Restore
  <2> QED
    BY <1>14, <1>g, <1>m, <1>u, <2>1 DEF CheckConditions, Restore
<1>15. ASSUME NEW o \in {Loop, RollbackJob}, RollbackLook(o) \/ Recall(o) PROVE SlotHeld'
  <2>1. Testing' \subseteq Slot
    BY <1>15, <1>u DEF RollbackLook, Recall
  <2>2. CASE Done(o)
    BY <1>m, <1>o, <2>1, <2>2
  <2>3. CASE ~Done(o)
    <3>1. PICK s \in {"recall", "restore"} : pc' = [pc EXCEPT ![o] = s]
      BY <1>15, <2>3 DEF RollbackLook, Recall
    <3>2. \A u \in Threads : u # o => tgt'[u] = tgt[u]
      BY <1>15, <1>d, <2>3 DEF RollbackLook, Recall
    <3> QED
      BY <1>m, <1>q, <2>1, <3>1, <3>2
  <2> QED
    BY <2>2, <2>3
<1>16. ASSUME NEW o \in {Loop, RollbackJob}, MarkRolledBack(o) PROVE SlotHeld'
  <2>1. Testing' \subseteq Slot
    BY <1>16, <1>w DEF MarkRolledBack
  <2> QED
    BY <1>16, <1>m, <1>o, <2>1 DEF MarkRolledBack
<1>17. ASSUME NEW o \in {Loop, SwitchJob}, SwitchLook(o) \/ Switch(o) PROVE SlotHeld'
  <2>1. PICK s \in {"switch", "idle"} : pc' = [pc EXCEPT ![o] = s]
    BY <1>17 DEF SwitchLook, Switch
  <2> QED
    BY <1>17, <1>m, <1>q, <1>u, <2>1 DEF SwitchLook, Switch
<1>18. ASSUME NEW t \in Threads, Fault(t) PROVE SlotHeld'
  <2>1. Testing' \subseteq Slot
    BY <1>18, <1>u DEF Fault
  <2>2. CASE t \in Validators
    BY <1>18, <1>l, <1>m, <2>1, <2>2 DEF Fault
  <2>3. CASE t \notin Validators
    <3>1. PICK s \in {"recover", "idle"} : pc' = [pc EXCEPT ![t] = s]
      BY <1>18, <2>3 DEF Fault
    <3> QED
      BY <1>18, <1>d, <1>q, <2>1, <2>3, <3>1 DEF Fault
  <2> QED
    BY <2>2, <2>3
<1>19. ASSUME NEW S, Stop(S) PROVE SlotHeld'
  <2>1. Quiet
    BY <1>19, <1>m, <1>u DEF Stop, Quiet
  <2> QED
    BY <2>1, QuietKeepsSlot
<1>20. CASE UNCHANGED vars
  BY <1>20, <1>u, QuietKeepsSlot DEF vars, Quiet
<1> QED
  BY <1>1, <1>2, <1>3, <1>4, <1>5, <1>6, <1>7, <1>8, <1>9, <1>10, <1>11, <1>12, <1>13, <1>14, <1>15,
     <1>16, <1>17, <1>18, <1>19, <1>20
  DEF Next, Validate, Deploy, Rollback

\* The backtest slot (_claim_slot, recover_stuck_testing) is held by at most one row
\* per thread that validates, whatever expires, fails, stops or is asked for twice.
THEOREM SlotStaysBounded == Spec => []SlotBounded
<1>1. Kind /\ SlotHeld => SlotBounded
  <2> SUFFICES ASSUME Kind, SlotHeld PROVE SlotBounded
    OBVIOUS
  <2>1. IsFiniteSet(Slot) /\ Testing \subseteq Slot
    BY SlotIsFinite DEF Slot
  <2>2. IsFiniteSet(Testing) /\ Cardinality(Testing) <= Cardinality(Slot)
    BY <2>1, FS_Subset
  <2> QED
    BY <2>1, <2>2, ThreadsAssumption, FS_CardinalityType DEF SlotHeld, SlotBounded
<1> QED
  BY KindInit, KindStep, SlotInit, SlotStep, <1>1, PTL DEF Spec

(***************************************************************************)
(* Deployments.                                                            *)
(***************************************************************************)
LEMMA DeploymentInit == Init => Snapshots /\ Alone
<1> SUFFICES ASSUME Init PROVE Snapshots /\ Alone
  OBVIOUS
<1>1. Deployed = {}
  BY DEF Init, Deployed, With
<1>2. \A o \in Operators : Handles(o) /\ Waits(o)
  BY <1>1, Members DEF Init, Handles, Waits, Deploying, Empty
<1> QED
  BY <1>1, <1>2 DEF Init, Snapshots, Alone, Restorable

\* The statements that deploy nothing.
LEMMA FewerDeployed ==
  ASSUME RowsOK
  PROVE  /\ RecoverRows => Deployed' \subseteq Deployed
         /\ \A v, s : Write(v, s) /\ s # "deployed" => Deployed' \subseteq Deployed
         /\ UNCHANGED status => Deployed' = Deployed
BY DEF RowsOK, RecoverRows, Write, Deployed, With

\* A step of one operator that deploys nothing and rolls nothing back.
LEMMA OthersStay ==
  ASSUME Snapshots, Alone, NEW o,
         Deployed' \subseteq Deployed, UNCHANGED <<since, rolled, saved>>,
         \A u \in Operators \ {o} : pc'[u] = pc[u] /\ tgt'[u] = tgt[u] /\ shot'[u] = shot[u],
         o \in Operators => Handles(o)' /\ (~Forced => Waits(o)')
  PROVE  Snapshots' /\ Alone'
<1>1. Restorable'
  BY DEF Snapshots, Restorable
<1>2. ASSUME NEW u \in Operators PROVE Handles(u)'
  BY DEF Snapshots, Handles
<1>3. ASSUME ~Forced, NEW u \in Operators PROVE Waits(u)'
  BY <1>3 DEF Alone, Waits
<1> QED
  BY <1>1, <1>2, <1>3 DEF Snapshots, Alone

LEMMA DeploymentStep == Kind /\ Snapshots /\ Alone /\ [Next]_vars => Snapshots' /\ Alone'
<1> SUFFICES ASSUME Kind, Snapshots, Alone, [Next]_vars PROVE Snapshots' /\ Alone'
  OBVIOUS
<1> USE DEF rowVars, configVars, threadVars
<1>m. /\ Loop \in Operators /\ RollbackJob \in Operators /\ SwitchJob \in Operators
      /\ Operators \subseteq Threads /\ Validators \subseteq Threads /\ Operators \cap Validators = {}
      /\ Loop # RollbackJob /\ Loop # SwitchJob
  BY Members, ThreadsAssumption
<1>k. RowsOK /\ ThreadsOK
  BY DEF Kind, TypeOK
<1>d. DOMAIN pc = Threads /\ DOMAIN tgt = Threads /\ DOMAIN shot = Operators
  BY <1>k DEF ThreadsOK
<1>u. UNCHANGED status => Deployed' \subseteq Deployed
  BY <1>k, FewerDeployed
<1>r. RecoverRows => Deployed' \subseteq Deployed
  BY <1>k, FewerDeployed
<1>w. ASSUME NEW v, NEW s, Write(v, s), s # "deployed" PROVE Deployed' \subseteq Deployed
  BY <1>k, <1>w, FewerDeployed
\* A step that moves no operator.
<1>n. ASSUME UNCHANGED <<pc, tgt, shot, since, rolled, saved>>, Deployed' \subseteq Deployed
      PROVE  Snapshots' /\ Alone'
  <2>1. Handles(Loop)' /\ (~Forced => Waits(Loop)')
    BY <1>m, <1>n DEF Snapshots, Alone, Handles, Waits
  <2> QED
    BY <1>n, <2>1, OthersStay
\* A step of a validator.
<1>v. ASSUME NEW w \in Validators, NEW s, pc' = [pc EXCEPT ![w] = s],
             \A u \in Threads : u # w => tgt'[u] = tgt[u], shot' = shot,
             Deployed' \subseteq Deployed, UNCHANGED <<since, rolled, saved>>
      PROVE  Snapshots' /\ Alone'
  BY <1>d, <1>m, <1>v, OthersStay
<1>l. ASSUME NEW w \in Validators, Leave(w), Deployed' \subseteq Deployed, UNCHANGED <<since, rolled, saved>>
      PROVE  Snapshots' /\ Alone'
  <2>1. CASE todo[w] = {}
    BY <1>d, <1>l, <1>v, <2>1 DEF Leave
  <2>2. CASE todo[w] # {}
    BY <1>d, <1>l, <1>v, <2>2 DEF Leave
  <2> QED
    BY <2>1, <2>2
\* A step of an operator to a place where it holds nothing.
<1>o. ASSUME NEW o \in Operators, NEW s, s \notin Deploying \cup Placed, pc' = [pc EXCEPT ![o] = s],
             DOMAIN shot'[o] = {},
             \A u \in Operators \ {o} : tgt'[u] = tgt[u] /\ shot'[u] = shot[u],
             Deployed' \subseteq Deployed, UNCHANGED <<since, rolled, saved>>
      PROVE  Snapshots' /\ Alone'
  <2>1. pc'[o] = s
    BY <1>d, <1>m, <1>o
  <2>2. Handles(o)' /\ Waits(o)'
    BY <1>o, <2>1 DEF Handles, Waits, Deploying, Placed
  <2> QED
    BY <1>d, <1>m, <1>o, <2>2, OthersStay
<1>e. ASSUME NEW o \in Operators, Done(o), Deployed' \subseteq Deployed, UNCHANGED <<since, rolled, saved>>
      PROVE  Snapshots' /\ Alone'
  <2>1. PICK s \in {"recover", "idle"} : pc' = [pc EXCEPT ![o] = s]
    BY <1>e DEF Done
  <2>2. DOMAIN shot'[o] = {}
    BY <1>d, <1>e DEF Done, Empty
  <2> QED
    BY <1>d, <1>e, <1>m, <1>o, <2>1, <2>2 DEF Done, Deploying, Placed
<1>1. CASE Generate
  <2>1. Deployed' \subseteq Deployed
    BY <1>1, <1>k DEF Generate, RowsOK, Deployed, With
  <2> QED
    BY <1>1, <1>n, <2>1 DEF Generate
<1>2. ASSUME NEW v \in Variants, Expire(v) PROVE Snapshots' /\ Alone'
  BY <1>2, <1>n, <1>u DEF Expire
<1>3. ASSUME NEW w \in Validators, BatchStart(w) \/ ClaimRecover(w) PROVE Snapshots' /\ Alone'
  BY <1>3, <1>r, <1>v DEF BatchStart, ClaimRecover, Goto
<1>4. ASSUME NEW w \in Validators, List(w) PROVE Snapshots' /\ Alone'
  <2>1. Deployed' \subseteq Deployed /\ UNCHANGED <<since, rolled, saved>>
    BY <1>4, <1>u DEF List
  <2>2. CASE Goto(w, "idle")
    BY <1>v, <2>1, <2>2 DEF Goto
  <2>3. CASE ~Goto(w, "idle")
    BY <1>4, <1>d, <1>v, <2>1, <2>3 DEF List
  <2> QED
    BY <2>2, <2>3
<1>5. ASSUME NEW w \in Validators, BacktestRequest(w) PROVE Snapshots' /\ Alone'
  BY <1>5, <1>d, <1>u, <1>v DEF BacktestRequest
<1>6. ASSUME NEW w \in Validators, ClaimLook(w) PROVE Snapshots' /\ Alone'
  <2>1. Deployed' \subseteq Deployed /\ UNCHANGED <<since, rolled, saved>>
    BY <1>6, <1>u DEF ClaimLook
  <2>2. CASE Goto(w, "claim")
    BY <1>v, <2>1, <2>2 DEF Goto
  <2>3. CASE ~Goto(w, "claim")
    BY <1>6, <1>l, <2>1, <2>3 DEF ClaimLook
  <2> QED
    BY <2>2, <2>3
<1>7. ASSUME NEW w \in Validators, Claim(w) PROVE Snapshots' /\ Alone'
  BY <1>7, <1>v, <1>w DEF Claim, Goto
<1>8. ASSUME NEW w \in Validators, TimedOut(w) \/ Verdict(w) PROVE Snapshots' /\ Alone'
  <2>1. PICK s \in {"pending", "validated", "rejected"} : Write(tgt[w], s)
    BY <1>8 DEF TimedOut, Verdict
  <2>2. Deployed' \subseteq Deployed
    BY <1>w, <2>1
  <2> QED
    BY <1>8, <1>l, <2>2 DEF TimedOut, Verdict
\* Deploy Best begins while no row that a rollback has not marked is deployed.
<1>9. CASE DeployBest
  <2>1. pc' = [pc EXCEPT ![Loop] = "pick"] /\ UNCHANGED <<tgt, shot, status, since, rolled, saved>>
    BY <1>9 DEF DeployBest, Goto
  <2>2. Handles(Loop)'
    BY <1>9, <1>d, <1>m, <2>1 DEF DeployBest, Snapshots, Handles, Deploying
  <2>3. ~Forced => Waits(Loop)'
    <3>1. ~Forced => Deployed = {}
      BY <1>9 DEF DeployBest, Live, Alone
    <3> QED
      BY <1>d, <1>m, <1>u, <2>1, <3>1 DEF Waits, Deploying
  <2> QED
    BY <1>d, <1>m, <1>u, <2>1, <2>2, <2>3, OthersStay
<1>10. CASE Pick
  <2>1. Deployed' \subseteq Deployed /\ UNCHANGED <<since, rolled, saved>>
    BY <1>10, <1>u DEF Pick
  <2>2. CASE Done(Loop)
    BY <1>e, <1>m, <2>1, <2>2
  <2>3. CASE ~Done(Loop)
    <3>1. PICK v \in Variants : /\ since[v] = 0
                                /\ pc' = [pc EXCEPT ![Loop] = "snapshot"]
                                /\ tgt' = [tgt EXCEPT ![Loop] = v]
                                /\ shot' = shot
      BY <1>10, <2>3 DEF Pick, With
    <3>2. Handles(Loop)'
      BY <1>10, <1>d, <1>m, <3>1 DEF Pick, Snapshots, Handles, Deploying
    <3>3. ~Forced => Waits(Loop)'
      BY <1>10, <1>d, <1>m, <2>1, <3>1 DEF Pick, Alone, Waits, Deploying
    <3> QED
      BY <1>d, <1>m, <2>1, <3>1, <3>2, <3>3, OthersStay
  <2> QED
    BY <2>2, <2>3
<1>11. CASE DeployRequest
  <2>1. Forced /\ pc[Loop] = "idle" /\ pc' = [pc EXCEPT ![Loop] = "snapshot"]
        /\ UNCHANGED <<shot, status, since, rolled, saved>>
        /\ \A u \in Operators \ {Loop} : tgt'[u] = tgt[u]
    BY <1>11, <1>d, <1>m DEF DeployRequest
  <2>2. Handles(Loop)'
    BY <1>d, <1>m, <2>1 DEF Snapshots, Handles, Deploying
  <2> QED
    BY <1>d, <1>m, <1>u, <2>1, <2>2, OthersStay
<1>12. CASE Snapshot
  <2> DEFINE d == Diff[tgt[Loop]] s == shot[Loop]
  <2>1. PICK k \in DOMAIN d \ DOMAIN s :
         /\ shot' = [shot EXCEPT ![Loop] =
                       [j \in DOMAIN s \cup {k} |-> IF j = k THEN config[k] ELSE s[j]]]
         /\ pc' = [pc EXCEPT ![Loop] =
                     IF DOMAIN d \subseteq DOMAIN s \cup {k} THEN "apply" ELSE "snapshot"]
    BY <1>12 DEF Snapshot
  <2>2. DOMAIN shot'[Loop] = DOMAIN s \cup {k}
    BY <1>d, <1>m, <2>1
  <2>3. DOMAIN s \subseteq DOMAIN d
    BY <1>12, <1>m DEF Snapshot, Snapshots, Handles
  <2>4. pc'[Loop] = IF DOMAIN d \subseteq DOMAIN s \cup {k} THEN "apply" ELSE "snapshot"
    BY <1>d, <1>m, <2>1
  <2>5. Handles(Loop)'
    BY <1>12, <2>1, <2>2, <2>3, <2>4 DEF Snapshot, Handles, Deploying
  <2>6. ~Forced => Waits(Loop)'
    BY <1>12, <1>m, <1>u, <2>4 DEF Snapshot, Alone, Waits, Deploying
  <2> QED
    BY <1>12, <1>d, <1>m, <1>u, <2>1, <2>5, <2>6, OthersStay DEF Snapshot
<1>13. CASE ApplyVariant
  <2>1. pc[Loop] = "apply" /\ pc' = [pc EXCEPT ![Loop] = "mark"]
        /\ UNCHANGED <<tgt, shot, status, since, rolled, saved>>
    BY <1>13 DEF ApplyVariant, Goto
  <2>2. Handles(Loop)' /\ (~Forced => Waits(Loop)')
    BY <1>d, <1>m, <1>u, <2>1 DEF Snapshots, Alone, Handles, Waits, Deploying
  <2> QED
    BY <1>d, <1>m, <1>u, <2>1, <2>2, OthersStay
<1>14. CASE MarkDeployed
  <2> DEFINE v == tgt[Loop]
  <2>1. v \in Variants /\ deploys + 1 > 0
    BY <1>14, <1>k, <1>m DEF MarkDeployed, Kind, Orderly, Placed, ThreadsOK
  <2>2. Deployed' = Deployed \cup {v}
    BY <1>14, <1>k, <2>1 DEF MarkDeployed, Write, RowsOK, Deployed, With
  <2>3. /\ \A x \in Variants : since'[x] = IF x = v THEN deploys + 1 ELSE since[x]
        /\ \A x \in Variants : saved'[x] = IF x = v THEN shot[Loop] ELSE saved[x]
        /\ rolled' = rolled
    BY <1>14, <1>k DEF MarkDeployed, RowsOK
  <2>4. DOMAIN shot[Loop] = DOMAIN Diff[v]
    BY <1>14, <1>m DEF MarkDeployed, Snapshots, Handles
  <2>5. Restorable'
    BY <2>2, <2>3, <2>4 DEF Snapshots, Restorable, Deployed, With
  <2>6. /\ \A o \in Operators : pc'[o] = IF o = Loop THEN "idle" ELSE pc[o]
        /\ \A o \in Operators \ {Loop} : tgt'[o] = tgt[o] /\ shot'[o] = shot[o]
        /\ DOMAIN shot'[Loop] = {}
    BY <1>14, <1>d, <1>m DEF MarkDeployed, Done, Empty
  <2>7. \A o \in Operators : Handles(o)'
    BY <2>6 DEF Snapshots, Handles, Deploying
  <2>8. ASSUME ~Forced PROVE Alone'
    <3>1. Deployed = {} /\ since[v] = 0
      BY <1>14, <1>m, <2>8 DEF MarkDeployed, Alone, Waits, Deploying
    <3>2. Deployed' = {v} /\ v \notin rolled /\ rolled \subseteq Variants
      BY <1>k, <2>2, <2>8, <3>1 DEF Alone, RowsOK
    <3>3. ASSUME NEW o \in Operators PROVE Waits(o)'
      <4>1. CASE o = Loop
        BY <2>6, <4>1 DEF Waits, Deploying
      <4>2. CASE o # Loop
        <5>1. pc'[o] = pc[o] /\ tgt'[o] = tgt[o] /\ pc[o] \notin Deploying
          BY <2>6, <4>2 DEF Snapshots, Handles
        <5>2. pc[o] \in {"recall", "restore", "unmark"} => tgt[o] \in Variants /\ since[tgt[o]] > 0
          BY <2>8 DEF Kind, Orderly, Placed, Alone, Waits
        <5> QED
          BY <2>1, <2>3, <5>1, <5>2 DEF Waits
      <4> QED
        BY <4>1, <4>2
    <3>4. \A x \in Deployed' \cup rolled' : since'[x] > 0
      BY <2>1, <2>3, <2>8, <3>2 DEF Alone
    <3> QED
      BY <2>3, <3>2, <3>3, <3>4 DEF Alone
  <2> QED
    BY <2>5, <2>7, <2>8 DEF Snapshots, Alone
<1>15. ASSUME NEW o \in {Loop, RollbackJob}, CheckConditions(o) PROVE Snapshots' /\ Alone'
  <2>1. DOMAIN shot'[o] = {}
    BY <1>15, <1>m DEF CheckConditions, Goto, Snapshots, Handles
  <2> QED
    BY <1>15, <1>m, <1>o, <1>u, <2>1 DEF CheckConditions, Goto, Deploying, Placed
<1>16. CASE RollbackRequest
  <2>1. DOMAIN shot'[Loop] = {}
    BY <1>16, <1>m DEF RollbackRequest, Goto, Snapshots, Handles
  <2> QED
    BY <1>16, <1>m, <1>o, <1>u, <2>1 DEF RollbackRequest, Goto, Deploying, Placed
<1>17. ASSUME NEW o \in {Loop, RollbackJob}, RollbackLook(o) PROVE Snapshots' /\ Alone'
  <2>1. Deployed' \subseteq Deployed /\ UNCHANGED <<since, rolled, saved>>
    BY <1>17, <1>u DEF RollbackLook
  <2>2. CASE Done(o)
    BY <1>e, <1>m, <2>1, <2>2
  <2>3. CASE ~Done(o)
    <3>1. PICK v \in Live : /\ tgt' = [tgt EXCEPT ![o] = v]
                            /\ pc' = [pc EXCEPT ![o] = "recall"]
                            /\ shot' = shot
      BY <1>17, <2>3 DEF RollbackLook
    <3>2. Handles(o)'
      BY <1>17, <1>d, <1>m, <3>1 DEF RollbackLook, Snapshots, Handles, Deploying
    <3>3. ~Forced => Waits(o)'
      BY <1>d, <1>m, <2>1, <3>1 DEF Live, Alone, Waits, Deploying
    <3> QED
      BY <1>d, <1>m, <2>1, <3>1, <3>2, <3>3, OthersStay
  <2> QED
    BY <2>2, <2>3
<1>18. ASSUME NEW o \in {Loop, RollbackJob}, Recall(o) PROVE Snapshots' /\ Alone'
  <2>1. Deployed' \subseteq Deployed /\ UNCHANGED <<since, rolled, saved>>
    BY <1>18, <1>u DEF Recall
  <2>2. CASE Done(o)
    BY <1>e, <1>m, <2>1, <2>2
  <2>3. CASE ~Done(o)
    <3>1. /\ pc[o] = "recall" /\ pc' = [pc EXCEPT ![o] = "restore"] /\ tgt' = tgt
          /\ \A u \in Operators \ {o} : shot'[u] = shot[u]
      BY <1>18, <1>d, <2>3 DEF Recall
    <3>2. Handles(o)' /\ (~Forced => Waits(o)')
      BY <1>d, <1>m, <2>1, <3>1 DEF Alone, Handles, Waits, Deploying
    <3> QED
      BY <1>d, <1>m, <2>1, <3>1, <3>2, OthersStay
  <2> QED
    BY <2>2, <2>3
<1>19. ASSUME NEW o \in {Loop, RollbackJob}, Restore(o) PROVE Snapshots' /\ Alone'
  <2>1. pc[o] = "restore" /\ pc' = [pc EXCEPT ![o] = "unmark"]
        /\ UNCHANGED <<tgt, shot, status, since, rolled, saved>>
    BY <1>19 DEF Restore, Goto
  <2>2. Handles(o)' /\ (~Forced => Waits(o)')
    BY <1>d, <1>m, <1>u, <2>1 DEF Alone, Handles, Waits, Deploying
  <2> QED
    BY <1>d, <1>m, <1>u, <2>1, <2>2, OthersStay
<1>20. ASSUME NEW o \in {Loop, RollbackJob}, MarkRolledBack(o) PROVE Snapshots' /\ Alone'
  <2> DEFINE v == tgt[o]
  <2>1. v \in Variants
    BY <1>20, <1>m DEF MarkRolledBack, Kind, Orderly, Placed
  <2>2. Deployed' = Deployed \ {v}
    BY <1>20, <1>k, <2>1 DEF MarkRolledBack, Write, RowsOK, Deployed, With
  <2>3. rolled' = rolled \cup {v} /\ UNCHANGED <<since, saved>>
    BY <1>20 DEF MarkRolledBack
  <2>4. PICK s \in {"recover", "idle"} : pc' = [pc EXCEPT ![o] = s]
    BY <1>20 DEF MarkRolledBack, Done
  <2>5. /\ \A u \in Operators \ {o} : pc'[u] = pc[u] /\ tgt'[u] = tgt[u] /\ shot'[u] = shot[u]
        /\ pc'[o] = s /\ DOMAIN shot'[o] = {}
    BY <1>20, <1>d, <1>m, <2>4 DEF MarkRolledBack, Done, Empty
  <2>6. Snapshots'
    <3>1. Restorable'
      BY <2>2, <2>3 DEF Snapshots, Restorable
    <3>2. ASSUME NEW u \in Operators PROVE Handles(u)'
      BY <1>m, <2>5 DEF Snapshots, Handles, Deploying
    <3> QED
      BY <3>1, <3>2 DEF Snapshots
  <2>7. ASSUME ~Forced PROVE Alone'
    <3>1. since[v] > 0
      BY <1>20, <1>m, <2>7 DEF MarkRolledBack, Alone, Waits
    <3>2. ASSUME NEW u \in Operators PROVE Waits(u)'
      BY <1>m, <2>2, <2>3, <2>5, <2>7 DEF Alone, Waits, Deploying
    <3> QED
      BY <2>2, <2>3, <2>7, <3>1, <3>2 DEF Alone
  <2> QED
    BY <2>6, <2>7 DEF Alone
<1>21. CASE RecoverStuck
  <2>1. DOMAIN shot[RollbackJob] = {}
    BY <1>21, <1>m DEF RecoverStuck, Snapshots, Handles
  <2> QED
    BY <1>21, <1>m, <1>o, <1>r, <2>1 DEF RecoverStuck, Goto, Deploying, Placed
<1>22. ASSUME NEW o \in {Loop, SwitchJob}, SwitchLook(o) \/ Switch(o) PROVE Snapshots' /\ Alone'
  <2>1. PICK s \in {"switch", "idle"} : pc' = [pc EXCEPT ![o] = s]
    BY <1>22 DEF SwitchLook, Switch
  <2>2. DOMAIN shot'[o] = {}
    BY <1>22, <1>m DEF SwitchLook, Switch, Snapshots, Handles
  <2> QED
    BY <1>22, <1>m, <1>o, <1>u, <2>1, <2>2 DEF SwitchLook, Switch, Deploying, Placed
<1>23. ASSUME NEW t \in Threads, Fault(t) PROVE Snapshots' /\ Alone'
  <2>1. Deployed' \subseteq Deployed /\ UNCHANGED <<since, rolled, saved>>
    BY <1>23, <1>u DEF Fault
  <2>2. CASE t \in Validators
    BY <1>23, <1>l, <1>m, <2>1, <2>2 DEF Fault
  <2>3. CASE t \notin Validators
    <3>1. t \in Operators
      BY <2>3 DEF Threads
    <3>2. PICK s \in {"recover", "idle"} : pc' = [pc EXCEPT ![t] = s]
      BY <1>23, <2>3 DEF Fault
    <3>3. DOMAIN shot'[t] = {} /\ \A u \in Operators \ {t} : tgt'[u] = tgt[u] /\ shot'[u] = shot[u]
      BY <1>23, <1>d, <1>m, <2>3, <3>1 DEF Fault, Empty
    <3> QED
      BY <1>o, <2>1, <3>1, <3>2, <3>3 DEF Deploying, Placed
  <2> QED
    BY <2>2, <2>3
<1>24. ASSUME NEW S, Stop(S) PROVE Snapshots' /\ Alone'
  <2>1. Deployed' \subseteq Deployed /\ UNCHANGED <<since, rolled, saved>>
    BY <1>24, <1>u DEF Stop
  <2>2. \A o \in Operators : \/ pc'[o] = "idle" /\ DOMAIN shot'[o] = {}
                             \/ pc'[o] = pc[o] /\ tgt'[o] = tgt[o] /\ shot'[o] = shot[o]
    BY <1>24, <1>m DEF Stop, Empty
  <2>3. Snapshots'
    <3>1. Restorable'
      BY <2>1 DEF Snapshots, Restorable
    <3>2. ASSUME NEW o \in Operators PROVE Handles(o)'
      BY <2>2 DEF Snapshots, Handles, Deploying
    <3> QED
      BY <3>1, <3>2 DEF Snapshots
  <2>4. ASSUME ~Forced PROVE Alone'
    <3>1. ASSUME NEW o \in Operators PROVE Waits(o)'
      BY <2>1, <2>2, <2>4 DEF Alone, Waits, Deploying
    <3> QED
      BY <2>1, <2>4, <3>1 DEF Alone
  <2> QED
    BY <2>3, <2>4 DEF Alone
<1>25. CASE UNCHANGED vars
  BY <1>25, <1>n, <1>u DEF vars
<1>26. ASSUME NEW w \in Validators, BatchStart(w) \/ BacktestRequest(w) \/ Validate(w)
       PROVE  Snapshots' /\ Alone'
  BY <1>26, <1>3, <1>4, <1>5, <1>6, <1>7, <1>8 DEF Validate
<1>27. CASE Deploy
  BY <1>27, <1>10, <1>12, <1>13, <1>14 DEF Deploy
<1>28. ASSUME NEW o \in {Loop, RollbackJob}, CheckConditions(o) \/ Rollback(o)
       PROVE  Snapshots' /\ Alone'
  BY <1>28, <1>15, <1>17, <1>18, <1>19, <1>20 DEF Rollback
<1> QED
  BY <1>1, <1>2, <1>9, <1>11, <1>16, <1>21, <1>22, <1>23, <1>24, <1>25, <1>26, <1>27, <1>28 DEF Next

\* Whatever is deployed has a snapshot of every key it changed (_snapshot_baseline,
\* deploy_validated_variant), by force, by choice, across exceptions and restarts.
THEOREM DeployedStaysRestorable == Spec => []Restorable
<1>1. Snapshots => Restorable
  BY DEF Snapshots
<1> QED
  BY KindInit, KindStep, DeploymentInit, DeploymentStep, <1>1, PTL DEF Spec

\* As long as nobody deploys by force, at most one variant is deployed
\* (deploy_validated_variant: _current_deployed_variant before anything else).
THEOREM OneStaysDeployed == Spec => []OneDeployed
<1>1. Alone => OneDeployed
  BY DEF Alone, OneDeployed
<1> QED
  BY KindInit, KindStep, DeploymentInit, DeploymentStep, <1>1, PTL DEF Spec

(***************************************************************************)
(* Rollbacks restore.  With one thread for the backtests, no deployment by *)
(* force and no backtest on demand, what is deployed is not taken up again *)
(* by a backtest; then a key away from its first value is one of a variant *)
(* deployed or about to be marked, and every snapshot holds first values.  *)
(* A torn deployment gives up its keys, and no others, for good.           *)
(***************************************************************************)
Untried == {"pending", "testing"}
Tried   == {"validated", "deployed", "rolled_back"}

Queued(w) ==
  /\ pc[w] \notin Testers => todo[w] = {}
  /\ pc[w] \in Testers => status[tgt[w]] \in Untried /\ tgt[w] \notin todo[w]
  /\ \A v \in todo[w] : status[v] = "pending"
Queue == \A w \in Validators : Queued(w)

\* The keys that need not come back.
Loose == Steered \cup Torn

Genuine(s) == \A k \in DOMAIN s \ Loose : s[k] = Baseline[k]
Holds(o) ==
  /\ pc[o] \in {"snapshot", "apply", "mark"} => status[tgt[o]] = "validated"
  /\ pc[o] \in {"recall", "restore", "unmark"} => status[tgt[o]] \in {"deployed", "rolled_back"}
  /\ pc[o] = "switch" => Switches
  /\ Genuine(shot[o])
  /\ pc[o] = "restore" /\ tgt[o] \in Deployed => DOMAIN shot[o] = DOMAIN Diff[tgt[o]]
  /\ pc[o] = "unmark" /\ tgt[o] \in Deployed =>
       \A k \in DOMAIN Diff[tgt[o]] \ Loose : config[k] = Baseline[k]

\* Where a key may be away from its first value.
Covers(k) ==
  \/ \E v \in Deployed : k \in DOMAIN Diff[v]
  \/ pc[Loop] = "mark" /\ k \in DOMAIN Diff[tgt[Loop]]
Explained == \A k \in Keys \ Loose : config[k] = Baseline[k] \/ Covers(k)
Pristine ==
  /\ Explained
  /\ \A v \in Variants : Genuine(saved[v])
  /\ \A o \in Operators : Holds(o)

OneAtATime == ~Forced /\ ~Single /\ \A u, w \in Validators : u = w

\* The rows of the queue are touched by nobody else.
LEMMA QueueKept ==
  ASSUME Kind, Queue, UNCHANGED todo, \A w \in Validators : pc'[w] = pc[w] /\ tgt'[w] = tgt[w],
         \A v \in Variants : /\ status[v] = "pending" => status'[v] = "pending"
                             /\ status[v] \in Untried => status'[v] \in Untried
  PROVE  Queue'
BY DEF Kind, TypeOK, ThreadsOK, Orderly, Queue, Queued

\* A step of one operator that moves no configuration.
LEMMA PristineKept ==
  ASSUME Kind, Pristine, UNCHANGED <<config, saved, torn>>, NEW o, Deployed' = Deployed,
         \A v \in Variants : status[v] \in Tried => status'[v] = status[v],
         \A u \in Operators \ {o} : pc'[u] = pc[u] /\ tgt'[u] = tgt[u] /\ shot'[u] = shot[u],
         o \in Operators => Holds(o)',
         o = Loop => pc[Loop] # "mark"
  PROVE  Pristine'
<1>1. Loop \in Operators /\ Loose' = Loose
  BY Members DEF Loose, Torn
<1>2. Explained'
  <2>1. ASSUME NEW k, Covers(k) PROVE Covers(k)'
    BY <1>1, <2>1 DEF Covers
  <2> QED
    BY <1>1, <2>1 DEF Pristine, Explained
<1>3. ASSUME NEW u \in Operators PROVE Holds(u)'
  <2>1. CASE u = o
    BY <2>1
  <2>2. CASE u # o
    <3>1. pc'[u] = pc[u] /\ tgt'[u] = tgt[u] /\ shot'[u] = shot[u] /\ Holds(u)
      BY <2>2 DEF Pristine
    <3>2. Genuine(shot[u])' = Genuine(shot[u])
      BY <1>1, <3>1 DEF Genuine
    <3> QED
      BY <1>1, <3>1, <3>2 DEF Kind, Orderly, Placed, Holds, Tried
  <2> QED
    BY <2>1, <2>2
<1>4. \A v \in Variants : Genuine(saved[v])'
  BY <1>1 DEF Pristine, Genuine
<1> QED
  BY <1>2, <1>3, <1>4 DEF Pristine

\* The statements on the rows that a backtest or the recovery makes.
LEMMA RecoveryKeepsTried ==
  ASSUME RowsOK, RecoverRows
  PROVE  /\ Deployed' = Deployed
         /\ \A v \in Variants : /\ status[v] \in Tried => status'[v] = status[v]
                                /\ status[v] = "pending" => status'[v] = "pending"
                                /\ status[v] \in Untried => status'[v] \in Untried
<1>1. \A v \in Variants : status'[v] = IF v \in stale THEN "pending" ELSE status[v]
  BY DEF RecoverRows
<1>2. \A v \in stale : status[v] = "testing"
  BY DEF RowsOK, Testing, With
<1> QED
  BY <1>1, <1>2 DEF Deployed, With, Tried, Untried

LEMMA WriteKeepsTried ==
  ASSUME RowsOK, NEW v \in Variants, NEW s, Write(v, s), status[v] \in Untried, s # "deployed"
  PROVE  /\ Deployed' = Deployed
         /\ \A u \in Variants : status'[u] = IF u = v THEN s ELSE status[u]
         /\ \A u \in Variants : status[u] \in Tried => status'[u] = status[u]
<1>1. \A u \in Variants : status'[u] = IF u = v THEN s ELSE status[u]
  BY DEF RowsOK, Write
<1> QED
  BY <1>1 DEF Deployed, With, Tried, Untried

(***************************************************************************)
(* Backtests leave alone what is deployed.                                 *)
(***************************************************************************)
LEMMA BacktestStep ==
  ASSUME Kind, Queue, Pristine, OneAtATime, NEW w \in Validators, UNCHANGED torn,
         BatchStart(w) \/ BacktestRequest(w) \/ Validate(w) \/ Fault(w)
  PROVE  Queue' /\ Pristine'
<1> USE DEF rowVars, configVars
<1>m. /\ w \in Threads /\ w \notin Operators /\ Loop \in Operators /\ Loop # w
      /\ Operators \subseteq Threads /\ \A u \in Validators : u = w
  BY Members DEF OneAtATime
<1>k. RowsOK /\ ThreadsOK /\ Orderly
  BY DEF Kind, TypeOK
<1>d. DOMAIN pc = Threads /\ DOMAIN tgt = Threads /\ DOMAIN todo = Validators
  BY <1>k DEF ThreadsOK
<1>q. Queued(w)
  BY DEF Queue
<1>s. ASSUME Queued(w)' PROVE Queue'
  BY <1>m, <1>s DEF Queue
<1>p. ASSUME UNCHANGED <<config, saved, shot>>, Deployed' = Deployed,
             \A v \in Variants : status[v] \in Tried => status'[v] = status[v],
             \A u \in Operators : pc'[u] = pc[u] /\ tgt'[u] = tgt[u]
      PROVE  Pristine'
  BY <1>m, <1>p, PristineKept
<1>l. ASSUME Leave(w), \A v \in todo[w] : status'[v] = "pending"
      PROVE  Queue' /\ shot' = shot /\ \A u \in Operators : pc'[u] = pc[u] /\ tgt'[u] = tgt[u]
  <2>1. CASE todo[w] = {}
    <3>1. pc'[w] = "idle" /\ todo' = todo
      BY <1>d, <1>l, <1>m, <2>1 DEF Leave
    <3>2. Queued(w)'
      BY <2>1, <3>1 DEF Queued, Testers
    <3> QED
      BY <1>d, <1>l, <1>m, <1>s, <2>1, <3>2 DEF Leave
  <2>2. CASE todo[w] # {}
    <3>1. PICK v \in todo[w] : /\ pc' = [pc EXCEPT ![w] = "recover"]
                               /\ tgt' = [tgt EXCEPT ![w] = v]
                               /\ todo' = [todo EXCEPT ![w] = @ \ {v}]
                               /\ shot' = shot
      BY <1>l, <2>2 DEF Leave, Oldest
    <3>2. pc'[w] = "recover" /\ tgt'[w] = v /\ todo'[w] = todo[w] \ {v}
      BY <1>d, <1>m, <3>1
    <3>3. Queued(w)'
      BY <1>l, <3>2 DEF Queued, Testers, Untried
    <3> QED
      BY <1>d, <1>m, <1>s, <3>1, <3>3
  <2> QED
    BY <2>1, <2>2
<1>1. CASE BatchStart(w) \/ ClaimRecover(w)
  <2>1. RecoverRows /\ todo' = todo /\ tgt' = tgt /\ UNCHANGED <<config, saved, shot>>
    BY <1>1 DEF BatchStart, ClaimRecover, Goto
  <2>2. \/ pc[w] = "idle" /\ pc'[w] = "list"
        \/ pc[w] = "recover" /\ pc'[w] = "look"
    BY <1>1, <1>d, <1>m DEF BatchStart, ClaimRecover, Goto
  <2>3. /\ \A v \in todo[w] : v \in Variants
        /\ pc[w] = "recover" => tgt[w] \in Variants
    BY <1>k DEF ThreadsOK, Orderly, Testers
  <2>4. Queued(w)'
    BY <1>k, <1>q, <2>1, <2>2, <2>3, RecoveryKeepsTried DEF Queued, Testers
  <2>5. \A u \in Operators : pc'[u] = pc[u]
    BY <1>1, <1>d, <1>m DEF BatchStart, ClaimRecover, Goto
  <2> QED
    BY <1>k, <1>p, <1>s, <2>1, <2>4, <2>5, RecoveryKeepsTried
<1>2. CASE List(w)
  <2>1. UNCHANGED <<status, config, saved>> /\ pc[w] = "list" /\ todo[w] = {}
    BY <1>2, <1>q DEF List, Queued, Testers
  <2>2. Deployed' = Deployed
    BY <2>1 DEF Deployed, With
  <2>3. CASE Goto(w, "idle")
    <3>1. pc'[w] = "idle" /\ UNCHANGED <<tgt, todo, shot>> /\ \A u \in Operators : pc'[u] = pc[u]
      BY <1>d, <1>m, <2>3 DEF Goto
    <3>2. Queued(w)'
      BY <2>1, <3>1 DEF Queued, Testers
    <3> QED
      BY <1>p, <1>s, <2>1, <2>2, <3>1, <3>2
  <2>4. CASE ~Goto(w, "idle")
    <3>0. PICK S \in SUBSET With("pending") : \E v \in S :
             /\ pc' = [pc EXCEPT ![w] = "recover"]
             /\ tgt' = [tgt EXCEPT ![w] = v]
             /\ todo' = [todo EXCEPT ![w] = S \ {v}]
             /\ shot' = shot
      BY <1>2, <2>4 DEF List, Oldest
    <3>1. PICK v \in S : /\ pc' = [pc EXCEPT ![w] = "recover"]
                         /\ tgt' = [tgt EXCEPT ![w] = v]
                         /\ todo' = [todo EXCEPT ![w] = S \ {v}]
                         /\ shot' = shot
      BY <3>0
    <3>2. /\ pc'[w] = "recover" /\ tgt'[w] = v /\ todo'[w] = S \ {v}
          /\ \A u \in Operators : pc'[u] = pc[u] /\ tgt'[u] = tgt[u]
      BY <1>d, <1>m, <3>1
    <3>3. Queued(w)'
      BY <2>1, <3>2 DEF Queued, Testers, Untried, With
    <3> QED
      BY <1>p, <1>s, <2>1, <2>2, <3>1, <3>2, <3>3
  <2> QED
    BY <2>3, <2>4
<1>3. CASE ClaimLook(w)
  <2>1. UNCHANGED <<status, config, saved>> /\ pc[w] = "look"
    BY <1>3 DEF ClaimLook
  <2>2. Deployed' = Deployed
    BY <2>1 DEF Deployed, With
  <2>3. CASE Goto(w, "claim")
    <3>1. pc'[w] = "claim" /\ UNCHANGED <<tgt, todo, shot>> /\ \A u \in Operators : pc'[u] = pc[u]
      BY <1>d, <1>m, <2>3 DEF Goto
    <3>2. Queued(w)'
      BY <1>q, <2>1, <3>1 DEF Queued, Testers
    <3> QED
      BY <1>p, <1>s, <2>1, <2>2, <3>1, <3>2
  <2>4. CASE Leave(w)
    <3>1. \A v \in todo[w] : status'[v] = "pending"
      BY <1>q, <2>1 DEF Queued
    <3> QED
      BY <1>l, <1>p, <2>1, <2>2, <2>4, <3>1
  <2> QED
    BY <1>3, <2>3, <2>4 DEF ClaimLook
<1>4. CASE Claim(w)
  <2>1. /\ pc[w] = "claim" /\ Write(tgt[w], "testing") /\ Goto(w, "run")
        /\ UNCHANGED <<config, saved>>
    BY <1>4 DEF Claim
  <2>2. tgt[w] \in Variants /\ status[tgt[w]] \in Untried /\ tgt[w] \notin todo[w] /\ todo[w] \subseteq Variants
    BY <1>k, <1>q, <2>1 DEF Orderly, Queued, Testers, ThreadsOK
  <2>3. pc'[w] = "run" /\ UNCHANGED <<tgt, todo, shot>> /\ \A u \in Operators : pc'[u] = pc[u]
    BY <1>d, <1>m, <2>1 DEF Goto
  <2>4. /\ Deployed' = Deployed
        /\ \A u \in Variants : status'[u] = IF u = tgt[w] THEN "testing" ELSE status[u]
        /\ \A u \in Variants : status[u] \in Tried => status'[u] = status[u]
    BY <1>k, <2>1, <2>2, WriteKeepsTried
  <2>5. Queued(w)'
    BY <1>q, <2>2, <2>3, <2>4 DEF Queued, Testers, Untried
  <2> QED
    BY <1>p, <1>s, <2>1, <2>3, <2>4, <2>5
<1>5. CASE TimedOut(w) \/ Verdict(w)
  <2>1. PICK s \in {"pending", "validated", "rejected"} : Write(tgt[w], s)
    BY <1>5 DEF TimedOut, Verdict
  <2>2. pc[w] = "run" /\ Leave(w) /\ UNCHANGED <<config, saved>>
    BY <1>5 DEF TimedOut, Verdict
  <2>3. tgt[w] \in Variants /\ status[tgt[w]] \in Untried /\ tgt[w] \notin todo[w] /\ todo[w] \subseteq Variants
    BY <1>k, <1>q, <2>2 DEF Orderly, Queued, Testers, ThreadsOK
  <2>4. /\ Deployed' = Deployed
        /\ \A u \in Variants : status'[u] = IF u = tgt[w] THEN s ELSE status[u]
        /\ \A u \in Variants : status[u] \in Tried => status'[u] = status[u]
    BY <1>k, <2>1, <2>3, WriteKeepsTried
  <2>5. \A v \in todo[w] : status'[v] = "pending"
    BY <1>q, <2>3, <2>4 DEF Queued
  <2> QED
    BY <1>l, <1>p, <2>2, <2>4, <2>5
<1>6. CASE Fault(w)
  <2>1. Leave(w) /\ UNCHANGED <<status, config, saved>>
    BY <1>6, <1>m DEF Fault
  <2>2. Deployed' = Deployed /\ \A v \in todo[w] : status'[v] = "pending"
    BY <1>q, <2>1 DEF Queued, Deployed, With
  <2> QED
    BY <1>l, <1>p, <2>1, <2>2
<1>7. ~BacktestRequest(w)
  BY DEF BacktestRequest, OneAtATime
<1> QED
  BY <1>1, <1>2, <1>3, <1>4, <1>5, <1>6, <1>7 DEF Validate

(***************************************************************************)
(* Deployments, rollbacks and the switcher.                                *)
(***************************************************************************)
LEMMA OperatorStep ==
  ASSUME Kind, Snapshots, Alone, Queue, Pristine, OneAtATime, [Next]_vars, UNCHANGED faultVars,
         ~\E w \in Validators : BatchStart(w) \/ BacktestRequest(w) \/ Validate(w)
  PROVE  Queue' /\ Pristine'
<1> USE DEF rowVars, configVars, threadVars
<1>x. Loose' = Loose /\ UNCHANGED torn
  BY DEF Loose, Torn, faultVars
<1> USE <1>x
<1>m. /\ Loop \in Operators /\ RollbackJob \in Operators /\ SwitchJob \in Operators
      /\ Operators \subseteq Threads /\ Validators \subseteq Threads /\ Operators \cap Validators = {}
      /\ Loop # RollbackJob /\ Loop # SwitchJob /\ ~Forced
  BY Members, ThreadsAssumption DEF OneAtATime
<1>k. RowsOK /\ ThreadsOK /\ Orderly
  BY DEF Kind, TypeOK
<1>d. DOMAIN pc = Threads /\ DOMAIN tgt = Threads /\ DOMAIN shot = Operators
  BY <1>k DEF ThreadsOK
<1>h. \A o \in Operators : Holds(o) /\ Handles(o) /\ Waits(o)
  BY <1>m DEF Pristine, Snapshots, Alone
<1>u. ASSUME UNCHANGED status
      PROVE  Deployed' = Deployed /\ \A v \in Variants : status[v] \in Tried => status'[v] = status[v]
  BY <1>u DEF Deployed, With
\* The validators stand still.
<1>q. ASSUME NEW o \in Operators, UNCHANGED todo,
             \A u \in Threads \ {o} : pc'[u] = pc[u] /\ tgt'[u] = tgt[u],
             \A v \in Variants : /\ status[v] = "pending" => status'[v] = "pending"
                                 /\ status[v] \in Untried => status'[v] \in Untried
      PROVE  Queue'
  BY <1>m, <1>q, QueueKept
\* An operator goes on, rows and configuration stay.
<1>g. ASSUME NEW o \in Operators, UNCHANGED <<status, config, saved, todo>>, o = Loop => pc[Loop] # "mark",
             \A u \in Threads \ {o} : pc'[u] = pc[u] /\ tgt'[u] = tgt[u],
             \A u \in Operators \ {o} : shot'[u] = shot[u], Holds(o)'
      PROVE  Queue' /\ Pristine'
  BY <1>g, <1>m, <1>q, <1>u, PristineKept
\* It puts down what it has at hand.
<1>e. ASSUME NEW o \in Operators, Done(o)
      PROVE  /\ Holds(o)' /\ UNCHANGED todo /\ pc'[o] \in {"recover", "idle"}
             /\ \A u \in Threads \ {o} : pc'[u] = pc[u] /\ tgt'[u] = tgt[u]
             /\ \A u \in Operators \ {o} : shot'[u] = shot[u]
  <2>1. pc'[o] \in {"recover", "idle"} /\ shot'[o] = Empty
    BY <1>d, <1>e, <1>m DEF Done
  <2>2. Holds(o)'
    BY <2>1 DEF Holds, Genuine, Empty
  <2> QED
    BY <1>d, <1>e, <2>1, <2>2 DEF Done
<1>1. CASE Generate
  <2>1. PICK v \in Variants : status[v] = "absent" /\ status' = [status EXCEPT ![v] = "pending"]
    BY <1>1 DEF Generate, Oldest, With
  <2>2. /\ \A x \in Variants : /\ status[x] \in Tried => status'[x] = status[x]
                               /\ status[x] = "pending" => status'[x] = "pending"
                               /\ status[x] \in Untried => status'[x] \in Untried
        /\ Deployed' = Deployed
    BY <1>k, <2>1 DEF RowsOK, Tried, Untried, Deployed, With
  <2>3. UNCHANGED <<pc, tgt, todo, shot, config, saved>>
    BY <1>1 DEF Generate
  <2>4. pc[Loop] # "mark" => Holds(Loop)'
    BY <1>k, <1>h, <1>m, <2>2, <2>3 DEF Holds, Genuine, Orderly, Placed, Tried
  <2>5. Queue'
    BY <2>2, <2>3, QueueKept
  <2>6. Pristine'
    BY <1>k, <2>2, <2>3 DEF Pristine, Explained, Covers, Holds, Genuine, Orderly, Placed, Tried
  <2> QED
    BY <2>5, <2>6
<1>2. CASE UNCHANGED vars \/ \E v \in Variants : Expire(v)
  <2>1. UNCHANGED <<status, config, saved, pc, tgt, todo, shot>>
    BY <1>2 DEF vars, Expire
  <2>2. Deployed' = Deployed
    BY <2>1, <1>u
  <2>3. Queue'
    BY <2>1, QueueKept
  <2>4. Pristine'
    BY <2>1, <2>2 DEF Pristine, Explained, Covers, Holds, Genuine
  <2> QED
    BY <2>3, <2>4
<1>3. CASE DeployBest \/ RollbackRequest \/ \E o \in {Loop, RollbackJob} : CheckConditions(o)
  <2>1. PICK o \in Operators, s \in {"pick", "rollback"} : pc[o] = "idle" /\ Goto(o, s)
    BY <1>3, <1>m DEF DeployBest, RollbackRequest, CheckConditions
  <2>2. UNCHANGED <<status, config, saved, todo, tgt, shot>> /\ pc'[o] = s
        /\ \A u \in Threads \ {o} : pc'[u] = pc[u]
    BY <1>3, <1>d, <1>m, <2>1 DEF DeployBest, RollbackRequest, CheckConditions, Goto
  <2>3. Holds(o)'
    BY <1>h, <2>2 DEF Holds, Genuine
  <2> QED
    BY <1>g, <2>1, <2>2, <2>3
<1>4. CASE Pick
  <2>1. UNCHANGED <<status, config, saved>> /\ pc[Loop] = "pick"
    BY <1>4 DEF Pick
  <2>2. CASE Done(Loop)
    BY <1>e, <1>g, <1>m, <2>1, <2>2
  <2>3. CASE ~Done(Loop)
    <3>1. PICK v \in With("validated") : /\ pc' = [pc EXCEPT ![Loop] = "snapshot"]
                                         /\ tgt' = [tgt EXCEPT ![Loop] = v]
                                         /\ UNCHANGED <<todo, shot>>
      BY <1>4, <2>3 DEF Pick
    <3>2. pc'[Loop] = "snapshot" /\ tgt'[Loop] = v /\ status'[v] = "validated"
          /\ \A u \in Threads \ {Loop} : pc'[u] = pc[u] /\ tgt'[u] = tgt[u]
      BY <1>d, <1>m, <2>1, <3>1 DEF With
    <3>3. Holds(Loop)'
      BY <1>h, <1>m, <3>1, <3>2 DEF Holds, Genuine
    <3> QED
      BY <1>g, <1>m, <2>1, <3>1, <3>2, <3>3
  <2> QED
    BY <2>2, <2>3
\* While the snapshot is taken nothing is deployed or applied, so every key is as at first.
<1>5. CASE Snapshot
  <2> DEFINE d == Diff[tgt[Loop]] s == shot[Loop]
  <2>1. PICK k \in DOMAIN d \ DOMAIN s :
         /\ shot' = [shot EXCEPT ![Loop] =
                       [j \in DOMAIN s \cup {k} |-> IF j = k THEN config[k] ELSE s[j]]]
         /\ pc' = [pc EXCEPT ![Loop] =
                     IF DOMAIN d \subseteq DOMAIN s \cup {k} THEN "apply" ELSE "snapshot"]
    BY <1>5 DEF Snapshot
  <2>2. pc[Loop] = "snapshot" /\ UNCHANGED <<status, config, saved, todo, tgt>>
    BY <1>5 DEF Snapshot
  <2>3. shot'[Loop] = [j \in DOMAIN s \cup {k} |-> IF j = k THEN config[k] ELSE s[j]]
    BY <1>d, <1>m, <2>1
  <2>4. Deployed = {}
    BY <1>h, <1>m, <2>2 DEF Waits, Deploying
  <2>5. k \in Keys
    <3>1. Diff[tgt[Loop]] \in Partial
      BY <1>k, <1>m, <2>2, ConfigAssumption DEF Orderly, Placed
    <3> QED
      BY <3>1 DEF Partial
  <2>6. k \notin Loose => config[k] = Baseline[k]
    BY <2>2, <2>4, <2>5 DEF Pristine, Explained, Covers
  <2>7. Genuine(shot[Loop])'
    BY <1>h, <1>m, <2>3, <2>6 DEF Holds, Genuine
  <2>8. pc'[Loop] \in {"apply", "snapshot"} /\ \A u \in Threads \ {Loop} : pc'[u] = pc[u]
    BY <1>d, <1>m, <2>1
  <2>9. Holds(Loop)'
    BY <1>h, <1>m, <2>2, <2>7, <2>8 DEF Holds
  <2> QED
    BY <1>g, <1>m, <2>1, <2>2, <2>8, <2>9
\* Applying a diff takes its keys away from their values; the loop answers for them.
<1>6. CASE ApplyVariant
  <2>1. /\ pc[Loop] = "apply" /\ pc'[Loop] = "mark" /\ Apply(Diff[tgt[Loop]])
        /\ UNCHANGED <<status, saved, todo, tgt, shot>>
        /\ \A u \in Threads \ {Loop} : pc'[u] = pc[u]
    BY <1>6, <1>d, <1>m DEF ApplyVariant, Goto
  <2>2. Deployed = {} /\ Deployed' = {}
    BY <1>h, <1>m, <1>u, <2>1 DEF Waits, Deploying
  <2>3. \A k \in Keys : config'[k] = IF k \in DOMAIN Diff[tgt[Loop]] THEN Diff[tgt[Loop]][k] ELSE config[k]
    BY <2>1 DEF Apply
  <2>4. Explained'
    BY <2>1, <2>2, <2>3 DEF Pristine, Explained, Covers
  <2>5. ASSUME NEW o \in Operators PROVE Holds(o)'
    <3>1. shot'[o] = shot[o] /\ tgt'[o] = tgt[o] /\ (pc'[o] = pc[o] \/ (pc[o] = "apply" /\ pc'[o] = "mark"))
      BY <1>m, <2>1
    <3> QED
      BY <1>h, <2>1, <2>2, <3>1 DEF Holds, Genuine
  <2>6. Pristine'
    BY <2>1, <2>4, <2>5 DEF Pristine, Genuine
  <2> QED
    BY <1>m, <1>q, <2>1, <2>6
<1>7. CASE MarkDeployed
  <2> DEFINE v == tgt[Loop]
  <2>1. /\ pc[Loop] = "mark" /\ Write(v, "deployed") /\ Done(Loop) /\ config' = config
        /\ saved' = [saved EXCEPT ![v] = shot[Loop]]
    BY <1>7 DEF MarkDeployed
  <2>2. v \in Variants /\ status[v] = "validated"
    BY <1>h, <1>k, <1>m, <2>1 DEF Orderly, Placed, Holds
  <2>3. \A u \in Variants : status'[u] = IF u = v THEN "deployed" ELSE status[u]
    BY <1>k, <2>1, <2>2 DEF RowsOK, Write
  <2>4. Deployed' = Deployed \cup {v}
    BY <2>2, <2>3 DEF Deployed, With
  <2>5. /\ Holds(Loop)' /\ UNCHANGED todo /\ pc'[Loop] # "mark"
        /\ \A u \in Threads \ {Loop} : pc'[u] = pc[u] /\ tgt'[u] = tgt[u]
        /\ \A u \in Operators \ {Loop} : shot'[u] = shot[u]
    BY <1>e, <1>m, <2>1
  <2>6. Queue'
    BY <1>m, <1>q, <2>2, <2>3, <2>5 DEF Untried
  <2>7. Explained'
    BY <2>1, <2>4 DEF Pristine, Explained, Covers
  <2>8. \A u \in Variants : Genuine(saved[u])'
    <3>1. \A u \in Variants : saved'[u] = IF u = v THEN shot[Loop] ELSE saved[u]
      BY <1>k, <2>1 DEF RowsOK
    <3>2. Genuine(shot[Loop])
      BY <1>h, <1>m DEF Holds
    <3> QED
      BY <3>1, <3>2 DEF Pristine, Genuine
  <2>9. ASSUME NEW o \in Operators \ {Loop} PROVE Holds(o)'
    <3>1. pc'[o] = pc[o] /\ tgt'[o] = tgt[o] /\ shot'[o] = shot[o]
      BY <1>m, <2>5
    <3>2. pc[o] \notin {"snapshot", "apply", "mark"}
      BY <1>h DEF Handles, Deploying
    <3>3. pc[o] \in {"recall", "restore", "unmark"} => tgt[o] \in Variants \ {v}
      BY <1>h, <1>k, <2>2 DEF Orderly, Placed, Holds
    <3>4. pc[o] \in {"recall", "restore", "unmark"} =>
            status'[tgt[o]] = status[tgt[o]] /\ (tgt[o] \in Deployed' <=> tgt[o] \in Deployed)
      BY <2>3, <2>4, <3>3
    <3> QED
      BY <1>h, <2>1, <3>1, <3>2, <3>4 DEF Holds, Genuine
  <2> QED
    BY <2>5, <2>6, <2>7, <2>8, <2>9 DEF Pristine
<1>8. ASSUME NEW o \in {Loop, RollbackJob}, RollbackLook(o) PROVE Queue' /\ Pristine'
  <2>1. UNCHANGED <<status, config, saved>> /\ pc[o] = "rollback" /\ o \in Operators
    BY <1>8, <1>m DEF RollbackLook
  <2>2. CASE Done(o)
    BY <1>e, <1>g, <2>1, <2>2
  <2>3. CASE ~Done(o)
    <3>1. PICK v \in Live : /\ tgt' = [tgt EXCEPT ![o] = v]
                            /\ pc' = [pc EXCEPT ![o] = "recall"]
                            /\ UNCHANGED <<todo, shot>>
      BY <1>8, <2>3 DEF RollbackLook
    <3>2. pc'[o] = "recall" /\ tgt'[o] = v /\ status'[v] = "deployed"
          /\ \A u \in Threads \ {o} : pc'[u] = pc[u] /\ tgt'[u] = tgt[u]
      BY <1>d, <1>m, <2>1, <3>1 DEF Live, Deployed, With
    <3>3. Holds(o)'
      BY <1>h, <2>1, <3>1, <3>2 DEF Holds, Genuine
    <3> QED
      BY <1>g, <2>1, <3>1, <3>2, <3>3
  <2> QED
    BY <2>2, <2>3
<1>9. ASSUME NEW o \in {Loop, RollbackJob}, Recall(o) PROVE Queue' /\ Pristine'
  <2>1. UNCHANGED <<status, config, saved>> /\ pc[o] = "recall" /\ o \in Operators /\ tgt[o] \in Variants
    BY <1>9, <1>k, <1>m DEF Recall, Orderly, Placed
  <2>2. CASE Done(o)
    BY <1>e, <1>g, <2>1, <2>2
  <2>3. CASE ~Done(o)
    <3>1. /\ pc' = [pc EXCEPT ![o] = "restore"] /\ shot' = [shot EXCEPT ![o] = saved[tgt[o]]]
          /\ UNCHANGED <<tgt, todo>>
      BY <1>9, <2>3 DEF Recall
    <3>2. /\ pc'[o] = "restore" /\ shot'[o] = saved[tgt[o]]
          /\ \A u \in Threads \ {o} : pc'[u] = pc[u]
          /\ \A u \in Operators \ {o} : shot'[u] = shot[u]
      BY <1>d, <1>m, <2>1, <3>1
    <3>3. Genuine(shot[o])' /\ Deployed' = Deployed
      BY <1>u, <2>1, <3>2 DEF Pristine, Genuine
    <3>4. tgt[o] \in Deployed => DOMAIN saved[tgt[o]] = DOMAIN Diff[tgt[o]]
      BY DEF Snapshots, Restorable
    <3>5. Holds(o)'
      BY <1>h, <2>1, <3>1, <3>2, <3>3, <3>4 DEF Holds
    <3> QED
      BY <1>g, <2>1, <3>1, <3>2, <3>5
  <2> QED
    BY <2>2, <2>3
\* Restoring only ever brings keys back.
<1>10. ASSUME NEW o \in {Loop, RollbackJob}, Restore(o) PROVE Queue' /\ Pristine'
  <2>1. /\ pc[o] = "restore" /\ pc'[o] = "unmark" /\ Apply(shot[o]) /\ o \in Operators
        /\ UNCHANGED <<status, saved, todo, tgt, shot>>
        /\ \A u \in Threads \ {o} : pc'[u] = pc[u]
    BY <1>10, <1>d, <1>m DEF Restore, Goto
  <2>2. Deployed' = Deployed
    BY <1>u, <2>1
  <2>3. Genuine(shot[o])
    BY <1>h, <2>1 DEF Holds
  <2>4. \A k \in Keys \ Loose : config'[k] = config[k] \/ config'[k] = Baseline[k]
    BY <2>1, <2>3 DEF Apply, Genuine
  <2>5. \A k \in (Keys \ Loose) \cap DOMAIN shot[o] : config'[k] = Baseline[k]
    BY <2>1, <2>3 DEF Apply, Genuine
  <2>6. Explained'
    <3>1. ASSUME NEW k, Covers(k) PROVE Covers(k)'
      BY <1>m, <2>1, <2>2, <3>1 DEF Covers
    <3> QED
      BY <2>4, <3>1 DEF Pristine, Explained
  <2>7. ASSUME NEW u \in Operators, u # o PROVE Holds(u)'
    <3>1. pc'[u] = pc[u] /\ tgt'[u] = tgt[u] /\ shot'[u] = shot[u] /\ Holds(u)
      BY <1>h, <1>m, <2>1, <2>7
    <3>2. pc[u] = "unmark" => DOMAIN Diff[tgt[u]] \subseteq Keys
      <4>1. pc[u] = "unmark" => Diff[tgt[u]] \in Partial
        BY <1>k, ConfigAssumption DEF Orderly, Placed
      <4> QED
        BY <4>1 DEF Partial
    <3> QED
      BY <2>1, <2>2, <2>4, <3>1, <3>2 DEF Holds, Genuine
  <2>8. Holds(o)'
    <3>1. tgt[o] \in Deployed => DOMAIN shot[o] = DOMAIN Diff[tgt[o]]
      BY <1>h, <2>1 DEF Holds
    <3>2. Diff[tgt[o]] \in Partial
      BY <1>k, <2>1, ConfigAssumption DEF Orderly, Placed
    <3>3. DOMAIN Diff[tgt[o]] \subseteq Keys
      BY <3>2 DEF Partial
    <3>4. tgt[o] \in Deployed => \A k \in DOMAIN Diff[tgt[o]] \ Loose : config'[k] = Baseline[k]
      BY <2>5, <3>1, <3>3
    <3> QED
      BY <1>h, <2>1, <2>2, <2>3, <3>4 DEF Holds, Genuine
  <2>9. Pristine'
    BY <2>1, <2>6, <2>7, <2>8 DEF Pristine, Genuine
  <2> QED
    BY <1>q, <2>1, <2>9
\* The row marked as rolled back has all its keys at their first values, or is no longer
\* the deployed one.
<1>11. ASSUME NEW o \in {Loop, RollbackJob}, MarkRolledBack(o) PROVE Queue' /\ Pristine'
  <2> DEFINE v == tgt[o]
  <2>1. pc[o] = "unmark" /\ Write(v, "rolled_back") /\ Done(o) /\ UNCHANGED <<config, saved>> /\ o \in Operators
    BY <1>11, <1>m DEF MarkRolledBack
  <2>2. v \in Variants /\ status[v] \in {"deployed", "rolled_back"}
    BY <1>h, <1>k, <1>m, <2>1 DEF Orderly, Placed, Holds
  <2>3. \A u \in Variants : status'[u] = IF u = v THEN "rolled_back" ELSE status[u]
    BY <1>k, <2>1, <2>2 DEF RowsOK, Write
  <2>4. Deployed' = Deployed \ {v}
    BY <2>2, <2>3 DEF Deployed, With
  <2>5. /\ Holds(o)' /\ UNCHANGED todo /\ pc'[o] # "mark"
        /\ \A u \in Threads \ {o} : pc'[u] = pc[u] /\ tgt'[u] = tgt[u]
        /\ \A u \in Operators \ {o} : shot'[u] = shot[u]
    BY <1>e, <1>m, <2>1
  <2>6. Queue'
    BY <1>q, <2>1, <2>2, <2>3, <2>5 DEF Untried
  <2>7. Explained'
    <3>1. \A k \in DOMAIN Diff[v] \ Loose : v \in Deployed => config[k] = Baseline[k]
      BY <1>h, <2>1 DEF Holds
    <3>2. o # Loop => pc'[Loop] = pc[Loop] /\ tgt'[Loop] = tgt[Loop]
      BY <1>m, <2>5
    <3> QED
      BY <2>1, <2>4, <3>1, <3>2 DEF Pristine, Explained, Covers
  <2>8. \A u \in Variants : Genuine(saved[u])'
    BY <2>1 DEF Pristine, Genuine
  <2>9. ASSUME NEW u \in Operators \ {o} PROVE Holds(u)'
    <3>1. pc'[u] = pc[u] /\ tgt'[u] = tgt[u] /\ shot'[u] = shot[u] /\ Holds(u)
      BY <1>h, <1>m, <2>5
    <3>2. pc[u] \in Placed => tgt[u] \in Variants
      BY <1>k DEF Orderly
    <3>3. pc[u] \in {"snapshot", "apply", "mark"} => status'[tgt[u]] = "validated"
      BY <2>2, <2>3, <3>1, <3>2 DEF Holds, Placed
    <3>4. pc[u] \in {"recall", "restore", "unmark"} => status'[tgt[u]] \in {"deployed", "rolled_back"}
      BY <2>3, <3>1, <3>2 DEF Holds, Placed
    <3> QED
      BY <2>1, <2>4, <3>1, <3>3, <3>4 DEF Holds, Genuine
  <2> QED
    BY <2>5, <2>6, <2>7, <2>8, <2>9 DEF Pristine
<1>12. CASE RecoverStuck
  <2>1. /\ pc[RollbackJob] \in {"idle", "recover"} /\ pc'[RollbackJob] = "idle" /\ RecoverRows
        /\ UNCHANGED <<config, saved, todo, tgt, shot>>
        /\ \A u \in Threads \ {RollbackJob} : pc'[u] = pc[u]
    BY <1>12, <1>d, <1>m DEF RecoverStuck, Goto
  <2>2. Holds(RollbackJob)'
    BY <1>h, <1>m, <2>1 DEF Holds, Genuine
  <2> QED
    BY <1>k, <1>m, <1>q, <2>1, <2>2, RecoveryKeepsTried, PristineKept
<1>13. ASSUME NEW o \in {Loop, SwitchJob}, SwitchLook(o) PROVE Queue' /\ Pristine'
  <2>1. /\ Switches /\ pc[o] = "idle" /\ pc'[o] = "switch" /\ o \in Operators
        /\ UNCHANGED <<status, config, saved, todo, tgt, shot>>
        /\ \A u \in Threads \ {o} : pc'[u] = pc[u]
    BY <1>13, <1>d, <1>m DEF SwitchLook
  <2>2. Holds(o)'
    BY <1>h, <2>1 DEF Holds, Genuine
  <2> QED
    BY <1>g, <2>1, <2>2
\* The switcher writes keys that are steered, and no others.
<1>14. ASSUME NEW o \in {Loop, SwitchJob}, Switch(o) PROVE Queue' /\ Pristine'
  <2>1. /\ pc[o] = "switch" /\ pc'[o] = "idle" /\ o \in Operators /\ Apply(Preset[want[o]])
        /\ UNCHANGED <<status, saved, todo, tgt, shot>>
        /\ \A u \in Threads \ {o} : pc'[u] = pc[u]
    BY <1>14, <1>d, <1>m DEF Switch
  <2>2. Switches /\ want[o] \in Regimes
    BY <1>h, <1>k, <2>1 DEF Holds, ThreadsOK
  <2>3. DOMAIN Preset[want[o]] \subseteq Loose
    BY <2>2 DEF Steered, Loose
  <2>4. \A k \in Keys \ Loose : config'[k] = config[k]
    BY <2>1, <2>3 DEF Apply
  <2>5. Deployed' = Deployed
    BY <1>u, <2>1
  <2>6. Explained'
    BY <1>m, <2>1, <2>4, <2>5 DEF Pristine, Explained, Covers
  <2>7. ASSUME NEW u \in Operators PROVE Holds(u)'
    <3>1. tgt'[u] = tgt[u] /\ shot'[u] = shot[u] /\ (pc'[u] = pc[u] \/ pc'[u] = "idle") /\ Holds(u)
      BY <1>h, <1>m, <2>1
    <3>2. pc[u] = "unmark" => DOMAIN Diff[tgt[u]] \subseteq Keys
      <4>1. pc[u] = "unmark" => Diff[tgt[u]] \in Partial
        BY <1>k, ConfigAssumption DEF Orderly, Placed
      <4> QED
        BY <4>1 DEF Partial
    <3> QED
      BY <2>1, <2>4, <2>5, <3>1, <3>2 DEF Holds, Genuine
  <2>8. Pristine'
    BY <2>1, <2>6, <2>7 DEF Pristine, Genuine
  <2> QED
    BY <1>q, <2>1, <2>8
<1>15. ~DeployRequest
  BY <1>m DEF DeployRequest
<1>16. ASSUME NEW t, NEW S, Fault(t) \/ Stop(S) PROVE FALSE
  BY <1>16, <1>k DEF Fault, Stop, ThreadsOK, faultVars
<1>17. CASE Deploy \/ \E o \in {Loop, RollbackJob} : Rollback(o)
  BY <1>17, <1>4, <1>5, <1>6, <1>7, <1>8, <1>9, <1>10, <1>11 DEF Deploy, Rollback
<1> QED
  BY <1>1, <1>2, <1>3, <1>12, <1>13, <1>14, <1>15, <1>16, <1>17 DEF Next

(***************************************************************************)
(* Exceptions and restarts.  Whoever stops forgets what it had at hand;    *)
(* a deployment between its keys and its mark becomes a torn one.          *)
(***************************************************************************)
LEMMA CutOffKeepsPristine ==
  ASSUME Kind, Pristine, UNCHANGED <<status, config, saved>>, torn \subseteq torn',
         \A u \in Operators :
           \/ pc'[u] = pc[u] /\ tgt'[u] = tgt[u] /\ shot'[u] = shot[u]
           \/ pc'[u] \in {"idle", "recover"} /\ shot'[u] = Empty,
         pc[Loop] = "mark" => pc'[Loop] = "mark" \/ tgt[Loop] \in torn'
  PROVE  Pristine'
<1>1. Loose \subseteq Loose' /\ Deployed' = Deployed /\ Loop \in Operators
  BY Members DEF Loose, Torn, Deployed, With
<1>2. Explained'
  <2>1. ASSUME NEW k \in Keys, k \notin Loose', Covers(k) PROVE Covers(k)'
    <3>1. CASE \E v \in Deployed : k \in DOMAIN Diff[v]
      BY <1>1, <3>1 DEF Covers
    <3>2. CASE pc[Loop] = "mark" /\ k \in DOMAIN Diff[tgt[Loop]]
      <4>1. tgt[Loop] \notin torn'
        BY <2>1, <3>2 DEF Loose, Torn
      <4>2. pc'[Loop] = "mark" /\ tgt'[Loop] = tgt[Loop]
        BY <1>1, <3>2, <4>1
      <4> QED
        BY <3>2, <4>2 DEF Covers
    <3> QED
      BY <2>1, <3>1, <3>2 DEF Covers
  <2> QED
    BY <1>1, <2>1 DEF Pristine, Explained
<1>3. \A v \in Variants : Genuine(saved[v])'
  BY <1>1 DEF Pristine, Genuine
<1>4. ASSUME NEW u \in Operators PROVE Holds(u)'
  <2>1. CASE pc'[u] = pc[u] /\ tgt'[u] = tgt[u] /\ shot'[u] = shot[u]
    <3>1. Holds(u) /\ Genuine(shot[u])'
      BY <1>1, <2>1 DEF Pristine, Holds, Genuine
    <3> QED
      BY <1>1, <2>1, <3>1 DEF Holds
  <2>2. CASE pc'[u] \in {"idle", "recover"} /\ shot'[u] = Empty
    BY <2>2 DEF Holds, Genuine, Empty
  <2> QED
    BY <2>1, <2>2
<1> QED
  BY <1>2, <1>3, <1>4 DEF Pristine

LEMMA FaultStep ==
  ASSUME Kind, Queue, Pristine, OneAtATime,
         (\E t \in Threads : Fault(t)) \/ (\E S : Stop(S))
  PROVE  Queue' /\ Pristine'
<1> USE DEF rowVars, configVars
<1>m. /\ Loop \in Operators /\ Operators \subseteq Threads /\ Validators \subseteq Threads
      /\ Operators \cap Validators = {}
  BY Members
<1>d. DOMAIN pc = Threads /\ DOMAIN tgt = Threads /\ DOMAIN todo = Validators /\ DOMAIN shot = Operators
  BY DEF Kind, TypeOK, ThreadsOK
<1>1. ASSUME NEW t \in Validators, Fault(t) PROVE Queue' /\ Pristine'
  <2>1. UNCHANGED torn
    BY <1>1, <1>m DEF Fault, Applied
  <2> QED
    BY <1>1, <2>1, BacktestStep
<1>2. ASSUME NEW t \in Operators, Fault(t) PROVE Queue' /\ Pristine'
  <2>1. /\ UNCHANGED <<status, config, saved, todo>> /\ torn' = torn \cup Applied({t})
        /\ \A u \in Threads \ {t} : pc'[u] = pc[u] /\ tgt'[u] = tgt[u]
        /\ \A u \in Operators \ {t} : shot'[u] = shot[u]
        /\ pc'[t] \in {"idle", "recover"} /\ shot'[t] = Empty
    BY <1>2, <1>d, <1>m DEF Fault
  <2>2. pc[Loop] = "mark" => pc'[Loop] = "mark" \/ tgt[Loop] \in torn'
    BY <1>m, <2>1 DEF Applied
  <2>3. Queue'
    BY <1>m, <2>1, QueueKept
  <2> QED
    BY <1>m, <2>1, <2>2, <2>3, CutOffKeepsPristine
<1>3. ASSUME NEW S, Stop(S) PROVE Queue' /\ Pristine'
  <2>1. /\ UNCHANGED <<status, config, saved>> /\ torn' = torn \cup Applied(S)
        /\ \A u \in Threads : \/ u \in S /\ pc'[u] = "idle"
                              \/ u \notin S /\ pc'[u] = pc[u] /\ tgt'[u] = tgt[u]
        /\ \A u \in Operators : shot'[u] = IF u \in S THEN Empty ELSE shot[u]
        /\ \A w \in Validators : todo'[w] = IF w \in S THEN {} ELSE todo[w]
    BY <1>3, <1>m DEF Stop
  <2>2. pc[Loop] = "mark" => pc'[Loop] = "mark" \/ tgt[Loop] \in torn'
    BY <1>m, <2>1 DEF Applied
  <2>3. Queue'
    BY <1>m, <2>1 DEF Queue, Queued, Testers
  <2>4. Pristine'
    BY <1>m, <2>1, <2>2, CutOffKeepsPristine
  <2> QED
    BY <2>3, <2>4
<1> QED
  BY <1>1, <1>2, <1>3 DEF Threads

\* "Restores baseline config" (rollback_variant), but for the keys of torn deployments:
\* one thread runs the backtests, nobody deploys by force or backtests a row by hand.
\* The hourly job and the endpoint may roll back at once, backtests may expire, regimes
\* may change, and calls may fail or the service stop at any point.
THEOREM RollbackRestores ==
  ASSUME ~Forced, ~Single, \A u, w \in Validators : u = w
  PROVE  Spec => []BaselineRestored
<1>1. Init => Queue /\ Pristine
  <2> SUFFICES ASSUME Init PROVE Queue /\ Pristine
    OBVIOUS
  <2>1. Queue
    BY Members DEF Init, Queue, Queued, Testers
  <2>2. Deployed = {} /\ config = Baseline /\ Genuine(Empty)
    BY DEF Init, Deployed, With, Genuine, Empty
  <2>3. ASSUME NEW o \in Operators PROVE Holds(o)
    <3>1. pc[o] = "idle" /\ shot[o] = Empty
      BY <2>3, Members DEF Init
    <3> QED
      BY <2>2, <3>1 DEF Holds
  <2>4. Pristine
    BY <2>2, <2>3 DEF Init, Pristine, Explained
  <2> QED
    BY <2>1, <2>4
<1>2. Kind /\ Snapshots /\ Alone /\ (Queue /\ Pristine) /\ [Next]_vars => (Queue /\ Pristine)'
  <2> SUFFICES ASSUME Kind, Snapshots, Alone, Queue, Pristine, [Next]_vars PROVE Queue' /\ Pristine'
    OBVIOUS
  <2>1. CASE (\E t \in Threads : Fault(t)) \/ (\E S : Stop(S))
    BY <2>1, FaultStep DEF OneAtATime
  <2>2. CASE ~((\E t \in Threads : Fault(t)) \/ (\E S : Stop(S)))
    <3>1. UNCHANGED faultVars
      BY <2>2 DEF Next, Generate, Expire, BatchStart, BacktestRequest, Validate, List, ClaimRecover,
         ClaimLook, Claim, TimedOut, Verdict, DeployBest, DeployRequest, Deploy, Pick, Snapshot,
         ApplyVariant, MarkDeployed, RollbackRequest, RecoverStuck, CheckConditions, Rollback,
         RollbackLook, Recall, Restore, MarkRolledBack, SwitchLook, Switch, vars
    <3> QED
      BY <3>1, BacktestStep, OperatorStep DEF OneAtATime, faultVars
  <2> QED
    BY <2>1, <2>2
<1>3. Queue /\ Pristine => BaselineRestored
  BY DEF Pristine, Explained, Covers, BaselineRestored, Loose
<1> QED
  BY <1>1, <1>2, <1>3, KindInit, KindStep, DeploymentInit, DeploymentStep, PTL DEF Spec
=============================================================================
