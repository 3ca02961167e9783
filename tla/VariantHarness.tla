--------------------------- MODULE VariantHarness ---------------------------
(***************************************************************************)
(* The strategy harness (engine_v4/harness): variants of the configuration *)
(* are generated, backtested, deployed and rolled back.                    *)
(*                                                                         *)
(* A backtest takes the slot by writing 'testing' into its own row; the    *)
(* stamp of that write expires, and a row whose stamp has expired goes     *)
(* back to pending, also while its backtest still runs.  Deploying writes  *)
(* the variant's keys into swing_config and keeps what they were in the    *)
(* log; a rollback writes them back.  The regime switcher writes some of   *)
(* the same keys.  Each step is one transaction; threads and the event     *)
(* loop act between any two.                                               *)
(***************************************************************************)
EXTENDS Integers, FiniteSets

CONSTANTS
  Variants,      \* variant_ids, ascending in time (the bound of a run)
  Keys, Values,  \* swing_config, as far as variants and regimes write it
  Diff,          \* variant -> its config_diff, a function on some of the keys
  Regimes,
  Preset,        \* regime -> its preset, a function on some of the keys
  Baseline,      \* Keys -> Values, before anything is deployed
  FirstRegime,
  NoVariant,
  Validators,    \* threads that run validate_variant or validate_all_pending
  Scripts,       \* those that run scripts/validate_pending_variants.py
  Loop,          \* the FastAPI event loop
  RollbackJob,   \* the hourly job rollback_check
  SwitchJob,     \* the hourly job regime_switch_check
  MaxPerRun,     \* max_per_run
  Single,        \* is the endpoint that backtests one variant used?
  Forced,        \* is the endpoint that deploys one variant used?
  Switches,      \* harness_regime_switch_enabled
  MaxDeploys,    \* how many deployments a run has
  MaxFaults      \* how many exceptions and restarts

Partial == UNION {[K -> Values] : K \in SUBSET Keys}

ASSUME VariantsAssumption ==
  Variants \subseteq Nat /\ IsFiniteSet(Variants) /\ NoVariant \notin Variants
ASSUME ConfigAssumption ==
  /\ Diff \in [Variants -> Partial] /\ Preset \in [Regimes -> Partial]
  /\ Baseline \in [Keys -> Values] /\ FirstRegime \in Regimes
  /\ \A v \in Variants : DOMAIN Diff[v] # {}
ASSUME ThreadsAssumption ==
  /\ IsFiniteSet(Validators) /\ Scripts \subseteq Validators
  /\ Loop # RollbackJob /\ Loop # SwitchJob /\ RollbackJob # SwitchJob
  /\ {Loop, RollbackJob, SwitchJob} \cap Validators = {}
ASSUME BoundsAssumption == MaxPerRun \in Nat /\ MaxDeploys \in Nat /\ MaxFaults \in Nat
ASSUME SwitchesAssumption ==
  Single \in BOOLEAN /\ Forced \in BOOLEAN /\ Switches \in BOOLEAN

Operators == {Loop, RollbackJob, SwitchJob}
Threads == Validators \cup Operators

VARIABLES
  \* swing_strategy_variants and the snapshots in swing_harness_log
  status,        \* id -> status, "absent" before the insert
  stale,         \* the testing rows whose testing_started_at has expired
  since,         \* id -> deployed_at as a count of deployments, 0 for NULL
  rolled,        \* the ids with a rollback_at
  saved,         \* id -> latest auto_deploy_baseline snapshot
  \* swing_config
  config, regime,
  \* threads
  pc,
  tgt,           \* the variant at hand
  todo,          \* validate_all_pending: the rest of its list
  shot,          \* the snapshot at hand
  want,          \* check_and_switch: the new regime
  deploys, faults,
  \* no table has it: BaselineRestored asks for it
  torn           \* the variants whose keys were written and who were cut off unmarked

faultVars  == <<faults, torn>>
rowVars    == <<status, stale, since, rolled, saved>>
configVars == <<config, regime>>
threadVars == <<pc, tgt, todo, shot, want>>
vars == <<rowVars, configVars, threadVars, deploys, faultVars>>

Statuses == {"absent", "pending", "testing", "validated", "rejected", "deployed", "rolled_back"}
With(s)  == {v \in Variants : status[v] = s}
Testing  == With("testing")
Deployed == With("deployed")
Empty == [k \in {} |-> 0]

Init ==
  /\ status = [v \in Variants |-> "absent"]
  /\ stale = {} /\ rolled = {}
  /\ since = [v \in Variants |-> 0]
  /\ saved = [v \in Variants |-> Empty]
  /\ config = Baseline /\ regime = FirstRegime
  /\ pc = [t \in Threads |-> "idle"]
  /\ tgt = [t \in Threads |-> NoVariant]
  /\ todo = [w \in Validators |-> {}]
  /\ shot = [o \in Operators |-> Empty]
  /\ want = [o \in Operators |-> FirstRegime]
  /\ deploys = 0 /\ faults = 0 /\ torn = {}

(***************************************************************************)
(* Statements on the tables.                                               *)
(***************************************************************************)
\* _apply_diff and _set_config_atomic: one transaction for all keys.
Apply(d) == config' = [k \in Keys |-> IF k \in DOMAIN d THEN d[k] ELSE config[k]]

\* recover_stuck_testing
RecoverRows ==
  /\ status' = [v \in Variants |-> IF v \in stale THEN "pending" ELSE status[v]]
  /\ stale' = {}

\* A status written whatever it was before; a new testing has a new stamp.
Write(v, s) ==
  /\ status' = [status EXCEPT ![v] = s]
  /\ stale' = stale \ {v}

\* Mutant: what has been deployed later is looked past.
LiveAlone == IF Cardinality(Deployed) > 0 THEN {} ELSE Deployed

\* _current_deployed_variant: the latest; a row with a rollback_at is not seen.
Live == Deployed \ rolled
IsCurrent(v) == v \in Live /\ \A u \in Live : since[u] <= since[v]

Oldest(S, n) == {v \in S : Cardinality({u \in S : u < v}) < n}

(***************************************************************************)
(* Moving a thread.                                                        *)
(***************************************************************************)
Goto(t, step) ==
  /\ pc' = [pc EXCEPT ![t] = step]
  /\ UNCHANGED <<tgt, todo, shot, want>>

\* validate_variant is over, however: the batch turns to its next row.
Leave(w) ==
  IF todo[w] = {}
  THEN /\ pc' = [pc EXCEPT ![w] = "idle"]
       /\ tgt' = [tgt EXCEPT ![w] = NoVariant]
       /\ UNCHANGED <<todo, shot, want>>
  ELSE \E v \in Oldest(todo[w], 1) :
         /\ pc' = [pc EXCEPT ![w] = "recover"]
         /\ tgt' = [tgt EXCEPT ![w] = v]
         /\ todo' = [todo EXCEPT ![w] = @ \ {v}]
         /\ UNCHANGED <<shot, want>>

\* A deployment or rollback is over; the rollback job has stuck rows to recover.
Done(o) ==
  /\ pc' = [pc EXCEPT ![o] = IF o = RollbackJob THEN "recover" ELSE "idle"]
  /\ tgt' = [tgt EXCEPT ![o] = NoVariant]
  /\ shot' = [shot EXCEPT ![o] = Empty]
  /\ UNCHANGED <<todo, want>>

(***************************************************************************)
(* generate_variants: one row, committed by itself.                        *)
(***************************************************************************)
Generate ==
  /\ \E v \in Oldest(With("absent"), 1) : status' = [status EXCEPT ![v] = "pending"]
  /\ UNCHANGED <<stale, since, rolled, saved, configVars, threadVars, deploys, faultVars>>

(***************************************************************************)
(* validate_all_pending and validate_variant.                              *)
(***************************************************************************)
BatchStart(w) ==
  /\ pc[w] = "idle"
  /\ RecoverRows
  /\ Goto(w, "list")
  /\ UNCHANGED <<since, rolled, saved, configVars, deploys, faultVars>>

\* The rows pending now, oldest first; the script leaves out those whose keys
\* the runner does not know or that repeat another row.
List(w) ==
  /\ pc[w] = "list"
  /\ \E S \in IF w \in Scripts THEN SUBSET With("pending")
                               ELSE {Oldest(With("pending"), MaxPerRun)} :
       IF S = {} THEN Goto(w, "idle")
       ELSE \E v \in Oldest(S, 1) :
              /\ pc' = [pc EXCEPT ![w] = "recover"]
              /\ tgt' = [tgt EXCEPT ![w] = v]
              /\ todo' = [todo EXCEPT ![w] = S \ {v}]
              /\ UNCHANGED <<shot, want>>
  /\ UNCHANGED <<rowVars, configVars, deploys, faultVars>>

\* POST /harness/variants/{id}/backtest, in whatever status the row is.
BacktestRequest(w) ==
  /\ Single /\ w \notin Scripts
  /\ pc[w] = "idle"
  /\ \E v \in Variants \ With("absent") : tgt' = [tgt EXCEPT ![w] = v]
  /\ pc' = [pc EXCEPT ![w] = "recover"]
  /\ UNCHANGED <<rowVars, configVars, todo, shot, want, deploys, faultVars>>

\* _claim_slot begins with the expired slots,
ClaimRecover(w) ==
  /\ pc[w] = "recover"
  /\ RecoverRows
  /\ Goto(w, "look")
  /\ UNCHANGED <<since, rolled, saved, configVars, deploys, faultVars>>

\* Mutant: whoever comes takes the slot.
ClaimUnasked(w) ==
  /\ pc[w] = "look"
  /\ Goto(w, "claim")
  /\ UNCHANGED <<rowVars, configVars, deploys, faultVars>>

\* looks for another row that is testing,
ClaimLook(w) ==
  /\ pc[w] = "look"
  /\ IF Testing \subseteq {tgt[w]} THEN Goto(w, "claim") ELSE Leave(w)
  /\ UNCHANGED <<rowVars, configVars, deploys, faultVars>>

\* and takes the slot, asking nothing of the row's own status.
Claim(w) ==
  /\ pc[w] = "claim"
  /\ Write(tgt[w], "testing")
  /\ Goto(w, "run")
  /\ UNCHANGED <<since, rolled, saved, configVars, deploys, faultVars>>

\* A period exceeds its time: back to pending, undecided.
TimedOut(w) ==
  /\ pc[w] = "run"
  /\ Write(tgt[w], "pending")
  /\ Leave(w)
  /\ UNCHANGED <<since, rolled, saved, configVars, deploys, faultVars>>

\* All periods are through (or have all failed).
Verdict(w) ==
  /\ pc[w] = "run"
  /\ \E s \in {"validated", "rejected"} : Write(tgt[w], s)
  /\ Leave(w)
  /\ UNCHANGED <<since, rolled, saved, configVars, deploys, faultVars>>

\* harness_testing_stuck_min pass; a run may take longer than that.
Expire(v) ==
  /\ v \in Testing \ stale
  /\ stale' = stale \cup {v}
  /\ UNCHANGED <<status, since, rolled, saved, configVars, threadVars, deploys, faultVars>>

(***************************************************************************)
(* deploy_validated_variant.  The handlers are async without an await: the *)
(* loop runs one of them to its end before it begins another.              *)
(***************************************************************************)
DeployBest ==
  /\ pc[Loop] = "idle" /\ deploys < MaxDeploys
  /\ Live = {}
  /\ Goto(Loop, "pick")
  /\ UNCHANGED <<rowVars, configVars, deploys, faultVars>>

\* The highest sqn_delta among those never deployed.
Pick ==
  /\ pc[Loop] = "pick"
  /\ LET cand == {v \in With("validated") : since[v] = 0} IN
     \/ /\ cand = {}
        /\ Done(Loop)
     \/ \E v \in cand :
          /\ pc' = [pc EXCEPT ![Loop] = "snapshot"]
          /\ tgt' = [tgt EXCEPT ![Loop] = v]
          /\ UNCHANGED <<todo, shot, want>>
  /\ UNCHANGED <<rowVars, configVars, deploys, faultVars>>

\* POST /harness/variants/{id}/deploy: what is deployed, and the row's status, do
\* not matter.
DeployRequest ==
  /\ Forced
  /\ pc[Loop] = "idle" /\ deploys < MaxDeploys
  /\ \E v \in Variants \ With("absent") : tgt' = [tgt EXCEPT ![Loop] = v]
  /\ pc' = [pc EXCEPT ![Loop] = "snapshot"]
  /\ UNCHANGED <<rowVars, configVars, todo, shot, want, deploys, faultVars>>

\* Mutant: one key is enough of a snapshot.
SnapshotOne ==
  LET d == Diff[tgt[Loop]] IN
  /\ pc[Loop] = "snapshot"
  /\ \E k \in DOMAIN d : shot' = [shot EXCEPT ![Loop] = [j \in {k} |-> config[k]]]
  /\ pc' = [pc EXCEPT ![Loop] = "apply"]
  /\ UNCHANGED <<rowVars, configVars, tgt, todo, want, deploys, faultVars>>

\* _snapshot_baseline reads key by key.  Every key of a diff has a row.
Snapshot ==
  LET d == Diff[tgt[Loop]] s == shot[Loop] IN
  /\ pc[Loop] = "snapshot"
  /\ \E k \in DOMAIN d \ DOMAIN s :
       /\ shot' = [shot EXCEPT ![Loop] =
                     [j \in DOMAIN s \cup {k} |-> IF j = k THEN config[k] ELSE s[j]]]
       /\ pc' = [pc EXCEPT ![Loop] =
                   IF DOMAIN d \subseteq DOMAIN s \cup {k} THEN "apply" ELSE "snapshot"]
  /\ UNCHANGED <<rowVars, configVars, tgt, todo, want, deploys, faultVars>>

ApplyVariant ==
  /\ pc[Loop] = "apply"
  /\ Apply(Diff[tgt[Loop]])
  /\ Goto(Loop, "mark")
  /\ UNCHANGED <<rowVars, regime, deploys, faultVars>>

\* Status, deployed_at and the snapshot in one transaction; rollback_at stays.
MarkDeployed ==
  LET v == tgt[Loop] IN
  /\ pc[Loop] = "mark"
  /\ Write(v, "deployed")
  /\ deploys' = deploys + 1
  /\ since' = [since EXCEPT ![v] = deploys + 1]
  /\ saved' = [saved EXCEPT ![v] = shot[Loop]]
  /\ Done(Loop)
  /\ UNCHANGED <<rolled, configVars, faultVars>>

(***************************************************************************)
(* rollback_variant, called by the endpoint and, when the conditions hold  *)
(* (losses, a drop of the quality number), by check_rollback_conditions.   *)
(***************************************************************************)
RollbackRequest ==
  /\ pc[Loop] = "idle"
  /\ Goto(Loop, "rollback")
  /\ UNCHANGED <<rowVars, configVars, deploys, faultVars>>

CheckConditions(o) ==
  /\ pc[o] = "idle"
  /\ Live # {}
  /\ Goto(o, "rollback")
  /\ UNCHANGED <<rowVars, configVars, deploys, faultVars>>

RollbackLook(o) ==
  /\ pc[o] = "rollback"
  /\ \/ /\ Live = {}
        /\ Done(o)
     \/ \E v \in Live :
          /\ IsCurrent(v)
          /\ tgt' = [tgt EXCEPT ![o] = v]
          /\ pc' = [pc EXCEPT ![o] = "recall"]
          /\ UNCHANGED <<todo, shot, want>>
  /\ UNCHANGED <<rowVars, configVars, deploys, faultVars>>

\* _get_baseline_snapshot; without one nothing is done.
Recall(o) ==
  /\ pc[o] = "recall"
  /\ IF DOMAIN saved[tgt[o]] = {} THEN Done(o)
     ELSE /\ shot' = [shot EXCEPT ![o] = saved[tgt[o]]]
          /\ pc' = [pc EXCEPT ![o] = "restore"]
          /\ UNCHANGED <<tgt, todo, want>>
  /\ UNCHANGED <<rowVars, configVars, deploys, faultVars>>

Restore(o) ==
  /\ pc[o] = "restore"
  /\ Apply(shot[o])
  /\ Goto(o, "unmark")
  /\ UNCHANGED <<rowVars, regime, deploys, faultVars>>

MarkRolledBack(o) ==
  /\ pc[o] = "unmark"
  /\ Write(tgt[o], "rolled_back")
  /\ rolled' = rolled \cup {tgt[o]}
  /\ Done(o)
  /\ UNCHANGED <<since, saved, configVars, deploys, faultVars>>

\* Mutant: only when there was something to check.
RecoverChecked ==
  /\ pc[RollbackJob] = "recover"
  /\ RecoverRows
  /\ Goto(RollbackJob, "idle")
  /\ UNCHANGED <<since, rolled, saved, configVars, deploys, faultVars>>

\* The second half of _job_rollback_check, also when there was nothing to check.
RecoverStuck ==
  /\ pc[RollbackJob] \in {"idle", "recover"}
  /\ RecoverRows
  /\ Goto(RollbackJob, "idle")
  /\ UNCHANGED <<since, rolled, saved, configVars, deploys, faultVars>>

(***************************************************************************)
(* check_and_switch: the hourly job, and an endpoint that may force it.    *)
(***************************************************************************)
SwitchLook(o) ==
  /\ Switches
  /\ pc[o] = "idle"
  /\ \E r \in IF o = Loop THEN Regimes ELSE Regimes \ {regime} :
       want' = [want EXCEPT ![o] = r]
  /\ pc' = [pc EXCEPT ![o] = "switch"]
  /\ UNCHANGED <<rowVars, configVars, tgt, todo, shot, deploys, faultVars>>

\* The preset and current_regime in one transaction.
Switch(o) ==
  /\ pc[o] = "switch"
  /\ Apply(Preset[want[o]])
  /\ regime' = want[o]
  /\ pc' = [pc EXCEPT ![o] = "idle"]
  /\ want' = [want EXCEPT ![o] = FirstRegime]
  /\ UNCHANGED <<rowVars, tgt, todo, shot, deploys, faultVars>>

(***************************************************************************)
(* Exceptions and restarts.  A batch catches what one row raises and goes  *)
(* on; the rollback job goes on to its second half.                        *)
(***************************************************************************)
\* The deployment that is torn if the threads of S stop here.
Applied(S) == IF Loop \in S /\ pc[Loop] = "mark" THEN {tgt[Loop]} ELSE {}

Fault(t) ==
  /\ faults < MaxFaults /\ faults' = faults + 1
  /\ torn' = torn \cup Applied({t})
  /\ pc[t] # "idle"
  /\ \/ /\ t \in Validators
        /\ Leave(t)
     \/ /\ t \in Operators
        /\ pc' = [pc EXCEPT ![t] = IF t = RollbackJob /\ pc[t] # "recover" THEN "recover" ELSE "idle"]
        /\ tgt' = [tgt EXCEPT ![t] = NoVariant]
        /\ shot' = [shot EXCEPT ![t] = Empty]
        /\ want' = [want EXCEPT ![t] = FirstRegime]
        /\ UNCHANGED todo
  /\ UNCHANGED <<rowVars, configVars, deploys>>

\* The service stops with all its threads, the script by itself.
Stop(S) ==
  /\ faults < MaxFaults /\ faults' = faults + 1
  /\ torn' = torn \cup Applied(S)
  /\ pc' = [t \in Threads |-> IF t \in S THEN "idle" ELSE pc[t]]
  /\ tgt' = [t \in Threads |-> IF t \in S THEN NoVariant ELSE tgt[t]]
  /\ todo' = [w \in Validators |-> IF w \in S THEN {} ELSE todo[w]]
  /\ shot' = [o \in Operators |-> IF o \in S THEN Empty ELSE shot[o]]
  /\ want' = [o \in Operators |-> IF o \in S THEN FirstRegime ELSE want[o]]
  /\ UNCHANGED <<rowVars, configVars, deploys>>

Validate(w) ==
  \/ List(w) \/ ClaimRecover(w) \/ ClaimLook(w) \/ Claim(w) \/ TimedOut(w) \/ Verdict(w)

Deploy == Pick \/ Snapshot \/ ApplyVariant \/ MarkDeployed

Rollback(o) == RollbackLook(o) \/ Recall(o) \/ Restore(o) \/ MarkRolledBack(o)

Next ==
  \/ Generate
  \/ \E v \in Variants : Expire(v)
  \/ \E w \in Validators : BatchStart(w) \/ BacktestRequest(w) \/ Validate(w)
  \/ DeployBest \/ DeployRequest \/ Deploy
  \/ RollbackRequest \/ RecoverStuck
  \/ \E o \in {Loop, RollbackJob} : CheckConditions(o) \/ Rollback(o)
  \/ \E o \in {Loop, SwitchJob} : SwitchLook(o) \/ Switch(o)
  \/ \E t \in Threads : Fault(t)
  \/ Stop(Threads \ Scripts)
  \/ \E w \in Scripts : Stop({w})

Spec == Init /\ [][Next]_vars

\* Threads at work go on; time passes; the hourly job comes round.
Fairness ==
  /\ \A w \in Validators : WF_vars(Validate(w))
  /\ \A v \in Variants : WF_vars(Expire(v))
  /\ \A o \in {Loop, RollbackJob} : WF_vars(Rollback(o))
  /\ WF_vars(RecoverStuck)
FairSpec == Spec /\ Fairness

-----------------------------------------------------------------------------
\* The shape of the state.
RowsOK ==
  /\ status \in [Variants -> Statuses]
  /\ stale \subseteq Testing
  /\ since \in [Variants -> Nat] /\ rolled \subseteq Variants
  /\ saved \in [Variants -> Partial]
  /\ config \in [Keys -> Values] /\ regime \in Regimes
ThreadsOK ==
  /\ pc \in [Threads -> {"idle", "list", "recover", "look", "claim", "run", "pick", "snapshot", "apply",
                         "mark", "rollback", "recall", "restore", "unmark", "switch"}]
  /\ tgt \in [Threads -> Variants \cup {NoVariant}]
  /\ todo \in [Validators -> SUBSET Variants]
  /\ shot \in [Operators -> Partial] /\ want \in [Operators -> Regimes]
  /\ deploys \in Nat /\ faults \in Nat /\ torn \subseteq Variants
\* Types; a stamp counts as stale only while its row is testing, which is when
\* recover_stuck_testing looks at it.
TypeOK == RowsOK /\ ThreadsOK

\* "One variant at a time" (_claim_slot): what the claim keeps of it is one row per
\* thread, and exactly one for one thread.
SlotBounded == Cardinality(Testing) <= Cardinality(Validators)

\* Whatever is deployed can be rolled back: its snapshot has all of its keys.
Restorable == \A v \in Deployed : DOMAIN saved[v] = DOMAIN Diff[v]

\* "Only ONE variant active at a time": as long as nobody deploys by force.
OneDeployed == ~Forced => \A u, v \in Deployed : u = v

\* "Restores baseline config" (rollback_variant): while nothing is deployed, nor applied
\* and about to be marked, every key is what it was at first, also in the middle of two
\* overlapping rollbacks.  But for the keys that the regime switcher writes as well, and
\* those of a variant whose deployment an exception or a restart cut off once its keys
\* were written: the next snapshot takes them for the baseline.
Steered == IF Switches THEN UNION {DOMAIN Preset[r] : r \in Regimes} ELSE {}
Torn == UNION {DOMAIN Diff[v] : v \in torn}
BaselineRestored ==
  Deployed = {} /\ pc[Loop] # "mark" =>
    \A k \in Keys \ (Steered \cup Torn) : config[k] = Baseline[k]

\* A row does not stay testing: its run ends, or the hourly job takes it back.
TestingPasses == \A v \in Variants : v \in Testing ~> v \notin Testing
=============================================================================
