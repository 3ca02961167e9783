------------------------------- MODULE Schedule -------------------------------
(***************************************************************************)
(* The week of the scheduler (engine_v4/scheduler/jobs.py _setup_jobs,     *)
(* start, stop): cron triggers in Korean time against New York sessions    *)
(* that start an hour earlier in summer.                                   *)
(*                                                                         *)
(* Time is a slot of five minutes of the week, from Monday 00:00 KST.  A   *)
(* job has one instance at a time, and a trigger that finds the service    *)
(* down, or the job running, is lost: jobs are in memory and the grace for *)
(* a misfire is one second.                                                *)
(***************************************************************************)
EXTENDS Integers, FiniteSets, TLC

CONSTANTS
  Longest,              \* job -> slots it may still be running after its start
  Workers,              \* threads of the scheduler
  MaxQuiet              \* slots of a session without an exit check

VARIABLES
  season, now,
  up,                   \* the service runs
  running,              \* job -> slots since it started
  quiet                 \* slots since the last exit check, in a session and up
vars == <<season, now, up, running, quiet>>

PerDay == 288
Week == 7 * PerDay
MonFri == 0 .. 4
MonSat == 0 .. 5
\* Mutant: the early hours of the same days.
DawnOfWeekdays == 0 .. 4
\* Nights belong to the session of the evening before.
TueSat == 1 .. 5
Saturday == {5}
AnyDay == 0 .. 6
AnyHour == 0 .. 23
Slot(h, m) == 12 * h + m \div 5
At(days, h, m) == [days |-> days, slots |-> {Slot(h, m)}]
EveryHour(m) == [days |-> AnyDay, slots |-> {Slot(h, m) : h \in AnyHour}]

(***************************************************************************)
(* The timetable.  The 1st and the 16th may be any day of the week.        *)
(***************************************************************************)
Pipelines ==
  [daily_pipeline            |-> At(MonSat, 7, 0),
   daily_pipeline_preopen    |-> At(MonFri, 21, 30),
   daily_pipeline_midsession |-> At(TueSat, 2, 0)]
Checks ==
  [validation_recheck |-> At(AnyDay, 9, 0),
   premarket_check    |-> At(MonFri, 22, 0),
   exit_check_1       |-> At(MonFri, 23, 30),
   hedge_check        |-> At(TueSat, 5, 35),
   core_allocate      |-> At(TueSat, 0, 30),
   exit_check_2       |-> At(TueSat, 1, 0),
   exit_check_3       |-> At(TueSat, 3, 0),
   exit_check_close   |-> At(TueSat, 5, 30),
   refresh_universe   |-> At(Saturday, 10, 0)]
Mornings ==
  [afterhours_check     |-> At(TueSat, 7, 30),
   expire_signals       |-> At(AnyDay, 6, 0),
   watchlist_analysis   |-> At(MonSat, 7, 40),
   macro_collect        |-> At(MonSat, 6, 45),
   social_collect       |-> At(MonSat, 6, 50),
   lstm_retrain         |-> At(Saturday, 9, 0),
   post_market_analysis |-> At(TueSat, 6, 5)]
Approvals ==
  [auto_approve       |-> At(MonFri, 22, 0),
   auto_approve_mid   |-> At(TueSat, 1, 30),
   auto_approve_close |-> At(TueSat, 4, 30)]
Saturdays ==
  [formula_lab     |-> At(Saturday, 11, 30),
   self_check      |-> At(Saturday, 11, 0),
   factor_ic       |-> At(Saturday, 10, 30),
   pead_collect    |-> At(Saturday, 8, 30),
   weekly_research |-> At(Saturday, 8, 0)]
Returning ==
  [regime_switch_check |-> EveryHour(0),
   monthly_variant_gen |-> At(AnyDay, 11, 0),
   rollback_check      |-> EveryHour(15)]
Scans ==
  [events_scan_open  |-> At(MonFri, 23, 0),
   events_scan_close |-> At(TueSat, 4, 0),
   edgar_scan        |-> At(TueSat, 6, 30)]
Monthly == {"validation_recheck", "monthly_variant_gen"}
Due(t) ==
  LET timetable == Pipelines @@ Checks @@ Mornings @@ Approvals @@ Saturdays @@ Returning @@ Scans
  IN {j \in DOMAIN timetable : t \div PerDay \in timetable[j].days /\ t % PerDay \in timetable[j].slots}

(***************************************************************************)
(* New York: 09:30 to 16:00, on Monday to Friday there.                    *)
(***************************************************************************)
OpeningSlot(s) == IF s = "summer" THEN Slot(22, 30) ELSE Slot(23, 30)
SessionLength == 78
Open(s, t) == \E d \in MonFri : t - PerDay * d - OpeningSlot(s) \in 0 .. SessionLength - 1

-----------------------------------------------------------------------------
ExitJobs == {"exit_check_1", "exit_check_2", "exit_check_3", "exit_check_close"}
\* Five minutes pass; a trigger of the 1st or the 16th is skipped on other days.
Pass ==
  LET t == (now + 1) % Week
      still == DOMAIN running
      due == Due(t)
  IN /\ \A j \in still : running[j] < Longest[j]
     /\ now' = t
     /\ \E skipped \in SUBSET (due \cap Monthly) :
          LET new == IF up THEN {j \in due \ skipped : j \notin still} ELSE {}
          IN /\ running' = [j \in still \cup new |-> IF j \in new THEN 0 ELSE running[j] + 1]
             /\ quiet' = IF ~up \/ ~Open(season, t) \/ new \cap ExitJobs # {} THEN 0
                         ELSE IF Open(season, now) THEN quiet + 1 ELSE 0
     /\ UNCHANGED <<season, up>>
Finish(j) ==
  /\ j \in DOMAIN running
  /\ running' = [k \in DOMAIN running \ {j} |-> running[k]]
  /\ UNCHANGED <<season, now, up, quiet>>

\* stop, or a crash: what runs is lost; start, by systemd or by hand.
Stop == up /\ up' = FALSE /\ running' = [j \in {} |-> 0] /\ quiet' = 0 /\ UNCHANGED <<season, now>>
Start == ~up /\ up' = TRUE /\ UNCHANGED <<season, now, running, quiet>>

Init ==
  /\ season \in {"summer", "winter"} /\ now = 0 /\ up = TRUE
  /\ running = [j \in {} |-> 0] /\ quiet = 0
Next == Pass \/ Stop \/ Start \/ \E j \in DOMAIN running : Finish(j)
Spec == Init /\ [][Next]_vars

(***************************************************************************)
(* Properties.                                                             *)
(***************************************************************************)
\* In summer and in winter, in every session of the week: no longer than MaxQuiet passes
\* without an exit check, also after a restart.
Watched == quiet <= MaxQuiet
\* No two jobs that trade run together, on which what is shown of a single exit check
\* rests: all but the last of the night have half an hour to themselves, the last five
\* minutes.
Traders == ExitJobs \cup DOMAIN Approvals \cup {"core_allocate", "hedge_check"}
TradersApart == \A j, k \in Traders \cap DOMAIN running : j = k
\* Nothing starts while what it reads is still being gathered.
Reads ==
  {<<"daily_pipeline_preopen", "auto_approve">>, <<"expire_signals", "daily_pipeline">>,
   <<"macro_collect", "daily_pipeline">>, <<"social_collect", "daily_pipeline">>,
   <<"refresh_universe", "factor_ic">>, <<"refresh_universe", "self_check">>,
   <<"pead_collect", "factor_ic">>}
InputsFirst == \A r \in Reads : ~({r[1], r[2]} \subseteq DOMAIN running)
\* Jobs that trade at the market find it open in either season, and the approval of the
\* evening comes before the opening.
AtTheMarket == {"exit_check_1", "exit_check_2", "exit_check_3", "core_allocate", "auto_approve_mid", "auto_approve_close"}
MarketOpen ==
  /\ \A j \in AtTheMarket \cap DOMAIN running : running[j] = 0 => Open(season, now)
  /\ "auto_approve" \in DOMAIN running /\ running["auto_approve"] = 0
       => ~Open(season, now) /\ Open(season, now + 18)
\* No job waits for a thread.
PoolSuffices == Cardinality(DOMAIN running) <= Workers
TimetableSound == Watched /\ TradersApart /\ InputsFirst /\ MarketOpen /\ PoolSuffices
===============================================================================
