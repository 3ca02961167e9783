----------------------------- MODULE WatchlistLog -----------------------------
(***************************************************************************)
(* The watchlist's daily analysis (api/main.py _analyze_watchlist and the  *)
(* endpoints around it, Scheduler._job_watchlist_analysis) and the tables  *)
(* it fills: alerts, and the signal log the replay reads.                  *)
(*                                                                         *)
(* An analysis reads the list, downloads a year of prices, then writes     *)
(* symbol by symbol, each write a transaction of its own; it may run past  *)
(* midnight, beside another, and a write or a message may fail.            *)
(***************************************************************************)
EXTENDS Integers, Sequences, FiniteSets

CONSTANTS
  Symbols,
  Runs,                   \* background tasks that may analyse at a time
  StrongOn,               \* days whose prices make a signal worth a message
  MaxDay, MaxRuns, MaxFaults

VARIABLES
  day,
  listed,                 \* swing_watchlist.is_active
  pc, todo, data,         \* task -> its place, the symbols left, the day of its prices
  alerts,                 \* swing_watchlist_alerts: symbol -> days of the prices
  log,                    \* swing_watchlist_signal_log: <<symbol, date>> -> day of the prices
  sent,                   \* messages: <<symbol, date>>
  cached,                 \* "watchlist_analysis"
  job, jobLog,            \* the scheduled job, and its pipeline rows
  begun, faults

vars == <<day, listed, pc, todo, data, alerts, log, sent, cached, job, jobLog, begun, faults>>

NoRow == 0
Goto(r, l) == pc' = [pc EXCEPT ![r] = l]
First(S) == CHOOSE s \in S : TRUE
Faulty == faults < MaxFaults /\ faults' = faults + 1

-----------------------------------------------------------------------------
(* _analyze_watchlist                                                        *)

\* POST /watchlist/analyze, by a person or by the job.
Start(r) ==
  /\ pc[r] = "idle" /\ begun < MaxRuns /\ begun' = begun + 1
  /\ IF listed = {} THEN cached' = [status |-> "done", count |-> 0] /\ UNCHANGED <<pc, todo>>
     ELSE Goto(r, "download") /\ todo' = [todo EXCEPT ![r] = listed] /\ UNCHANGED cached
Requested(r) == Start(r) /\ UNCHANGED <<day, listed, data, alerts, log, sent, job, jobLog, faults>>
Download(r) ==
  /\ pc[r] = "download"
  /\ Goto(r, "alert") /\ data' = [data EXCEPT ![r] = day]
  /\ UNCHANGED <<day, listed, todo, alerts, log, sent, cached, job, jobLog, begun, faults>>
DownloadFails(r) ==
  /\ pc[r] = "download" /\ Faulty
  /\ Goto(r, "idle") /\ cached' = [status |-> "failed", count |-> 0]
  /\ UNCHANGED <<day, listed, todo, data, alerts, log, sent, job, jobLog, begun>>

\* One symbol: the alert, the log of the day, a message; the first that fails ends it.
Alert(r) ==
  /\ pc[r] = "alert" /\ todo[r] # {}
  /\ alerts' = [alerts EXCEPT ![First(todo[r])] = @ \cup {data[r]}]
  /\ Goto(r, "log")
  /\ UNCHANGED <<day, listed, todo, data, log, sent, cached, job, jobLog, begun, faults>>
Log(r) ==
  /\ pc[r] = "log"
  /\ log' = [log EXCEPT ![<<First(todo[r]), day>>] = data[r]]
  /\ Goto(r, "send")
  /\ UNCHANGED <<day, listed, todo, data, alerts, sent, cached, job, jobLog, begun, faults>>
Send(r) ==
  /\ pc[r] = "send"
  /\ sent' = IF data[r] \in StrongOn THEN sent \cup {<<First(todo[r]), data[r]>>} ELSE sent
  /\ todo' = [todo EXCEPT ![r] = @ \ {First(@)}]
  /\ Goto(r, "alert")
  /\ UNCHANGED <<day, listed, data, alerts, log, cached, job, jobLog, begun, faults>>
\* Mutant: each write is tried on its own.
NextAnyway(stage) == IF stage = "alert" THEN "log" ELSE IF stage = "log" THEN "send" ELSE "alert"
NextSymbol(stage) == "alert"
SymbolFails(r) ==
  /\ pc[r] \in {"alert", "log", "send"} /\ todo[r] # {} /\ Faulty
  /\ Goto(r, NextSymbol(pc[r]))
  /\ todo' = [todo EXCEPT ![r] = IF NextSymbol(pc[r]) = "alert" THEN @ \ {First(@)} ELSE @]
  /\ UNCHANGED <<day, listed, data, alerts, log, sent, cached, job, jobLog, begun>>
Finish(r) ==
  /\ pc[r] = "alert" /\ todo[r] = {}
  /\ cached' = [status |-> "done", count |-> Cardinality(listed)]
  /\ Goto(r, "idle") /\ data' = [data EXCEPT ![r] = NoRow]
  /\ UNCHANGED <<day, listed, todo, alerts, log, sent, job, jobLog, begun, faults>>

-----------------------------------------------------------------------------
\* _job_watchlist_analysis: the API is asked, then polled; what it polls may be an
\* earlier answer.
Trigger ==
  /\ job = "idle" /\ listed # {}
  /\ \E r \in Runs : Start(r)
  /\ job' = "poll"
  /\ UNCHANGED <<day, listed, data, alerts, log, sent, jobLog, faults>>
Poll ==
  /\ job = "poll" /\ job' = "idle"
  /\ jobLog' = IF cached.status = "done" THEN jobLog \cup {day} ELSE jobLog
  /\ UNCHANGED <<day, listed, pc, todo, data, alerts, log, sent, cached, begun, faults>>

\* upsert_watchlist, delete_watchlist, midnight, the cached answer's end.
Toggle(s) ==
  /\ listed' = IF s \in listed THEN listed \ {s} ELSE listed \cup {s}
  /\ UNCHANGED <<day, pc, todo, data, alerts, log, sent, cached, job, jobLog, begun, faults>>
NextDay ==
  /\ day < MaxDay /\ day' = day + 1 /\ cached' = [status |-> "none", count |-> 0]
  /\ UNCHANGED <<listed, pc, todo, data, alerts, log, sent, job, jobLog, begun, faults>>

Init ==
  /\ day = 1 /\ listed = Symbols
  /\ pc = [r \in Runs |-> "idle"] /\ todo = [r \in Runs |-> {}] /\ data = [r \in Runs |-> NoRow]
  /\ alerts = [s \in Symbols |-> {}] /\ log = [e \in Symbols \X (1 .. MaxDay) |-> NoRow] /\ sent = {}
  /\ cached = [status |-> "none", count |-> 0] /\ job = "idle" /\ jobLog = {}
  /\ begun = 0 /\ faults = 0
Next ==
  \/ Trigger \/ Poll \/ NextDay \/ \E s \in Symbols : Toggle(s)
  \/ \E r \in Runs :
       Requested(r) \/ Download(r) \/ DownloadFails(r) \/ Alert(r) \/ Log(r) \/ Send(r) \/ SymbolFails(r)
         \/ Finish(r)
Spec == Init /\ [][Next]_vars

(***************************************************************************)
(* Properties.                                                             *)
(***************************************************************************)
\* The replay may trust the log: a row of a date rests on prices known on that date,
\* every row has its alert, and what was announced is in the log, also when a write
\* failed, when two analyses overlap and when one runs past midnight.
LogSound ==
  /\ \A e \in DOMAIN log : log[e] # NoRow => log[e] <= e[2] /\ log[e] \in alerts[e[1]]
  /\ \A m \in sent : \E d \in m[2] .. MaxDay : log[<<m[1], d>>] # NoRow
===============================================================================
