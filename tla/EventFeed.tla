----------------------------- MODULE EventFeed -----------------------------
(***************************************************************************)
(* News and filings of the held symbols on their way into swing_events and *)
(* to Telegram (engine_v4/events/): the sources are scanned by requests to *)
(* the event loop, what was reported before is skipped by a set in memory  *)
(* and by a query on recent rows, and what was stored is alerted.          *)
(***************************************************************************)
EXTENDS Integers, FiniteSets, Functions

CONSTANTS
  Items,       \* filings, articles and price moves
  Sources,     \* "efts" and "atom" (edgar.py), "news" and "price" (collector.py)
  DateOf,      \* item -> the day it bears
  Lookback,    \* source -> days it goes back
  KeyOf,       \* source -> item -> what the scanner remembers it by
  TitleOf,     \* source -> item -> the title of the event made of it
  DedupDays,   \* event_dedup_days
  MaxDay,      \* bound on the calendar
  MaxFaults    \* bound on failures and restarts

VARIABLES
  day,
  out,         \* the items the sources show
  seen,        \* _seen_accessions and _seen_news, lost with the process
  rows, last,  \* swing_events: title -> rows, day of the youngest
  sending,     \* titles in the results of a request that awaits Telegram
  alerts,      \* title -> alerts sent
  faults

vars == <<day, out, seen, rows, last, sending, alerts, faults>>

Titles == UNION {Range(TitleOf[s]) : s \in Sources}

\* EDGAR's two ways in share one set; price moves are remembered nowhere.
Memory(s) == CASE s \in {"efts", "atom"} -> {"_seen_accessions"}
               [] s = "news" -> {"_seen_news"}
               [] OTHER -> {}
Mark(s, i) == Memory(s) \X {KeyOf[s][i]}

Init ==
  /\ day = 1
  /\ out = {}
  /\ seen = {}
  /\ rows = [t \in Titles |-> 0] /\ last = [t \in Titles |-> 0]
  /\ sending = {}
  /\ alerts = [t \in Titles |-> 0]
  /\ faults = 0

Appear(i) ==
  /\ i \notin out /\ DateOf[i] = day
  /\ out' = out \cup {i}
  /\ UNCHANGED <<day, seen, rows, last, sending, alerts, faults>>

NextDay ==
  /\ day < MaxDay /\ sending = {}
  /\ day' = day + 1
  /\ UNCHANGED <<out, seen, rows, last, sending, alerts, faults>>

New(s) ==
  {i \in out \cap DOMAIN KeyOf[s] : day - DateOf[i] <= Lookback[s] /\ Mark(s, i) \cap seen = {}}

\* _recent_duplicate_id: a row is younger than the item it was made of.
Recent(t) == rows[t] > 0 /\ day - last[t] <= DedupDays

\* A request: the scanner marks what it finds, then each event is looked up, stored
\* and given its action, all without an await.  An event that fails is logged and left,
\* stored or not.  One title stands for all the events of the batch that bear it.
Scan(s) ==
  \E F \in SUBSET New(s) :
    /\ F # {}
    /\ \A i, j \in F : KeyOf[s][i] = KeyOf[s][j] => i = j
    /\ \A i \in New(s) : \E j \in F : KeyOf[s][i] = KeyOf[s][j]
    /\ seen' = seen \cup UNION {Mark(s, i) : i \in F}
    /\ LET fresh == {TitleOf[s][i] : i \in {j \in F : ~Recent(TitleOf[s][j])}}
       IN \E saved \in SUBSET fresh : \E results \in SUBSET saved :
            /\ faults' = faults + Cardinality(fresh \ results) /\ faults' <= MaxFaults
            /\ rows' = [t \in Titles |-> IF t \in saved THEN rows[t] + 1 ELSE rows[t]]
            /\ last' = [t \in Titles |-> IF t \in saved THEN day ELSE last[t]]
            /\ sending' = sending \cup results
    /\ UNCHANGED <<day, out, alerts>>

\* Mutant: the results stay for the next batch.
NotifyAgain(t) ==
  /\ t \in sending
  /\ alerts' = [alerts EXCEPT ![t] = @ + 1]
  /\ UNCHANGED <<day, out, seen, rows, last, sending, faults>>

\* notify_events_batch; info events are not sent.
Notify(t) ==
  /\ t \in sending
  /\ sending' = sending \ {t}
  /\ alerts' = [alerts EXCEPT ![t] = @ + 1]
  /\ UNCHANGED <<day, out, seen, rows, last, faults>>

\* Telegram does not take it.
NotifyFails(t) ==
  /\ t \in sending
  /\ faults' = faults + 1 /\ faults' <= MaxFaults
  /\ sending' = sending \ {t}
  /\ UNCHANGED <<day, out, seen, rows, last, alerts>>

Restart ==
  /\ faults' = faults + 1 /\ faults' <= MaxFaults
  /\ seen' = {} /\ sending' = {}
  /\ UNCHANGED <<day, out, rows, last, alerts>>

Next ==
  \/ NextDay \/ Restart
  \/ \E i \in Items : Appear(i)
  \/ \E s \in Sources : Scan(s)
  \/ \E t \in Titles : Notify(t) \/ NotifyFails(t)

Spec == Init /\ [][Next]_vars

(***************************************************************************)
(* Properties.                                                             *)
(***************************************************************************)
\* An alert is for a stored row, and no row is alerted twice, not even when the
\* request that sends it overlaps the next scan; and whatever is scanned again, by
\* the other way into EDGAR or by a new process that remembers nothing, a title is
\* stored no more often than there are days on which something bears it (as long as
\* DedupDays reaches as far back as the sources).
DaysOf(t) == {DateOf[i] : i \in {j \in Items : \E s \in Sources : j \in DOMAIN TitleOf[s] /\ TitleOf[s][j] = t}}
AlertedOnce ==
  \A t \in Titles : /\ alerts[t] + (IF t \in sending THEN 1 ELSE 0) <= rows[t]
                    /\ rows[t] <= Cardinality(DaysOf(t))
=============================================================================
