---------------------------- MODULE ExtendedHours ----------------------------
(***************************************************************************)
(* Prices outside the regular session (engine_v4/data/extended_hours.py,   *)
(* Scheduler._job_premarket_check, _job_afterhours_check, and the two      *)
(* endpoints), and the guard for prices that stopped altogether            *)
(* (_alert_price_gaps, called by the exit check).                          *)
(*                                                                         *)
(* Prices are whole, gaps in tenths of a percent; 0 is no price.           *)
(***************************************************************************)
EXTENDS Integers, FiniteSets

CONSTANTS
  Symbols,
  Quotes,                   \* what the tickers may answer; Silent when one fails
  Roles,                    \* symbol -> "held", "pending", "watched", from which Init chooses
  MaxAlerts,                \* alerts[:10]
  CacheTicks,               \* ttl 7200
  GapDays, DedupTicks,      \* PRICE_GAP_BUSDAYS; 20 hours
  TicksADay, MaxTick        \* bounds of the clock

VARIABLES
  tick,
  roles,
  quotes,
  message,                  \* last report: what was fetched, who is named; not sent if nobody is
  cached,                   \* "extended_hours"
  lastBar,                  \* symbol -> day of its newest daily bar
  stopped,                  \* symbols whose bars have stopped
  events,                   \* price_gap events: symbol -> tick of the newest
  checked                   \* last tick the exit check ran

vars == <<tick, roles, quotes, message, cached, lastBar, stopped, events, checked>>

Is(s, r) == r \in roles[s]
Day == tick \div TicksADay
Silent == [state |-> "SILENT"]
Permille(p, base) == IF base = 0 THEN 0 ELSE ((p - base) * 1000) \div base
Size(x) == IF x < 0 THEN -x ELSE x

(***************************************************************************)
(* fetch_extended_hours                                                    *)
(***************************************************************************)
SessionOf(q) ==
  CASE q.state = "PRE" /\ q.pre # 0    -> "pre"
    [] q.state = "POST" /\ q.post # 0  -> "post"
    [] q.state = "CLOSED"              -> IF q.post # 0 THEN "post" ELSE "closed"
    [] OTHER                           -> "regular"
\* Mutant: every session against the previous close.
GapFromClose(q) ==
  CASE SessionOf(q) = "pre"     -> Permille(q.pre, q.close)
    [] SessionOf(q) = "post"    -> Permille(q.post, q.close)
    [] SessionOf(q) = "regular" -> Permille(q.price, q.close)
    [] OTHER                    -> 0
Gap(q) ==
  CASE SessionOf(q) = "pre"     -> Permille(q.pre, q.close)
    [] SessionOf(q) = "post"    -> Permille(q.post, q.price)
    [] SessionOf(q) = "regular" -> Permille(q.price, q.close)
    [] OTHER                    -> 0
Fetched == [s \in {s \in Symbols : roles[s] # {} /\ quotes[s] # Silent} |-> quotes[s]]

(***************************************************************************)
(* The two reports: at most MaxAlerts of what there is to say, symbol by   *)
(* symbol in the order of a Python set of strings, which may be any.       *)
(***************************************************************************)
Say(s, kind, when) == IF when THEN {[symbol |-> s, kind |-> kind]} ELSE {}
PreAlerts(s, q) ==
  IF q.pre = 0 THEN {}
  ELSE Say(s, "gap", Is(s, "held") /\ Size(Gap(q)) >= 20)
       \cup Say(s, "confirms", Is(s, "pending") /\ Gap(q) >= 10)
       \cup Say(s, "warns", Is(s, "pending") /\ Gap(q) <= -20)
PostAlerts(s, q) ==
  IF q.post = 0 THEN {}
  ELSE Say(s, "drop", Is(s, "held") /\ Gap(q) <= -30)
       \cup Say(s, "surge", Is(s, "held") /\ Gap(q) >= 50)
       \cup Say(s, "move", ~Is(s, "held") /\ Size(Gap(q)) >= 40)
Alerts(session, data) ==
  UNION {IF session = "pre" THEN PreAlerts(s, data[s]) ELSE PostAlerts(s, data[s]) : s \in DOMAIN data}
\* alerts[:10]; what is said of a held symbol comes before what its signal gets.
Named(all) ==
  {n \in SUBSET all :
     /\ Cardinality(n) = IF Cardinality(all) < MaxAlerts THEN Cardinality(all) ELSE MaxAlerts
     /\ \A a \in n, b \in all : b.symbol = a.symbol /\ b.kind = "gap" => b \in n}

\* The after-hours job leaves pending signals out.
Looked(session) ==
  IF session = "pre" THEN Fetched
  ELSE [s \in {s \in DOMAIN Fetched : Is(s, "held") \/ Is(s, "watched")} |-> quotes[s]]
Report(session) ==
  /\ DOMAIN Looked(session) # {}
  /\ cached' = [until |-> tick + CacheTicks, session |-> session]
  /\ \E n \in Named(Alerts(session, Looked(session))) :
       message' = [session |-> session, data |-> Looked(session), alerts |-> n]
  /\ UNCHANGED <<tick, roles, quotes, lastBar, stopped, events, checked>>
\* POST /extended-hours/check: no message.
CheckNow ==
  /\ cached' = [until |-> tick + CacheTicks, session |-> "any"]
  /\ UNCHANGED <<tick, roles, quotes, message, lastBar, stopped, events, checked>>

(***************************************************************************)
(* _alert_price_gaps: the exit check has no price; the newest daily bar    *)
(* decides, none if the probe fails; one event in twenty hours.            *)
(***************************************************************************)
Held == {s \in Symbols : Is(s, "held")}
\* Mutant: a probe that fails says nothing.
GoneIfSeen(bar) == bar # 0 /\ Day - bar > GapDays
Gone(bar) == bar = 0 \/ Day - bar > GapDays
Fresh(s) == events[s] > tick - DedupTicks
ExitCheck ==
  /\ checked < tick /\ checked' = tick
  /\ \E failing \in {{}, stopped} :
       LET bar(s) == IF s \in failing THEN 0 ELSE lastBar[s]
       IN events' = [s \in Symbols |->
                       IF s \in Held \cap stopped /\ Gone(bar(s)) /\ ~Fresh(s) THEN tick ELSE events[s]]
  /\ UNCHANGED <<tick, roles, quotes, message, cached, lastBar, stopped>>

-----------------------------------------------------------------------------
(* The market: quotes change, a symbol is delisted.  No day ends without the *)
(* exit check at its close, which a service that is down would miss.         *)
Pass ==
  /\ tick < MaxTick /\ tick' = tick + 1
  /\ tick' % TicksADay = 0 => checked = tick
  /\ quotes' \in Quotes
  /\ lastBar' = [s \in Symbols |-> IF s \in stopped THEN lastBar[s] ELSE tick' \div TicksADay]
  /\ UNCHANGED <<roles, message, cached, stopped, events, checked>>
Delist(s) ==
  /\ stopped = {} /\ stopped' = {s}
  /\ UNCHANGED <<tick, roles, quotes, message, cached, lastBar, events, checked>>

Init ==
  /\ tick = TicksADay /\ roles \in Roles /\ quotes = [s \in Symbols |-> Silent]
  /\ message = [session |-> "none"] /\ cached = [until |-> 0]
  /\ lastBar = [s \in Symbols |-> 1] /\ stopped = {} /\ events = [s \in Symbols |-> 0] /\ checked = TicksADay
Next ==
  \/ Pass \/ CheckNow \/ ExitCheck \/ \E s \in Symbols : Delist(s)
  \/ \E session \in {"pre", "post"} : Report(session)
Spec == Init /\ [][Next]_vars

(***************************************************************************)
(* Properties.                                                             *)
(***************************************************************************)
\* A report names every held symbol that moved far enough since the price it is
\* measured from, or is full: after hours that price is the day's, before them the
\* previous close.
Moved(session, q) ==
  IF session = "pre" THEN q.state = "PRE" /\ q.pre # 0 /\ q.close > 0 /\ 50 * Size(q.pre - q.close) >= q.close
  ELSE q.state = "POST" /\ q.post # 0 /\ q.price > 0 /\ 100 * (q.price - q.post) >= 3 * q.price
MovesTold ==
  message.session # "none" =>
    \A s \in DOMAIN message.data \cap Held :
      Moved(message.session, message.data[s])
        => Cardinality(message.alerts) = MaxAlerts \/ \E a \in message.alerts : a.symbol = s
\* A held symbol without bars for longer than GapDays has an event from each of the days
\* since: the one of yesterday never hides today's.
GapTold ==
  \A s \in Held \cap stopped :
    Day - lastBar[s] > GapDays + 1 => events[s] >= (Day - 1) * TicksADay
WatchedOutside == MovesTold /\ GapTold
=============================================================================
