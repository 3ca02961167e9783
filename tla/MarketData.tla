------------------------------ MODULE MarketData ------------------------------
(***************************************************************************)
(* The universe, its prices and its indicators (engine_v4/data/collector.py,*)
(* the weekly refresh and the collecting pipeline of scheduler/jobs.py).   *)
(*                                                                         *)
(* An index page may not be read, a batch of a download may fail as a      *)
(* whole, a symbol may be missing from it and from its retry, and the      *)
(* service may stop between two transactions.  A bar is the day it is of;  *)
(* of an indicator row the model keeps the rank, as the number of symbols  *)
(* computed with it that returned less, and how many those were.           *)
(***************************************************************************)
EXTENDS Integers, FiniteSets, Functions

CONSTANTS
  Listed,                 \* index page -> symbols
  Seeds,                  \* _SEED_SYMBOLS
  Batches,                \* the symbols cut into batches
  Volume,                 \* dollar volume of a symbol, all different
  Return(_, _),           \* what a symbol returned up to a bar
  UnivSize,               \* universe_size
  CacheDays, RecentDays,  \* life of the cached universe; bars newer than this count
  MaxDay, MaxFaults       \* bounds

VARIABLES
  day,
  universe,               \* swing_universe: symbol -> [active, sector]
  cached,                 \* the cached universe: [symbols, until]
  bars,                   \* symbol -> its newest bar in daily_prices
  rows,                   \* symbol -> [bar, rank, among] in swing_indicators
  pc, top,                \* the job under way and what it works on
  faults

vars == <<day, universe, cached, bars, rows, pc, top, faults>>

Symbols == UNION Range(Listed) \cup Seeds
Active == {s \in DOMAIN universe : universe[s].active}
NoBar == 0

-----------------------------------------------------------------------------
(* refresh_universe                                                          *)

OnPages(read) == UNION {Listed[p] : p \in read}
\* Both pages unread: the seeds.
Candidates(read) == IF OnPages(read) = {} THEN Seeds ELSE OnPages(read)
\* Sectors come with the pages.
SectorSeen(read, s) == s \in OnPages(read)
\* The symbols of the batches that arrived, by volume.
Ranked(read, arrived) == {s \in Candidates(read) : \E b \in arrived : s \in b}
Largest(S) == {s \in S : Cardinality({t \in S : Volume[t] > Volume[s]}) < UnivSize}

Fetch ==
  /\ pc = "idle"
  /\ \E read \in SUBSET DOMAIN Listed, arrived \in SUBSET Batches :
       /\ top' = [s \in Largest(Ranked(read, arrived)) |-> SectorSeen(read, s)]
       /\ pc' = "upsert"
  /\ UNCHANGED <<day, universe, cached, bars, rows, faults>>

\* Mutant: a symbol without a sector loses the one it had.
SectorOverwritten(s, seen) == seen
Sector(s, seen) == seen \/ (s \in DOMAIN universe /\ universe[s].sector)
UpsertUniverse ==
  /\ pc = "upsert" /\ pc' = "deactivate"
  /\ universe' = [s \in DOMAIN universe \cup DOMAIN top |->
                   IF s \in DOMAIN top THEN [active |-> TRUE, sector |-> Sector(s, top[s])]
                   ELSE universe[s]]
  /\ UNCHANGED <<day, cached, bars, rows, top, faults>>

\* Mutant: no guard against an empty list.
MissingFromAny == DOMAIN universe \ DOMAIN top
Missing == IF DOMAIN top = {} THEN {} ELSE DOMAIN universe \ DOMAIN top
DeactivateMissing ==
  /\ pc = "deactivate" /\ pc' = "cache"
  /\ universe' = [s \in DOMAIN universe |->
                   IF s \in Missing THEN [universe[s] EXCEPT !.active = FALSE] ELSE universe[s]]
  /\ UNCHANGED <<day, cached, bars, rows, top, faults>>
CacheUniverse ==
  /\ pc = "cache" /\ pc' = "newly"
  /\ cached' = [symbols |-> DOMAIN top, until |-> day + CacheDays]
  /\ UNCHANGED <<day, universe, bars, rows, top, faults>>

-----------------------------------------------------------------------------
(* Prices and indicators                                                     *)

\* collect_prices: the symbols of S that got a bar, from a batch or a retry.
Arrivals(S) == {{s \in S : \E b \in arrived : s \in b} \ lost :
                  arrived \in SUBSET Batches, lost \in SUBSET S}
Collected(got) == [s \in Symbols |-> IF s \in got THEN day ELSE bars[s]]

\* compute_indicators: ranked among the symbols it was given that have bars.
Known(S, b) == {s \in S : b[s] # NoBar}
Row(K, b, s) ==
  [bar |-> b[s], rank |-> Cardinality({t \in K : Return(t, b[t]) < Return(s, b[s])}), among |-> Cardinality(K)]
Computed(S, b) == [s \in DOMAIN rows \cup Known(S, b) |->
                    IF s \in Known(S, b) THEN Row(Known(S, b), b, s) ELSE rows[s]]

\* The refresh collects what has no recent bars, and ranks it alone.
Unpriced == {s \in Active : bars[s] = NoBar \/ day - bars[s] >= RecentDays}
CollectNewly ==
  /\ pc = "newly" /\ pc' = "idle"
  /\ \E got \in Arrivals(Unpriced) :
       /\ bars' = Collected(got)
       /\ rows' = Computed(Unpriced, Collected(got))
  /\ top' = <<>>
  /\ UNCHANGED <<day, universe, cached, faults>>

\* get_universe: the cache, then the table.  An empty one is refreshed first.
GetUniverse == IF cached.symbols # {} /\ day < cached.until THEN cached.symbols ELSE Active
Collect ==
  /\ pc = "idle" /\ GetUniverse # {}
  /\ \E got \in Arrivals(GetUniverse) :
       /\ bars' = Collected(got)
       /\ rows' = Computed(GetUniverse, Collected(got))
  /\ UNCHANGED <<day, universe, cached, pc, top, faults>>

\* What a scan reads: the rows of the newest bar.
LatestIndicators ==
  {s \in DOMAIN rows : \A t \in DOMAIN rows : rows[t].bar <= rows[s].bar}

-----------------------------------------------------------------------------
NextDay == pc = "idle" /\ day < MaxDay /\ day' = day + 1 /\ UNCHANGED <<universe, cached, bars, rows, pc, top, faults>>
\* An exception or a restart between two transactions.
Fail ==
  /\ pc # "idle" /\ faults < MaxFaults
  /\ faults' = faults + 1
  /\ pc' = "idle" /\ top' = <<>>
  /\ UNCHANGED <<day, universe, cached, bars, rows>>

Init ==
  /\ day = 1
  /\ universe = [s \in {} |-> 0] /\ cached = [symbols |-> {}, until |-> 0]
  /\ bars = [s \in Symbols |-> NoBar] /\ rows = [s \in {} |-> 0]
  /\ pc = "idle" /\ top = <<>> /\ faults = 0

Next ==
  \/ Fetch \/ UpsertUniverse \/ DeactivateMissing \/ CacheUniverse \/ CollectNewly
  \/ Collect \/ NextDay \/ Fail
Spec == Init /\ [][Next]_vars

(***************************************************************************)
(* Properties.                                                             *)
(***************************************************************************)
\* However little of it a refresh could download, a universe once filled is not
\* emptied, and a sector once known is not forgotten.
UniverseKeptStep ==
  /\ Active # {} => Active' # {}
  /\ \A s \in DOMAIN universe : universe[s].sector => universe'[s].sector
UniverseKept == [][UniverseKeptStep]_vars

(***************************************************************************)
(* Why it holds: between the two updates, what the refresh found is active. *)
(***************************************************************************)
RefreshSound ==
  /\ \A s \in DOMAIN universe : universe[s] \in [active : BOOLEAN, sector : BOOLEAN]
  /\ pc = "upsert" => \A s \in DOMAIN top : top[s] \in BOOLEAN
  /\ pc = "deactivate" => DOMAIN top \subseteq Active
=============================================================================
