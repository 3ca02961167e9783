------------------------------ MODULE PostMortem ------------------------------
(***************************************************************************)
(* What a position could have been: the post-mortem of analysis/mfe_mae.py *)
(* and the exit layers replayed by analysis/counterfactual.py.  Both read  *)
(* a row and the bars collected so far, compute, and store in another      *)
(* transaction, while the row is sold and bars arrive.                     *)
(*                                                                         *)
(* One long position (the engine opens no other); gains are differences    *)
(* from the entry price.  A bar is [low, high, close].                     *)
(***************************************************************************)
EXTENDS Integers, Sequences, FiniteSetsExt

CONSTANTS
  Bars,                   \* what a day may look like
  Entry, Atr,             \* entry price and ATR at entry
  Qty,
  HardMult, TrailMult, ActivationR, TimeStopDays, TakeProfit, \* of the layers
  After,                  \* days replayed beyond the exit
  Workers,                \* requests that backfill
  MaxDay, MaxFills        \* bounds

VARIABLES
  bars,                   \* bars of the days so far, the entry's first
  known,                  \* how many of them are in daily_prices
  row,                    \* [qty, exit, gain]: swing_positions
  post,                   \* row of swing_trade_postmortem, or NoPost
  pc, found, fills

vars == <<bars, known, row, post, pc, found, fills>>

Today == Len(bars)
Open == row.exit = 0
NoPost == [closed |-> FALSE, days |-> 0]
Least(a, b) == IF a < b THEN a ELSE b

-----------------------------------------------------------------------------
(* compute_mfe_mae: the best and the worst price while the row was held      *)

\* Mutant: the bar of the exit is left out.
BeforeExit == 1 .. Least(known, IF Open THEN Today ELSE row.exit - 1)
HeldDays == 1 .. Least(known, IF Open THEN Today ELSE row.exit + 1)
Best(D) == Max({bars[d].high : d \in D})
Worst(D) == Min({bars[d].low : d \in D})
MfeMae(D) ==
  [closed |-> ~Open, days |-> known, qty |-> row.qty, mfe |-> Best(D) - Entry, mae |-> Worst(D) - Entry,
   realized |-> row.gain, layers |-> <<>>]

-----------------------------------------------------------------------------
(* simulate_counterfactuals: each layer alone, over the bars until After     *)
(* days beyond the exit.  A layer that never fires gives nothing.            *)

Replayed == 1 .. Least(known, row.exit + After)
Risk == HardMult * Atr
Peak(d) == Max({bars[e].high : e \in 1 .. d} \cup {Entry})

\* Trailing, from the day the peak is ActivationR risks above the entry.
\* Mutant: the trail above the peak.
TrailAbove(d) == Peak(d) + TrailMult * Atr
TrailStop(d) == Peak(d) - TrailMult * Atr
TrailHit(d) == Peak(d) - Entry >= ActivationR * Risk /\ bars[d].low <= TrailStop(d)
Trail(D) == LET hits == {d \in D : TrailHit(d)} IN IF hits = {} THEN {} ELSE {TrailStop(Min(hits))}

HardStop(D) == IF \E d \in D : bars[d].low <= Entry - Risk THEN {Entry - Risk} ELSE {}
\* The close of bar TimeStopDays counted from the entry, or of the last bar.
TimeStop(D) == {bars[Least(TimeStopDays + 1, Max(D))].close}
Profit(D) == IF \E d \in D : bars[d].high >= TakeProfit THEN {TakeProfit} ELSE {}
Layers(D) ==
  [trail |-> Trail(D), hard |-> HardStop(D), time |-> TimeStop(D), profit |-> Profit(D),
   peak |-> {Best(D)}, end |-> {bars[Max(D)].close}]

-----------------------------------------------------------------------------
(* The backfills.                                                            *)

Goto(w, l) == pc' = [pc EXCEPT ![w] = l]
Compute(w) ==
  /\ pc[w] = "idle" /\ fills < MaxFills
  /\ HeldDays # {}
  /\ fills' = fills + 1
  /\ found' = [found EXCEPT ![w] = MfeMae(HeldDays)]
  /\ Goto(w, "upsert")
  /\ UNCHANGED <<bars, known, row, post>>
\* The upsert leaves the first quantity, and the layers, as they are.
Upsert(w) ==
  /\ pc[w] = "upsert"
  /\ post' = IF post = NoPost THEN found[w]
             ELSE [found[w] EXCEPT !.qty = post.qty, !.layers = post.layers]
  /\ found' = [found EXCEPT ![w] = NoPost]
  /\ Goto(w, "idle")
  /\ UNCHANGED <<bars, known, row, fills>>

\* Only closed rows with a post-mortem.
Replay(w) ==
  /\ pc[w] = "idle" /\ fills < MaxFills
  /\ ~Open /\ post # NoPost /\ known >= 1
  /\ fills' = fills + 1
  /\ found' = [found EXCEPT ![w] = Layers(Replayed)]
  /\ Goto(w, "patch")
  /\ UNCHANGED <<bars, known, row, post>>
Patch(w) ==
  /\ pc[w] = "patch"
  /\ post' = [post EXCEPT !.layers = found[w]]
  /\ found' = [found EXCEPT ![w] = NoPost]
  /\ Goto(w, "idle")
  /\ UNCHANGED <<bars, known, row, fills>>

-----------------------------------------------------------------------------
NewDay == Today < MaxDay /\ \E b \in Bars : bars' = Append(bars, b) /\ UNCHANGED <<known, row, post, pc, found, fills>>
CollectBars == known < Today /\ known' = Today /\ UNCHANGED <<bars, row, post, pc, found, fills>>
\* A sale at a price of the day.
Close ==
  /\ Open
  /\ \E p \in {bars[Today].low, bars[Today].high} : row' = [row EXCEPT !.exit = Today, !.gain = p - Entry]
  /\ UNCHANGED <<bars, known, post, pc, found, fills>>
SellPart == Open /\ row.qty > 1 /\ row' = [row EXCEPT !.qty = row.qty - 1] /\ UNCHANGED <<bars, known, post, pc, found, fills>>

Init ==
  /\ \E b \in Bars : b.low <= Entry /\ Entry <= b.high /\ bars = <<b>>
  /\ known = 0
  /\ row = [qty |-> Qty, exit |-> 0, gain |-> 0]
  /\ post = NoPost
  /\ pc = [w \in Workers |-> "idle"] /\ found = [w \in Workers |-> NoPost] /\ fills = 0
Next ==
  \/ \E w \in Workers : Compute(w) \/ Upsert(w) \/ Replay(w) \/ Patch(w)
  \/ NewDay \/ CollectBars \/ Close \/ SellPart
Spec == Init /\ [][Next]_vars

(***************************************************************************)
(* Properties.                                                             *)
(***************************************************************************)
\* A layer's price, where it fired, is no better than the best that was seen.
NoneBeatsPeak(layers) ==
  \A l \in DOMAIN layers : \A p \in layers[l], q \in layers.peak : p <= q
\* Computed over the bar of its exit, a position realised no more than the best
\* and no less than the worst it saw, however late or early the backfill ran; and
\* no replayed layer beats holding until the peak.
HindsightIsBest ==
  post # NoPost =>
    /\ post.closed /\ post.days >= row.exit => post.mae <= post.realized /\ post.realized <= post.mfe
    /\ post.layers # <<>> => NoneBeatsPeak(post.layers)

(***************************************************************************)
(* Why it holds: a sale is at a price of its day, a day's bar never        *)
(* changes, and once the row is closed neither does the row.               *)
(***************************************************************************)
Whole(f) ==
  f = [closed |-> f.closed, days |-> f.days, qty |-> f.qty, mfe |-> f.mfe, mae |-> f.mae,
       realized |-> f.realized, layers |-> f.layers]
Between(f) ==
  f.closed => ~Open /\ (f.days >= row.exit => f.mae <= f.realized /\ f.realized <= f.mfe)
Stored(f) == Whole(f) /\ Between(f) /\ (f.layers # <<>> => NoneBeatsPeak(f.layers))
HistorySound ==
  /\ bars \in Seq(Bars) /\ bars # <<>> /\ bars[1].low <= Entry /\ Entry <= bars[1].high
  /\ known \in 0 .. Today
RowSound ==
  /\ row = [qty |-> row.qty, exit |-> row.exit, gain |-> row.gain] /\ row.gain \in Int
  /\ row.exit \in 0 .. Today
  /\ ~Open => bars[row.exit].low <= Entry + row.gain /\ Entry + row.gain <= bars[row.exit].high
FoundSound ==
  /\ DOMAIN found = Workers /\ DOMAIN pc = Workers
  /\ \A w \in Workers : pc[w] = "upsert" => Stored(found[w])
  /\ \A w \in Workers : pc[w] = "patch"  => NoneBeatsPeak(found[w]) /\ Stored(post)
RecordSound == HistorySound /\ RowSound /\ FoundSound /\ (post = NoPost \/ Stored(post))
=============================================================================
