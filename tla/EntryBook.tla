----------------------------- MODULE EntryBook -----------------------------
(***************************************************************************)
(* What the position limits promise: a book of rows in which an entry is   *)
(* one step, taken only while the book is below every limit.  Slack is how *)
(* far the limits may be overdrawn; with Slack = 0 they are exact.         *)
(***************************************************************************)
EXTENDS Integers, FiniteSets

CONSTANTS Signals, Positions, Symbols, Sectors, SymbolOf, SectorOf,
          NoSignal, MaxPositions, MaxPerSector, Slack

VARIABLES state, sigOf

Open == {p \in Positions : state[p] = "open"}
OpenIn(sym) == {p \in Open : SymbolOf[sigOf[p]] = sym}
OpenSector(sec) == {p \in Open : SectorOf[SymbolOf[sigOf[p]]] = sec}

Init ==
  /\ state = [p \in Positions |-> "free"]
  /\ sigOf = [p \in Positions |-> NoSignal]

\* validate_entry and open_position at once.
Enter(p, s) ==
  LET sym == SymbolOf[s]  sec == SectorOf[sym] IN
  /\ state[p] = "free"
  /\ Cardinality(Open) < MaxPositions + Slack
  /\ Cardinality(OpenIn(sym)) < 1 + Slack
  /\ MaxPerSector > 0 /\ sec \in Sectors
       => Cardinality(OpenSector(sec)) < MaxPerSector + Slack
  /\ state' = [state EXCEPT ![p] = "open"]
  /\ sigOf' = [sigOf EXCEPT ![p] = s]

Exit(p) ==
  /\ state[p] = "open"
  /\ state' = [state EXCEPT ![p] = "closed"]
  /\ UNCHANGED sigOf

Next == \E p \in Positions : Exit(p) \/ \E s \in Signals : Enter(p, s)

Spec == Init /\ [][Next]_<<state, sigOf>>
=============================================================================
