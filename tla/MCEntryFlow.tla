---------------------------- MODULE MCEntryFlow ----------------------------
(* Small instances of EntryFlow for TLC. *)
EXTENDS EntryFlow
CONSTANTS AAA, BBB, CCC, tech, loop, job

OneSignal   == {1}
TwoSignals  == {1, 2}
ThreeSignals == {1, 2, 3}
TwoRows     == {1, 2}
ThreeRows   == {1, 2, 3}
ThreeSymbols == {AAA, BBB, CCC}
Tech        == {tech}
\* Every signal of a symbol of its own, or all of them of one symbol.
Distinct    == [s \in Signals |-> CASE s = 1 -> AAA [] s = 2 -> BBB [] s = 3 -> CCC]
SameSymbol  == [s \in Signals |-> AAA]
AllTech     == [y \in Symbols |-> tech]
BBBUnknown  == [y \in Symbols |-> IF y = BBB THEN NoSector ELSE tech]
LoopOnly    == {loop}
LoopAndJob  == {loop, job}
=============================================================================
