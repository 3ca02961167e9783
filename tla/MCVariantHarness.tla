-------------------------- MODULE MCVariantHarness --------------------------
(* Small instances of VariantHarness for TLC. *)
EXTENDS VariantHarness, TLC
CONSTANTS thread, script

TwoRows   == {1, 2}
ThreeRows == {1, 2, 3}
Two       == {thread, script}
OnlyScript == {script}
None      == {}
\* The two threads of the service are alike.
ThreadSymmetry == Permutations(Two)
Labels    == {"neutral", "risk_off"}

\* Two keys that every variant writes and no regime does.
TwoKeys   == {"size", "stop"}
PlainTwo  == [k \in TwoKeys |-> 0]
TwoKeyDiffs == [v \in ThreeRows |-> [k \in TwoKeys |-> 1]]
NoPresets == [r \in Labels |-> [k \in {} |-> 0]]

\* trail is written by the switcher too, size by both variants, stop by one.
ThreeKeys == {"trail", "size", "stop"}
Plain     == [k \in ThreeKeys |-> 0]
Diffs     == [v \in TwoRows |-> [k \in IF v = 1 THEN {"trail", "size"} ELSE {"size", "stop"} |-> v]]
Presets   == [r \in Labels |-> [k \in {"trail"} |-> IF r = "neutral" THEN 0 ELSE 4]]
Numbers   == 0 .. 4
=============================================================================
