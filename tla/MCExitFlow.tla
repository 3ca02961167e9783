----------------------------- MODULE MCExitFlow -----------------------------
(* Small instances of ExitFlow for TLC. *)
EXTENDS ExitFlow
CONSTANTS p1, p2, job, manual, loop

OneRow    == {p1}
TwoRows   == {p1, p2}
OneJob    == {job}
TwoJobs   == {job, manual}
\* A share alone, and lots that can be halved (four shares unevenly).
Single    == [p \in Positions |-> 1]
Two       == [p \in Positions |-> 2]
Four      == [p \in Positions |-> 4]
TwoFour   == [p \in Positions |-> IF p = p1 THEN 2 ELSE 4]
HalfOrMore == {50, 70}
Half      == {50}
OneSignal == {1}
TwoSignals == {1, 2}
=============================================================================
