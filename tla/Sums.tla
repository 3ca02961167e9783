-------------------------------- MODULE Sums --------------------------------
(***************************************************************************)
(* Sums over finite sets.  A pile holds f[w] slabs for each w in W, told   *)
(* apart by their owner; a sum is the size of one pile less another's.     *)
(***************************************************************************)
EXTENDS Integers, FiniteSets

Pile(W, f) == UNION {{w} \X (1..f[w]) : w \in W}

\* The sum of the integers f holds: the slabs above 0 less those below.
Sum(f) ==
  Cardinality(Pile(DOMAIN f, f)) - Cardinality(Pile(DOMAIN f, [w \in DOMAIN f |-> -f[w]]))

\* The same, taken one at a time.
Tally(f) ==
  LET up[T \in SUBSET DOMAIN f] ==
        IF T = {} THEN 0 ELSE f[CHOOSE x \in T : TRUE] + up[T \ {CHOOSE x \in T : TRUE}]
  IN up[DOMAIN f]
=============================================================================
