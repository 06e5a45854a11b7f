-------------------------------- MODULE Ordering --------------------------------
(***************************************************************************)
(* Sorting, without the sorted list: the place of a number among those of  *)
(* a finite set.                                                           *)
(***************************************************************************)
EXTENDS Naturals, FiniteSets, Sequences

(* How many come before p when S is sorted.                                  *)
Below(S, p) == Cardinality({q \in S : q < p})

(* sorted(S)[0] and sorted(S)[i - 1].                                        *)
IsFirst(p, S) == p \in S /\ \A q \in S : p <= q

Nth(S, i) == CHOOSE p \in S : Below(S, p) = i - 1

Ascending(s) == \A i, j \in DOMAIN s : i < j => s[i] < s[j]
=============================================================================
