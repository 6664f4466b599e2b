------------------------- MODULE MCSettlementLocks -------------------------
(* SettlementLocks on a small instance.                                     *)
EXTENDS SettlementLocks, TLC

CONSTANTS a1, a2, t1, t2, c1, c2, k1, k2, r1, r2, r3

MCPrice == [a \in Apps |-> 2]
MCSplitFloor == [a \in Apps |-> 2]
Perms == Permutations({a1, a2} \cap Apps) \cup Permutations({t1, t2} \cap Txns)
           \cup Permutations({k1, k2}) \cup Permutations(Sessions)
=============================================================================
