--------------------------- MODULE MCJobScheduler ---------------------------
(* Instances of JobScheduler for TLC: one window or two adjacent ones. *)
EXTENDS JobScheduler, TLC

CONSTANTS t1, t2, t3, w1, w2

ThreeTicks == {t1, t2, t3}
TickSymmetry == Permutations(Ticks)

Adjacent == {w1, w2}

\* w1 lasts from second 2 to 4, w2 from 4 to 6.
Begin == [w \in Windows |-> IF w = w1 THEN 2 ELSE 4]
Finish == [w \in Windows |-> IF w = w1 THEN 4 ELSE 6]
=============================================================================
