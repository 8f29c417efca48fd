-------------------------- MODULE MCSharedSegments --------------------------
(* Instances of SharedSegments for TLC. *)
EXTENDS SharedSegments, TLC

CONSTANTS r1, r2, l1

OneRemote == {r1}
TwoRemote == {r1, r2}
OneLocal == {l1}
NoLocal == {}

(* Nothing tells one account from another. *)
Accounts == Permutations(TwoRemote)

(* The states after an early stop are left out, or those after a start     *)
(* that has failed as well.                                                *)
NoEarlyStop == ~stop.early
StartedWell == ~stop.early /\ start.ok
=============================================================================
