--------------------------- MODULE MCJobLifecycle ---------------------------
(* Instances of JobLifecycle for TLC. *)
EXTENDS JobLifecycle, TLC

CONSTANTS r1, r2, s1, h1, h2

TwoRuns == {r1, r2}
OneRun == {r1}
OneStop == {s1}
TwoHandlers == {h1, h2}
OneHandler == {h1}
NoRuns == {}

HandlerSymmetry == Permutations(TwoHandlers)
=============================================================================
