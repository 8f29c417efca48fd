--------------------------- MODULE MCAgentIngress ---------------------------
(* Instances of AgentIngress for TLC. *)
EXTENDS AgentIngress, TLC

CONSTANTS t1, t2, m1

(* Two cameras in the table of thumbnails, one row of capture metrics. *)
ThreeKeys == {t1, t2, m1}
TwoTables == (t1 :> 1) @@ (t2 :> 1) @@ (m1 :> 2)
RefusedKey == {t1}
SecondEvent == {2}
=============================================================================
