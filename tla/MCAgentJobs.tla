----------------------------- MODULE MCAgentJobs -----------------------------
(* Instances of AgentJobs for TLC. *)
EXTENDS AgentJobs, TLC

CONSTANTS j1, j2, i1, i2, i3

OneJob == {j1}
TwoJobs == {j1, j2}
TwoInstances == {i1, i2}
ThreeInstances == {i1, i2, i3}
=============================================================================
