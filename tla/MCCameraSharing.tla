--------------------------- MODULE MCCameraSharing ---------------------------
(* Instances of CameraSharing for TLC. *)
EXTENDS CameraSharing, TLC

CONSTANTS c1, c2, j1, j2, s1, s2, q1

OneCamera == {c1}
TwoCameras == {c1, c2}
OneJob == {j1}
TwoJobs == {j1, j2}
OneSearch == {q1}
TwoSteps == {s1, s2}
NoThreads == {}

\* Both steps in one job, or one step in each of two.
SameJob == [s \in Steps |-> j1]
JobEach == [s \in Steps |-> IF s = s1 THEN j1 ELSE j2]

\* Every step uses all cameras.
AllCameras == [s \in Steps |-> Cameras]
=============================================================================
