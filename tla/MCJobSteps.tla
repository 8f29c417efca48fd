----------------------------- MODULE MCJobSteps -----------------------------
(* Instances of JobSteps for TLC: three steps in their order. *)
EXTENDS JobSteps, TLC

CONSTANTS s1, s2, s3, c1, c2

ThreeSteps == {s1, s2, s3}
TwoCameras == {c1, c2}

Step(order, mode, from, delay, missing, targets) ==
  [order |-> order, mode |-> mode, from |-> from, delay |-> delay,
   missing |-> missing, targets |-> targets]

First == Step(1, "time", None, 0, "skip", {c1})

(* A chain of three with the middle step in every mode that waits; it uses *)
(* a camera of another account too.                                        *)
Chains ==
  {s1 :> First @@ s2 :> Step(2, mode, s1, 0, missing, {c1, c2})
     @@ s3 :> Step(3, "sequential", s2, 0, "fail", {c1}) :
     mode \in {"sequential", "positive", "custom"}, missing \in {"skip", "fail"}}

(* Two steps side by side, then one that depends on either.                *)
Forks ==
  {s1 :> First @@ s2 :> Step(2, "time", None, delay, "skip", {c2})
     @@ s3 :> Step(3, mode, s1, 0, "skip", {c1}) :
     delay \in {0, 1}, mode \in {"negative", "custom"}}

(* Steps that wait for each other, for a later step and for no step.       *)
Loops ==
  {s1 :> Step(1, "sequential", s2, 0, missing, {c1})
     @@ s2 :> Step(2, "sequential", s1, 0, "fail", {c1})
     @@ s3 :> Step(3, "custom", None, 0, "skip", {c2}) : missing \in {"skip", "fail"}}

AllJobs == Chains \cup Forks \cup Loops
Relayed == {TwoCameras, {c1}, {c2}}
=============================================================================
