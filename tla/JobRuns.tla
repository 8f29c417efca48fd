------------------------------ MODULE JobRuns ------------------------------
(***************************************************************************)
(* What the agent promises for the runs of its jobs, whatever starts and   *)
(* stops arrive: a job has one run at a time, a run is never taken up      *)
(* again, it speaks for itself alone, and it finds no slots of an older    *)
(* run when it begins, keeps its own for as long as it works and leaves    *)
(* none behind.  Nothing is promised about how long a run goes on.         *)
(***************************************************************************)
CONSTANTS Jobs, Runs, None

VARIABLES
  jobOf,      \* run -> its job, None before it is made
  phase,      \* run -> how far it is
  tag,        \* run -> the run whose event it is about to post, or None
  slots       \* job -> runs with slots of it

vars == << jobOf, phase, tag, slots >>

Init ==
  /\ jobOf = [r \in Runs |-> None]
  /\ phase = [r \in Runs |-> "none"]
  /\ tag = [r \in Runs |-> None]
  /\ slots = [j \in Jobs |-> {}]

Make(r, j) ==
  /\ phase[r] = "none"
  /\ jobOf' = [jobOf EXCEPT ![r] = j]
  /\ phase' = [phase EXCEPT ![r] = "made"]
  /\ UNCHANGED << tag, slots >>

Working(j) == {r \in Runs : jobOf[r] = j /\ phase[r] = "working"}

Begin(r) ==
  /\ phase[r] = "made" /\ Working(jobOf[r]) = {} /\ slots[jobOf[r]] = {}
  /\ phase' = [phase EXCEPT ![r] = "working"]
  /\ UNCHANGED << jobOf, tag, slots >>

Tell(r) ==
  /\ phase[r] = "working"
  /\ \/ tag' = [tag EXCEPT ![r] = r]
     \/ tag' = [tag EXCEPT ![r] = None]
  /\ UNCHANGED << jobOf, phase, slots >>

Keep(r) ==
  /\ phase[r] = "working"
  /\ slots' = [slots EXCEPT ![jobOf[r]] = @ \cup {r}]
  /\ UNCHANGED << jobOf, phase, tag >>

End(r) ==
  /\ phase[r] = "working" /\ tag[r] = None
  /\ phase' = [phase EXCEPT ![r] = "ended"]
  /\ slots' = [slots EXCEPT ![jobOf[r]] = {}]
  /\ UNCHANGED << jobOf, tag >>

Next ==
  \E r \in Runs :
    \/ \E j \in Jobs : Make(r, j)
    \/ Begin(r) \/ Tell(r) \/ Keep(r) \/ End(r)

Spec == Init /\ [][Next]_vars
=============================================================================
