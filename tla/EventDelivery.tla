--------------------------- MODULE EventDelivery ---------------------------
(***************************************************************************)
(* What an agent server promises for the events of a job it has answered   *)
(* with 200: none is lost, they are applied in the order they came unless  *)
(* a handler failed for them, each is told at most once, and the runtime   *)
(* row never shows a status the run does not have.  Nothing is promised    *)
(* for an event whose handler failed after its first effect: the steps     *)
(* that are left may never be done.                                        *)
(***************************************************************************)
EXTENDS Naturals

CONSTANT Events       \* numbered in the order they come

VARIABLES
  accepted,    \* events that were answered
  failed,      \* events whose handler failed once
  recorded,    \* events in the history of the job
  applied,     \* event whose status the run has, 0 before the first
  told,        \* notifications of each event
  shown,       \* event whose status the runtime row has
  buried,      \* dead letters
  settled      \* events nobody works on any more

vars == << accepted, failed, recorded, applied, told, shown, buried, settled >>

Init ==
  /\ accepted = {} /\ failed = {} /\ buried = {} /\ settled = {}
  /\ recorded = {} /\ told = [e \in Events |-> 0]
  /\ applied = 0 /\ shown = 0

Accept(e) ==
  /\ e \notin accepted /\ \A d \in Events : d < e => d \in accepted
  /\ accepted' = accepted \cup {e}
  /\ UNCHANGED << failed, recorded, applied, told, shown, buried, settled >>

Open(e) == e \in accepted \ settled

(* Nothing older is still to be recorded, but for what failed. *)
InTurn(e) == \A d \in Events : d < e => d \in recorded \cup failed

(* An event may stand in for a newer one only after it failed. *)
Succeeds(e, current) == e < current => e \in failed

Record(e) ==
  /\ Open(e) /\ e \notin recorded /\ InTurn(e)
  /\ recorded' = recorded \cup {e}
  /\ UNCHANGED << accepted, failed, applied, told, shown, buried, settled >>

Apply(e) ==
  /\ Open(e) /\ e \in recorded /\ Succeeds(e, applied)
  /\ applied' = e
  /\ UNCHANGED << accepted, failed, recorded, told, shown, buried, settled >>

Tell(e) ==
  /\ Open(e) /\ e \in recorded /\ told[e] = 0 /\ applied = e
  /\ told' = [told EXCEPT ![e] = 1]
  /\ UNCHANGED << accepted, failed, recorded, applied, shown, buried, settled >>

Show(e) ==
  /\ Open(e) /\ told[e] = 1 /\ applied = e /\ Succeeds(e, shown)
  /\ shown' = e
  /\ UNCHANGED << accepted, failed, recorded, applied, told, buried, settled >>

Fail(e) ==
  /\ Open(e)
  /\ failed' = failed \cup {e}
  /\ \/ UNCHANGED buried
     \/ buried' = buried \cup {e}
  /\ UNCHANGED << accepted, recorded, applied, told, shown, settled >>

Settle(e) ==
  /\ Open(e) /\ e \in recorded \cup buried
  /\ settled' = settled \cup {e}
  /\ UNCHANGED << accepted, failed, recorded, applied, told, shown, buried >>

Next ==
  \E e \in Events : \/ Accept(e) \/ Record(e) \/ Apply(e) \/ Tell(e)
                    \/ Show(e) \/ Fail(e) \/ Settle(e)

Spec == Init /\ [][Next]_vars
=============================================================================
