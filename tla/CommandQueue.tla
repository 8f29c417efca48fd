---------------------------- MODULE CommandQueue ----------------------------
(***************************************************************************)
(* What the table of commands promises to whoever inserts a row: the row   *)
(* is executed at most once, only after it was posted, and a row given up  *)
(* (ignored by the backend, or lost on its way) never comes back.  Nothing *)
(* is promised about order, nor that a row is executed at all.             *)
(***************************************************************************)
CONSTANT Ids

VARIABLES
  waiting,     \* rows that may still be executed
  executed,    \* rows the agent has begun to execute
  dropped      \* rows that never will be

vars == << waiting, executed, dropped >>

Init ==
  /\ waiting = {}
  /\ executed = {}
  /\ dropped = {}

Post(c) ==
  /\ c \notin waiting \cup executed \cup dropped
  /\ waiting' = waiting \cup {c}
  /\ UNCHANGED << executed, dropped >>

Execute(c) ==
  /\ c \in waiting
  /\ waiting' = waiting \ {c}
  /\ executed' = executed \cup {c}
  /\ UNCHANGED dropped

(* One fault may lose a whole batch. *)
Drop(S) ==
  /\ S # {} /\ S \subseteq waiting
  /\ waiting' = waiting \ S
  /\ dropped' = dropped \cup S
  /\ UNCHANGED executed

Next ==
  \/ \E c \in Ids : Post(c) \/ Execute(c)
  \/ \E S \in SUBSET Ids : Drop(S)

Spec == Init /\ [][Next]_vars
=============================================================================
