------------------------- MODULE AgentIngressProofs -------------------------
(***************************************************************************)
(* For any number of events, any batch and any faults: no event notifies   *)
(* twice, only one that failed is applied after its successors, none is    *)
(* lost, and a value that was overwritten during its replay keeps its row. *)
(* The server refines EventDelivery, each replay uses an event up, and what *)
(* waits in a table of latest values comes to its front.                   *)
(***************************************************************************)
EXTENDS AgentIngress, FiniteSetTheorems, WellFoundedInduction, TLAPS

Replaying == Handling \cup {"ok", "failed", "bury"}

(* The pump works on rows of the inbox, events before tables. *)
Batch ==
  /\ \A e \in pump.batch : inbox[e] = "due"
  /\ pump.at \in Replaying => pump.batch # {}
  /\ pump.at \in {"idle", "latest", "served", "refused"} => pump.batch = {}

(* How far the handler of the current event has come. *)
Handled ==
  /\ At("insert") => Current \notin recorded
  /\ pump.at \in {"persist", "notify"} => notified[Current] = 0
  /\ pump.at \in {"persist", "notify", "again", "runtime", "ok"} => Current \in recorded
  /\ At("bury") => dead[Current] > 0

Notified == \A e \in Events : notified[e] <= 1 /\ (notified[e] > 0 => e \in recorded)

(* An event that has never failed. *)
Fresh(e) == inbox[e] = "none" \/ (inbox[e] = "due" /\ attempts[e] = 0)

(* Events come in order, and no fresh one is older than the runtime row or *)
(* was passed over by the round.                                           *)
Ordered ==
  /\ \A d, e \in Events : (d < e /\ inbox[d] = "none") => inbox[e] = "none"
  /\ \A e \in Events : inbox[e] = "paused" => attempts[e] > 0
  /\ \A e \in Events : Fresh(e) => runtime <= e
  /\ \A d \in Events \ pump.batch : Fresh(d) => \A e \in pump.batch : e < d

(* A value that was served is still owed only if it was overwritten since. *)
Served == At("served") /\ pump.key \in owed => ~Unchanged

Inv == TypeOK /\ Batch /\ Handled /\ Notified /\ Ordered /\ NothingLost /\ NewestKept /\ Served

-----------------------------------------------------------------------------
(* A set of events that is not empty has a first one. *)
LEMMA FirstExists ==
  ASSUME NEW S, S \subseteq Nat, S # {}
  PROVE  \E e \in S : \A d \in S : e <= d
<1>1. \E e \in S : \A d \in S : << d, e >> \notin OpToRel(<, Nat)
  BY NatLessThanWellFounded, WFMin
<1>2. \A d, e \in Nat : d < e => << d, e >> \in OpToRel(<, Nat)
  BY DEF OpToRel
<1>3. \E e \in S : \A d \in S : ~(d < e)
  BY <1>1, <1>2, Zenon
<1>. QED
  BY ONLY <1>3, S \subseteq Nat

LEMMA CurrentFirst ==
  ASSUME pump.batch \subseteq Nat, pump.batch # {}
  PROVE  Current \in pump.batch /\ \A d \in pump.batch : Current <= d
<1>1. \E e \in pump.batch : \A d \in pump.batch : e <= d
  BY FirstExists
<1>. QED
  BY <1>1 DEF Current

(* A select leaves only newer rows behind. *)
LEMMA SelectedFirst ==
  ASSUME NEW S, S \subseteq Events, NEW n \in Nat
  PROVE  /\ Selected(S, n) \subseteq S
         /\ \A d \in S \ Selected(S, n), e \in Selected(S, n) : e < d
<1>1. SUFFICES ASSUME NEW d \in S \ Selected(S, n), NEW e \in Selected(S, n) PROVE e < d
  BY DEF Selected, Oldest
<1>2. d \in Nat /\ e \in Nat /\ d # e
  BY AgentIngressAssumption DEF Events, Selected, Oldest, AgentIngressAssumption
<1>3. SUFFICES ASSUME d < e PROVE FALSE
  BY <1>2
<1>. DEFINE D == {x \in S : x < d}
            E == {x \in S : x < e}
<1>4. IsFiniteSet(E)
  <2>1. IsFiniteSet(Events)
    BY FS_Interval, AgentIngressAssumption DEF Events, AgentIngressAssumption
  <2>. QED
    BY <2>1, FS_Subset
<1>5. D \in SUBSET E
  <2>1. \A x \in S : x \in Nat
    BY AgentIngressAssumption DEF Events, AgentIngressAssumption
  <2>2. \A x \in Nat : x < d => x < e
    BY ONLY <1>2, <1>3
  <2>. QED
    BY <2>1, <2>2
<1>6. Cardinality(D) <= Cardinality(E) /\ Cardinality(D) \in Nat /\ Cardinality(E) \in Nat
  BY <1>4, <1>5, FS_Subset, FS_CardinalityType
<1>7. Cardinality(E) < n
  BY DEF Selected, Oldest
<1>8. Cardinality(D) < n
  BY <1>6, <1>7
<1>. QED
  BY <1>8 DEF Selected, Oldest

-----------------------------------------------------------------------------
LEMMA InitInv == ASSUME Init PROVE Inv
<1>1. {MaxEvents, MaxFaults, Routes, MaxAttempts} \subseteq Nat /\ MaxAttempts > 0
  BY AgentIngressAssumption DEF AgentIngressAssumption
<1>2. 0 \in 0..(MaxAttempts - 1) /\ 0 \in 0..MaxFaults /\ 0 \in 0..Routes
  BY <1>1
<1>3. TypeOK
  <2>1. attempts \in [Events -> 0..(MaxAttempts - 1)] /\ faults \in 0..MaxFaults
    BY <1>2, Zenon DEF Init
  <2>2. pump \in [at : Positions, batch : SUBSET Events, route : 0..Routes,
                  rows : SUBSET Keys, key : Keys \cup {None}, changed : SUBSET Keys]
    BY <1>2 DEF Init, Idle, Positions
  <2>. QED
    BY <2>1, <2>2 DEF Init, TypeOK
<1>4. \A e \in Events : 0 <= e /\ inbox[e] = "none"
  BY <1>1 DEF Init, Events
<1>. QED
  BY <1>3, <1>4 DEF Init, Inv, Batch, Handled, Notified, Ordered, NothingLost, NewestKept,
     Served, Idle, Replaying, Handling, At

(* What the pump may assume of the event it works on. *)
LEMMA CurrentWaits ==
  ASSUME Inv, pump.at \in Replaying
  PROVE  /\ Current \in pump.batch /\ Current \in Events /\ inbox[Current] = "due"
         /\ \A d \in pump.batch : Current <= d
<1>1. pump.batch \subseteq Events /\ pump.batch # {}
  BY DEF Inv, TypeOK, Batch
<1>2. pump.batch \subseteq Nat
  BY <1>1, AgentIngressAssumption DEF Events, AgentIngressAssumption
<1>. QED
  BY <1>1, <1>2, CurrentFirst DEF Inv, Batch

LEMMA EventInNat == Events \subseteq Nat
  BY AgentIngressAssumption DEF Events, AgentIngressAssumption

(* The agent posts an event: it is the newest. *)
LEMMA EnqueueEventInv == ASSUME Inv, NEW e \in Events, EnqueueEvent(e) PROVE Inv'
<1>. USE DEF EnqueueEvent, latestRows, effects
<1>1. TypeOK /\ Batch /\ Handled /\ Notified /\ Ordered /\ NothingLost /\ NewestKept /\ Served
  BY DEF Inv
<1>2. inbox' \in [Events -> {"none", "due", "paused", "gone"}]
  BY <1>1 DEF TypeOK
<1>3. \A d \in Events : inbox'[d] = IF d = e THEN "due" ELSE inbox[d]
  BY <1>1 DEF TypeOK
<1>4. TypeOK'
  BY <1>1, <1>2 DEF TypeOK
<1>5. Current' = Current
  BY DEF Current
<1>6. Batch'
  BY <1>1, <1>3 DEF Batch, TypeOK
<1>7. Handled' /\ Notified' /\ NothingLost' /\ NewestKept' /\ Served'
  BY <1>1, <1>3, <1>5 DEF Handled, Notified, NothingLost, NewestKept, Served, At, Unchanged
<1>8. Ordered'
  <2>1. \A c, d \in Events : (c < d /\ inbox'[c] = "none") => inbox'[d] = "none"
    BY <1>1, <1>3, EventInNat DEF Ordered
  <2>2. \A d \in Events : Fresh(d)' => Fresh(d)
    BY <1>3 DEF Fresh
  <2>. QED
    BY <1>1, <1>3, <2>1, <2>2 DEF Ordered
<1>. QED
  BY <1>4, <1>6, <1>7, <1>8 DEF Inv

(* The pause of a row is over: it is not fresh. *)
LEMMA BecomeDueInv == ASSUME Inv, NEW e \in Events, BecomeDue(e) PROVE Inv'
<1>. USE DEF BecomeDue, latestRows, effects
<1>1. TypeOK /\ Batch /\ Handled /\ Notified /\ Ordered /\ NothingLost /\ NewestKept /\ Served
  BY DEF Inv
<1>2. inbox' \in [Events -> {"none", "due", "paused", "gone"}]
  BY <1>1 DEF TypeOK
<1>3. \A d \in Events : inbox'[d] = IF d = e THEN "due" ELSE inbox[d]
  BY <1>1 DEF TypeOK
<1>4. TypeOK'
  BY <1>1, <1>2 DEF TypeOK
<1>5. Current' = Current
  BY DEF Current
<1>6. Batch'
  BY <1>1, <1>3 DEF Batch, TypeOK
<1>7. Handled' /\ Notified' /\ NothingLost' /\ NewestKept' /\ Served'
  BY <1>1, <1>3, <1>5 DEF Handled, Notified, NothingLost, NewestKept, Served, At, Unchanged
<1>8. Ordered'
  <2>0. attempts[e] > 0 /\ attempts[e] # 0
    <3>1. attempts[e] > 0
      BY <1>1 DEF Ordered
    <3>. QED
      BY <3>1
  <2>2. \A d \in Events : Fresh(d)' => Fresh(d)
    BY <1>3, <2>0 DEF Fresh
  <2>. QED
    BY <1>1, <1>3, <2>2 DEF Ordered
<1>. QED
  BY <1>4, <1>6, <1>7, <1>8 DEF Inv

(* A round takes the oldest rows that are due. *)
LEMMA StartRoundInv == ASSUME Inv, StartRound PROVE Inv'
<1>. USE DEF StartRound, tables, latestRows, effects
<1>. DEFINE due == {e \in Events : inbox[e] = "due"}
<1>1. TypeOK /\ Batch /\ Handled /\ Notified /\ Ordered /\ NothingLost /\ NewestKept /\ Served
  BY DEF Inv
<1>2. /\ pump'.batch = Selected(due, EventBatch) /\ pump'.at = "next"
      /\ pump' = [pump EXCEPT !.at = "next", !.batch = Selected(due, EventBatch)]
  BY <1>1 DEF TypeOK
<1>3. EventBatch \in Nat
  BY AgentIngressAssumption DEF AgentIngressAssumption
<1>4. /\ Selected(due, EventBatch) \subseteq due
      /\ \A d \in due \ Selected(due, EventBatch), e \in Selected(due, EventBatch) : e < d
  <2>1. due \subseteq Events
    OBVIOUS
  <2>. HIDE DEF due
  <2>. QED
    BY <1>3, <2>1, SelectedFirst
<1>. HIDE DEF due
<1>5. TypeOK'
  BY <1>1, <1>2, <1>4 DEF TypeOK, Positions, due
<1>6. Batch'
  BY <1>1, <1>2, <1>4 DEF Batch, Replaying, Handling, due
<1>7. Handled' /\ Notified' /\ NothingLost' /\ NewestKept' /\ Served'
  BY <1>1, <1>2 DEF Handled, Notified, NothingLost, NewestKept, Served, At
<1>8. Ordered'
  <2>1. \A d \in Events \ pump'.batch : Fresh(d) => \A e \in pump'.batch : e < d
    <3>1. SUFFICES ASSUME NEW d \in Events \ pump'.batch, Fresh(d), NEW e \in pump'.batch
                   PROVE  e < d
      OBVIOUS
    <3>2. e \in Events /\ inbox[e] = "due" /\ e \in Nat /\ d \in Nat /\ e # d
      BY <1>2, <1>4, EventInNat DEF due
    <3>3. CASE inbox[d] = "none"
      <4>1. ~(d < e)
        BY <1>1, <3>2, <3>3 DEF Ordered
      <4>. QED
        BY ONLY <3>2, <4>1
    <3>4. CASE inbox[d] = "due"
      BY <1>2, <1>4, <3>4 DEF due
    <3>. QED
      BY <3>1, <3>3, <3>4 DEF Fresh
  <2>2. \A d \in Events : Fresh(d)' <=> Fresh(d)
    BY DEF Fresh
  <2>. QED
    BY <1>1, <2>1, <2>2 DEF Ordered
<1>. QED
  BY <1>5, <1>6, <1>7, <1>8 DEF Inv

(* A statement that moves the replay of the current event one step on. *)
LEMMA StepKeeps ==
  ASSUME Inv, NEW step \in Replaying, Step(step), pump.batch # {},
         UNCHANGED << inbox, attempts, latestRows >>
  PROVE  /\ pump'.at = step /\ pump'.batch = pump.batch /\ Current' = Current
         /\ pump' \in [at : Positions, batch : SUBSET Events, route : 0..Routes,
                       rows : SUBSET Keys, key : Keys \cup {None}, changed : SUBSET Keys]
         /\ Batch' /\ NewestKept' /\ Served'
         /\ runtime' = runtime => Ordered'
<1>. USE DEF Step, latestRows
<1>1. TypeOK /\ Batch /\ Ordered /\ NewestKept
  BY DEF Inv
<1>2. /\ pump'.at = step /\ pump'.batch = pump.batch
      /\ pump' \in [at : Positions, batch : SUBSET Events, route : 0..Routes,
                    rows : SUBSET Keys, key : Keys \cup {None}, changed : SUBSET Keys]
  BY <1>1 DEF TypeOK, Positions, Replaying
<1>3. Current' = Current
  BY <1>2 DEF Current
<1>4. Batch' /\ NewestKept' /\ Served'
  BY <1>1, <1>2 DEF Batch, NewestKept, Served, Replaying, Handling, At
<1>5. ASSUME runtime' = runtime PROVE Ordered'
  BY <1>1, <1>2, <1>5 DEF Ordered, Fresh
<1>. QED
  BY <1>2, <1>3, <1>4, <1>5

(* The statements before the first effect. *)
LEMMA ReadInv == ASSUME Inv, NextEvent \/ Check PROVE Inv'
<1>. USE DEF tables, effects, latestRows, Replaying, Handling
<1>1. TypeOK /\ Handled /\ Notified /\ NothingLost
  BY DEF Inv
<1>2. CASE NextEvent
  <2>1. PICK step \in {"failed", "check"} : Step(step)
    BY <1>2 DEF NextEvent
  <2>. QED
    BY <1>1, <1>2, <2>1, StepKeeps
       DEF NextEvent, TypeOK, Handled, Notified, NothingLost, At, Inv
<1>3. CASE Check
  <2>1. PICK step \in {"again", "insert"} :
          Step(step) /\ (step = "again" <=> Current \in recorded)
    BY <1>3 DEF Check
  <2>2. pump.batch # {}
    BY <1>3 DEF Inv, Batch, Check, At
  <2>. QED
    BY <1>1, <1>3, <2>1, <2>2, StepKeeps
       DEF Check, TypeOK, Handled, Notified, NothingLost, At, Inv
<1>. QED
  BY <1>2, <1>3

LEMMA InsertInv == ASSUME Inv, Insert PROVE Inv'
<1>. USE DEF Insert, tables, latestRows, Replaying, Handling
<1>1. TypeOK /\ Batch /\ Handled /\ Notified /\ NothingLost
  BY DEF Inv
<1>2. Current \in Events
  BY CurrentWaits DEF At
<1>3. pump.batch # {} /\ Step("persist") /\ "persist" \in Replaying
  BY <1>1 DEF Batch, At
<1>4. /\ pump'.at = "persist" /\ Current' = Current /\ Batch' /\ NewestKept' /\ Served' /\ Ordered'
      /\ pump' \in [at : Positions, batch : SUBSET Events, route : 0..Routes,
                    rows : SUBSET Keys, key : Keys \cup {None}, changed : SUBSET Keys]
  BY <1>3, StepKeeps
<1>5. notified[Current] = 0
  <2>1. notified[Current] \in Nat /\ ~(notified[Current] > 0)
    BY <1>1, <1>2 DEF TypeOK, Notified, Handled, At
  <2>. QED
    BY ONLY <2>1
<1>6. TypeOK' /\ Handled' /\ Notified' /\ NothingLost'
  BY <1>1, <1>2, <1>4, <1>5 DEF TypeOK, Handled, Notified, NothingLost, At
<1>. QED
  BY <1>4, <1>6 DEF Inv

LEMMA PersistInv == ASSUME Inv, Persist PROVE Inv'
<1>. USE DEF Persist, tables, latestRows, Replaying, Handling
<1>1. TypeOK /\ Batch /\ Handled /\ Notified /\ NothingLost
  BY DEF Inv
<1>2. Current \in Events
  BY CurrentWaits DEF At
<1>3. PICK step \in {"ok", "notify"} : Step(step) /\ (step = "notify" => At("persist"))
  OBVIOUS
<1>4. pump.batch # {}
  BY <1>1 DEF Batch, At
<1>5. /\ pump'.at = step /\ Current' = Current /\ Batch' /\ NewestKept' /\ Served' /\ Ordered'
      /\ pump' \in [at : Positions, batch : SUBSET Events, route : 0..Routes,
                    rows : SUBSET Keys, key : Keys \cup {None}, changed : SUBSET Keys]
  BY <1>3, <1>4, StepKeeps
<1>6. TypeOK' /\ Handled' /\ Notified' /\ NothingLost'
  BY <1>1, <1>2, <1>3, <1>5 DEF TypeOK, Handled, Notified, NothingLost, At
<1>. QED
  BY <1>5, <1>6 DEF Inv

LEMMA NotifyInv == ASSUME Inv, Notify PROVE Inv'
<1>. USE DEF Notify, tables, latestRows, Replaying, Handling
<1>1. TypeOK /\ Batch /\ Handled /\ Notified /\ NothingLost
  BY DEF Inv
<1>2. Current \in Events
  BY CurrentWaits DEF At
<1>3. pump.batch # {} /\ Step("runtime") /\ "runtime" \in Replaying
  BY <1>1 DEF Batch, At
<1>4. /\ pump'.at = "runtime" /\ Current' = Current /\ Batch' /\ NewestKept' /\ Served' /\ Ordered'
      /\ pump' \in [at : Positions, batch : SUBSET Events, route : 0..Routes,
                    rows : SUBSET Keys, key : Keys \cup {None}, changed : SUBSET Keys]
  BY <1>3, StepKeeps
<1>5. \A e \in Events : notified'[e] = IF e = Current THEN 1 ELSE notified[e]
  BY <1>1 DEF TypeOK, Handled, At
<1>6. notified' \in [Events -> Nat]
  <2>1. notified[Current] = 0
    BY <1>1 DEF Handled, At
  <2>2. notified' = [notified EXCEPT ![Current] = 1]
    BY <2>1
  <2>3. notified \in [Events -> Nat]
    BY <1>1 DEF TypeOK
  <2>. QED
    BY ONLY <2>2, <2>3
<1>7. TypeOK' /\ Handled' /\ Notified' /\ NothingLost'
  BY <1>1, <1>2, <1>4, <1>5, <1>6 DEF TypeOK, Handled, Notified, NothingLost, At
<1>. QED
  BY <1>4, <1>7 DEF Inv

(* Nothing fresh is older than the event that the pump works on. *)
LEMMA NoneFresherBefore ==
  ASSUME Inv, pump.at \in Replaying, NEW d \in Events, Fresh(d)
  PROVE  Current <= d
<1>1. Current \in pump.batch /\ Current \in Nat /\ d \in Nat
  BY CurrentWaits, EventInNat
<1>2. CASE d \in pump.batch
  BY <1>2, CurrentWaits
<1>3. CASE d \notin pump.batch
  <2>1. Current < d
    BY <1>1, <1>3 DEF Inv, Ordered
  <2>. QED
    BY ONLY <1>1, <2>1
<1>. QED
  BY <1>2, <1>3

LEMMA WriteRuntimeInv == ASSUME Inv, WriteRuntime PROVE Inv'
<1>. USE DEF WriteRuntime, tables, latestRows, Replaying, Handling
<1>1. TypeOK /\ Batch /\ Handled /\ Notified /\ Ordered /\ NothingLost
  BY DEF Inv
<1>2. Current \in Events /\ pump.at \in Replaying
  BY CurrentWaits DEF At
<1>3. pump.batch # {} /\ Step("ok") /\ "ok" \in Replaying
  BY <1>1 DEF Batch, At
<1>4. /\ pump'.at = "ok" /\ pump'.batch = pump.batch /\ Current' = Current
      /\ Batch' /\ NewestKept' /\ Served'
      /\ pump' \in [at : Positions, batch : SUBSET Events, route : 0..Routes,
                    rows : SUBSET Keys, key : Keys \cup {None}, changed : SUBSET Keys]
  BY <1>3, StepKeeps
<1>5. TypeOK' /\ Handled' /\ Notified' /\ NothingLost'
  BY <1>1, <1>2, <1>4 DEF TypeOK, Handled, Notified, NothingLost, At
<1>6. Ordered'
  <2>1. \A d \in Events : Fresh(d) => Current <= d
    BY <1>2, NoneFresherBefore
  <2>2. \A d \in Events : Fresh(d)' <=> Fresh(d)
    BY DEF Fresh
  <2>. QED
    BY <1>1, <1>4, <2>1, <2>2 DEF Ordered
<1>. QED
  BY <1>4, <1>5, <1>6 DEF Inv

LEMMA GiveUpInv == ASSUME Inv, GiveUp PROVE Inv'
<1>. USE DEF GiveUp, effects, latestRows, Replaying, Handling
<1>1. TypeOK /\ Batch /\ Handled /\ Notified /\ NothingLost
  BY DEF Inv
<1>2. Current \in Events
  BY CurrentWaits DEF At
<1>3. pump.batch # {} /\ Step("bury") /\ "bury" \in Replaying
  BY <1>1 DEF Batch, At
<1>4. /\ pump'.at = "bury" /\ Current' = Current /\ Batch' /\ NewestKept' /\ Served' /\ Ordered'
      /\ pump' \in [at : Positions, batch : SUBSET Events, route : 0..Routes,
                    rows : SUBSET Keys, key : Keys \cup {None}, changed : SUBSET Keys]
  BY <1>3, StepKeeps
<1>5. /\ dead' \in [Events -> Nat] /\ dead'[Current] > 0
      /\ \A e \in Events : dead[e] > 0 => dead'[e] > 0
  BY <1>1, <1>2 DEF TypeOK
<1>6. TypeOK' /\ Handled' /\ Notified' /\ NothingLost'
  BY <1>1, <1>2, <1>4, <1>5 DEF TypeOK, Handled, Notified, NothingLost, At
<1>. QED
  BY <1>4, <1>6 DEF Inv

(* The current event leaves the round, its row gone or counted as failed. *)
LEMMA LeaveKeeps ==
  ASSUME Inv, pump.at \in Replaying, NEW row \in {"paused", "gone"},
         inbox' = [inbox EXCEPT ![Current] = row],
         attempts' \in [Events -> 0..(MaxAttempts - 1)],
         \A e \in Events : e # Current => attempts'[e] = attempts[e],
         row = "paused" => attempts'[Current] > 0,
         pump' = [pump EXCEPT !.at = "next", !.batch = Rest],
         UNCHANGED << effects, latestRows, faults >>
  PROVE  /\ inbox' \in [Events -> {"none", "due", "paused", "gone"}]
         /\ pump' \in [at : Positions, batch : SUBSET Events, route : 0..Routes,
                       rows : SUBSET Keys, key : Keys \cup {None}, changed : SUBSET Keys]
         /\ Batch' /\ Handled' /\ Notified' /\ Ordered' /\ NewestKept' /\ Served'
<1>. USE DEF effects, latestRows
<1>1. TypeOK /\ Batch /\ Notified /\ Ordered /\ NewestKept
  BY DEF Inv
<1>2. Current \in pump.batch /\ Current \in Events /\ inbox[Current] = "due"
  BY CurrentWaits
<1>3. /\ inbox' \in [Events -> {"none", "due", "paused", "gone"}]
      /\ \A e \in Events : inbox'[e] = IF e = Current THEN row ELSE inbox[e]
  BY <1>1, <1>2 DEF TypeOK
<1>4. /\ pump'.at = "next" /\ pump'.batch = pump.batch \ {Current}
      /\ pump' \in [at : Positions, batch : SUBSET Events, route : 0..Routes,
                    rows : SUBSET Keys, key : Keys \cup {None}, changed : SUBSET Keys]
  BY <1>1 DEF TypeOK, Rest, Positions
<1>5. Batch'
  BY <1>1, <1>3, <1>4 DEF Batch, Replaying, Handling, TypeOK
<1>6. Handled' /\ Notified' /\ NewestKept' /\ Served'
  BY <1>1, <1>4 DEF Handled, Notified, NewestKept, Served, At
<1>7. Ordered'
  <2>1. \A e \in Events : Fresh(e)' => Fresh(e) /\ e # Current
    BY <1>3 DEF Fresh
  <2>2. \A d, e \in Events : (d < e /\ inbox'[d] = "none") => inbox'[e] = "none"
    BY <1>1, <1>2, <1>3 DEF Ordered
  <2>3. \A e \in Events : inbox'[e] = "paused" => attempts'[e] > 0
    BY <1>1, <1>3 DEF Ordered
  <2>. QED
    BY <1>1, <1>4, <2>1, <2>2, <2>3 DEF Ordered
<1>. QED
  BY <1>3, <1>4, <1>5, <1>6, <1>7

LEMMA DeleteEventInv == ASSUME Inv, DeleteEvent PROVE Inv'
<1>1. TypeOK /\ Handled /\ NothingLost
  BY DEF Inv
<1>2. pump.at \in Replaying /\ (Current \in recorded \/ dead[Current] > 0)
  BY <1>1 DEF DeleteEvent, At, Handled, Replaying, Handling
<1>3. Current \in Events
  BY <1>2, CurrentWaits
<1>4. /\ inbox' \in [Events -> {"none", "due", "paused", "gone"}]
      /\ pump' \in [at : Positions, batch : SUBSET Events, route : 0..Routes,
                    rows : SUBSET Keys, key : Keys \cup {None}, changed : SUBSET Keys]
      /\ Batch' /\ Handled' /\ Notified' /\ Ordered' /\ NewestKept' /\ Served'
  <2>. DEFINE row == "gone"
  <2>1. attempts' = attempts /\ attempts \in [Events -> 0..(MaxAttempts - 1)]
    BY <1>1 DEF DeleteEvent, TypeOK
  <2>. QED
    BY <1>2, <2>1, LeaveKeeps DEF DeleteEvent
<1>5. TypeOK' /\ NothingLost'
  BY <1>1, <1>2, <1>3, <1>4 DEF DeleteEvent, TypeOK, NothingLost, effects, latestRows
<1>. QED
  BY <1>4, <1>5 DEF Inv

LEMMA RetryInv == ASSUME Inv, Retry PROVE Inv'
<1>1. TypeOK /\ NothingLost
  BY DEF Inv
<1>2. pump.at \in Replaying /\ Current \in Events
  BY CurrentWaits DEF Retry, At, Replaying
<1>3. /\ attempts' \in [Events -> 0..(MaxAttempts - 1)] /\ attempts'[Current] > 0
      /\ \A e \in Events : e # Current => attempts'[e] = attempts[e]
  <2>1. attempts[Current] \in 0..(MaxAttempts - 1) /\ MaxAttempts \in Nat
    BY <1>1, <1>2, AgentIngressAssumption DEF TypeOK, AgentIngressAssumption
  <2>2. attempts[Current] + 1 \in 0..(MaxAttempts - 1) /\ attempts[Current] + 1 > 0
    BY <2>1 DEF Retry
  <2>. QED
    BY <1>1, <1>2, <2>2 DEF Retry, TypeOK
<1>4. /\ inbox' \in [Events -> {"none", "due", "paused", "gone"}]
      /\ pump' \in [at : Positions, batch : SUBSET Events, route : 0..Routes,
                    rows : SUBSET Keys, key : Keys \cup {None}, changed : SUBSET Keys]
      /\ Batch' /\ Handled' /\ Notified' /\ Ordered' /\ NewestKept' /\ Served'
  BY <1>2, <1>3, LeaveKeeps DEF Retry
<1>5. TypeOK' /\ NothingLost'
  BY <1>1, <1>2, <1>3, <1>4 DEF Retry, TypeOK, NothingLost, effects, latestRows
<1>. QED
  BY <1>4, <1>5 DEF Inv

(* The tables of latest values: no event is touched. *)
LEMMA LatestKeeps ==
  ASSUME Inv, UNCHANGED << tables, effects >>, pump.batch = {}, pump'.batch = {},
         pump'.at \in {"idle", "latest", "served", "refused"}
  PROVE  Batch' /\ Handled' /\ Notified' /\ Ordered' /\ NothingLost'
  BY DEF Inv, Batch, Handled, Notified, Ordered, NothingLost, Fresh, At, Replaying, Handling,
     tables, effects

LEMMA NextRouteInv == ASSUME Inv, NextRoute PROVE Inv'
<1>1. TypeOK /\ NewestKept /\ UNCHANGED << tables, effects, latestRows, faults >>
  BY DEF Inv, NextRoute
<1>0. pump.batch = {}
  BY DEF NextRoute
<1>. DEFINE r == pump.route + 1
            Rows == {k \in latest : RouteOf[k] = r /\ Cardinality(older[k]) < LatestBatch}
<1>2. CASE r > Routes
  <2>1. pump' = Idle
    BY <1>2 DEF NextRoute
  <2>2. Idle \in [at : Positions, batch : SUBSET Events, route : 0..Routes,
                  rows : SUBSET Keys, key : Keys \cup {None}, changed : SUBSET Keys]
    <3>1. 0 \in 0..Routes
      BY AgentIngressAssumption DEF AgentIngressAssumption
    <3>. QED
      BY <3>1 DEF Idle, Positions
  <2>3. TypeOK' /\ NewestKept' /\ Served'
    BY <1>1, <2>1, <2>2 DEF TypeOK, NewestKept, Served, At, Idle, tables, effects, latestRows
  <2>. QED
    BY <1>0, <1>1, <2>1, <2>3, LatestKeeps DEF Inv, Idle
<1>3. CASE ~(r > Routes)
  <2>1. pump' = [pump EXCEPT !.at = "latest", !.route = r, !.changed = {}, !.rows = Rows]
    BY <1>3 DEF NextRoute
  <2>2. r \in 0..Routes
    BY <1>1, <1>3, AgentIngressAssumption DEF TypeOK, AgentIngressAssumption
  <2>3. Rows \subseteq Keys
    BY <1>1 DEF TypeOK
  <2>. HIDE DEF r, Rows
  <2>4. /\ pump'.at = "latest" /\ pump'.batch = {}
        /\ pump' \in [at : Positions, batch : SUBSET Events, route : 0..Routes,
                      rows : SUBSET Keys, key : Keys \cup {None}, changed : SUBSET Keys]
    BY <1>0, <1>1, <2>1, <2>2, <2>3 DEF TypeOK, Positions
  <2>5. TypeOK' /\ NewestKept' /\ Served'
    BY <1>1, <2>4 DEF TypeOK, NewestKept, Served, At, tables, effects, latestRows
  <2>. QED
    BY <1>0, <1>1, <2>4, <2>5, LatestKeeps DEF Inv
<1>. QED
  BY <1>2, <1>3

LEMMA EnqueueLatestInv == ASSUME Inv, NEW k \in Keys, EnqueueLatest(k) PROVE Inv'
<1>. USE DEF EnqueueLatest
<1>1. TypeOK /\ Batch /\ Handled /\ Notified /\ Ordered /\ NothingLost /\ NewestKept /\ Served
  BY DEF Inv
<1>2. /\ pump' = [pump EXCEPT !.changed = pump'.changed]
      /\ pump'.changed = pump.changed \cup ({k} \cap (pump.rows \cup {pump.key}))
      /\ pump'.at = pump.at /\ pump'.batch = pump.batch /\ pump'.key = pump.key
  BY <1>1 DEF TypeOK
<1>3. older' \in [Keys -> SUBSET Keys]
  BY <1>1 DEF TypeOK, Touch
<1>4. TypeOK'
  BY <1>1, <1>2, <1>3 DEF TypeOK, tables, effects
<1>5. Current' = Current
  BY <1>2 DEF Current
<1>6. Batch' /\ Handled' /\ Notified' /\ Ordered' /\ NothingLost'
  BY <1>1, <1>2, <1>5 DEF Batch, Handled, Notified, Ordered, NothingLost, Fresh, At,
     tables, effects
<1>7. NewestKept' /\ Served'
  BY <1>1, <1>2 DEF NewestKept, Served, At, Unchanged
<1>. QED
  BY <1>4, <1>6, <1>7 DEF Inv

(* A row is replayed and answered. *)
LEMMA ReplayInv ==
  ASSUME Inv, NEW k \in Keys, NEW answer \in {"served", "refused"}, Replay(k, answer),
         faults' \in 0..MaxFaults,
         \/ owed' = owed /\ (answer = "served" => k \notin owed \/ k \in pump.changed)
         \/ owed' = owed \ {k}
  PROVE  Inv'
<1>. USE DEF Replay
<1>1. TypeOK /\ NewestKept /\ Batch
  BY DEF Inv
<1>2. /\ pump' \in [at : Positions, batch : SUBSET Events, route : 0..Routes,
                    rows : SUBSET Keys, key : Keys \cup {None}, changed : SUBSET Keys]
      /\ pump'.at = answer /\ pump'.batch = {} /\ pump.batch = {}
      /\ pump'.key = k /\ pump'.changed = pump.changed
  BY <1>1 DEF TypeOK, Positions, Batch, At
<1>3. Batch' /\ Handled' /\ Notified' /\ Ordered' /\ NothingLost'
  BY <1>2, LatestKeeps
<1>4. TypeOK' /\ NewestKept' /\ Served'
  BY <1>1, <1>2 DEF TypeOK, NewestKept, Served, At, Unchanged, tables, effects
<1>. QED
  BY <1>3, <1>4 DEF Inv

(* The row that was replayed is deleted or marked. *)
LEMMA NextRowInv == ASSUME Inv, DeleteServed \/ MarkRefused PROVE Inv'
<1>1. TypeOK /\ NewestKept /\ Batch /\ Served
  BY DEF Inv
<1>2. NextRow /\ UNCHANGED << tables, effects, turn, owed, faults >> /\ pump.batch = {}
  BY <1>1 DEF DeleteServed, MarkRefused, Batch, At
<1>3. /\ pump' \in [at : Positions, batch : SUBSET Events, route : 0..Routes,
                    rows : SUBSET Keys, key : Keys \cup {None}, changed : SUBSET Keys]
      /\ pump'.at = "latest" /\ pump'.batch = {}
  BY <1>1, <1>2 DEF TypeOK, Positions, NextRow
<1>4. Batch' /\ Handled' /\ Notified' /\ Ordered' /\ NothingLost'
  BY <1>2, <1>3, LatestKeeps
<1>5. latest' \subseteq Keys /\ older' \in [Keys -> SUBSET Keys] /\ owed \subseteq latest'
  <2>1. CASE DeleteServed
    BY <1>1, <2>1 DEF TypeOK, DeleteServed, Remove, NewestKept, Served
  <2>2. CASE MarkRefused
    BY <1>1, <2>2 DEF TypeOK, MarkRefused, Touch, NewestKept
  <2>. QED
    BY <2>1, <2>2, DeleteServed \/ MarkRefused
<1>6. TypeOK' /\ NewestKept' /\ Served'
  BY <1>1, <1>2, <1>3, <1>5 DEF TypeOK, NewestKept, Served, At, tables, effects
<1>. QED
  BY <1>4, <1>6 DEF Inv

LEMMA FaultInv == ASSUME Inv, HandlerFails \/ LoseRound PROVE Inv'
<1>1. TypeOK /\ Batch /\ Handled /\ Notified /\ Ordered /\ NothingLost /\ NewestKept
  BY DEF Inv
<1>2. faults' \in 0..MaxFaults
  BY <1>1, AgentIngressAssumption DEF HandlerFails, LoseRound, TypeOK, AgentIngressAssumption
<1>3. CASE pump.at \in Handling /\ Step("failed") /\ UNCHANGED << tables, effects, latestRows >>
  <2>1. pump.batch # {} /\ "failed" \in Replaying
    BY <1>1, <1>3 DEF Batch, Replaying
  <2>2. /\ pump'.at = "failed" /\ Current' = Current
        /\ Batch' /\ NewestKept' /\ Served' /\ Ordered'
        /\ pump' \in [at : Positions, batch : SUBSET Events, route : 0..Routes,
                      rows : SUBSET Keys, key : Keys \cup {None}, changed : SUBSET Keys]
    BY <1>3, <2>1, StepKeeps DEF tables, effects
  <2>. QED
    BY <1>1, <1>2, <1>3, <2>2 DEF Inv, TypeOK, Handled, Notified, NothingLost, At,
       tables, effects, latestRows
<1>4. ASSUME NEW k \in Keys, Replay(k, "refused"), owed' = owed PROVE Inv'
  BY <1>2, <1>4, ReplayInv
<1>5. CASE LoseRound
  <2>1. pump' = Idle /\ UNCHANGED << tables, effects, latestRows >>
    BY <1>5 DEF LoseRound
  <2>2. TypeOK' /\ Batch' /\ NewestKept' /\ Served'
    <3>1. 0 \in 0..Routes
      BY AgentIngressAssumption DEF AgentIngressAssumption
    <3>. QED
      BY <1>1, <1>2, <2>1, <3>1 DEF TypeOK, Batch, NewestKept, Served, Idle, At, Positions,
         Replaying, Handling, tables, effects, latestRows
  <2>3. Handled' /\ Notified' /\ Ordered' /\ NothingLost'
    BY <1>1, <2>1 DEF Handled, Notified, Ordered, NothingLost, Fresh, Idle, At, tables, effects
  <2>. QED
    BY <2>2, <2>3 DEF Inv
<1>. QED
  BY <1>3, <1>4, <1>5 DEF HandlerFails

LEMMA NextInv == ASSUME Inv, [Next]_vars PROVE Inv'
<1>1. CASE Pump
  <2>1. CASE StartRound \/ NextEvent \/ Check \/ Insert \/ Persist \/ Notify \/ WriteRuntime
    BY <2>1, StartRoundInv, ReadInv, InsertInv, PersistInv, NotifyInv, WriteRuntimeInv
  <2>2. CASE DeleteEvent \/ Retry \/ GiveUp
    BY <2>2, DeleteEventInv, RetryInv, GiveUpInv
  <2>3. CASE NextRoute \/ DeleteServed \/ MarkRefused
    BY <2>3, NextRouteInv, NextRowInv
  <2>4. ASSUME NEW k \in Keys, Serve(k) \/ Refuse(k) PROVE Inv'
    <3>1. faults' = faults /\ faults \in 0..MaxFaults
      BY <2>4 DEF Serve, Refuse, Inv, TypeOK
    <3>2. CASE Serve(k)
      BY <3>1, <3>2, ReplayInv DEF Serve
    <3>3. CASE Refuse(k)
      BY <3>1, <3>3, ReplayInv DEF Refuse
    <3>. QED
      BY <2>4, <3>2, <3>3
  <2>. QED
    BY <1>1, <2>1, <2>2, <2>3, <2>4 DEF Pump
<1>2. CASE HandlerFails \/ LoseRound
  BY <1>2, FaultInv
<1>3. ASSUME NEW e \in Events, EnqueueEvent(e) \/ BecomeDue(e) PROVE Inv'
  BY <1>3, EnqueueEventInv, BecomeDueInv
<1>4. ASSUME NEW k \in Keys, EnqueueLatest(k) PROVE Inv'
  BY <1>4, EnqueueLatestInv
<1>5. CASE UNCHANGED vars
  BY <1>5 DEF Inv, TypeOK, Batch, Handled, Notified, Ordered, NothingLost, NewestKept, Served,
     Fresh, Current, Unchanged, At, vars, tables, effects, latestRows
<1>. QED
  BY <1>1, <1>2, <1>3, <1>4, <1>5 DEF Next

LEMMA SpecInv == Spec => []Inv
  BY InitInv, NextInv, PTL DEF Spec

(* Types are kept for any number of events, keys and tables. *)
THEOREM TypeCorrect == Spec => []TypeOK
<1>1. Inv => TypeOK
  BY DEF Inv
<1>. QED
  BY <1>1, SpecInv, PTL

(* No event notifies twice, whatever fails between its statements. *)
THEOREM OnceNotified == Spec => []NotifiedOnce
<1>1. Inv => NotifiedOnce
  BY DEF Inv, Notified, NotifiedOnce
<1>. QED
  BY <1>1, SpecInv, PTL

(* No event leaves the inbox without being recorded or buried. *)
THEOREM NoneLost == Spec => []NothingLost
<1>1. Inv => NothingLost
  BY DEF Inv
<1>. QED
  BY <1>1, SpecInv, PTL

(* The last value of a key has its row until its handler has seen it. *)
THEOREM NewestHasRow == Spec => []NewestKept
<1>1. Inv => NewestKept
  BY DEF Inv
<1>. QED
  BY <1>1, SpecInv, PTL

(* Only an event that failed takes the status of a job back. *)
THEOREM OrderKept == Spec => InOrder
<1>. DEFINE kept == \A e \in Events : (runtime' = e /\ e < runtime) => attempts[e] > 0
<1>1. ASSUME Inv, [Next]_vars PROVE kept
  <2>1. SUFFICES ASSUME NEW e \in Events, runtime' = e, e < runtime PROVE attempts[e] > 0
    OBVIOUS
  <2>2. WriteRuntime
    <3>1. e \in Nat /\ runtime \in Nat /\ runtime' # runtime
      BY <1>1, <2>1, EventInNat DEF Inv, TypeOK
    <3>. QED
      BY <1>1, <3>1 DEF Next, Pump, StartRound, NextEvent, Check, Insert, Persist, Notify,
         DeleteEvent, Retry, GiveUp, NextRoute, DeleteServed, MarkRefused, Serve, Refuse,
         Replay, HandlerFails, LoseRound, EnqueueEvent, BecomeDue, EnqueueLatest,
         vars, effects
  <2>3. e = Current /\ inbox[e] = "due"
    BY <1>1, <2>1, <2>2, CurrentWaits DEF WriteRuntime, At, Replaying, Handling
  <2>4. ~Fresh(e)
    <3>1. e \in Nat /\ runtime \in Nat
      BY <1>1, EventInNat DEF Inv, TypeOK
    <3>2. ~(runtime <= e)
      BY ONLY <3>1, <2>1
    <3>. QED
      BY <1>1, <3>2 DEF Inv, Ordered
  <2>5. attempts[e] \in 0..(MaxAttempts - 1) /\ attempts[e] # 0
    BY <1>1, <2>3, <2>4 DEF Inv, TypeOK, Fresh
  <2>. QED
    BY <2>5, AgentIngressAssumption DEF AgentIngressAssumption
<1>2. Inv /\ [Next]_vars => [kept]_vars
  BY <1>1
<1>. QED
  BY <1>2, SpecInv, PTL DEF Spec, InOrder

-----------------------------------------------------------------------------
(* The promise of EventDelivery is kept: what it says of the status in     *)
(* job_runs needs an invariant of its own.                                 *)
Advanced ==
  /\ \A e \in Events : Fresh(e) => jobRun <= e
  /\ pump.at \in {"notify", "runtime"} => jobRun = Current
  /\ At("runtime") => notified[Current] = 1

(* An event that failed, or was passed over, is never fresh again. *)
LEMMA FreshShrinks ==
  ASSUME Inv, [Next]_vars, NEW e \in Events, Fresh(e)'
  PROVE  Fresh(e)
<1>1. TypeOK /\ Ordered
  BY DEF Inv
<1>2. CASE UNCHANGED << inbox, attempts >>
  BY <1>2 DEF Fresh
<1>3. ASSUME NEW d \in Events, EnqueueEvent(d) PROVE Fresh(e)
  BY <1>1, <1>3 DEF EnqueueEvent, Fresh, TypeOK
<1>4. ASSUME NEW d \in Events, BecomeDue(d) PROVE Fresh(e)
  <2>1. attempts[d] \in Nat /\ attempts[d] > 0
    BY <1>1, <1>4, AgentIngressAssumption DEF BecomeDue, TypeOK, Ordered, AgentIngressAssumption
  <2>2. attempts[d] # 0
    BY ONLY <2>1
  <2>. QED
    BY <1>1, <1>4, <2>2 DEF BecomeDue, Fresh, TypeOK
<1>5. CASE Retry \/ DeleteEvent
  <2>1. Current \in Events /\ inbox[Current] = "due"
    BY <1>5, CurrentWaits DEF Retry, DeleteEvent, At, Replaying
  <2>2. e # Current
    BY <1>1, <1>5, <2>1 DEF Fresh, Retry, DeleteEvent, TypeOK
  <2>. QED
    BY <1>1, <1>5, <2>1, <2>2 DEF Fresh, Retry, DeleteEvent, TypeOK
<1>. QED
  BY <1>2, <1>3, <1>4, <1>5 DEF Next, Pump, StartRound, NextEvent, Check, Insert, Persist, Notify,
     WriteRuntime, GiveUp, NextRoute, DeleteServed, MarkRefused, Serve, Refuse, Replay,
     HandlerFails, LoseRound, EnqueueLatest, vars, tables

(* Only its own statements move the handler past persist. *)
LEMMA StillHandled ==
  ASSUME Inv, [Next]_vars, pump'.at \in {"notify", "runtime"}
  PROVE  \/ Persist \/ Notify
         \/ pump'.at = pump.at /\ Current' = Current /\ UNCHANGED << jobRun, notified >>
<1>1. TypeOK
  BY DEF Inv
<1>2. CASE UNCHANGED << pump, jobRun, notified >>
  BY <1>2 DEF Current
<1>3. ASSUME NEW k \in Keys, EnqueueLatest(k)
      PROVE  pump'.at = pump.at /\ Current' = Current /\ UNCHANGED << jobRun, notified >>
  BY <1>1, <1>3 DEF EnqueueLatest, Current, TypeOK, effects
<1>4. ~(StartRound \/ NextEvent \/ Check \/ Insert \/ WriteRuntime \/ DeleteEvent \/ Retry \/ GiveUp)
  BY <1>1 DEF TypeOK, StartRound, NextEvent, Check, Insert, WriteRuntime, DeleteEvent, Retry,
     GiveUp, Step
<1>5. ~NextRoute
  <2>. DEFINE r == pump.route + 1
              Rows == {k \in latest : RouteOf[k] = r /\ Cardinality(older[k]) < LatestBatch}
  <2>1. SUFFICES ASSUME NextRoute PROVE FALSE
    OBVIOUS
  <2>2. \/ pump' = Idle
        \/ pump' = [pump EXCEPT !.at = "latest", !.route = r, !.changed = {}, !.rows = Rows]
    BY <2>1 DEF NextRoute
  <2>. HIDE DEF r, Rows
  <2>3. CASE pump' = Idle
    BY <2>3 DEF Idle
  <2>4. CASE pump' = [pump EXCEPT !.at = "latest", !.route = r, !.changed = {}, !.rows = Rows]
    <3>1. pump'.at = "latest"
      BY <1>1, <2>4 DEF TypeOK
    <3>. QED
      BY <3>1
  <2>. QED
    BY <2>2, <2>3, <2>4
<1>7. ~(DeleteServed \/ MarkRefused \/ HandlerFails \/ LoseRound)
  <2>1. CASE DeleteServed \/ MarkRefused
    BY <1>1, <2>1 DEF TypeOK, DeleteServed, MarkRefused, NextRow
  <2>2. CASE HandlerFails
    BY <1>1, <2>2 DEF TypeOK, HandlerFails, Replay, Step
  <2>3. CASE LoseRound
    BY <2>3 DEF LoseRound, Idle
  <2>. QED
    BY <2>1, <2>2, <2>3
<1>6. \A k \in Keys : ~(Serve(k) \/ Refuse(k))
  BY <1>1 DEF TypeOK, Serve, Refuse, Replay
<1>. QED
  BY <1>2, <1>3, <1>4, <1>5, <1>6, <1>7 DEF Next, Pump, EnqueueEvent, BecomeDue, vars, effects

LEMMA AdvancedKept == ASSUME Inv, Inv', Advanced, [Next]_vars PROVE Advanced'
<1>1. \A e \in Events : Fresh(e)' => Fresh(e)
  BY FreshShrinks
<1>2. CASE Persist
  <2>1. pump.at \in Replaying /\ jobRun' = Current
    BY <1>2 DEF Persist, At, Replaying, Handling
  <2>2. pump'.batch = pump.batch /\ pump'.at # "runtime" /\ Current' = Current
    BY <1>2 DEF Persist, Step, Inv, TypeOK, Current
  <2>. QED
    BY <1>1, <2>1, <2>2, NoneFresherBefore DEF Advanced, At
<1>3. CASE Notify
  <2>1. pump'.batch = pump.batch /\ Current' = Current /\ jobRun' = jobRun
    BY <1>3 DEF Notify, Step, Inv, TypeOK, Current
  <2>2. Current \in Events /\ notified[Current] = 0
    BY <1>3, CurrentWaits DEF Notify, At, Replaying, Handling, Inv, Handled
  <2>3. notified'[Current] = 1
    BY <1>3, <2>2 DEF Notify, Inv, TypeOK
  <2>. QED
    BY <1>1, <1>3, <2>1, <2>3 DEF Advanced, Notify, At
<1>4. CASE ~Persist /\ ~Notify
  <2>1. jobRun' = jobRun
    BY <1>4 DEF Next, Pump, StartRound, NextEvent, Check, Insert, WriteRuntime, DeleteEvent, Retry,
       GiveUp, NextRoute, DeleteServed, MarkRefused, Serve, Refuse, Replay, HandlerFails, LoseRound,
       EnqueueEvent, BecomeDue, EnqueueLatest, vars, effects
  <2>. QED
    BY <1>1, <1>4, <2>1, StillHandled DEF Advanced, At
<1>. QED
  BY <1>2, <1>3, <1>4

LEMMA DeliveryInv == Spec => [](Inv /\ Advanced)
<1>1. Init => Advanced
  <2>1. \A e \in Events : 0 <= e
    BY EventInNat
  <2>. QED
    BY <2>1 DEF Init, Idle, Advanced, At
<1>2. Inv /\ Inv' /\ Advanced /\ [Next]_vars => Advanced'
  BY AdvancedKept
<1>. QED
  BY <1>1, <1>2, SpecInv, PTL DEF Spec

(* What is older than the event at hand failed or is in the history. *)
LEMMA InTurn ==
  ASSUME Inv, pump.at \in Replaying, NEW d \in Events, d < Current
  PROVE  d \in recorded \/ FailedOnce(d)
<1>1. Current \in Events /\ inbox[Current] = "due" /\ Current \in Nat /\ d \in Nat
  BY CurrentWaits, EventInNat
<1>2. ~(Current <= d)
  BY ONLY <1>1, d < Current
<1>3. ~Fresh(d)
  BY <1>2, NoneFresherBefore
<1>4. attempts[d] \in Nat
  BY AgentIngressAssumption DEF Inv, TypeOK, AgentIngressAssumption
<1>5. CASE inbox[d] = "due"
  <2>1. attempts[d] # 0
    BY <1>3, <1>5 DEF Fresh
  <2>. QED
    BY ONLY <1>4, <2>1 DEF FailedOnce
<1>6. CASE inbox[d] # "due"
  BY <1>3, <1>6 DEF Fresh, Inv, TypeOK, Ordered, NothingLost, FailedOnce
<1>. QED
  BY <1>5, <1>6

(* An event that takes the place of a newer one failed before. *)
LEMMA Late ==
  ASSUME Inv, pump.at \in Replaying, NEW current \in Events \cup {0},
         Fresh(Current) => current <= Current, Current < current
  PROVE  FailedOnce(Current)
<1>0. current \in Nat
  BY EventInNat
<1>1. Current \in Events /\ inbox[Current] = "due" /\ Current \in Nat /\ current \in Nat
  <2>1. Current \in Events /\ inbox[Current] = "due"
    BY ONLY CurrentWaits, Inv, pump.at \in Replaying
  <2>. QED
    BY <1>0, <2>1, EventInNat
<1>2. attempts[Current] # 0
  <2>1. ~(current <= Current)
    BY ONLY <1>1, Current < current
  <2>. QED
    BY <1>1, <2>1 DEF Fresh
<1>3. attempts[Current] \in Nat
  BY <1>1, AgentIngressAssumption DEF Inv, TypeOK, AgentIngressAssumption
<1>. QED
  BY ONLY <1>2, <1>3 DEF FailedOnce

LEMMA SomeStep ==
  ASSUME NEW e \in Events,
         \/ Delivery!Accept(e) \/ Delivery!Record(e) \/ Delivery!Apply(e) \/ Delivery!Tell(e)
         \/ Delivery!Show(e) \/ Delivery!Fail(e) \/ Delivery!Settle(e)
  PROVE  Delivery!Next
BY Zenon DEF Delivery!Next

(* The steps of the handler are those of the promise. *)
LEMMA HandlerMaps ==
  ASSUME Inv, Advanced, Insert \/ Persist \/ Notify \/ WriteRuntime
  PROVE  Delivery!Next \/ UNCHANGED Delivery!vars
<1>. USE DEF tables
<1>1. /\ Current \in Events /\ inbox[Current] = "due" /\ pump.at \in Replaying
      /\ \A d \in Events : d < Current => d \in recorded \/ FailedOnce(d)
  BY CurrentWaits, InTurn DEF Insert, Persist, Notify, WriteRuntime, At, Replaying, Handling
<1>2. PICK e \in Events : e = Current
  BY <1>1
<1>6. Delivery!Open(e)
  BY <1>1, <1>2 DEF Delivery!Open
<1>3. CASE Insert
  <2>1. Current \notin recorded
    BY <1>3 DEF Inv, Handled, Insert
  <2>2. Delivery!Record(e)
    BY <1>1, <1>2, <1>6, <1>3, <2>1 DEF Insert, Delivery!Record, Delivery!InTurn, FailedOnce
  <2>. QED
    BY <2>2, SomeStep
<1>4. CASE Persist
  <2>1. Current \in recorded
    BY <1>4 DEF Inv, Handled, Persist, At
  <2>2. Current < jobRun => FailedOnce(Current)
    BY <1>1, Late DEF Inv, TypeOK, Advanced
  <2>3. Delivery!Apply(e)
    BY <1>1, <1>2, <1>6, <1>4, <2>1, <2>2 DEF Persist, Delivery!Apply, Delivery!Succeeds, FailedOnce
  <2>. QED
    BY <2>3, SomeStep
<1>5. CASE Notify
  <2>1. Current \in recorded /\ notified[Current] = 0 /\ jobRun = Current
    BY <1>5 DEF Inv, Handled, Notify, At, Advanced
  <2>2. notified' = [notified EXCEPT ![Current] = 1]
    BY <1>5, <2>1 DEF Notify
  <2>3. Delivery!Tell(e)
    BY <1>1, <1>2, <1>6, <1>5, <2>1, <2>2 DEF Notify, Delivery!Tell, FailedOnce
  <2>. QED
    BY <2>3, SomeStep
<1>7. CASE WriteRuntime
  <2>1. jobRun = Current /\ notified[Current] = 1
    BY <1>7 DEF WriteRuntime, At, Advanced
  <2>2. Current < runtime => FailedOnce(Current)
    BY <1>1, Late DEF Inv, TypeOK, Ordered
  <2>3. Delivery!Show(e)
    BY <1>1, <1>2, <1>6, <1>7, <2>1, <2>2 DEF WriteRuntime, Delivery!Show, Delivery!Succeeds, FailedOnce
  <2>. QED
    BY <2>3, SomeStep
<1>. QED
  BY <1>3, <1>4, <1>5, <1>7

(* So are those that end a replay, and the post of an event. *)
LEMMA TablesMap ==
  ASSUME Inv, DeleteEvent \/ Retry \/ GiveUp
  PROVE  Delivery!Next
<1>. USE DEF effects
<1>1. Current \in Events /\ inbox[Current] = "due" /\ TypeOK
  BY CurrentWaits DEF DeleteEvent, Retry, GiveUp, At, Replaying, Inv
<1>2. PICK e \in Events : e = Current
  BY <1>1
<1>6. Delivery!Open(e)
  BY <1>1, <1>2 DEF Delivery!Open
<1>3. CASE DeleteEvent
  <2>1. Current \in recorded \/ dead[Current] > 0
    BY <1>3 DEF Inv, Handled, DeleteEvent, At
  <2>2. \A d \in Events : inbox'[d] = IF d = Current THEN "gone" ELSE inbox[d]
    BY <1>1, <1>3 DEF DeleteEvent, TypeOK
  <2>3. Delivery!Settle(e)
    BY <1>1, <1>2, <1>6, <1>3, <2>1, <2>2 DEF DeleteEvent, Delivery!Settle, FailedOnce
  <2>. QED
    BY <2>3, SomeStep
<1>4. CASE Retry
  <2>1. \A d \in Events : inbox'[d] = IF d = Current THEN "paused" ELSE inbox[d]
    BY <1>1, <1>4 DEF Retry, TypeOK
  <2>2. \A d \in Events : FailedOnce(d)' <=> FailedOnce(d) \/ d = Current
    <3>1. attempts[Current] \in Nat
      BY <1>1, AgentIngressAssumption DEF TypeOK, AgentIngressAssumption
    <3>2. \A d \in Events : attempts'[d] = IF d = Current THEN attempts[Current] + 1
                                           ELSE attempts[d]
      BY <1>1, <1>4 DEF Retry, TypeOK
    <3>3. attempts[Current] + 1 > 0
      BY ONLY <3>1
    <3>. QED
      BY <1>4, <3>2, <3>3 DEF Retry, FailedOnce
  <2>3. Delivery!Fail(e)
    BY <1>1, <1>2, <1>6, <1>4, <2>1, <2>2 DEF Retry, Delivery!Fail
  <2>. QED
    BY <2>3, SomeStep
<1>5. CASE GiveUp
  <2>1. \A d \in Events : dead'[d] > 0 <=> dead[d] > 0 \/ d = Current
    BY <1>1, <1>5 DEF GiveUp, TypeOK
  <2>2. \A d \in Events : FailedOnce(d)' <=> FailedOnce(d) \/ d = Current
    BY <1>5, <2>1 DEF GiveUp, FailedOnce
  <2>3. Delivery!Fail(e)
    BY <1>1, <1>2, <1>6, <1>5, <2>1, <2>2 DEF GiveUp, Delivery!Fail
  <2>. QED
    BY <2>3, SomeStep
<1>. QED
  BY <1>3, <1>4, <1>5

LEMMA PostMaps == ASSUME Inv, NEW e \in Events, EnqueueEvent(e) PROVE Delivery!Next
<1>1. \A d \in Events : inbox'[d] = IF d = e THEN "due" ELSE inbox[d]
  BY DEF EnqueueEvent, Inv, TypeOK
<1>2. Delivery!Accept(e)
  BY <1>1 DEF EnqueueEvent, Delivery!Accept, FailedOnce, effects
<1>. QED
  BY <1>2, SomeStep

(* What is left changes nothing that was promised. *)
LEMMA DeliveryMaps ==
  ASSUME Inv, Advanced, [Next]_vars
  PROVE  [Delivery!Next]_Delivery!vars
<1>1. CASE UNCHANGED << tables, effects >>
  BY <1>1 DEF Delivery!vars, FailedOnce, tables, effects
<1>2. ASSUME NEW e \in Events, BecomeDue(e) PROVE UNCHANGED Delivery!vars
  <2>1. \A d \in Events : /\ inbox'[d] # "none" <=> inbox[d] # "none"
                          /\ inbox'[d] = "gone" <=> inbox[d] = "gone"
    BY <1>2 DEF BecomeDue, Inv, TypeOK
  <2>. QED
    BY <1>2, <2>1 DEF BecomeDue, Delivery!vars, FailedOnce, effects
<1>3. CASE Insert \/ Persist \/ Notify \/ WriteRuntime
  BY <1>3, HandlerMaps
<1>4. CASE DeleteEvent \/ Retry \/ GiveUp
  BY <1>4, TablesMap
<1>5. ASSUME NEW e \in Events, EnqueueEvent(e) PROVE Delivery!Next
  BY <1>5, PostMaps
<1>. QED
  BY <1>1, <1>2, <1>3, <1>4, <1>5 DEF Next, Pump, StartRound, NextEvent, Check, NextRoute,
     DeleteServed, MarkRefused, Serve, Refuse, Replay, HandlerFails, LoseRound, EnqueueLatest, vars

(* The inbox, the pump and the handler of events together are the in-order *)
(* delivery of EventDelivery, with any statement failing at any time.      *)
THEOREM ImplementsDelivery == Spec => DeliverySpec
<1>1. Init => Delivery!Init
  BY DEF Init, Delivery!Init, FailedOnce
<1>2. Inv /\ Advanced /\ [Next]_vars => [Delivery!Next]_Delivery!vars
  BY DeliveryMaps
<1>. QED
  BY <1>1, <1>2, DeliveryInv, PTL DEF Spec, DeliverySpec, Delivery!Spec

-----------------------------------------------------------------------------
(* The tables of latest values: the safe half of LatestServed.             *)

(* Rows the round has read and nobody has overwritten since. *)
Front == (pump.rows \cup {pump.key}) \ (pump.changed \cup {None})

(* Another row of the table that is being drained. *)
Waits(k) == k \in latest /\ RouteOf[k] = pump.route /\ k \notin Front

(* A row that is neither posted again nor refused only gets nearer to the  *)
(* front; what the round has read leaves its place before the others; and  *)
(* a round takes rows of every table it comes to that has some.            *)
MovesUp ==
  \A k \in latest :
    /\ turn'[k] = turn[k] /\ ~(At("refused") /\ pump.key = k) => older'[k] \subseteq older[k]
    /\ Waits(k) /\ pump'.at # "idle" => \A j \in Front \ Front' : j \in older[k] \ older'[k]
    /\ pump'.route # pump.route /\ RouteOf[k] = pump'.route => pump'.rows # {}

WaitingMovesUp == [][MovesUp]_vars

(* The rows of a table stand in a line. *)
Lined ==
  /\ IsFiniteSet(latest)
  /\ \A k \in Keys : older[k] \subseteq {j \in latest \ {k} : RouteOf[j] = RouteOf[k]}
  /\ \A j, k \in latest : (RouteOf[j] = RouteOf[k] /\ j # k) => (j \in older[k] \/ k \in older[j])
  /\ \A j, k \in latest : j \in older[k] => (k \notin older[j] /\ older[j] \subseteq older[k])

(* What the round has read stands before the others of its table. *)
FrontFirst ==
  /\ pump.at \notin {"latest", "served", "refused"} => pump.rows = {}
  /\ pump.at \in {"served", "refused"} <=> pump.key # None
  /\ pump.key \notin pump.rows
  /\ \A j \in Front : j \in latest /\ RouteOf[j] = pump.route
  /\ \A k \in Keys : Waits(k) => Front \subseteq older[k]

LEMMA TouchLines ==
  ASSUME TypeOK, Lined, NEW k \in Keys, Touch(k), latest' = latest \cup {k}
  PROVE  /\ Lined'
         /\ \A j \in Keys \ {k} : older'[j] = older[j] \ {k}
         /\ older'[k] = {j \in latest \ {k} : RouteOf[j] = RouteOf[k]}
<1>1. /\ \A j \in Keys \ {k} : older'[j] = older[j] \ {k}
      /\ older'[k] = {j \in latest \ {k} : RouteOf[j] = RouteOf[k]}
  BY DEF Touch
<1>2. latest \subseteq Keys
  BY DEF TypeOK
<1>3. IsFiniteSet(latest')
  BY FS_AddElement DEF Lined
<1>4. \A j \in Keys : older'[j] \subseteq {i \in latest' \ {j} : RouteOf[i] = RouteOf[j]}
  BY <1>1 DEF Lined
<1>5. \A i, j \in latest' : (RouteOf[i] = RouteOf[j] /\ i # j) => (i \in older'[j] \/ j \in older'[i])
  BY <1>1, <1>2 DEF Lined
<1>6. ASSUME NEW i \in latest', NEW j \in latest', i \in older'[j]
      PROVE  j \notin older'[i] /\ older'[i] \subseteq older'[j]
  <2>1. i # k /\ i \in latest /\ i \in Keys /\ older'[i] = older[i] \ {k}
    BY <1>1, <1>2, <1>6 DEF Lined
  <2>2. CASE j = k
    BY <1>1, <2>1, <2>2, <1>6 DEF Lined
  <2>3. CASE j # k
    BY <1>1, <1>2, <1>6, <2>1, <2>3 DEF Lined
  <2>. QED
    BY <2>2, <2>3
<1>. QED
  BY <1>1, <1>3, <1>4, <1>5, <1>6 DEF Lined

LEMMA RemoveLines ==
  ASSUME TypeOK, Lined, NEW k \in Keys, Remove(k)
  PROVE  Lined' /\ \A j \in Keys \ {k} : older'[j] = older[j] \ {k}
<1>1. (\A j \in Keys \ {k} : older'[j] = older[j] \ {k}) /\ older'[k] = {}
  BY DEF Remove
<1>2. latest \subseteq Keys /\ latest' = latest \ {k}
  BY DEF TypeOK, Remove
<1>3. IsFiniteSet(latest')
  BY <1>2, FS_Subset DEF Lined
<1>. QED
  BY <1>1, <1>2, <1>3 DEF Lined

(* The rows with few before them stand before those with many. *)
LEMMA FewStandFirst ==
  ASSUME Lined, latest \subseteq Keys, NEW j \in latest, NEW k \in latest,
         RouteOf[j] = RouteOf[k],
         Cardinality(older[j]) < LatestBatch, ~(Cardinality(older[k]) < LatestBatch)
  PROVE  j \in older[k]
<1>1. IsFiniteSet(older[j]) /\ IsFiniteSet(older[k])
  BY FS_Subset DEF Lined
<1>2. SUFFICES ASSUME j \notin older[k] PROVE FALSE
  OBVIOUS
<1>3. older[k] \subseteq older[j]
  BY <1>2 DEF Lined
<1>4. Cardinality(older[k]) <= Cardinality(older[j])
  BY <1>1, <1>3, FS_Subset
<1>5. Cardinality(older[k]) \in Nat /\ Cardinality(older[j]) \in Nat /\ LatestBatch \in Nat
  BY <1>1, FS_CardinalityType, AgentIngressAssumption DEF AgentIngressAssumption
<1>. QED
  BY <1>4, <1>5

(* A table that has a row has a first one. *)
LEMMA FirstOfTable ==
  ASSUME Lined, latest \subseteq Keys, NEW k \in latest
  PROVE  \E j \in latest : RouteOf[j] = RouteOf[k] /\ older[j] = {}
<1>. DEFINE table == {j \in latest : RouteOf[j] = RouteOf[k]}
            sizes == {Cardinality(older[j]) : j \in table}
<1>1. \A j \in table : IsFiniteSet(older[j]) /\ Cardinality(older[j]) \in Nat
  BY FS_Subset, FS_CardinalityType DEF Lined
<1>2. \E n \in sizes : \A m \in sizes : n <= m
  <2>1. sizes \subseteq Nat /\ sizes # {}
    BY <1>1
  <2>. HIDE DEF sizes
  <2>. QED
    BY <2>1, FirstExists
<1>3. PICK j \in table : \A i \in table : Cardinality(older[j]) <= Cardinality(older[i])
  BY <1>2
<1>4. ASSUME NEW i \in older[j] PROVE FALSE
  <2>1. i \in table /\ older[i] \subseteq older[j] /\ i \notin older[i]
    BY <1>4 DEF Lined
  <2>2. Cardinality(older[i]) < Cardinality(older[j])
    <3>1. older[i] # older[j]
      BY <1>4, <2>1
    <3>. QED
      BY <1>1, <2>1, <3>1, FS_Subset, FS_CardinalityType
  <2>. QED
    BY <1>1, <1>3, <2>1, <2>2
<1>. QED
  BY <1>3, <1>4

(* The steps of the pump that have nothing to do with latest values. *)
LEMMA ElsewhereLines ==
  ASSUME Inv, FrontFirst, UNCHANGED << latest, older >>,
         UNCHANGED << pump.rows, pump.key, pump.changed, pump.route >>,
         pump'.at = pump.at \/ {pump.at, pump'.at} \cap {"latest", "served", "refused"} = {}
  PROVE  FrontFirst' /\ MovesUp
<1>1. Front' = Front
  BY DEF Front
<1>. QED
  BY <1>1 DEF FrontFirst, MovesUp, Waits

LEMMA EnqueueLines ==
  ASSUME Inv, Lined, FrontFirst, NEW k \in Keys, EnqueueLatest(k)
  PROVE  Lined' /\ FrontFirst' /\ MovesUp
<1>1. TypeOK /\ latest \subseteq Keys
  BY DEF Inv, TypeOK
<1>2. /\ Lined'
      /\ \A j \in Keys \ {k} : older'[j] = older[j] \ {k}
      /\ older'[k] = {j \in latest \ {k} : RouteOf[j] = RouteOf[k]}
      /\ latest' = latest \cup {k}
  BY <1>1, TouchLines DEF EnqueueLatest
<1>3. /\ UNCHANGED << pump.at, pump.rows, pump.key, pump.route >>
      /\ pump'.changed = pump.changed \cup ({k} \cap (pump.rows \cup {pump.key}))
  BY <1>1 DEF EnqueueLatest, TypeOK
<1>4. turn'[k] # turn[k]
  BY <1>1 DEF EnqueueLatest, TypeOK
<1>5. Front' = Front \ {k}
  BY <1>3 DEF Front
<1>6. FrontFirst'
  <2>1. \A j \in Front' : j \in latest' /\ RouteOf[j] = pump'.route
    BY <1>2, <1>3, <1>5 DEF FrontFirst
  <2>2. ASSUME NEW j \in Keys, Waits(j)', NEW i \in Front' PROVE i \in older'[j]
    <3>1. i \in Front /\ i # k /\ i \in latest /\ RouteOf[i] = pump.route
      BY <1>5 DEF FrontFirst
    <3>2. CASE j = k
      BY <1>2, <1>3, <2>2, <3>1, <3>2 DEF Waits
    <3>3. CASE j # k
      BY <1>2, <1>3, <1>5, <2>2, <3>1, <3>3 DEF Waits, FrontFirst
    <3>. QED
      BY <3>2, <3>3
  <2>. QED
    BY <1>3, <2>1, <2>2 DEF FrontFirst
<1>7. MovesUp
  BY <1>1, <1>2, <1>3, <1>4, <1>5 DEF MovesUp, Waits, FrontFirst
<1>. QED
  BY <1>2, <1>6, <1>7

LEMMA ReplayLines ==
  ASSUME Inv, FrontFirst, NEW k \in Keys, NEW answer \in {"served", "refused"}, Replay(k, answer)
  PROVE  FrontFirst' /\ MovesUp
<1>1. /\ pump.key = None /\ pump.at = "latest" /\ k \in pump.rows /\ k # None
  BY AgentIngressAssumption DEF FrontFirst, Replay, At, AgentIngressAssumption
<1>2. /\ UNCHANGED << pump.changed, pump.route, latest, older >>
      /\ pump'.rows = pump.rows \ {k} /\ pump'.key = k /\ pump'.at = answer
  BY DEF Inv, TypeOK, Replay
<1>3. Front' = Front
  BY <1>1, <1>2 DEF Front
<1>. QED
  BY <1>1, <1>2, <1>3 DEF FrontFirst, MovesUp, Waits

LEMMA NextRowLines ==
  ASSUME Inv, Lined, FrontFirst, DeleteServed \/ MarkRefused
  PROVE  Lined' /\ FrontFirst' /\ MovesUp
<1>1. PICK k \in Keys : k = pump.key
  BY DEF Inv, TypeOK, FrontFirst, DeleteServed, MarkRefused, At
<1>0. TypeOK /\ latest \subseteq Keys /\ pump.rows \subseteq Keys /\ None \notin Keys
  BY AgentIngressAssumption DEF Inv, TypeOK, AgentIngressAssumption
<1>2. /\ UNCHANGED << pump.rows, pump.changed, pump.route >>
      /\ pump'.key = None /\ pump'.at = "latest" /\ k \notin pump.rows
  BY <1>0, <1>1 DEF TypeOK, DeleteServed, MarkRefused, NextRow, FrontFirst
<1>3. Front' = Front \ {k} /\ (Unchanged <=> k \in Front)
  BY <1>0, <1>1, <1>2 DEF Front, Unchanged
<1>4. CASE ~Unchanged
  <2>1. UNCHANGED << latest, older >> /\ Front' = Front
    BY <1>3, <1>4 DEF DeleteServed, MarkRefused
  <2>. QED
    BY <1>0, <1>1, <1>2, <2>1 DEF Lined, FrontFirst, MovesUp, Waits
<1>5. CASE Unchanged /\ DeleteServed
  <2>1. Remove(k)
    BY <1>1, <1>5 DEF DeleteServed
  <2>2. Lined' /\ (\A j \in Keys \ {k} : older'[j] = older[j] \ {k}) /\ latest' = latest \ {k}
        /\ older'[k] = {}
    BY <1>0, <1>1, <2>1, RemoveLines DEF Remove
  <2>3. FrontFirst'
    BY <1>0, <1>1, <1>2, <1>3, <1>5, <2>2 DEF FrontFirst, Waits
  <2>4. MovesUp
    BY <1>0, <1>1, <1>2, <1>3, <1>5, <2>2 DEF FrontFirst, MovesUp, Waits
  <2>. QED
    BY <2>2, <2>3, <2>4
<1>6. CASE Unchanged /\ MarkRefused
  <2>1. Touch(k) /\ latest' = latest /\ k \in latest
    BY <1>1, <1>3, <1>6 DEF MarkRefused, FrontFirst
  <2>2. /\ Lined' /\ (\A j \in Keys \ {k} : older'[j] = older[j] \ {k})
        /\ older'[k] = {j \in latest \ {k} : RouteOf[j] = RouteOf[k]}
    <3>1. latest' = latest \cup {k}
      BY <2>1
    <3>. QED
      BY <1>0, <1>1, <2>1, <3>1, TouchLines
  <2>3. FrontFirst'
    BY <1>0, <1>1, <1>2, <1>3, <1>6, <2>1, <2>2 DEF FrontFirst, Waits
  <2>4. MovesUp
    BY <1>0, <1>1, <1>2, <1>3, <1>6, <2>1, <2>2 DEF FrontFirst, MovesUp, Waits, MarkRefused
  <2>. QED
    BY <2>2, <2>3, <2>4
<1>. QED
  BY <1>4, <1>5, <1>6

LEMMA NextRouteLines ==
  ASSUME Inv, Lined, FrontFirst, NextRoute
  PROVE  FrontFirst' /\ MovesUp
<1>. DEFINE rows == {k \in latest : RouteOf[k] = pump.route + 1 /\ Cardinality(older[k]) < LatestBatch}
<1>1. TypeOK /\ latest \subseteq Keys /\ None \notin Keys /\ pump.route \in 0..Routes
  BY AgentIngressAssumption DEF Inv, TypeOK, AgentIngressAssumption
<1>2. Front = {} /\ UNCHANGED << latest, older >>
  BY DEF NextRoute, FrontFirst, Front, At, latestRows
<1>3. CASE pump' = Idle
  <2>1. Front' = {}
    BY <1>3 DEF Idle, Front
  <2>2. \A k \in Keys : RouteOf[k] # 0
    BY AgentIngressAssumption DEF AgentIngressAssumption
  <2>. QED
    BY <1>1, <1>2, <1>3, <2>1, <2>2 DEF FrontFirst, MovesUp, Idle
<1>4. CASE pump' # Idle
  <2>1. /\ pump'.at = "latest" /\ pump'.route = pump.route + 1 /\ pump'.changed = {}
        /\ pump'.rows = rows /\ pump'.key = None
    BY <1>1, <1>4 DEF NextRoute, TypeOK, FrontFirst, At
  <2>2. Front' = rows
    BY <1>1, <2>1 DEF Front
  <2>3. FrontFirst'
    <3>1. ASSUME NEW k \in Keys, Waits(k)', NEW j \in rows PROVE j \in older[k]
      BY <1>1, <1>2, <2>1, <2>2, <3>1, FewStandFirst DEF Waits
    <3>. QED
      BY <1>1, <1>2, <2>1, <2>2, <3>1 DEF FrontFirst
  <2>4. ASSUME NEW k \in latest, RouteOf[k] = pump'.route PROVE rows # {}
    <3>1. PICK j \in latest : RouteOf[j] = RouteOf[k] /\ older[j] = {}
      BY <1>1, FirstOfTable
    <3>2. Cardinality(older[j]) < LatestBatch
      BY <3>1, FS_EmptySet, AgentIngressAssumption DEF AgentIngressAssumption
    <3>. QED
      BY <2>1, <2>4, <3>1, <3>2
  <2>. QED
    BY <1>2, <2>1, <2>3, <2>4 DEF MovesUp
<1>. QED
  BY <1>3, <1>4

LEMMA LoseRoundLines == ASSUME Inv, FrontFirst, LoseRound PROVE FrontFirst' /\ MovesUp
<1>1. /\ pump'.at = "idle" /\ pump'.rows = {} /\ pump'.key = None /\ pump'.route = 0
      /\ UNCHANGED << latest, older >> /\ latest \subseteq Keys
  BY DEF LoseRound, Idle, latestRows, Inv, TypeOK
<1>2. Front' = {}
  BY <1>1 DEF Front
<1>3. \A k \in Keys : RouteOf[k] # 0
  BY AgentIngressAssumption DEF AgentIngressAssumption
<1>. QED
  BY <1>1, <1>2, <1>3 DEF FrontFirst, MovesUp

LEMMA NextLines ==
  ASSUME Inv, Lined, FrontFirst, [Next]_vars
  PROVE  Lined' /\ FrontFirst' /\ MovesUp
<1>1. ASSUME NEW k \in Keys, EnqueueLatest(k) PROVE Lined' /\ FrontFirst' /\ MovesUp
  BY <1>1, EnqueueLines
<1>2. CASE DeleteServed \/ MarkRefused
  BY <1>2, NextRowLines
<1>3. CASE UNCHANGED << latest, older >>
  <2>1. Lined'
    BY <1>3 DEF Lined
  <2>2. CASE NextRoute \/ LoseRound
    BY <2>1, <2>2, NextRouteLines, LoseRoundLines
  <2>3. ASSUME NEW k \in Keys, Serve(k) \/ Refuse(k) \/ Replay(k, "refused")
        PROVE  FrontFirst' /\ MovesUp
    BY <2>3, ReplayLines DEF Serve, Refuse
  <2>4. ASSUME NEW e \in Events, EnqueueEvent(e) \/ BecomeDue(e) PROVE FrontFirst' /\ MovesUp
    BY <1>3, <2>4, ElsewhereLines DEF EnqueueEvent, BecomeDue
  <2>5. CASE StartRound \/ NextEvent \/ Check \/ Insert \/ Persist \/ Notify \/ WriteRuntime
             \/ DeleteEvent \/ Retry \/ GiveUp \/ (pump.at \in Handling /\ Step("failed"))
    <3>1. UNCHANGED << pump.rows, pump.key, pump.changed, pump.route >>
      BY <2>5 DEF StartRound, NextEvent, Check, Insert, Persist, Notify, WriteRuntime,
         DeleteEvent, Retry, GiveUp, Step, Inv, TypeOK
    <3>2. {pump.at, pump'.at} \cap {"latest", "served", "refused"} = {}
      BY <2>5 DEF StartRound, NextEvent, Check, Insert, Persist, Notify, WriteRuntime,
         DeleteEvent, Retry, GiveUp, Step, At, Handling, Inv, TypeOK
    <3>. QED
      BY <1>3, <2>1, <3>1, <3>2, ElsewhereLines
  <2>6. CASE UNCHANGED vars
    BY <1>3, <2>1, <2>6, ElsewhereLines DEF vars
  <2>. QED
    BY <1>1, <1>2, <2>1, <2>2, <2>3, <2>4, <2>5, <2>6 DEF Next, Pump, HandlerFails
<1>4. \/ UNCHANGED << latest, older >> \/ DeleteServed \/ MarkRefused
      \/ \E k \in Keys : EnqueueLatest(k)
  BY DEF Next, Pump, StartRound, NextEvent, Check, Insert, Persist, Notify, WriteRuntime,
     DeleteEvent, Retry, GiveUp, NextRoute, Serve, Refuse, Replay, HandlerFails, LoseRound,
     EnqueueEvent, BecomeDue, vars, latestRows
<1>. QED
  BY <1>1, <1>2, <1>3, <1>4

(* Whatever is posted meanwhile, refused or lost, a value that waits gets  *)
(* nearer to the front of its table, and the front is what rounds take.    *)
THEOREM NobodyHeldUp == Spec => WaitingMovesUp
<1>1. Init => Lined /\ FrontFirst
  <2>1. Init => Front = {}
    BY DEF Init, Idle, Front
  <2>. QED
    BY <2>1, FS_EmptySet DEF Init, Idle, Lined, FrontFirst
<1>2. Inv /\ Lined /\ FrontFirst /\ [Next]_vars => (Lined /\ FrontFirst)'
  BY NextLines
<1>3. Inv /\ Lined /\ FrontFirst /\ [Next]_vars => [MovesUp]_vars
  BY NextLines
<1>. QED
  BY <1>1, <1>2, <1>3, SpecInv, PTL DEF Spec, WaitingMovesUp

(* The safe half of EventsSettle: the oldest event that is due is in every *)
(* round, none goes through a round unless its row goes or an attempt is   *)
(* counted, or a fault is, and neither is ever taken back.                 *)
UsesUp ==
  \A e \in Events :
    /\ attempts[e] <= attempts'[e] /\ (inbox[e] = "gone" => inbox'[e] = "gone")
    /\ (At("idle") /\ ~At("idle")' /\ inbox[e] = "due" /\ \A d \in Events : inbox[d] = "due" => e <= d)
         => e \in pump'.batch
    /\ e \in pump.batch \ pump'.batch =>
         inbox'[e] = "gone" \/ attempts'[e] = attempts[e] + 1 \/ faults' = faults + 1

AttemptsUsedUp == [][UsesUp]_vars

LEMMA NextUsesUp == ASSUME Inv, [Next]_vars PROVE UsesUp
<1>. SUFFICES ASSUME NEW e \in Events
              PROVE  /\ attempts[e] <= attempts'[e] /\ (inbox[e] = "gone" => inbox'[e] = "gone")
                     /\ (At("idle") /\ ~At("idle")' /\ inbox[e] = "due"
                           /\ \A d \in Events : inbox[d] = "due" => e <= d) => e \in pump'.batch
                     /\ e \in pump.batch \ pump'.batch =>
                          inbox'[e] = "gone" \/ attempts'[e] = attempts[e] + 1 \/ faults' = faults + 1
  BY DEF UsesUp
<1>1. TypeOK /\ Batch /\ attempts[e] \in Nat
  BY AgentIngressAssumption DEF Inv, TypeOK, AgentIngressAssumption
<1>2. attempts[e] <= attempts[e] /\ attempts[e] <= attempts[e] + 1
  BY <1>1
<1>3. CASE StartRound
  <2>. DEFINE due == {d \in Events : inbox[d] = "due"}
  <2>1. /\ pump'.batch = Selected(due, EventBatch) /\ pump.batch = {}
        /\ UNCHANGED << inbox, attempts >>
    BY <1>1, <1>3 DEF StartRound, TypeOK, Batch, At, tables
  <2>2. ASSUME inbox[e] = "due", \A d \in Events : inbox[d] = "due" => e <= d
        PROVE  e \in Selected(due, EventBatch)
    <3>1. {d \in due : d < e} = {}
      <4>1. \A d \in due : d \in Nat /\ e \in Nat /\ e <= d
        BY <2>2, EventInNat
      <4>2. \A d \in due : ~(d < e)
        BY ONLY <4>1
      <4>. QED
        BY <4>2
    <3>2. Cardinality({d \in due : d < e}) < EventBatch
      BY <3>1, FS_EmptySet, AgentIngressAssumption DEF AgentIngressAssumption
    <3>. QED
      BY <2>2, <3>2 DEF Selected, Oldest
  <2>. QED
    BY <1>2, <2>1, <2>2
<1>4. CASE pump.at \in Replaying
  <2>1. Current \in Events /\ inbox[Current] = "due" /\ ~At("idle") /\ attempts[Current] \in Nat
    BY <1>1, <1>4, CurrentWaits, AgentIngressAssumption
       DEF Inv, At, Replaying, Handling, TypeOK, AgentIngressAssumption
  <2>2. CASE DeleteEvent
    <3>1. inbox' = [inbox EXCEPT ![Current] = "gone"] /\ attempts' = attempts
          /\ pump'.batch = pump.batch \ {Current}
      BY <1>1, <2>2 DEF DeleteEvent, TypeOK, Rest
    <3>. QED
      BY <1>1, <1>2, <2>1, <3>1 DEF TypeOK
  <2>3. CASE Retry
    <3>1. /\ inbox' = [inbox EXCEPT ![Current] = "paused"]
          /\ attempts' = [attempts EXCEPT ![Current] = attempts[Current] + 1]
          /\ pump'.batch = pump.batch \ {Current}
      BY <1>1, <2>3 DEF Retry, TypeOK, Rest
    <3>. QED
      BY <1>1, <1>2, <2>1, <3>1 DEF TypeOK
  <2>4. CASE LoseRound
    BY <1>2, <2>1, <2>4 DEF LoseRound, tables
  <2>5. CASE pump'.batch = pump.batch /\ UNCHANGED << inbox, attempts >>
    BY <1>2, <2>1, <2>5
  <2>6. ASSUME NEW d \in Events, EnqueueEvent(d) \/ BecomeDue(d)
        PROVE  pump' = pump /\ attempts' = attempts /\ (inbox[e] = "gone" => inbox'[e] = "gone")
    BY <1>1, <2>6 DEF EnqueueEvent, BecomeDue, TypeOK
  <2>7. CASE Check \/ Insert \/ Persist \/ Notify \/ WriteRuntime \/ GiveUp \/ HandlerFails
    BY <1>1, <1>4, <2>5, <2>7 DEF Check, Insert, Persist, Notify, WriteRuntime, GiveUp, HandlerFails,
       Step, TypeOK, Replay, At, Replaying, Handling, tables
  <2>8. ASSUME NEW k \in Keys, EnqueueLatest(k) PROVE pump'.batch = pump.batch /\ UNCHANGED tables
    BY <1>1, <2>8 DEF EnqueueLatest, TypeOK
  <2>. QED
    BY <1>2, <1>4, <2>1, <2>2, <2>3, <2>4, <2>5, <2>6, <2>7, <2>8
       DEF Next, Pump, StartRound, NextEvent, NextRoute, DeleteServed, MarkRefused, Serve, Refuse,
           Replay, At, Replaying, Handling, vars, tables
<1>5. CASE pump.at \notin Replaying /\ ~StartRound
  <2>1. CASE pump'.batch = pump.batch /\ UNCHANGED << inbox, attempts >> /\ (At("idle") => At("idle")')
    BY <1>2, <2>1
  <2>2. ASSUME NEW d \in Events, EnqueueEvent(d) \/ BecomeDue(d)
        PROVE  pump' = pump /\ attempts' = attempts /\ (inbox[e] = "gone" => inbox'[e] = "gone")
    BY <1>1, <2>2 DEF EnqueueEvent, BecomeDue, TypeOK
  <2>3. CASE LoseRound
    BY <1>2, <2>3 DEF LoseRound, tables
  <2>4. CASE NextEvent \/ DeleteServed \/ MarkRefused
    BY <1>1, <2>1, <2>4 DEF NextEvent, DeleteServed, MarkRefused, NextRow, Step, TypeOK, At, tables
  <2>5. ASSUME NEW k \in Keys, EnqueueLatest(k) \/ Serve(k) \/ Refuse(k) \/ Replay(k, "refused")
        PROVE  /\ pump'.batch = pump.batch /\ UNCHANGED tables
               /\ (At("idle") => At("idle")')
    BY <1>1, <2>5 DEF EnqueueLatest, Serve, Refuse, Replay, TypeOK, At
  <2>6. CASE NextRoute
    <3>1. pump.batch = {} /\ ~At("idle") /\ UNCHANGED << inbox, attempts >>
      BY <2>6 DEF NextRoute, At, tables
    <3>. QED
      BY <1>2, <3>1
  <2>7. CASE UNCHANGED vars
    BY <2>1, <2>7 DEF vars, tables, At
  <2>. QED
    BY <1>2, <1>5, <2>1, <2>2, <2>3, <2>4, <2>5, <2>6, <2>7
       DEF Next, Pump, Check, Insert, Persist, Notify, WriteRuntime, DeleteEvent, Retry, GiveUp,
           HandlerFails, At, Replaying, Handling, tables
<1>. QED
  BY <1>3, <1>4, <1>5

(* Each replay of an event brings its end nearer: attempts are bounded by  *)
(* TypeOK, faults by MaxFaults, and none of them is given back.            *)
THEOREM EventsUsedUp == Spec => AttemptsUsedUp
<1>1. Inv /\ [Next]_vars => [UsesUp]_vars
  BY NextUsesUp
<1>. QED
  BY <1>1, SpecInv, PTL DEF Spec, AttemptsUsedUp
=============================================================================
