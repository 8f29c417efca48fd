---------------------------- MODULE AgentIngress ----------------------------
(***************************************************************************)
(* What the agent posts to an agent server is put in a table and answered  *)
(* at once; a pump replays the tables to the handlers of the same process. *)
(* Events are kept in the order they came, tried again after a pause and   *)
(* moved to the dead letters when they have failed too often.  Thumbnails, *)
(* capture metrics and monitor snapshots keep one row for each key, which  *)
(* a later post overwrites while the pump may be replaying the old one.    *)
(*                                                                         *)
(* The events are those of one job: each has structured rows, a bell       *)
(* notification and a status in the runtime row.  They are numbered in the *)
(* order of created_at.                                                    *)
(***************************************************************************)
EXTENDS Naturals, FiniteSets

CONSTANTS
  MaxEvents,     \* events the agent posts
  Poison,        \* events whose handler always answers with an error
  EventBatch,    \* LOCAL_AGENT_EVENT_BATCH_SIZE
  MaxAttempts,   \* LOCAL_AGENT_EVENT_MAX_ATTEMPTS
  Keys,          \* rows the tables of latest values can have
  Routes,        \* number of those tables, in the order they are drained
  RouteOf,       \* the table of a key
  Broken,        \* keys whose handler always answers with an error
  LatestBatch,   \* LOCAL_AGENT_LATEST_BATCH_SIZE
  MaxFaults,     \* bound on failing statements and crashes
  None

Events == 1..MaxEvents

ASSUME AgentIngressAssumption ==
  /\ {MaxEvents, MaxFaults, Routes} \subseteq Nat
  /\ {EventBatch, MaxAttempts, LatestBatch} \subseteq Nat \ {0}
  /\ Poison \subseteq Events /\ Broken \subseteq Keys
  /\ RouteOf \in [Keys -> 1..Routes]
  /\ None \notin Keys

VARIABLES
  inbox,         \* row of an event: none, due, paused or gone
  attempts,      \* attempt_count of that row
  dead,          \* rows of the event in agent_ingest_deadletter
  recorded,      \* events with a row in events
  notified,      \* rows of the event in notifications
  jobRun,        \* event whose status job_runs has
  runtime,       \* event whose status job_runtime_states has
  latest,        \* keys that have a row
  older,         \* keys whose row has an earlier updated_at than the key's
  turn,          \* the value last posted for a key, which changes with each post
  owed,          \* keys whose last value has not reached its handler
  pump,          \* the round of the pump that is on its way
  faults

tables == << inbox, attempts, dead >>
effects == << recorded, notified, jobRun, runtime >>
latestRows == << latest, older, turn, owed >>
vars == << tables, effects, latestRows, pump, faults >>

Handling == {"check", "insert", "persist", "again", "notify", "runtime"}
Positions == Handling \cup {"idle", "next", "ok", "failed", "bury",
                            "latest", "served", "refused"}

Idle == [at |-> "idle", batch |-> {}, route |-> 0, rows |-> {}, key |-> None,
         changed |-> {}]

Init ==
  /\ inbox = [e \in Events |-> "none"]
  /\ attempts = [e \in Events |-> 0]
  /\ dead = [e \in Events |-> 0]
  /\ recorded = {} /\ notified = [e \in Events |-> 0]
  /\ jobRun = 0 /\ runtime = 0
  /\ latest = {} /\ older = [k \in Keys |-> {}]
  /\ turn = [k \in Keys |-> FALSE] /\ owed = {}
  /\ pump = Idle /\ faults = 0

-----------------------------------------------------------------------------
(* Requests of the agent. *)

(* enqueueLocalAgentEventRequest *)
EnqueueEvent(e) ==
  /\ inbox[e] = "none" /\ \A d \in Events : d < e => inbox[d] # "none"
  /\ inbox' = [inbox EXCEPT ![e] = "due"]
  /\ UNCHANGED << attempts, dead, effects, latestRows, pump, faults >>

(* A row gets the newest updated_at of its table. *)
Touch(k) ==
  older' = [j \in Keys |-> IF j = k THEN {i \in latest \ {k} : RouteOf[i] = RouteOf[k]}
                           ELSE older[j] \ {k}]

(* enqueueLocalAgentLatestRequest: the row of a key is inserted or          *)
(* overwritten, the pump holding what it has read of it.                   *)
EnqueueLatest(k) ==
  /\ Touch(k)
  /\ latest' = latest \cup {k}
  /\ turn' = [turn EXCEPT ![k] = ~@]
  /\ owed' = owed \cup {k}
  /\ pump' = [pump EXCEPT !.changed = @ \cup ({k} \cap (pump.rows \cup {pump.key}))]
  /\ UNCHANGED << tables, effects, faults >>

-----------------------------------------------------------------------------
(* The pump. *)

At(step) == pump.at = step
Step(step) == pump' = [pump EXCEPT !.at = step]

(* Oldest(S, n) has the n smallest numbers of S. *)
Oldest(S, n) == {e \in S : Cardinality({d \in S : d < e}) < n}

(* Mutant of Selected: the select is not ordered. *)
Unordered(S, n) == {e \in S : Cardinality({d \in S : d > e}) < n}

Selected(S, n) == Oldest(S, n)

(* A tick finds no round on its way and starts one. *)
StartRound ==
  /\ At("idle")
  /\ pump' = [pump EXCEPT !.at = "next",
                          !.batch = Selected({e \in Events : inbox[e] = "due"}, EventBatch)]
  /\ UNCHANGED << tables, effects, latestRows, faults >>

(* The event that is being replayed, or the next one. *)
Current == CHOOSE e \in pump.batch : \A d \in pump.batch : e <= d

Rest == pump.batch \ {Current}

NextEvent ==
  /\ At("next") /\ pump.batch # {}
  /\ Step(IF Current \in Poison THEN "failed" ELSE "check")
  /\ UNCHANGED << tables, effects, latestRows, faults >>

(* Mutant of Check: every event is taken for a new one. *)
CheckNothing ==
  /\ At("check") /\ Step("insert")
  /\ UNCHANGED << tables, effects, latestRows, faults >>

(* The statements of the handler of /api/agent/events. *)
Check ==
  /\ At("check")
  /\ Step(IF Current \in recorded THEN "again" ELSE "insert")
  /\ UNCHANGED << tables, effects, latestRows, faults >>

Insert ==
  /\ At("insert") /\ Step("persist")
  /\ recorded' = recorded \cup {Current}
  /\ UNCHANGED << tables, notified, jobRun, runtime, latestRows, faults >>

(* persistStructuredAgentEvent; an event that was already recorded has      *)
(* nothing else done for it.                                               *)
Persist ==
  /\ At("persist") \/ At("again")
  /\ Step(IF At("again") THEN "ok" ELSE "notify")
  /\ jobRun' = Current
  /\ UNCHANGED << tables, recorded, notified, runtime, latestRows, faults >>

Notify ==
  /\ At("notify") /\ Step("runtime")
  /\ notified' = [notified EXCEPT ![Current] = @ + 1]
  /\ UNCHANGED << tables, recorded, jobRun, runtime, latestRows, faults >>

WriteRuntime ==
  /\ At("runtime") /\ Step("ok")
  /\ runtime' = Current
  /\ UNCHANGED << tables, recorded, notified, jobRun, latestRows, faults >>

DeleteEvent ==
  /\ At("ok") \/ At("bury")
  /\ inbox' = [inbox EXCEPT ![Current] = "gone"]
  /\ pump' = [pump EXCEPT !.at = "next", !.batch = Rest]
  /\ UNCHANGED << attempts, dead, effects, latestRows, faults >>

(* Mutant of Retry: the attempt is not counted. *)
RetryUncounted ==
  /\ At("failed") /\ attempts[Current] + 1 < MaxAttempts
  /\ inbox' = [inbox EXCEPT ![Current] = "paused"]
  /\ pump' = [pump EXCEPT !.at = "next", !.batch = Rest]
  /\ UNCHANGED << attempts, dead, effects, latestRows, faults >>

(* Mutant of Retry: one attempt too many. *)
RetryPast ==
  /\ At("failed") /\ attempts[Current] + 1 <= MaxAttempts
  /\ attempts' = [attempts EXCEPT ![Current] = @ + 1]
  /\ inbox' = [inbox EXCEPT ![Current] = "paused"]
  /\ pump' = [pump EXCEPT !.at = "next", !.batch = Rest]
  /\ UNCHANGED << dead, effects, latestRows, faults >>

Retry ==
  /\ At("failed") /\ attempts[Current] + 1 < MaxAttempts
  /\ attempts' = [attempts EXCEPT ![Current] = @ + 1]
  /\ inbox' = [inbox EXCEPT ![Current] = "paused"]
  /\ pump' = [pump EXCEPT !.at = "next", !.batch = Rest]
  /\ UNCHANGED << dead, effects, latestRows, faults >>

GiveUp ==
  /\ At("failed") /\ attempts[Current] + 1 >= MaxAttempts
  /\ dead' = [dead EXCEPT ![Current] = @ + 1]
  /\ Step("bury")
  /\ UNCHANGED << inbox, attempts, effects, latestRows, faults >>

(* The pause of backoffDelayMs is over. *)
BecomeDue(e) ==
  /\ inbox[e] = "paused"
  /\ inbox' = [inbox EXCEPT ![e] = "due"]
  /\ UNCHANGED << attempts, dead, effects, latestRows, pump, faults >>

(* loadLatestRows of the next table, until there is none. *)
NextRoute ==
  /\ \/ At("next")
     \/ At("latest")
  /\ pump.batch = {} /\ pump.rows = {}
  /\ LET r == pump.route + 1 IN
     pump' = IF r > Routes THEN Idle
             ELSE [pump EXCEPT !.at = "latest", !.route = r, !.changed = {},
                     !.rows = {k \in latest : RouteOf[k] = r
                                 /\ Cardinality(older[k]) < LatestBatch}]
  /\ UNCHANGED << tables, effects, latestRows, faults >>

(* The row as it was read is replayed, in any order within the batch. *)
Replay(k, answer) ==
  /\ At("latest") /\ k \in pump.rows
  /\ pump' = [pump EXCEPT !.at = answer, !.key = k, !.rows = @ \ {k}]
  /\ UNCHANGED << tables, effects, latest, older, turn >>

Serve(k) ==
  /\ Replay(k, "served") /\ k \notin Broken
  /\ owed' = IF k \in pump.changed THEN owed ELSE owed \ {k}
  /\ UNCHANGED faults

Refuse(k) == Replay(k, "refused") /\ k \in Broken /\ UNCHANGED << owed, faults >>

Unchanged == pump.key \notin pump.changed

NextRow == pump' = [pump EXCEPT !.at = "latest", !.key = None]

Remove(k) ==
  /\ latest' = latest \ {k}
  /\ older' = [j \in Keys |-> IF j = k THEN {} ELSE older[j] \ {k}]

(* Mutant of DeleteServed: the row goes even if it was overwritten. *)
DeleteAnyway ==
  /\ At("served") /\ NextRow
  /\ Remove(pump.key)
  /\ UNCHANGED << tables, effects, turn, owed, faults >>

(* deleteLatestRowIfUnchanged *)
DeleteServed ==
  /\ At("served") /\ NextRow
  /\ IF Unchanged THEN Remove(pump.key) ELSE UNCHANGED << latest, older >>
  /\ UNCHANGED << tables, effects, turn, owed, faults >>

(* Mutant of MarkRefused: the row keeps its place. *)
MarkInPlace ==
  /\ At("refused") /\ NextRow
  /\ UNCHANGED << tables, effects, latestRows, faults >>

(* markLatestRowFailureIfUnchanged *)
MarkRefused ==
  /\ At("refused") /\ NextRow
  /\ IF Unchanged THEN Touch(pump.key) ELSE UNCHANGED older
  /\ UNCHANGED << tables, effects, latest, turn, owed, faults >>

-----------------------------------------------------------------------------
(* Faults. *)

(* A statement of a handler fails: the handler answers with an error. *)
HandlerFails ==
  /\ faults < MaxFaults /\ faults' = faults + 1
  /\ \/ /\ pump.at \in Handling /\ Step("failed")
        /\ UNCHANGED << tables, effects, latestRows >>
     \/ \E k \in Keys : Replay(k, "refused") /\ UNCHANGED owed

(* A statement of the pump fails, or the process is restarted. *)
LoseRound ==
  /\ faults < MaxFaults /\ faults' = faults + 1
  /\ ~At("idle") /\ pump' = Idle
  /\ UNCHANGED << tables, effects, latestRows >>

Pump ==
  \/ StartRound \/ NextEvent
  \/ Check \/ Insert \/ Persist \/ Notify \/ WriteRuntime
  \/ DeleteEvent \/ Retry \/ GiveUp
  \/ NextRoute \/ DeleteServed \/ MarkRefused
  \/ \E k \in Keys : Serve(k) \/ Refuse(k)

Next ==
  \/ Pump \/ HandlerFails \/ LoseRound
  \/ \E e \in Events : EnqueueEvent(e) \/ BecomeDue(e)
  \/ \E k \in Keys : EnqueueLatest(k)

Spec == Init /\ [][Next]_vars

(* The timer ticks, a replayed request is answered and a pause ends. *)
FairSpec ==
  /\ Spec /\ WF_vars(Pump)
  /\ \A e \in Events : WF_vars(BecomeDue(e))

-----------------------------------------------------------------------------
TypeOK ==
  /\ inbox \in [Events -> {"none", "due", "paused", "gone"}]
  /\ attempts \in [Events -> 0..(MaxAttempts - 1)]
  /\ dead \in [Events -> Nat]
  /\ recorded \subseteq Events
  /\ notified \in [Events -> Nat]
  /\ jobRun \in Events \cup {0} /\ runtime \in Events \cup {0}
  /\ latest \subseteq Keys /\ owed \subseteq Keys
  /\ older \in [Keys -> SUBSET Keys] /\ turn \in [Keys -> BOOLEAN]
  /\ pump \in [at : Positions, batch : SUBSET Events, route : 0..Routes,
               rows : SUBSET Keys, key : Keys \cup {None}, changed : SUBSET Keys]
  /\ faults \in 0..MaxFaults

(* An event replayed again, because its handler failed half way or the      *)
(* round was lost before its row was deleted, notifies nobody twice.       *)
NotifiedOnce == \A e \in Events : notified[e] <= 1

(* The status of a job is only taken back by an event that failed before:  *)
(* neither a lost round nor a batch with a failure in it changes the order *)
(* of the others.                                                          *)
InOrder ==
  [][\A e \in Events : (runtime' = e /\ e < runtime) => attempts[e] > 0]_vars

(* An event leaves the inbox, into the table of events or the dead letters,*)
(* however often it fails.                                                 *)
EventsSettle ==
  \A e \in Events :
    inbox[e] # "none" ~> (inbox[e] = "gone" /\ (e \in recorded \/ dead[e] > 0))

(* The last value posted for a key reaches its handler, or is overwritten  *)
(* by the next, though the pump was replaying the one before it and other  *)
(* keys are posted more often or always refused.                           *)
LatestServed ==
  \A k \in Keys \ Broken, v \in BOOLEAN :
    (k \in owed /\ turn[k] = v) ~> (k \notin owed \/ turn[k] # v)

(* An event leaves the inbox only once it is recorded or a dead letter. *)
NothingLost ==
  \A e \in Events : inbox[e] = "gone" => (e \in recorded \/ dead[e] > 0)

(* A value that has yet to reach its handler has its row. *)
NewestKept == owed \subseteq latest

(* The server keeps the promise of EventDelivery, whatever fails on the way *)
(* and however the tables of latest values take the pump's time.           *)
FailedOnce(e) == attempts[e] > 0 \/ dead[e] > 0
Delivery == INSTANCE EventDelivery WITH
              accepted <- {e \in Events : inbox[e] # "none"},
              failed <- {e \in Events : FailedOnce(e)},
              applied <- jobRun,
              told <- notified,
              shown <- runtime,
              buried <- {e \in Events : dead[e] > 0},
              settled <- {e \in Events : inbox[e] = "gone"}
DeliverySpec == Delivery!Spec

(* What TLC refutes: an event whose handler failed after its first         *)
(* statement is never notified, nor does it reach the runtime row.         *)
EffectsComplete ==
  \A e \in Events : (inbox[e] = "gone" /\ e \in recorded) => notified[e] = 1

(* What TLC refutes: when nothing is left in the inbox the runtime row has *)
(* the status of the last event.                                           *)
LastEventStands ==
  (\A e \in Events : inbox[e] = "gone") => runtime = MaxEvents

(* What TLC refutes: an event has one dead letter at most. *)
BuriedOnce == \A e \in Events : dead[e] <= 1
=============================================================================
