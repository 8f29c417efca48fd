--------------------------- MODULE SharedSegments ---------------------------
(***************************************************************************)
(* One run of a job on cameras of several accounts.  The server of the     *)
(* operator cuts the run into segments, one for each account, sends the    *)
(* remote ones through the central relay to the servers of the owners, and *)
(* puts the status of the run together from what comes back.               *)
(*                                                                         *)
(* Three kinds of process take part: the operator (start request, stop     *)
(* request, handlers of relayed messages), the relay (a waiter for the     *)
(* acknowledgement of each forwarded request) and every owner (handlers of *)
(* forwarded requests, and the agent that executes the commands they       *)
(* insert).  Handlers are not serialized: messages are sets, and a handler *)
(* that awaits is split there.  The segment of the operator's own cameras  *)
(* has no relay and no owner row; its agent reports to the operator.       *)
(***************************************************************************)
EXTENDS Naturals, Sequences, FiniteSets

CONSTANTS
  Remote,        \* segments of other accounts
  Local,         \* the segment of the operator's own cameras, if there is one
  MaxFaults,     \* bound on refusals, losses, duplicates and late answers
  None

Segments == Remote \cup Local

ASSUME SharedSegmentsAssumption ==
  /\ MaxFaults \in Nat
  /\ Remote \cap Local = {}
  /\ None \notin Segments

VARIABLES
  run,           \* status in job_runs
  seg,           \* status of each segment row of the operator
  start,         \* the start request: position, segments left, result
  stop,          \* the stop request: position, segments left
  ack,           \* waiters of the relay: request -> segment -> outcome
  toOwner,       \* copies of a forwarded request on their way
  handling,      \* handlers of it that have read and not yet written
  own,           \* status of the owner's row
  starts,        \* job_start commands inserted for a segment
  stops,         \* job_stop commands inserted for a segment
  queue,         \* commands the agent of a segment has yet to execute
  rt,            \* the segment in the runtime of that agent
  toOperator,    \* messages on their way to the operator
  writing,       \* finalizers that have yet to write the run, by verdict
  faults

operator == << run, seg, start, stop >>
owner == << own, starts, stops, queue, rt >>
vars == << operator, ack, toOwner, handling, owner, toOperator, writing, faults >>

Requests == {"start", "stop", "rollback"}
Ended == {"completed", "failed", "stopped"}        \* isTerminalSharedJobSegmentStatus
RunStatus == {"none", "queued", "running"} \cup Ended

(* A row that is queued, dispatching, running or stopping is active:        *)
(* nothing tells these statuses apart.                                     *)
SegStatus == {"none", "active"} \cup Ended
Outcomes == {"none", "waiting", "ok", "refused"}

(* What an owner tells the operator: acknowledgement and error of a start, *)
(* results of commands, events of the runtime.                             *)
Kinds == {"started", "startError", "startFailed", "stopDone", "running"} \cup Ended
Messages == [kind : Kinds, seg : Segments]

(* Mutant of StatusOf: the kind of the message is stored as it is.         *)
StatusRaw(kind) == kind

(* The status a row takes from a message. *)
StatusOf(kind) ==
  CASE kind \in {"started", "running"} -> "active"
    [] kind \in {"startError", "startFailed"} -> "failed"
    [] kind = "stopDone" -> "stopped"
    [] OTHER -> kind

StartPositions == {"idle", "rows", "dispatch", "wait", "failRun", "locals", "markLocal",
                   "finish", "event", "rollback", "rollbackWait", "done"}
StartLocals == [pc : StartPositions, cur : Segments \cup {None},
                todo : SUBSET Segments, sent : SUBSET Segments, ok : BOOLEAN]

StopPositions == {"idle", "mark", "local", "remote", "ask", "wait", "done"}
StopLocals == [pc : StopPositions, cur : Segments \cup {None}, todo : SUBSET Segments,
               found : SUBSET Segments, early : BOOLEAN]

Init ==
  /\ run = "none"
  /\ seg = [s \in Segments |-> "none"]
  /\ start = [pc |-> "idle", cur |-> None, todo |-> {}, sent |-> {}, ok |-> TRUE]
  /\ stop = [pc |-> "idle", cur |-> None, todo |-> {}, found |-> {}, early |-> FALSE]
  /\ ack = [r \in Requests |-> [s \in Remote |-> "none"]]
  /\ toOwner = [r \in Requests |-> [s \in Remote |-> 0]]
  /\ handling = [r \in Requests |-> [s \in Remote |-> 0]]
  /\ own = [s \in Remote |-> "none"]
  /\ starts = [s \in Segments |-> 0]
  /\ stops = [s \in Segments |-> 0]
  /\ queue = [s \in Segments |-> << >>]
  /\ rt = [s \in Segments |-> "none"]
  /\ toOperator = {}
  /\ writing = {}
  /\ faults = 0

NoFault == UNCHANGED faults
Fault == faults < MaxFaults /\ faults' = faults + 1

-----------------------------------------------------------------------------
(* The relay: the routes jobs/start and jobs/:run/stop.                    *)

(* The owner has no socket (409 at once), or the request is forwarded to   *)
(* each of its sockets (two, when an old one lingers) and the route waits  *)
(* for an answer.                                                          *)
Forward(r, s) ==
  \/ /\ Fault
     /\ ack' = [ack EXCEPT ![r][s] = "refused"]
     /\ UNCHANGED toOwner
  \/ /\ \/ NoFault /\ toOwner' = [toOwner EXCEPT ![r][s] = 1]
        \/ Fault /\ toOwner' = [toOwner EXCEPT ![r][s] = 2]
     /\ ack' = [ack EXCEPT ![r][s] = "waiting"]

(* The waiter takes the first answer; later ones find no waiter.           *)
Settle(r, s, outcome) ==
  ack' = [ack EXCEPT ![r][s] = IF @ = "waiting" THEN outcome ELSE @]

(* Twelve seconds have passed.  It is a fault when an answer was still to  *)
(* come.                                                                   *)
AckTimeout(r, s) ==
  /\ ack[r][s] = "waiting"
  /\ ack' = [ack EXCEPT ![r][s] = "refused"]
  /\ IF toOwner[r][s] + handling[r][s] > 0 THEN Fault ELSE NoFault
  /\ UNCHANGED << operator, toOwner, handling, owner, toOperator, writing >>

LoseRequest(r, s) ==
  /\ toOwner[r][s] > 0
  /\ toOwner' = [toOwner EXCEPT ![r][s] = @ - 1]
  /\ Fault
  /\ UNCHANGED << operator, ack, handling, owner, toOperator, writing >>

-----------------------------------------------------------------------------
(* executeJobStartPlan                                                     *)

StartAt(pc) == start.pc = pc
StartGo(pc) == start' = [start EXCEPT !.pc = pc]

StartRun ==
  /\ StartAt("idle")
  /\ run' = "queued"
  /\ StartGo("rows")
  /\ UNCHANGED << seg, stop, ack, toOwner, handling, owner, toOperator, writing, faults >>

StartRows ==
  /\ StartAt("rows")
  /\ seg' = [s \in Segments |-> "active"]
  /\ start' = [start EXCEPT !.pc = "dispatch", !.todo = Remote]
  /\ UNCHANGED << run, stop, ack, toOwner, handling, owner, toOperator, writing, faults >>

(* One remote segment after the other, each awaited. *)
Dispatch(s) ==
  /\ StartAt("dispatch") /\ s \in start.todo
  /\ Forward("start", s)
  /\ start' = [start EXCEPT !.pc = "wait", !.cur = s, !.todo = @ \ {s}]
  /\ UNCHANGED << run, seg, stop, handling, owner, toOperator, writing >>

(* The row is set to running, ended meanwhile or not. *)
DispatchAccepted ==
  /\ StartAt("wait") /\ ack["start"][start.cur] = "ok"
  /\ seg' = [seg EXCEPT ![start.cur] = "active"]
  /\ start' = [start EXCEPT !.pc = "dispatch", !.cur = None, !.sent = @ \cup {start.cur}]
  /\ UNCHANGED << run, stop, ack, toOwner, handling, owner, toOperator, writing, faults >>

(* The start ends here: segments dispatched before this one are left. *)
DispatchRefused ==
  /\ StartAt("wait") /\ ack["start"][start.cur] = "refused"
  /\ seg' = [seg EXCEPT ![start.cur] = "failed"]
  /\ start' = [start EXCEPT !.pc = "failRun", !.cur = None, !.todo = {}]
  /\ UNCHANGED << run, stop, ack, toOwner, handling, owner, toOperator, writing, faults >>

FailRun ==
  /\ \/ StartAt("failRun")
     \/ StartAt("rollback") /\ start.todo = {}
  /\ run' = "failed"
  /\ start' = [start EXCEPT !.pc = "done", !.ok = FALSE]
  /\ UNCHANGED << seg, stop, ack, toOwner, handling, owner, toOperator, writing, faults >>

AllDispatched ==
  /\ StartAt("dispatch") /\ start.todo = {}
  /\ start' = [start EXCEPT !.pc = "locals", !.todo = Local]
  /\ UNCHANGED << run, seg, stop, ack, toOwner, handling, owner, toOperator, writing, faults >>

(* insertLocalJobStartCommand, then the row. *)
StartLocal(s) ==
  /\ StartAt("locals") /\ s \in start.todo
  /\ starts' = [starts EXCEPT ![s] = @ + 1]
  /\ queue' = [queue EXCEPT ![s] = Append(@, "start")]
  /\ start' = [start EXCEPT !.pc = "markLocal", !.cur = s, !.todo = @ \ {s}]
  /\ UNCHANGED << run, seg, stop, ack, toOwner, handling, own, stops, rt, toOperator,
                  writing, faults >>

MarkLocal ==
  /\ StartAt("markLocal")
  /\ seg' = [seg EXCEPT ![start.cur] = "active"]
  /\ start' = [start EXCEPT !.pc = "locals", !.cur = None]
  /\ UNCHANGED << run, stop, ack, toOwner, handling, owner, toOperator, writing, faults >>

(* The segments that stand as dispatched when a statement fails: that of an *)
(* accepted request is among them before its row is written.                *)
Dispatched ==
  start.sent \cup {s \in Remote : StartAt("wait") /\ s = start.cur /\ ack["start"][s] = "ok"}

(* A write of a row or of the run fails, or the payload of a local camera   *)
(* cannot be built: every dispatched segment is asked to stop.  The rows    *)
(* are written one by one, so that some of them may be there.               *)
StartThrows ==
  /\ start.pc \in {"rows", "wait", "failRun", "locals", "markLocal"}
  /\ StartAt("wait") => ack["start"][start.cur] \in {"ok", "refused"}
  /\ \/ ~StartAt("rows") /\ UNCHANGED seg
     \/ /\ StartAt("rows")
        /\ \E rows \in SUBSET Segments :
             seg' = [s \in Segments |-> IF s \in rows THEN "active" ELSE seg[s]]
  /\ start' = [start EXCEPT !.pc = "rollback", !.cur = None,
                            !.todo = Dispatched, !.sent = Dispatched]
  /\ Fault
  /\ UNCHANGED << run, stop, ack, toOwner, handling, owner, toOperator, writing >>

Rollback(s) ==
  /\ StartAt("rollback") /\ s \in start.todo
  /\ Forward("rollback", s)
  /\ start' = [start EXCEPT !.pc = "rollbackWait", !.cur = s, !.todo = @ \ {s}]
  /\ UNCHANGED << run, seg, stop, handling, owner, toOperator, writing >>

(* Whatever the answer. *)
RolledBack ==
  /\ StartAt("rollbackWait") /\ ack["rollback"][start.cur] \in {"ok", "refused"}
  /\ start' = [start EXCEPT !.pc = "rollback", !.cur = None]
  /\ UNCHANGED << run, seg, stop, ack, toOwner, handling, owner, toOperator, writing, faults >>

(* The run is set to running, then once more by the event job_started of   *)
(* enqueueManualJobStart, whatever it has become meanwhile.                *)
StartFinish ==
  /\ \/ StartAt("locals") /\ start.todo = {} /\ StartGo("event")
     \/ StartAt("event") /\ StartGo("done")
  /\ run' = "running"
  /\ UNCHANGED << seg, stop, ack, toOwner, handling, owner, toOperator, writing, faults >>

-----------------------------------------------------------------------------
(* executeJobStopPlan and stopRemoteSegments                               *)

StopAt(pc) == stop.pc = pc

Active == {s \in Segments : seg[s] = "active"}

(* The segments that are not terminal are listed ...  The request may come *)
(* early, while that of the start is still awaited.                        *)
StopRequest ==
  /\ StopAt("idle") /\ run # "none"
  /\ stop' = [stop EXCEPT !.pc = "mark", !.found = Active, !.early = ~StartAt("done")]
  /\ UNCHANGED << run, seg, start, ack, toOwner, handling, owner, toOperator, writing, faults >>

(* ... and set to stopping, ended meanwhile or not. *)
StopMark ==
  /\ StopAt("mark")
  /\ seg' = [s \in Segments |-> IF s \in stop.found THEN "active" ELSE seg[s]]
  /\ stop' = [stop EXCEPT !.pc = "local"]
  /\ UNCHANGED << run, start, ack, toOwner, handling, owner, toOperator, writing, faults >>

(* A job_stop for the own agent, if the own segment was listed or nothing  *)
(* was.                                                                    *)
StopLocal ==
  /\ StopAt("local")
  /\ LET told == IF stop.found = {} THEN Local ELSE stop.found \cap Local
     IN /\ stops' = [s \in Segments |-> stops[s] + IF s \in told THEN 1 ELSE 0]
        /\ queue' = [s \in Segments |->
                       IF s \in told THEN Append(queue[s], "stop") ELSE queue[s]]
  /\ stop' = [stop EXCEPT !.pc = IF stop.found \cap Remote = {} THEN "done" ELSE "remote",
                          !.found = {}]
  /\ UNCHANGED << run, seg, start, ack, toOwner, handling, own, starts, rt, toOperator,
                  writing, faults >>

(* The segments are read again: while one of the run is not terminal,      *)
(* every remote one is asked to stop.                                      *)
StopRemote ==
  /\ StopAt("remote")
  /\ stop' = [stop EXCEPT !.pc = "ask",
                          !.todo = {s \in Remote : Active # {} /\ seg[s] # "none"}]
  /\ UNCHANGED << run, seg, start, ack, toOwner, handling, owner, toOperator, writing, faults >>

StopAsk(s) ==
  /\ StopAt("ask") /\ s \in stop.todo
  /\ Forward("stop", s)
  /\ stop' = [stop EXCEPT !.pc = "wait", !.cur = s, !.todo = @ \ {s}]
  /\ UNCHANGED << run, seg, start, handling, owner, toOperator, writing >>

(* The answer of the relay is not looked at. *)
StopAnswered ==
  /\ \/ StopAt("wait") /\ ack["stop"][stop.cur] \in {"ok", "refused"}
        /\ stop' = [stop EXCEPT !.pc = "ask", !.cur = None]
     \/ StopAt("ask") /\ stop.todo = {} /\ stop' = [stop EXCEPT !.pc = "done"]
  /\ UNCHANGED << run, seg, start, ack, toOwner, handling, owner, toOperator, writing, faults >>

-----------------------------------------------------------------------------
(* The owner: handleSharedJobStartRelayMessage and                         *)
(* handleSharedJobStopRelayMessage.  An answer settles the waiter and goes *)
(* on to the operator; it may be lost on a closed socket.                  *)

Answer(r, s, outcome, msgs) ==
  \/ NoFault /\ Settle(r, s, outcome) /\ toOperator' = toOperator \cup msgs
  \/ Fault /\ UNCHANGED << ack, toOperator >>

Started(s) == {[kind |-> "started", seg |-> s]}
StartError(s) == {[kind |-> "startError", seg |-> s]}

Arrive(r, s) ==
  /\ toOwner[r][s] > 0
  /\ toOwner' = [toOwner EXCEPT ![r][s] = @ - 1]

(* A command that exists is acknowledged again; otherwise the row is       *)
(* written and the handler goes on to look for an agent.                   *)
ReadStart(s) ==
  /\ Arrive("start", s)
  /\ own' = [own EXCEPT ![s] = IF @ = "none" THEN "active" ELSE @]
  /\ IF starts[s] > 0
     THEN /\ Answer("start", s, "ok", Started(s))
          /\ UNCHANGED handling
     ELSE /\ handling' = [handling EXCEPT !["start"][s] = @ + 1]
          /\ UNCHANGED << ack, toOperator, faults >>
  /\ UNCHANGED << operator, starts, stops, queue, rt, writing >>

(* No fresh agent, or no camera payload. *)
RefuseStart(s) ==
  /\ handling["start"][s] > 0
  /\ handling' = [handling EXCEPT !["start"][s] = @ - 1]
  /\ Settle("start", s, "refused")
  /\ toOperator' = toOperator \cup StartError(s)
  /\ Fault
  /\ UNCHANGED << operator, toOwner, owner, writing >>

(* insertSharedSegmentCommandOnce, in one statement. *)
InsertOnce(s, count, type) ==
  IF count[s] = 0
  THEN count' = [count EXCEPT ![s] = 1] /\ queue' = [queue EXCEPT ![s] = Append(@, type)]
  ELSE UNCHANGED << count, queue >>

(* Mutants of FinishStart: the insert trusts what the handler has read;    *)
(* the acknowledgement does not wait for the insert.                       *)
FinishStartAgain(s) ==
  /\ handling["start"][s] > 0
  /\ handling' = [handling EXCEPT !["start"][s] = @ - 1]
  /\ starts' = [starts EXCEPT ![s] = @ + 1]
  /\ queue' = [queue EXCEPT ![s] = Append(@, "start")]
  /\ Answer("start", s, "ok", Started(s))
  /\ UNCHANGED << operator, toOwner, own, stops, rt, writing >>

FinishStartEarly(s) ==
  /\ handling["start"][s] > 0
  /\ \/ Answer("start", s, "ok", Started(s)) /\ UNCHANGED << handling, starts, queue >>
     \/ /\ InsertOnce(s, starts, "start")
        /\ handling' = [handling EXCEPT !["start"][s] = @ - 1]
        /\ UNCHANGED << ack, toOperator, faults >>
  /\ UNCHANGED << operator, toOwner, own, stops, rt, writing >>

FinishStart(s) ==
  /\ handling["start"][s] > 0
  /\ handling' = [handling EXCEPT !["start"][s] = @ - 1]
  /\ InsertOnce(s, starts, "start")
  /\ Answer("start", s, "ok", Started(s))
  /\ UNCHANGED << operator, toOwner, own, stops, rt, writing >>

(* A row that does not exist is refused, a terminal one acknowledged, for  *)
(* any other the handler goes on to look for the agent that runs it.       *)
ReadStop(r, s) ==
  /\ r # "start"
  /\ Arrive(r, s)
  /\ IF own[s] \in Ended \cup {"none"}
     THEN /\ Answer(r, s, IF own[s] = "none" THEN "refused" ELSE "ok", {})
          /\ UNCHANGED handling
     ELSE /\ handling' = [handling EXCEPT ![r][s] = @ + 1]
          /\ UNCHANGED << ack, toOperator, faults >>
  /\ UNCHANGED << operator, owner, writing >>

(* Mutant of FinishStop: the command is left to an agent that has the      *)
(* segment in its runtime.                                                 *)
FinishStopIdle(r, s) ==
  /\ r # "start"
  /\ handling[r][s] > 0
  /\ handling' = [handling EXCEPT ![r][s] = @ - 1]
  /\ IF rt[s] = "running" THEN InsertOnce(s, stops, "stop") ELSE UNCHANGED << stops, queue >>
  /\ own' = [own EXCEPT ![s] = "active"]
  /\ Answer(r, s, "ok", {})
  /\ UNCHANGED << operator, toOwner, starts, rt, writing >>

(* The row is set to stopping, ended meanwhile or not. *)
FinishStop(r, s) ==
  /\ r # "start"
  /\ handling[r][s] > 0
  /\ handling' = [handling EXCEPT ![r][s] = @ - 1]
  /\ InsertOnce(s, stops, "stop")
  /\ own' = [own EXCEPT ![s] = "active"]
  /\ Answer(r, s, "ok", {})
  /\ UNCHANGED << operator, toOwner, starts, rt, writing >>

-----------------------------------------------------------------------------
(* The agent of a segment, and what its server makes of its reports.       *)

(* relaySharedJobEventFromOwner and the relay of a command result: the     *)
(* owner's row follows, and the message goes to the operator.  Without a   *)
(* relay connection the message is lost, and the row may be left too.      *)
Report(s, kinds) ==
  LET msgs == {[kind |-> k, seg |-> s] : k \in kinds}
      status == {StatusOf(k) : k \in kinds \cap ({"running"} \cup Ended)}
      follow == own' = [x \in Remote |->
                          IF x = s /\ status # {} THEN CHOOSE k \in status : TRUE ELSE own[x]]
  IN \/ NoFault /\ follow /\ toOperator' = toOperator \cup msgs
     \/ /\ s \in Remote /\ Fault
        /\ follow \/ UNCHANGED own
        /\ UNCHANGED toOperator

(* job_start fails at once, or the segment runs.  A failed job_start of    *)
(* the own agent fails the run, and no segment.                            *)
ExecStart(s) ==
  /\ queue[s] # << >> /\ Head(queue[s]) = "start"
  /\ queue' = [queue EXCEPT ![s] = Tail(@)]
  /\ \/ /\ rt' = [rt EXCEPT ![s] = "running"]
        /\ Report(s, {"running"})
        /\ UNCHANGED run
     \/ /\ rt' = [rt EXCEPT ![s] = "failed"]
        /\ IF s \in Remote
           THEN Report(s, {"startFailed"}) /\ UNCHANGED run
           ELSE run' = "failed" /\ UNCHANGED << own, toOperator, faults >>
  /\ UNCHANGED << seg, start, stop, ack, toOwner, handling, starts, stops, writing >>

(* A job_stop completes whether or not the segment runs; only the result   *)
(* of a remote one is told to the operator.                                *)
ExecStop(s) ==
  /\ queue[s] # << >> /\ Head(queue[s]) = "stop"
  /\ queue' = [queue EXCEPT ![s] = Tail(@)]
  /\ rt' = [rt EXCEPT ![s] = IF @ = "running" THEN "stopped" ELSE @]
  /\ Report(s, (IF rt[s] = "running" THEN {"stopped"} ELSE {})
               \cup (IF s \in Remote THEN {"stopDone"} ELSE {}))
  /\ UNCHANGED << operator, ack, toOwner, handling, starts, stops, writing >>

(* The segment ends by itself: completed, failed, or staled (stopped). *)
End(s) ==
  /\ rt[s] = "running"
  /\ \E e \in Ended : rt' = [rt EXCEPT ![s] = e] /\ Report(s, {e})
  /\ UNCHANGED << operator, ack, toOwner, handling, starts, stops, queue, writing >>

-----------------------------------------------------------------------------
(* The operator's handlers: handleSharedFindRelayInboundMessage,           *)
(* handleSharedJobCommandResultRelayMessage and, for events,               *)
(* maybeHandleSharedJobLifecycleEvent.  Each writes the segment, whatever  *)
(* its status was; all but the acknowledgement then read the segments and  *)
(* the run (at once here) and go on to write its final status:             *)
(* maybeFinalizeSharedJobRunFromSegments.                                  *)

AllEnded(seg1) == \A s \in Segments : seg1[s] \in Ended
OneFailed(seg1) == \E s \in Segments : seg1[s] = "failed"

(* Mutants of Verdict: the segments that are still active are left out;    *)
(* one completed segment makes the run complete.                           *)
VerdictOfEnded(seg1) ==
  LET ended == {s \in Segments : seg1[s] \in Ended}
      completed == \A s \in ended : seg1[s] = "completed"
  IN CASE OneFailed(seg1) -> "failed"
       [] ~OneFailed(seg1) /\ ended # {} /\ completed -> "completed"
       [] ~OneFailed(seg1) /\ ended # {} /\ ~completed -> "stopped"
       [] OTHER -> "none"

VerdictOfSome(seg1) ==
  LET completed == \E s \in Segments : seg1[s] = "completed"
  IN CASE OneFailed(seg1) -> "failed"
       [] ~OneFailed(seg1) /\ AllEnded(seg1) /\ completed -> "completed"
       [] ~OneFailed(seg1) /\ AllEnded(seg1) /\ ~completed -> "stopped"
       [] OTHER -> "none"

Verdict(seg1) ==
  LET completed == \A s \in Segments : seg1[s] = "completed"
  IN CASE OneFailed(seg1) -> "failed"
       [] ~OneFailed(seg1) /\ AllEnded(seg1) /\ completed -> "completed"
       [] ~OneFailed(seg1) /\ AllEnded(seg1) /\ ~completed -> "stopped"
       [] OTHER -> "none"

Receive(m) ==
  /\ m \in toOperator
  /\ toOperator' = toOperator \ {m}
  /\ seg' = [seg EXCEPT ![m.seg] = StatusOf(m.kind)]
  /\ writing' = IF m.kind = "started" \/ run \in Ended THEN writing
                ELSE writing \cup ({Verdict(seg')} \ {"none"})
  /\ UNCHANGED << run, start, stop, ack, toOwner, handling, owner, faults >>

(* An event of a step, an agent or an alert of the segment, which tells     *)
(* nothing of its life: ensureJobRunRow sets the run to running, ended or   *)
(* not, and looks at no segment.  The event may be late, and the agent      *)
(* repeats it until it has an answer: it comes at any time from the start   *)
(* of the segment on, also after its end.                                   *)
Progress(s) ==
  /\ rt[s] # "none"
  /\ run' = "running"
  /\ UNCHANGED << seg, start, stop, ack, toOwner, handling, owner, toOperator, writing,
                  faults >>

WriteRun(v) ==
  /\ v \in writing
  /\ writing' = writing \ {v}
  /\ run' = v
  /\ UNCHANGED << seg, start, stop, ack, toOwner, handling, owner, toOperator, faults >>

-----------------------------------------------------------------------------
StartStep ==
  \/ StartRun \/ StartRows
  \/ \E s \in Remote : Dispatch(s) \/ Rollback(s)
  \/ DispatchAccepted \/ DispatchRefused \/ FailRun \/ AllDispatched
  \/ \E s \in Local : StartLocal(s)
  \/ MarkLocal \/ RolledBack \/ StartFinish

StopStep ==
  \/ StopMark \/ StopLocal \/ StopRemote \/ StopAnswered
  \/ \E s \in Remote : StopAsk(s)

OwnerStep(s) ==
  \/ ReadStart(s) \/ FinishStart(s)
  \/ \E r \in Requests : ReadStop(r, s) \/ FinishStop(r, s)

RelayStep(s) == \E r \in Requests : AckTimeout(r, s)

AgentStep(s) == ExecStart(s) \/ ExecStop(s)

OperatorStep ==
  \/ \E m \in Messages : Receive(m)
  \/ \E v \in Ended : WriteRun(v)
  \/ \E s \in Segments : Progress(s)

Next ==
  \/ StartStep \/ StartThrows
  \/ StopRequest \/ StopStep
  \/ \E s \in Remote : OwnerStep(s) \/ RelayStep(s) \/ RefuseStart(s)
  \/ \E s \in Remote, r \in Requests : LoseRequest(r, s)
  \/ \E s \in Segments : AgentStep(s) \/ End(s)
  \/ OperatorStep

Spec == Init /\ [][Next]_vars

-----------------------------------------------------------------------------
(* Every variable stays within its type. *)
TypeOK ==
  /\ run \in RunStatus
  /\ seg \in [Segments -> SegStatus]
  /\ start \in StartLocals
  /\ stop \in StopLocals
  /\ ack \in [Requests -> [Remote -> Outcomes]]
  /\ toOwner \in [Requests -> [Remote -> Nat]]
  /\ handling \in [Requests -> [Remote -> Nat]]
  /\ own \in [Remote -> SegStatus]
  /\ starts \in [Segments -> Nat]
  /\ stops \in [Segments -> Nat]
  /\ queue \in [Segments -> Seq({"start", "stop"})]
  /\ rt \in [Segments -> {"none", "running"} \cup Ended]
  /\ toOperator \subseteq Messages
  /\ writing \subseteq Ended
  /\ faults \in 0..MaxFaults

(* However often a request is forwarded, answered late or repeated by a    *)
(* rollback, an owner's agent is told at most once to start a segment and  *)
(* at most once to stop it ("Ignoring duplicate shared job start relay     *)
(* message", index.ts:21760).                                              *)
CommandsOnce == \A s \in Remote : starts[s] <= 1 /\ stops[s] <= 1

(* What the relay reports as accepted is a command its agent will find:    *)
(* the acknowledgement never runs ahead of the insert.                     *)
AcceptedIsPosted == \A s \in Remote : ack["start"][s] = "ok" => starts[s] = 1

(* A run is reported completed only when every segment has completed,      *)
(* on every account, whatever was lost, late or handled out of order.      *)
CompletedEverywhere == run = "completed" => \A s \in Segments : rt[s] = "completed"

(* A segment runs, or a command to start it is still to be executed. *)
MayRun(s) == rt[s] = "running" \/ \E i \in 1..Len(queue[s]) : queue[s][i] = "start"

(* When a run is reported stopped, no segment runs or is going to, unless  *)
(* the stop came early ("Shared job stopped.", index.ts:22411).  The code  *)
(* does not keep it where the start went badly: TLC refutes it with two    *)
(* remote segments (README, section 3).                                    *)
StoppedMeansStopped == ~stop.early /\ run = "stopped" => \A s \in Segments : ~MayRun(s)

(* What holds of it: a run that has started well is reported stopped only  *)
(* when no segment runs or is going to, unless the stop came early.        *)
(* However often the events of a segment set an ended run to running       *)
(* again, and whatever was lost, late or handled out of order.             *)
StoppedEverywhere == start.ok => StoppedMeansStopped

(* A stop that comes after the start reaches the segments of every         *)
(* account unless something fails: when the request is over, whatever may  *)
(* still run has a job_stop behind it.                                     *)
StopReaches ==
  stop.pc = "done" /\ ~stop.early /\ faults = 0 =>
    \A s \in Segments :
      MayRun(s) => queue[s] # << >> /\ queue[s][Len(queue[s])] = "stop"

(* A start that fails leaves no segment it has dispatched without a        *)
(* request to stop ("Failed to rollback remote shared segment",            *)
(* jobScheduler.ts:830).                                                   *)
FailedStartRollsBack ==
  start.pc = "done" /\ ~start.ok =>
    \A s \in start.sent : ack["rollback"][s] # "none" \/ ack["stop"][s] # "none"
=============================================================================
