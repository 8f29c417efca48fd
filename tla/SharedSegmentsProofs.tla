------------------------ MODULE SharedSegmentsProofs ------------------------
(***************************************************************************)
(* Proofs about SharedSegments, for any number of accounts and any number  *)
(* of faults.                                                              *)
(*                                                                         *)
(* Two arguments make up the invariant.  A job_start exists once for a     *)
(* segment: its agent finds it while the segment was never in a runtime,   *)
(* so a segment that has ended never runs again.  And what the server of   *)
(* the operator holds for completed has completed, in every copy: row,     *)
(* message, finalizer, run.                                                *)
(***************************************************************************)
EXTENDS SharedSegments, TLAPS

Positions ==
  /\ start.pc = "wait" => start.cur \in Remote
  /\ \A s \in Local :
       \/ start.pc \in {"idle", "rows", "dispatch", "wait"}
       \/ start.pc \in {"locals", "markLocal"} /\ s \in start.todo
       => starts[s] = 0

Counts == \A s \in Segments : starts[s] <= 1 /\ (s \in Remote => stops[s] <= 1)

Pending(s) == \E i \in 1..Len(queue[s]) : queue[s][i] = "start"

(* One job_start at most, and none for a segment that has run. *)
Fresh(s) ==
  /\ \A i, j \in 1..Len(queue[s]) :
       queue[s][i] = "start" /\ queue[s][j] = "start" => i = j
  /\ Pending(s) => rt[s] = "none"
  /\ starts[s] = 0 => ~Pending(s) /\ rt[s] = "none"

Accepted == \A s \in Remote : ack["start"][s] = "ok" => starts[s] = 1

Completed ==
  /\ \A s \in Segments : seg[s] = "completed" => rt[s] = "completed"
  /\ \A m \in toOperator : m.kind = "completed" => rt[m.seg] = "completed"
  /\ "completed" \in writing \/ run = "completed" =>
       \A s \in Segments : rt[s] = "completed"

Inv ==
  /\ TypeOK /\ Positions /\ Counts /\ Accepted /\ Completed
  /\ \A s \in Segments : Fresh(s)

-----------------------------------------------------------------------------
(* The helpers: what they leave behind. *)

LEMMA ForwardKeeps ==
  ASSUME TypeOK, NEW r \in Requests, NEW s \in Remote, Forward(r, s)
  PROVE  /\ ack' \in [Requests -> [Remote -> Outcomes]]
         /\ toOwner' \in [Requests -> [Remote -> Nat]]
         /\ faults' \in 0..MaxFaults
         /\ \A x \in Remote : ack'["start"][x] = "ok" => ack["start"][x] = "ok"
<1>1. /\ ack \in [Requests -> [Remote -> Outcomes]]
      /\ toOwner \in [Requests -> [Remote -> Nat]]
      /\ faults \in 0..MaxFaults /\ MaxFaults \in Nat
  BY SharedSegmentsAssumption DEF TypeOK, SharedSegmentsAssumption
<1>2. faults' \in 0..MaxFaults
  BY <1>1 DEF Forward, Fault, NoFault
<1>3. toOwner' \in [Requests -> [Remote -> Nat]]
  <2>1. \/ toOwner' = toOwner
        \/ \E n \in {1, 2} : toOwner' = [toOwner EXCEPT ![r][s] = n]
    BY DEF Forward
  <2>. QED
    BY <1>1, <2>1
<1>4. PICK outcome \in {"refused", "waiting"} : ack' = [ack EXCEPT ![r][s] = outcome]
  BY DEF Forward
<1>5. ack' \in [Requests -> [Remote -> Outcomes]]
  BY <1>1, <1>4 DEF Outcomes
<1>6. \A x \in Remote : ack'["start"][x] = "ok" => ack["start"][x] = "ok"
  BY <1>1, <1>4 DEF Requests
<1>. QED
  BY <1>2, <1>3, <1>5, <1>6

LEMMA SettleKeeps ==
  ASSUME TypeOK, NEW r \in Requests, NEW s \in Remote, NEW outcome \in {"ok", "refused"},
         Settle(r, s, outcome)
  PROVE  /\ ack' \in [Requests -> [Remote -> Outcomes]]
         /\ \A x \in Remote :
              ack'["start"][x] = "ok" =>
                \/ ack["start"][x] = "ok"
                \/ r = "start" /\ x = s /\ outcome = "ok"
BY DEF TypeOK, Settle, Outcomes, Requests

LEMMA AnswerKeeps ==
  ASSUME TypeOK, NEW r \in Requests, NEW s \in Remote, NEW outcome \in {"ok", "refused"},
         NEW msgs \in SUBSET Messages, Answer(r, s, outcome, msgs)
  PROVE  /\ ack' \in [Requests -> [Remote -> Outcomes]]
         /\ toOperator' \subseteq toOperator \cup msgs
         /\ faults' \in 0..MaxFaults
         /\ \A x \in Remote :
              ack'["start"][x] = "ok" =>
                \/ ack["start"][x] = "ok"
                \/ r = "start" /\ x = s /\ outcome = "ok"
<1>1. CASE NoFault /\ Settle(r, s, outcome) /\ toOperator' = toOperator \cup msgs
  BY <1>1, SettleKeeps DEF NoFault, TypeOK
<1>2. CASE Fault /\ UNCHANGED << ack, toOperator >>
  BY <1>2, SharedSegmentsAssumption DEF Fault, TypeOK, SharedSegmentsAssumption
<1>. QED
  BY <1>1, <1>2 DEF Answer

LEMMA StatusTyped ==
  ASSUME NEW kind \in Kinds
  PROVE  /\ StatusOf(kind) \in SegStatus
         /\ StatusOf(kind) = "completed" => kind = "completed"
BY DEF Kinds, StatusOf, SegStatus, Ended

LEMMA ReportKeeps ==
  ASSUME TypeOK, NEW s \in Segments, NEW kinds \in SUBSET Kinds, Report(s, kinds)
  PROVE  /\ own' \in [Remote -> SegStatus]
         /\ faults' \in 0..MaxFaults
         /\ toOperator' \subseteq Messages
         /\ \A m \in toOperator' : m \in toOperator \/ (m.seg = s /\ m.kind \in kinds)
<1>. DEFINE msgs == {[kind |-> k, seg |-> s] : k \in kinds}
            status == {StatusOf(k) : k \in kinds \cap ({"running"} \cup Ended)}
            follow == own' = [x \in Remote |->
                         IF x = s /\ status # {} THEN CHOOSE k \in status : TRUE ELSE own[x]]
<1>1. status \subseteq SegStatus
  BY StatusTyped
<1>2. status # {} => (CHOOSE k \in status : TRUE) \in SegStatus
  <2>. SUFFICES ASSUME NEW S \in SUBSET SegStatus, S # {}
                PROVE  (CHOOSE k \in S : TRUE) \in SegStatus
    BY <1>1
  <2>. PICK e : e \in S
    OBVIOUS
  <2>. QED
    OBVIOUS
<1>3. follow => own' \in [Remote -> SegStatus]
  <2>. HIDE DEF status
  <2>. QED
    BY <1>2 DEF TypeOK
<1>4. msgs \subseteq Messages /\ \A m \in msgs : m.seg = s /\ m.kind \in kinds
  BY DEF Messages
<1>5. CASE NoFault /\ follow /\ toOperator' = toOperator \cup msgs
  <2>. HIDE DEF msgs, follow
  <2>. QED
    BY <1>3, <1>4, <1>5 DEF TypeOK, NoFault
<1>6. CASE s \in Remote /\ Fault /\ (follow \/ UNCHANGED own) /\ UNCHANGED toOperator
  <2>. HIDE DEF follow
  <2>. QED
    BY <1>3, <1>6, SharedSegmentsAssumption DEF TypeOK, Fault, SharedSegmentsAssumption
<1>. QED
  BY <1>5, <1>6 DEF Report

(* The queue of an agent. *)
Commands == {"start", "stop"}

LEMMA AppendStop ==
  ASSUME TypeOK, NEW s \in Segments, Fresh(s), queue'[s] = Append(queue[s], "stop"),
         starts'[s] = starts[s], rt'[s] = rt[s]
  PROVE  Fresh(s)'
<1>1. /\ queue[s] \in Seq(Commands) /\ Len(queue'[s]) = Len(queue[s]) + 1
      /\ \A i \in 1..Len(queue'[s]) :
           queue'[s][i] = "start" => i \in 1..Len(queue[s]) /\ queue[s][i] = "start"
  BY DEF TypeOK, Commands
<1>. QED
  BY <1>1 DEF Fresh, Pending

LEMMA AppendStart ==
  ASSUME TypeOK, NEW s \in Segments, Fresh(s), starts[s] = 0, starts'[s] = 1,
         queue'[s] = Append(queue[s], "start"), rt'[s] = rt[s]
  PROVE  Fresh(s)'
<1>1. /\ queue[s] \in Seq(Commands) /\ Len(queue'[s]) = Len(queue[s]) + 1
      /\ \A i \in 1..Len(queue[s]) : queue'[s][i] = queue[s][i]
  BY DEF TypeOK, Commands
<1>2. rt[s] = "none" /\ \A i \in 1..Len(queue[s]) : queue[s][i] # "start"
  BY DEF Fresh, Pending
<1>3. \A i \in 1..Len(queue'[s]) : queue'[s][i] = "start" => i = Len(queue[s]) + 1
  BY <1>1, <1>2
<1>. QED
  BY <1>2, <1>3 DEF Fresh, Pending

LEMMA TakeHead ==
  ASSUME TypeOK, NEW s \in Segments, Fresh(s), queue[s] # << >>,
         queue'[s] = Tail(queue[s]), starts'[s] = starts[s],
         \/ Head(queue[s]) = "start"
         \/ rt'[s] = rt[s] \/ rt[s] # "none"
  PROVE  Fresh(s)'
<1>1. /\ queue[s] \in Seq(Commands) /\ Len(queue'[s]) = Len(queue[s]) - 1
      /\ Len(queue[s]) \in Nat /\ Len(queue[s]) > 0 /\ Head(queue[s]) = queue[s][1]
      /\ \A i \in 1..Len(queue'[s]) : queue'[s][i] = queue[s][i + 1]
  BY DEF TypeOK, Commands
<1>2. \A i \in 1..Len(queue'[s]) : i + 1 \in 1..Len(queue[s])
  BY <1>1
<1>3. Pending(s)' => Pending(s) /\ Head(queue[s]) # "start"
  BY <1>1, <1>2 DEF Fresh, Pending
<1>4. \A i, j \in 1..Len(queue'[s]) :
        queue'[s][i] = "start" /\ queue'[s][j] = "start" => i = j
  BY <1>1, <1>2 DEF Fresh
<1>5. Head(queue[s]) = "start" => Pending(s)
  BY <1>1 DEF Pending
<1>. QED
  BY <1>3, <1>4, <1>5 DEF Fresh

(* Counters of handlers, and of commands with their queues. *)
LEMMA Counted ==
  ASSUME NEW f \in [Requests -> [Remote -> Nat]], NEW r \in Requests, NEW s \in Remote,
         NEW g, \/ g = f
                \/ g = [f EXCEPT ![r][s] = f[r][s] + 1]
                \/ f[r][s] > 0 /\ g = [f EXCEPT ![r][s] = f[r][s] - 1]
  PROVE  g \in [Requests -> [Remote -> Nat]]
<1>1. CASE g = f
  BY <1>1
<1>2. CASE g = [f EXCEPT ![r][s] = f[r][s] + 1]
  BY <1>2
<1>3. CASE f[r][s] > 0 /\ g = [f EXCEPT ![r][s] = f[r][s] - 1]
  <2>1. f[r][s] - 1 \in Nat
    BY <1>3
  <2>. QED
    BY <1>3, <2>1
<1>. QED
  BY <1>1, <1>2, <1>3

LEMMA Inserted ==
  ASSUME TypeOK, NEW s \in Segments, NEW command \in {"start", "stop"},
         NEW count \in [Segments -> Nat], NEW count1,
         \/ count1 = count /\ queue' = queue
         \/ /\ count1 = [count EXCEPT ![s] = 1]
            /\ queue' = [queue EXCEPT ![s] = Append(queue[s], command)]
  PROVE  /\ count1 \in [Segments -> Nat]
         /\ queue' \in [Segments -> Seq({"start", "stop"})]
<1>1. queue \in [Segments -> Seq({"start", "stop"})]
  BY DEF TypeOK
<1>2. Append(queue[s], command) \in Seq({"start", "stop"})
  BY <1>1
<1>3. CASE count1 = count /\ queue' = queue
  BY <1>1, <1>3
<1>4. CASE /\ count1 = [count EXCEPT ![s] = 1]
           /\ queue' = [queue EXCEPT ![s] = Append(queue[s], command)]
  BY <1>1, <1>2, <1>4
<1>. QED
  BY <1>3, <1>4

-----------------------------------------------------------------------------
(* Steps that leave the agents and their commands alone. *)

LEMMA Quiet ==
  ASSUME Inv, TypeOK', Positions', UNCHANGED << starts, stops, queue, rt >>,
         \A s \in Remote :
           ack'["start"][s] = "ok" => ack["start"][s] = "ok" \/ starts[s] = 1,
         \A s \in Segments : seg'[s] = "completed" => seg[s] = "completed",
         \A m \in toOperator' : m.kind = "completed" => m \in toOperator,
         writing' = writing, run' = "completed" => run = "completed"
  PROVE  Inv'
<1>1. Counts' /\ Accepted'
  BY DEF Inv, Counts, Accepted
<1>2. Completed'
  BY DEF Inv, Completed
<1>3. \A s \in Segments : Fresh(s)'
  BY DEF Inv, Fresh, Pending
<1>. QED
  BY <1>1, <1>2, <1>3 DEF Inv

LEMMA StartSteps ==
  ASSUME Inv, \/ StartStep \/ StartThrows
  PROVE  Inv'
<1>0. TypeOK /\ Positions /\ Counts /\ Accepted /\ Completed /\ \A s \in Segments : Fresh(s)
  BY DEF Inv
<1>a. Remote \subseteq Segments /\ Local \subseteq Segments
  BY DEF Segments
<1>1. ASSUME StartRun PROVE Inv'
  <2>1. TypeOK'
    BY <1>0, <1>1 DEF StartRun, StartAt, StartGo, owner, TypeOK, StartLocals, StartPositions, RunStatus
  <2>2. Positions'
    BY <1>0, <1>1 DEF StartRun, StartAt, StartGo, owner, TypeOK, StartLocals, Positions
  <2>. QED
    BY <1>0, <1>1, <2>1, <2>2, Quiet DEF StartRun, StartAt, StartGo, owner
<1>2. ASSUME StartRows PROVE Inv'
  <2>1. TypeOK'
    BY <1>0, <1>2 DEF StartRows, StartAt, StartGo, owner, TypeOK, StartLocals, StartPositions, SegStatus, Segments
  <2>2. Positions'
    BY <1>0, <1>2 DEF StartRows, StartAt, StartGo, owner, TypeOK, StartLocals, Positions
  <2>. QED
    BY <1>0, <1>2, <2>1, <2>2, Quiet DEF StartRows, StartAt, StartGo, owner
<1>3. ASSUME NEW s \in Remote, Dispatch(s) PROVE Inv'
  <2>0. /\ ack' \in [Requests -> [Remote -> Outcomes]]
        /\ toOwner' \in [Requests -> [Remote -> Nat]] /\ faults' \in 0..MaxFaults
        /\ \A x \in Remote : ack'["start"][x] = "ok" => ack["start"][x] = "ok"
    BY <1>0, <1>3, ForwardKeeps DEF Dispatch, Requests
  <2>1. TypeOK'
    BY <1>0, <1>3, <2>0, <1>a DEF Dispatch, StartAt, StartGo, owner, TypeOK, StartLocals, StartPositions
  <2>2. Positions'
    BY <1>0, <1>3, <2>0 DEF Dispatch, StartAt, StartGo, owner, TypeOK, StartLocals, Positions
  <2>. QED
    BY <1>0, <1>3, <2>0, <2>1, <2>2, Quiet DEF Dispatch, StartAt, StartGo, owner
<1>4. ASSUME DispatchAccepted PROVE Inv'
  <2>1. TypeOK'
    BY <1>0, <1>4, <1>a DEF DispatchAccepted, StartAt, StartGo, owner, TypeOK, StartLocals, StartPositions, SegStatus, Positions
  <2>2. Positions'
    BY <1>0, <1>4 DEF DispatchAccepted, StartAt, StartGo, owner, TypeOK, StartLocals, Positions
  <2>. QED
    BY <1>0, <1>4, <2>1, <2>2, Quiet DEF DispatchAccepted, StartAt, StartGo, owner
<1>5. ASSUME DispatchRefused PROVE Inv'
  <2>1. TypeOK'
    BY <1>0, <1>5 DEF DispatchRefused, StartAt, StartGo, owner, TypeOK, StartLocals, StartPositions, SegStatus, Ended
  <2>2. Positions'
    BY <1>0, <1>5 DEF DispatchRefused, StartAt, StartGo, owner, TypeOK, StartLocals, Positions
  <2>. QED
    BY <1>0, <1>5, <2>1, <2>2, Quiet DEF DispatchRefused, StartAt, StartGo, owner
<1>6. ASSUME FailRun PROVE Inv'
  <2>1. TypeOK'
    BY <1>0, <1>6 DEF FailRun, StartAt, StartGo, owner, TypeOK, StartLocals, StartPositions, RunStatus, Ended
  <2>2. Positions'
    BY <1>0, <1>6 DEF FailRun, StartAt, StartGo, owner, TypeOK, StartLocals, Positions
  <2>. QED
    BY <1>0, <1>6, <2>1, <2>2, Quiet DEF FailRun, StartAt, StartGo, owner
<1>7. ASSUME AllDispatched PROVE Inv'
  <2>1. TypeOK'
    BY <1>0, <1>7, <1>a DEF AllDispatched, StartAt, StartGo, owner, TypeOK, StartLocals, StartPositions
  <2>2. Positions'
    BY <1>0, <1>7 DEF AllDispatched, StartAt, StartGo, owner, TypeOK, StartLocals, Positions
  <2>. QED
    BY <1>0, <1>7, <2>1, <2>2, Quiet DEF AllDispatched, StartAt, StartGo, owner
<1>8. ASSUME MarkLocal PROVE Inv'
  <2>1. TypeOK'
    BY <1>0, <1>8 DEF MarkLocal, StartAt, StartGo, owner, TypeOK, StartLocals, StartPositions, SegStatus
  <2>2. Positions'
    BY <1>0, <1>8 DEF MarkLocal, StartAt, StartGo, owner, TypeOK, StartLocals, Positions
  <2>. QED
    BY <1>0, <1>8, <2>1, <2>2, Quiet DEF MarkLocal, StartAt, StartGo, owner
<1>9. ASSUME StartThrows PROVE Inv'
  <2>0. faults' \in 0..MaxFaults /\ Dispatched \subseteq Segments
    BY <1>0, <1>9, <1>a, SharedSegmentsAssumption
    DEF StartThrows, Fault, Dispatched, TypeOK, StartLocals, SharedSegmentsAssumption
  <2>1. \A s \in Segments : seg'[s] = "active" \/ seg'[s] = seg[s]
    BY <1>9 DEF StartThrows
  <2>2. TypeOK'
    <3>1. start' \in StartLocals
      BY <1>0, <1>9, <2>0 DEF StartThrows, TypeOK, StartLocals, StartPositions
    <3>2. seg' \in [Segments -> SegStatus]
      BY <1>0, <1>9 DEF StartThrows, TypeOK, SegStatus
    <3>. QED
      BY <1>0, <1>9, <2>0, <3>1, <3>2 DEF StartThrows, owner, TypeOK
  <2>3. Positions'
    BY <1>0, <1>9 DEF StartThrows, StartAt, owner, TypeOK, StartLocals, Positions
  <2>. QED
    BY <1>0, <1>9, <2>1, <2>2, <2>3, Quiet DEF StartThrows, owner
<1>10. ASSUME NEW s \in Remote, Rollback(s) PROVE Inv'
  <2>0. /\ ack' \in [Requests -> [Remote -> Outcomes]]
        /\ toOwner' \in [Requests -> [Remote -> Nat]] /\ faults' \in 0..MaxFaults
        /\ \A x \in Remote : ack'["start"][x] = "ok" => ack["start"][x] = "ok"
    BY <1>0, <1>10, ForwardKeeps DEF Rollback, Requests
  <2>1. TypeOK'
    BY <1>0, <1>10, <2>0, <1>a DEF Rollback, StartAt, StartGo, owner, TypeOK, StartLocals, StartPositions
  <2>2. Positions'
    BY <1>0, <1>10, <2>0 DEF Rollback, StartAt, StartGo, owner, TypeOK, StartLocals, Positions
  <2>. QED
    BY <1>0, <1>10, <2>0, <2>1, <2>2, Quiet DEF Rollback, StartAt, StartGo, owner
<1>11. ASSUME RolledBack PROVE Inv'
  <2>1. TypeOK'
    BY <1>0, <1>11 DEF RolledBack, StartAt, StartGo, owner, TypeOK, StartLocals, StartPositions
  <2>2. Positions'
    BY <1>0, <1>11 DEF RolledBack, StartAt, StartGo, owner, TypeOK, StartLocals, Positions
  <2>. QED
    BY <1>0, <1>11, <2>1, <2>2, Quiet DEF RolledBack, StartAt, StartGo, owner
<1>12. ASSUME StartFinish PROVE Inv'
  <2>1. TypeOK'
    BY <1>0, <1>12 DEF StartFinish, StartAt, StartGo, owner, TypeOK, StartLocals, StartPositions, RunStatus
  <2>2. Positions'
    BY <1>0, <1>12 DEF StartFinish, StartAt, StartGo, owner, TypeOK, StartLocals, Positions
  <2>. QED
    BY <1>0, <1>12, <2>1, <2>2, Quiet DEF StartFinish, StartAt, StartGo, owner
<1>13. ASSUME NEW s \in Local, StartLocal(s) PROVE Inv'
  <2>1. starts[s] = 0 /\ s \in Segments /\ s \notin Remote
    BY <1>0, <1>a, <1>13, SharedSegmentsAssumption
    DEF StartLocal, StartAt, Positions, SharedSegmentsAssumption
  <2>2. /\ starts' = [starts EXCEPT ![s] = 1]
        /\ queue' = [queue EXCEPT ![s] = Append(queue[s], "start")] /\ rt' = rt
    BY <1>13, <2>1 DEF StartLocal
  <2>3. Append(queue[s], "start") \in Seq({"start", "stop"})
    BY <1>0, <2>1 DEF TypeOK
  <2>4. TypeOK'
    <3>1. start' \in StartLocals
      BY <1>0, <1>a, <1>13 DEF StartLocal, TypeOK, StartLocals, StartPositions
    <3>2. starts' \in [Segments -> Nat] /\ queue' \in [Segments -> Seq({"start", "stop"})]
      BY <1>0, <2>1, <2>2, <2>3 DEF TypeOK
    <3>. QED
      BY <1>0, <1>13, <3>1, <3>2 DEF StartLocal, TypeOK
  <2>5. Positions'
    BY <1>0, <1>13, <2>1, <2>2 DEF StartLocal, StartAt, owner, TypeOK, StartLocals, Positions
  <2>6. Counts' /\ Accepted'
    BY <1>0, <1>13, <2>1, <2>2 DEF StartLocal, TypeOK, Counts, Accepted
  <2>7. Completed'
    BY <1>0, <1>13 DEF StartLocal, Completed
  <2>8. ASSUME NEW x \in Segments PROVE Fresh(x)'
    <3>1. CASE x = s
      BY <1>0, <2>1, <2>2, <3>1, AppendStart DEF TypeOK
    <3>2. CASE x # s
      BY <1>0, <2>1, <2>2, <3>2 DEF TypeOK, Fresh, Pending
    <3>. QED
      BY <3>1, <3>2
  <2>. QED
    BY <2>4, <2>5, <2>6, <2>7, <2>8 DEF Inv
<1>. QED
  BY <1>1, <1>2, <1>3, <1>4, <1>5, <1>6, <1>7, <1>8, <1>9, <1>10, <1>11, <1>12, <1>13 DEF StartStep

(* A stop changes nothing the invariant is about but the queue of the own  *)
(* agent.                                                                  *)
LEMMA StopSteps ==
  ASSUME Inv, \/ StopRequest \/ StopStep
  PROVE  Inv'
<1>0. TypeOK /\ Positions /\ Counts /\ Accepted /\ Completed /\ \A s \in Segments : Fresh(s)
  BY DEF Inv
<1>a. Remote \subseteq Segments /\ Local \subseteq Segments
  BY DEF Segments
<1>1. ASSUME StopRequest PROVE Inv'
  <2>1. TypeOK'
    BY <1>0, <1>a, <1>1 DEF StopRequest, StopAt, StartAt, owner, TypeOK, StopLocals, StopPositions, Active
  <2>2. Positions'
    BY <1>0, <1>a, <1>1 DEF StopRequest, owner, Positions
  <2>. QED
    BY <1>0, <1>a, <1>1, <2>1, <2>2, Quiet DEF StopRequest, owner
<1>2. ASSUME StopMark PROVE Inv'
  <2>1. TypeOK'
    BY <1>0, <1>a, <1>2 DEF StopMark, StopAt, StartAt, owner, TypeOK, StopLocals, StopPositions, SegStatus
  <2>2. Positions'
    BY <1>0, <1>a, <1>2 DEF StopMark, owner, Positions
  <2>. QED
    BY <1>0, <1>a, <1>2, <2>1, <2>2, Quiet DEF StopMark, owner, TypeOK
<1>3. ASSUME StopRemote PROVE Inv'
  <2>1. TypeOK'
    BY <1>0, <1>a, <1>3 DEF StopRemote, StopAt, StartAt, owner, TypeOK, StopLocals, StopPositions, Active
  <2>2. Positions'
    BY <1>0, <1>a, <1>3 DEF StopRemote, owner, Positions
  <2>. QED
    BY <1>0, <1>a, <1>3, <2>1, <2>2, Quiet DEF StopRemote, owner
<1>4. ASSUME NEW s \in Remote, StopAsk(s) PROVE Inv'
  <2>0. /\ ack' \in [Requests -> [Remote -> Outcomes]]
        /\ toOwner' \in [Requests -> [Remote -> Nat]] /\ faults' \in 0..MaxFaults
        /\ \A x \in Remote : ack'["start"][x] = "ok" => ack["start"][x] = "ok"
    BY <1>0, <1>4, ForwardKeeps DEF StopAsk, Requests
  <2>1. TypeOK'
    BY <1>0, <1>a, <1>4, <2>0 DEF StopAsk, StopAt, StartAt, owner, TypeOK, StopLocals, StopPositions
  <2>2. Positions'
    BY <1>0, <1>a, <1>4, <2>0 DEF StopAsk, owner, Positions
  <2>. QED
    BY <1>0, <1>a, <1>4, <2>0, <2>1, <2>2, Quiet DEF StopAsk, owner
<1>5. ASSUME StopAnswered PROVE Inv'
  <2>1. TypeOK'
    BY <1>0, <1>a, <1>5 DEF StopAnswered, StopAt, StartAt, owner, TypeOK, StopLocals, StopPositions
  <2>2. Positions'
    BY <1>0, <1>a, <1>5 DEF StopAnswered, owner, Positions
  <2>. QED
    BY <1>0, <1>a, <1>5, <2>1, <2>2, Quiet DEF StopAnswered, owner
<1>6. ASSUME StopLocal PROVE Inv'
  <2>1. PICK told \in SUBSET Local :
          /\ stops' = [s \in Segments |-> stops[s] + IF s \in told THEN 1 ELSE 0]
          /\ queue' = [s \in Segments |->
                         IF s \in told THEN Append(queue[s], "stop") ELSE queue[s]]
    BY <1>6 DEF StopLocal
  <2>2. UNCHANGED << run, seg, start, ack, toOwner, handling, own, starts, rt, toOperator,
                     writing, faults >>
    BY <1>6 DEF StopLocal
  <2>3. \A s \in Segments : Append(queue[s], "stop") \in Seq({"start", "stop"})
    BY <1>0 DEF TypeOK
  <2>4. TypeOK'
    <3>1. stops' \in [Segments -> Nat] /\ queue' \in [Segments -> Seq({"start", "stop"})]
      BY <1>0, <2>1, <2>3 DEF TypeOK
    <3>2. stop' \in StopLocals
      BY <1>0, <1>6 DEF StopLocal, TypeOK, StopLocals, StopPositions
    <3>. QED
      BY <1>0, <2>2, <3>1, <3>2 DEF TypeOK
  <2>5. Positions' /\ Accepted' /\ Completed'
    BY <1>0, <2>2 DEF Positions, Accepted, Completed
  <2>6. Counts'
    BY <1>0, <1>a, <2>1, <2>2, SharedSegmentsAssumption
    DEF Counts, TypeOK, SharedSegmentsAssumption
  <2>7. ASSUME NEW s \in Segments PROVE Fresh(s)'
    <3>1. CASE s \in told
      BY <1>0, <2>1, <2>2, <3>1, AppendStop
    <3>2. CASE s \notin told
      BY <1>0, <2>1, <2>2, <3>2 DEF Fresh, Pending
    <3>. QED
      BY <3>1, <3>2
  <2>. QED
    BY <2>4, <2>5, <2>6, <2>7 DEF Inv
<1>. QED
  BY <1>1, <1>2, <1>3, <1>4, <1>5, <1>6 DEF StopStep

-----------------------------------------------------------------------------
(* The relay and the handlers of an owner. *)

LEMMA RelaySteps ==
  ASSUME Inv, NEW s \in Remote, NEW r \in Requests,
         \/ AckTimeout(r, s) \/ LoseRequest(r, s) \/ RefuseStart(s) \/ ReadStop(r, s)
  PROVE  Inv'
<1>0. TypeOK /\ Positions /\ Counts /\ Accepted /\ Completed /\ \A t \in Segments : Fresh(t)
  BY DEF Inv
<1>a. Remote \subseteq Segments /\ Local \subseteq Segments
  BY DEF Segments
<1>1. ASSUME AckTimeout(r, s) PROVE Inv'
  <2>1. TypeOK'
    <3>1. faults' \in 0..MaxFaults
      BY <1>0, <1>1, SharedSegmentsAssumption
      DEF AckTimeout, Fault, NoFault, TypeOK, SharedSegmentsAssumption
    <3>. QED
      BY <1>0, <1>1, <3>1 DEF AckTimeout, operator, owner, TypeOK, Outcomes
  <2>2. Positions'
    BY <1>0, <1>1 DEF AckTimeout, operator, owner, Positions
  <2>3. \A x \in Remote : ack'["start"][x] = "ok" => ack["start"][x] = "ok"
    BY <1>0, <1>1 DEF AckTimeout, TypeOK, Requests
  <2>. QED
    BY <1>0, <1>1, <2>1, <2>2, <2>3, Quiet DEF AckTimeout, operator, owner
<1>2. ASSUME LoseRequest(r, s) PROVE Inv'
  <2>1. TypeOK'
    <3>1. faults' \in 0..MaxFaults
      BY <1>0, <1>2, SharedSegmentsAssumption
      DEF LoseRequest, Fault, TypeOK, SharedSegmentsAssumption
    <3>. QED
      BY <1>0, <1>2, <3>1 DEF LoseRequest, operator, owner, TypeOK
  <2>2. Positions'
    BY <1>0, <1>2 DEF LoseRequest, operator, owner, Positions
  <2>. QED
    BY <1>0, <1>2, <2>1, <2>2, Quiet DEF LoseRequest, operator, owner
<1>3. ASSUME RefuseStart(s) PROVE Inv'
  <2>1. /\ ack' \in [Requests -> [Remote -> Outcomes]]
        /\ \A x \in Remote : ack'["start"][x] = "ok" => ack["start"][x] = "ok"
    BY <1>0, <1>3, SettleKeeps DEF RefuseStart, Requests
  <2>2. StartError(s) \subseteq Messages /\ \A m \in StartError(s) : m.kind # "completed"
    BY <1>a DEF StartError, Messages, Kinds
  <2>3. TypeOK'
    <3>1. faults' \in 0..MaxFaults
      BY <1>0, <1>3, SharedSegmentsAssumption
      DEF RefuseStart, Fault, TypeOK, SharedSegmentsAssumption
    <3>2. handling' \in [Requests -> [Remote -> Nat]]
      BY <1>0, <1>3 DEF RefuseStart, TypeOK, Requests
    <3>. QED
      BY <1>0, <1>3, <2>1, <2>2, <3>1, <3>2 DEF RefuseStart, operator, owner, TypeOK
  <2>4. Positions'
    BY <1>0, <1>3 DEF RefuseStart, operator, owner, Positions
  <2>. QED
    BY <1>0, <1>3, <2>1, <2>2, <2>3, <2>4, Quiet DEF RefuseStart, operator, owner
<1>4. ASSUME ReadStop(r, s) PROVE Inv'
  <2>1. /\ r # "start" /\ toOwner[r][s] > 0
        /\ toOwner' = [toOwner EXCEPT ![r][s] = @ - 1]
        /\ UNCHANGED << operator, owner, writing >>
    BY <1>4 DEF ReadStop, Arrive
  <2>2. \/ /\ \E outcome \in {"ok", "refused"} : Answer(r, s, outcome, {})
           /\ UNCHANGED handling
        \/ /\ handling' = [handling EXCEPT ![r][s] = @ + 1]
           /\ UNCHANGED << ack, toOperator, faults >>
    BY <1>4 DEF ReadStop
  <2>3. /\ ack' \in [Requests -> [Remote -> Outcomes]] /\ faults' \in 0..MaxFaults
        /\ toOperator' \subseteq toOperator
        /\ \A x \in Remote : ack'["start"][x] = "ok" => ack["start"][x] = "ok"
    BY <1>0, <2>1, <2>2, AnswerKeeps DEF TypeOK
  <2>4. handling' \in [Requests -> [Remote -> Nat]] /\ toOwner' \in [Requests -> [Remote -> Nat]]
    <3>1. /\ handling \in [Requests -> [Remote -> Nat]]
          /\ toOwner \in [Requests -> [Remote -> Nat]]
      BY <1>0 DEF TypeOK
    <3>. QED
      BY <2>1, <2>2, <3>1, Counted
  <2>5. TypeOK'
    BY <1>0, <2>1, <2>3, <2>4 DEF operator, owner, TypeOK
  <2>6. Positions'
    BY <1>0, <2>1 DEF operator, owner, Positions
  <2>. QED
    BY <1>0, <2>1, <2>3, <2>5, <2>6, Quiet DEF operator, owner
<1>. QED
  BY <1>1, <1>2, <1>3, <1>4

(* The handlers that insert commands, or find them inserted. *)
LEMMA InsertSteps ==
  ASSUME Inv, NEW s \in Remote, NEW r \in Requests,
         \/ ReadStart(s) \/ FinishStart(s) \/ FinishStop(r, s)
  PROVE  Inv'
<1>0. TypeOK /\ Positions /\ Counts /\ Accepted /\ Completed /\ \A x \in Segments : Fresh(x)
  BY DEF Inv
<1>a. Remote \subseteq Segments /\ Local \subseteq Segments
  BY DEF Segments
<1>b. s \in Segments /\ s \notin Local /\ Started(s) \subseteq Messages
      /\ \A m \in Started(s) : m.kind # "completed"
  BY SharedSegmentsAssumption DEF Segments, Started, Messages, Kinds, SharedSegmentsAssumption
<1>1. ASSUME ReadStart(s) PROVE Inv'
  <2>1. /\ toOwner["start"][s] > 0
        /\ toOwner' = [toOwner EXCEPT !["start"][s] = @ - 1]
        /\ own' = [own EXCEPT ![s] = IF @ = "none" THEN "active" ELSE @]
        /\ UNCHANGED << operator, starts, stops, queue, rt, writing >>
    BY <1>1 DEF ReadStart, Arrive
  <2>2. \/ /\ starts[s] > 0 /\ Answer("start", s, "ok", Started(s))
           /\ UNCHANGED handling
        \/ /\ handling' = [handling EXCEPT !["start"][s] = @ + 1]
           /\ UNCHANGED << ack, toOperator, faults >>
    BY <1>1 DEF ReadStart
  <2>3. /\ ack' \in [Requests -> [Remote -> Outcomes]] /\ faults' \in 0..MaxFaults
        /\ toOperator' \subseteq toOperator \cup Started(s)
        /\ \A x \in Remote : ack'["start"][x] = "ok" => ack["start"][x] = "ok" \/ starts[x] = 1
    <3>1. CASE starts[s] > 0 /\ Answer("start", s, "ok", Started(s))
      <4>1. starts[s] = 1
        BY <1>0, <1>b, <3>1 DEF TypeOK, Counts
      <4>. QED
        BY <1>0, <1>b, <3>1, <4>1, AnswerKeeps DEF Requests
    <3>2. CASE UNCHANGED << ack, toOperator, faults >>
      BY <1>0, <3>2 DEF TypeOK
    <3>. QED
      BY <2>2, <3>1, <3>2
  <2>4. handling' \in [Requests -> [Remote -> Nat]] /\ toOwner' \in [Requests -> [Remote -> Nat]]
    <3>1. /\ handling \in [Requests -> [Remote -> Nat]] /\ "start" \in Requests
          /\ toOwner \in [Requests -> [Remote -> Nat]]
      BY <1>0 DEF TypeOK, Requests
    <3>. QED
      BY <2>1, <2>2, <3>1, Counted
  <2>5. own' \in [Remote -> SegStatus]
    BY <1>0, <2>1 DEF TypeOK, SegStatus
  <2>6. TypeOK'
    BY <1>0, <1>b, <2>1, <2>3, <2>4, <2>5 DEF operator, TypeOK
  <2>7. Positions'
    BY <1>0, <2>1 DEF operator, Positions
  <2>. QED
    BY <1>0, <1>b, <2>1, <2>3, <2>6, <2>7, Quiet DEF operator
<1>2. ASSUME FinishStart(s) PROVE Inv'
  <2>1. /\ handling["start"][s] > 0
        /\ handling' = [handling EXCEPT !["start"][s] = @ - 1]
        /\ Answer("start", s, "ok", Started(s))
        /\ UNCHANGED << operator, toOwner, own, stops, rt, writing >>
    BY <1>2 DEF FinishStart
  <2>2. \/ starts[s] # 0 /\ UNCHANGED << starts, queue >>
        \/ /\ starts[s] = 0 /\ starts' = [starts EXCEPT ![s] = 1]
           /\ queue' = [queue EXCEPT ![s] = Append(queue[s], "start")]
    BY <1>0, <1>b, <1>2 DEF FinishStart, InsertOnce, TypeOK
  <2>3. /\ ack' \in [Requests -> [Remote -> Outcomes]] /\ faults' \in 0..MaxFaults
        /\ toOperator' \subseteq toOperator \cup Started(s)
        /\ \A x \in Remote : ack'["start"][x] = "ok" => ack["start"][x] = "ok" \/ x = s
    BY <1>0, <1>b, <2>1, AnswerKeeps DEF Requests
  <2>4. starts'[s] = 1 /\ \A x \in Segments \ {s} : starts'[x] = starts[x] /\ queue'[x] = queue[x]
    BY <1>0, <1>b, <2>2 DEF TypeOK, Counts
  <2>5. TypeOK'
    <3>1. handling \in [Requests -> [Remote -> Nat]] /\ "start" \in Requests
          /\ starts \in [Segments -> Nat]
      BY <1>0 DEF TypeOK, Requests
    <3>2. handling' \in [Requests -> [Remote -> Nat]]
      BY <2>1, <3>1, Counted
    <3>4. starts' \in [Segments -> Nat] /\ queue' \in [Segments -> Seq({"start", "stop"})]
      BY <1>0, <1>b, <2>2, <3>1, Inserted
    <3>. QED
      BY <1>0, <1>b, <2>1, <2>3, <3>2, <3>4 DEF operator, TypeOK
  <2>6. Positions'
    BY <1>0, <1>a, <1>b, <2>1, <2>4 DEF operator, Positions
  <2>7. Counts' /\ Accepted'
    BY <1>0, <1>a, <2>1, <2>3, <2>4 DEF Counts, Accepted
  <2>8. Completed'
    BY <1>0, <1>b, <2>1, <2>3 DEF operator, Completed
  <2>9. ASSUME NEW x \in Segments PROVE Fresh(x)'
    <3>1. CASE x = s /\ starts[s] = 0
      BY <1>0, <1>b, <2>1, <2>2, <3>1, AppendStart DEF TypeOK
    <3>2. CASE x # s \/ starts[s] # 0
      <4>1. starts'[x] = starts[x] /\ queue'[x] = queue[x] /\ rt'[x] = rt[x]
        BY <2>1, <2>2, <2>4, <3>2
      <4>. QED
        BY <1>0, <4>1 DEF Fresh, Pending
    <3>. QED
      BY <3>1, <3>2
  <2>. QED
    BY <2>5, <2>6, <2>7, <2>8, <2>9 DEF Inv
<1>3. ASSUME FinishStop(r, s) PROVE Inv'
  <2>1. /\ r # "start" /\ handling[r][s] > 0
        /\ handling' = [handling EXCEPT ![r][s] = @ - 1]
        /\ own' = [own EXCEPT ![s] = "active"]
        /\ Answer(r, s, "ok", {})
        /\ UNCHANGED << operator, toOwner, starts, rt, writing >>
    BY <1>3 DEF FinishStop
  <2>2. \/ stops[s] # 0 /\ UNCHANGED << stops, queue >>
        \/ /\ stops' = [stops EXCEPT ![s] = 1]
           /\ queue' = [queue EXCEPT ![s] = Append(queue[s], "stop")]
    BY <1>0, <1>b, <1>3 DEF FinishStop, InsertOnce, TypeOK
  <2>3. /\ ack' \in [Requests -> [Remote -> Outcomes]] /\ faults' \in 0..MaxFaults
        /\ toOperator' \subseteq toOperator
        /\ \A x \in Remote : ack'["start"][x] = "ok" => ack["start"][x] = "ok"
    BY <1>0, <2>1, AnswerKeeps
  <2>4. TypeOK'
    <3>1. handling \in [Requests -> [Remote -> Nat]] /\ r \in Requests
          /\ stops \in [Segments -> Nat]
      BY <1>0 DEF TypeOK
    <3>2. handling' \in [Requests -> [Remote -> Nat]]
      BY <2>1, <3>1, Counted
    <3>4. stops' \in [Segments -> Nat] /\ queue' \in [Segments -> Seq({"start", "stop"})]
      BY <1>0, <1>b, <2>2, <3>1, Inserted
    <3>5. own' \in [Remote -> SegStatus]
      BY <1>0, <2>1 DEF TypeOK, SegStatus
    <3>. QED
      BY <1>0, <2>1, <2>3, <3>2, <3>4, <3>5 DEF operator, TypeOK
  <2>5. Positions' /\ Accepted' /\ Completed'
    BY <1>0, <2>1, <2>3 DEF operator, Positions, Accepted, Completed
  <2>6. Counts'
    <3>1. \A x \in Segments : stops'[x] = stops[x] \/ stops'[x] = 1
      BY <1>0, <1>b, <2>2 DEF TypeOK
    <3>. QED
      BY <1>0, <2>1, <3>1 DEF Counts
  <2>7. ASSUME NEW x \in Segments PROVE Fresh(x)'
    <3>1. starts'[x] = starts[x] /\ rt'[x] = rt[x]
          /\ (queue'[x] = queue[x] \/ queue'[x] = Append(queue[x], "stop"))
      BY <1>0, <1>b, <2>1, <2>2 DEF TypeOK
    <3>2. CASE queue'[x] = queue[x]
      BY <1>0, <3>1, <3>2 DEF Fresh, Pending
    <3>3. CASE queue'[x] = Append(queue[x], "stop")
      BY <1>0, <3>1, <3>3, AppendStop
    <3>. QED
      BY <3>1, <3>2, <3>3
  <2>. QED
    BY <2>4, <2>5, <2>6, <2>7 DEF Inv
<1>. QED
  BY <1>1, <1>2, <1>3

-----------------------------------------------------------------------------
(* The agents.  What is in the runtime of a segment moves forward only, so *)
(* that a copy of "completed" stays true.                                  *)

LEMMA AgentSteps ==
  ASSUME Inv, NEW s \in Segments, \/ ExecStart(s) \/ ExecStop(s) \/ End(s)
  PROVE  Inv'
<1>0. TypeOK /\ Positions /\ Counts /\ Accepted /\ Completed /\ \A x \in Segments : Fresh(x)
  BY DEF Inv
<1>1. ASSUME ExecStart(s) PROVE Inv'
  <2>1. /\ queue[s] # << >> /\ Head(queue[s]) = "start"
        /\ queue' = [queue EXCEPT ![s] = Tail(queue[s])]
        /\ UNCHANGED << seg, start, stop, ack, toOwner, handling, starts, stops, writing >>
    BY <1>1 DEF ExecStart
  <2>2. PICK status \in {"running", "failed"} : rt' = [rt EXCEPT ![s] = status]
    BY <1>1 DEF ExecStart
  <2>3. /\ \/ \E kinds \in SUBSET {"running", "startFailed"} : Report(s, kinds)
           \/ UNCHANGED << own, toOperator, faults >>
        /\ run' = run \/ run' = "failed"
    BY <1>1 DEF ExecStart
  <2>4. /\ own' \in [Remote -> SegStatus] /\ faults' \in 0..MaxFaults
        /\ toOperator' \subseteq Messages
        /\ \A m \in toOperator' : m.kind = "completed" => m \in toOperator
    <3>1. CASE UNCHANGED << own, toOperator, faults >>
      BY <1>0, <3>1 DEF TypeOK
    <3>2. CASE \E kinds \in SUBSET {"running", "startFailed"} : Report(s, kinds)
      <4>1. PICK kinds \in SUBSET {"running", "startFailed"} : Report(s, kinds)
        BY <3>2
      <4>2. kinds \in SUBSET Kinds
        BY DEF Kinds
      <4>. QED
        BY <1>0, <4>1, <4>2, ReportKeeps
    <3>. QED
      BY <2>3, <3>1, <3>2
  <2>5. rt[s] = "none"
    <3>1. queue[s] \in Seq({"start", "stop"})
      BY <1>0 DEF TypeOK
    <3>2. 1 \in 1..Len(queue[s]) /\ queue[s][1] = "start"
      BY <2>1, <3>1
    <3>. QED
      BY <1>0, <3>2 DEF Fresh, Pending
  <2>6. TypeOK'
    <3>1. queue' \in [Segments -> Seq({"start", "stop"})]
      <4>1. queue[s] \in Seq({"start", "stop"})
        BY <1>0 DEF TypeOK
      <4>2. Tail(queue[s]) \in Seq({"start", "stop"})
        BY <2>1, <4>1
      <4>. QED
        BY <1>0, <2>1, <4>2 DEF TypeOK
    <3>2. rt' \in [Segments -> {"none", "running"} \cup Ended] /\ run' \in RunStatus
      BY <1>0, <2>2, <2>3 DEF TypeOK, RunStatus, Ended
    <3>. QED
      BY <1>0, <2>1, <2>4, <3>1, <3>2 DEF TypeOK
  <2>7. Positions' /\ Counts' /\ Accepted'
    BY <1>0, <2>1 DEF Positions, Counts, Accepted
  <2>8. Completed'
    <3>1. \A x \in Segments : rt[x] = "completed" => rt'[x] = "completed"
      BY <1>0, <2>2, <2>5 DEF TypeOK
    <3>2. \A m \in toOperator : m.seg \in Segments
      BY <1>0 DEF TypeOK, Messages
    <3>. QED
      BY <1>0, <2>1, <2>3, <2>4, <3>1, <3>2 DEF Completed
  <2>9. ASSUME NEW x \in Segments PROVE Fresh(x)'
    <3>1. CASE x = s
      BY <1>0, <2>1, <3>1, TakeHead DEF TypeOK
    <3>2. CASE x # s
      BY <1>0, <2>1, <2>2, <3>2 DEF TypeOK, Fresh, Pending
    <3>. QED
      BY <3>1, <3>2
  <2>. QED
    BY <2>6, <2>7, <2>8, <2>9 DEF Inv
<1>2. ASSUME ExecStop(s) PROVE Inv'
  <2>1. /\ queue[s] # << >> /\ Head(queue[s]) = "stop"
        /\ queue' = [queue EXCEPT ![s] = Tail(queue[s])]
        /\ rt' = [rt EXCEPT ![s] = IF rt[s] = "running" THEN "stopped" ELSE rt[s]]
        /\ UNCHANGED << operator, ack, toOwner, handling, starts, stops, writing >>
    BY <1>2 DEF ExecStop
  <2>2. PICK kinds \in SUBSET {"stopped", "stopDone"} : Report(s, kinds)
    BY <1>2 DEF ExecStop
  <2>3. /\ own' \in [Remote -> SegStatus] /\ faults' \in 0..MaxFaults
        /\ toOperator' \subseteq Messages
        /\ \A m \in toOperator' : m.kind = "completed" => m \in toOperator
    <3>1. kinds \in SUBSET Kinds
      BY DEF Kinds, Ended
    <3>. QED
      BY <1>0, <2>2, <3>1, ReportKeeps
  <2>4. TypeOK'
    <3>1. queue' \in [Segments -> Seq({"start", "stop"})]
      <4>1. queue[s] \in Seq({"start", "stop"})
        BY <1>0 DEF TypeOK
      <4>2. Tail(queue[s]) \in Seq({"start", "stop"})
        BY <2>1, <4>1
      <4>. QED
        BY <1>0, <2>1, <4>2 DEF TypeOK
    <3>2. rt' \in [Segments -> {"none", "running"} \cup Ended]
      BY <1>0, <2>1 DEF TypeOK, Ended
    <3>. QED
      BY <1>0, <2>1, <2>3, <3>1, <3>2 DEF operator, TypeOK
  <2>5. Positions' /\ Counts' /\ Accepted'
    BY <1>0, <2>1 DEF operator, Positions, Counts, Accepted
  <2>6. Completed'
    <3>1. \A x \in Segments : rt[x] = "completed" => rt'[x] = "completed"
      BY <1>0, <2>1 DEF TypeOK
    <3>2. \A m \in toOperator : m.seg \in Segments
      BY <1>0 DEF TypeOK, Messages
    <3>. QED
      BY <1>0, <2>1, <2>3, <3>1, <3>2 DEF operator, Completed
  <2>7. ASSUME NEW x \in Segments PROVE Fresh(x)'
    <3>1. CASE x = s
      BY <1>0, <2>1, <3>1, TakeHead DEF TypeOK
    <3>2. CASE x # s
      BY <1>0, <2>1, <3>2 DEF TypeOK, Fresh, Pending
    <3>. QED
      BY <3>1, <3>2
  <2>. QED
    BY <2>4, <2>5, <2>6, <2>7 DEF Inv
<1>3. ASSUME End(s) PROVE Inv'
  <2>1. PICK e \in Ended : rt' = [rt EXCEPT ![s] = e] /\ Report(s, {e})
    BY <1>3 DEF End
  <2>2. /\ rt[s] = "running"
        /\ UNCHANGED << operator, ack, toOwner, handling, starts, stops, queue, writing >>
    BY <1>3 DEF End
  <2>3. /\ own' \in [Remote -> SegStatus] /\ faults' \in 0..MaxFaults
        /\ toOperator' \subseteq Messages
        /\ \A m \in toOperator' : m \in toOperator \/ (m.seg = s /\ m.kind = e)
    <3>1. {e} \in SUBSET Kinds
      BY DEF Kinds
    <3>. QED
      BY <1>0, <2>1, <3>1, ReportKeeps
  <2>4. TypeOK'
    BY <1>0, <2>1, <2>2, <2>3 DEF operator, TypeOK
  <2>5. Positions' /\ Counts' /\ Accepted'
    BY <1>0, <2>2 DEF operator, Positions, Counts, Accepted
  <2>6. Completed'
    <3>1. rt'[s] = e /\ \A x \in Segments : rt[x] = "completed" => rt'[x] = "completed"
      BY <1>0, <2>1, <2>2 DEF TypeOK
    <3>2. \A m \in toOperator : m.seg \in Segments
      BY <1>0 DEF TypeOK, Messages
    <3>. QED
      BY <1>0, <2>2, <2>3, <3>1, <3>2 DEF operator, Completed
  <2>7. ASSUME NEW x \in Segments PROVE Fresh(x)'
    BY <1>0, <2>1, <2>2 DEF TypeOK, Fresh, Pending
  <2>. QED
    BY <2>4, <2>5, <2>6, <2>7 DEF Inv
<1>. QED
  BY <1>1, <1>2, <1>3

-----------------------------------------------------------------------------
(* The operator's handlers. *)

LEMMA VerdictTrue ==
  ASSUME NEW seg1, Verdict(seg1) = "completed"
  PROVE  \A s \in Segments : seg1[s] = "completed"
BY DEF Verdict

LEMMA VerdictTyped ==
  ASSUME NEW seg1
  PROVE  Verdict(seg1) \in Ended \cup {"none"}
BY DEF Verdict, Ended

LEMMA HandlerSteps ==
  ASSUME Inv, OperatorStep
  PROVE  Inv'
<1>0. TypeOK /\ Positions /\ Counts /\ Accepted /\ Completed /\ \A x \in Segments : Fresh(x)
  BY DEF Inv
<1>1. ASSUME NEW m \in Messages, Receive(m) PROVE Inv'
  <2>1. /\ m \in toOperator /\ toOperator' = toOperator \ {m}
        /\ seg' = [seg EXCEPT ![m.seg] = StatusOf(m.kind)]
        /\ UNCHANGED << run, start, stop, ack, toOwner, handling, owner, faults >>
    BY <1>1 DEF Receive
  <2>2. \/ writing' = writing
        \/ writing' = writing \cup ({Verdict(seg')} \ {"none"})
    BY <1>1 DEF Receive
  <2>3. m.seg \in Segments /\ m.kind \in Kinds
    BY DEF Messages
  <2>4. \A s \in Segments : seg'[s] = "completed" => rt[s] = "completed"
    <3>1. StatusOf(m.kind) = "completed" => rt[m.seg] = "completed"
      BY <1>0, <2>1, <2>3, StatusTyped DEF Completed
    <3>. QED
      BY <1>0, <2>1, <2>3, <3>1 DEF TypeOK, Completed
  <2>5. "completed" \in writing' => \A s \in Segments : rt[s] = "completed"
    BY <1>0, <2>2, <2>4, VerdictTrue DEF Completed
  <2>6. TypeOK'
    <3>1. seg' \in [Segments -> SegStatus]
      BY <1>0, <2>1, <2>3, StatusTyped DEF TypeOK
    <3>2. writing' \subseteq Ended
      BY <1>0, <2>2, VerdictTyped DEF TypeOK
    <3>. QED
      BY <1>0, <2>1, <3>1, <3>2 DEF owner, TypeOK
  <2>7. Positions' /\ Counts' /\ Accepted'
    BY <1>0, <2>1 DEF owner, Positions, Counts, Accepted
  <2>8. Completed'
    BY <1>0, <2>1, <2>4, <2>5 DEF owner, Completed
  <2>9. \A s \in Segments : Fresh(s)'
    BY <1>0, <2>1 DEF owner, Fresh, Pending
  <2>. QED
    BY <2>6, <2>7, <2>8, <2>9 DEF Inv
<1>2. ASSUME NEW v \in Ended, WriteRun(v) PROVE Inv'
  <2>1. /\ v \in writing /\ writing' = writing \ {v} /\ run' = v
        /\ UNCHANGED << seg, start, stop, ack, toOwner, handling, owner, toOperator, faults >>
    BY <1>2 DEF WriteRun
  <2>2. TypeOK'
    BY <1>0, <2>1 DEF owner, TypeOK, RunStatus
  <2>3. Positions' /\ Counts' /\ Accepted' /\ Completed'
    BY <1>0, <2>1 DEF owner, Positions, Counts, Accepted, Completed
  <2>4. \A s \in Segments : Fresh(s)'
    BY <1>0, <2>1 DEF owner, Fresh, Pending
  <2>. QED
    BY <2>2, <2>3, <2>4 DEF Inv
<1>3. ASSUME NEW s \in Segments, Progress(s) PROVE Inv'
  <2>1. TypeOK'
    BY <1>0, <1>3 DEF Progress, owner, TypeOK, RunStatus
  <2>2. Positions'
    BY <1>0, <1>3 DEF Progress, owner, Positions
  <2>. QED
    BY <1>3, <2>1, <2>2, Quiet DEF Progress, owner
<1>. QED
  BY <1>1, <1>2, <1>3 DEF OperatorStep

-----------------------------------------------------------------------------
(* The invariant and the theorems. *)

LEMMA InvInit == Init => Inv
<1>. SUFFICES ASSUME Init PROVE Inv
  OBVIOUS
<1>1. TypeOK
  <2>1. start \in StartLocals /\ stop \in StopLocals
    BY DEF Init, StartLocals, StartPositions, StopLocals, StopPositions
  <2>2. << >> \in Seq({"start", "stop"})
    OBVIOUS
  <2>. QED
    BY <2>1, <2>2, SharedSegmentsAssumption
    DEF Init, TypeOK, RunStatus, SegStatus, Outcomes, Messages, SharedSegmentsAssumption
<1>2. Positions /\ Counts /\ Accepted /\ Completed
  BY DEF Init, Positions, Counts, Accepted, Completed, Requests, Segments
<1>3. \A s \in Segments : Fresh(s)
  BY DEF Init, Fresh, Pending
<1>. QED
  BY <1>1, <1>2, <1>3 DEF Inv

LEMMA InvStep == Inv /\ [Next]_vars => Inv'
<1>. SUFFICES ASSUME Inv, [Next]_vars PROVE Inv'
  OBVIOUS
<1>1. CASE UNCHANGED vars
  BY <1>1, Quiet DEF vars, operator, owner, Inv, TypeOK, Positions
<1>2. CASE Next
  <2>1. "start" \in Requests
    BY DEF Requests
  <2>2. ASSUME NEW s \in Remote, OwnerStep(s) \/ RelayStep(s) \/ RefuseStart(s) PROVE Inv'
    BY <2>1, <2>2, RelaySteps, InsertSteps DEF OwnerStep, RelayStep
  <2>3. ASSUME NEW s \in Segments, AgentStep(s) \/ End(s) PROVE Inv'
    BY <2>3, AgentSteps DEF AgentStep
  <2>4. ASSUME NEW s \in Remote, NEW r \in Requests, LoseRequest(r, s) PROVE Inv'
    BY <2>4, RelaySteps
  <2>. QED
    BY <1>2, <2>2, <2>3, <2>4, StartSteps, StopSteps, HandlerSteps DEF Next
<1>. QED
  BY <1>1, <1>2

LEMMA SpecInv == Spec => []Inv
BY InvInit, InvStep, PTL DEF Spec

(* The state of the operator, the relay and every owner keeps its types    *)
(* for any number of accounts and faults.                                  *)
THEOREM TypeCorrect == Spec => []TypeOK
<1>1. Inv => TypeOK
  BY DEF Inv
<1>. QED
  BY SpecInv, <1>1, PTL

(* insertSharedSegmentCommandOnce keeps overlapping handlers of repeated   *)
(* requests from telling an agent twice to start or to stop a segment.     *)
THEOREM InsertedOnce == Spec => []CommandsOnce
<1>1. Inv => CommandsOnce
  BY DEF Inv, Counts, CommandsOnce, Segments
<1>. QED
  BY SpecInv, <1>1, PTL

(* A start the relay reports as accepted has its command in the table.     *)
THEOREM AcceptedPosted == Spec => []AcceptedIsPosted
<1>1. Inv => AcceptedIsPosted
  BY DEF Inv, Accepted, AcceptedIsPosted
<1>. QED
  BY SpecInv, <1>1, PTL

(* A run that maybeFinalizeSharedJobRunFromSegments reports completed has  *)
(* completed on every account, whatever was lost, late or overtaken.       *)
THEOREM CompletedIsTrue == Spec => []CompletedEverywhere
<1>1. Inv => CompletedEverywhere
  BY DEF Inv, Completed, CompletedEverywhere
<1>. QED
  BY SpecInv, <1>1, PTL
=============================================================================
