---------------------- MODULE SharedSegmentsStopProofs ----------------------
(***************************************************************************)
(* What a stop of a shared run achieves, for any number of accounts.       *)
(*                                                                         *)
(* The argument is about the order of two commands.  A stop that does not  *)
(* come early is asked for when every job_start is in its table, so that   *)
(* a job_stop stands behind the job_start of its segment, and an agent     *)
(* that has executed it is through with the segment for good.  Every       *)
(* report of an end is then true of its segment, however late it comes.    *)
(***************************************************************************)
EXTENDS SharedSegmentsProofs

Asked == stop.pc # "idle"

(* The start has not failed, and the stop, if there was one, came after it. *)
Unforced == ~stop.early /\ start.ok

(* The segment was told to run, and will not run any more. *)
Dead(s) == starts[s] = 1 /\ ~MayRun(s)

(* The commands that are in their tables at each position of the start. *)
StartHas ==
  /\ \A s \in Remote :
       /\ start.pc = "dispatch" => s \in start.todo \/ starts[s] = 1
       /\ start.pc = "wait" => s \in start.todo \/ s = start.cur \/ starts[s] = 1
       /\ start.pc \in {"locals", "markLocal", "event"} => starts[s] = 1
  /\ \A s \in Local :
       /\ start.pc \in {"locals", "markLocal"} => s \in start.todo \/ starts[s] = 1
       /\ start.pc = "event" => starts[s] = 1
  /\ start.pc = "done" /\ start.ok => \A s \in Segments : starts[s] = 1

(* A start that fails asks those to stop that have accepted. *)
StartSent ==
  /\ \A s \in start.sent : s \in Remote /\ starts[s] = 1
  /\ start.pc \in {"rollback", "rollbackWait"} => start.todo \subseteq start.sent

StopWhen ==
  /\ ~Asked => ~stop.early
  /\ Asked /\ ~stop.early => start.pc = "done"

(* A request to stop follows the job_start, on its way and in the queue. *)
Follows ==
  \A s \in Remote, r \in {"stop", "rollback"} :
    toOwner[r][s] + handling[r][s] > 0 => starts[s] = 1

Behind(s) ==
  \A i \in 1..Len(queue[s]) : queue[s][i] = "stop" =>
    /\ starts[s] = 1
    /\ \A j \in 1..Len(queue[s]) : queue[s][j] = "start" => j < i

(* Every copy of the report that a segment has stopped is true. *)
StoppedDead ==
  /\ \A s \in Segments : seg[s] = "stopped" => Dead(s)
  /\ \A m \in toOperator : StatusOf(m.kind) = "stopped" => Dead(m.seg)

StoppedRun ==
  Unforced /\ ("stopped" \in writing \/ run = "stopped") =>
    \A s \in Segments : Dead(s)

StopInv ==
  /\ StartHas /\ StartSent /\ StopWhen /\ StoppedRun
  /\ Unforced => Follows /\ StoppedDead /\ \A s \in Segments : Behind(s)

-----------------------------------------------------------------------------
(* What a step does to one segment: nothing, a command is posted, its      *)
(* agent executes one, or it ends.                                         *)

Rests(s) ==
  /\ queue'[s] = queue[s] /\ rt'[s] = rt[s]
  /\ starts'[s] = starts[s] /\ stops'[s] = stops[s]

PostsStart(s) ==
  /\ queue'[s] = Append(queue[s], "start") /\ starts[s] = 0 /\ starts'[s] = 1
  /\ rt'[s] = rt[s] /\ stops'[s] = stops[s]

StopDue(s) ==
  \/ s \in Local /\ stop.pc = "local"
  \/ s \in Remote /\ \E r \in {"stop", "rollback"} : handling[r][s] > 0

PostsStop(s) ==
  /\ StopDue(s) /\ queue'[s] = Append(queue[s], "stop")
  /\ rt'[s] = rt[s] /\ starts'[s] = starts[s]

Executes(s, command) ==
  /\ queue[s] # << >> /\ Head(queue[s]) = command /\ queue'[s] = Tail(queue[s])
  /\ command = "start" => rt'[s] \in {"running", "failed"}
  /\ command = "stop" => rt'[s] = IF rt[s] = "running" THEN "stopped" ELSE rt[s]
  /\ starts'[s] = starts[s] /\ stops'[s] = stops[s]

Stops(s) ==
  /\ rt[s] = "running" /\ rt'[s] \in Ended
  /\ queue'[s] = queue[s] /\ starts'[s] = starts[s] /\ stops'[s] = stops[s]

Work(s) ==
  \/ Rests(s) \/ PostsStart(s) \/ PostsStop(s) \/ Stops(s)
  \/ \E command \in Commands : Executes(s, command)

LEMMA Resting ==
  ASSUME UNCHANGED << starts, stops, queue, rt >>, NEW s \in Segments
  PROVE  Work(s)
BY DEF Work, Rests

LEMMA StartWork ==
  ASSUME Inv, StartStep \/ StartThrows, NEW s \in Segments
  PROVE  Work(s)
<1>1. ASSUME NEW x \in Local, StartLocal(x) PROVE Work(s)
  <2>1. starts[x] = 0 /\ x \in Segments
    BY <1>1 DEF Inv, Positions, StartLocal, StartAt, Segments
  <2>2. starts \in [Segments -> Nat] /\ queue \in [Segments -> Seq({"start", "stop"})]
    BY DEF Inv, TypeOK
  <2>3. UNCHANGED << rt, stops >>
    BY <1>1 DEF StartLocal
  <2>4. CASE s = x
    BY <1>1, <2>1, <2>2, <2>3, <2>4 DEF StartLocal, Work, PostsStart
  <2>5. CASE s # x
    BY <1>1, <2>1, <2>2, <2>3, <2>5 DEF StartLocal, Work, Rests
  <2>. QED
    BY <2>4, <2>5
<1>2. ASSUME \/ StartRun \/ StartRows
             \/ \E x \in Remote : Dispatch(x) \/ Rollback(x)
             \/ DispatchAccepted \/ DispatchRefused \/ FailRun \/ AllDispatched
             \/ MarkLocal \/ RolledBack \/ StartFinish \/ StartThrows
      PROVE  UNCHANGED << starts, stops, queue, rt >>
  BY <1>2 DEF StartRun, StartRows, Dispatch, Rollback, DispatchAccepted, DispatchRefused,
     FailRun, AllDispatched, MarkLocal, RolledBack, StartFinish, StartThrows, owner
<1>. QED
  BY <1>1, <1>2, Resting DEF StartStep

LEMMA StopWork ==
  ASSUME Inv, StopRequest \/ StopStep, NEW s \in Segments
  PROVE  Work(s)
<1>1. CASE StopLocal
  <2>1. /\ UNCHANGED << starts, rt >>
        /\ stop.pc = "local" /\ \E told \in SUBSET Local :
             /\ stops' = [x \in Segments |-> stops[x] + IF x \in told THEN 1 ELSE 0]
             /\ queue' = [x \in Segments |->
                            IF x \in told THEN Append(queue[x], "stop") ELSE queue[x]]
    BY <1>1 DEF StopLocal, StopAt
  <2>2. stops[s] + 0 = stops[s]
    BY DEF Inv, TypeOK
  <2>. QED
    BY <2>1, <2>2 DEF Work, Rests, PostsStop, StopDue
<1>2. ASSUME \/ StopRequest \/ StopMark \/ StopRemote \/ StopAnswered
             \/ \E x \in Remote : StopAsk(x)
      PROVE  UNCHANGED << starts, stops, queue, rt >>
  BY <1>2 DEF StopRequest, StopMark, StopRemote, StopAnswered, StopAsk, owner
<1>. QED
  BY <1>1, <1>2, Resting DEF StopStep

LEMMA OwnerWork ==
  ASSUME Inv, NEW x \in Remote, NEW r \in Requests, NEW s \in Segments,
         \/ AckTimeout(r, x) \/ LoseRequest(r, x) \/ RefuseStart(x)
         \/ ReadStart(x) \/ FinishStart(x) \/ ReadStop(r, x) \/ FinishStop(r, x)
  PROVE  Work(s)
<1>1. x \in Segments /\ starts \in [Segments -> Nat] /\ stops \in [Segments -> Nat]
      /\ queue \in [Segments -> Seq({"start", "stop"})]
  BY DEF Inv, TypeOK, Segments
<1>2. ASSUME \/ AckTimeout(r, x) \/ LoseRequest(r, x) \/ RefuseStart(x)
             \/ ReadStart(x) \/ ReadStop(r, x)
      PROVE  UNCHANGED << starts, stops, queue, rt >>
  BY <1>2 DEF AckTimeout, LoseRequest, RefuseStart, ReadStart, ReadStop, owner
<1>3. CASE FinishStart(x)
  <2>1. InsertOnce(x, starts, "start") /\ UNCHANGED << rt, stops >>
    BY <1>3 DEF FinishStart
  <2>2. CASE s = x
    BY <1>1, <2>1, <2>2 DEF InsertOnce, Work, Rests, PostsStart
  <2>3. CASE s # x
    BY <1>1, <2>1, <2>3 DEF InsertOnce, Work, Rests
  <2>. QED
    BY <2>2, <2>3
<1>4. CASE FinishStop(r, x)
  <2>1. InsertOnce(x, stops, "stop") /\ UNCHANGED << rt, starts >> /\ StopDue(x)
    BY <1>4 DEF FinishStop, StopDue, Requests
  <2>2. CASE s = x
    BY <1>1, <2>1, <2>2 DEF InsertOnce, Work, Rests, PostsStop
  <2>3. CASE s # x
    BY <1>1, <2>1, <2>3 DEF InsertOnce, Work, Rests
  <2>. QED
    BY <2>2, <2>3
<1>. QED
  BY <1>2, <1>3, <1>4, Resting

LEMMA AgentWork ==
  ASSUME Inv, NEW x \in Segments, AgentStep(x) \/ End(x), NEW s \in Segments
  PROVE  Work(s)
<1>1. /\ queue \in [Segments -> Seq({"start", "stop"})]
      /\ rt \in [Segments -> {"none", "running"} \cup Ended]
  BY DEF Inv, TypeOK
<1>2. CASE ExecStart(x)
  <2>1. /\ queue[x] # << >> /\ Head(queue[x]) = "start"
        /\ queue' = [queue EXCEPT ![x] = Tail(@)]
        /\ \E status \in {"running", "failed"} : rt' = [rt EXCEPT ![x] = status]
        /\ UNCHANGED << starts, stops >>
    BY <1>2 DEF ExecStart
  <2>2. CASE s = x
    <3>1. Executes(s, "start")
      BY <1>1, <2>1, <2>2 DEF Executes
    <3>. QED
      BY <3>1 DEF Work, Commands
  <2>3. CASE s # x
    BY <1>1, <2>1, <2>3 DEF Work, Rests
  <2>. QED
    BY <2>2, <2>3
<1>3. CASE ExecStop(x)
  <2>1. /\ queue[x] # << >> /\ Head(queue[x]) = "stop"
        /\ queue' = [queue EXCEPT ![x] = Tail(@)]
        /\ rt' = [rt EXCEPT ![x] = IF @ = "running" THEN "stopped" ELSE @]
        /\ UNCHANGED << starts, stops >>
    BY <1>3 DEF ExecStop
  <2>2. CASE s = x
    <3>1. Executes(s, "stop")
      BY <1>1, <2>1, <2>2 DEF Executes
    <3>. QED
      BY <3>1 DEF Work, Commands
  <2>3. CASE s # x
    BY <1>1, <2>1, <2>3 DEF Work, Rests
  <2>. QED
    BY <2>2, <2>3
<1>4. CASE End(x)
  <2>1. /\ rt[x] = "running" /\ \E e \in Ended : rt' = [rt EXCEPT ![x] = e]
        /\ UNCHANGED << queue, starts, stops >>
    BY <1>4 DEF End
  <2>. QED
    BY <1>1, <2>1 DEF Work, Rests, Stops
<1>. QED
  BY <1>2, <1>3, <1>4 DEF AgentStep

LEMMA Works ==
  ASSUME Inv, [Next]_vars, NEW s \in Segments
  PROVE  Work(s)
<1>1. CASE UNCHANGED vars
  BY <1>1, Resting DEF vars, owner
<1>2. CASE Next
  <2>1. "start" \in Requests
    BY DEF Requests
  <2>2. ASSUME NEW x \in Remote, OwnerStep(x) \/ RelayStep(x) \/ RefuseStart(x) PROVE Work(s)
    BY <2>1, <2>2, OwnerWork DEF OwnerStep, RelayStep
  <2>3. ASSUME NEW x \in Remote, NEW r \in Requests, LoseRequest(r, x) PROVE Work(s)
    BY <2>3, OwnerWork
  <2>4. ASSUME OperatorStep PROVE UNCHANGED << starts, stops, queue, rt >>
    BY <2>4 DEF OperatorStep, Receive, WriteRun, Progress, owner
  <2>. QED
    BY <1>2, <2>2, <2>3, <2>4, StartWork, StopWork, AgentWork, Resting DEF Next
<1>. QED
  BY <1>1, <1>2

-----------------------------------------------------------------------------
(* What the steps keep of a segment. *)

LEMMA DeadFresh ==
  ASSUME Inv, NEW s \in Segments, rt[s] \in Ended
  PROVE  Dead(s)
BY DEF Inv, TypeOK, Counts, Fresh, Pending, Dead, MayRun, Ended

LEMMA DeadFreshNext ==
  ASSUME Inv', NEW s \in Segments, rt'[s] \in Ended
  PROVE  Dead(s)'
BY DEF Inv, TypeOK, Counts, Fresh, Pending, Dead, MayRun, Ended

LEMMA DeadStays ==
  ASSUME Inv, [Next]_vars, NEW s \in Segments, Dead(s)
  PROVE  Dead(s)'
<1>1. Work(s) /\ queue[s] \in Seq({"start", "stop"}) /\ starts[s] = 1 /\ rt[s] # "running"
      /\ \A i \in 1..Len(queue[s]) : queue[s][i] # "start"
  BY Works DEF Inv, TypeOK, Dead, MayRun
<1>2. CASE Rests(s)
  BY <1>1, <1>2 DEF Rests, Dead, MayRun
<1>3. CASE PostsStart(s) \/ Stops(s)
  BY <1>1, <1>3 DEF PostsStart, Stops
<1>4. CASE PostsStop(s)
  <2>1. \A i \in 1..Len(queue'[s]) : queue'[s][i] = "start" =>
          i \in 1..Len(queue[s]) /\ queue[s][i] = "start"
    BY <1>1, <1>4 DEF PostsStop
  <2>. QED
    BY <1>1, <1>4, <2>1 DEF PostsStop, Dead, MayRun
<1>5. CASE \E command \in Commands : Executes(s, command)
  <2>1. queue[s] # << >> /\ queue'[s] = Tail(queue[s]) /\ starts'[s] = starts[s]
    BY <1>5 DEF Executes
  <2>2. /\ Head(queue[s]) = queue[s][1] /\ 1 \in 1..Len(queue[s])
        /\ \A i \in 1..Len(queue'[s]) :
             i + 1 \in 1..Len(queue[s]) /\ queue'[s][i] = queue[s][i + 1]
    BY <1>1, <2>1
  <2>3. rt'[s] # "running"
    BY <1>1, <1>5, <2>2 DEF Executes, Commands
  <2>. QED
    BY <1>1, <2>1, <2>2, <2>3 DEF Dead, MayRun
<1>. QED
  BY <1>1, <1>2, <1>3, <1>4, <1>5 DEF Work

LEMMA StartsStay ==
  ASSUME Inv, [Next]_vars, NEW s \in Segments, starts[s] = 1
  PROVE  starts'[s] = 1
BY Works DEF Work, Rests, PostsStart, PostsStop, Stops, Executes

(* A stop is posted to a segment that has its job_start only. *)
LEMMA BehindStays ==
  ASSUME Inv, [Next]_vars, NEW s \in Segments, Behind(s), PostsStop(s) => starts[s] = 1
  PROVE  Behind(s)'
<1>1. Work(s) /\ queue[s] \in Seq({"start", "stop"})
  BY Works DEF Inv, TypeOK
<1>2. CASE Rests(s) \/ Stops(s)
  BY <1>2 DEF Rests, Stops, Behind
<1>3. CASE PostsStart(s)
  <2>1. \A i \in 1..Len(queue'[s]) : queue'[s][i] = "stop" =>
          i \in 1..Len(queue[s]) /\ queue[s][i] = "stop"
    BY <1>1, <1>3 DEF PostsStart
  <2>. QED
    BY <1>3, <2>1 DEF PostsStart, Behind
<1>4. CASE PostsStop(s)
  <2>1. /\ Len(queue'[s]) = Len(queue[s]) + 1 /\ Len(queue[s]) \in Nat
        /\ queue'[s][Len(queue[s]) + 1] = "stop"
        /\ \A i \in 1..Len(queue[s]) : queue'[s][i] = queue[s][i]
    BY <1>1, <1>4 DEF PostsStop
  <2>2. starts'[s] = 1 /\ starts[s] = 1
    BY <1>4 DEF PostsStop
  <2>3. ASSUME NEW i \in 1..Len(queue'[s]), queue'[s][i] = "stop",
               NEW j \in 1..Len(queue'[s]), queue'[s][j] = "start"
        PROVE  j < i
    <3>1. j \in 1..Len(queue[s]) /\ queue[s][j] = "start"
      BY <2>1, <2>3
    <3>2. CASE i = Len(queue[s]) + 1
      BY <2>1, <3>1, <3>2
    <3>3. CASE i \in 1..Len(queue[s])
      BY <2>1, <2>3, <3>1, <3>3 DEF Behind
    <3>. QED
      BY <2>1, <3>2, <3>3
  <2>. QED
    BY <2>2, <2>3 DEF Behind
<1>5. CASE \E command \in Commands : Executes(s, command)
  <2>1. queue[s] # << >> /\ queue'[s] = Tail(queue[s]) /\ starts'[s] = starts[s]
    BY <1>5 DEF Executes
  <2>2. \A i \in 1..Len(queue'[s]) :
          i + 1 \in 1..Len(queue[s]) /\ queue'[s][i] = queue[s][i + 1]
    BY <1>1, <2>1
  <2>3. ASSUME NEW i \in 1..Len(queue'[s]), queue'[s][i] = "stop",
               NEW j \in 1..Len(queue'[s]), queue'[s][j] = "start"
        PROVE  j < i
    <3>1. j + 1 < i + 1
      BY <2>2, <2>3 DEF Behind
    <3>. QED
      BY <3>1
  <2>4. ASSUME NEW i \in 1..Len(queue'[s]), queue'[s][i] = "stop" PROVE starts'[s] = 1
    BY <2>1, <2>2, <2>4 DEF Behind
  <2>. QED
    BY <2>3, <2>4 DEF Behind
<1>. QED
  BY <1>1, <1>2, <1>3, <1>4, <1>5 DEF Work

(* An agent that executes a job_stop is through with the segment. *)
LEMMA StopKills ==
  ASSUME Inv, NEW s \in Segments, Behind(s), Executes(s, "stop")
  PROVE  Dead(s)'
<1>1. queue[s] \in Seq({"start", "stop"})
  BY DEF Inv, TypeOK
<1>2. /\ Head(queue[s]) = queue[s][1] /\ 1 \in 1..Len(queue[s])
      /\ \A i \in 1..Len(queue'[s]) :
           i + 1 \in 1..Len(queue[s]) /\ queue'[s][i] = queue[s][i + 1]
  BY <1>1 DEF Executes
<1>3. starts'[s] = 1
  BY <1>2 DEF Behind, Executes
<1>4. \A i \in 1..Len(queue'[s]) : queue'[s][i] # "start"
  BY <1>2 DEF Behind, Executes
<1>. QED
  BY <1>3, <1>4 DEF Executes, Dead, MayRun

(* A report of an end is true when it is written, but for the error of a   *)
(* start that is refused.                                                  *)
LEMMA Told ==
  ASSUME Inv, Inv', [Next]_vars, \A s \in Segments : Behind(s),
         NEW m \in toOperator', m \notin toOperator, StatusOf(m.kind) \in Ended
  PROVE  Dead(m.seg)' \/ (m.kind = "startError" /\ faults' # 0)
<1>0. TypeOK /\ TypeOK' /\ m \in Messages
  BY DEF Inv, TypeOK
<1>1. ASSUME NEW s \in Segments, ExecStart(s) PROVE Dead(s)' /\ m.seg = s
  <2>1. PICK kind \in {"running", "startFailed"} :
          Report(s, {kind}) /\ (kind = "startFailed" => rt' = [rt EXCEPT ![s] = "failed"])
    BY <1>1, <1>0 DEF ExecStart
  <2>2. m.kind = kind /\ m.seg = s
    BY <1>0, <2>1, ReportKeeps DEF Kinds
  <2>3. kind = "startFailed"
    BY <2>2 DEF StatusOf, Ended
  <2>4. rt'[s] \in Ended
    BY <1>0, <2>1, <2>3 DEF TypeOK, Ended
  <2>. QED
    BY <2>2, <2>4, DeadFreshNext
<1>2. ASSUME NEW s \in Segments, ExecStop(s) PROVE Dead(s)' /\ m.seg = s
  <2>1. /\ queue[s] # << >> /\ Head(queue[s]) = "stop"
        /\ queue' = [queue EXCEPT ![s] = Tail(@)]
        /\ rt' = [rt EXCEPT ![s] = IF @ = "running" THEN "stopped" ELSE @]
        /\ UNCHANGED << starts, stops >>
    BY <1>2 DEF ExecStop
  <2>2. Executes(s, "stop")
    BY <1>0, <2>1 DEF TypeOK, Executes
  <2>3. PICK kinds \in SUBSET {"stopped", "stopDone"} : Report(s, kinds)
    BY <1>2 DEF ExecStop
  <2>4. m.seg = s
    BY <1>0, <2>3, ReportKeeps DEF Kinds, Ended
  <2>. QED
    BY <2>2, <2>4, StopKills
<1>3. ASSUME NEW s \in Segments, End(s) PROVE Dead(s)' /\ m.seg = s
  <2>1. PICK e \in Ended : rt' = [rt EXCEPT ![s] = e] /\ Report(s, {e})
    BY <1>3 DEF End
  <2>2. m.seg = s
    BY <1>0, <2>1, ReportKeeps DEF Kinds
  <2>3. rt'[s] \in Ended
    BY <1>0, <2>1 DEF TypeOK
  <2>. QED
    BY <2>2, <2>3, DeadFreshNext
<1>4. ASSUME NEW s \in Remote, NEW r \in Requests, ReadStop(r, s) \/ FinishStop(r, s) PROVE FALSE
  <2>1. \E outcome \in {"ok", "refused"} : Answer(r, s, outcome, {}) \/ UNCHANGED toOperator
    BY <1>4 DEF ReadStop, FinishStop
  <2>. QED
    BY <2>1 DEF Answer
<1>5. ASSUME NEW s \in Remote, ReadStart(s) \/ FinishStart(s) PROVE FALSE
  <2>1. Answer("start", s, "ok", Started(s)) \/ UNCHANGED toOperator
    BY <1>5 DEF ReadStart, FinishStart
  <2>2. m.kind = "started"
    BY <2>1 DEF Answer, Started
  <2>. QED
    BY <2>2 DEF StatusOf, Ended
<1>6. ASSUME NEW s \in Remote, RefuseStart(s) PROVE m.kind = "startError" /\ faults' # 0
  <2>1. toOperator' = toOperator \cup StartError(s) /\ faults' = faults + 1 /\ faults \in Nat
    BY <1>0, <1>6, SharedSegmentsAssumption
    DEF RefuseStart, Fault, TypeOK, SharedSegmentsAssumption
  <2>. QED
    BY <2>1 DEF StartError
<1>7. ASSUME \/ UNCHANGED vars \/ StartStep \/ StartThrows \/ StopRequest \/ StopStep
             \/ OperatorStep
             \/ \E s \in Remote, r \in Requests : AckTimeout(r, s) \/ LoseRequest(r, s)
      PROVE  FALSE
  <2>1. toOperator' \subseteq toOperator
    BY <1>7 DEF vars, StartStep, StartThrows, StopRequest, StopStep, OperatorStep, AckTimeout,
       LoseRequest, StartRun, StartRows, Dispatch, Rollback, DispatchAccepted, DispatchRefused,
       FailRun, AllDispatched, StartLocal, MarkLocal, RolledBack, StartFinish, StopMark,
       StopLocal, StopRemote, StopAnswered, StopAsk, Receive, WriteRun, Progress
  <2>. QED
    BY <2>1
<1>. QED
  BY <1>1, <1>2, <1>3, <1>4, <1>5, <1>6, <1>7
  DEF Next, OwnerStep, RelayStep, AgentStep

-----------------------------------------------------------------------------
(* The operator: what its requests know. *)

LEMMA StartKnows ==
  ASSUME Inv, StopInv, [Next]_vars, StartStep \/ StartThrows
  PROVE  StartHas' /\ StartSent'
<1>0. TypeOK /\ Positions /\ Accepted /\ StartHas /\ StartSent
  BY DEF Inv, StopInv
<1>a. \A s \in Segments : starts[s] = 1 => starts'[s] = 1
  BY StartsStay
<1>b. Remote \subseteq Segments /\ Local \subseteq Segments /\ Segments = Remote \cup Local
  BY DEF Segments
<1>1. ASSUME StartRun \/ DispatchRefused PROVE StartHas' /\ StartSent'
  <2>1. /\ start'.pc \in {"rows", "failRun"} /\ start'.sent = start.sent
        /\ start'.ok = start.ok /\ start.pc # "done"
    BY <1>0, <1>1 DEF StartRun, DispatchRefused, StartAt, StartGo, TypeOK, StartLocals
  <2>. QED
    BY <1>0, <1>a, <1>b, <2>1 DEF StartHas, StartSent
<1>10. ASSUME StartRows PROVE StartHas' /\ StartSent'
  BY <1>0, <1>a, <1>b, <1>10
  DEF StartRows, StartAt, StartHas, StartSent, TypeOK, StartLocals
<1>7. ASSUME AllDispatched PROVE StartHas' /\ StartSent'
  BY <1>0, <1>a, <1>b, <1>7
  DEF AllDispatched, StartAt, StartHas, StartSent, TypeOK, StartLocals
<1>8. ASSUME NEW s \in Remote, Dispatch(s) PROVE StartHas' /\ StartSent'
  BY <1>0, <1>a, <1>b, <1>8
  DEF Dispatch, StartAt, StartHas, StartSent, TypeOK, StartLocals
<1>9. ASSUME MarkLocal PROVE StartHas' /\ StartSent'
  BY <1>0, <1>a, <1>b, <1>9
  DEF MarkLocal, StartAt, StartHas, StartSent, TypeOK, StartLocals
<1>2. ASSUME DispatchAccepted PROVE StartHas' /\ StartSent'
  <2>1. start.cur \in Remote /\ starts[start.cur] = 1
    BY <1>0, <1>2 DEF DispatchAccepted, StartAt, Positions, Accepted
  <2>. QED
    BY <1>0, <1>a, <1>b, <1>2, <2>1
    DEF DispatchAccepted, StartAt, StartHas, StartSent, TypeOK, StartLocals
<1>3. ASSUME FailRun PROVE StartHas' /\ StartSent'
  BY <1>0, <1>a, <1>b, <1>3
  DEF FailRun, StartAt, StartHas, StartSent, TypeOK, StartLocals
<1>4. ASSUME NEW s \in Local, StartLocal(s) PROVE StartHas' /\ StartSent'
  <2>1. starts'[s] = 1
    BY <1>0, <1>b, <1>4 DEF StartLocal, StartAt, Positions, TypeOK
  <2>. QED
    BY <1>0, <1>a, <1>b, <1>4, <2>1
    DEF StartLocal, StartAt, StartHas, StartSent, TypeOK, StartLocals
<1>11. ASSUME StartThrows PROVE StartHas' /\ StartSent'
  <2>1. \A s \in Dispatched : s \in Remote /\ starts[s] = 1
    BY <1>0 DEF Dispatched, StartSent, Accepted
  <2>2. start'.pc = "rollback" /\ start'.todo = Dispatched /\ start'.sent = Dispatched
    BY <1>0, <1>11 DEF StartThrows, TypeOK, StartLocals
  <2>. QED
    BY <1>a, <1>b, <2>1, <2>2 DEF StartHas, StartSent
<1>5. ASSUME RolledBack \/ \E s \in Remote : Rollback(s)
      PROVE  StartHas' /\ StartSent'
  BY <1>0, <1>a, <1>b, <1>5
  DEF Rollback, RolledBack, StartAt, StartHas, StartSent, TypeOK, StartLocals
<1>6. ASSUME StartFinish PROVE StartHas' /\ StartSent'
  BY <1>0, <1>a, <1>b, <1>6
  DEF StartFinish, StartAt, StartGo, StartHas, StartSent, TypeOK, StartLocals
<1>. QED
  BY <1>1, <1>2, <1>3, <1>4, <1>5, <1>6, <1>7, <1>8, <1>9, <1>10,
  <1>11 DEF StartStep

(* No other step touches the start. *)
LEMMA Others ==
  ASSUME [Next]_vars, ~(StartStep \/ StartThrows)
  PROVE  start' = start
BY DEF Next, vars, operator, owner, StopRequest, StopStep, StopMark, StopLocal, StopRemote,
   StopAnswered, StopAsk, OwnerStep, ReadStart, FinishStart, ReadStop, FinishStop, RelayStep,
   AckTimeout, RefuseStart, LoseRequest, AgentStep, ExecStart, ExecStop, End, OperatorStep,
   Receive, WriteRun, Progress, Ended

LEMMA Knows ==
  ASSUME Inv, StopInv, [Next]_vars
  PROVE  StartHas' /\ StartSent'
<1>1. CASE StartStep \/ StartThrows
  BY <1>1, StartKnows
<1>2. CASE ~(StartStep \/ StartThrows)
  <2>1. start' = start
    BY <1>2, Others
  <2>2. \A s \in Segments : starts[s] = 1 => starts'[s] = 1
    BY StartsStay
  <2>. QED
    BY <2>1, <2>2 DEF StopInv, StartHas, StartSent, Segments
<1>. QED
  BY <1>1, <1>2

(* A stop that is early stays early, a start that has failed has failed. *)
LEMMA Timing ==
  ASSUME Inv, StopInv, [Next]_vars
  PROVE  StopWhen' /\ (stop.early => stop'.early) /\ (Unforced' => Unforced)
<1>0. StopWhen /\ stop \in StopLocals /\ start \in StartLocals
  BY DEF Inv, StopInv, TypeOK
<1>1. CASE StopRequest
  BY <1>0, <1>1 DEF StopRequest, StopAt, StartAt, StopWhen, Asked, Unforced, StopLocals
<1>2. CASE StopStep
  <2>1. start' = start /\ stop'.early = stop.early /\ stop.pc # "idle" /\ stop'.pc # "idle"
    BY <1>0, <1>2 DEF StopStep, StopMark, StopLocal, StopRemote, StopAnswered, StopAsk, StopAt,
       StopLocals
  <2>. QED
    BY <1>0, <2>1 DEF StopWhen, Asked, Unforced
<1>3. CASE StartStep \/ StartThrows
  <2>1. stop' = stop /\ start.pc # "done" /\ (start'.ok = start.ok \/ ~start'.ok)
    BY <1>0, <1>3 DEF StartStep, StartThrows, StartRun, StartRows, Dispatch, Rollback,
       DispatchAccepted, DispatchRefused, FailRun, AllDispatched, StartLocal, MarkLocal,
       RolledBack, StartFinish, StartAt, StartGo, StartLocals
  <2>. QED
    BY <1>0, <2>1 DEF StopWhen, Asked, Unforced, StartLocals
<1>4. CASE ~(StopRequest \/ StopStep \/ StartStep \/ StartThrows)
  <2>1. stop' = stop /\ start' = start
    BY <1>4 DEF Next, vars, operator, OwnerStep, ReadStart, FinishStart, ReadStop, FinishStop,
       RelayStep, AckTimeout, RefuseStart, LoseRequest, AgentStep, ExecStart, ExecStop, End,
       OperatorStep, Receive, WriteRun, Progress
  <2>. QED
    BY <1>0, <2>1 DEF StopWhen, Asked, Unforced
<1>. QED
  BY <1>1, <1>2, <1>3, <1>4

-----------------------------------------------------------------------------
(* The relay and the owners: a request to stop follows its job_start. *)

LEMMA RequestsNamed == Requests = {"start", "stop", "rollback"}
BY DEF Requests

(* A stop is asked for when every segment has its job_start. *)
LEMMA AllStarted ==
  ASSUME StopInv, Unforced, Asked, NEW s \in Segments
  PROVE  starts[s] = 1
BY DEF StopInv, StopWhen, StartHas, Unforced

LEMMA ForwardSends ==
  ASSUME TypeOK, NEW r \in Requests, NEW s \in Remote, Forward(r, s)
  PROVE  \A q \in Requests, x \in Remote : (q # r \/ x # s) => toOwner'[q][x] = toOwner[q][x]
<1>1. toOwner \in [Requests -> [Remote -> Nat]]
  BY DEF TypeOK
<1>2. toOwner' = toOwner \/ \E n \in {1, 2} : toOwner' = [toOwner EXCEPT ![r][s] = n]
  BY DEF Forward
<1>. QED
  BY <1>1, <1>2

LEMMA FollowsStay ==
  ASSUME Inv, StopInv, [Next]_vars, Unforced'
  PROVE  Follows'
<1>0. /\ TypeOK /\ Unforced /\ Follows /\ \A s \in Segments : starts[s] = 1 => starts'[s] = 1
      /\ Remote \subseteq Segments
  BY Timing, StartsStay DEF Inv, StopInv, Segments
<1>1. toOwner \in [Requests -> [Remote -> Nat]] /\ handling \in [Requests -> [Remote -> Nat]]
      /\ Requests = {"start", "stop", "rollback"}
  BY <1>0 DEF TypeOK, Requests
<1>2. ASSUME NEW x \in Remote, StopAsk(x) PROVE Follows'
  <2>1. Forward("stop", x) /\ handling' = handling /\ starts[x] = 1
    BY <1>0, <1>2, AllStarted DEF StopAsk, StopAt, Asked
  <2>. QED
    BY <1>0, <1>1, <2>1, ForwardSends DEF Follows
<1>3. ASSUME NEW x \in Remote, Rollback(x) PROVE Follows'
  <2>1. Forward("rollback", x) /\ handling' = handling /\ starts[x] = 1
    BY <1>0, <1>3 DEF Rollback, StartAt, StopInv, StartSent
  <2>. QED
    BY <1>0, <1>1, <2>1, ForwardSends DEF Follows
<1>4. ASSUME NEW x \in Remote, Dispatch(x) PROVE Follows'
  <2>1. Forward("start", x) /\ handling' = handling
    BY <1>4 DEF Dispatch
  <2>. QED
    BY <1>0, <1>1, <2>1, ForwardSends DEF Follows
<1>5. ASSUME NEW x \in Remote, NEW r \in Requests, NEW f, NEW g,
             f \in [Requests -> [Remote -> Nat]], f[r][x] > 0, g = [f EXCEPT ![r][x] = @ - 1]
      PROVE  \A q \in Requests, y \in Remote : g[q][y] > 0 => f[q][y] > 0
  BY <1>5
<1>6. ASSUME NEW x \in Remote, NEW r \in Requests, LoseRequest(r, x) \/ FinishStop(r, x)
      PROVE  Follows'
  <2>1. \A q \in Requests, y \in Remote :
          /\ toOwner'[q][y] > 0 => toOwner[q][y] > 0
          /\ handling'[q][y] > 0 => handling[q][y] > 0
    BY <1>1, <1>5, <1>6 DEF LoseRequest, FinishStop
  <2>2. toOwner' \in [Requests -> [Remote -> Nat]] /\ handling' \in [Requests -> [Remote -> Nat]]
    BY InvStep DEF Inv, TypeOK
  <2>. QED
    BY <1>0, <1>1, <2>1, <2>2 DEF Follows
<1>7. ASSUME NEW x \in Remote, ReadStart(x) \/ FinishStart(x) \/ RefuseStart(x)
      PROVE  Follows'
  <2>1. \A q \in {"stop", "rollback"}, y \in Remote :
          toOwner'[q][y] = toOwner[q][y] /\ handling'[q][y] = handling[q][y]
    BY <1>1, <1>7 DEF ReadStart, Arrive, FinishStart, RefuseStart
  <2>. QED
    BY <1>0, <1>1, <2>1 DEF Follows
<1>8. ASSUME NEW x \in Remote, NEW r \in Requests, ReadStop(r, x) PROVE Follows'
  <2>1. /\ toOwner[r][x] > 0 /\ toOwner' = [toOwner EXCEPT ![r][x] = @ - 1]
        /\ handling' = handling \/ handling' = [handling EXCEPT ![r][x] = @ + 1]
    BY <1>8 DEF ReadStop, Arrive
  <2>2. \A q \in Requests, y \in Remote :
          toOwner'[q][y] + handling'[q][y] > 0 => toOwner[q][y] + handling[q][y] > 0
    BY <1>1, <2>1
  <2>. QED
    BY <1>0, <1>1, <2>2 DEF Follows
<1>9. ASSUME UNCHANGED << toOwner, handling >> PROVE Follows'
  BY <1>0, <1>9 DEF Follows
<1>10. ASSUME \/ UNCHANGED vars \/ StopRequest \/ OperatorStep \/ StartThrows
              \/ \E x \in Remote : RelayStep(x)
              \/ \E x \in Segments : AgentStep(x) \/ End(x)
              \/ StartStep /\ ~(\E x \in Remote : Dispatch(x) \/ Rollback(x))
              \/ StopStep /\ ~(\E x \in Remote : StopAsk(x))
       PROVE  UNCHANGED << toOwner, handling >>
  BY <1>10 DEF vars, StopRequest, OperatorStep, Receive, WriteRun, Progress, StartThrows, RelayStep,
     AckTimeout, AgentStep, ExecStart, ExecStop, End, StartStep, StartRun, StartRows,
     DispatchAccepted, DispatchRefused, FailRun, AllDispatched, StartLocal, MarkLocal, RolledBack,
     StartFinish, StopStep, StopMark, StopLocal, StopRemote, StopAnswered
<1>. QED
  BY <1>2, <1>3, <1>4, <1>6, <1>7, <1>8, <1>9, <1>10, RequestsNamed DEF Next, OwnerStep

LEMMA AllBehind ==
  ASSUME Inv, StopInv, [Next]_vars, Unforced, NEW s \in Segments
  PROVE  Behind(s)'
<1>1. Follows /\ Behind(s)
  BY DEF StopInv
<1>2. ASSUME PostsStop(s) PROVE starts[s] = 1
  <2>1. CASE stop.pc = "local"
    BY <2>1, AllStarted DEF Asked
  <2>2. ASSUME s \in Remote, NEW r \in {"stop", "rollback"}, handling[r][s] > 0
        PROVE  starts[s] = 1
    <3>1. toOwner[r][s] \in Nat /\ handling[r][s] \in Nat
      BY <2>2 DEF Inv, TypeOK, Requests
    <3>2. toOwner[r][s] + handling[r][s] > 0
      BY <2>2, <3>1
    <3>. QED
      BY <1>1, <2>2, <3>2 DEF Follows
  <2>. QED
    BY <1>2, <2>1, <2>2 DEF PostsStop, StopDue
<1>. QED
  BY <1>1, <1>2, BehindStays

-----------------------------------------------------------------------------
(* The rows of the operator take what a message says, or become active, or *)
(* fail with the start.                                                    *)
LEMMA Rows ==
  ASSUME Inv, [Next]_vars, NEW s \in Segments
  PROVE  \/ seg'[s] \in {seg[s], "active"}
         \/ DispatchRefused /\ seg'[s] = "failed"
         \/ \E m \in toOperator : m.seg = s /\ seg'[s] = StatusOf(m.kind)
<1>0. seg \in [Segments -> SegStatus]
  BY DEF Inv, TypeOK
<1>1. ASSUME NEW m \in Messages, Receive(m)
      PROVE  seg'[s] = seg[s] \/ (m \in toOperator /\ m.seg = s /\ seg'[s] = StatusOf(m.kind))
  BY <1>0, <1>1 DEF Receive
<1>2. ASSUME \/ StartRows \/ StartThrows \/ DispatchAccepted \/ MarkLocal \/ StopMark
      PROVE  seg'[s] \in {seg[s], "active"}
  BY <1>0, <1>2 DEF StartRows, StartThrows, DispatchAccepted, MarkLocal, StopMark
<1>3. ASSUME DispatchRefused PROVE seg'[s] \in {seg[s], "failed"}
  BY <1>0, <1>3 DEF DispatchRefused
<1>4. ASSUME \/ UNCHANGED vars \/ StartRun \/ StopRequest
             \/ \E x \in Remote : Dispatch(x) \/ Rollback(x) \/ StopAsk(x)
             \/ FailRun \/ AllDispatched \/ RolledBack \/ StartFinish
             \/ \E x \in Local : StartLocal(x)
             \/ StopLocal \/ StopRemote \/ StopAnswered
             \/ \E x \in Remote : OwnerStep(x) \/ RelayStep(x) \/ RefuseStart(x)
             \/ \E x \in Remote, r \in Requests : LoseRequest(r, x)
             \/ \E x \in Segments : AgentStep(x) \/ End(x)
             \/ \E v \in Ended : WriteRun(v)
             \/ \E x \in Segments : Progress(x)
      PROVE  seg' = seg
  BY <1>4 DEF vars, operator, owner, StartRun, StopRequest, Dispatch, Rollback,
     StopAsk, FailRun, AllDispatched, RolledBack, StartFinish, StartLocal, StopLocal, StopRemote,
     StopAnswered, OwnerStep, ReadStart, FinishStart, ReadStop, FinishStop, RelayStep, AckTimeout,
     RefuseStart, LoseRequest, AgentStep, ExecStart, ExecStop, End, WriteRun, Progress
<1>. QED
  BY <1>1, <1>2, <1>3, <1>4 DEF Next, StartStep, StopStep, OperatorStep

LEMMA DeadKept ==
  ASSUME Inv, StopInv, [Next]_vars, Unforced
  PROVE  StoppedDead'
<1>0. StoppedDead /\ Inv' /\ toOperator \subseteq Messages /\ \A s \in Segments : Behind(s)
  BY InvStep DEF StopInv, Inv, TypeOK
<1>1. ASSUME NEW s \in Segments, seg'[s] = "stopped" PROVE Dead(s)'
  <2>1. Dead(s)
    BY <1>0, <1>1, Rows DEF StoppedDead
  <2>. QED
    BY <2>1, DeadStays
<1>2. ASSUME NEW m \in toOperator', StatusOf(m.kind) = "stopped" PROVE Dead(m.seg)'
  <2>1. CASE m \in toOperator
    <3>1. m.seg \in Segments /\ Dead(m.seg)
      BY <1>0, <1>2, <2>1 DEF Messages, StoppedDead
    <3>. QED
      BY <3>1, DeadStays
  <2>2. CASE m \notin toOperator
    <3>1. m.kind # "startError"
      BY <1>2 DEF StatusOf
    <3>. QED
      BY <1>0, <1>2, <2>2, <3>1, Told DEF Ended
  <2>. QED
    BY <2>1, <2>2
<1>. QED
  BY <1>1, <1>2 DEF StoppedDead

(* Only the handler of a message finds that a run has stopped. *)
LEMMA VerdictStopped ==
  ASSUME NEW seg1, Verdict(seg1) = "stopped"
  PROVE  \A s \in Segments : seg1[s] \in {"completed", "stopped"}
BY DEF Verdict, OneFailed, AllEnded, Ended

LEMMA RunFrom ==
  ASSUME [Next]_vars
  PROVE  /\ run' = "stopped" => run = "stopped" \/ "stopped" \in writing
         /\ "stopped" \in writing' =>
              "stopped" \in writing \/ Verdict(seg') = "stopped"
<1>1. ASSUME NEW m \in Messages, Receive(m)
      PROVE  /\ run' = run
             /\ "stopped" \in writing' => "stopped" \in writing \/ Verdict(seg') = "stopped"
  BY <1>1 DEF Receive
<1>2. ASSUME NEW v \in Ended, WriteRun(v)
      PROVE  run' = v /\ v \in writing /\ writing' \subseteq writing
  BY <1>2 DEF WriteRun
<1>4. ASSUME NEW s \in Segments, Progress(s) PROVE writing' = writing /\ run' = "running"
  BY <1>4 DEF Progress
<1>3. ASSUME [Next]_vars, ~OperatorStep
      PROVE  writing' = writing /\ run' \in {run, "queued", "running", "failed"}
  BY <1>3 DEF Next, vars, operator, owner, StartStep, StartRun, StartRows, Dispatch, Rollback,
     DispatchAccepted, DispatchRefused, FailRun, AllDispatched, StartLocal, MarkLocal, RolledBack,
     StartFinish, StartThrows, StopRequest, StopStep, StopMark, StopLocal, StopRemote,
     StopAnswered, StopAsk, OwnerStep, ReadStart, FinishStart, ReadStop, FinishStop, RelayStep,
     AckTimeout, RefuseStart, LoseRequest, AgentStep, ExecStart, ExecStop, End
<1>. QED
  BY <1>1, <1>2, <1>3, <1>4 DEF OperatorStep

LEMMA RunKept ==
  ASSUME Inv, StopInv, [Next]_vars
  PROVE  StoppedRun'
<1>. SUFFICES ASSUME Unforced', "stopped" \in writing' \/ run' = "stopped",
                     NEW s \in Segments
              PROVE  Dead(s)'
  BY DEF StoppedRun
<1>1. Unforced
  BY Timing
<1>2. CASE "stopped" \in writing \/ run = "stopped"
  <2>1. Dead(s)
    BY <1>1, <1>2 DEF StopInv, StoppedRun
  <2>. QED
    BY <2>1, DeadStays
<1>3. CASE Verdict(seg') = "stopped"
  <2>1. StoppedDead' /\ Inv'
    BY <1>1, DeadKept, InvStep
  <2>2. CASE seg'[s] = "stopped"
    BY <2>1, <2>2 DEF StoppedDead
  <2>3. CASE seg'[s] = "completed"
    <3>1. rt'[s] \in Ended
      BY <2>1, <2>3 DEF Inv, Completed, Ended
    <3>. QED
      BY <2>1, <3>1, DeadFreshNext
  <2>. QED
    BY <1>3, <2>2, <2>3, VerdictStopped
<1>. QED
  BY <1>2, <1>3, RunFrom

-----------------------------------------------------------------------------
(* The invariant and the theorem. *)

LEMMA StopInit == Init => StopInv
BY DEF Init, StopInv, StartHas, StartSent, StopWhen, StoppedRun, Unforced, Asked, Follows,
   StoppedDead, Behind, Requests

LEMMA StopInvStep == Inv /\ StopInv /\ [Next]_vars => StopInv'
<1>. SUFFICES ASSUME Inv, StopInv, [Next]_vars PROVE StopInv'
  OBVIOUS
<1>1. StartHas' /\ StartSent' /\ StopWhen' /\ StoppedRun' /\ (Unforced' => Unforced)
  BY Knows, Timing, RunKept
<1>2. Unforced' => Follows' /\ StoppedDead' /\ \A s \in Segments : Behind(s)'
  BY <1>1, FollowsStay, DeadKept, AllBehind
<1>. QED
  BY <1>1, <1>2 DEF StopInv

LEMMA SpecStopInv == Spec => [](Inv /\ StopInv)
BY InvInit, InvStep, StopInit, StopInvStep, PTL DEF Spec

(* A run that started well and is reported stopped, after a stop that did  *)
(* not come early, neither runs nor is going to run on any account,        *)
(* whatever was lost or came late, and although the events of its steps    *)
(* set the run to running again and again.                                 *)
THEOREM StoppedIsTrue == Spec => []StoppedEverywhere
<1>1. StopInv => StoppedEverywhere
  BY DEF StopInv, StoppedRun, Unforced, StoppedEverywhere, StoppedMeansStopped, Dead
<1>. QED
  BY SpecStopInv, <1>1, PTL

-----------------------------------------------------------------------------
(* The second argument: a stop reaches every segment, as long as nothing   *)
(* fails.  Then the start goes well, each request is answered, and a       *)
(* segment the stop passes over, or that answers it without a job_stop, is *)
(* dead.                                                                   *)

Calm == faults = 0 /\ ~stop.early

(* A job_stop is the last command for a segment that may still run. *)
Last(s) == queue[s] # << >> /\ queue[s][Len(queue[s])] = "stop"
Settled(s) == Dead(s) \/ Last(s)

OwnerKnows(s) ==
  /\ starts[s] > 0 \/ handling["start"][s] > 0 => own[s] # "none"
  /\ own[s] \in Ended => Dead(s)
  /\ toOwner["rollback"][s] = 0 /\ handling["rollback"][s] = 0

Answered(s) ==
  /\ \A r \in {"start", "stop"} :
       /\ ack[r][s] # "refused"
       /\ ack[r][s] = "waiting" => toOwner[r][s] > 0 \/ handling[r][s] > 0
  /\ ack["stop"][s] = "ok" \/ stops[s] > 0 => Settled(s)

EndsTrue ==
  /\ \A s \in Segments : seg[s] \in Ended => Dead(s)
  /\ \A m \in toOperator : StatusOf(m.kind) \in Ended => Dead(m.seg)

StartWell == start.ok /\ start.pc \notin {"failRun", "rollback", "rollbackWait"}

(* What the stop has settled at each position. *)
StopHas ==
  /\ stop.pc \in {"mark", "local"} => \A s \in Segments : s \in stop.found \/ Dead(s)
  /\ stop.pc \in {"remote", "ask", "wait", "done"} => \A s \in Local : Settled(s)
  /\ \A s \in Remote :
       /\ stop.pc = "ask" => s \in stop.todo \/ Settled(s)
       /\ stop.pc = "wait" => s \in stop.todo \/ s = stop.cur \/ Settled(s)
       /\ stop.pc = "done" => Settled(s)

RowsExist == start.pc \notin {"idle", "rows"} => \A s \in Segments : seg[s] # "none"

CalmInv ==
  /\ StartWell /\ RowsExist /\ EndsTrue /\ StopHas
  /\ \A s \in Remote : OwnerKnows(s) /\ Answered(s)

ReachInv == Calm => CalmInv

LEMMA SettledStays ==
  ASSUME Inv, [Next]_vars, NEW s \in Segments, Behind(s), Settled(s)
  PROVE  Settled(s)'
<1>1. Work(s) /\ queue[s] \in Seq({"start", "stop"})
  BY Works DEF Inv, TypeOK
<1>2. CASE Dead(s)
  BY <1>2, DeadStays DEF Settled
<1>3. CASE Last(s)
  <2>1. Len(queue[s]) \in 1..Len(queue[s]) /\ starts[s] = 1
    BY <1>1, <1>3 DEF Last, Behind
  <2>2. CASE Rests(s) \/ Stops(s)
    BY <1>3, <2>2 DEF Rests, Stops, Last, Settled
  <2>3. CASE PostsStart(s)
    BY <2>1, <2>3 DEF PostsStart
  <2>4. CASE PostsStop(s)
    BY <1>1, <2>4 DEF PostsStop, Last, Settled
  <2>5. CASE Executes(s, "start")
    <3>1. Len(queue[s]) > 1 /\ Len(queue[s]) \in Nat
      BY <1>1, <1>3, <2>1, <2>5 DEF Executes, Last
    <3>2. Len(queue'[s]) = Len(queue[s]) - 1 /\ queue'[s][Len(queue[s]) - 1] = queue[s][Len(queue[s])]
      BY <1>1, <2>5, <3>1 DEF Executes
    <3>. QED
      BY <1>3, <3>1, <3>2 DEF Last, Settled
  <2>6. CASE Executes(s, "stop")
    BY <2>6, StopKills DEF Settled
  <2>. QED
    BY <1>1, <2>2, <2>3, <2>4, <2>5, <2>6 DEF Work, Commands
<1>. QED
  BY <1>2, <1>3 DEF Settled

(* Faults are counted, and an early stop stays early. *)
LEMMA CalmBefore ==
  ASSUME Inv, StopInv, [Next]_vars, Calm'
  PROVE  Calm /\ faults' = faults
<1>1. faults \in Nat /\ ~stop.early
  BY Timing, SharedSegmentsAssumption DEF Inv, TypeOK, Calm, SharedSegmentsAssumption
<1>2. faults' = faults \/ faults' = faults + 1
  BY <1>1 DEF Next, vars, operator, owner, NoFault, Fault, Forward, Answer, Report, StartStep,
     StartRun, StartRows, Dispatch, Rollback, DispatchAccepted, DispatchRefused, FailRun,
     AllDispatched, StartLocal, MarkLocal, RolledBack, StartFinish, StartThrows, StopRequest,
     StopStep, StopMark, StopLocal, StopRemote, StopAnswered, StopAsk, OwnerStep, ReadStart,
     FinishStart, ReadStop, FinishStop, RelayStep, AckTimeout, RefuseStart, LoseRequest,
     AgentStep, ExecStart, ExecStop, End, OperatorStep, Receive, WriteRun, Progress
<1>. QED
  BY <1>1, <1>2 DEF Calm

LEMMA CalmGives ==
  ASSUME Inv, StopInv, ReachInv, [Next]_vars, Calm'
  PROVE  /\ Calm /\ CalmInv /\ Unforced /\ Follows /\ NoFault /\ ~Fault
         /\ \A s \in Segments : Behind(s)
<1>1. Calm /\ CalmInv /\ faults' = faults /\ faults = 0
  BY CalmBefore DEF ReachInv, Calm
<1>2. Unforced
  BY <1>1 DEF CalmInv, StartWell, Unforced, Calm
<1>. QED
  BY <1>1, <1>2 DEF StopInv, NoFault, Fault

LEMMA StatusSome ==
  ASSUME NEW kind \in Kinds
  PROVE  StatusOf(kind) \in {"active"} \cup Ended
BY DEF Kinds, StatusOf, Ended

LEMMA RowsStay ==
  ASSUME Inv, StopInv, ReachInv, [Next]_vars, Calm'
  PROVE  RowsExist'
<1>0. RowsExist /\ ~StartThrows
  BY CalmGives DEF CalmInv, StartThrows
<1>1. CASE StartRows
  BY <1>1 DEF StartRows, RowsExist, Segments
<1>2. CASE ~StartRows
  <2>1. start'.pc \notin {"idle", "rows"} => start.pc \notin {"idle", "rows"}
    BY <1>0, <1>2 DEF Inv, TypeOK, StartLocals, Next, vars, operator, StartStep, StartRun, Dispatch,
       Rollback, DispatchAccepted, DispatchRefused, FailRun, AllDispatched, StartLocal, MarkLocal,
       RolledBack, StartFinish, StartAt, StartGo, StopRequest, StopStep, StopMark,
       StopLocal, StopRemote, StopAnswered, StopAsk, OwnerStep, ReadStart, FinishStart, ReadStop,
       FinishStop, RelayStep, AckTimeout, RefuseStart, LoseRequest, AgentStep, ExecStart, ExecStop,
       End, OperatorStep, Receive, WriteRun, Progress
  <2>2. ASSUME NEW s \in Segments, seg[s] # "none" PROVE seg'[s] # "none"
    <3>1. \A m \in toOperator : m.kind \in Kinds
      BY DEF Inv, TypeOK, Messages
    <3>. QED
      BY <2>2, <3>1, Rows, StatusSome DEF Ended
  <2>. QED
    BY <1>0, <2>1, <2>2 DEF RowsExist
<1>. QED
  BY <1>1, <1>2

LEMMA WellStays ==
  ASSUME Inv, StopInv, ReachInv, [Next]_vars, Calm'
  PROVE  StartWell' /\ ~DispatchRefused
<1>0. StartWell /\ ~Fault /\ \A s \in Remote : ack["start"][s] # "refused"
  BY CalmGives DEF CalmInv, Answered
<1>1. ~DispatchRefused /\ ~StartThrows /\ ~FailRun /\ ~RolledBack
  BY <1>0 DEF DispatchRefused, StartThrows, FailRun, RolledBack, StartAt, StartWell, Inv, Positions
<1>2. ASSUME \/ StartRun \/ StartRows \/ \E s \in Remote : Dispatch(s)
             \/ DispatchAccepted \/ AllDispatched \/ \E s \in Local : StartLocal(s)
             \/ MarkLocal \/ StartFinish
      PROVE  /\ start'.ok = start.ok
             /\ start'.pc \in {"rows", "dispatch", "wait", "locals", "markLocal", "event", "done"}
  BY <1>2 DEF StartRun, StartRows, Dispatch, DispatchAccepted, AllDispatched, StartLocal, MarkLocal,
     StartFinish, StartGo, Inv, TypeOK, StartLocals
<1>3. ASSUME NEW s \in Remote, Rollback(s) PROVE FALSE
  BY <1>0, <1>3 DEF Rollback, StartAt, StartWell
<1>4. CASE StartStep \/ StartThrows
  BY <1>0, <1>1, <1>2, <1>3, <1>4 DEF StartStep, StartWell
<1>5. CASE ~(StartStep \/ StartThrows)
  BY <1>0, <1>1, <1>5, Others DEF StartWell
<1>. QED
  BY <1>1, <1>4, <1>5

LEMMA EndsStay ==
  ASSUME Inv, StopInv, ReachInv, [Next]_vars, Calm'
  PROVE  EndsTrue'
<1>0. /\ EndsTrue /\ ~DispatchRefused /\ Inv' /\ faults' = 0 /\ \A s \in Segments : Behind(s)
      /\ toOperator \subseteq Messages
  BY CalmGives, WellStays, InvStep DEF CalmInv, Calm, Inv, TypeOK
<1>1. ASSUME NEW s \in Segments, seg'[s] \in Ended PROVE Dead(s)'
  <2>1. Dead(s)
    BY <1>0, <1>1, Rows DEF EndsTrue, Ended
  <2>. QED
    BY <2>1, DeadStays
<1>2. ASSUME NEW m \in toOperator', StatusOf(m.kind) \in Ended PROVE Dead(m.seg)'
  <2>1. CASE m \in toOperator
    <3>1. m.seg \in Segments /\ Dead(m.seg)
      BY <1>0, <1>2, <2>1 DEF Messages, EndsTrue
    <3>. QED
      BY <3>1, DeadStays
  <2>2. CASE m \notin toOperator
    BY <1>0, <1>2, <2>2, Told
  <2>. QED
    BY <2>1, <2>2
<1>. QED
  BY <1>1, <1>2 DEF EndsTrue

(* Steps that leave alone what is between the relay and an owner. *)
LEMMA Unasked ==
  ASSUME Inv, StopInv, ReachInv, [Next]_vars, Calm', NEW s \in Remote,
         UNCHANGED << ack, toOwner, handling >>, starts'[s] = starts[s], stops'[s] = stops[s],
         own'[s] = own[s] \/ (own'[s] # "none" /\ (own'[s] \in Ended => Dead(s)'))
  PROVE  OwnerKnows(s)' /\ Answered(s)'
<1>1. OwnerKnows(s) /\ Answered(s) /\ Behind(s) /\ s \in Segments
  BY CalmGives DEF CalmInv, Segments
<1>2. (Dead(s) => Dead(s)') /\ (Settled(s) => Settled(s)')
  BY <1>1, DeadStays, SettledStays
<1>3. OwnerKnows(s)'
  BY <1>1, <1>2 DEF OwnerKnows
<1>4. Answered(s)'
  BY <1>1, <1>2 DEF Answered
<1>. QED
  BY <1>3, <1>4

LEMMA OperatorAsks ==
  ASSUME Inv, StopInv, ReachInv, [Next]_vars, Calm', NEW s \in Remote,
         \/ UNCHANGED vars \/ StartStep \/ StartThrows \/ StopRequest \/ StopStep \/ OperatorStep
  PROVE  OwnerKnows(s)' /\ Answered(s)'
<1>0. /\ StartWell /\ NoFault /\ ~Fault /\ OwnerKnows(s) /\ Answered(s) /\ Behind(s)
      /\ s \in Segments /\ s \notin Local
  BY CalmGives, SharedSegmentsAssumption DEF CalmInv, Segments, SharedSegmentsAssumption
<1>a. (Dead(s) => Dead(s)') /\ (Settled(s) => Settled(s)')
  BY <1>0, DeadStays, SettledStays
<1>t. /\ ack \in [Requests -> [Remote -> Outcomes]] /\ toOwner \in [Requests -> [Remote -> Nat]]
      /\ handling \in [Requests -> [Remote -> Nat]] /\ Requests = {"start", "stop", "rollback"}
      /\ starts \in [Segments -> Nat] /\ stops \in [Segments -> Nat]
  BY DEF Inv, TypeOK, Requests
<1>1. ASSUME NEW r \in {"start", "stop"}, NEW x \in Remote, Forward(r, x),
             UNCHANGED << handling, owner >>
      PROVE  OwnerKnows(s)' /\ Answered(s)'
  <2>1. /\ ack' = [ack EXCEPT ![r][x] = "waiting"]
        /\ toOwner' = [toOwner EXCEPT ![r][x] = 1]
    BY <1>0, <1>1 DEF Forward
  <2>. QED
    BY <1>0, <1>a, <1>t, <1>1, <2>1 DEF OwnerKnows, Answered, owner
<1>2. ASSUME NEW x \in Remote, Dispatch(x) \/ StopAsk(x) PROVE OwnerKnows(s)' /\ Answered(s)'
  <2>1. CASE Dispatch(x)
    BY <1>1, <2>1 DEF Dispatch
  <2>2. CASE StopAsk(x)
    BY <1>1, <2>2 DEF StopAsk
  <2>. QED
    BY <1>2, <2>1, <2>2
<1>3. ASSUME NEW x \in Remote, Rollback(x) PROVE FALSE
  BY <1>0, <1>3 DEF Rollback, StartAt, StartWell
<1>4. ASSUME NEW x \in Local, StartLocal(x) PROVE OwnerKnows(s)' /\ Answered(s)'
  <2>1. UNCHANGED << ack, toOwner, handling, own, stops >> /\ starts'[s] = starts[s]
    BY <1>0, <1>t, <1>4 DEF StartLocal
  <2>. QED
    BY <2>1, Unasked
<1>5. ASSUME StopLocal PROVE OwnerKnows(s)' /\ Answered(s)'
  <2>1. /\ UNCHANGED << ack, toOwner, handling, own, starts >>
        /\ \E told \in SUBSET Local :
             stops' = [x \in Segments |-> stops[x] + IF x \in told THEN 1 ELSE 0]
    BY <1>5 DEF StopLocal
  <2>2. stops'[s] = stops[s]
    BY <1>0, <1>t, <2>1
  <2>. QED
    BY <2>1, <2>2, Unasked
<1>6. ASSUME \/ UNCHANGED vars \/ StartRun \/ StartRows \/ DispatchAccepted \/ DispatchRefused
             \/ FailRun \/ AllDispatched \/ MarkLocal \/ RolledBack \/ StartFinish \/ StartThrows
             \/ StopRequest \/ StopMark \/ StopRemote \/ StopAnswered \/ OperatorStep
      PROVE  OwnerKnows(s)' /\ Answered(s)'
  <2>1. UNCHANGED << ack, toOwner, handling, own, starts, stops >>
    BY <1>6 DEF vars, owner, StartRun, StartRows, DispatchAccepted, DispatchRefused, FailRun,
       AllDispatched, MarkLocal, RolledBack, StartFinish, StartThrows, StopRequest, StopMark,
       StopRemote, StopAnswered, OperatorStep, Receive, WriteRun, Progress
  <2>. QED
    BY <2>1, Unasked
<1>. QED
  BY <1>2, <1>3, <1>4, <1>5, <1>6 DEF StartStep, StopStep

(* Without faults an owner answers what it has been asked, and only the    *)
(* answer to a dead segment comes without a job_stop.                      *)
LEMMA OwnerAnswers ==
  ASSUME Inv, StopInv, ReachInv, [Next]_vars, Calm', NEW s \in Remote, NEW x \in Remote,
         OwnerStep(x) \/ RelayStep(x) \/ RefuseStart(x) \/ \E r \in Requests : LoseRequest(r, x)
  PROVE  OwnerKnows(s)' /\ Answered(s)'
<1>0. /\ NoFault /\ ~Fault /\ Follows /\ Behind(s) /\ s \in Segments /\ x \in Segments
      /\ \A y \in Remote : OwnerKnows(y) /\ Answered(y)
  BY CalmGives DEF CalmInv, Segments
<1>a. (Dead(s) => Dead(s)') /\ (Settled(s) => Settled(s)')
  BY <1>0, DeadStays, SettledStays
<1>t. /\ ack \in [Requests -> [Remote -> Outcomes]] /\ toOwner \in [Requests -> [Remote -> Nat]]
      /\ handling \in [Requests -> [Remote -> Nat]] /\ Requests = {"start", "stop", "rollback"}
      /\ own \in [Remote -> SegStatus]
      /\ starts \in [Segments -> Nat] /\ stops \in [Segments -> Nat]
  BY DEF Inv, TypeOK, Requests
<1>b. ASSUME NEW r \in Requests, NEW outcome, NEW msgs, Answer(r, x, outcome, msgs)
      PROVE  ack' = [ack EXCEPT ![r][x] = IF @ = "waiting" THEN outcome ELSE @]
  BY <1>0, <1>b DEF Answer, Settle
<1>1. ASSUME NEW r \in Requests, AckTimeout(r, x) PROVE OwnerKnows(s)' /\ Answered(s)'
  <2>1. /\ ack[r][x] = "waiting" /\ ack' = [ack EXCEPT ![r][x] = "refused"]
        /\ ~(toOwner[r][x] + handling[r][x] > 0)
        /\ UNCHANGED << toOwner, handling, own, starts, stops, rt, queue >>
    BY <1>0, <1>1 DEF AckTimeout, owner
  <2>2. r = "rollback"
    BY <1>0, <1>t, <2>1 DEF Answered
  <2>. QED
    BY <1>0, <1>a, <1>t, <2>1, <2>2 DEF OwnerKnows, Answered
<1>2. ASSUME NEW r \in Requests, LoseRequest(r, x) \/ RefuseStart(x) PROVE FALSE
  BY <1>0, <1>2 DEF LoseRequest, RefuseStart
<1>3. ASSUME ReadStart(x) PROVE OwnerKnows(s)' /\ Answered(s)'
  <2>1. /\ toOwner' = [toOwner EXCEPT !["start"][x] = @ - 1]
        /\ own' = [own EXCEPT ![x] = IF @ = "none" THEN "active" ELSE @]
        /\ UNCHANGED << starts, stops >>
    BY <1>3 DEF ReadStart, Arrive
  <2>2. \/ handling' = handling /\ ack' = [ack EXCEPT !["start"][x] = IF @ = "waiting" THEN "ok" ELSE @]
        \/ handling' = [handling EXCEPT !["start"][x] = @ + 1] /\ ack' = ack
    BY <1>b, <1>t, <1>3 DEF ReadStart
  <2>3. OwnerKnows(s)'
    <3>1. own'[s] # "none" <=> own[s] # "none" \/ s = x
      BY <1>t, <2>1
    <3>2. own'[s] \in Ended => own[s] \in Ended
      BY <1>t, <2>1 DEF Ended
    <3>3. toOwner'["rollback"][s] = toOwner["rollback"][s] /\ handling'["rollback"][s] = handling["rollback"][s]
          /\ (s # x => handling'["start"][s] = handling["start"][s])
      BY <1>t, <2>1, <2>2
    <3>. QED
      BY <1>0, <1>a, <2>1, <3>1, <3>2, <3>3 DEF OwnerKnows
  <2>4. Answered(s)'
    <3>1. /\ ack'["stop"] = ack["stop"] /\ toOwner'["stop"] = toOwner["stop"]
          /\ handling'["stop"] = handling["stop"]
      BY <1>t, <2>1, <2>2
    <3>2. CASE s = x
      BY <1>0, <1>a, <1>t, <2>1, <2>2, <3>1, <3>2 DEF Answered
    <3>3. CASE s # x
      BY <1>0, <1>a, <1>t, <2>1, <2>2, <3>1, <3>3 DEF Answered
    <3>. QED
      BY <3>2, <3>3
  <2>. QED
    BY <2>3, <2>4
<1>4. ASSUME FinishStart(x) PROVE OwnerKnows(s)' /\ Answered(s)'
  <2>1. /\ handling["start"][x] > 0 /\ handling' = [handling EXCEPT !["start"][x] = @ - 1]
        /\ ack' = [ack EXCEPT !["start"][x] = IF @ = "waiting" THEN "ok" ELSE @]
        /\ UNCHANGED << toOwner, own, stops >>
        /\ \A y \in Segments : y # x => starts'[y] = starts[y]
    BY <1>b, <1>t, <1>4 DEF FinishStart, InsertOnce
  <2>2. CASE s = x
    BY <1>0, <1>a, <1>t, <2>1, <2>2 DEF OwnerKnows, Answered
  <2>3. CASE s # x
    BY <1>0, <1>a, <1>t, <2>1, <2>3 DEF OwnerKnows, Answered
  <2>. QED
    BY <2>2, <2>3
<1>5. ASSUME NEW r \in Requests, ReadStop(r, x) PROVE OwnerKnows(s)' /\ Answered(s)'
  <2>1. /\ toOwner[r][x] > 0 /\ toOwner' = [toOwner EXCEPT ![r][x] = @ - 1]
        /\ UNCHANGED << own, starts, stops >> /\ r # "start"
    BY <1>5 DEF ReadStop, Arrive, owner
  <2>2. r = "stop"
    BY <1>0, <1>t, <2>1 DEF OwnerKnows
  <2>3. starts[x] = 1
    <3>1. toOwner["stop"][x] + handling["stop"][x] > 0
      BY <1>t, <2>1, <2>2
    <3>. QED
      BY <1>0, <3>1 DEF Follows
  <2>4. own[x] # "none"
    BY <1>0, <2>3 DEF OwnerKnows
  <2>5. \/ /\ own[x] \in Ended /\ handling' = handling
           /\ ack' = [ack EXCEPT !["stop"][x] = IF @ = "waiting" THEN "ok" ELSE @]
        \/ handling' = [handling EXCEPT !["stop"][x] = @ + 1] /\ ack' = ack
    BY <1>b, <1>t, <1>5, <2>2, <2>4 DEF ReadStop
  <2>6. own[x] \in Ended => Settled(x)
    BY <1>0 DEF OwnerKnows, Settled
  <2>7. CASE s = x
    BY <1>0, <1>a, <1>t, <2>1, <2>2, <2>5, <2>6, <2>7 DEF OwnerKnows, Answered
  <2>8. CASE s # x
    BY <1>0, <1>a, <1>t, <2>1, <2>2, <2>5, <2>8 DEF OwnerKnows, Answered
  <2>. QED
    BY <2>7, <2>8
<1>6. ASSUME NEW r \in Requests, FinishStop(r, x) PROVE OwnerKnows(s)' /\ Answered(s)'
  <2>1. /\ handling[r][x] > 0 /\ handling' = [handling EXCEPT ![r][x] = @ - 1]
        /\ ack' = [ack EXCEPT ![r][x] = IF @ = "waiting" THEN "ok" ELSE @]
        /\ own' = [own EXCEPT ![x] = "active"]
        /\ UNCHANGED << toOwner, starts >> /\ r # "start"
        /\ InsertOnce(x, stops, "stop")
    BY <1>b, <1>t, <1>6 DEF FinishStop
  <2>2. r = "stop"
    BY <1>0, <1>t, <2>1 DEF OwnerKnows
  <2>3. Settled(x)'
    <3>1. CASE stops[x] = 0
      <4>1. queue[x] \in Seq({"start", "stop"}) /\ queue \in [Segments -> Seq({"start", "stop"})]
        BY <1>0 DEF Inv, TypeOK
      <4>2. queue'[x] = Append(queue[x], "stop")
        BY <1>0, <2>1, <3>1, <4>1 DEF InsertOnce
      <4>. QED
        BY <4>1, <4>2 DEF Settled, Last
    <3>2. CASE stops[x] # 0
      <4>1. Settled(x) /\ Behind(x)
        BY <1>0, <1>t, <3>2, CalmGives DEF Answered
      <4>. QED
        BY <1>0, <4>1, SettledStays
    <3>. QED
      BY <3>1, <3>2
  <2>4. \A y \in Segments : y # x => stops'[y] = stops[y]
    BY <1>t, <2>1 DEF InsertOnce
  <2>5. CASE s = x
    BY <1>0, <1>a, <1>t, <2>1, <2>2, <2>3, <2>5 DEF OwnerKnows, Answered, Ended
  <2>6. CASE s # x
    BY <1>0, <1>a, <1>t, <2>1, <2>2, <2>4, <2>6 DEF OwnerKnows, Answered
  <2>. QED
    BY <2>5, <2>6
<1>. QED
  BY <1>1, <1>2, <1>3, <1>4, <1>5, <1>6, RequestsNamed DEF OwnerStep, RelayStep

(* The row of an owner follows the reports of its agent. *)
LEMMA RowFollows ==
  ASSUME TypeOK, NoFault, ~Fault, NEW x \in Segments, NEW s \in Remote,
         NEW kinds \in SUBSET Kinds, Report(x, kinds)
  PROVE  \/ own'[s] = own[s]
         \/ s = x /\ \E k \in kinds \cap ({"running"} \cup Ended) : own'[s] = StatusOf(k)
<1>. DEFINE status == {StatusOf(k) : k \in kinds \cap ({"running"} \cup Ended)}
<1>1. own' = [y \in Remote |-> IF y = x /\ status # {} THEN CHOOSE k \in status : TRUE ELSE own[y]]
  BY DEF Report
<1>2. status # {} => (CHOOSE k \in status : TRUE) \in status
  OBVIOUS
<1>3. own'[s] = own[s] \/ (s = x /\ own'[s] \in status)
  <2>. HIDE DEF status
  <2>. QED
    BY <1>1, <1>2
<1>. QED
  BY <1>3

LEMMA AgentTells ==
  ASSUME Inv, StopInv, ReachInv, [Next]_vars, Calm', NEW s \in Remote, NEW x \in Segments,
         AgentStep(x) \/ End(x)
  PROVE  OwnerKnows(s)' /\ Answered(s)'
<1>0. /\ NoFault /\ ~Fault /\ TypeOK /\ Inv' /\ \A y \in Segments : Behind(y)
      /\ s \in Segments
  BY CalmGives, InvStep DEF Inv, Segments
<1>1. UNCHANGED << ack, toOwner, handling, starts, stops >>
  BY DEF AgentStep, ExecStart, ExecStop, End
<1>2. CASE ExecStart(x)
  <2>1. own' = own \/ \E kinds \in SUBSET {"running", "startFailed"} : Report(x, kinds)
    BY <1>2 DEF ExecStart
  <2>2. own'[s] = own[s] \/ own'[s] = "active"
    <3>1. ASSUME NEW kinds \in SUBSET {"running", "startFailed"}, Report(x, kinds)
          PROVE  own'[s] = own[s] \/ own'[s] = "active"
      <4>1. kinds \in SUBSET Kinds
        BY DEF Kinds
      <4>. QED
        BY <1>0, <3>1, <4>1, RowFollows DEF StatusOf, Ended
    <3>. QED
      BY <2>1, <3>1
  <2>. QED
    BY <1>1, <2>2, Unasked DEF Ended
<1>3. CASE ExecStop(x)
  <2>1. PICK kinds \in SUBSET {"stopped", "stopDone"} : Report(x, kinds)
    BY <1>3 DEF ExecStop
  <2>2. kinds \in SUBSET Kinds
    BY DEF Kinds, Ended
  <2>3. own'[s] = own[s] \/ (s = x /\ own'[s] = "stopped")
    BY <1>0, <2>1, <2>2, RowFollows DEF StatusOf, Ended
  <2>4. Executes(x, "stop")
    <3>1. /\ queue[x] # << >> /\ Head(queue[x]) = "stop"
          /\ queue' = [queue EXCEPT ![x] = Tail(@)]
          /\ rt' = [rt EXCEPT ![x] = IF @ = "running" THEN "stopped" ELSE @]
      BY <1>3 DEF ExecStop
    <3>. QED
      BY <1>0, <1>1, <3>1 DEF TypeOK, Executes
  <2>5. Dead(x)'
    BY <1>0, <2>4, StopKills
  <2>. QED
    BY <1>1, <2>3, <2>5, Unasked
<1>4. CASE End(x)
  <2>1. PICK e \in Ended : rt' = [rt EXCEPT ![x] = e] /\ Report(x, {e})
    BY <1>4 DEF End
  <2>2. own'[s] = own[s] \/ (s = x /\ own'[s] = e)
    <3>1. {e} \in SUBSET Kinds
      BY DEF Kinds
    <3>. QED
      BY <1>0, <2>1, <3>1, RowFollows DEF StatusOf, Ended
  <2>3. Dead(x)'
    BY <1>0, <2>1, DeadFreshNext DEF TypeOK
  <2>. QED
    BY <1>1, <2>2, <2>3, Unasked DEF Ended
<1>. QED
  BY <1>2, <1>3, <1>4 DEF AgentStep

LEMMA AllAnswered ==
  ASSUME Inv, StopInv, ReachInv, [Next]_vars, Calm', NEW s \in Remote
  PROVE  OwnerKnows(s)' /\ Answered(s)'
BY OperatorAsks, OwnerAnswers, AgentTells DEF Next

(* The stop goes from segment to segment, and settles each. *)
LEMMA StopGoesOn ==
  ASSUME Inv, StopInv, ReachInv, [Next]_vars, Calm'
  PROVE  StopHas'
<1>0. /\ StopHas /\ EndsTrue /\ RowsExist /\ Calm /\ StopWhen
      /\ \A s \in Remote : Answered(s)
      /\ Remote \subseteq Segments /\ Local \subseteq Segments
      /\ seg \in [Segments -> SegStatus] /\ stop \in StopLocals
  BY CalmGives DEF CalmInv, StopInv, Segments, Inv, TypeOK
<1>a. \A s \in Segments : (Dead(s) => Dead(s)') /\ (Settled(s) => Settled(s)')
  BY DeadStays, SettledStays, CalmGives
<1>b. \A s \in Segments : Dead(s) => Settled(s)
  BY DEF Settled
<1>c. start.pc = "done" => \A s \in Segments : s \in Active \/ Dead(s)
  BY <1>0 DEF RowsExist, EndsTrue, Active, SegStatus
<1>d. stop.pc # "idle" => start.pc = "done"
  BY <1>0 DEF StopWhen, Asked, Calm
<1>1. ASSUME StopRequest PROVE StopHas'
  <2>1. stop'.pc = "mark" /\ stop'.found = Active /\ start.pc = "done"
    BY <1>0, <1>1 DEF StopRequest, StopLocals, StartAt, Calm
  <2>. QED
    BY <1>a, <1>c, <2>1 DEF StopHas
<1>2. ASSUME StopMark PROVE StopHas'
  <2>1. stop.pc = "mark" /\ stop'.pc = "local" /\ stop'.found = stop.found
    BY <1>0, <1>2 DEF StopMark, StopAt, StopLocals
  <2>. QED
    BY <1>0, <1>a, <2>1 DEF StopHas
<1>3. ASSUME StopLocal PROVE StopHas'
  <2>1. /\ stop.pc = "local"
        /\ stop'.pc = IF stop.found \cap Remote = {} THEN "done" ELSE "remote"
    BY <1>0, <1>3 DEF StopLocal, StopAt, StopLocals
  <2>2. ASSUME NEW s \in Local PROVE Settled(s)'
    <3>1. CASE s \in stop.found \/ stop.found = {}
      <4>1. queue'[s] = Append(queue[s], "stop") /\ queue[s] \in Seq({"start", "stop"})
        BY <1>0, <1>3, <3>1 DEF StopLocal, Inv, TypeOK
      <4>. QED
        BY <4>1 DEF Settled, Last
    <3>2. CASE s \notin stop.found
      BY <1>0, <1>a, <1>b, <2>1, <3>2 DEF StopHas
    <3>. QED
      BY <3>1, <3>2
  <2>3. stop.found \cap Remote = {} => \A s \in Remote : Settled(s)'
    BY <1>0, <1>a, <1>b, <2>1 DEF StopHas
  <2>. QED
    BY <2>1, <2>2, <2>3 DEF StopHas
<1>4. ASSUME StopRemote PROVE StopHas'
  <2>1. /\ stop.pc = "remote" /\ stop'.pc = "ask"
        /\ stop'.todo = {s \in Remote : Active # {} /\ seg[s] # "none"}
    BY <1>0, <1>4 DEF StopRemote, StopAt, StopLocals
  <2>. QED
    BY <1>0, <1>a, <1>b, <1>c, <1>d, <2>1 DEF StopHas, RowsExist
<1>5. ASSUME NEW x \in Remote, StopAsk(x) PROVE StopHas'
  <2>1. /\ stop.pc = "ask" /\ stop'.pc = "wait" /\ stop'.cur = x
        /\ stop'.todo = stop.todo \ {x}
    BY <1>0, <1>5 DEF StopAsk, StopAt, StopLocals
  <2>. QED
    BY <1>0, <1>a, <2>1 DEF StopHas
<1>6. ASSUME StopAnswered PROVE StopHas'
  <2>1. CASE stop.pc = "wait"
    <3>1. /\ ack["stop"][stop.cur] \in {"ok", "refused"}
          /\ stop'.pc = "ask" /\ stop'.todo = stop.todo
      BY <1>0, <1>6, <2>1 DEF StopAnswered, StopAt, StopLocals
    <3>2. \A s \in Remote : s = stop.cur => Settled(s)
      BY <1>0, <3>1 DEF Answered
    <3>. QED
      BY <1>0, <1>a, <2>1, <3>1, <3>2 DEF StopHas
  <2>2. CASE stop.pc # "wait"
    <3>1. stop.pc = "ask" /\ stop.todo = {} /\ stop'.pc = "done"
      BY <1>0, <1>6, <2>2 DEF StopAnswered, StopAt, StopLocals
    <3>. QED
      BY <1>0, <1>a, <3>1 DEF StopHas
  <2>. QED
    BY <2>1, <2>2
<1>7. CASE ~(StopRequest \/ StopStep)
  <2>1. stop' = stop
    BY <1>7 DEF Next, vars, operator, StartStep, StartRun, StartRows, Dispatch,
       Rollback, DispatchAccepted, DispatchRefused, FailRun, AllDispatched, StartLocal, MarkLocal,
       RolledBack, StartFinish, StartThrows, OwnerStep, ReadStart, FinishStart, ReadStop,
       FinishStop, RelayStep, AckTimeout, RefuseStart, LoseRequest, AgentStep, ExecStart, ExecStop,
       End, OperatorStep, Receive, WriteRun, Progress
  <2>. QED
    BY <1>0, <1>a, <2>1 DEF StopHas
<1>. QED
  BY <1>1, <1>2, <1>3, <1>4, <1>5, <1>6, <1>7 DEF StopStep

LEMMA ReachInit == Init => ReachInv
<1>. SUFFICES ASSUME Init PROVE ReachInv
  OBVIOUS
<1>1. RowsExist /\ StartWell /\ EndsTrue
  BY DEF Init, RowsExist, StartWell, EndsTrue, Ended
<1>2. StopHas
  BY DEF Init, StopHas
<1>3. \A s \in Remote : OwnerKnows(s) /\ Answered(s)
  BY DEF Init, OwnerKnows, Answered, Requests, Ended, Segments
<1>. QED
  BY <1>1, <1>2, <1>3 DEF ReachInv, CalmInv

LEMMA ReachStep == Inv /\ StopInv /\ ReachInv /\ [Next]_vars => ReachInv'
<1>. SUFFICES ASSUME Inv, StopInv, ReachInv, [Next]_vars, Calm' PROVE CalmInv'
  BY DEF ReachInv
<1>. QED
  BY WellStays, RowsStay, EndsStay, StopGoesOn, AllAnswered DEF CalmInv

LEMMA SpecReachInv == Spec => []ReachInv
BY InvInit, InvStep, StopInit, StopInvStep, ReachInit, ReachStep, PTL DEF Spec

(* A stop that comes after the start reaches every segment on every        *)
(* account as long as nothing fails: when stopRemoteSegments is over,      *)
(* whatever may still run has a job_stop behind it.                        *)
THEOREM StopReachesAll == Spec => []StopReaches
<1>1. ReachInv => StopReaches
  BY DEF ReachInv, CalmInv, Calm, StopHas, Settled, Dead, Last, StopReaches, Segments
<1>. QED
  BY SpecReachInv, <1>1, PTL
=============================================================================
