------------------------------ MODULE JobSteps ------------------------------
(***************************************************************************)
(* One job on the Windows agent, from the segment it is given to the event *)
(* that ends it: the thread of the job (runJob_), which starts its steps   *)
(* when their start conditions hold and finalizes them at their deadlines, *)
(* and the workers of its running steps, one per target camera.            *)
(*                                                                         *)
(* The workers share the answers of the steps, the custom triggers and the *)
(* cancel flags with the job thread.  An answer is its sentiment; a clock  *)
(* reading is what it decides: whether the delay of a step is over, and    *)
(* how much of its window a running step has left.                         *)
(***************************************************************************)
EXTENDS Naturals

CONSTANTS
  Steps, Cameras,
  Definitions,    \* the jobs: step -> its JobStepDef
  Segments,       \* the sets of cameras a segment may be built for
  Window,         \* ticks from the start of a step to its capture deadline
  MaxDelay,       \* bound on the delays of steps
  MaxFaults,      \* bound on exceptions
  None

Answers == {"positive", "negative"}
Events == {"job_completed", "job_staled", "job_stopped", "job_failed"}
Modes == {"sequential", "time", "custom"} \cup Answers

StepDef == [order : Nat, mode : Modes, from : Steps \cup {None}, delay : 0..MaxDelay,
            missing : {"skip", "fail"}, targets : SUBSET Cameras \ {{}}]

ASSUME StepsAssumption ==
  /\ Definitions \subseteq [Steps -> StepDef]
  /\ Segments \subseteq SUBSET Cameras
  /\ Window \in Nat \ {0}
  /\ MaxDelay \in Nat /\ MaxFaults \in Nat
  /\ None \notin Steps \cup Answers \cup Events

VARIABLES
  def,            \* the steps as the user defined them
  cams,           \* the cameras of the segment
  state,          \* step -> its StepState, or "absent" from the segment
  worker,         \* step -> camera -> what the worker for it is at
  left,           \* step -> ticks left to its capture deadline
  asked,          \* step -> what finalizeStep asked its workers for
  answer,         \* step -> sentiment of its last output, None if it has none
  triggered,      \* triggeredStartStepIds
  age,            \* ticks since jobStartedAt, up to MaxDelay
  cancel,         \* job->cancel
  loop,           \* what the job thread is at
  ended,          \* the event that ended the job
  faults

vars == << def, cams, state, worker, left, asked, answer, triggered, age,
           cancel, loop, ended, faults >>

plan == << def, cams >>
signals == << answer, triggered >>

StepStates == {"absent", "pending", "running", "completed", "skipped"}
Phases == {"none", "capture", "wait", "drain", "gone", "done"}
Positions == {"head", "start", "deadlines", "join", "runnable", "future",
              "stop", "over"}

In(states) == {s \in Steps : state[s] \in states}

(* The targets buildSegmentPayload retains of a step. *)
Targets(s) == def[s].targets \cap cams

-----------------------------------------------------------------------------
(* The start conditions. *)

Depends(s) == def[s].from # None

(* The step a condition names is not in the segment. *)
Missing(s) == state[def[s].from] = "absent"

Due(s) == age >= def[s].delay

(* conditionSatisfied_ *)
Satisfied(s) ==
  LET d == def[s] IN
  \/ d.mode = "sequential" /\ ~Depends(s)
  \/ d.mode = "time" /\ Due(s)
  \/ /\ d.mode # "time" /\ Depends(s)
     /\ \/ Missing(s) /\ d.missing = "skip"
        \/ /\ ~Missing(s)
           /\ \/ d.mode = "sequential" /\ state[d.from] = "completed"
              \/ d.mode = "sequential" /\ state[d.from] = "skipped" /\ d.missing = "skip"
              \/ d.mode \in Answers /\ answer[d.from] = d.mode
              \/ d.mode = "custom" /\ s \in triggered

(* A pending step that waits for a step of the segment. *)
Waits(s) == /\ state[s] = "pending" /\ def[s].mode # "time"
            /\ Depends(s) /\ ~Missing(s)

(* The steps pendingCanStillStartLater visits from s on: it follows a      *)
(* dependency as long as it is pending itself.                             *)
Upstream(s) ==
  {d \in Steps : \A U \in SUBSET Steps :
     (s \in U /\ \A u \in U : Waits(u) => def[u].from \in U) => d \in U}

(* Mutant of CanStart: a pending dependency is taken for one that starts. *)
CanWait(s) ==
  \/ def[s].mode = "time" /\ ~Due(s)
  \/ /\ def[s].mode # "time" /\ Depends(s)
     /\ IF Missing(s) THEN def[s].missing # "skip"
        ELSE state[def[s].from] \in {"running", "pending"}

CanStart(s) ==
  \E d \in Upstream(s) :
    \/ state[d] = "running"
    \/ state[d] = "pending" /\ def[d].mode = "time" /\ ~Due(d)
    \/ /\ state[d] = "pending" /\ def[d].mode # "time"
       /\ Depends(d) /\ Missing(d) /\ def[d].missing # "skip"

(* runJob_ skips what depends on a step that is missing or comes later. *)
InvalidDependency(s, retained) ==
  /\ Depends(s) /\ def[s].missing = "skip"
  /\ def[s].from \in retained => def[def[s].from].order >= def[s].order

Init ==
  /\ def \in Definitions /\ cams \in Segments
  /\ LET retained == {s \in Steps : Targets(s) # {}} IN
     state = [s \in Steps |-> IF s \notin retained THEN "absent"
                              ELSE IF InvalidDependency(s, retained) THEN "skipped"
                              ELSE "pending"]
  /\ worker = [s \in Steps |-> [c \in Cameras |-> "none"]]
  /\ left = [s \in Steps |-> Window]
  /\ asked = [s \in Steps |-> "nothing"]
  /\ answer = [s \in Steps |-> None]
  /\ triggered = {}
  /\ age = 0 /\ cancel = FALSE
  /\ loop = [pc |-> "head", todo |-> {}, step |-> None]
  /\ ended = None /\ faults = 0

-----------------------------------------------------------------------------
(* The job thread. *)

At(pc) == loop.pc = pc
Goto(pc, todo) == loop' = [pc |-> pc, todo |-> todo, step |-> None]
Pass(s) == loop' = [loop EXCEPT !.todo = @ \ {s}]

End(event) ==
  /\ ended' = event
  /\ Goto("over", {})

(* Mutant of NextIteration: a job with pending steps is not stopped. *)
FinishPending ==
  /\ At("head")
  /\ IF cancel /\ In({"pending"}) = {} THEN Goto("stop", In({"running"}))
     ELSE Goto("start", In({"pending"}))
  /\ UNCHANGED << plan, signals, state, worker, left, asked, age, cancel, ended, faults >>

(* An iteration begins, or the job was stopped. *)
NextIteration ==
  /\ At("head")
  /\ IF cancel THEN Goto("stop", In({"running"})) ELSE Goto("start", In({"pending"}))
  /\ UNCHANGED << plan, signals, state, worker, left, asked, age, cancel, ended, faults >>

PassStep(s) ==
  /\ At("start") /\ s \in loop.todo /\ ~Satisfied(s)
  /\ Pass(s)
  /\ UNCHANGED << plan, signals, state, worker, left, asked, age, cancel, ended, faults >>

(* The cameras of targets that were started get a worker each. *)
Spawn(s, started) ==
  /\ state' = [state EXCEPT ![s] = "running"]
  /\ worker' = [worker EXCEPT ![s] = [c \in Cameras |->
                  IF c \in started THEN "capture" ELSE "none"]]
  /\ left' = [left EXCEPT ![s] = Window]

(* startStep *)
StartStep(s) ==
  /\ At("start") /\ s \in loop.todo /\ Satisfied(s)
  /\ \E started \in SUBSET Targets(s) :
       IF started = {}
       THEN state' = [state EXCEPT ![s] = "skipped"] /\ UNCHANGED << worker, left >>
       ELSE Spawn(s, started)
  /\ Pass(s)
  /\ UNCHANGED << plan, signals, asked, age, cancel, ended, faults >>

(* An exception of startStep ends runJob_: nothing joins the workers. *)
StartThrows(s) ==
  /\ At("start") /\ s \in loop.todo /\ Satisfied(s)
  /\ faults < MaxFaults /\ faults' = faults + 1
  /\ \E spawned \in SUBSET Targets(s) : Spawn(s, spawned)
  /\ End("job_failed")
  /\ UNCHANGED << plan, signals, asked, age, cancel >>

LastStarted ==
  /\ At("start") /\ loop.todo = {}
  /\ Goto("deadlines", In({"running"}))
  /\ UNCHANGED << plan, signals, state, worker, left, asked, age, cancel, ended, faults >>

(* captureDeadlineReached *)
DeadlineReached(s) == left[s] = 0

PassRunning(s) ==
  /\ At("deadlines") /\ s \in loop.todo /\ ~DeadlineReached(s)
  /\ Pass(s)
  /\ UNCHANGED << plan, signals, state, worker, left, asked, age, cancel, ended, faults >>

(* finalizeStep tells the workers why and waits for them. *)
Finalize(s, why) ==
  /\ asked' = [asked EXCEPT ![s] = why]
  /\ loop' = [pc |-> "join", todo |-> loop.todo \ {s}, step |-> s]
  /\ UNCHANGED << plan, signals, state, worker, left, age, cancel, ended, faults >>

FinalizeAtDeadline(s) ==
  At("deadlines") /\ s \in loop.todo /\ DeadlineReached(s) /\ Finalize(s, "timeout")

(* Mutant of FinalizeStopped: a stop only asks the workers. *)
AskStopped(s) ==
  /\ At("stop") /\ s \in loop.todo
  /\ asked' = [asked EXCEPT ![s] = "job_cancel"]
  /\ state' = [state EXCEPT ![s] = "completed"]
  /\ Pass(s)
  /\ UNCHANGED << plan, signals, worker, left, age, cancel, ended, faults >>

FinalizeStopped(s) ==
  At("stop") /\ s \in loop.todo /\ Finalize(s, "job_cancel")

Live(s) == {c \in Cameras : worker[s][c] \in {"capture", "wait", "drain"}}

(* Mutant of JoinWorkers: the workers are asked and not waited for. *)
AskWorkers ==
  /\ At("join")
  /\ state' = [state EXCEPT ![loop.step] = "completed"]
  /\ Goto(IF asked[loop.step] = "timeout" THEN "deadlines" ELSE "stop", loop.todo)
  /\ UNCHANGED << plan, signals, worker, left, asked, age, cancel, ended, faults >>

JoinWorkers ==
  /\ At("join") /\ Live(loop.step) = {}
  /\ state' = [state EXCEPT ![loop.step] = "completed"]
  /\ Goto(IF asked[loop.step] = "timeout" THEN "deadlines" ELSE "stop", loop.todo)
  /\ UNCHANGED << plan, signals, worker, left, asked, age, cancel, ended, faults >>

(* Mutant of Decide: a job is complete when nothing runs. *)
DecideRunning ==
  /\ At("deadlines") /\ loop.todo = {}
  /\ IF In({"running"}) # {} THEN Goto("head", {}) /\ UNCHANGED ended
     ELSE End(IF cancel THEN "job_stopped" ELSE "job_completed")
  /\ UNCHANGED << plan, signals, state, worker, left, asked, age, cancel, faults >>

(* What is left decides how the iteration ends; a job with nothing left    *)
(* that was cancelled meanwhile is stopped, not completed.                 *)
Decide ==
  /\ At("deadlines") /\ loop.todo = {}
  /\ IF In({"running"}) # {} THEN Goto("head", {}) /\ UNCHANGED ended
     ELSE IF In({"pending"}) = {} THEN End(IF cancel THEN "job_stopped" ELSE "job_completed")
     ELSE Goto("runnable", {}) /\ UNCHANGED ended
  /\ UNCHANGED << plan, signals, state, worker, left, asked, age, cancel, faults >>

(* Mutant of FindRunnable: what has just become runnable is not looked for.*)
SkipRunnable ==
  /\ At("runnable") /\ Goto("future", {})
  /\ UNCHANGED << plan, signals, state, worker, left, asked, age, cancel, ended, faults >>

(* hasPendingRunnableNow, then canStillAdvance: two readings of the clock. *)
FindRunnable ==
  /\ At("runnable")
  /\ Goto(IF \E s \in In({"pending"}) : Satisfied(s) THEN "head" ELSE "future", {})
  /\ UNCHANGED << plan, signals, state, worker, left, asked, age, cancel, ended, faults >>

FindFuture ==
  /\ At("future")
  /\ IF \E s \in In({"pending"}) : CanStart(s)
     THEN Goto("head", {}) /\ UNCHANGED ended
     ELSE End("job_staled")
  /\ UNCHANGED << plan, signals, state, worker, left, asked, age, cancel, faults >>

LastStopped ==
  /\ At("stop") /\ loop.todo = {}
  /\ End("job_stopped")
  /\ UNCHANGED << plan, signals, state, worker, left, asked, age, cancel, faults >>

-----------------------------------------------------------------------------
(* The workers of a step, until the job thread is gone. *)

Move(s, c, phase) ==
  /\ worker' = [worker EXCEPT ![s][c] = phase]
  /\ UNCHANGED << plan, state, left, asked, age, cancel, loop, ended, faults >>

Cancelled(s) == cancel \/ asked[s] = "job_cancel"

(* Answers are kept of the steps that a condition reads, triggers of the   *)
(* steps that heed one: an output may name any step, but only one.         *)
Read(s) == \E d \in Steps : def[d].from = s /\ def[d].mode \in Answers
Named == {{}} \cup {{d} : d \in {d \in Steps : def[d].mode = "custom"}}

(* Mutant of Infer: only the triggers of the last output count. *)
InferLast(s, c) ==
  /\ ended = None /\ worker[s][c] \in {"capture", "drain"}
  /\ UNCHANGED answer
  /\ triggered' \in Named
  /\ UNCHANGED << plan, state, worker, left, asked, age, cancel, loop, ended, faults >>

(* An inference ends: its output replaces the last one of the step, with   *)
(* or without a sentiment, and may trigger a custom step, hooked or not.   *)
Infer(s, c) ==
  /\ ended = None /\ worker[s][c] \in {"capture", "drain"}
  /\ IF Read(s) THEN \E a \in Answers \cup {None} : answer' = [answer EXCEPT ![s] = a]
     ELSE UNCHANGED answer
  /\ \E hook \in Named : triggered' = triggered \cup hook
  /\ UNCHANGED << plan, state, worker, left, asked, age, cancel, loop, ended, faults >>

(* The capture loop ends; only a worker that reached the deadline waits    *)
(* for the job thread to ask for a drain.                                  *)
EndCapture(s, c) ==
  /\ ended = None /\ worker[s][c] = "capture"
  /\ Cancelled(s) \/ DeadlineReached(s)
  /\ Move(s, c, IF Cancelled(s) THEN "done" ELSE "wait")
  /\ UNCHANGED signals

BeginDrain(s, c) ==
  /\ ended = None /\ worker[s][c] = "wait"
  /\ asked[s] = "timeout" /\ ~cancel
  /\ Move(s, c, "drain")
  /\ UNCHANGED signals

(* An iteration of the job thread takes a second only if it starts or      *)
(* joins a step.                                                           *)
Busy == At("join") \/ (At("start") /\ \E s \in loop.todo : Satisfied(s))

(* The wait lasts a second, or until the job is cancelled. *)
GiveUp(s, c) ==
  /\ ended = None /\ worker[s][c] = "wait"
  /\ (asked[s] # "timeout" /\ Busy) \/ Cancelled(s)
  /\ Move(s, c, IF Cancelled(s) THEN "done" ELSE "gone")
  /\ UNCHANGED signals

(* Everything captured is analysed, nothing more comes, the hard stop is   *)
(* reached or the job is cancelled.                                        *)
EndDrain(s, c) ==
  /\ ended = None /\ worker[s][c] = "drain"
  /\ Move(s, c, "done")
  /\ UNCHANGED signals

(* An exception ends a worker: it reports job_agent_failed. *)
WorkerFails(s, c) ==
  /\ ended = None /\ c \in Live(s)
  /\ faults < MaxFaults /\ faults' = faults + 1
  /\ worker' = [worker EXCEPT ![s][c] = "done"]
  /\ UNCHANGED << plan, signals, state, left, asked, age, cancel, loop, ended >>

-----------------------------------------------------------------------------
(* Mutant of Tick: a window runs on after its deadline. *)
TickOn ==
  /\ ended = None
  /\ age' = IF age < MaxDelay THEN age + 1 ELSE age
  /\ left' = [s \in Steps |-> IF state[s] = "running" THEN left[s] - 1 ELSE left[s]]
  /\ UNCHANGED << plan, signals, state, worker, asked, cancel, loop, ended, faults >>

Tick ==
  /\ ended = None
  /\ age' = IF age < MaxDelay THEN age + 1 ELSE age
  /\ left' = [s \in Steps |-> IF state[s] = "running" /\ left[s] > 0
                              THEN left[s] - 1 ELSE left[s]]
  /\ UNCHANGED << plan, signals, state, worker, asked, cancel, loop, ended, faults >>

(* requestStop *)
Cancel ==
  /\ ended = None /\ ~cancel /\ cancel' = TRUE
  /\ UNCHANGED << plan, signals, state, worker, left, asked, age, loop, ended, faults >>

JobThread ==
  \/ NextIteration \/ LastStarted \/ JoinWorkers \/ Decide
  \/ FindRunnable \/ FindFuture \/ LastStopped
  \/ \E s \in Steps :
       \/ PassStep(s) \/ StartStep(s) \/ PassRunning(s)
       \/ FinalizeAtDeadline(s) \/ FinalizeStopped(s)

WorkerEnds(s, c) == EndCapture(s, c) \/ BeginDrain(s, c) \/ GiveUp(s, c) \/ EndDrain(s, c)

Next ==
  \/ JobThread \/ Tick \/ Cancel
  \/ \E s \in Steps : StartThrows(s)
  \/ \E s \in Steps, c \in Cameras : WorkerEnds(s, c) \/ Infer(s, c) \/ WorkerFails(s, c)

Spec == Init /\ [][Next]_vars

(* Threads are scheduled, time passes and an inference has a timeout. *)
FairSpec ==
  /\ Spec
  /\ WF_vars(JobThread) /\ WF_vars(Tick)
  /\ \A s \in Steps, c \in Cameras : WF_vars(WorkerEnds(s, c))

-----------------------------------------------------------------------------
TypeOK ==
  /\ def \in Definitions /\ cams \in Segments
  /\ state \in [Steps -> StepStates]
  /\ worker \in [Steps -> [Cameras -> Phases]]
  /\ left \in [Steps -> 0..Window]
  /\ asked \in [Steps -> {"nothing", "timeout", "job_cancel"}]
  /\ answer \in [Steps -> Answers \cup {None}]
  /\ triggered \subseteq Steps
  /\ age \in 0..MaxDelay /\ cancel \in BOOLEAN
  /\ loop \in [pc : Positions, todo : SUBSET Steps, step : Steps \cup {None}]
  /\ ended \in Events \cup {None}
  /\ faults \in 0..MaxFaults

(* A sequential step never works beside the step it follows: finalizeStep  *)
(* joins the workers of a step before it is completed.                     *)
SequentialAlone ==
  \A s \in Steps : (def[s].mode = "sequential" /\ Depends(s) /\ Live(s) # {})
                     => Live(def[s].from) = {}

(* When a job ends other than by an exception none of its workers is left  *)
(* to use its folder, which is then removed, or its outputs.               *)
EndsQuiet ==
  ended \in Events \ {"job_failed"} => \A s \in Steps : Live(s) = {}

(* A job given up as stalled had no step it could start, but for steps     *)
(* whose time came between the two readings of the clock: neither a        *)
(* trigger nor an answer may arrive between the scan and the verdict.      *)
StallIsReal ==
  ended = "job_staled" => \A s \in In({"pending"}) : Satisfied(s) => def[s].mode = "time"

(* A job none of whose steps waits for a step outside its segment ends.    *)
JobEnds ==
  (\A s \in Steps : state[s] = "pending" /\ def[s].mode # "time" /\ Depends(s) => ~Missing(s))
    => <>(ended # None)

(* A stopped job ends, whatever its thread was doing: joining a step that  *)
(* drains, or waiting for a step that will not come.                       *)
StopEnds == cancel ~> ended # None

(* A step whose predecessor has completed is started or refused, if the    *)
(* job is neither stopped nor failed.                                      *)
SuccessorStarts ==
  \A s \in Steps :
    (state[s] = "pending" /\ def[s].mode = "sequential" /\ Depends(s)
       /\ state[def[s].from] = "completed")
    ~> (state[s] # "pending" \/ cancel \/ ended = "job_failed")

(* The trigger of a custom step is not lost, however long the job thread   *)
(* joins other steps and whatever the later outputs say: the step starts   *)
(* or is refused, if the step it is hooked to is in the segment and the    *)
(* job is neither stopped nor failed.                                      *)
TriggerHeard ==
  \A s \in Steps : (Waits(s) /\ s \in triggered)
                     ~> (state[s] # "pending" \/ cancel \/ ended = "job_failed")

(* A job none of whose steps runs any more is not kept waiting for steps   *)
(* that cannot start: it ends ("Stalled: no running step and pending steps *)
(* with no path to become runnable.", JobRuntime.cpp:8815).  The code does *)
(* not keep it for a step whose predecessor is not in its segment.         *)
StallIsSeen == (<>[](In({"running"}) = {})) => <>(ended # None)

(* A worker that reached the deadline of its step, which was finalized for *)
(* it, has drained: JobRuntime.cpp:8795 says finalizeStep() blocks until   *)
(* the drain completes or the hard stop is reached.                        *)
DrainedAtDeadline ==
  \A s \in Steps : (state[s] = "completed" /\ asked[s] = "timeout")
                     => \A c \in Cameras : worker[s][c] # "gone"
=============================================================================
