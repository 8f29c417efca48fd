---------------------------- MODULE CameraSharing ----------------------------
(***************************************************************************)
(* The camera sessions of the Windows agent and their three kinds of       *)
(* owner: the direct service (start_camera / stop_camera commands, one     *)
(* command thread), the steps of running jobs (one thread per job) and the *)
(* temporary sessions of searches (a thread per search).                   *)
(*                                                                         *)
(* Every critical section is one action: resourceAdmissionMu_ is held over *)
(* a whole start, sessionsMu_, directServiceMu_ and jobsMu_ only over      *)
(* single reads and writes, and no stop takes resourceAdmissionMu_.        *)
(* A session is its start configuration (matchesStartConfig).  Captures,   *)
(* frames and the reports to the backend are left out.                     *)
(***************************************************************************)
EXTENDS Naturals, FiniteSets

CONSTANTS
  Cameras, Jobs, Steps, Searches,
  Cmd,            \* the command thread
  JobOf,          \* step -> its job
  CamerasOf,      \* step -> the cameras of its targets
  SharedCfg,      \* job and direct payloads give a camera the same configuration
  Pressure,       \* memory may be short: starts may be refused
  MaxRuns,        \* bound on the runs of a job
  MaxFaults,      \* bound on sessions that fail to start
  None

Threads == {Cmd} \cup Jobs \cup Searches

ASSUME SharingAssumption ==
  /\ Cmd \notin Jobs \cup Searches /\ Jobs \cap Searches = {}
  /\ JobOf \in [Steps -> Jobs]
  /\ CamerasOf \in [Steps -> SUBSET Cameras]
  /\ SharedCfg \in BOOLEAN /\ Pressure \in BOOLEAN
  /\ MaxRuns \in Nat /\ MaxFaults \in Nat
  /\ None \notin Threads \cup Cameras \cup Steps \cup {"direct", "job", "temp"}

VARIABLES
  sessions,       \* camera -> configuration of its session, or None
  requested,      \* cameras in directServiceRequestedByCamera_
  refs,           \* jobSessionRefsByCamera_: <<camera, step>> -> count
  admission,      \* holder of resourceAdmissionMu_
  steps,          \* step -> its StepState
  targets,        \* step -> the targets left by startStep
  thread,         \* thread -> its locals
  runs,           \* job -> runs begun
  faults

vars == << sessions, requested, refs, admission, steps, targets, thread, runs, faults >>

Configs == {"direct", "job", "temp"}
StepStates == {"pending", "running", "completed", "skipped"}

Positions == {"idle", "lock", "check", "create", "acquire", "release",
              "consumers", "direct", "stop", "searching"}

Locals == [pc : Positions, cam : Cameras \cup {None}, step : Steps \cup {None},
           todo : SUBSET Cameras, acquired : SUBSET Cameras, before : BOOLEAN]

(* todo: cameras the operation has still to deal with, acquired: cameras   *)
(* this start has acquired, before: isDirectServiceRequested_ at its start.*)
IdleThread == [pc |-> "idle", cam |-> None, step |-> None,
               todo |-> {}, acquired |-> {}, before |-> FALSE]

Init ==
  /\ sessions = [c \in Cameras |-> None]
  /\ requested = {}
  /\ refs = [p \in Cameras \X Steps |-> 0]
  /\ admission = None
  /\ steps = [s \in Steps |-> "pending"]
  /\ targets = [s \in Steps |-> {}]
  /\ thread = [t \in Threads |-> IdleThread]
  /\ runs = [j \in Jobs |-> 1]
  /\ faults = 0

(* buildCameraConfigFromPayload_ for the payload each kind of owner has.   *)
Cfg(t) == IF t \in Searches THEN "temp"
          ELSE IF t \in Jobs /\ ~SharedCfg THEN "job" ELSE "direct"

(* hasActiveJobSessionConsumers_ *)
Held(c) == \E s \in Steps : refs[<<c, s>>] > 0

At(t, pc) == thread[t].pc = pc
Goto(t, pc) == thread' = [thread EXCEPT ![t].pc = pc]
Rest(t) == thread' = [thread EXCEPT ![t] = IdleThread]

-----------------------------------------------------------------------------
(* Starting a session, with the admission mutex held. *)

(* The start of a start_camera command, up to the mutex. *)
StartCamera(c) ==
  /\ At(Cmd, "idle")
  /\ thread' = [thread EXCEPT ![Cmd] = [IdleThread EXCEPT !.pc = "lock", !.cam = c]]
  /\ UNCHANGED << sessions, requested, refs, admission, steps, targets, runs, faults >>

(* A search finds no session: it goes on to start a temporary one. *)
FindNoSession(q, c) ==
  /\ At(q, "idle") /\ sessions[c] = None
  /\ thread' = [thread EXCEPT ![q] = [IdleThread EXCEPT !.pc = "lock", !.cam = c]]
  /\ UNCHANGED << sessions, requested, refs, admission, steps, targets, runs, faults >>

(* Mutant of LockForCamera: the start does not wait for the mutex. *)
StartUnlocked(t) ==
  /\ t \notin Jobs /\ At(t, "lock")
  /\ thread' = [thread EXCEPT ![t].pc = "check",
                              ![t].before = t = Cmd /\ thread[t].cam \in requested]
  /\ requested' = IF t = Cmd THEN requested \cup {thread[t].cam} ELSE requested
  /\ UNCHANGED << sessions, refs, admission, steps, targets, runs, faults >>

LockForCamera(t) ==
  /\ t \notin Jobs /\ At(t, "lock") /\ admission = None
  /\ admission' = t
  /\ thread' = [thread EXCEPT ![t].pc = "check",
                              ![t].before = t = Cmd /\ thread[t].cam \in requested]
  /\ requested' = IF t = Cmd THEN requested \cup {thread[t].cam} ELSE requested
  /\ UNCHANGED << sessions, refs, steps, targets, runs, faults >>

(* The session of thread[t].cam is there for the caller to use. *)
Started(t) ==
  /\ IF t \in Jobs THEN Goto(t, "acquire") /\ UNCHANGED admission
     ELSE admission' = None /\ (IF t = Cmd THEN Rest(t) ELSE Goto(t, "searching"))
  /\ UNCHANGED << requested, steps >>

(* stopCameraForJob for each camera of cams, the first of them first. *)
StopEach(j, s, cams) ==
  \E c \in cams : thread' = [thread EXCEPT ![j] =
    [IdleThread EXCEPT !.pc = "release", !.cam = c, !.step = s, !.todo = cams \ {c}]]

(* Mutants of RollBack: what was acquired is forgotten; the step is marked *)
(* with the unused state Failed.                                           *)
ForgetAcquired(j, cams) ==
  /\ steps' = [steps EXCEPT ![thread[j].step] = "skipped"]
  /\ admission' = None /\ Rest(j)

FailStep(j, cams) ==
  IF cams = {}
  THEN /\ steps' = [steps EXCEPT ![thread[j].step] = "failed"]
       /\ admission' = None /\ Rest(j)
  ELSE StopEach(j, thread[j].step, cams) /\ UNCHANGED << steps, admission >>

(* The step was not started: release what was acquired for it, if anything.*)
RollBack(j, cams) ==
  IF cams = {}
  THEN /\ steps' = [steps EXCEPT ![thread[j].step] = "skipped"]
       /\ admission' = None /\ Rest(j)
  ELSE StopEach(j, thread[j].step, cams) /\ UNCHANGED << steps, admission >>

(* The start of thread[t].cam is refused or throws. *)
NotStarted(t) ==
  IF t \in Jobs THEN RollBack(t, thread[t].acquired) /\ UNCHANGED requested
  ELSE /\ requested' = IF t = Cmd /\ ~thread[t].before
                       THEN requested \ {thread[t].cam} ELSE requested
       /\ admission' = None /\ Rest(t) /\ UNCHANGED steps

ReuseSession(t) ==
  /\ At(t, "check") /\ sessions[thread[t].cam] = Cfg(t)
  /\ Started(t)
  /\ UNCHANGED << sessions, refs, targets, runs, faults >>

(* evaluateCameraStartAdmissionLocked_; a job's cameras were admitted      *)
(* together by LockForStep.                                                *)
RefuseSession(t) ==
  /\ Pressure /\ t \notin Jobs
  /\ At(t, "check") /\ sessions[thread[t].cam] # Cfg(t)
  /\ NotStarted(t)
  /\ UNCHANGED << sessions, refs, targets, runs, faults >>

(* A session of another configuration is taken out and stopped. *)
ReplaceSession(t) ==
  /\ At(t, "check") /\ sessions[thread[t].cam] # Cfg(t)
  /\ sessions' = [sessions EXCEPT ![thread[t].cam] = None]
  /\ Goto(t, "create")
  /\ UNCHANGED << requested, refs, admission, steps, targets, runs, faults >>

CreateSession(t) ==
  /\ At(t, "create")
  /\ sessions' = [sessions EXCEPT ![thread[t].cam] = Cfg(t)]
  /\ Started(t)
  /\ UNCHANGED << refs, targets, runs, faults >>

CreateFails(t) ==
  /\ At(t, "create") /\ faults < MaxFaults /\ faults' = faults + 1
  /\ NotStarted(t)
  /\ UNCHANGED << sessions, refs, targets, runs >>

-----------------------------------------------------------------------------
(* The steps of a job. *)

StartStep(s) ==
  /\ At(JobOf[s], "idle") /\ steps[s] = "pending"
  /\ steps' = [steps EXCEPT ![s] = "running"]
  /\ thread' = [thread EXCEPT ![JobOf[s]] = [IdleThread EXCEPT !.pc = "lock", !.step = s]]
  /\ UNCHANGED << sessions, requested, refs, admission, targets, runs, faults >>

(* startJobStepCameras_ takes the mutex and decides which cameras to start.*)
LockForStep(j) ==
  LET s == thread[j].step IN
  /\ At(j, "lock") /\ admission = None
  /\ \E blocked \in SUBSET {c \in CamerasOf[s] : sessions[c] # Cfg(j)} :
       /\ blocked # {} => Pressure
       /\ LET admitted == CamerasOf[s] \ blocked IN
          IF admitted = {}
          THEN /\ steps' = [steps EXCEPT ![s] = "skipped"]
               /\ Rest(j) /\ UNCHANGED admission
          ELSE /\ admission' = j /\ UNCHANGED steps
               /\ \E c \in admitted : thread' = [thread EXCEPT ![j].pc = "check",
                                        ![j].cam = c, ![j].todo = admitted \ {c}]
  /\ targets' = [targets EXCEPT ![s] = {}]
  /\ UNCHANGED << sessions, requested, refs, runs, faults >>

(* jobsSessionAcquire_, then the next camera or the end of startStep. *)
Acquire(j) ==
  LET s == thread[j].step
      got == thread[j].acquired \cup {thread[j].cam}
  IN
  /\ At(j, "acquire")
  /\ refs' = [refs EXCEPT ![<<thread[j].cam, s>>] = @ + 1]
  /\ IF thread[j].todo = {}
     THEN /\ targets' = [targets EXCEPT ![s] = got]
          /\ admission' = None /\ Rest(j)
     ELSE /\ \E c \in thread[j].todo : thread' = [thread EXCEPT ![j].pc = "check",
                ![j].cam = c, ![j].todo = @ \ {c}, ![j].acquired = got]
          /\ UNCHANGED << targets, admission >>
  /\ UNCHANGED << sessions, requested, steps, runs, faults >>

(* freezeStepCaptureAndCamera: a camera another running step of the job    *)
(* targets is passed over.                                                 *)
UsedByOtherRunningStep(s, c) ==
  \E o \in Steps \ {s} : JobOf[o] = JobOf[s] /\ steps[o] = "running" /\ c \in targets[o]

(* finalizeStep at a deadline or a cancellation. *)
FinalizeStep(s) ==
  LET cams == {c \in targets[s] : ~UsedByOtherRunningStep(s, c)} IN
  /\ At(JobOf[s], "idle") /\ steps[s] = "running"
  /\ IF cams = {} THEN steps' = [steps EXCEPT ![s] = "completed"] /\ UNCHANGED thread
     ELSE StopEach(JobOf[s], s, cams) /\ UNCHANGED steps
  /\ UNCHANGED << sessions, requested, refs, admission, targets, runs, faults >>

(* The next start of the job: a new JobInstance. *)
NewRun(j) ==
  LET own == {s \in Steps : JobOf[s] = j} IN
  /\ At(j, "idle") /\ runs[j] < MaxRuns
  /\ \A s \in own : steps[s] \in {"completed", "skipped"}
  /\ runs' = [runs EXCEPT ![j] = @ + 1]
  /\ steps' = [s \in Steps |-> IF s \in own THEN "pending" ELSE steps[s]]
  /\ UNCHANGED << sessions, requested, refs, admission, targets, thread, faults >>

-----------------------------------------------------------------------------
(* Stopping a session: no mutex spans the checks and the stop. *)

(* stopDirectCamera_ *)
StopDirect(c) ==
  /\ At(Cmd, "idle")
  /\ requested' = requested \ {c}
  /\ thread' = [thread EXCEPT ![Cmd] = [IdleThread EXCEPT !.pc = "consumers", !.cam = c]]
  /\ UNCHANGED << sessions, refs, admission, steps, targets, runs, faults >>

(* stopTemporarySessionIfSafe *)
EndSearch(q) ==
  /\ At(q, "searching")
  /\ IF sessions[thread[q].cam] = Cfg(q) THEN Goto(q, "stop") ELSE Rest(q)
  /\ UNCHANGED << sessions, requested, refs, admission, steps, targets, runs, faults >>

(* stopCameraForJob: release, then look for other owners. *)
Release(j) ==
  /\ At(j, "release")
  /\ refs' = [refs EXCEPT ![<<thread[j].cam, thread[j].step>>] = IF @ > 0 THEN @ - 1 ELSE 0]
  /\ Goto(j, "consumers")
  /\ UNCHANGED << sessions, requested, admission, steps, targets, runs, faults >>

(* The stop of thread[t].cam is over; a job goes on to its next camera. A  *)
(* job that holds the mutex is rolling a start back.                       *)
Leave(t) ==
  IF t \notin Jobs THEN Rest(t) /\ UNCHANGED << steps, admission >>
  ELSE IF thread[t].todo # {}
  THEN StopEach(t, thread[t].step, thread[t].todo) /\ UNCHANGED << steps, admission >>
  ELSE /\ steps' = [steps EXCEPT ![thread[t].step] =
                      IF admission = t THEN "skipped" ELSE "completed"]
       /\ admission' = IF admission = t THEN None ELSE admission
       /\ Rest(t)

(* Mutant of CheckConsumers: a start in progress is taken for an owner. *)
TrustStart(t) ==
  /\ At(t, "consumers")
  /\ IF Held(thread[t].cam) \/ admission \notin {None, t} THEN Leave(t)
     ELSE Goto(t, IF t = Cmd THEN "stop" ELSE "direct") /\ UNCHANGED << steps, admission >>
  /\ UNCHANGED << sessions, requested, refs, targets, runs, faults >>

CheckConsumers(t) ==
  /\ At(t, "consumers")
  /\ IF Held(thread[t].cam) THEN Leave(t)
     ELSE Goto(t, IF t = Cmd THEN "stop" ELSE "direct") /\ UNCHANGED << steps, admission >>
  /\ UNCHANGED << sessions, requested, refs, targets, runs, faults >>

CheckDirect(j) ==
  /\ At(j, "direct")
  /\ IF thread[j].cam \in requested THEN Leave(j)
     ELSE Goto(j, "stop") /\ UNCHANGED << steps, admission >>
  /\ UNCHANGED << sessions, requested, refs, targets, runs, faults >>

(* Mutant of StopSession: the stop takes the admission mutex. *)
StopLocked(t) ==
  /\ At(t, "stop") /\ admission = None
  /\ sessions' = [sessions EXCEPT ![thread[t].cam] = None]
  /\ Leave(t)
  /\ UNCHANGED << requested, refs, targets, runs, faults >>

(* stopCamera_ *)
StopSession(t) ==
  /\ At(t, "stop")
  /\ sessions' = [sessions EXCEPT ![thread[t].cam] = None]
  /\ Leave(t)
  /\ UNCHANGED << requested, refs, targets, runs, faults >>

-----------------------------------------------------------------------------
StartingStep(t) ==
  \/ LockForCamera(t) \/ ReuseSession(t) \/ RefuseSession(t)
  \/ ReplaceSession(t) \/ CreateSession(t) \/ CreateFails(t)

StoppingStep(t) == CheckConsumers(t) \/ StopSession(t)

JobStep(j) == LockForStep(j) \/ Acquire(j) \/ Release(j) \/ CheckDirect(j)

Next ==
  \/ \E c \in Cameras : StartCamera(c) \/ StopDirect(c)
  \/ \E q \in Searches, c \in Cameras : FindNoSession(q, c)
  \/ \E q \in Searches : EndSearch(q)
  \/ \E s \in Steps : StartStep(s) \/ FinalizeStep(s)
  \/ \E j \in Jobs : NewRun(j) \/ JobStep(j)
  \/ \E t \in Threads : StartingStep(t) \/ StoppingStep(t)

Spec == Init /\ [][Next]_vars

(* Every thread inside an operation is scheduled. *)
Fairness ==
  /\ \A t \in Threads : WF_vars(StartingStep(t) \/ StoppingStep(t))
  /\ \A j \in Jobs : WF_vars(JobStep(j))

FairSpec == Spec /\ Fairness

-----------------------------------------------------------------------------
(* Every variable stays within its type. *)
TypeOK ==
  /\ sessions \in [Cameras -> Configs \cup {None}]
  /\ requested \subseteq Cameras
  /\ refs \in [Cameras \X Steps -> Nat]
  /\ admission \in Threads \cup {None}
  /\ steps \in [Steps -> StepStates]
  /\ targets \in [Steps -> SUBSET Cameras]
  /\ thread \in [Threads -> Locals]
  /\ runs \in [Jobs -> Nat]
  /\ faults \in 0..MaxFaults

(* No thread is inside an operation, or a search, on camera c. *)
Quiet(c) == \A t \in Threads : thread[t].cam # c /\ c \notin thread[t].todo \cup thread[t].acquired

(* A camera session nobody works on has an owner: whichever way the last   *)
(* stops and releases interleave, at least one of them sees that the       *)
(* others are gone (stopCameraForJob, stopDirectCamera_: withdraw first,   *)
(* look for other owners second).                                          *)
NoOrphanSession ==
  \A c \in Cameras : Quiet(c) /\ sessions[c] # None => c \in requested \/ Held(c)

(* A session kept without a direct request serves a running step: the      *)
(* references of jobSessionRefsByCamera_ do not outlive their step         *)
(* (freezeStepCaptureAndCamera, startJobStepCameras_' roll-back).          *)
SessionInUse ==
  \A c \in Cameras : Quiet(c) /\ sessions[c] # None /\ c \notin requested =>
    \E s \in Steps : steps[s] = "running" /\ c \in targets[s]

(* A started session never overwrites one that was not taken out of the    *)
(* map and stopped (startCameraFromPayloadLocked_, sessions_[id] = ...).   *)
NoOverwrite ==
  [][\A c \in Cameras : sessions'[c] # sessions[c] => None \in {sessions[c], sessions'[c]}]_vars

(* A thread that takes the admission mutex gives it back, also when the    *)
(* roll-back of a start stops cameras under it (startJobStepCameras_).     *)
MutexReleased == \A t \in Threads : admission = t ~> admission # t

-----------------------------------------------------------------------------
(* Three more statements the code does not keep: TLC refutes each with the *)
(* constants of CameraSharingOwners, a shared configuration and no fault   *)
(* (README, section 3).                                                    *)

(* A running step has the sessions its startStep started                   *)
(* (startJobStepCameras_ against the stop of another owner).               *)
RunningStepHasCameras ==
  \A s \in Steps : steps[s] = "running" /\ At(JobOf[s], "idle") =>
    \A c \in targets[s] : Quiet(c) => sessions[c] # None

(* A camera whose direct service is requested has a session                *)
(* (start_camera reusing a session that another owner is about to stop).   *)
DirectServiceHasSession ==
  \A c \in requested : Quiet(c) => sessions[c] # None

(* A search only stops the session of a search                             *)
(* (stopTemporarySessionIfSafe).                                           *)
SearchStopIsSafe ==
  [][\A q \in Searches : StopSession(q) => sessions[thread[q].cam] \in {None, "temp"}]_vars
=============================================================================
