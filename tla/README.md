# A formal model of the Drakon server

The repository is a video analytics platform: a web backend keeps accounts,
cameras and jobs in a relational database, and a native agent beside the cameras
captures frames and runs the analysis jobs. This directory holds TLA+
specifications of the parts of it where several processes meet, TLC
configurations that check them on small instances, and TLAPS proofs of the most
important theorems for instances of every size.

## 1. The system

| Component | Where | State | Operations |
|---|---|---|---|
| Job commands and lifecycle | `DrakonSite/src/worker/index.ts`, `jobScheduler.ts`, `operationalPersistence.ts` | tables `commands`, `job_runtime_states`, `job_runs` | start, stop, `GET /api/agent/commands`, `POST .../result`, `POST /api/agent/events` |
| Job scheduler | `jobScheduler.ts` | `cron_locks`, `job_schedule_fires`, `job_schedule_stops` | a tick a second, asked for by the agent |
| Linux agent | `Perceptrum/linux/LinuxJobRuntime.cpp` | the batch in memory, the command being executed | poll, execute, post event, post result |
| Shared job segments | `jobScheduler.ts`, `index.ts` | `shared_job_segments` of operator and owner accounts | start and stop on the cameras of another account, segment updates, finalisation of the run |
| Relay between accounts | `sharedFindRelayState.ts`, `sharedFindRelayClient.ts`, `workspaceRelayClient.ts`, `workspaceRelayState.ts` | sockets, waiters for acknowledgements | connect, dispatch, acknowledge, replace |
| Agent pairing | `index.ts` | pairing codes, executables, tokens | issue, claim, confirm, revoke |
| Local agent ingress | `localAgentIngress.ts` | inbox, dead letters, a table of latest values per route | accept, buffer, replay |
| Windows camera sessions | `Perceptrum/Perceptrum/core/AgentCore.cpp`, `camera/CameraSession.cpp` | `sessions_`, `directServiceRequestedByCamera_`, `jobSessionRefsByCamera_`, four mutexes | start, reuse, replace and stop of a session by the direct service, by job steps and by searches |
| Windows job runtime | `Perceptrum/Perceptrum/jobs/JobRuntime.cpp` | `running_`, a worker thread per instance, temporal slots | `job_start`, `job_stop`, destructor |
| Windows job step engine | `jobs/JobRuntime.cpp` | step states of one run | start, condition, deadline and end of a step |
| Linux camera sessions | `Perceptrum/linux/LinuxCameraSessionManager.cpp` | sessions, worker threads, frames | start, stop, restart, snapshot |
| Frame buffers and capture | `Perceptrum/Perceptrum/camera` | ring buffers | push, read |
| Windows agent core | `Perceptrum/Perceptrum/core/AgentCore.cpp` | workers, timers, queues | scheduler ping, heartbeats, command workers |
| Accounts and identity | `centralIdentity.ts`, `localIdentity.ts`, `accountAccess.ts`, `accountDeletion.ts` | account rows | request-scoped checks |
| Linux desktop supervisor | `Perceptrum/linux-desktop` | child process | start, restart, stop |
| Reporting, queries, semantics | `reporting/`, `operationalQuery/`, `semantic/` | none of their own | pure transformations of rows |
| Web application | `DrakonSite/src/react-app` | view state | rendering |
| Windows host | `AppHost` | windows, settings | rendering, packaging |

### How the parts interact

A user's start request, or a schedule window that opens, becomes one row of
`commands` of type `job_start`. The agent polls that table once in a while,
gets the pending rows of the account, executes them one after the other and
reports the result of each. A job on the Linux agent is a chain of such rows: the
result handler of one cycle inserts the `job_start` of the next cycle. A stop is
a `job_stop` row. What the user sees is `job_runtime_states.status`, which four
different handlers write, each without looking at what the others wrote.

The backend runs one Node process; handlers are asynchronous functions and every
`await` on the database lets any other handler run. There are no transactions
and no row locks around these sequences. The agent gives up a call after five
seconds and does not repeat it, while the handler in the backend goes on.

A job on cameras of several accounts is cut into segments. The operator's server
sends each remote one through a central relay to its owner's server, which
inserts a `job_start` row for the owner's agent and acknowledges. Events and
results of that agent travel back the same way, and the operator puts the status
of the run together from its own rows.

On an agent server (a backend installed beside the agent) events, thumbnails,
metrics and snapshots are not handled when they are posted: they are put in a
table, and a pump replays them to the same handlers one round at a time.

The Windows agent executes `job_start` and `job_stop` on its command thread; each
job runs in a thread of its own, which is given one segment and starts and ends
its steps. A step has a worker for each camera, whose answers are the conditions
other steps start on. Steps, the direct service (`start_camera`, `stop_camera`
commands) and searches share the camera sessions: whoever starts one leaves a
mark, a request or a reference, and whoever withdraws the last mark stops it. No
lock spans the look for other owners and the stop.

### What makes each part correct

* Commands and lifecycle: no command is executed twice; the cycles of a run never
  fork; without faults every command gets a final status; a stop is not undone.
* Scheduler: one start and one stop per window, and no boundary is missed.
* Shared segments: an owner's agent is told once to start and once to stop; a run
  is reported completed or stopped only when that is true on every account; a
  stop reaches every account; a start that fails leaves nothing running.
* Camera sessions: a session has an owner, an owner has a session, and nobody
  stops or overwrites what another one uses.
* Job runtime: runs of one job do not overlap, do not use each other's tag or
  memory, and commands come back.
* Job step engine: a step waits for the workers of its predecessor; a job that
  ends leaves no worker; it is given up only when nothing can start; jobs, stops,
  successors and triggers come through.
* Local ingress: no event notifies twice, overtakes one that never failed, or is
  lost; the last value of a key is served.
* Relay, pairing (planned): a waiter is answered once, a code is claimed once.

### What is hard

Everything listed under `hazards` in `PROJECT.json`, at its line. The short form:
check-then-act sequences over three tables without a lock; handlers that outlive
the call that started them; results and events that arrive after the job was
stopped; a scheduler lock that expires by time; keys taken before the work they
stand for; an agent that may restart with a batch in memory; handlers of several
accounts with messages lost, doubled, late or overtaken between them; camera
sessions whose owners come and go without a common lock; joins of threads that
post events, or drain, while they are waited for; triggers and answers that
change between two scans of the steps; and stored requests replayed after a
failure or a crash, or overwritten while they are replayed.

## 2. The modules

| Module | What it is |
|---|---|
| `CommandQueue` | abstract: a row is executed at most once, and a row given up never comes back |
| `JobLifecycle` | the handlers for start, stop, poll, event and result, and the agent's worker thread |
| `JobLifecycleProofs` | type correctness, at-most-once execution, one live cycle per run, refinement of `CommandQueue`; without faults no command is dropped or goes back |
| `JobScheduler` | the scheduler tick: lock, slots, keys, runtime row |
| `JobSchedulerProofs` | type correctness, one start and one stop per window, no second missed |
| `SharedSegments` | a run over several accounts: operator, relay, owners and their agents |
| `SharedSegmentsProofs` | type correctness, one command per request, accepted starts, completed runs |
| `SharedSegmentsStopProofs` | what a stop of such a run achieves: stopped runs, a `job_stop` everywhere |
| `EventDelivery` | abstract: accepted events are recorded in their order unless they failed, told once, and settled only when recorded or buried |
| `AgentIngress` | inbox, dead letters and latest values of an agent server, the pump, the event handler |
| `AgentIngressProofs` | type correctness, no double notification, order, nothing lost, refinement of `EventDelivery`; events are used up and latest values come to the front |
| `CameraSharing` | the owners of camera sessions on the Windows agent, by critical section |
| `CameraSharingProofs` | type correctness, no session without an owner or, for disjoint steps, without a use, none overwritten, the admission mutex on its way back |
| `JobRuns` | abstract: one run of a job at a time, which speaks for itself and has its slots to itself |
| `AgentJobs` | command thread, worker threads and `mu_` of the Windows job runtime |
| `AgentJobsProofs` | type correctness, four safety properties, refinement of `JobRuns`, stops that are never blocked |
| `JobSteps` | the step engine of one job: conditions, deadlines, drains, stalls, stops |
| `JobStepsProofs` | type correctness, three safety properties, and what joins, stops and successors rest on |
| `MC...` | of each of the seven state machines, its instances for TLC |

The modules stand side by side, three of them below an abstract specification
of what the component promises: `JobLifecycle` refines `CommandQueue`,
`AgentIngress` refines `EventDelivery` and `AgentJobs` refines `JobRuns`
(`QueueSpec`, `DeliverySpec` and `LeaseSpec`; the mapping is written beside
each). An abstract specification says nothing of rounds, retries, mutexes or
joins, and its steps are the only ones that count: a step of the detailed module
is one of them or a stutter. Otherwise the modules
meet at states of the code that each models from its own side. The rows a
`JobScheduler` tick inserts are the scheduled starts of `JobLifecycle`. The
commands of a segment in `SharedSegments` are rows of that table too; there the
agent just takes them in order. A `job_start` of the Windows agent is an instance
of `AgentJobs`, whose thread is the job thread of one `JobSteps`; the segment it
is given is a set of cameras there, and the starts and ends of its steps are the
step operations of `CameraSharing`. On an agent server the job events of
`JobLifecycle` go through `AgentIngress` first, which is why the order in which
they are replayed matters.

Definitions commented "Mutant of ..." are wrong variants of the action they
name. No specification uses them; they are there to show, by putting them in
that action's place, that each checked property can fail.

### JobLifecycle

One action is one SQL statement, or one step of the agent between two calls. The
correspondence:

| State | Code |
|---|---|
| `commands`, `lastId` | rows of table `commands` by id: type, `job_run_id`, `created_at` (`at`), whether `not_before_utc` has passed (`due`), `status` |
| `runtime` | `job_runtime_states.status` of the job |
| `runStatus` | `job_runs.status` by `job_run_id` |
| `start`, `stop` | where each request is, and the `created_at` it took |
| `poll` | the locals of each `GET /api/agent/commands`: rows still to look at, ignored rows whose update is under way, rows of the answer, the runtime status it cached, the windows that were over when it read the clock |
| `report` | the locals of each result handler, by command |
| `events` | `job_agent_completed` events on their way |
| `agent` | the worker thread: idle, polling, working off a batch, executing, posting, reporting |
| `executed`, `windowOver`, `clock`, `faults` | history of executions, closed windows, source of time stamps, faults so far |

A start takes five statements (`StartQueueRun`, `StartInsert`, `StartMarkRun`,
`StartMarkRuntime`, `StartEvent`) after `StartCheck`; a stop two; a poll one
select, a read of the runtime row, one step per row, the updates of ignored rows, one update of the answer's rows and one
upsert per `job_stop`; a result handler up to six. `PollFails`, `StartPlanFails`,
`StopFails`, `ResultFails` end a handler at any statement; `AgentTimeout` gives up
a call whose handler goes on; `AgentReportLost` loses a result; `AgentRestart`
forgets the batch.

### JobScheduler

Times are seconds of one local day. A tick (`TickArrive` .. `StopMark`) reads the
lock, writes it, computes the slots `now - Lookback .. now`, and works off the
boundaries that match them in order: start check, fire key, plan, runtime row for
a start; stop key, runtime check, plan, runtime row for an end. `ClockAdvances`
states the two timing premises: the agent's calls are at most `MaxTickGap`
seconds apart, and a tick computes the slots at most `MaxDelay` seconds after it
read the lock.

### SharedSegments

| State | Code |
|---|---|
| `run` | `job_runs.status` of the run, at the operator |
| `seg` | the operator's `shared_job_segments` rows; queued, dispatching, running and stopping are one status, `active`, since no decision tells them apart |
| `start`, `stop` | the locals of `executeJobStartPlan` and of the stop request |
| `ack` | the relay's waiters for acknowledgements, by request and segment |
| `toOwner`, `handling` | forwarded copies on their way, and the owner's handlers between their read and their write |
| `own`, `starts`, `stops` | the owner's row, and the commands inserted for a segment |
| `queue`, `rt` | the commands the agent has yet to execute, and the segment in its runtime |
| `toOperator` | messages on their way back; they arrive in any order |
| `writing` | finalizers that have read the rows and have yet to write the run |

The start request is `StartRun` .. `StartFinish`, with `Rollback` when it throws;
the stop request `StopRequest` .. `StopAnswered`; the relay `Forward`, `Settle`,
`AckTimeout`, `LoseRequest`; an owner `ReadStart`, `FinishStart`, `RefuseStart`,
`ReadStop`, `FinishStop`; an agent `ExecStart`, `ExecStop`, `End`; the operator's
handlers `Receive`, `WriteRun` and `Progress`. `StartThrows` fails a statement of
the start: a write of a segment row, the row or the run after an answer of the
relay, or what comes before the job_start of the own cameras; `Dispatched` is what
it rolls back, an accepted segment whose row is not written yet included.

Two kinds of event reach the operator. Those of `SHARED_JOB_LIFECYCLE_EVENT_TYPES`
are `Receive`. All others (`job_step_...`, `job_agent_...`, `job_alert_...`, from the
own agent through index.ts:64908 and from an owner through
`replaySharedJobEventOnOperator`) go through `persistStructuredAgentEvent`, whose
`ensureJobRunRow` (operationalPersistence.ts:755) sets `job_runs.status` to running
whatever it was. That is `Progress`: it opens a run again that has ended, after
which `Receive` may give it another final status.

Simplified: a finalizer reads the segments and the run at once; a run has one stop
request; the agents are Windows agents, which report by events;
`INSERT ... WHERE NOT EXISTS` is atomic; crashes of servers and agents are left
out. The way of a `Progress` event is left out too: as it may be late and
repeated, it comes at any time after its segment was executed, also from a segment
whose start failed at once, which posts none.

### AgentIngress

| State | Code |
|---|---|
| `inbox`, `attempts`, `dead` | row of an event in `agent_event_inbox` (due, or paused until its next attempt), its `attempt_count`, its rows in `agent_ingest_deadletter` |
| `recorded`, `notified`, `jobRun`, `runtime` | what the handler writes: `events`, `notifications`, and the event whose status `job_runs` and `job_runtime_states` have |
| `latest`, `older` | rows of the tables of latest values, and the order of their `updated_at` |
| `turn`, `owed` | history: the value last posted for a key, and whether its handler has seen it |
| `pump` | the round of `drainLocalAgentIngress` on its way: the events and rows it has read, the one it replays, the keys overwritten since it read them |

`Check`, `Insert`, `Persist`, `Notify` and `WriteRuntime` are the statements of the
event handler; `DeleteEvent`, `Retry` and `GiveUp` what the pump does with its
answer; `NextRoute`, `Serve`, `Refuse`, `DeleteServed` and `MarkRefused` the same for
latest values. `HandlerFails` fails a statement of a handler, `LoseRound` a
statement of the pump, or restarts the process. Simplified: the rows of one batch of latest values
are replayed in any order; no two rows share a millisecond of `created_at`
or `updated_at`; the events are those of one job, each with a bell notification
and a runtime status; the agent does not repeat a post that was accepted; the
other effects of the event handler (identity cards, hunts, camera states) are
left out.

### CameraSharing

| State | Code |
|---|---|
| `sessions` | `sessions_`, each session by its start configuration (`matchesStartConfig`): that of the direct service, of a job, or of a search |
| `requested` | `directServiceRequestedByCamera_` |
| `refs` | `jobSessionRefsByCamera_`, by camera and step |
| `admission` | holder of `resourceAdmissionMu_` |
| `steps`, `targets` | `StepRun::state` and the targets `startStep` has left of a step |
| `thread` | where each thread is in its operation, and its locals |
| `runs`, `faults` | bounds: starts of a job, sessions that failed to start |

A start is `LockForCamera` (or `LockForStep` for all cameras of a step at once),
then one of `ReuseSession`, `RefuseSession`, `ReplaceSession` and `CreateSession`,
all under the admission mutex. A stop is a withdrawal (`StopDirect`, `Release`),
the looks for other owners (`CheckConsumers`, `CheckDirect`) and `StopSession`,
each under a mutex of its own that is given back in between. A failing start of a
step rolls back what it had acquired, under the admission mutex
(`RollBack`, `Leave`). With `SharedCfg` the payloads of jobs and of the direct
service give a camera the same configuration, without it every change of owner
replaces the session. Simplified: the temporary sessions of searches are one kind
of configuration, and a search that has started its session is taken to have it.

### AgentJobs

| State | Code |
|---|---|
| `mu` | `JobRuntime::mu_`, where it is held over a wait |
| `cmd` | the command thread inside `onJobStartCommand`, `onJobStopCommand` or, at last, the destructor |
| `running` | `running_` |
| `jobOf`, `cancel`, `worker` | the instances: their job, their `cancel` flag, where their thread is |
| `memory` | whose slots `temporalBySlot_` holds, by job |

A worker posts an event in two steps, `Lookup` under `mu_` and `PostEvent`
outside it. It starts with `job_started`, works (`Work`, `StepEvent`), and ends by
any of its four ways out (`EndJob`) with an event and `WorkerClear`. The workers of
single steps are no part of this module: those that outlive an exception of the
job thread (JobRuntime.cpp:8906 joins none of them) could still write a slot after
the clear, which no statement here excludes.

### JobSteps

| State | Code |
|---|---|
| `def`, `cams` | the steps of the job and the cameras of the segment `buildSegmentPayload` was called for |
| `state` | `StepState` of each step, or `absent` when the segment has none of its cameras |
| `worker` | the worker of a step for a camera: capturing, waiting to be finalized, draining, given up (`gone`), done |
| `left` | ticks left to the capture deadline of a step |
| `asked` | the reason `finalizeStep` was last called with |
| `answer`, `triggered` | the last sentiment of a step, `triggeredStartStepIds` |
| `age`, `cancel` | the clock against the delays of steps, `job->cancel` |
| `loop`, `ended` | position of the job thread in `runJob_`, the event that ended the job |

The job thread is `NextIteration`, `StartStep`, `LastStarted`, `FinalizeAtDeadline`,
`JoinWorkers`, `Decide`, `FindRunnable`, `FindFuture` and, once cancelled,
`FinalizeStopped` and `LastStopped`. The workers are `EndCapture`, `BeginDrain`,
`Infer`, `GiveUp`, `EndDrain` and `WorkerFails`. A decision that reads the clock,
the answers and the triggers at two points (the scans of a stalled job) is two
steps. An output may come without a sentiment, and names one step to start or
none, any step of the job and not only those that name its own. A job whose last
step has ended is stopped and not completed if it was cancelled meanwhile.
Simplified: a step has one answer, not one for each camera, and it is kept
only where a condition reads it, as is a trigger only of a custom step; group and portal workers are camera workers; the
hard stop is the end of a drain; steps are scanned in any order; which cameras of
a step start is one choice; the report that closes temporal agents is left out.

## 3. What is checked

| Run | Question | Bounds | Result |
|---|---|---|---|
| `JobLifecycleFaults` | is a command ever executed twice, do the cycles of a run ever fork, is the table an at-most-once queue | one scheduled start with a next cycle, one stop, two handlers, 3 rows, 1 fault | holds |
| `JobLifecycleSettle` | does every command get a final status, also when two starts pass the check together | 2 starts, 3 rows, no faults, fairness | holds |
| `JobLifecycleStopSticks` | does an acknowledged stop stay | no faults, 2 next cycles, 4 rows | violated |
| `JobScheduler` | one start and one stop per window, and is every boundary seen | 3 ticks, 2 adjacent windows, 1 crash or failed plan, slots computed at once | holds |
| `SharedSegments` | is a segment started and stopped once, and is what the run reports true everywhere | 1 remote and 1 local segment, 1 stop, 1 loss, duplicate, refusal or late answer, events of steps at any time | holds |
| `SharedSegmentsRollback` | does a start that fails stop what it has dispatched | 2 remote segments, 1 fault | violated |
| `AgentIngress` | is an event ever notified twice, reordered or left behind, is every step one that `EventDelivery` allows, is the last value of a key served | 3 events, one always refused, batch 2, 2 attempts; 3 keys in 2 tables, one refused, batch 1; 1 failing statement or crash; fairness | holds |
| `CameraSharingOwners` | is a session ever left without an owner, or overwritten, and is the admission mutex given back | 2 cameras, 2 steps of a job, direct service, a search, 1 failed start, fairness | holds |
| `CameraSharingPressure` | with starts refused for lack of memory, do references end with their step | 2 cameras, 2 jobs with one step each and two runs, direct service, 1 failed start | holds |
| `AgentJobs` | are runs of a job kept apart (threads, tags, memory) as `JobRuns` has it, and does a stop return | 2 jobs, 3 starts, fairness | holds |
| `AgentJobsRestart` | does the start of a running job return | 1 job, 2 starts, fairness | violated |
| `JobSteps` | do steps wait for each other, and do jobs, stops, successors and triggers come through | 12 jobs of three steps (chains, forks, loops), 2 cameras, the whole job or the part of one camera, windows and delays of one tick, 1 exception, fairness | holds |

The violated properties are statements of comments, messages or answers in the
code; `PROJECT.json` quotes each and names the statement that breaks it.

A module may hold further statements the code does not keep, most of them in its
last section. No run has them; to see TLC refute one, add it to the configuration
named:

| Statement | Configuration | What happens |
|---|---|---|
| `JobLifecycle!OneLiveRun` | `JobLifecycleSettle` | two start requests read the runtime row before either writes it, and both insert a `job_start` (index.ts:40161); `CommandsSettle` holds for both, and `OneLiveCyclePerRun` and `CommandQueue` speak of one run and of one row |
| `JobLifecycle!StoppingIsBacked` | `JobLifecycleStopSticks` | the poll takes the `job_stop` and writes stopped before the stop request writes stopping (index.ts:40306); the job stays at stopping, for which starts are refused |
| `JobLifecycle!RunningIsBacked` | `JobLifecycleStopSticks` | the agent has failed the command before the start request writes running (jobScheduler.ts:3601); the job stays at running and starts answer `already_running` |
| `SharedSegments!StoppedMeansStopped` | `SharedSegmentsReopened.cfg` has it | an owner acknowledges too late and the run is failed; an event of another segment sets it to running (operationalPersistence.ts:799); the stop ends that segment and the run is reported stopped, while the slow owner has still to insert its `job_start` |
| `JobScheduler!TicksDoNotOverlap` | `JobScheduler` | the lock is read and written in two statements and expires by time (jobScheduler.ts:2592) |
| `JobScheduler!NoBoundaryMissed` | `JobScheduler`, `MaxDelay = 1` | lock time, gap between calls and delay add up to more than the lookback |
| `JobScheduler!EndedWindowStops` | `JobScheduler`, two ticks, one window, `Width = 1`, `MaxTime = 6`, `MaxFaults = 0` | the end of a window is decided on a runtime row its start has not written yet (jobScheduler.ts:4115) |
| `CameraSharing!RunningStepHasCameras` | `CameraSharingOwners`, `SharedCfg = TRUE`, `MaxFaults = 0` | a step reuses a session between another owner's check and its stop (AgentCore.cpp:9177) |
| `CameraSharing!DirectServiceHasSession` | the same | `start_camera` reuses a session in the same gap |
| `CameraSharing!SearchStopIsSafe` | the same | the session compared is not the session stopped (AgentCore.cpp:19784), in spite of the function's name |
| `CameraSharing!NoOrphanSession` | `CameraSharingPressure`, `SharedCfg = FALSE` | a refused `start_camera` withdraws the request on which the last release of a job has just relied (AgentCore.cpp:7500) |
| `CameraSharing!SessionInUse` | `CameraSharingPressure`, `Cameras <- OneCamera`, `Jobs <- OneJob`, `JobOf <- SameJob`, `Pressure = FALSE`, `MaxRuns = 1`, `MaxFaults = 0` | a step that ends while another step of its job uses the camera keeps its reference (JobRuntime.cpp:8646); the session is never stopped |
| `JobSteps!StallIsSeen` | `JobSteps` | a step whose predecessor is not in the segment, with `on_missing_input` "fail", never starts and counts as one that may (JobRuntime.cpp:8773); the job is not given up |
| `JobSteps!DrainedAtDeadline` | `JobSteps` | a worker waits one second to be asked for the drain while the job thread joins another step (JobRuntime.cpp:8161); what it has captured is not analysed |
| `AgentIngress!EffectsComplete` | `AgentIngress` | a handler that fails after the insert into `events` is replayed as a duplicate; its notification and runtime row are never written (index.ts:63762) |
| `AgentIngress!LastEventStands` | `AgentIngress` | an event that failed is applied after its successors (localAgentIngress.ts:279) |
| `AgentIngress!BuriedOnce` | `AgentIngress` | a crash between the insert of the dead letter and the delete of the row repeats it |

Several checked properties have a premise that is there because the statement
without it is false. What happens when one drops it:

| Premise | Without it |
|---|---|
| `~stop.early` in `SharedSegments!StoppedEverywhere` and `StopReaches` | a stop that overlaps with the dispatch finds segments that have no row or no command yet; they start after it, and the run is reported stopped |
| `start.ok` in `StoppedEverywhere` | the row above of `StoppedMeansStopped`: a run that failed at its start is open again after an event of a segment that runs on |
| `faults = 0` in `StopReaches` | a segment whose acknowledgement came after the twelve seconds is failed for the operator and runs at the owner |
| none on the last status of a run | `SharedSegments` states what a run may be reported as, not that it stays so: the last write of the start, and a second finalizer that read earlier, overwrite a status that was final (jobScheduler.ts, end of `executeJobStartPlan`; index.ts:22389), and a run all of whose segments ended early stays at running |
| `def[s].mode = "time"` in `JobSteps!StallIsReal` | the clock is read once for "runnable now" and once for "later" (JobRuntime.cpp:8817-8867): a step due in between is in neither |
| `"job_failed"` in `JobSteps!EndsQuiet` | an exception of the job thread (JobRuntime.cpp:8906) joins nobody |
| `~Missing(s)` in `JobSteps!JobEnds` | with `on_missing_input` "fail" a step waits for a step that another account's segment has (JobRuntime.cpp:8773, sharedJobPlan.ts:281) |
| `Waits(s)` in `JobSteps!TriggerHeard` | a custom step that names no step, or one that is not in the segment, is not started by a trigger (JobRuntime.cpp:9012) |
| triggers only, in `JobSteps!TriggerHeard` | an answer is overwritten by the next one before the job thread has read it |

Bounds. Three rows are a start, its next cycle and a stop: enough for the
pending-cycle check, for a poll that sees a stop and a start, and for a handler
that outlives two polls; a second next cycle is only needed for a stop that comes
between two cycles. Two poll handlers suffice for
an abandoned one beside a live one. One fault suffices for each of the races
found, and two faults multiply the states without a new kind of step. For the
scheduler two ticks race for every statement; three are needed for a slow tick
between two fast ones. The clock range covers both windows and the time by which
a boundary must have been seen. One remote and one local segment are the two
kinds there are, and overlapping handlers of one owner are those of its doubled
requests; two remote segments are what a rollback needs, and what it takes for one
account to run while another is late. `SharedSegmentsAccounts.cfg` checks
`StoppedEverywhere` and `StopReaches` of two remote segments, with the accounts
symmetric and without the states of which the two say nothing (after an early stop
or a start that failed); they hold, as they do for any number by `StoppedIsTrue`
and `StopReachesAll`. Three events give a batch of two with one left
out and one that fails between two others; two tables and a batch of one make a
refused and a busy key stand before the one that waits. Two cameras are what a roll-back needs, one
started and one failed; two steps of one job and one step each of two jobs are
the two ways in which references meet, and three kinds of owner race in pairs.
Three starts of two jobs are a replaced run, its successor and a bystander. Three
steps are a predecessor, a successor and a step beside them or after them, and
the jobs cover each start condition behind a step that may drain, be refused or
be missing from the segment.

Deadlock is checked for `JobLifecycle` and `AgentIngress`. It is not for the
scheduler, where the clock bound stops the model; for the cameras, where all
steps have ended and searches rest; for `AgentJobs`, which ends with the
destructor; for `SharedSegments`, which ends with its one run; and for
`JobSteps`, which ends with its job.

Fairness. `FairSpec` of `JobLifecycle` asks for weak fairness of the steps of each
request, of each handler, of the agent's loop and of time. Node runs the
continuation of a query when the query is done; the agent's loop never ends while
the process runs; none of it is asked of users, windows or faults.
`CommandsSettle` is checked without
faults: a lost answer does leave rows at `sent`, by the code's own design.
`FairSpec` of `CameraSharing` asks that a thread inside an operation is scheduled.
`FairSpec` of `AgentJobs` asks that the command thread and the workers are
scheduled, that a thread that finds `mu_` free again and again gets it (strong
fairness), and that a cancelled job ends, since its loop reads `cancel` in every
round; that a job ends by itself, or that anybody sends a command, is not asked.
`FairSpec` of `JobSteps` asks that the job thread and the clock go on, and that
each worker leaves the phase it is in once it may: the capture loop reads clock
and flags in every round, the wait and the drain end by time, and a request to
the model has a time-out. That a camera delivers or a trigger comes is not asked.
`FairSpec` of `AgentIngress` asks that the pump goes on (its timer ticks, and a
replayed request runs in the same process and is answered) and that the pause of
an event ends; the agent may post latest values without end.
`JobScheduler` and `SharedSegments` are checked for safety only.

## 4. What is proved

All theorems hold for every value of the constants that satisfies the modules'
assumptions (finite or infinite sets of requests, any bounds), but for
`MutexComesBack`, which assumes that `Cameras` is finite, and `StopComesNearer`,
which assumes it of `Steps`: both count what is left to do. Other premises of a
theorem are named below.

* `JobLifecycleProofs!TypeCorrect`, `RunsOnce`, `ImplementsQueue`. The invariant
  `Inv` adds to type correctness and `ExecutedOnce` that the agent knows the
  command it works on (`CurrentKnown`), that nothing refers to a row that was not
  inserted (`RowsUsed`), that a handler past its update holds no pending row
  (`HandlersInv`), and that the agent's memory holds no pending row and is empty
  while it polls (`AgentInv`). `QueueStep` shows that every step either only
  takes rows out of `Waiting` (`Shrinks`), inserts one (`Posts`) or executes one
  (`Executes`); at-most-once execution and the refinement both follow from that
  case distinction. Why the invariant is needed: a poll handler does not lock
  its rows, and only the fact that the agent has one call open at a time and
  polls with an empty memory keeps a second poll's copy of a row away from it.
* `JobLifecycleProofs!OneCycle`. The invariant `CycleInv` says that a run has one
  carrier at most: the row still to be executed, the one the agent executes, or
  the one whose result handler may still insert the next (`Carries`, `OneCarrier`).
  A carrier is handed on, never copied, because a row is executed once and its
  handler starts after the agent is through with it. The handler's own
  look for pending rows of the run is not needed for it.
* `JobLifecycleProofs!NothingDropped`, `CommandsGoForward`: without faults a row
  is always in somebody's hands, and passes from one pair of hands to the next
  only: pending, in an answer, in the batch, executed, posted, reported, settled.
  `Calm` is what this rests on: while `faults` is 0 every poll but the one the
  agent waits for has ended (`OneCall`), and that one holds rows that are pending
  until it marks them (`Holds`, `TakenRows`).
* `JobSchedulerProofs!TypeCorrect`, `FiresOnce`, `NothingMissed`. For the keys the invariant says that a tick
  past the fire key is alone in holding it: a window that is not fired has no
  start in progress and no launch, and at most one tick is between the key and
  the launch; likewise for stops. For the seconds it says how far what the
  ticks have examined, or are about to, reaches behind the clock.
  `NothingMissed` assumes `LookbackSuffices`: slots are
  computed at once, and the lookback covers the gap between calls, and lock and
  gap together but for two seconds; the table above has the counterexample with
  a delay.
* `SharedSegmentsProofs!TypeCorrect`, `InsertedOnce`, `AcceptedPosted`,
  `CompletedIsTrue`. The invariant has what the start has at each
  position (`Positions`), that at most one command of each kind was inserted (`Counts`), that an acknowledgement has
  a command behind it (`Accepted`), and that a row at completed, or a message that
  says so, is true of the agent (`Completed`, `Fresh`). Messages may be late and
  overtake each other and it still holds, because completed is a status that an
  agent never takes back.
* `SharedSegmentsStopProofs!StoppedIsTrue`, `StopReachesAll`. A stop that is not
  early finds a start that is over. `StartHas` says which commands are in their
  tables at each position of the start, `Follows` that a request to stop is on
  its way only to a segment that was told to start, and `Behind` that a
  `job_stop` in a queue has no `job_start` after it. An agent that has executed
  a `job_stop` is therefore through with the segment, and each report of an end
  is true however late it comes (`StoppedDead`). Nothing is assumed of the status
  the run has in between, so events that open an ended run again (`Progress`) do
  not matter. `StoppedIsTrue` speaks of starts that went well (`start.ok`): after
  one that failed an owner may still be at work on it, see the table above. For runs
  without faults a second invariant (`CalmInv`) adds that acknowledgements tell
  the truth, so that a row at an end, which the stop passes over, belongs to a
  segment that will not run (`EndsTrue`), and follows each stop to its table
  (`StopHas`).
* `AgentIngressProofs!TypeCorrect`, `OnceNotified`, `OrderKept`, `NoneLost`,
  `NewestHasRow`. The notification is safe because its handler goes past the
  insert into `events` only when that row is new (`Handled`, `Notified`). Order
  rests on `Ordered`: an event that never failed is not older than the one the
  runtime row has, and no batch passes over it. `NothingLost` and `NewestKept`,
  the safe halves of `EventsSettle` and `LatestServed`, say that a row leaves its
  table only when its content has been used.
* `AgentIngressProofs!ImplementsDelivery`. Each statement of the event handler is
  one step of `EventDelivery`; rounds, pauses, the deletes of latest values and
  lost rounds are stutters. `Advanced`, the invariant it needs beside the
  others, relates the status of the run to the events to come: it is not
  past one that never failed, and it is the handler's own while the handler
  notifies and writes the runtime row.
* `AgentIngressProofs!NobodyHeldUp`, `EventsUsedUp`. The rows of a table stand in a
  line (`Lined`: finite, total, transitive), and what a round has read and nobody
  has overwritten stands before all others of its table (`FrontFirst`). It leaves
  that place when it is served, refused or posted again, so that every row behind it
  gets nearer however often the others are posted. For events the oldest that is due is
  in every round, and each round it goes through counts an attempt.
* `CameraSharingProofs!TypeCorrect`, `NoOrphan`, `NeverOverwritten`, `KeptInUse`. The invariant
  places every thread (which locals it has at each position, and that it holds
  the admission mutex exactly inside a start) and says that a session has an
  owner or somebody responsible: a thread that has started it and has not marked
  it yet, or one that has withdrawn and has not looked yet. The order withdraw
  first, look second hands the responsibility to the last one. `NoOrphan` assumes
  `NoConflict`: starts are not refused, or configurations do not differ; without
  it the table above has a counterexample. `KeptInUse` assumes `DisjointSteps` as
  well, the steps of a job share no camera (else the table above has the
  counterexample), and rests on a second invariant (`UseInv`): a step holds at most one reference to
  a camera, as a target of its run or as a camera its job has just acquired
  or has still to release (`MayHold`); so a thread that is through with a step
  leaves no reference of it behind.
* `AgentJobsProofs!TypeCorrect`, `OneWorker`, `OwnTag`, `SlotsFreed`, `SlotsKept`.
  The invariant says that a live worker is the instance of its job in `running`
  (`TableInv`), what the command thread holds at each
  position (`CmdInv`), and that slots belong to live workers (`MemoryInv`). The tag
  of an event is right only because a worker is in the table for as long as it
  lives, which is what the join before the erase is for. `ImplementsRuns` maps
  the workers to the runs of `JobRuns`; a run begins there when its thread is
  spawned, and what makes that legal is the join and the clear of slots before it.
* `AgentJobsProofs!StopNeverBlocked`, `EndComesNearer`: a stop finds `mu_` free at
  each of its positions, the worker it joins has a thread and was told to end, and a
  worker that has left its loop only comes nearer to its return (`PostsLeft`).
  `Waiting` says where `mu_` is held over a wait: in a start that joins and in
  the destructor, never in a stop.
* `CameraSharingProofs!HolderNeverWaits`, `MutexComesBack`: the holder of the
  admission mutex is always at a position that waits for nobody, and while it
  keeps the mutex it either stands still or lowers a rank over its position and
  the cameras left.
* `JobStepsProofs!TypeCorrect`, `OneAfterAnother`, `QuietEnd`, `StallCorrect`. Workers
  live only in running steps (`LiveRuns`), a sequential step has left pending only
  after its predecessor was over (`Ordered`), and what each scan has seen is still
  true when the next one decides (`Scans`, `Rests`, `Verdict`): with no step running
  there is no worker that could post a trigger or an answer, so between the scans
  of a stall nothing moves but the clock.
* `JobStepsProofs!JoinsComeBack`, `StopComesNearer`, `RunnableIsTaken`,
  `NoneForgotten`: a worker the job thread joins is not waiting for the job
  thread in turn; once cancelled, each move of the job thread lowers a rank over
  its position and the steps that are not finalized; a step whose turn has come
  or that was triggered stays runnable until a scan takes it, and a job that
  completes or stalls has left none of them.

Only model-checked: the properties under fairness (`CommandsSettle`,
`MutexReleased`, `StopReturns`, `JobEnds`, `StopEnds`, `SuccessorStarts`,
`TriggerHeard`, `EventsSettle`, `LatestServed`), and of course the violations.
Liveness and ENABLED are outside this prover. What is proved of most of them is
the safe half: somebody is always able to go on, and each step goes in the right
direction. The other half, that steps which can be taken are, is what the fairness
says and what TLC checks. For them the table reads:

| Property | Safe half | Not proved |
|---|---|---|
| `CommandsSettle` | `NothingDropped`, `CommandsGoForward` | that the agent and the handlers go on |
| `MutexReleased` | `HolderNeverWaits`, `MutexComesBack` | that the holder is scheduled |
| `StopReturns` | `StopNeverBlocked`, `EndComesNearer` | that a cancelled loop ends, and that `mu_` is given to who waits |
| `StopEnds` | `JoinsComeBack`, `StopComesNearer` | that a worker past its deadline drains |
| `SuccessorStarts`, `TriggerHeard` | `RunnableIsTaken`, `NoneForgotten` | that the job thread comes to its next scan |
| `EventsSettle` | `NoneLost`, `EventsUsedUp` | that rounds go on and pauses end |
| `LatestServed` | `NewestHasRow`, `NobodyHeldUp` | that rounds go on |
| `JobEnds` | none | rests on the clock, the workers and the scans together |

## 5. What is not modelled

Within the modelled components: time zones, days and dates of the schedule (one
day is modelled), command types other than `job_start` and
`job_stop`, and calls of the agent that take longer than its own time-out
allows. A manual start has no window
end: its trigger carries no window. Of a shared run: how a job is cut into
segments, cross-camera updates and the camera rows. On the Windows agent: capture
references and the reports a session sends, pipelines between steps, coverage
accounting, cross-camera hunts, and shutdown of the sessions.

Places the reading turned up that no property covers, most of them in those parts:

* index.ts:68217: a poll takes twenty rows; with more, a `job_stop` waits behind
  older `job_start`s.
* jobScheduler.ts:2505: `Intl` may print midnight as hour 24, which no boundary
  matches; it is a mismatch of strings, outside these models.
* index.ts:59588, 59768: the time stamp of a snapshot is taken before its body is
  read, so older content may overwrite newer.
* AgentCore.cpp:7898: the report that a camera stopped is posted after its stop,
  outside every lock, and may overwrite that of a later start.
* AgentCore.cpp:9112: `getCameraSession` returns a raw pointer used after
  `sessionsMu_` is released.
* AgentCore.cpp:4911: the shutdown walks `sessions_` without its lock.
* JobRuntime.cpp:2400: the destructor joins every worker under `mu_`; the same wait
  as in `AgentJobsRestart`.
* JobRuntime.cpp:2546: hunts may outlive the job they belong to.
* JobRuntime.cpp:1748: the folder of a job is removed by a detached thread, which
  a restart of the same job may meet.

Whole components: see the `components` of `PROJECT.json`, with the reason for each.

## 6. Plan

In this order:

1. `RelayAcks`: waiters for acknowledgements, replaced sockets, time-outs, as the
   detail behind `Forward`, `Settle` and `AckTimeout` of `SharedSegments`.
2. `Pairing`: issue and claim of pairing codes by concurrent requests.
3. `Supervisor`: the process supervisor of the headless service.
4. `LinuxCameraSessions` and `FrameBuffer`: threads and ring buffers.
5. Proofs: an abstract specification of a shared run (what the operator may report
   and when) refined by `SharedSegments`, one of the edges of a window refined by
   `JobScheduler`, and the safe half of `JobEnds`.
