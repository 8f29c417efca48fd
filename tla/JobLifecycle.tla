---------------------------- MODULE JobLifecycle ----------------------------
(***************************************************************************)
(* One job of one account: the requests that start and stop it, the table  *)
(* of commands the paired desktop agent polls, and the Linux agent that    *)
(* executes them one by one and reports each result.                       *)
(*                                                                         *)
(* Every SQL statement of the backend is one action; between two of them   *)
(* (two awaits) any other request may run.  Rows of commands are numbered  *)
(* by their autoincrement id.  All rows belong to the same job and run on  *)
(* the local execution domain; segments run by another account are not     *)
(* part of this module.                                                    *)
(***************************************************************************)
EXTENDS Naturals, FiniteSets

CONSTANTS
  Runs,        \* start requests; each mints the job_run_id it is named by
  Scheduled,   \* the starts fired by a schedule window: they have a window end
  Stops,       \* stop requests
  Handlers,    \* executions of the poll handler alive at the same time
  MaxId,       \* bound on the rows of commands
  MaxCycles,   \* bound on the cycles the agent completes
  MaxFaults,   \* bound on time-outs, lost calls, database errors, restarts
  None         \* no run, no handler

ASSUME LifecycleAssumption ==
  /\ Scheduled \subseteq Runs
  /\ MaxId \in Nat /\ MaxCycles \in Nat /\ MaxFaults \in Nat
  /\ None \notin Runs \cup Handlers

Ids == 1..MaxId

VARIABLES
  commands,    \* id -> row of table commands
  lastId,      \* last id given out
  runtime,     \* job_runtime_states.status of the job, "none" without a row
  runStatus,   \* job_run_id -> job_runs.status, "absent" without a row
  start,       \* start request -> its position and the created_at it took
  stop,        \* stop request -> its position and the created_at it took
  poll,        \* poll handler -> its locals
  report,      \* command id -> the result handler serving its report
  events,      \* commands whose job_agent_completed event is in flight
  agent,       \* the worker thread of the Linux agent
  executed,    \* commands the agent has begun to execute
  windowOver,  \* scheduled runs whose window end plus grace has passed
  clock,       \* requests received so far: the source of created_at
  faults       \* faults so far

vars == << commands, lastId, runtime, runStatus, start, stop, poll, report,
           events, agent, executed, windowOver, clock, faults >>

RuntimeStates == {"none", "running", "stopping", "stopped", "completed", "failed"}
RunStates == {"absent", "queued", "running", "completed", "failed"}

Row == [type : {"job_start", "job_stop"}, run : Runs \cup {None}, at : Nat,
        due : BOOLEAN,
        status : {"absent", "pending", "sent", "completed", "failed"}]

NoRow == [type |-> "job_stop", run |-> None, at |-> 0, due |-> FALSE,
          status |-> "absent"]

FreeHandler == [pc |-> "free", todo |-> {}, settle |-> {}, deliver |-> {},
                cache |-> "unread", over |-> {}]

NoReport == [pc |-> "none", outcome |-> "completed", at |-> 0,
             runtime |-> "none"]

Idle == [mode |-> "idle", handler |-> None, inbox |-> {}, current |-> 0]

Init ==
  /\ commands = [c \in Ids |-> NoRow]
  /\ lastId = 0
  /\ runtime = "none"
  /\ runStatus = [r \in Runs |-> "absent"]
  /\ start = [r \in Runs |-> [pc |-> "new", at |-> 0]]
  /\ stop = [s \in Stops |-> [pc |-> "new", at |-> 0]]
  /\ poll = [h \in Handlers |-> FreeHandler]
  /\ report = [c \in Ids |-> NoReport]
  /\ events = {}
  /\ agent = Idle
  /\ executed = {}
  /\ windowOver = {}
  /\ clock = 0
  /\ faults = 0

Fault == faults < MaxFaults /\ faults' = faults + 1

(* INSERT INTO commands with status 'pending'. *)
InsertCommand(type, run, at, due) ==
  /\ lastId < MaxId
  /\ lastId' = lastId + 1
  /\ commands' = [commands EXCEPT ![lastId + 1] =
       [type |-> type, run |-> run, at |-> at, due |-> due,
        status |-> "pending"]]

IsStart(c) == commands[c].type = "job_start"

(* The rows of S that may come first: ORDER BY created_at ASC. *)
Oldest(S) == {c \in S : \A d \in S : commands[c].at <= commands[d].at}

-----------------------------------------------------------------------------
(* Starting the job: startJobForUser and enqueueManualJobStart, or a start *)
(* window of runJobSchedulerTick, with the local path of executeJobStartPlan. *)

startVars == << lastId, commands, runtime, runStatus >>
restOfStart == << stop, poll, report, events, agent, executed, windowOver >>

(* The runtime row is read; a job seen running or stopping is not started. *)
(* A scheduled start is stamped with the time its tick began.              *)
StartCheck(r) ==
  /\ start[r].pc = "new"
  /\ clock' = clock + 1
  /\ start' = [start EXCEPT ![r] =
       [pc |-> IF runtime \in {"running", "stopping"} THEN "refused" ELSE "checked",
        at |-> clock + 1]]
  /\ UNCHANGED << startVars, restOfStart, faults >>

(* A manual start takes its time stamp after the check. *)
StartStamp(r) ==
  IF r \in Scheduled THEN UNCHANGED clock /\ start' = [start EXCEPT ![r].pc = "queued"]
  ELSE /\ clock' = clock + 1
       /\ start' = [start EXCEPT ![r] = [pc |-> "queued", at |-> clock + 1]]

(* job_runs is upserted as 'queued' for the new job_run_id. *)
StartQueueRun(r) ==
  /\ start[r].pc = "checked"
  /\ runStatus' = [runStatus EXCEPT ![r] = "queued"]
  /\ StartStamp(r)
  /\ UNCHANGED << commands, lastId, runtime, restOfStart, faults >>

(* The job_start command is inserted under that time stamp. *)
StartInsert(r) ==
  /\ start[r].pc = "queued"
  /\ InsertCommand("job_start", r, start[r].at, TRUE)
  /\ start' = [start EXCEPT ![r].pc = "inserted"]
  /\ UNCHANGED << runtime, runStatus, restOfStart, clock, faults >>

(* The run is marked 'running'. *)
StartMarkRun(r) ==
  /\ start[r].pc = "inserted"
  /\ runStatus' = [runStatus EXCEPT ![r] = "running"]
  /\ start' = [start EXCEPT ![r].pc = "marked"]
  /\ UNCHANGED << commands, lastId, runtime, restOfStart, clock, faults >>

(* A statement of the plan throws: the run is 'failed', also when its     *)
(* command is already in the table, and the request returns an error.     *)
StartPlanFails(r) ==
  /\ start[r].pc \in {"queued", "inserted"}
  /\ Fault
  /\ runStatus' = [runStatus EXCEPT ![r] = "failed"]
  /\ start' = [start EXCEPT ![r].pc = "failed"]
  /\ UNCHANGED << commands, lastId, runtime, restOfStart, clock >>

(* The runtime row is upserted as 'running'. *)
StartMarkRuntime(r) ==
  /\ start[r].pc = "marked"
  /\ runtime' = "running"
  /\ start' = [start EXCEPT ![r].pc = "upserted"]
  /\ UNCHANGED << commands, lastId, runStatus, restOfStart, clock, faults >>

(* That upsert throws: a manual start logs it and goes on, a scheduled one *)
(* is abandoned.                                                           *)
StartMarkRuntimeFails(r) ==
  /\ start[r].pc = "marked"
  /\ Fault
  /\ start' = [start EXCEPT ![r].pc = IF r \in Scheduled THEN "failed" ELSE "upserted"]
  /\ UNCHANGED << startVars, restOfStart, clock >>

(* The job_started event is persisted, which writes 'running' to the run. *)
StartEvent(r) ==
  /\ start[r].pc = "upserted"
  /\ runStatus' = [runStatus EXCEPT ![r] = "running"]
  /\ start' = [start EXCEPT ![r].pc = "done"]
  /\ UNCHANGED << commands, lastId, runtime, restOfStart, clock, faults >>

StartStep(r) ==
  \/ StartQueueRun(r) \/ StartInsert(r) \/ StartMarkRun(r)
  \/ StartMarkRuntime(r) \/ StartEvent(r)

-----------------------------------------------------------------------------
(* Stopping the job: stopJobForUser with executeJobStopPlan. *)

restOfStop == << runStatus, start, poll, report, events, agent, executed,
                 windowOver, faults >>

(* The request takes its time stamp; it does not look at the runtime row. *)
StopArrive(s) ==
  /\ stop[s].pc = "new"
  /\ clock' = clock + 1
  /\ stop' = [stop EXCEPT ![s] = [pc |-> "arrived", at |-> clock + 1]]
  /\ UNCHANGED << commands, lastId, runtime, restOfStop >>

(* The job_stop command is inserted first ... *)
StopInsert(s) ==
  /\ stop[s].pc = "arrived"
  /\ InsertCommand("job_stop", None, stop[s].at, TRUE)
  /\ stop' = [stop EXCEPT ![s].pc = "inserted"]
  /\ UNCHANGED << runtime, clock, restOfStop >>

(* ... and the runtime row is upserted as 'stopping' after it. *)
StopMarkRuntime(s) ==
  /\ stop[s].pc = "inserted"
  /\ runtime' = "stopping"
  /\ stop' = [stop EXCEPT ![s].pc = "done"]
  /\ UNCHANGED << commands, lastId, clock, restOfStop >>

(* A statement of the request throws. *)
StopFails(s) ==
  /\ stop[s].pc \in {"arrived", "inserted"}
  /\ Fault
  /\ stop' = [stop EXCEPT ![s].pc = "failed"]
  /\ UNCHANGED << commands, lastId, runtime, runStatus, start, poll, report,
                  events, agent, executed, windowOver, clock >>

StopStep(s) == StopInsert(s) \/ StopMarkRuntime(s)

-----------------------------------------------------------------------------
(* GET /api/agent/commands. *)

restOfPoll == << lastId, runStatus, start, stop, report, events, executed,
                 windowOver, clock, faults >>

(* The pending rows whose not_before_utc has passed are selected. *)
PollSelect(h) ==
  /\ poll[h].pc = "select"
  /\ poll' = [poll EXCEPT ![h].pc = "rows", ![h].over = windowOver,
       ![h].todo = {c \in Ids : commands[c].status = "pending" /\ commands[c].due}]
  /\ UNCHANGED << commands, runtime, agent, restOfPoll >>

(* The first job_start row reads the runtime status, once for the batch. *)
PollReadRuntime(h) ==
  /\ poll[h].pc = "rows"
  /\ poll[h].cache = "unread" /\ \E c \in Oldest(poll[h].todo) : IsStart(c)
  /\ poll' = [poll EXCEPT ![h].cache = runtime]
  /\ UNCHANGED << commands, runtime, agent, restOfPoll >>

(* A job_start is ignored when the batch saw the job stopping or stopped  *)
(* and its run is not running, or when its window is over.                *)
Ignored(h, c) ==
  \/ poll[h].cache \in {"stopping", "stopped"} /\ runStatus[commands[c].run] # "running"
  \/ commands[c].run \in poll[h].over

(* Mutant of SettleIgnored: the rows are skipped and left as they are. *)
SkipIgnored(S) == UNCHANGED commands

(* Ignored job_start rows are completed, whatever they hold by now. *)
SettleIgnored(S) ==
  commands' = [c \in Ids |-> IF c \in S THEN [commands[c] EXCEPT !.status = "completed"]
                                        ELSE commands[c]]

(* One row of the batch: it is to be settled, or joins the answer. *)
PollRow(h) ==
  /\ poll[h].pc = "rows"
  /\ \E c \in Oldest(poll[h].todo) :
       /\ IsStart(c) => poll[h].cache # "unread"
       /\ poll' = IF IsStart(c) /\ Ignored(h, c)
                  THEN [poll EXCEPT ![h].todo = @ \ {c}, ![h].settle = @ \cup {c}]
                  ELSE [poll EXCEPT ![h].todo = @ \ {c}, ![h].deliver = @ \cup {c}]
  /\ UNCHANGED << commands, runtime, agent, restOfPoll >>

(* The update of an ignored row is not awaited before the next row. *)
PollSettle(h) ==
  /\ \E c \in poll[h].settle :
       /\ SettleIgnored({c})
       /\ poll' = [poll EXCEPT ![h].settle = @ \ {c}]
  /\ UNCHANGED << runtime, agent, restOfPoll >>

(* Mutant of Sent: the rows are answered without being marked. *)
NeverSent(S) == commands

(* The rows of an answer are marked 'sent', whatever they hold by now. *)
Sent(S) == [c \in Ids |-> IF c \in S THEN [commands[c] EXCEPT !.status = "sent"]
                                    ELSE commands[c]]

PollMarkSent(h) ==
  /\ poll[h].pc = "rows" /\ poll[h].todo = {} /\ poll[h].settle = {}
  /\ poll[h].deliver # {}
  /\ commands' = Sent(poll[h].deliver)
  /\ poll' = [poll EXCEPT ![h].pc = "stops",
       ![h].todo = {c \in poll[h].deliver : ~IsStart(c)}]
  /\ UNCHANGED << runtime, agent, restOfPoll >>

(* Each job_stop of the answer sets the runtime row to 'stopped'. *)
PollMarkStopped(h) ==
  /\ poll[h].pc = "stops"
  /\ \E c \in poll[h].todo :
       poll' = [poll EXCEPT ![h].todo = @ \ {c}]
  /\ runtime' = "stopped"
  /\ UNCHANGED << commands, agent, restOfPoll >>

(* The answer is sent; the agent has it if it still waits for this call. *)
PollAnswer(h) ==
  /\ poll[h].todo = {} /\ poll[h].settle = {}
  /\ \/ poll[h].pc = "stops"
     \/ poll[h].pc = "rows" /\ poll[h].deliver = {}
  /\ poll' = [poll EXCEPT ![h] = FreeHandler]
  /\ agent' = IF agent.mode = "polling" /\ agent.handler = h
              THEN [Idle EXCEPT !.mode = "working", !.inbox = poll[h].deliver]
              ELSE agent
  /\ UNCHANGED << commands, runtime, restOfPoll >>

(* A statement of the handler throws; the agent gets an error for it.  The *)
(* updates of ignored rows that were under way may have been done.         *)
PollFails(h) ==
  /\ poll[h].pc # "free"
  /\ Fault
  /\ \E S \in SUBSET poll[h].settle : SettleIgnored(S)
  /\ poll' = [poll EXCEPT ![h] = FreeHandler]
  /\ agent' = IF agent.mode = "polling" /\ agent.handler = h THEN Idle ELSE agent
  /\ UNCHANGED << runtime, lastId, runStatus, start, stop, report,
                  events, executed, windowOver, clock >>

PollStep(h) ==
  \/ PollSelect(h) \/ PollReadRuntime(h) \/ PollRow(h) \/ PollSettle(h)
  \/ PollMarkSent(h) \/ PollMarkStopped(h) \/ PollAnswer(h)

-----------------------------------------------------------------------------
(* The worker thread of the Linux agent: pollOnce and executeCommand. *)

restOfAgent == << commands, lastId, runtime, runStatus, start, stop,
                  windowOver >>

(* A poll is sent; a handler of the backend picks it up. *)
AgentPoll(h) ==
  /\ agent.mode = "idle" /\ poll[h].pc = "free"
  /\ agent' = [Idle EXCEPT !.mode = "polling", !.handler = h]
  /\ poll' = [poll EXCEPT ![h].pc = "select"]
  /\ UNCHANGED << restOfAgent, report, events, executed, clock, faults >>

(* The next command of the batch is executed, oldest first. *)
AgentTake ==
  /\ agent.mode = "working" /\ agent.inbox # {}
  /\ \E c \in Oldest(agent.inbox) :
       /\ agent' = [agent EXCEPT !.mode = "executing", !.current = c,
                                 !.inbox = @ \ {c}]
       /\ executed' = executed \cup {c}
  /\ UNCHANGED << restOfAgent, poll, report, events, clock, faults >>

(* The batch is over; the thread sleeps until its next poll. *)
AgentBatchDone ==
  /\ agent.mode = "working" /\ agent.inbox = {}
  /\ agent' = Idle
  /\ UNCHANGED << restOfAgent, poll, report, events, executed, clock, faults >>

(* A cycle that got through posts its job_agent_completed event. *)
AgentPostEvent ==
  /\ agent.mode = "executing" /\ IsStart(agent.current)
  /\ Cardinality({c \in executed : IsStart(c)}) <= MaxCycles
  /\ events' = events \cup {agent.current}
  /\ agent' = [agent EXCEPT !.mode = "posting"]
  /\ UNCHANGED << restOfAgent, poll, report, executed, clock, faults >>

(* The outcomes a command can have where the agent is: a job_start throws  *)
(* before its event, and completes after it; a job_stop completes.         *)
Outcome(o) ==
  \/ agent.mode = "executing" /\ IsStart(agent.current) /\ o = "failed"
  \/ agent.mode = "executing" /\ ~IsStart(agent.current) /\ o = "completed"
  \/ agent.mode = "posted" /\ o = "completed"

(* The result is posted; the result handler of the backend starts on it. *)
AgentReport ==
  \E o \in {"completed", "failed"} :
    /\ Outcome(o)
    /\ agent' = [agent EXCEPT !.mode = "reporting"]
    /\ clock' = clock + 1
    /\ report' = [report EXCEPT ![agent.current] =
         [NoReport EXCEPT !.pc = "mark", !.outcome = o, !.at = clock + 1]]
    /\ UNCHANGED << restOfAgent, poll, events, executed, faults >>

(* Mutant of GiveUp: the agent executes the command once more. *)
TryAgain == [agent EXCEPT !.mode = "working", !.current = 0,
                          !.inbox = @ \cup {agent.current}]

(* The agent drops a command whose result it could not deliver. *)
GiveUp == [agent EXCEPT !.mode = "working", !.current = 0]

(* The result call never reaches the backend; it is not repeated. *)
AgentReportLost ==
  /\ \E o \in {"completed", "failed"} : Outcome(o)
  /\ Fault
  /\ agent' = GiveUp
  /\ UNCHANGED << restOfAgent, poll, report, events, executed, clock >>

(* A call of the agent times out: a poll is given up, an event or a result *)
(* is not repeated.  The handler on the backend goes on.                   *)
AgentTimeout ==
  /\ Fault
  /\ \/ agent.mode = "polling" /\ agent' = Idle
     \/ agent.mode = "posting" /\ agent' = [agent EXCEPT !.mode = "posted"]
     \/ agent.mode = "reporting" /\ agent' = GiveUp
  /\ UNCHANGED << restOfAgent, poll, report, events, executed, clock >>

(* The agent process restarts: the batch in its memory is gone. *)
AgentRestart ==
  /\ agent.mode # "idle"
  /\ Fault
  /\ agent' = Idle
  /\ UNCHANGED << restOfAgent, poll, report, events, executed, clock >>

AgentStep ==
  \/ \E h \in Handlers : AgentPoll(h)
  \/ AgentTake \/ AgentBatchDone \/ AgentPostEvent \/ AgentReport

-----------------------------------------------------------------------------
(* POST /api/agent/events, for the job_agent_completed event of a cycle:  *)
(* persisting it writes 'running' to the run, whatever the run held.      *)
HandleEvent(c) ==
  /\ c \in events
  /\ events' = events \ {c}
  /\ runStatus' = [runStatus EXCEPT ![commands[c].run] = "running"]
  /\ agent' = IF agent.mode = "posting" /\ agent.current = c
              THEN [agent EXCEPT !.mode = "posted"] ELSE agent
  /\ UNCHANGED << commands, lastId, runtime, start, stop, poll, report,
                  executed, windowOver, clock, faults >>

-----------------------------------------------------------------------------
(* POST /api/agent/commands/:commandId/result. *)

restOfReport == << lastId, start, stop, poll, events, executed, windowOver,
                   clock, faults >>

Goto(c, pc) == report' = [report EXCEPT ![c].pc = pc]

(* Mutants of FinalStatus: a failed command is queued again; a status that *)
(* the table does not know.                                                *)
FinalOrRetry(c) == IF report[c].outcome = "failed" THEN "pending" ELSE "completed"
FinalRunning(c) == "running"

FinalStatus(c) == report[c].outcome

(* The command takes the reported status, whatever it held. *)
ResultMark(c) ==
  /\ report[c].pc = "mark"
  /\ commands' = [commands EXCEPT ![c].status = FinalStatus(c)]
  /\ Goto(c, IF ~IsStart(c) THEN "answer"
             ELSE IF report[c].outcome = "completed" THEN "readRuntime"
             ELSE "endRuntime")
  /\ UNCHANGED << runtime, runStatus, agent, restOfReport >>

ResultReadRuntime(c) ==
  /\ report[c].pc = "readRuntime"
  /\ report' = [report EXCEPT ![c].pc = "readRun", ![c].runtime = runtime]
  /\ UNCHANGED << commands, runtime, runStatus, agent, restOfReport >>

(* shouldKeepLinuxJobRunning *)
KeepRunning(c) ==
  \/ report[c].runtime \in {"running", "none"}
  \/ runStatus[commands[c].run] = "running" /\ report[c].runtime # "stopping"

ResultReadRun(c) ==
  /\ report[c].pc = "readRun"
  /\ Goto(c, IF KeepRunning(c) THEN "keepRuntime" ELSE "endRuntime")
  /\ UNCHANGED << commands, runtime, runStatus, agent, restOfReport >>

(* The job goes on: both rows are written 'running' again ... *)
ResultKeepRuntime(c) ==
  /\ report[c].pc = "keepRuntime"
  /\ runtime' = "running"
  /\ Goto(c, "keepRun")
  /\ UNCHANGED << commands, runStatus, agent, restOfReport >>

ResultKeepRun(c) ==
  /\ report[c].pc = "keepRun"
  /\ runStatus' = [runStatus EXCEPT ![commands[c].run] = "running"]
  /\ Goto(c, "findNext")
  /\ UNCHANGED << commands, runtime, agent, restOfReport >>

(* ... and, unless a job_start of the run is pending or sent already, ... *)
ResultFindNext(c) ==
  /\ report[c].pc = "findNext"
  /\ Goto(c, IF \E d \in Ids : /\ commands[d].type = "job_start"
                               /\ commands[d].run = commands[c].run
                               /\ commands[d].status \in {"pending", "sent"}
             THEN "answer" ELSE "insertNext")
  /\ UNCHANGED << commands, runtime, runStatus, agent, restOfReport >>

(* ... the job_start of the next cycle is inserted, to be due later. *)
ResultInsertNext(c) ==
  /\ report[c].pc = "insertNext"
  /\ InsertCommand("job_start", commands[c].run, report[c].at, FALSE)
  /\ Goto(c, "answer")
  /\ UNCHANGED << runtime, runStatus, start, stop, poll, events, agent,
                  executed, windowOver, clock, faults >>

(* The job is over: its runtime row, its run and the lifecycle event. *)
ResultEndRuntime(c) ==
  /\ report[c].pc = "endRuntime"
  /\ runtime' = report[c].outcome
  /\ Goto(c, "endRun")
  /\ UNCHANGED << commands, runStatus, agent, restOfReport >>

ResultEndRun(c) ==
  /\ report[c].pc \in {"endRun", "endEvent"}
  /\ runStatus' = [runStatus EXCEPT ![commands[c].run] = report[c].outcome]
  /\ Goto(c, IF report[c].pc = "endRun" THEN "endEvent" ELSE "answer")
  /\ UNCHANGED << commands, runtime, agent, restOfReport >>

(* The handler is gone; the agent goes on if it still waits. *)
ResultOver(c) ==
  /\ report' = [report EXCEPT ![c] = NoReport]
  /\ agent' = IF agent.mode = "reporting" /\ agent.current = c
              THEN [agent EXCEPT !.mode = "working", !.current = 0] ELSE agent

ResultAnswer(c) ==
  /\ report[c].pc = "answer"
  /\ ResultOver(c)
  /\ UNCHANGED << commands, runtime, runStatus, restOfReport >>

(* A statement of the handler throws; the rest of it is not done. *)
ResultFails(c) ==
  /\ report[c].pc # "none"
  /\ Fault
  /\ ResultOver(c)
  /\ UNCHANGED << commands, runtime, runStatus, lastId, start, stop, poll,
                  events, executed, windowOver, clock >>

ResultStep(c) ==
  \/ ResultMark(c) \/ ResultReadRuntime(c) \/ ResultReadRun(c)
  \/ ResultKeepRuntime(c) \/ ResultKeepRun(c) \/ ResultFindNext(c)
  \/ ResultInsertNext(c) \/ ResultEndRuntime(c) \/ ResultEndRun(c)
  \/ ResultAnswer(c)

-----------------------------------------------------------------------------
(* Time. *)

(* not_before_utc of a cycle passes. *)
BecomesDue(c) ==
  /\ commands[c].status = "pending" /\ ~commands[c].due
  /\ commands' = [commands EXCEPT ![c].due = TRUE]
  /\ UNCHANGED << lastId, runtime, runStatus, start, stop, poll, report,
                  events, agent, executed, windowOver, clock, faults >>

(* The window of a scheduled run ended more than the grace period ago. *)
WindowPasses(r) ==
  /\ r \in Scheduled \ windowOver
  /\ start[r].pc # "new"
  /\ windowOver' = windowOver \cup {r}
  /\ UNCHANGED << commands, lastId, runtime, runStatus, start, stop, poll,
                  report, events, agent, executed, clock, faults >>

-----------------------------------------------------------------------------
Next ==
  \/ \E r \in Runs : \/ StartCheck(r) \/ StartStep(r) \/ StartPlanFails(r)
                     \/ StartMarkRuntimeFails(r) \/ WindowPasses(r)
  \/ \E s \in Stops : StopArrive(s) \/ StopStep(s) \/ StopFails(s)
  \/ \E h \in Handlers : PollStep(h) \/ PollFails(h)
  \/ AgentStep \/ AgentReportLost \/ AgentTimeout \/ AgentRestart
  \/ \E c \in Ids : HandleEvent(c) \/ ResultStep(c) \/ ResultFails(c) \/ BecomesDue(c)

(* Handlers run to their end, the worker thread keeps polling, time passes; *)
(* no fairness is asked of users, of windows and of faults.                 *)
Fairness ==
  /\ \A r \in Runs : WF_vars(StartStep(r))
  /\ \A s \in Stops : WF_vars(StopStep(s))
  /\ \A h \in Handlers : WF_vars(PollStep(h))
  /\ WF_vars(AgentStep)
  /\ \A c \in Ids : WF_vars(HandleEvent(c)) /\ WF_vars(ResultStep(c))
                    /\ WF_vars(BecomesDue(c))

Spec == Init /\ [][Next]_vars

FairSpec == Spec /\ Fairness
-----------------------------------------------------------------------------
(* Properties. *)

StartLocals == [pc : {"new", "refused", "checked", "queued", "inserted", "marked",
                      "upserted", "failed", "done"}, at : Nat]
StopLocals == [pc : {"new", "arrived", "inserted", "failed", "done"}, at : Nat]
PollLocals == [pc : {"free", "select", "rows", "stops"}, todo : SUBSET Ids,
               settle : SUBSET Ids, deliver : SUBSET Ids, cache : RuntimeStates \cup {"unread"},
               over : SUBSET Runs]
ReportLocals == [pc : {"none", "mark", "readRuntime", "readRun", "keepRuntime",
                       "keepRun", "findNext", "insertNext", "endRuntime", "endRun",
                       "endEvent", "answer"},
                 outcome : {"completed", "failed"}, at : Nat, runtime : RuntimeStates]
AgentStates == [mode : {"idle", "polling", "working", "executing", "posting",
                        "posted", "reporting"},
                handler : Handlers \cup {None}, inbox : SUBSET Ids,
                current : 0..MaxId]

(* Every variable has its type. *)
TypeOK ==
  /\ commands \in [Ids -> Row]
  /\ lastId \in 0..MaxId
  /\ runtime \in RuntimeStates
  /\ runStatus \in [Runs -> RunStates]
  /\ start \in [Runs -> StartLocals]
  /\ stop \in [Stops -> StopLocals]
  /\ poll \in [Handlers -> PollLocals]
  /\ report \in [Ids -> ReportLocals]
  /\ events \subseteq Ids
  /\ agent \in AgentStates
  /\ executed \subseteq Ids
  /\ windowOver \subseteq Scheduled
  /\ clock \in Nat
  /\ faults \in 0..MaxFaults

(* Rows that are on their way to the agent in the call it waits for. *)
Arriving == IF agent.mode = "polling"
            THEN poll[agent.handler].todo \cup poll[agent.handler].deliver
            ELSE {}

(* Rows the agent will still execute if nothing goes wrong. *)
Waiting == {c \in Ids : commands[c].status = "pending"} \cup Arriving \cup agent.inbox

(* A command the agent has begun to execute is never handed to it again,  *)
(* although the backend keeps no lock between selecting the pending rows  *)
(* and marking them sent, and polls the agent gave up go on.              *)
ExecutedOnce == executed \cap Waiting = {}

(* The cycles of a run form one chain: of all the job_start rows of a run *)
(* at most one is still to be executed or being executed, however starts, *)
(* late result handlers and abandoned polls interleave.                   *)
OneLiveCyclePerRun ==
  LET busy == IF agent.mode \in {"executing", "posting", "posted"}
              THEN {agent.current} ELSE {}
      live == {c \in Waiting \cup busy : IsStart(c)}
  IN \A c, d \in live : commands[c].run = commands[d].run => c = d

(* The table is the at-most-once queue of CommandQueue. *)
Queue == INSTANCE CommandQueue WITH
           waiting <- Waiting, executed <- executed,
           dropped <- 1..lastId \ (Waiting \cup executed)
QueueSpec == Queue!Spec

(* Without faults every command that was inserted gets its final status:  *)
(* it is ignored by the backend, or executed and reported.                *)
CommandsSettle ==
  \A c \in Ids : commands[c].status = "pending"
                ~> commands[c].status \in {"completed", "failed"}

(* A job shown as stopped, its stop acknowledged by the agent's poll, is   *)
(* not shown running again while nobody asks for a start.                  *)
StopSticks ==
  [][/\ runtime = "stopped"
     /\ \A r \in Runs : start[r].pc \in {"new", "refused", "failed", "done"}
     => runtime' # "running"]_vars

-----------------------------------------------------------------------------
(* Three more statements the code does not keep: TLC refutes each with the *)
(* constants README, section 3, names.                                     *)

(* A job that runs is not started beside itself: whoever asks for a start  *)
(* is told that it is already running (index.ts:40164), so that the cycles *)
(* still to be executed are those of one run.                              *)
OneLiveRun ==
  \A c, d \in Waiting : IsStart(c) /\ IsStart(d) => commands[c].run = commands[d].run

(* A job shown as stopping, for which starts are refused, has a job_stop   *)
(* that still has to reach the agent.                                      *)
StoppingIsBacked ==
  runtime = "stopping" =>
    \E c \in Ids :
      /\ ~IsStart(c)
      /\ \/ commands[c].status = "pending"
         \/ \E h \in Handlers : c \in poll[h].todo \cup poll[h].deliver

(* A job shown as running, for which starts answer already_running, is     *)
(* being started, has a cycle to come or one being executed or reported.   *)
RunningIsBacked ==
  runtime = "running" =>
    \/ \E r \in Runs : start[r].pc \in {"checked", "queued", "inserted", "marked", "upserted"}
    \/ \E c \in Waiting : TRUE
    \/ agent.mode \notin {"idle", "polling"}
    \/ \E c \in Ids : report[c].pc # "none"
=============================================================================
