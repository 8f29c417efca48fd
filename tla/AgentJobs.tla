------------------------------ MODULE AgentJobs ------------------------------
(***************************************************************************)
(* The job runtime of the Windows agent: one thread executes the commands  *)
(* job_start and job_stop, and at last the destructor; every job instance  *)
(* has a worker thread that posts events and keeps memory (the temporal    *)
(* slots of the job).                                                      *)
(*                                                                         *)
(* mu_ protects the table of instances.  The command thread holds it over  *)
(* the join of a replaced instance, the workers take it to look themselves *)
(* up for every event they post.  The steps of a job, its cameras and its  *)
(* inference are one state, "work"; the folder of clips, which detached    *)
(* threads remove, is left out.                                            *)
(***************************************************************************)
EXTENDS Naturals, FiniteSets

CONSTANTS
  Jobs,
  Instances,      \* the JobInstance objects, one for each job_start
  None

ASSUME AgentJobsAssumption == None \notin Jobs \cup Instances

VARIABLES
  mu,             \* the command thread holds mu_
  cmd,            \* the command thread: position, job, instance, jobs to join
  running,        \* running_: job -> instance
  jobOf,          \* instance -> its job, None before it is created
  cancel,         \* instances with cancel set
  worker,         \* instance -> its thread
  memory          \* job -> instances with slots in temporalBySlot_

vars == << mu, cmd, running, jobOf, cancel, worker, memory >>

CmdPositions == {"idle", "startJoin", "startClear", "spawn",
                 "stopJoin", "stopErase", "stopClear", "shutdown", "shutdownJoin", "gone"}

CmdLocals == [pc : CmdPositions, job : Jobs \cup {None},
              inst : Instances \cup {None}, todo : SUBSET Jobs]

IdleCmd == [pc |-> "idle", job |-> None, inst |-> None, todo |-> {}]

(* next: where the worker goes after the event it posts; found: what the   *)
(* lookup for that event found.                                            *)
WorkerPositions == {"new", "lookup", "post", "work", "clear", "done"}

WorkerLocals == [pc : WorkerPositions, next : {"work", "clear"},
                 found : Instances \cup {None}]

NewWorker == [pc |-> "new", next |-> "work", found |-> None]

Init ==
  /\ mu = FALSE
  /\ cmd = IdleCmd
  /\ running = [j \in Jobs |-> None]
  /\ jobOf = [i \in Instances |-> None]
  /\ cancel = {}
  /\ worker = [i \in Instances |-> NewWorker]
  /\ memory = [j \in Jobs |-> {}]

(* The thread of instance i exists and has not returned. *)
Alive(i) == worker[i].pc \notin {"new", "done"}

(* join returns; a thread that was never started is not joinable. *)
Joined(i) == ~Alive(i)

At(pc) == cmd.pc = pc
Goto(pc) == cmd' = [cmd EXCEPT !.pc = pc]

-----------------------------------------------------------------------------
(* onJobStartCommand *)

(* Under mu_: a fresh instance replaces none, or the old one is cancelled  *)
(* and joined first.                                                       *)
StartJob(j) ==
  /\ At("idle") /\ ~mu
  /\ \E i \in Instances :
       /\ jobOf[i] = None
       /\ jobOf' = [jobOf EXCEPT ![i] = j]
       /\ IF running[j] = None
          THEN /\ running' = [running EXCEPT ![j] = i]
               /\ cmd' = [IdleCmd EXCEPT !.pc = "startClear", !.job = j, !.inst = i]
               /\ UNCHANGED << mu, cancel >>
          ELSE /\ cancel' = cancel \cup {running[j]}
               /\ mu' = TRUE
               /\ cmd' = [IdleCmd EXCEPT !.pc = "startJoin", !.job = j, !.inst = i]
               /\ UNCHANGED running
  /\ UNCHANGED << worker, memory >>

(* Mutant of StartJoin: the old instance is cancelled, not joined. *)
StartDetached ==
  /\ At("startJoin")
  /\ running' = [running EXCEPT ![cmd.job] = cmd.inst]
  /\ mu' = FALSE
  /\ Goto("startClear")
  /\ UNCHANGED << jobOf, cancel, worker, memory >>

StartJoin ==
  /\ At("startJoin") /\ Joined(running[cmd.job])
  /\ running' = [running EXCEPT ![cmd.job] = cmd.inst]
  /\ mu' = FALSE
  /\ Goto("startClear")
  /\ UNCHANGED << jobOf, cancel, worker, memory >>

StartClear ==
  /\ At("startClear")
  /\ memory' = [memory EXCEPT ![cmd.job] = {}]
  /\ Goto("spawn")
  /\ UNCHANGED << mu, running, jobOf, cancel, worker >>

(* The thread begins in runJob_, which posts job_started first. *)
Spawn ==
  /\ At("spawn")
  /\ worker' = [worker EXCEPT ![cmd.inst].pc = "lookup"]
  /\ cmd' = IdleCmd
  /\ UNCHANGED << mu, running, jobOf, cancel, memory >>

-----------------------------------------------------------------------------
(* onJobStopCommand *)

(* Mutants of StopJob: the instance is erased before it is joined; mu_ is  *)
(* held over the join.                                                     *)
StopEager(j) ==
  /\ At("idle") /\ ~mu
  /\ cmd' = [IdleCmd EXCEPT !.pc = IF running[j] = None THEN "stopErase" ELSE "stopJoin",
                            !.job = j, !.inst = running[j]]
  /\ cancel' = IF running[j] = None THEN cancel ELSE cancel \cup {running[j]}
  /\ running' = [running EXCEPT ![j] = None]
  /\ UNCHANGED << mu, jobOf, worker, memory >>

StopHolding(j) ==
  /\ At("idle") /\ ~mu /\ running[j] # None
  /\ cmd' = [IdleCmd EXCEPT !.pc = "stopJoin", !.job = j, !.inst = running[j]]
  /\ cancel' = cancel \cup {running[j]}
  /\ mu' = TRUE
  /\ UNCHANGED << running, jobOf, worker, memory >>

StopJob(j) ==
  /\ At("idle") /\ ~mu
  /\ IF running[j] = None
     THEN /\ cmd' = [IdleCmd EXCEPT !.pc = "stopErase", !.job = j]
          /\ UNCHANGED cancel
     ELSE /\ cmd' = [IdleCmd EXCEPT !.pc = "stopJoin", !.job = j, !.inst = running[j]]
          /\ cancel' = cancel \cup {running[j]}
  /\ UNCHANGED << mu, running, jobOf, worker, memory >>

(* Mutant of StopJoin: the instance is cancelled, not joined. *)
StopDetached ==
  /\ At("stopJoin")
  /\ Goto("stopErase")
  /\ UNCHANGED << mu, running, jobOf, cancel, worker, memory >>

(* The join does not hold mu_. *)
StopJoin ==
  /\ At("stopJoin") /\ Joined(cmd.inst)
  /\ Goto("stopErase")
  /\ UNCHANGED << mu, running, jobOf, cancel, worker, memory >>

StopErase ==
  /\ At("stopErase") /\ ~mu
  /\ running' = [running EXCEPT ![cmd.job] = None]
  /\ Goto("stopClear")
  /\ UNCHANGED << mu, jobOf, cancel, worker, memory >>

StopClear ==
  /\ At("stopClear")
  /\ memory' = [memory EXCEPT ![cmd.job] = {}]
  /\ cmd' = IdleCmd
  /\ UNCHANGED << mu, running, jobOf, cancel, worker >>

-----------------------------------------------------------------------------
(* ~JobRuntime, after the command thread has ended: instances are cancelled*)
(* and joined one after the other under mu_.                               *)

ShutdownBegin ==
  /\ At("idle") /\ ~mu
  /\ mu' = TRUE
  /\ cmd' = [IdleCmd EXCEPT !.pc = "shutdown", !.todo = {j \in Jobs : running[j] # None}]
  /\ UNCHANGED << running, jobOf, cancel, worker, memory >>

ShutdownCancel(j) ==
  /\ At("shutdown") /\ j \in cmd.todo
  /\ cancel' = cancel \cup {running[j]}
  /\ cmd' = [cmd EXCEPT !.pc = "shutdownJoin", !.job = j]
  /\ UNCHANGED << mu, running, jobOf, worker, memory >>

ShutdownJoin ==
  /\ At("shutdownJoin") /\ Joined(running[cmd.job])
  /\ cmd' = [cmd EXCEPT !.pc = "shutdown", !.todo = @ \ {cmd.job}]
  /\ UNCHANGED << mu, running, jobOf, cancel, worker, memory >>

ShutdownEnd ==
  /\ At("shutdown") /\ cmd.todo = {}
  /\ running' = [j \in Jobs |-> None]
  /\ mu' = FALSE
  /\ cmd' = [IdleCmd EXCEPT !.pc = "gone"]
  /\ UNCHANGED << jobOf, cancel, worker, memory >>

-----------------------------------------------------------------------------
(* runJob_ *)

Move(i, pc) == worker' = [worker EXCEPT ![i].pc = pc]

(* postJobEvent_ looks the instance of the job up, under mu_ ... *)
Lookup(i) ==
  /\ worker[i].pc = "lookup" /\ ~mu
  /\ worker' = [worker EXCEPT ![i].pc = "post", ![i].found = running[jobOf[i]]]
  /\ UNCHANGED << mu, cmd, running, jobOf, cancel, memory >>

(* ... and posts the event with the shared segment of what it has found.   *)
PostEvent(i) ==
  /\ worker[i].pc = "post"
  /\ worker' = [worker EXCEPT ![i].pc = worker[i].next, ![i].found = None]
  /\ UNCHANGED << mu, cmd, running, jobOf, cancel, memory >>

(* Steps of the job, while it is not cancelled and until they are ended.   *)
Work(i) ==
  /\ worker[i].pc = "work"
  /\ memory' = [memory EXCEPT ![jobOf[i]] = @ \cup {i}]
  /\ UNCHANGED << mu, cmd, running, jobOf, cancel, worker >>

(* A step begins or ends: postStepEvent_. *)
StepEvent(i) ==
  /\ worker[i].pc = "work"
  /\ Move(i, "lookup")
  /\ UNCHANGED << mu, cmd, running, jobOf, cancel, memory >>

(* job_completed, job_staled, job_failed, or job_stopped when cancelled.   *)
EndJob(i) ==
  /\ worker[i].pc = "work"
  /\ worker' = [worker EXCEPT ![i].pc = "lookup", ![i].next = "clear"]
  /\ UNCHANGED << mu, cmd, running, jobOf, cancel, memory >>

(* Mutants of WorkerClear: the slots are left behind; the worker waits for *)
(* its folder to be removed.                                               *)
WorkerForgets(i) ==
  /\ worker[i].pc = "clear"
  /\ Move(i, "done")
  /\ UNCHANGED << mu, cmd, running, jobOf, cancel, memory >>

WorkerWaits(i) ==
  /\ worker[i].pc = "clear"
  /\ memory' = [memory EXCEPT ![jobOf[i]] = {}]
  /\ Move(i, "cleanup")
  /\ UNCHANGED << mu, cmd, running, jobOf, cancel >>

(* finalizeJobRuntimeState *)
WorkerClear(i) ==
  /\ worker[i].pc = "clear"
  /\ memory' = [memory EXCEPT ![jobOf[i]] = {}]
  /\ Move(i, "done")
  /\ UNCHANGED << mu, cmd, running, jobOf, cancel >>

-----------------------------------------------------------------------------
CmdStep ==
  \/ StartJoin \/ StartClear \/ Spawn
  \/ StopJoin \/ StopErase \/ StopClear
  \/ (\E j \in Jobs : ShutdownCancel(j)) \/ ShutdownJoin \/ ShutdownEnd

PostStep(i) == Lookup(i) \/ PostEvent(i) \/ WorkerClear(i)

Next ==
  \/ \E j \in Jobs : StartJob(j) \/ StopJob(j)
  \/ ShutdownBegin \/ CmdStep
  \/ \E i \in Instances : PostStep(i) \/ Work(i) \/ StepEvent(i) \/ EndJob(i)

Spec == Init /\ [][Next]_vars

(* Threads are scheduled, mu_ is granted to whoever waits for it often     *)
(* enough, and a cancelled job ends: its loop reads cancel in every round, *)
(* however many step events it still has to post.                          *)
Fairness ==
  /\ WF_vars(CmdStep)
  /\ \A i \in Instances :
       /\ SF_vars(PostStep(i))
       /\ SF_vars(i \in cancel /\ EndJob(i))

FairSpec == Spec /\ Fairness

-----------------------------------------------------------------------------
(* Every variable stays within its type. *)
TypeOK ==
  /\ mu \in BOOLEAN
  /\ cmd \in CmdLocals
  /\ running \in [Jobs -> Instances \cup {None}]
  /\ jobOf \in [Instances -> Jobs \cup {None}]
  /\ cancel \subseteq Instances
  /\ worker \in [Instances -> WorkerLocals]
  /\ memory \in [Jobs -> SUBSET Instances]

(* Two runs of a job are never alive at once: the old worker has returned  *)
(* before the new one is spawned (onJobStartCommand joins it).             *)
OneWorkerPerJob ==
  \A i, k \in Instances : Alive(i) /\ Alive(k) /\ jobOf[i] = jobOf[k] => i = k

(* An event is posted with the shared segment of its own run, although     *)
(* postJobEvent_ looks the run up by the job: a run is in the table for as *)
(* long as its worker posts (the joins come before the erases).            *)
EventsOwnTag ==
  \A i \in Instances : worker[i].pc = "post" => worker[i].found = i

(* A worker's slots are cleared by nobody else while it works: the clears  *)
(* of an older run and of the commands come before its spawn or after its  *)
(* end (clearJobEphemeralState_).                                          *)
MemoryKept ==
  [][\A i \in Instances : \A j \in Jobs :
       i \in memory[j] /\ worker[i].pc \in {"lookup", "post", "work"} => i \in memory'[j]]_vars

(* The slots of a job do not outlive its last run, however the run ends    *)
(* (finalizeJobRuntimeState).                                              *)
MemoryFreed ==
  \A j \in Jobs : memory[j] # {} => \E i \in Instances : jobOf[i] = j /\ Alive(i)

(* How far an instance is, seen from outside. *)
Phase(i) ==
  CASE jobOf[i] = None -> "none"
    [] jobOf[i] # None /\ worker[i].pc = "new" -> "made"
    [] Alive(i) -> "working"
    [] OTHER -> "ended"

(* The command thread and the workers together keep the promise of JobRuns:*)
(* no interleaving of starts, stops and the destructor with the ends of    *)
(* runs gives a job two runs or one run the slots of another.              *)
Leases == INSTANCE JobRuns WITH
            Runs <- Instances, slots <- memory,
            phase <- [i \in Instances |-> Phase(i)],
            tag <- [i \in Instances |-> worker[i].found]
LeaseSpec == Leases!Spec

(* A stop comes back: whatever the worker still posts, it finds mu_ free.  *)
StopReturns ==
  cmd.pc \in {"stopJoin", "stopErase", "stopClear"} ~> cmd.pc = "idle"

(* A start that replaces a running instance comes back                     *)
(* ("If already running, stop old instance first", JobRuntime.cpp:2414).   *)
RestartReturns == cmd.pc = "startJoin" ~> cmd.pc = "startClear"
=============================================================================
