--------------------------- MODULE AgentJobsProofs ---------------------------
(***************************************************************************)
(* Proofs about AgentJobs for every set of jobs and instances.             *)
(*                                                                         *)
(* Everything follows from one fact about the table: a live worker is the  *)
(* instance running_ holds for its job.  The command thread keeps it by    *)
(* joining before it replaces or erases; what it has joined, and what it   *)
(* is about to spawn, is CmdInv.                                           *)
(***************************************************************************)
EXTENDS AgentJobs, TLAPS

(* A live worker is the one in the table; the table holds created          *)
(* instances of their job, and one without a thread is about to get it.    *)
TableInv ==
  /\ \A i \in Instances : Alive(i) => jobOf[i] \in Jobs /\ running[jobOf[i]] = i
  /\ \A i \in Instances : jobOf[i] = None => worker[i].pc = "new"
  /\ \A j \in Jobs : running[j] # None =>
       /\ jobOf[running[j]] = j
       /\ worker[running[j]].pc = "new" => cmd.pc \in {"startClear", "spawn"}
                                           /\ cmd.inst = running[j]

(* What the command thread knows at each of its positions. *)
CmdInv ==
  /\ cmd.pc \in {"startJoin", "startClear", "spawn"} =>
       cmd.inst \in Instances /\ cmd.job \in Jobs
       /\ jobOf[cmd.inst] = cmd.job /\ worker[cmd.inst].pc = "new"
  /\ cmd.pc = "startJoin" => running[cmd.job] \in Instances
  /\ cmd.pc \in {"startClear", "spawn"} => running[cmd.job] = cmd.inst
  /\ cmd.pc \in {"stopJoin", "stopErase", "stopClear"} => cmd.job \in Jobs
  /\ cmd.pc = "stopJoin" => cmd.inst \in Instances /\ running[cmd.job] = cmd.inst
  /\ cmd.pc = "stopErase" => running[cmd.job] = None \/ ~Alive(running[cmd.job])
  /\ cmd.pc = "stopClear" => running[cmd.job] = None
  /\ cmd.pc \in {"shutdown", "shutdownJoin"} =>
       \A j \in Jobs : running[j] # None => j \in cmd.todo \/ ~Alive(running[j])
  /\ cmd.pc = "shutdownJoin" => cmd.job \in cmd.todo
  /\ \A j \in cmd.todo : j \in Jobs /\ running[j] \in Instances
  /\ cmd.todo # {} => cmd.pc \in {"shutdown", "shutdownJoin"}

(* Slots belong to live workers. *)
MemoryInv == \A j \in Jobs : \A i \in memory[j] : jobOf[i] = j /\ Alive(i)

Inv == TypeOK /\ TableInv /\ CmdInv /\ EventsOwnTag /\ MemoryInv

-----------------------------------------------------------------------------
(* Each action keeps the invariant. *)

LEMMA InitInv == Init => Inv
<1> SUFFICES ASSUME Init PROVE Inv
  OBVIOUS
<1> USE AgentJobsAssumption DEF Init
<1>1. TypeOK
  <2>1. IdleCmd \in CmdLocals
    BY DEF IdleCmd, CmdLocals, CmdPositions
  <2>2. NewWorker \in WorkerLocals
    BY DEF NewWorker, WorkerLocals, WorkerPositions
  <2> QED  BY <2>1, <2>2 DEF TypeOK
<1>2. TableInv
  BY DEF TableInv, Alive, NewWorker
<1>3. CmdInv
  BY DEF CmdInv, IdleCmd
<1>4. EventsOwnTag
  BY DEF EventsOwnTag, NewWorker
<1>5. MemoryInv
  BY DEF MemoryInv
<1> QED  BY <1>1, <1>2, <1>3, <1>4, <1>5 DEF Inv

(* A worker that moves leaves the others where they are. *)
LEMMA WorkerMoves ==
  ASSUME TypeOK, NEW i \in Instances, NEW w \in WorkerLocals,
         worker' = [worker EXCEPT ![i] = w]
  PROVE  /\ worker' \in [Instances -> WorkerLocals]
         /\ worker'[i] = w
         /\ \A k \in Instances : k # i => worker'[k] = worker[k]
BY DEF TypeOK

LEMMA StartJobKeeps == ASSUME Inv, NEW j \in Jobs, StartJob(j) PROVE Inv'
<1> USE AgentJobsAssumption DEF Inv, StartJob, At
<1>1. PICK i \in Instances :
        /\ jobOf[i] = None
        /\ jobOf' = [jobOf EXCEPT ![i] = j]
        /\ \/ /\ running[j] = None
              /\ running' = [running EXCEPT ![j] = i]
              /\ cmd' = [IdleCmd EXCEPT !.pc = "startClear", !.job = j, !.inst = i]
              /\ UNCHANGED << mu, cancel >>
           \/ /\ running[j] # None
              /\ cancel' = cancel \cup {running[j]}
              /\ mu' = TRUE
              /\ cmd' = [IdleCmd EXCEPT !.pc = "startJoin", !.job = j, !.inst = i]
              /\ UNCHANGED running
  OBVIOUS
<1> HIDE DEF StartJob
<1>2. cmd.pc = "idle" /\ UNCHANGED << worker, memory >>
  BY DEF StartJob
<1>3. /\ cmd' \in CmdLocals
      /\ cmd'.pc \in {"startClear", "startJoin"}
      /\ cmd'.job = j /\ cmd'.inst = i /\ cmd'.todo = {}
      /\ cmd'.pc = "startClear" <=> running[j] = None
  BY <1>1 DEF IdleCmd, CmdLocals, CmdPositions
<1>4. /\ jobOf' \in [Instances -> Jobs \cup {None}]
      /\ jobOf'[i] = j
      /\ \A k \in Instances : k # i => jobOf'[k] = jobOf[k]
  BY <1>1 DEF TypeOK
<1>5. /\ running' \in [Jobs -> Instances \cup {None}]
      /\ running'[j] = IF running[j] = None THEN i ELSE running[j]
      /\ \A k \in Jobs : k # j => running'[k] = running[k]
  BY <1>1 DEF TypeOK
<1>6. worker[i].pc = "new" /\ \A k \in Jobs : running[k] # i
  BY <1>1 DEF TableInv
<1>7. TypeOK'
  <2>1. cancel' \subseteq Instances /\ mu' \in BOOLEAN
    BY <1>1 DEF TypeOK
  <2> QED  BY <1>2, <1>3, <1>4, <1>5, <2>1 DEF TypeOK
<1>8. TableInv'
  BY <1>2, <1>3, <1>4, <1>5, <1>6 DEF TypeOK, TableInv, Alive
<1>9. CmdInv'
  BY <1>2, <1>3, <1>4, <1>5, <1>6 DEF TypeOK, TableInv, CmdInv
<1>10. EventsOwnTag'
  BY <1>2 DEF EventsOwnTag
<1>11. MemoryInv'
  BY <1>2, <1>4, <1>6 DEF TypeOK, TableInv, MemoryInv, Alive
<1> QED  BY <1>7, <1>8, <1>9, <1>10, <1>11

LEMMA StartJoinKeeps == ASSUME Inv, StartJoin PROVE Inv'
<1> USE AgentJobsAssumption DEF Inv, StartJoin, Joined, Goto, At
<1>1. TypeOK'
  BY DEF TypeOK, TableInv, CmdInv, Alive, CmdLocals, CmdPositions, WorkerLocals, WorkerPositions
<1>2. TableInv'
  BY DEF TypeOK, TableInv, CmdInv, Alive
<1>3. CmdInv'
  BY DEF TypeOK, TableInv, CmdInv, Alive
<1>4. EventsOwnTag'
  BY DEF TypeOK, TableInv, EventsOwnTag, Alive
<1>5. MemoryInv'
  BY DEF TypeOK, TableInv, CmdInv, MemoryInv, Alive
<1> QED  BY <1>1, <1>2, <1>3, <1>4, <1>5

LEMMA StartClearKeeps == ASSUME Inv, StartClear PROVE Inv'
<1> USE AgentJobsAssumption DEF Inv, StartClear, Goto, At
<1>1. TypeOK'
  BY DEF TypeOK, TableInv, CmdInv, Alive, CmdLocals, CmdPositions, WorkerLocals, WorkerPositions
<1>2. TableInv'
  BY DEF TypeOK, TableInv, CmdInv, Alive
<1>3. CmdInv'
  BY DEF TypeOK, TableInv, CmdInv, Alive
<1>4. EventsOwnTag'
  BY DEF TypeOK, TableInv, EventsOwnTag, Alive
<1>5. MemoryInv'
  BY DEF TypeOK, TableInv, CmdInv, MemoryInv, Alive
<1> QED  BY <1>1, <1>2, <1>3, <1>4, <1>5

LEMMA SpawnKeeps == ASSUME Inv, Spawn PROVE Inv'
<1> USE AgentJobsAssumption DEF Inv, Spawn, IdleCmd, At
<1>1. TypeOK'
  BY DEF TypeOK, TableInv, CmdInv, Alive, CmdLocals, CmdPositions, WorkerLocals, WorkerPositions
<1>2. TableInv'
  BY DEF TypeOK, TableInv, CmdInv, Alive
<1>3. CmdInv'
  BY DEF TypeOK, TableInv, CmdInv, Alive
<1>4. EventsOwnTag'
  BY DEF TypeOK, TableInv, EventsOwnTag, Alive
<1>5. MemoryInv'
  BY DEF TypeOK, TableInv, CmdInv, MemoryInv, Alive
<1> QED  BY <1>1, <1>2, <1>3, <1>4, <1>5

LEMMA StopJobKeeps == ASSUME Inv, NEW j \in Jobs, StopJob(j) PROVE Inv'
<1> USE AgentJobsAssumption DEF Inv
<1>1. cmd.pc = "idle" /\ UNCHANGED << running, jobOf, worker, memory >>
  BY DEF StopJob, At
<1>2. /\ cmd' \in CmdLocals
      /\ cmd'.job = j /\ cmd'.todo = {}
      /\ \/ cmd'.pc = "stopErase" /\ running[j] = None
         \/ cmd'.pc = "stopJoin" /\ running[j] # None /\ cmd'.inst = running[j]
  BY DEF StopJob, TypeOK, IdleCmd, CmdLocals, CmdPositions
<1>3. TypeOK'
  BY <1>1, <1>2 DEF TypeOK, StopJob
<1>4. TableInv'
  BY <1>1, <1>2 DEF TableInv, Alive
<1>5. CmdInv'
  BY <1>1, <1>2 DEF TypeOK, CmdInv
<1>6. EventsOwnTag'
  BY <1>1 DEF EventsOwnTag
<1>7. MemoryInv'
  BY <1>1 DEF MemoryInv, Alive
<1> QED  BY <1>3, <1>4, <1>5, <1>6, <1>7

LEMMA StopJoinKeeps == ASSUME Inv, StopJoin PROVE Inv'
<1> USE AgentJobsAssumption DEF Inv, StopJoin, Joined, Goto, At
<1>1. TypeOK'
  BY DEF TypeOK, TableInv, CmdInv, Alive, CmdLocals, CmdPositions, WorkerLocals, WorkerPositions
<1>2. TableInv'
  BY DEF TypeOK, TableInv, CmdInv, Alive
<1>3. CmdInv'
  BY DEF TypeOK, TableInv, CmdInv, Alive
<1>4. EventsOwnTag'
  BY DEF TypeOK, TableInv, EventsOwnTag, Alive
<1>5. MemoryInv'
  BY DEF TypeOK, TableInv, CmdInv, MemoryInv, Alive
<1> QED  BY <1>1, <1>2, <1>3, <1>4, <1>5

LEMMA StopEraseKeeps == ASSUME Inv, StopErase PROVE Inv'
<1> USE AgentJobsAssumption DEF Inv
<1>1. /\ cmd.pc = "stopErase" /\ cmd.job \in Jobs
      /\ running[cmd.job] = None \/ ~Alive(running[cmd.job])
      /\ UNCHANGED << mu, jobOf, cancel, worker, memory >>
  BY DEF StopErase, CmdInv, At
<1>2. /\ cmd' \in CmdLocals
      /\ cmd'.pc = "stopClear" /\ cmd'.job = cmd.job /\ cmd'.todo = cmd.todo
  BY DEF StopErase, Goto, TypeOK, CmdLocals, CmdPositions
<1>3. /\ running' \in [Jobs -> Instances \cup {None}]
      /\ running'[cmd.job] = None
      /\ \A k \in Jobs : k # cmd.job => running'[k] = running[k]
  BY <1>1 DEF StopErase, TypeOK
<1>4. TypeOK'
  BY <1>1, <1>2, <1>3 DEF TypeOK
<1>5. TableInv'
  BY <1>1, <1>2, <1>3 DEF TypeOK, TableInv, Alive
<1>6. CmdInv'
  BY <1>1, <1>2, <1>3 DEF CmdInv, TypeOK
<1>7. EventsOwnTag' /\ MemoryInv'
  BY <1>1 DEF EventsOwnTag, MemoryInv, Alive
<1> QED  BY <1>4, <1>5, <1>6, <1>7

LEMMA StopClearKeeps == ASSUME Inv, StopClear PROVE Inv'
<1> USE AgentJobsAssumption DEF Inv, StopClear, IdleCmd, At
<1>1. TypeOK'
  BY DEF TypeOK, TableInv, CmdInv, Alive, CmdLocals, CmdPositions, WorkerLocals, WorkerPositions
<1>2. TableInv'
  BY DEF TypeOK, TableInv, CmdInv, Alive
<1>3. CmdInv'
  BY DEF TypeOK, TableInv, CmdInv, Alive
<1>4. EventsOwnTag'
  BY DEF TypeOK, TableInv, EventsOwnTag, Alive
<1>5. MemoryInv'
  BY DEF TypeOK, TableInv, CmdInv, MemoryInv, Alive
<1> QED  BY <1>1, <1>2, <1>3, <1>4, <1>5

LEMMA ShutdownBeginKeeps == ASSUME Inv, ShutdownBegin PROVE Inv'
<1> USE AgentJobsAssumption DEF Inv, ShutdownBegin, IdleCmd, At
<1>1. TypeOK'
  BY DEF TypeOK, TableInv, CmdInv, Alive, CmdLocals, CmdPositions, WorkerLocals, WorkerPositions
<1>2. TableInv'
  BY DEF TypeOK, TableInv, CmdInv, Alive
<1>3. CmdInv'
  BY DEF TypeOK, TableInv, CmdInv, Alive
<1>4. EventsOwnTag'
  BY DEF TypeOK, TableInv, EventsOwnTag, Alive
<1>5. MemoryInv'
  BY DEF TypeOK, TableInv, CmdInv, MemoryInv, Alive
<1> QED  BY <1>1, <1>2, <1>3, <1>4, <1>5

LEMMA ShutdownCancelKeeps == ASSUME Inv, NEW j \in Jobs, ShutdownCancel(j) PROVE Inv'
<1> USE AgentJobsAssumption DEF Inv
<1>1. /\ cmd.pc = "shutdown" /\ j \in cmd.todo /\ running[j] \in Instances
      /\ UNCHANGED << mu, running, jobOf, worker, memory >>
  BY DEF ShutdownCancel, CmdInv, At
<1>2. /\ cmd' \in CmdLocals
      /\ cmd'.pc = "shutdownJoin" /\ cmd'.job = j /\ cmd'.todo = cmd.todo
  BY DEF ShutdownCancel, TypeOK, CmdLocals, CmdPositions
<1>3. TypeOK'
  BY <1>1, <1>2 DEF TypeOK, ShutdownCancel
<1>4. TableInv'
  BY <1>1, <1>2 DEF TableInv, Alive
<1>5. CmdInv'
  BY <1>1, <1>2 DEF CmdInv, Alive
<1>6. EventsOwnTag' /\ MemoryInv'
  BY <1>1 DEF EventsOwnTag, MemoryInv, Alive
<1> QED  BY <1>3, <1>4, <1>5, <1>6

LEMMA ShutdownJoinKeeps == ASSUME Inv, ShutdownJoin PROVE Inv'
<1> USE AgentJobsAssumption DEF Inv, ShutdownJoin, Joined, At
<1>1. TypeOK'
  BY DEF TypeOK, TableInv, CmdInv, Alive, CmdLocals, CmdPositions, WorkerLocals, WorkerPositions
<1>2. TableInv'
  BY DEF TypeOK, TableInv, CmdInv, Alive
<1>3. CmdInv'
  BY DEF TypeOK, TableInv, CmdInv, Alive
<1>4. EventsOwnTag'
  BY DEF TypeOK, TableInv, EventsOwnTag, Alive
<1>5. MemoryInv'
  BY DEF TypeOK, TableInv, CmdInv, MemoryInv, Alive
<1> QED  BY <1>1, <1>2, <1>3, <1>4, <1>5

LEMMA ShutdownEndKeeps == ASSUME Inv, ShutdownEnd PROVE Inv'
<1> USE AgentJobsAssumption DEF Inv, ShutdownEnd, IdleCmd, At
<1>1. TypeOK'
  BY DEF TypeOK, TableInv, CmdInv, Alive, CmdLocals, CmdPositions, WorkerLocals, WorkerPositions
<1>2. TableInv'
  BY DEF TypeOK, TableInv, CmdInv, Alive
<1>3. CmdInv'
  BY DEF TypeOK, TableInv, CmdInv, Alive
<1>4. EventsOwnTag'
  BY DEF TypeOK, TableInv, EventsOwnTag, Alive
<1>5. MemoryInv'
  BY DEF TypeOK, TableInv, CmdInv, MemoryInv, Alive
<1> QED  BY <1>1, <1>2, <1>3, <1>4, <1>5

LEMMA LookupKeeps == ASSUME Inv, NEW i \in Instances, Lookup(i) PROVE Inv'
<1> DEFINE w == [worker[i] EXCEPT !.pc = "post", !.found = running[jobOf[i]]]
<1> USE AgentJobsAssumption DEF Inv
<1>0. w \in WorkerLocals /\ worker' = [worker EXCEPT ![i] = w]
  <2>1. worker[i] \in WorkerLocals /\ running[jobOf[i]] \in Instances \cup {None}
    BY DEF TypeOK, TableInv, Alive, Lookup
  <2> QED  BY <2>1 DEF Lookup, TypeOK, WorkerLocals, WorkerPositions
<1>1. /\ worker' \in [Instances -> WorkerLocals]
      /\ worker'[i] = w
      /\ \A k \in Instances : k # i => worker'[k] = worker[k]
  BY <1>0, WorkerMoves
<1>2. w.pc = "post" /\ w.found = running[jobOf[i]]
  BY <1>1 DEF TypeOK, WorkerLocals
<1>3. TypeOK'
  BY <1>1 DEF TypeOK, Lookup
<1> HIDE DEF w
<1>4. worker[i].pc = "lookup" /\ UNCHANGED << cmd, running, jobOf, memory >>
  BY DEF Lookup
<1>5. \A k \in Instances : Alive(k)' <=> Alive(k)
  BY <1>1, <1>2, <1>4 DEF Alive, TypeOK, WorkerLocals
<1>6. TableInv'
  BY <1>1, <1>2, <1>4, <1>5 DEF TypeOK, TableInv, Alive
<1>7. CmdInv'
  BY <1>1, <1>2, <1>4, <1>5 DEF TypeOK, TableInv, CmdInv, Alive
<1>8. EventsOwnTag'
  BY <1>1, <1>2, <1>4 DEF TypeOK, TableInv, EventsOwnTag, Alive
<1>9. MemoryInv'
  BY <1>1, <1>4, <1>5 DEF TypeOK, MemoryInv
<1> QED  BY <1>3, <1>6, <1>7, <1>8, <1>9

LEMMA PostEventKeeps == ASSUME Inv, NEW i \in Instances, PostEvent(i) PROVE Inv'
<1> DEFINE w == [worker[i] EXCEPT !.pc = worker[i].next, !.found = None]
<1> USE AgentJobsAssumption DEF Inv
<1>0. w \in WorkerLocals /\ worker' = [worker EXCEPT ![i] = w]
  <2>1. worker[i] \in WorkerLocals /\ running[jobOf[i]] \in Instances \cup {None}
    BY DEF TypeOK, TableInv, Alive, PostEvent
  <2> QED  BY <2>1 DEF PostEvent, TypeOK, WorkerLocals, WorkerPositions
<1>1. /\ worker' \in [Instances -> WorkerLocals]
      /\ worker'[i] = w
      /\ \A k \in Instances : k # i => worker'[k] = worker[k]
  BY <1>0, WorkerMoves
<1>2. w.pc \in {"work", "clear"}
  BY <1>1 DEF TypeOK, WorkerLocals
<1>3. TypeOK'
  BY <1>1 DEF TypeOK, PostEvent
<1> HIDE DEF w
<1>4. worker[i].pc = "post" /\ UNCHANGED << cmd, running, jobOf, memory >>
  BY DEF PostEvent
<1>5. \A k \in Instances : Alive(k)' <=> Alive(k)
  BY <1>1, <1>2, <1>4 DEF Alive, TypeOK, WorkerLocals
<1>6. TableInv'
  BY <1>1, <1>2, <1>4, <1>5 DEF TypeOK, TableInv, Alive
<1>7. CmdInv'
  BY <1>1, <1>2, <1>4, <1>5 DEF TypeOK, TableInv, CmdInv, Alive
<1>8. EventsOwnTag'
  BY <1>1, <1>2, <1>4 DEF TypeOK, TableInv, EventsOwnTag, Alive
<1>9. MemoryInv'
  BY <1>1, <1>4, <1>5 DEF TypeOK, MemoryInv
<1> QED  BY <1>3, <1>6, <1>7, <1>8, <1>9

LEMMA WorkKeeps == ASSUME Inv, NEW i \in Instances, Work(i) PROVE Inv'
<1> USE AgentJobsAssumption DEF Inv, Work
<1>1. TypeOK'
  BY DEF TypeOK, TableInv, CmdInv, Alive, CmdLocals, CmdPositions, WorkerLocals, WorkerPositions
<1>2. TableInv'
  BY DEF TypeOK, TableInv, CmdInv, Alive
<1>3. CmdInv'
  BY DEF TypeOK, TableInv, CmdInv, Alive
<1>4. EventsOwnTag'
  BY DEF TypeOK, TableInv, EventsOwnTag, Alive
<1>5. MemoryInv'
  BY DEF TypeOK, TableInv, CmdInv, MemoryInv, Alive
<1> QED  BY <1>1, <1>2, <1>3, <1>4, <1>5

LEMMA StepEventKeeps == ASSUME Inv, NEW i \in Instances, StepEvent(i) PROVE Inv'
<1> DEFINE w == [worker[i] EXCEPT !.pc = "lookup"]
<1> USE AgentJobsAssumption DEF Inv
<1>0. w \in WorkerLocals /\ worker' = [worker EXCEPT ![i] = w]
  <2>1. worker[i] \in WorkerLocals /\ running[jobOf[i]] \in Instances \cup {None}
    BY DEF TypeOK, TableInv, Alive, StepEvent
  <2> QED  BY <2>1 DEF StepEvent, Move, TypeOK, WorkerLocals, WorkerPositions
<1>1. /\ worker' \in [Instances -> WorkerLocals]
      /\ worker'[i] = w
      /\ \A k \in Instances : k # i => worker'[k] = worker[k]
  BY <1>0, WorkerMoves
<1>2. w.pc = "lookup"
  BY <1>1 DEF TypeOK, WorkerLocals
<1>3. TypeOK'
  BY <1>1 DEF TypeOK, StepEvent
<1> HIDE DEF w
<1>4. worker[i].pc = "work" /\ UNCHANGED << cmd, running, jobOf, memory >>
  BY DEF StepEvent
<1>5. \A k \in Instances : Alive(k)' <=> Alive(k)
  BY <1>1, <1>2, <1>4 DEF Alive, TypeOK, WorkerLocals
<1>6. TableInv'
  BY <1>1, <1>2, <1>4, <1>5 DEF TypeOK, TableInv, Alive
<1>7. CmdInv'
  BY <1>1, <1>2, <1>4, <1>5 DEF TypeOK, TableInv, CmdInv, Alive
<1>8. EventsOwnTag'
  BY <1>1, <1>2, <1>4 DEF TypeOK, TableInv, EventsOwnTag, Alive
<1>9. MemoryInv'
  BY <1>1, <1>4, <1>5 DEF TypeOK, MemoryInv
<1> QED  BY <1>3, <1>6, <1>7, <1>8, <1>9

LEMMA EndJobKeeps == ASSUME Inv, NEW i \in Instances, EndJob(i) PROVE Inv'
<1> DEFINE w == [worker[i] EXCEPT !.pc = "lookup", !.next = "clear"]
<1> USE AgentJobsAssumption DEF Inv
<1>0. w \in WorkerLocals /\ worker' = [worker EXCEPT ![i] = w]
  <2>1. worker[i] \in WorkerLocals /\ running[jobOf[i]] \in Instances \cup {None}
    BY DEF TypeOK, TableInv, Alive, EndJob
  <2> QED  BY <2>1 DEF EndJob, TypeOK, WorkerLocals, WorkerPositions
<1>1. /\ worker' \in [Instances -> WorkerLocals]
      /\ worker'[i] = w
      /\ \A k \in Instances : k # i => worker'[k] = worker[k]
  BY <1>0, WorkerMoves
<1>2. w.pc = "lookup"
  BY <1>1 DEF TypeOK, WorkerLocals
<1>3. TypeOK'
  BY <1>1 DEF TypeOK, EndJob
<1> HIDE DEF w
<1>4. worker[i].pc = "work" /\ UNCHANGED << cmd, running, jobOf, memory >>
  BY DEF EndJob
<1>5. \A k \in Instances : Alive(k)' <=> Alive(k)
  BY <1>1, <1>2, <1>4 DEF Alive, TypeOK, WorkerLocals
<1>6. TableInv'
  BY <1>1, <1>2, <1>4, <1>5 DEF TypeOK, TableInv, Alive
<1>7. CmdInv'
  BY <1>1, <1>2, <1>4, <1>5 DEF TypeOK, TableInv, CmdInv, Alive
<1>8. EventsOwnTag'
  BY <1>1, <1>2, <1>4 DEF TypeOK, TableInv, EventsOwnTag, Alive
<1>9. MemoryInv'
  BY <1>1, <1>4, <1>5 DEF TypeOK, MemoryInv
<1> QED  BY <1>3, <1>6, <1>7, <1>8, <1>9

LEMMA WorkerClearKeeps == ASSUME Inv, NEW i \in Instances, WorkerClear(i) PROVE Inv'
<1> USE AgentJobsAssumption DEF Inv, WorkerClear, Move
<1>1. TypeOK'
  BY DEF TypeOK, TableInv, CmdInv, Alive, CmdLocals, CmdPositions, WorkerLocals, WorkerPositions
<1>2. TableInv'
  BY DEF TypeOK, TableInv, CmdInv, Alive
<1>3. CmdInv'
  BY DEF TypeOK, TableInv, CmdInv, Alive
<1>4. EventsOwnTag'
  BY DEF TypeOK, TableInv, EventsOwnTag, Alive
<1>5. MemoryInv'
  BY DEF TypeOK, TableInv, CmdInv, MemoryInv, Alive
<1> QED  BY <1>1, <1>2, <1>3, <1>4, <1>5


-----------------------------------------------------------------------------
LEMMA StepInv == Inv /\ [Next]_vars => Inv'
<1> SUFFICES ASSUME Inv, [Next]_vars PROVE Inv'
  OBVIOUS
<1>1. ASSUME NEW j \in Jobs, StartJob(j) \/ StopJob(j) PROVE Inv'
  BY <1>1, StartJobKeeps, StopJobKeeps
<1>2. CASE ShutdownBegin
  BY <1>2, ShutdownBeginKeeps
<1>3. CASE CmdStep
  BY <1>3, StartJoinKeeps, StartClearKeeps, SpawnKeeps, StopJoinKeeps, StopEraseKeeps,
     StopClearKeeps, ShutdownCancelKeeps, ShutdownJoinKeeps, ShutdownEndKeeps DEF CmdStep
<1>4. ASSUME NEW i \in Instances, PostStep(i) PROVE Inv'
  BY <1>4, LookupKeeps, PostEventKeeps, WorkerClearKeeps DEF PostStep
<1>5. ASSUME NEW i \in Instances, Work(i) \/ StepEvent(i) \/ EndJob(i) PROVE Inv'
  BY <1>5, WorkKeeps, StepEventKeeps, EndJobKeeps
<1>6. CASE UNCHANGED vars
  BY <1>6 DEF vars, Inv, TypeOK, TableInv, CmdInv, EventsOwnTag, MemoryInv, Alive
<1> QED  BY <1>1, <1>2, <1>3, <1>4, <1>5, <1>6 DEF Next

LEMMA Invariance == Spec => []Inv
BY InitInv, StepInv, PTL DEF Spec

(* Every variable keeps its type, for any number of jobs and instances.    *)
THEOREM TypeCorrect == Spec => []TypeOK
BY Invariance, PTL DEF Inv

(* Two live workers of a job would both be the instance in the table       *)
(* (onJobStartCommand joins before it replaces).                           *)
THEOREM OneWorker == Spec => []OneWorkerPerJob
<1>1. Inv => OneWorkerPerJob
  BY DEF Inv, TableInv, OneWorkerPerJob
<1> QED  BY <1>1, Invariance, PTL

(* The lookup by job of postJobEvent_ always finds the poster itself.      *)
THEOREM OwnTag == Spec => []EventsOwnTag
BY Invariance, PTL DEF Inv

(* No slot of a job is left when its last worker has returned              *)
(* (finalizeJobRuntimeState).                                              *)
THEOREM SlotsFreed == Spec => []MemoryFreed
<1>1. Inv => MemoryFreed
  BY DEF Inv, TypeOK, MemoryInv, MemoryFreed
<1> QED  BY <1>1, Invariance, PTL

(* Nobody clears the slots of a run that works: the clears of the commands *)
(* find none, and the worker that clears is the only one of its job        *)
(* (clearJobEphemeralState_).                                              *)
THEOREM SlotsKept == Spec => MemoryKept
<1> DEFINE Kept == \A i \in Instances : \A j \in Jobs :
      i \in memory[j] /\ worker[i].pc \in {"lookup", "post", "work"} => i \in memory'[j]
<1>1. Inv /\ [Next]_vars => [Kept]_vars
  <2> SUFFICES ASSUME Inv, [Next]_vars, NEW i \in Instances, NEW j \in Jobs,
                      i \in memory[j], worker[i].pc \in {"lookup", "post", "work"}
               PROVE  i \in memory'[j] \/ UNCHANGED vars
    OBVIOUS
  <2>1. jobOf[i] = j /\ running[j] = i /\ Alive(i)
    BY DEF Inv, MemoryInv, TableInv
  <2>2. CASE StartClear
    BY <2>1, <2>2, AgentJobsAssumption DEF StartClear, Inv, CmdInv, TypeOK, At, Alive
  <2>3. CASE StopClear
    BY <2>1, <2>3, AgentJobsAssumption DEF StopClear, Inv, CmdInv, TypeOK, At
  <2>4. ASSUME NEW k \in Instances, WorkerClear(k) PROVE i \in memory'[j]
    BY <2>1, <2>4 DEF WorkerClear, Inv, TypeOK, TableInv, Alive
  <2>5. ASSUME NEW k \in Instances, Work(k) PROVE i \in memory'[j]
    BY <2>5 DEF Work, Inv, TypeOK
  <2>6. CASE UNCHANGED memory
    BY <2>6
  <2> QED
    BY <2>2, <2>3, <2>4, <2>5, <2>6
    DEF Next, CmdStep, PostStep, vars, StartJob, StartJoin, Spawn, StopJob, StopJoin, StopErase,
        ShutdownBegin, ShutdownCancel, ShutdownJoin, ShutdownEnd, Lookup, PostEvent, StepEvent, EndJob
<1> QED  BY <1>1, Invariance, PTL DEF Spec, MemoryKept

-----------------------------------------------------------------------------
(* The refinement of JobRuns. *)

(* A worker holds what it has found only until the event is posted. *)
FoundInv == \A i \in Instances : worker[i].pc # "post" => worker[i].found = None

LEMMA FoundKept == ASSUME Inv, FoundInv, [Next]_vars PROVE FoundInv'
<1>1. CASE UNCHANGED worker
  BY <1>1 DEF FoundInv
<1>2. CASE Spawn
  <2>1. worker[cmd.inst].pc = "new" /\ cmd.inst \in Instances
    BY <1>2 DEF Spawn, At, Inv, CmdInv
  <2>2. \A k \in Instances : /\ worker'[k].found = worker[k].found
                             /\ k # cmd.inst => worker'[k] = worker[k]
    BY <1>2 DEF Spawn, Inv, TypeOK, WorkerLocals
  <2>. QED
    BY <2>1, <2>2 DEF FoundInv
<1>3. ASSUME NEW i \in Instances, Lookup(i) PROVE FoundInv'
  BY <1>3 DEF Lookup, FoundInv, Inv, TypeOK
<1>4. ASSUME NEW i \in Instances, PostEvent(i) PROVE FoundInv'
  <2>1. worker'[i].found = None /\ \A k \in Instances : k # i => worker'[k] = worker[k]
    BY <1>4 DEF PostEvent, Inv, TypeOK, WorkerLocals
  <2>. QED
    BY <2>1 DEF FoundInv
<1>5. ASSUME NEW i \in Instances, StepEvent(i) \/ EndJob(i) \/ WorkerClear(i) PROVE FoundInv'
  <2>1. /\ worker[i].pc # "post"
        /\ \A k \in Instances : /\ worker'[k].found = worker[k].found
                                /\ k # i => worker'[k] = worker[k]
    BY <1>5 DEF StepEvent, EndJob, WorkerClear, Move, Inv, TypeOK, WorkerLocals
  <2>. QED
    BY <2>1 DEF FoundInv
<1>. QED
  BY <1>1, <1>2, <1>3, <1>4, <1>5
  DEF Next, CmdStep, PostStep, vars, StartJob, StartJoin, StartClear, StopJob, StopJoin, StopErase,
      StopClear, ShutdownBegin, ShutdownCancel, ShutdownJoin, ShutdownEnd, Work

LEMMA LeaseInv == Spec => [](Inv /\ FoundInv)
<1>1. Init => FoundInv
  BY DEF Init, FoundInv, NewWorker
<1>2. Inv /\ FoundInv /\ [Next]_vars => FoundInv'
  BY FoundKept
<1>. QED
  BY <1>1, <1>2, Invariance, PTL DEF Spec

(* While the instance in the table has no thread its job has no worker and *)
(* no slots.                                                               *)
LEMMA NobodyWorks ==
  ASSUME Inv, NEW j \in Jobs, running[j] = None \/ ~Alive(running[j])
  PROVE  memory[j] = {} /\ \A i \in Instances : Alive(i) => jobOf[i] # j
<1>1. \A i \in Instances : Alive(i) => jobOf[i] # j
  BY AgentJobsAssumption DEF Inv, TableInv
<1>2. \A i \in memory[j] : i \in Instances /\ jobOf[i] = j /\ Alive(i)
  BY DEF Inv, TypeOK, MemoryInv
<1>. QED
  BY <1>1, <1>2

LEMMA SomeLease ==
  ASSUME NEW i \in Instances,
         \/ \E j \in Jobs : Leases!Make(i, j)
         \/ Leases!Begin(i) \/ Leases!Tell(i) \/ Leases!Keep(i) \/ Leases!End(i)
  PROVE  Leases!Next
BY Zenon DEF Leases!Next

LEMMA StartMaps == ASSUME Inv, NEW j \in Jobs, StartJob(j) PROVE Leases!Next
<1>1. PICK i \in Instances :
        jobOf[i] = None /\ jobOf' = [jobOf EXCEPT ![i] = j] /\ UNCHANGED << worker, memory >>
  BY DEF StartJob
<1>2. worker[i].pc = "new" /\ j # None
  BY <1>1, AgentJobsAssumption DEF Inv, TableInv
<1>3. \A k \in Instances : Phase(k)' = IF k = i THEN "made" ELSE Phase(k)
  BY <1>1, <1>2 DEF Inv, TypeOK, Phase, Alive
<1>4. Phase(i) = "none"
  BY <1>1, <1>2 DEF Phase, Alive
<1>5. Leases!Make(i, j)
  BY <1>1, <1>3, <1>4 DEF Leases!Make
<1>. QED
  BY <1>5, SomeLease

LEMMA SpawnMaps == ASSUME Inv, Spawn PROVE Leases!Next
<1>1. PICK i \in Instances : i = cmd.inst
  BY DEF Inv, CmdInv, Spawn, At
<1>2. PICK j \in Jobs : j = cmd.job
  BY DEF Inv, CmdInv, Spawn, At
<1>3. jobOf[i] = j /\ running[j] = i /\ worker[i].pc = "new" /\ j # None
  BY <1>1, <1>2, AgentJobsAssumption DEF Inv, CmdInv, Spawn, At
<1>4. /\ worker' = [worker EXCEPT ![i].pc = "lookup"]
      /\ UNCHANGED << jobOf, memory >>
  BY <1>1 DEF Spawn
<1>5. memory[j] = {} /\ \A k \in Instances : Alive(k) => jobOf[k] # j
  BY <1>3, NobodyWorks DEF Alive
<1>6. \A k \in Instances : Phase(k)' = IF k = i THEN "working" ELSE Phase(k)
  BY <1>3, <1>4 DEF Inv, TypeOK, Phase, Alive
<1>7. \A k \in Instances : worker'[k].found = worker[k].found
  BY <1>4 DEF Inv, TypeOK, WorkerLocals
<1>8. Phase(i) = "made" /\ \A k \in Instances : jobOf[k] = j => Phase(k) # "working"
  BY <1>3, <1>5 DEF Phase
<1>9. Leases!Begin(i)
  BY <1>3, <1>4, <1>5, <1>6, <1>7, <1>8 DEF Leases!Begin, Leases!Working
<1>. QED
  BY <1>9, SomeLease

(* An instance that posts finds itself. *)
LEMMA PostMaps ==
  ASSUME Inv, NEW i \in Instances, Lookup(i) \/ PostEvent(i)
  PROVE  Leases!Next
<1>1. PICK found \in {i, None} :
        /\ worker'[i].pc # "new" /\ worker'[i].pc # "done" /\ worker'[i].found = found
        /\ \A k \in Instances : k # i => worker'[k] = worker[k]
        /\ UNCHANGED << jobOf, memory >>
  <2>1. CASE Lookup(i)
    <3>1. running[jobOf[i]] = i
      BY <2>1 DEF Lookup, Alive, Inv, TableInv
    <3>. QED
      BY <2>1, <3>1 DEF Lookup, Inv, TypeOK, WorkerLocals
  <2>2. CASE PostEvent(i)
    BY <2>2 DEF PostEvent, Inv, TypeOK, WorkerLocals
  <2>. QED
    BY <2>1, <2>2
<1>2. Alive(i) /\ jobOf[i] # None
  BY AgentJobsAssumption DEF Lookup, PostEvent, Alive, Inv, TableInv
<1>3. Phase(i) = "working" /\ \A k \in Instances : Phase(k)' = Phase(k)
  BY <1>1, <1>2 DEF Phase, Alive
<1>4. Leases!Tell(i)
  BY <1>1, <1>3 DEF Leases!Tell
<1>. QED
  BY <1>4, SomeLease

LEMMA WorkMaps == ASSUME Inv, NEW i \in Instances, Work(i) PROVE Leases!Next
<1>1. Alive(i) /\ jobOf[i] # None
  BY AgentJobsAssumption DEF Work, Alive, Inv, TableInv
<1>2. Phase(i) = "working" /\ \A k \in Instances : Phase(k)' = Phase(k)
  BY <1>1 DEF Work, Phase, Alive
<1>3. Leases!Keep(i)
  BY <1>2 DEF Work, Leases!Keep
<1>. QED
  BY <1>3, SomeLease

LEMMA WorkerClearMaps ==
  ASSUME Inv, FoundInv, NEW i \in Instances, WorkerClear(i)
  PROVE  Leases!Next
<1>1. Alive(i) /\ jobOf[i] # None /\ worker[i].found = None
  BY AgentJobsAssumption DEF WorkerClear, Alive, Inv, TableInv, FoundInv
<1>2. /\ \A k \in Instances : worker'[k].pc = IF k = i THEN "done" ELSE worker[k].pc
      /\ \A k \in Instances : worker'[k].found = worker[k].found
      /\ jobOf' = jobOf
  BY DEF WorkerClear, Move, Inv, TypeOK, WorkerLocals
<1>3. Phase(i) = "working" /\ \A k \in Instances : Phase(k)' = IF k = i THEN "ended" ELSE Phase(k)
  BY <1>1, <1>2 DEF Phase, Alive
<1>4. Leases!End(i)
  BY <1>1, <1>2, <1>3 DEF WorkerClear, Leases!End
<1>. QED
  BY <1>4, SomeLease

(* The commands clear what is already empty. *)
LEMMA ClearMaps == ASSUME Inv, StartClear \/ StopClear PROVE UNCHANGED Leases!vars
<1>1. PICK j \in Jobs : j = cmd.job
  BY DEF StartClear, StopClear, At, Inv, CmdInv
<1>2. running[j] = None \/ ~Alive(running[j])
  BY <1>1 DEF StartClear, StopClear, At, Inv, CmdInv, Alive
<1>3. memory[j] = {}
  BY <1>2, NobodyWorks
<1>4. memory' = memory /\ UNCHANGED << worker, jobOf >>
  BY <1>1, <1>3 DEF StartClear, StopClear, Inv, TypeOK
<1>. QED
  BY <1>4 DEF Leases!vars, Phase, Alive

(* A worker that goes on to its next event works on. *)
LEMMA EventMaps ==
  ASSUME Inv, NEW i \in Instances, StepEvent(i) \/ EndJob(i)
  PROVE  UNCHANGED Leases!vars
<1>1. /\ \A k \in Instances : worker'[k].pc = IF k = i THEN "lookup" ELSE worker[k].pc
      /\ \A k \in Instances : worker'[k].found = worker[k].found
      /\ UNCHANGED << jobOf, memory >> /\ worker[i].pc = "work"
  BY DEF StepEvent, EndJob, Move, Inv, TypeOK, WorkerLocals
<1>2. \A k \in Instances : Phase(k)' = Phase(k)
  BY <1>1 DEF Phase, Alive
<1>. QED
  BY <1>1, <1>2 DEF Leases!vars

LEMMA LeaseMaps ==
  ASSUME Inv, FoundInv, [Next]_vars
  PROVE  [Leases!Next]_Leases!vars
<1>1. CASE UNCHANGED << worker, jobOf, memory >>
  BY <1>1 DEF Leases!vars, Phase, Alive
<1>2. ASSUME NEW j \in Jobs, StartJob(j) PROVE Leases!Next
  BY <1>2, StartMaps
<1>3. CASE Spawn
  BY <1>3, SpawnMaps
<1>4. CASE StartClear \/ StopClear
  BY <1>4, ClearMaps
<1>5. ASSUME NEW i \in Instances, PostStep(i) PROVE Leases!Next
  BY <1>5, PostMaps, WorkerClearMaps DEF PostStep
<1>6. ASSUME NEW i \in Instances, Work(i) PROVE Leases!Next
  BY <1>6, WorkMaps
<1>7. ASSUME NEW i \in Instances, StepEvent(i) \/ EndJob(i) PROVE UNCHANGED Leases!vars
  BY <1>7, EventMaps
<1>. QED
  BY <1>1, <1>2, <1>3, <1>4, <1>5, <1>6, <1>7
  DEF Next, CmdStep, vars, StartJoin, StopJob, StopJoin, StopErase, ShutdownBegin,
      ShutdownCancel, ShutdownJoin, ShutdownEnd

(* The table, the command thread and the workers are the leases of JobRuns,*)
(* for any number of jobs, starts and stops and a shutdown at any time.    *)
THEOREM ImplementsRuns == Spec => LeaseSpec
<1>1. Init => Leases!Init
  <2>1. SUFFICES ASSUME Init PROVE Leases!Init
    OBVIOUS
  <2>2. \A i \in Instances : Phase(i) = "none" /\ worker[i].found = None
    BY <2>1 DEF Init, Phase, Alive, NewWorker
  <2>. QED
    BY <2>1, <2>2 DEF Init, Leases!Init
<1>2. Inv /\ FoundInv /\ [Next]_vars => [Leases!Next]_Leases!vars
  BY LeaseMaps
<1>. QED
  BY <1>1, <1>2, LeaseInv, PTL DEF Spec, LeaseSpec, Leases!Spec

-----------------------------------------------------------------------------
(* The safe half of StopReturns.                                           *)

(* Who holds mu_ over a wait, and what a stop has done before it joins. *)
Waiting ==
  /\ mu => cmd.pc \in {"startJoin", "shutdown", "shutdownJoin"}
  /\ cmd.pc = "stopJoin" => cmd.inst \in cancel
  /\ \A i \in Instances :
       worker[i].next = "clear" => worker[i].pc \in {"lookup", "post", "clear", "done"}

(* A stop finds mu_ free wherever it is, and the run it joins was told to  *)
(* end and has a thread that can: not one still to be spawned, nor one     *)
(* that waits for a mutex the stop holds.                                  *)
StopReady ==
  cmd.pc \in {"stopJoin", "stopErase", "stopClear"} =>
    /\ ~mu
    /\ cmd.pc = "stopJoin" => cmd.inst \in cancel /\ worker[cmd.inst].pc # "new"

(* The posts a run has left once it has ended. *)
PostsLeft(i) ==
  CASE worker[i].pc = "lookup" -> 3
    [] worker[i].pc = "post" -> 2
    [] worker[i].pc = "clear" -> 1
    [] OTHER -> 0

(* A run that has left its loop does not go back to it: each move of its   *)
(* thread brings the return nearer.                                        *)
EndAdvances ==
  [][\A i \in Instances : worker[i].next = "clear" =>
       worker'[i] = worker[i] \/ (worker'[i].next = "clear" /\ PostsLeft(i)' < PostsLeft(i))]_vars

LEMMA WaitingKept ==
  ASSUME Inv, Waiting, [Next]_vars
  PROVE  /\ Waiting'
         /\ \A i \in Instances : worker[i].next = "clear" =>
              worker'[i] = worker[i] \/ (worker'[i].next = "clear" /\ PostsLeft(i)' < PostsLeft(i))
<1>0. TypeOK
  BY DEF Inv
<1>1. ASSUME UNCHANGED worker
      PROVE  \A i \in Instances :
               /\ worker'[i] = worker[i]
               /\ worker'[i].next = "clear" => worker'[i].pc \in {"lookup", "post", "clear", "done"}
  BY <1>1 DEF Waiting
<1>2. ASSUME NEW j \in Jobs, StartJob(j) PROVE Waiting'
  <2>1. cmd'.pc \in {"startClear", "startJoin"} /\ (mu' => cmd'.pc = "startJoin") /\ UNCHANGED worker
    BY <1>0, <1>2 DEF StartJob, IdleCmd, At, TypeOK
  <2>. QED
    BY <1>1, <2>1 DEF Waiting
<1>3. ASSUME NEW j \in Jobs, StopJob(j) PROVE Waiting'
  <2>1. ~mu' /\ (cmd'.pc = "stopJoin" => cmd'.inst \in cancel') /\ UNCHANGED worker
    BY <1>3 DEF StopJob, IdleCmd, At
  <2>. QED
    BY <1>1, <2>1 DEF Waiting
<1>4. CASE StartJoin \/ StopErase \/ StopJoin \/ StopClear \/ StartClear
  <2>1. ~mu' /\ cmd'.pc # "stopJoin" /\ UNCHANGED worker
    BY <1>0, <1>4 DEF StartJoin, StopErase, StopJoin, StopClear, StartClear, IdleCmd, Goto, At,
                      Waiting, TypeOK, CmdLocals
  <2>. QED
    BY <1>1, <2>1 DEF Waiting
<1>5. CASE ShutdownBegin \/ ShutdownJoin \/ ShutdownEnd \/ \E j \in Jobs : ShutdownCancel(j)
  <2>1. /\ mu' => cmd'.pc \in {"startJoin", "shutdown", "shutdownJoin"}
        /\ cmd'.pc # "stopJoin" /\ UNCHANGED worker
    BY <1>0, <1>5 DEF ShutdownBegin, ShutdownJoin, ShutdownEnd, ShutdownCancel, IdleCmd, At,
                      TypeOK, CmdLocals
  <2>. QED
    BY <1>1, <2>1 DEF Waiting
<1>6. CASE Spawn
  <2>1. ~mu' /\ cmd'.pc = "idle" /\ cmd.inst \in Instances /\ worker[cmd.inst].pc = "new"
    BY <1>6 DEF Spawn, At, Inv, CmdInv, Waiting, IdleCmd
  <2>2. worker[cmd.inst].next = "work"
    BY <1>0, <2>1 DEF Waiting, TypeOK, WorkerLocals
  <2>3. /\ worker'[cmd.inst].next = "work"
        /\ \A i \in Instances : i # cmd.inst => worker'[i] = worker[i]
    BY <1>0, <1>6, <2>1, <2>2 DEF Spawn, TypeOK, WorkerLocals
  <2>. QED
    BY <2>1, <2>2, <2>3 DEF Waiting
<1>7. ASSUME NEW i \in Instances, PostStep(i) \/ StepEvent(i) \/ EndJob(i)
      PROVE  /\ Waiting'
             /\ \A k \in Instances : worker[k].next = "clear" =>
                  worker'[k] = worker[k] \/ (worker'[k].next = "clear" /\ PostsLeft(k)' < PostsLeft(k))
  <2>1. UNCHANGED << mu, cmd, cancel >> /\ \A k \in Instances : k # i => worker'[k] = worker[k]
    BY <1>0, <1>7 DEF PostStep, Lookup, PostEvent, WorkerClear, StepEvent, EndJob, Move, TypeOK
  <2>2. \/ worker[i].pc = "lookup" /\ worker'[i].pc = "post" /\ worker'[i].next = worker[i].next
        \/ /\ worker[i].pc = "post" /\ worker'[i].pc = worker[i].next
           /\ worker'[i].next = worker[i].next
        \/ worker[i].pc = "clear" /\ worker'[i].pc = "done" /\ worker'[i].next = worker[i].next
        \/ worker[i].pc = "work" /\ worker'[i].pc = "lookup"
    <3>1. CASE Lookup(i)
      BY <1>0, <3>1 DEF Lookup, TypeOK, WorkerLocals
    <3>2. CASE PostEvent(i)
      BY <1>0, <3>2 DEF PostEvent, TypeOK, WorkerLocals
    <3>3. CASE WorkerClear(i)
      BY <1>0, <3>3 DEF WorkerClear, Move, TypeOK, WorkerLocals
    <3>4. CASE StepEvent(i) \/ EndJob(i)
      BY <1>0, <3>4 DEF StepEvent, EndJob, Move, TypeOK, WorkerLocals
    <3>. QED
      BY <1>7, <3>1, <3>2, <3>3, <3>4 DEF PostStep
  <2>3. worker[i].next = "clear" =>
          worker'[i].next = "clear" /\ PostsLeft(i)' < PostsLeft(i)
    BY <2>2 DEF PostsLeft, Waiting
  <2>4. worker'[i].next = "clear" => worker'[i].pc \in {"lookup", "post", "clear", "done"}
    BY <2>2, <2>3 DEF Waiting
  <2>. QED
    BY <2>1, <2>3, <2>4 DEF Waiting
<1>8. CASE (\E i \in Instances : Work(i)) \/ UNCHANGED vars
  BY <1>1, <1>8 DEF Work, Waiting, vars
<1>9. CASE \/ \E j \in Jobs : StartJob(j) \/ StopJob(j)
           \/ StartJoin \/ StopErase \/ StopJoin \/ StopClear \/ StartClear
           \/ ShutdownBegin \/ ShutdownJoin \/ ShutdownEnd \/ \E j \in Jobs : ShutdownCancel(j)
  <2>1. UNCHANGED worker
    BY <1>9 DEF StartJob, StopJob, StartJoin, StopErase, StopJoin, StopClear, StartClear,
                ShutdownBegin, ShutdownJoin, ShutdownEnd, ShutdownCancel
  <2>. QED
    BY <1>1, <1>2, <1>3, <1>4, <1>5, <1>9, <2>1
<1>10. CASE Spawn
  <2>1. cmd.inst \in Instances /\ worker[cmd.inst].pc = "new"
    BY <1>10 DEF Spawn, At, Inv, CmdInv
  <2>2. worker[cmd.inst].next # "clear"
    BY <2>1 DEF Waiting
  <2>3. \A i \in Instances : i # cmd.inst => worker'[i] = worker[i]
    BY <1>0, <1>10, <2>1 DEF Spawn, TypeOK
  <2>. QED
    BY <1>6, <1>10, <2>2, <2>3
<1>. QED
  BY <1>7, <1>8, <1>9, <1>10 DEF Next, CmdStep

LEMMA WaitingInvariant == Spec => [](Inv /\ Waiting)
<1>1. Init => Waiting
  BY DEF Init, IdleCmd, NewWorker, Waiting
<1>2. Inv /\ Waiting /\ [Next]_vars => Waiting'
  BY WaitingKept
<1>. QED
  BY <1>1, <1>2, Invariance, PTL DEF Spec

(* onJobStopCommand never waits for a worker that waits for it. *)
THEOREM StopNeverBlocked == Spec => []StopReady
<1>1. ASSUME Inv, Waiting PROVE StopReady
  <2>1. CASE cmd.pc = "stopJoin"
    <3>1. cmd.job \in Jobs /\ cmd.inst \in Instances /\ running[cmd.job] = cmd.inst
      BY <1>1, <2>1 DEF Inv, CmdInv
    <3>2. worker[cmd.inst].pc # "new"
      BY <1>1, <2>1, <3>1, AgentJobsAssumption DEF Inv, TableInv
    <3>. QED
      BY <1>1, <2>1, <3>2 DEF Inv, TypeOK, Waiting, StopReady
  <2>2. CASE cmd.pc # "stopJoin"
    BY <1>1, <2>2 DEF Inv, TypeOK, Waiting, StopReady
  <2>. QED
    BY <2>1, <2>2
<1>. QED
  BY <1>1, WaitingInvariant, PTL

(* The end of runJob_ is never undone: event, clear, return.               *)
THEOREM EndComesNearer == Spec => EndAdvances
<1>1. Inv /\ Waiting /\ [Next]_vars =>
        [\A i \in Instances : worker[i].next = "clear" =>
           worker'[i] = worker[i]
           \/ (worker'[i].next = "clear" /\ PostsLeft(i)' < PostsLeft(i))]_vars
  BY WaitingKept
<1>. QED
  BY <1>1, WaitingInvariant, PTL DEF Spec, EndAdvances
=============================================================================
