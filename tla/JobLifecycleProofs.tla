------------------------ MODULE JobLifecycleProofs ------------------------
(***************************************************************************)
(* Proofs about JobLifecycle, for any number of start and stop requests,   *)
(* concurrent poll handlers, rows and faults.                              *)
(***************************************************************************)
EXTENDS JobLifecycle, TLAPS

-----------------------------------------------------------------------------
(* Type correctness.  It rests on the agent knowing which command it works *)
(* on from the moment it took it until it is done with it.                 *)

CurrentKnown ==
  agent.mode \in {"executing", "posting", "posted", "reporting"} => agent.current \in Ids

LEMMA InsertType ==
  ASSUME TypeOK, NEW type \in {"job_start", "job_stop"}, NEW run \in Runs \cup {None},
         NEW at \in Nat, NEW due \in BOOLEAN, InsertCommand(type, run, at, due)
  PROVE  commands' \in [Ids -> Row] /\ lastId' \in 0..MaxId
<1>1. [type |-> type, run |-> run, at |-> at, due |-> due, status |-> "pending"] \in Row
  BY DEF Row
<1>2. lastId + 1 \in Ids /\ lastId + 1 \in 0..MaxId
  BY LifecycleAssumption DEF TypeOK, InsertCommand, Ids
<1>. QED
  BY <1>1, <1>2 DEF TypeOK, InsertCommand

LEMMA StatusType ==
  ASSUME TypeOK, NEW c \in Ids,
         NEW status \in {"absent", "pending", "sent", "completed", "failed"}
  PROVE  [commands EXCEPT ![c].status = status] \in [Ids -> Row]
BY DEF TypeOK, Row

LEMMA SettleType ==
  ASSUME TypeOK, NEW S \in SUBSET Ids, SettleIgnored(S)
  PROVE  /\ commands' \in [Ids -> Row]
         /\ \A c \in Ids : commands'[c].status = "pending" => commands[c].status = "pending"
<1>1. \A c \in Ids : /\ [commands[c] EXCEPT !.status = "completed"] \in Row
                      /\ [commands[c] EXCEPT !.status = "completed"].status = "completed"
  BY DEF TypeOK, Row
<1>. QED
  BY <1>1 DEF TypeOK, SettleIgnored

LEMMA StartType ==
  ASSUME TypeOK, NEW r \in Runs,
         \/ StartCheck(r) \/ StartStep(r) \/ StartPlanFails(r)
         \/ StartMarkRuntimeFails(r) \/ WindowPasses(r)
  PROVE  TypeOK'
<1>. USE LifecycleAssumption DEF TypeOK, startVars, restOfStart
<1>1. CASE StartCheck(r)
  BY <1>1 DEF StartCheck, StartLocals
<1>2. CASE StartQueueRun(r)
  BY <1>2 DEF StartQueueRun, StartStamp, StartLocals, RunStates
<1>3. CASE StartInsert(r)
  <2>1. commands' \in [Ids -> Row] /\ lastId' \in 0..MaxId
    BY <1>3, InsertType DEF StartInsert, StartLocals
  <2>. QED
    BY <1>3, <2>1 DEF StartInsert, StartLocals
<1>4. CASE StartMarkRun(r)
  BY <1>4 DEF StartMarkRun, StartLocals, RunStates
<1>5. CASE StartMarkRuntime(r)
  BY <1>5 DEF StartMarkRuntime, StartLocals, RuntimeStates
<1>6. CASE StartEvent(r)
  BY <1>6 DEF StartEvent, StartLocals, RunStates
<1>7. CASE StartPlanFails(r)
  BY <1>7 DEF StartPlanFails, Fault, StartLocals, RunStates
<1>8. CASE StartMarkRuntimeFails(r)
  BY <1>8 DEF StartMarkRuntimeFails, Fault, StartLocals
<1>9. CASE WindowPasses(r)
  BY <1>9 DEF WindowPasses
<1>. QED
  BY <1>1, <1>2, <1>3, <1>4, <1>5, <1>6, <1>7, <1>8, <1>9 DEF StartStep

LEMMA StopType ==
  ASSUME TypeOK, NEW s \in Stops, StopArrive(s) \/ StopStep(s) \/ StopFails(s)
  PROVE  TypeOK'
<1>. USE LifecycleAssumption DEF TypeOK, restOfStop, StopLocals
<1>1. CASE StopArrive(s)
  BY <1>1 DEF StopArrive
<1>2. CASE StopInsert(s)
  <2>1. commands' \in [Ids -> Row] /\ lastId' \in 0..MaxId
    BY <1>2, InsertType DEF StopInsert
  <2>. QED
    BY <1>2, <2>1 DEF StopInsert
<1>3. CASE StopMarkRuntime(s)
  BY <1>3 DEF StopMarkRuntime, RuntimeStates
<1>4. CASE StopFails(s)
  BY <1>4 DEF StopFails, Fault
<1>. QED
  BY <1>1, <1>2, <1>3, <1>4 DEF StopStep

LEMMA PollType ==
  ASSUME TypeOK, NEW h \in Handlers, PollStep(h) \/ PollFails(h)
  PROVE  TypeOK'
<1>. USE LifecycleAssumption DEF TypeOK, restOfPoll
<1>1. FreeHandler \in PollLocals
  BY DEF FreeHandler, PollLocals
<1>2. Idle \in AgentStates
  BY DEF Idle, AgentStates
<1>3. CASE PollSelect(h)
  <2>. DEFINE rows == {c \in Ids : commands[c].status = "pending" /\ commands[c].due}
  <2>1. rows \in SUBSET Ids
    OBVIOUS
  <2>2. windowOver \in SUBSET Runs /\ poll[h] \in PollLocals
    OBVIOUS
  <2>. HIDE DEF rows
  <2>3. [poll[h] EXCEPT !.pc = "rows", !.over = windowOver, !.todo = rows] \in PollLocals
    BY <2>1, <2>2 DEF PollLocals
  <2>4. poll' = [poll EXCEPT ![h] =
                   [poll[h] EXCEPT !.pc = "rows", !.over = windowOver, !.todo = rows]]
    BY <1>3 DEF PollSelect, rows
  <2>. QED
    BY <1>3, <2>3, <2>4 DEF PollSelect
<1>4. CASE PollReadRuntime(h)
  BY <1>4 DEF PollReadRuntime, PollLocals
<1>5. CASE PollRow(h)
  <2>1. PICK c \in Oldest(poll[h].todo) :
          \/ poll' = [poll EXCEPT ![h].todo = @ \ {c}, ![h].settle = @ \cup {c}]
          \/ poll' = [poll EXCEPT ![h].todo = @ \ {c}, ![h].deliver = @ \cup {c}]
    BY <1>5 DEF PollRow
  <2>2. c \in Ids
    BY DEF Oldest, PollLocals
  <2>3. poll' \in [Handlers -> PollLocals]
    BY <2>1, <2>2 DEF PollLocals
  <2>. QED
    BY <1>5, <2>3 DEF PollRow
<1>10. CASE PollSettle(h)
  <2>1. PICK c \in poll[h].settle :
          SettleIgnored({c}) /\ poll' = [poll EXCEPT ![h].settle = @ \ {c}]
    BY <1>10 DEF PollSettle
  <2>2. {c} \in SUBSET Ids
    BY DEF PollLocals
  <2>3. commands' \in [Ids -> Row]
    BY <2>1, <2>2, SettleType
  <2>4. poll' \in [Handlers -> PollLocals]
    BY <2>1 DEF PollLocals
  <2>. QED
    BY <1>10, <2>3, <2>4 DEF PollSettle
<1>6. CASE PollMarkSent(h)
  <2>1. commands' \in [Ids -> Row]
    <3>1. \A c \in Ids : [commands[c] EXCEPT !.status = "sent"] \in Row
      BY DEF Row
    <3>. QED
      BY <1>6, <3>1 DEF PollMarkSent, Sent
  <2>. DEFINE taken == {c \in poll[h].deliver : ~IsStart(c)}
  <2>2. taken \in SUBSET Ids /\ poll[h] \in PollLocals
    BY DEF PollLocals
  <2>3. poll' = [poll EXCEPT ![h] = [poll[h] EXCEPT !.pc = "stops", !.todo = taken]]
    BY <1>6 DEF PollMarkSent
  <2>. HIDE DEF taken
  <2>4. [poll[h] EXCEPT !.pc = "stops", !.todo = taken] \in PollLocals
    BY <2>2 DEF PollLocals
  <2>. QED
    BY <1>6, <2>1, <2>3, <2>4 DEF PollMarkSent
<1>7. CASE PollMarkStopped(h)
  BY <1>7 DEF PollMarkStopped, PollLocals, RuntimeStates
<1>8. CASE PollAnswer(h)
  <2>1. [Idle EXCEPT !.mode = "working", !.inbox = poll[h].deliver] \in AgentStates
    BY <1>2 DEF AgentStates, PollLocals
  <2>. QED
    BY <1>1, <1>8, <2>1 DEF PollAnswer
<1>9. CASE PollFails(h)
  <2>1. PICK S \in SUBSET poll[h].settle : SettleIgnored(S)
    BY <1>9 DEF PollFails
  <2>2. S \in SUBSET Ids
    BY DEF PollLocals
  <2>3. commands' \in [Ids -> Row]
    BY <2>1, <2>2, SettleType
  <2>. QED
    BY <1>1, <1>2, <1>9, <2>3 DEF PollFails, Fault
<1>. QED
  BY <1>3, <1>4, <1>5, <1>6, <1>7, <1>8, <1>9, <1>10 DEF PollStep

LEMMA GiveUpType ==
  ASSUME TypeOK PROVE GiveUp \in AgentStates /\ Idle \in AgentStates
<1>1. 0 \in 0..MaxId /\ agent \in AgentStates
  BY LifecycleAssumption DEF TypeOK
<1>. QED
  BY <1>1 DEF GiveUp, Idle, AgentStates

LEMMA FaultType ==
  ASSUME TypeOK, Fault PROVE faults' \in 0..MaxFaults
BY LifecycleAssumption DEF TypeOK, Fault

LEMMA AgentType ==
  ASSUME TypeOK, CurrentKnown,
         AgentStep \/ AgentReportLost \/ AgentTimeout \/ AgentRestart
  PROVE  TypeOK'
<1>. USE DEF TypeOK, restOfAgent
<1>1. Idle \in AgentStates /\ GiveUp \in AgentStates /\ agent \in AgentStates
  BY GiveUpType
<1>2. ASSUME NEW h \in Handlers, AgentPoll(h) PROVE TypeOK'
  <2>1. [Idle EXCEPT !.mode = "polling", !.handler = h] \in AgentStates
    BY <1>1 DEF AgentStates
  <2>. QED
    BY <1>2, <2>1 DEF AgentPoll, PollLocals
<1>3. CASE AgentTake
  <2>1. PICK c \in Oldest(agent.inbox) :
          /\ agent' = [agent EXCEPT !.mode = "executing", !.current = c,
                                    !.inbox = @ \ {c}]
          /\ executed' = executed \cup {c}
    BY <1>3 DEF AgentTake
  <2>2. c \in Ids /\ c \in 0..MaxId
    BY <1>1, LifecycleAssumption DEF Oldest, AgentStates, Ids
  <2>3. agent' \in AgentStates
    BY <1>1, <2>1, <2>2 DEF AgentStates
  <2>. QED
    BY <1>3, <2>1, <2>2, <2>3 DEF AgentTake
<1>4. CASE AgentBatchDone
  BY <1>1, <1>4 DEF AgentBatchDone
<1>5. CASE AgentPostEvent
  <2>1. agent.current \in Ids /\ agent' \in AgentStates
    BY <1>1, <1>5 DEF AgentPostEvent, CurrentKnown, AgentStates
  <2>. QED
    BY <1>5, <2>1 DEF AgentPostEvent
<1>6. CASE AgentReport
  <2>1. PICK o \in {"completed", "failed"} :
          report' = [report EXCEPT ![agent.current] =
            [NoReport EXCEPT !.pc = "mark", !.outcome = o, !.at = clock + 1]]
    BY <1>6 DEF AgentReport
  <2>2. NoReport \in ReportLocals /\ clock + 1 \in Nat
    BY DEF NoReport, ReportLocals, RuntimeStates
  <2>3. [NoReport EXCEPT !.pc = "mark", !.outcome = o, !.at = clock + 1] \in ReportLocals
    BY <2>2 DEF ReportLocals
  <2>4. report' \in [Ids -> ReportLocals]
    BY <2>1, <2>3
  <2>5. agent' \in AgentStates
    BY <1>1, <1>6 DEF AgentReport, AgentStates
  <2>. QED
    BY <1>6, <2>4, <2>5 DEF AgentReport
<1>7. CASE AgentReportLost
  BY <1>1, <1>7, FaultType DEF AgentReportLost
<1>8. CASE AgentTimeout
  <2>1. agent' \in AgentStates
    BY <1>1, <1>8 DEF AgentTimeout, AgentStates
  <2>. QED
    BY <1>8, <2>1, FaultType DEF AgentTimeout
<1>9. CASE AgentRestart
  BY <1>1, <1>9, FaultType DEF AgentRestart
<1>. QED
  BY <1>2, <1>3, <1>4, <1>5, <1>6, <1>7, <1>8, <1>9 DEF AgentStep

LEMMA ResultOverType ==
  ASSUME TypeOK, NEW c \in Ids, ResultOver(c)
  PROVE  report' \in [Ids -> ReportLocals] /\ agent' \in AgentStates
<1>1. NoReport \in ReportLocals
  BY DEF NoReport, ReportLocals, RuntimeStates
<1>2. [agent EXCEPT !.mode = "working", !.current = 0] \in AgentStates
  BY GiveUpType DEF GiveUp
<1>. QED
  BY <1>1, <1>2 DEF TypeOK, ResultOver

LEMMA ResultType ==
  ASSUME TypeOK, NEW c \in Ids,
         HandleEvent(c) \/ ResultStep(c) \/ ResultFails(c) \/ BecomesDue(c)
  PROVE  TypeOK'
<1>. USE LifecycleAssumption DEF TypeOK, restOfReport
<1>1. NoReport \in ReportLocals
  BY DEF NoReport, ReportLocals, RuntimeStates
<1>2. CASE HandleEvent(c)
  BY <1>2 DEF HandleEvent, RunStates, AgentStates
<1>3. CASE ResultMark(c)
  <2>1. commands' \in [Ids -> Row]
    BY <1>3, StatusType DEF ResultMark, FinalStatus, ReportLocals
  <2>. QED
    BY <1>3, <2>1 DEF ResultMark, Goto, ReportLocals
<1>4. CASE ResultReadRuntime(c)
  BY <1>4 DEF ResultReadRuntime, ReportLocals
<1>5. CASE ResultReadRun(c)
  BY <1>5 DEF ResultReadRun, Goto, ReportLocals
<1>6. CASE ResultKeepRuntime(c)
  BY <1>6 DEF ResultKeepRuntime, Goto, ReportLocals, RuntimeStates
<1>7. CASE ResultKeepRun(c)
  BY <1>7 DEF ResultKeepRun, Goto, ReportLocals, RunStates
<1>8. CASE ResultFindNext(c)
  BY <1>8 DEF ResultFindNext, Goto, ReportLocals
<1>9. CASE ResultInsertNext(c)
  <2>1. commands[c].run \in Runs \cup {None} /\ report[c].at \in Nat
    BY DEF Row, ReportLocals
  <2>2. commands' \in [Ids -> Row] /\ lastId' \in 0..MaxId
    BY <1>9, <2>1, InsertType DEF ResultInsertNext
  <2>. QED
    BY <1>9, <2>2 DEF ResultInsertNext, Goto, ReportLocals
<1>10. CASE ResultEndRuntime(c)
  BY <1>10 DEF ResultEndRuntime, Goto, ReportLocals, RuntimeStates
<1>11. CASE ResultEndRun(c)
  BY <1>11 DEF ResultEndRun, Goto, ReportLocals, RunStates
<1>12. CASE ResultAnswer(c)
  BY <1>1, <1>12, ResultOverType DEF ResultAnswer
<1>13. CASE ResultFails(c)
  BY <1>1, <1>13, ResultOverType DEF ResultFails, Fault
<1>14. CASE BecomesDue(c)
  BY <1>14 DEF BecomesDue, Row
<1>. QED
  BY <1>2, <1>3, <1>4, <1>5, <1>6, <1>7, <1>8, <1>9, <1>10, <1>11, <1>12, <1>13,
     <1>14 DEF ResultStep

LEMMA TypeStep == TypeOK /\ CurrentKnown /\ [Next]_vars => TypeOK'
<1>. SUFFICES ASSUME TypeOK, CurrentKnown, [Next]_vars PROVE TypeOK'
  OBVIOUS
<1>1. CASE Next
  BY <1>1, StartType, StopType, PollType, AgentType, ResultType DEF Next
<1>2. CASE UNCHANGED vars
  BY <1>2 DEF TypeOK, vars
<1>. QED
  BY <1>1, <1>2

LEMMA TypeInit == Init => TypeOK
BY LifecycleAssumption
DEF Init, TypeOK, Row, NoRow, RuntimeStates, RunStates, StartLocals, StopLocals,
    FreeHandler, PollLocals, NoReport, ReportLocals, Idle, AgentStates

-----------------------------------------------------------------------------
(* The inductive invariant.  ExecutedOnce is kept because a row joins the  *)
(* agent's memory only after its handler has marked it sent, because the   *)
(* handler the agent waits for has read the table after the agent's last   *)
(* execution, and because no statement makes a used row pending again.     *)

(* Nothing refers to a row that was not inserted yet. *)
RowsUsed ==
  /\ \A c \in Ids : commands[c].status = "pending" => c <= lastId
  /\ executed \cup agent.inbox \subseteq 1..lastId
  /\ \A h \in Handlers : poll[h].todo \cup poll[h].deliver \subseteq 1..lastId

(* What a poll handler holds at each position. *)
HandlersInv ==
  \A h \in Handlers :
    /\ poll[h].pc \in {"free", "select"} => poll[h].todo = {} /\ poll[h].deliver = {}
    /\ poll[h].pc = "stops" =>
         /\ poll[h].todo \subseteq poll[h].deliver
         /\ \A c \in poll[h].deliver : commands[c].status # "pending"

(* What the agent holds. *)
AgentInv ==
  /\ agent.mode = "polling" => agent.handler \in Handlers
  /\ agent.mode \in {"idle", "polling"} => agent.inbox = {}
  /\ \A c \in agent.inbox : commands[c].status # "pending"

Inv == TypeOK /\ CurrentKnown /\ RowsUsed /\ HandlersInv /\ AgentInv /\ ExecutedOnce

-----------------------------------------------------------------------------
(* What a step does to the queue: some waiting rows are given up, a row is *)
(* inserted, or the agent takes a row.                                     *)

QueueInv == CurrentKnown /\ RowsUsed /\ HandlersInv /\ AgentInv

Shrinks == UNCHANGED << executed, lastId >> /\ Waiting' \subseteq Waiting

Posts == /\ lastId' = lastId + 1 /\ lastId' \in Ids
         /\ Waiting' = Waiting \cup {lastId'}
         /\ UNCHANGED executed

Executes == /\ \E c \in Waiting : /\ Waiting' = Waiting \ {c}
                                  /\ executed' = executed \cup {c}
            /\ UNCHANGED lastId

LEMMA FrameStep ==
  ASSUME QueueInv, UNCHANGED << commands, lastId, poll, agent, executed >>
  PROVE  QueueInv' /\ Shrinks
BY DEF QueueInv, CurrentKnown, RowsUsed, HandlersInv, AgentInv, Shrinks, Waiting, Arriving

LEMMA InsertStep ==
  ASSUME TypeOK, QueueInv, NEW type, NEW run, NEW at, NEW due,
         InsertCommand(type, run, at, due), UNCHANGED << poll, agent, executed >>
  PROVE  QueueInv' /\ Posts
<1>. DEFINE new == lastId + 1
<1>1. new \in Ids /\ new \notin 1..lastId /\ 1..lastId \subseteq 1..new /\ lastId \in Nat
  BY LifecycleAssumption DEF TypeOK, InsertCommand, Ids
<1>2. /\ commands'[new].status = "pending"
      /\ \A c \in Ids \ {new} : commands'[c] = commands[c]
      /\ lastId' = new
  BY <1>1 DEF InsertCommand, TypeOK
<1>. HIDE DEF new
<1>3. \A c \in Ids : c <= lastId => c <= new
  BY <1>1 DEF Ids, new
<1>4. RowsUsed'
  BY <1>1, <1>2, <1>3 DEF QueueInv, RowsUsed, Ids
<1>5. HandlersInv' /\ AgentInv' /\ CurrentKnown'
  <2>1. \A h \in Handlers : poll[h].deliver \subseteq Ids \ {new}
    BY <1>1 DEF QueueInv, RowsUsed, TypeOK, PollLocals
  <2>2. agent.inbox \subseteq Ids \ {new}
    BY <1>1 DEF QueueInv, RowsUsed, TypeOK, AgentStates
  <2>. QED
    BY <1>2, <2>1, <2>2 DEF QueueInv, HandlersInv, AgentInv, CurrentKnown
<1>6. Waiting' = Waiting \cup {new}
  BY <1>1, <1>2 DEF Waiting, Arriving
<1>. QED
  BY <1>1, <1>2, <1>4, <1>5, <1>6 DEF QueueInv, Posts, new

(* The agent moves on without waiting for a poll. *)
LEMMA AgentMoves ==
  ASSUME QueueInv, UNCHANGED << commands, lastId, poll, executed >>,
         agent'.mode # "polling", agent'.inbox \subseteq agent.inbox,
         agent'.mode = "idle" => agent'.inbox = {}, CurrentKnown'
  PROVE  QueueInv' /\ Shrinks
BY DEF QueueInv, CurrentKnown, RowsUsed, HandlersInv, AgentInv, Shrinks, Waiting, Arriving

LEMMA StartQueue ==
  ASSUME TypeOK, QueueInv, NEW r \in Runs,
         \/ StartCheck(r) \/ StartStep(r) \/ StartPlanFails(r)
         \/ StartMarkRuntimeFails(r) \/ WindowPasses(r)
  PROVE  QueueInv' /\ (Shrinks \/ Posts)
<1>1. CASE StartInsert(r)
  BY <1>1, InsertStep DEF StartInsert, restOfStart
<1>2. CASE ~StartInsert(r)
  BY <1>2, FrameStep
  DEF StartCheck, StartStep, StartQueueRun, StartMarkRun, StartMarkRuntime, StartEvent,
      StartPlanFails, StartMarkRuntimeFails, WindowPasses, startVars, restOfStart
<1>. QED
  BY <1>1, <1>2

LEMMA StopQueue ==
  ASSUME TypeOK, QueueInv, NEW s \in Stops, StopArrive(s) \/ StopStep(s) \/ StopFails(s)
  PROVE  QueueInv' /\ (Shrinks \/ Posts)
<1>1. CASE StopInsert(s)
  BY <1>1, InsertStep DEF StopInsert, restOfStop
<1>2. CASE ~StopInsert(s)
  BY <1>2, FrameStep
  DEF StopArrive, StopStep, StopMarkRuntime, StopFails, restOfStop
<1>. QED
  BY <1>1, <1>2

(* No row becomes pending. *)
LEMMA StatusStep ==
  ASSUME TypeOK, QueueInv, UNCHANGED << lastId, agent, executed >>,
         \A g \in Handlers : /\ poll'[g].pc = poll[g].pc
                             /\ poll'[g].todo = poll[g].todo
                             /\ poll'[g].deliver = poll[g].deliver,
         \A d \in Ids : commands'[d].status = "pending" => commands[d].status = "pending"
  PROVE  QueueInv' /\ Shrinks
<1>1. HandlersInv' /\ AgentInv'
  <2>1. \A h \in Handlers : poll[h].deliver \subseteq Ids
    BY DEF TypeOK, PollLocals
  <2>2. agent.inbox \subseteq Ids
    BY DEF TypeOK, AgentStates
  <2>. QED
    BY <2>1, <2>2 DEF QueueInv, HandlersInv, AgentInv
<1>2. RowsUsed' /\ CurrentKnown'
  BY DEF QueueInv, RowsUsed, CurrentKnown
<1>3. Arriving' = Arriving
  BY DEF QueueInv, AgentInv, Arriving
<1>. QED
  BY <1>1, <1>2, <1>3 DEF QueueInv, Shrinks, Waiting

(* A poll handler brings nothing to the agent but pending rows. *)
LEMMA PollWaiting ==
  ASSUME AgentInv, UNCHANGED agent,
         \A d \in Ids : commands'[d].status = "pending" => commands[d].status = "pending",
         \A g \in Handlers : poll'[g].todo \cup poll'[g].deliver
           \subseteq poll[g].todo \cup poll[g].deliver
                     \cup {d \in Ids : commands[d].status = "pending"}
  PROVE  Waiting' \subseteq Waiting
<1>1. CASE agent.mode = "polling"
  <2>1. agent.handler \in Handlers
    BY <1>1 DEF AgentInv
  <2>. QED
    BY <1>1, <2>1 DEF Waiting, Arriving
<1>2. CASE agent.mode # "polling"
  BY <1>2 DEF Waiting, Arriving
<1>. QED
  BY <1>1, <1>2

LEMMA PollQueue ==
  ASSUME TypeOK, QueueInv, NEW h \in Handlers, PollStep(h) \/ PollFails(h)
  PROVE  QueueInv' /\ Shrinks
<1>. USE DEF QueueInv, restOfPoll
<1>1. poll[h] \in PollLocals /\ agent \in AgentStates /\ commands \in [Ids -> Row]
  BY DEF TypeOK
<1>2. CASE PollSelect(h)
  <2>1. /\ \A g \in Handlers \ {h} : poll'[g] = poll[g]
        /\ poll'[h].pc = "rows" /\ poll'[h].deliver = poll[h].deliver
        /\ poll'[h].todo = {c \in Ids : commands[c].status = "pending" /\ commands[c].due}
    BY <1>2 DEF PollSelect, TypeOK, PollLocals
  <2>2. poll[h].deliver = {} /\ poll[h].todo = {}
    BY <1>2 DEF PollSelect, HandlersInv
  <2>3. poll'[h].todo \subseteq {c \in Ids : commands[c].status = "pending"}
    BY <2>1
  <2>4. poll'[h].todo \subseteq 1..lastId
    BY <2>1 DEF RowsUsed, Ids
  <2>5. Waiting' \subseteq Waiting
    <3>1. \A g \in Handlers : poll'[g].todo \cup poll'[g].deliver
            \subseteq poll[g].todo \cup poll[g].deliver
                      \cup {d \in Ids : commands[d].status = "pending"}
      BY <2>1, <2>2, <2>3
    <3>. QED
      BY <1>2, <3>1, PollWaiting DEF PollSelect
  <2>6. HandlersInv'
    BY <1>2, <2>1 DEF PollSelect, HandlersInv
  <2>7. RowsUsed'
    BY <1>2, <2>1, <2>2, <2>4 DEF PollSelect, RowsUsed
  <2>. QED
    BY <1>2, <2>5, <2>6, <2>7 DEF PollSelect, AgentInv, CurrentKnown, Shrinks
<1>3. CASE PollReadRuntime(h)
  <2>1. \A g \in Handlers : /\ poll'[g].pc = poll[g].pc
                            /\ poll'[g].todo = poll[g].todo
                            /\ poll'[g].deliver = poll[g].deliver
    BY <1>3 DEF PollReadRuntime, TypeOK, PollLocals
  <2>. QED
    BY <1>3, <2>1 DEF PollReadRuntime, RowsUsed, HandlersInv, AgentInv, CurrentKnown,
                      Shrinks, Waiting, Arriving
<1>4. CASE PollRow(h)
  <2>1. PICK c \in poll[h].todo :
          \/ poll' = [poll EXCEPT ![h].todo = @ \ {c}, ![h].settle = @ \cup {c}]
          \/ poll' = [poll EXCEPT ![h].todo = @ \ {c}, ![h].deliver = @ \cup {c}]
    BY <1>4 DEF PollRow, Oldest
  <2>2. /\ \A g \in Handlers \ {h} : poll'[g] = poll[g]
        /\ poll'[h].pc = "rows" /\ poll'[h].todo \subseteq poll[h].todo
        /\ poll'[h].deliver \subseteq poll[h].deliver \cup {c}
    BY <1>4, <2>1 DEF PollRow, TypeOK, PollLocals
  <2>3. RowsUsed' /\ HandlersInv' /\ AgentInv' /\ CurrentKnown'
    BY <1>4, <2>2 DEF PollRow, RowsUsed, HandlersInv, AgentInv, CurrentKnown
  <2>4. \A g \in Handlers : poll'[g].todo \cup poll'[g].deliver
          \subseteq poll[g].todo \cup poll[g].deliver
    BY <2>2
  <2>. QED
    BY <1>4, <2>3, <2>4, PollWaiting DEF PollRow, Shrinks
<1>10. CASE PollSettle(h)
  <2>1. PICK c \in poll[h].settle :
          SettleIgnored({c}) /\ poll' = [poll EXCEPT ![h].settle = @ \ {c}]
    BY <1>10 DEF PollSettle
  <2>2. \A g \in Handlers : /\ poll'[g].pc = poll[g].pc
                            /\ poll'[g].todo = poll[g].todo
                            /\ poll'[g].deliver = poll[g].deliver
    BY <2>1 DEF TypeOK, PollLocals
  <2>3. {c} \in SUBSET Ids
    BY <1>1 DEF PollLocals
  <2>4. \A d \in Ids : commands'[d].status = "pending" => commands[d].status = "pending"
    BY <2>1, <2>3, SettleType
  <2>. QED
    BY <1>10, <2>2, <2>4, StatusStep DEF PollSettle
<1>5. CASE PollMarkSent(h)
  <2>1. /\ \A g \in Handlers \ {h} : poll'[g] = poll[g]
        /\ poll'[h].pc = "stops" /\ poll'[h].todo \subseteq poll[h].deliver
        /\ poll'[h].deliver = poll[h].deliver
    BY <1>5 DEF PollMarkSent, TypeOK, PollLocals
  <2>2. \A d \in Ids :
          /\ commands'[d].status = "pending" => commands[d].status = "pending"
          /\ d \in poll[h].deliver => commands'[d].status = "sent"
    BY <1>5 DEF PollMarkSent, Sent, TypeOK, Row
  <2>3. RowsUsed'
    BY <1>5, <2>1, <2>2 DEF PollMarkSent, RowsUsed
  <2>4. HandlersInv'
    <3>1. ASSUME NEW g \in Handlers, poll'[g].pc = "stops", NEW d \in poll'[g].deliver
          PROVE  commands'[d].status # "pending"
      <4>1. CASE g = h
        BY <2>1, <2>2, <3>1, <4>1, <1>1 DEF PollLocals
      <4>2. CASE g # h
        <5>1. d \in Ids /\ commands[d].status # "pending"
          BY <2>1, <3>1, <4>2 DEF HandlersInv, TypeOK, PollLocals
        <5>. QED
          BY <2>2, <5>1
      <4>. QED
        BY <4>1, <4>2
    <3>. QED
      BY <2>1, <3>1 DEF HandlersInv
  <2>5. AgentInv' /\ CurrentKnown'
    <3>1. \A d \in agent.inbox : d \in Ids /\ commands'[d].status # "pending"
      BY <1>1, <2>2 DEF AgentInv, AgentStates
    <3>. QED
      BY <1>5, <3>1 DEF PollMarkSent, AgentInv, CurrentKnown
  <2>6. Shrinks
    <3>1. \A g \in Handlers : poll'[g].todo \cup poll'[g].deliver
            \subseteq poll[g].todo \cup poll[g].deliver
      BY <2>1
    <3>. QED
      BY <1>5, <2>2, <3>1, PollWaiting DEF PollMarkSent, Shrinks
  <2>. QED
    BY <2>3, <2>4, <2>5, <2>6
<1>6. CASE PollMarkStopped(h)
  <2>1. /\ \A g \in Handlers \ {h} : poll'[g] = poll[g]
        /\ poll'[h].pc = "stops" /\ poll'[h].todo \subseteq poll[h].todo
        /\ poll'[h].deliver = poll[h].deliver
    BY <1>6 DEF PollMarkStopped, TypeOK, PollLocals
  <2>. QED
    BY <1>6, <2>1 DEF PollMarkStopped, RowsUsed, HandlersInv, AgentInv, CurrentKnown,
                      Shrinks, Waiting, Arriving
<1>7. ASSUME poll' = [poll EXCEPT ![h] = FreeHandler],
             UNCHANGED << lastId, executed >>,
             \A d \in Ids : commands'[d].status = "pending" => commands[d].status = "pending"
      PROVE  /\ RowsUsed' \/ agent'.inbox # agent.inbox
             /\ HandlersInv'
             /\ \A g \in Handlers : /\ poll'[g].todo \subseteq poll[g].todo
                                    /\ poll'[g].deliver \subseteq poll[g].deliver
  <2>1. /\ \A g \in Handlers \ {h} : poll'[g] = poll[g]
        /\ poll'[h].pc = "free" /\ poll'[h].todo = {} /\ poll'[h].deliver = {}
    BY <1>7 DEF FreeHandler, TypeOK
  <2>2. \A g \in Handlers : poll[g].deliver \subseteq Ids
    BY DEF TypeOK, PollLocals
  <2>. QED
    BY <1>7, <2>1, <2>2 DEF RowsUsed, HandlersInv
<1>8. CASE PollAnswer(h)
  <2>1. /\ poll' = [poll EXCEPT ![h] = FreeHandler]
        /\ UNCHANGED << commands, lastId, executed >>
    BY <1>8 DEF PollAnswer
  <2>2. CASE agent.mode = "polling" /\ agent.handler = h
    <3>1. agent' = [Idle EXCEPT !.mode = "working", !.inbox = poll[h].deliver]
      BY <1>8, <2>2 DEF PollAnswer
    <3>2. agent'.mode = "working" /\ agent'.inbox = poll[h].deliver
      BY <3>1 DEF Idle
    <3>3. \A c \in poll[h].deliver : commands[c].status # "pending"
      BY <1>8 DEF PollAnswer, HandlersInv
    <3>4. RowsUsed'
      BY <1>7, <2>1, <3>2 DEF RowsUsed
    <3>5. AgentInv' /\ CurrentKnown'
      BY <2>1, <3>2, <3>3 DEF AgentInv, CurrentKnown
    <3>6. Shrinks
      BY <2>1, <2>2, <3>2 DEF Shrinks, Waiting, Arriving
    <3>. QED
      BY <1>7, <2>1, <3>4, <3>5, <3>6
  <2>3. CASE ~(agent.mode = "polling" /\ agent.handler = h)
    <3>1. agent' = agent
      BY <1>8, <2>3 DEF PollAnswer
    <3>2. Shrinks
      BY <1>7, <2>1, <3>1 DEF Shrinks, Waiting, Arriving, AgentInv
    <3>. QED
      BY <1>7, <2>1, <3>1, <3>2 DEF AgentInv, CurrentKnown
  <2>. QED
    BY <2>2, <2>3
<1>9. CASE PollFails(h)
  <2>1. /\ poll' = [poll EXCEPT ![h] = FreeHandler]
        /\ UNCHANGED << lastId, executed >>
    BY <1>9 DEF PollFails
  <2>2. \A d \in Ids : commands'[d].status = "pending" => commands[d].status = "pending"
    <3>1. PICK S \in SUBSET poll[h].settle : SettleIgnored(S)
      BY <1>9 DEF PollFails
    <3>2. S \in SUBSET Ids
      BY <1>1 DEF PollLocals
    <3>. QED
      BY <3>1, <3>2, SettleType
  <2>3. CASE agent' = Idle /\ agent.mode = "polling"
    <3>1. /\ agent'.mode = "idle" /\ agent'.inbox = {} /\ agent.inbox = {}
      BY <2>3 DEF Idle, AgentInv
    <3>2. Waiting' \subseteq Waiting
      BY <2>2, <3>1 DEF Waiting, Arriving
    <3>3. RowsUsed'
      BY <1>7, <2>1, <2>2, <3>1
    <3>. QED
      BY <1>7, <2>1, <2>2, <3>1, <3>2, <3>3 DEF AgentInv, CurrentKnown, Shrinks
  <2>4. CASE agent' = agent
    <3>1. Waiting' \subseteq Waiting
      BY <1>7, <2>1, <2>2, <2>4, PollWaiting
    <3>2. \A d \in agent.inbox : d \in Ids /\ commands'[d].status # "pending"
      BY <1>1, <2>2 DEF AgentInv, AgentStates
    <3>. QED
      BY <1>7, <2>1, <2>2, <2>4, <3>1, <3>2 DEF AgentInv, CurrentKnown, Shrinks
  <2>. QED
    BY <1>9, <2>3, <2>4 DEF PollFails
<1>. QED
  BY <1>2, <1>3, <1>4, <1>5, <1>6, <1>8, <1>9, <1>10 DEF PollStep

LEMMA AgentQueue ==
  ASSUME TypeOK, QueueInv, ExecutedOnce,
         AgentStep \/ AgentReportLost \/ AgentTimeout \/ AgentRestart
  PROVE  QueueInv' /\ (Shrinks \/ Executes)
<1>. USE DEF QueueInv, restOfAgent
<1>1. agent \in AgentStates
  BY DEF TypeOK
<1>2. ASSUME NEW h \in Handlers, AgentPoll(h) PROVE QueueInv' /\ Shrinks
  <2>1. /\ agent'.mode = "polling" /\ agent'.handler = h /\ agent'.inbox = {}
        /\ agent.mode = "idle" /\ agent.inbox = {}
    BY <1>2 DEF AgentPoll, Idle, AgentInv
  <2>2. /\ \A g \in Handlers \ {h} : poll'[g] = poll[g]
        /\ poll'[h].pc = "select" /\ poll'[h].todo = {} /\ poll'[h].deliver = {}
        /\ poll[h].todo = {} /\ poll[h].deliver = {}
    BY <1>2 DEF AgentPoll, HandlersInv, TypeOK, PollLocals
  <2>3. UNCHANGED << commands, lastId, executed >>
    BY <1>2 DEF AgentPoll
  <2>4. RowsUsed' /\ HandlersInv' /\ AgentInv' /\ CurrentKnown'
    BY <2>1, <2>2, <2>3 DEF RowsUsed, HandlersInv, AgentInv, CurrentKnown
  <2>5. Waiting' \subseteq Waiting
    BY <2>1, <2>2, <2>3 DEF Waiting, Arriving
  <2>. QED
    BY <2>3, <2>4, <2>5 DEF Shrinks
<1>3. CASE AgentTake
  <2>1. PICK c \in agent.inbox :
          /\ agent' = [agent EXCEPT !.mode = "executing", !.current = c,
                                    !.inbox = @ \ {c}]
          /\ executed' = executed \cup {c}
    BY <1>3 DEF AgentTake, Oldest
  <2>2. /\ agent'.mode = "executing" /\ agent'.current = c
        /\ agent'.inbox = agent.inbox \ {c} /\ agent.mode = "working"
        /\ UNCHANGED << commands, lastId, poll >>
    BY <1>1, <1>3, <2>1 DEF AgentTake, AgentStates
  <2>3. c \in Ids /\ commands[c].status # "pending"
    BY <1>1, <2>1 DEF AgentInv, AgentStates
  <2>4. Waiting' = Waiting \ {c} /\ c \in Waiting
    BY <2>1, <2>2, <2>3 DEF Waiting, Arriving
  <2>5. RowsUsed' /\ HandlersInv' /\ AgentInv' /\ CurrentKnown'
    BY <2>1, <2>2, <2>3 DEF RowsUsed, HandlersInv, AgentInv, CurrentKnown
  <2>. QED
    BY <2>1, <2>2, <2>4, <2>5 DEF Executes
<1>4. ASSUME UNCHANGED << commands, lastId, poll, executed >>,
             \/ agent' = Idle \/ agent' = GiveUp
             \/ /\ CurrentKnown' /\ agent'.mode \notin {"idle", "polling"}
                /\ agent'.inbox = agent.inbox
      PROVE  QueueInv' /\ Shrinks
  <2>1. CASE agent' = Idle
    BY <1>4, <2>1, AgentMoves DEF Idle, CurrentKnown
  <2>2. CASE agent' = GiveUp
    <3>1. agent'.mode = "working" /\ agent'.inbox = agent.inbox
      BY <1>1, <2>2 DEF GiveUp, AgentStates
    <3>. QED
      BY <1>4, <3>1, AgentMoves DEF CurrentKnown
  <2>3. CASE /\ CurrentKnown' /\ agent'.mode \notin {"idle", "polling"}
             /\ agent'.inbox = agent.inbox
    BY <1>4, <2>3, AgentMoves
  <2>. QED
    BY <1>4, <2>1, <2>2, <2>3
<1>5. CASE AgentBatchDone
  BY <1>4, <1>5 DEF AgentBatchDone
<1>6. CASE AgentPostEvent
  <2>1. /\ agent'.mode = "posting" /\ agent'.inbox = agent.inbox
        /\ agent'.current = agent.current /\ agent.mode = "executing"
    BY <1>1, <1>6 DEF AgentPostEvent, AgentStates
  <2>. QED
    BY <1>4, <1>6, <2>1 DEF AgentPostEvent, CurrentKnown
<1>7. CASE AgentReport
  <2>1. /\ agent'.mode = "reporting" /\ agent'.inbox = agent.inbox
        /\ agent'.current = agent.current /\ agent.mode \in {"executing", "posted"}
    BY <1>1, <1>7 DEF AgentReport, Outcome, AgentStates
  <2>2. UNCHANGED << commands, lastId, poll, executed >>
    BY <1>7 DEF AgentReport
  <2>. QED
    BY <1>4, <2>1, <2>2 DEF CurrentKnown
<1>8. CASE AgentReportLost
  BY <1>4, <1>8 DEF AgentReportLost
<1>9. CASE AgentTimeout
  <2>1. CASE agent.mode = "posting" /\ agent' = [agent EXCEPT !.mode = "posted"]
    <3>1. /\ agent'.mode = "posted" /\ agent'.inbox = agent.inbox
          /\ agent'.current = agent.current
      BY <1>1, <2>1 DEF AgentStates
    <3>. QED
      BY <1>4, <1>9, <2>1, <3>1 DEF AgentTimeout, CurrentKnown
  <2>2. CASE agent' = Idle \/ agent' = GiveUp
    BY <1>4, <1>9, <2>2 DEF AgentTimeout
  <2>. QED
    BY <1>9, <2>1, <2>2 DEF AgentTimeout
<1>10. CASE AgentRestart
  BY <1>4, <1>10 DEF AgentRestart
<1>. QED
  BY <1>2, <1>3, <1>5, <1>6, <1>7, <1>8, <1>9, <1>10 DEF AgentStep

LEMMA ResultQueue ==
  ASSUME TypeOK, QueueInv, NEW c \in Ids,
         HandleEvent(c) \/ ResultStep(c) \/ ResultFails(c) \/ BecomesDue(c)
  PROVE  QueueInv' /\ (Shrinks \/ Posts)
<1>. USE DEF restOfReport
<1>1. agent \in AgentStates /\ report[c] \in ReportLocals
  BY DEF TypeOK
<1>2. ASSUME NEW mode \in {"working", "posted"},
             \/ agent' = agent \/ agent' = [agent EXCEPT !.mode = mode]
             \/ agent' = [agent EXCEPT !.mode = mode, !.current = 0],
             mode = "posted" =>
               \/ agent' = agent
               \/ agent.mode = "posting" /\ agent'.current = agent.current,
             UNCHANGED << commands, lastId, poll, executed >>
      PROVE  QueueInv' /\ Shrinks
  <2>1. CASE agent' = agent
    BY <1>2, <2>1, FrameStep
  <2>2. CASE agent' # agent
    <3>1. agent'.mode = mode /\ agent'.inbox = agent.inbox
      BY <1>1, <1>2, <2>2 DEF AgentStates
    <3>2. CurrentKnown'
      BY <1>2, <2>2, <3>1 DEF CurrentKnown, QueueInv
    <3>. QED
      BY <1>2, <3>1, <3>2, AgentMoves
  <2>. QED
    BY <2>1, <2>2
<1>3. CASE HandleEvent(c)
  BY <1>1, <1>2, <1>3 DEF HandleEvent, AgentStates
<1>4. CASE ResultMark(c)
  BY <1>1, <1>4, StatusStep DEF ResultMark, FinalStatus, ReportLocals, TypeOK, Row
<1>5. CASE ResultInsertNext(c)
  BY <1>5, InsertStep DEF ResultInsertNext
<1>6. CASE ResultAnswer(c)
  BY <1>2, <1>6 DEF ResultAnswer, ResultOver
<1>7. CASE ResultFails(c)
  BY <1>2, <1>7 DEF ResultFails, ResultOver
<1>8. CASE BecomesDue(c)
  BY <1>8, StatusStep DEF BecomesDue, TypeOK, Row
<1>9. CASE \/ ResultReadRuntime(c) \/ ResultReadRun(c) \/ ResultKeepRuntime(c)
           \/ ResultKeepRun(c) \/ ResultFindNext(c) \/ ResultEndRuntime(c)
           \/ ResultEndRun(c)
  BY <1>9, FrameStep
  DEF ResultReadRuntime, ResultReadRun, ResultKeepRuntime, ResultKeepRun,
      ResultFindNext, ResultEndRuntime, ResultEndRun
<1>. QED
  BY <1>3, <1>4, <1>5, <1>6, <1>7, <1>8, <1>9 DEF ResultStep

LEMMA QueueStep ==
  ASSUME Inv, [Next]_vars
  PROVE  QueueInv' /\ (Shrinks \/ Posts \/ Executes)
<1>1. TypeOK /\ QueueInv /\ ExecutedOnce
  BY DEF Inv, QueueInv
<1>2. CASE Next
  BY <1>1, <1>2, StartQueue, StopQueue, PollQueue, AgentQueue, ResultQueue DEF Next
<1>3. CASE UNCHANGED vars
  BY <1>1, <1>3, FrameStep DEF vars
<1>. QED
  BY <1>2, <1>3

(* A row just inserted was not executed before; a row taken stops waiting. *)
LEMMA OnceStep ==
  ASSUME Inv, [Next]_vars PROVE ExecutedOnce'
<1>1. lastId \in Nat /\ executed \subseteq 1..lastId
  BY LifecycleAssumption DEF Inv, TypeOK, RowsUsed
<1>2. CASE Shrinks
  BY <1>2 DEF Shrinks, Inv, ExecutedOnce
<1>3. CASE Posts
  <2>1. lastId' \notin executed
    BY <1>1, <1>3 DEF Posts
  <2>. QED
    BY <1>3, <2>1 DEF Posts, Inv, ExecutedOnce
<1>4. CASE Executes
  BY <1>4 DEF Executes, Inv, ExecutedOnce
<1>. QED
  BY <1>2, <1>3, <1>4, QueueStep

LEMMA InvStep == Inv /\ [Next]_vars => Inv'
BY TypeStep, QueueStep, OnceStep DEF Inv, QueueInv

LEMMA InvInit == Init => Inv
<1>. SUFFICES ASSUME Init PROVE Inv
  OBVIOUS
<1>1. TypeOK
  BY TypeInit
<1>2. CurrentKnown /\ RowsUsed /\ HandlersInv /\ AgentInv
  BY DEF Init, CurrentKnown, RowsUsed, HandlersInv, AgentInv, Idle, FreeHandler, NoRow
<1>3. ExecutedOnce
  BY DEF Init, ExecutedOnce
<1>. QED
  BY <1>1, <1>2, <1>3 DEF Inv

LEMMA SpecInv == Spec => []Inv
BY InvInit, InvStep, PTL DEF Spec

-----------------------------------------------------------------------------
(* Theorems. *)

(* Every variable has its type, whatever the size of the system. *)
THEOREM TypeCorrect == Spec => []TypeOK
<1>1. Inv => TypeOK
  BY DEF Inv
<1>. QED
  BY <1>1, SpecInv, PTL

(* A command the agent has begun to execute is never executed again: the   *)
(* poll handler marks its rows sent after reading them, without a lock, and *)
(* that is enough because the agent has one call open at a time.            *)
THEOREM RunsOnce == Spec => []ExecutedOnce
<1>1. Inv => ExecutedOnce
  BY DEF Inv
<1>. QED
  BY <1>1, SpecInv, PTL

(* All waiting and executed rows were inserted. *)
LEMMA QueueRange ==
  ASSUME Inv
  PROVE  /\ Waiting \cup executed \subseteq 1..lastId
         /\ Waiting \cap executed = {}
         /\ lastId \in Nat /\ 1..lastId \subseteq Ids
<1>1. lastId \in Nat /\ 1..lastId \subseteq Ids
  BY LifecycleAssumption DEF Inv, TypeOK, Ids
<1>2. \A c \in Ids : commands[c].status = "pending" => c \in 1..lastId
  BY <1>1 DEF Inv, RowsUsed, Ids
<1>3. Arriving \cup agent.inbox \cup executed \subseteq 1..lastId
  BY DEF Inv, RowsUsed, AgentInv, Arriving
<1>. QED
  BY <1>1, <1>2, <1>3 DEF Waiting, Inv, ExecutedOnce

LEMMA QueueMaps ==
  ASSUME Inv, Inv', [Next]_vars
  PROVE  [Queue!Next]_Queue!vars
<1>. DEFINE dropped == 1..lastId \ (Waiting \cup executed)
<1>1. /\ Waiting \cup executed \subseteq 1..lastId
      /\ Waiting \cap executed = {}
      /\ lastId \in Nat /\ 1..lastId \subseteq Ids
  BY QueueRange
<1>2. Waiting \subseteq Ids
  BY <1>1
<1>3. CASE Shrinks
  <2>1. CASE Waiting' = Waiting
    BY <1>3, <2>1 DEF Shrinks, Queue!vars
  <2>2. CASE Waiting' # Waiting
    <3>. DEFINE S == Waiting \ Waiting'
    <3>1. S # {} /\ S \subseteq Waiting /\ S \in SUBSET Ids
      BY <1>2, <1>3, <2>2 DEF Shrinks
    <3>2. Waiting' = Waiting \ S /\ dropped' = dropped \cup S
      BY <1>1, <1>3 DEF Shrinks
    <3>3. Queue!Drop(S)
      BY <1>3, <3>1, <3>2 DEF Shrinks, Queue!Drop
    <3>. QED
      BY <3>1, <3>3 DEF Queue!Next
  <2>. QED
    BY <2>1, <2>2
<1>4. CASE Posts
  <2>1. lastId' \notin 1..lastId /\ 1..lastId' = 1..lastId \cup {lastId'}
    BY <1>1, <1>4 DEF Posts
  <2>2. dropped' = dropped
    BY <1>1, <1>4, <2>1 DEF Posts
  <2>3. lastId' \notin Waiting \cup executed \cup dropped
    BY <1>1, <2>1
  <2>4. Queue!Post(lastId')
    BY <1>4, <2>2, <2>3 DEF Posts, Queue!Post
  <2>. QED
    BY <1>4, <2>4 DEF Posts, Queue!Next
<1>5. CASE Executes
  <2>1. PICK c \in Waiting : Waiting' = Waiting \ {c} /\ executed' = executed \cup {c}
    BY <1>5 DEF Executes
  <2>2. dropped' = dropped
    BY <1>1, <1>5, <2>1 DEF Executes
  <2>3. Queue!Execute(c)
    BY <2>1, <2>2 DEF Queue!Execute
  <2>. QED
    BY <1>2, <2>1, <2>3 DEF Queue!Next
<1>. QED
  BY <1>3, <1>4, <1>5, QueueStep

(* The table of commands, with everything that reads and writes it, is an  *)
(* at-most-once queue: refinement of CommandQueue.                         *)
THEOREM ImplementsQueue == Spec => QueueSpec
<1>1. Init => Queue!Init
  <2>1. ASSUME Init PROVE Waiting = {} /\ executed = {} /\ 1..lastId = {}
    BY <2>1 DEF Init, Waiting, Arriving, Idle, NoRow
  <2>. QED
    BY <2>1 DEF Queue!Init
<1>2. Inv /\ Inv' /\ [Next]_vars => [Queue!Next]_Queue!vars
  BY QueueMaps
<1>. QED
  BY <1>1, <1>2, SpecInv, PTL DEF Spec, QueueSpec, Queue!Spec

-----------------------------------------------------------------------------
(* The cycles of a run.  A run has one carrier at most: the row that is    *)
(* still to be executed, the row the agent executes, or the row whose      *)
(* result handler may yet insert the next one.  The chain cannot fork      *)
(* because the carrier is handed on: a row is executed once, its handler   *)
(* starts when the agent is through with it, and ends its part by the      *)
(* insert.  That the handler looks for pending rows is not needed for it.  *)

Inserted == {"inserted", "marked", "upserted", "failed", "done"}
Continuing == {"readRuntime", "readRun", "keepRuntime", "keepRun", "findNext", "insertNext"}

Busy(c) == agent.mode \in {"executing", "posting", "posted"} /\ agent.current = c

(* The result handler of c has the insert of the next cycle before it. *)
Succeeds(c) == report[c].pc \in {"mark"} \cup Continuing

Carries(c) == IsStart(c) /\ (c \in Waiting \/ Busy(c) \/ Succeeds(c))

(* Every cycle belongs to a run that was started. *)
RunsKnown ==
  \A c \in Ids : IsStart(c) => /\ commands[c].run \in Runs
                               /\ start[commands[c].run].pc \in Inserted

(* A result is handled of a row that was executed, and after it. *)
ReportsKnown ==
  /\ \A c \in Ids : report[c].pc # "none" => c \in executed
  /\ \A c \in Ids : report[c].pc \in Continuing => IsStart(c)
  /\ \A c \in Ids : Busy(c) => c \in executed /\ report[c].pc = "none"

OneCarrier ==
  \A c, d \in Ids : Carries(c) /\ Carries(d) /\ commands[c].run = commands[d].run => c = d

CycleInv == RunsKnown /\ ReportsKnown /\ OneCarrier

(* A step that inserts nothing makes no row wait. *)
LEMMA NothingNew ==
  ASSUME Inv, [Next]_vars, UNCHANGED lastId
  PROVE  Waiting' \subseteq Waiting /\ executed \subseteq executed'
<1>1. lastId \in Nat
  BY DEF Inv, TypeOK
<1>2. ~Posts
  BY <1>1 DEF Posts
<1>. QED
  BY <1>2, QueueStep DEF Shrinks, Executes

(* A step that inserts nothing and hands carriers on as it should. *)
LEMMA CycleFrame ==
  ASSUME Inv, CycleInv, [Next]_vars, UNCHANGED lastId,
         \A c \in Ids : /\ commands'[c].type = commands[c].type
                        /\ commands'[c].run = commands[c].run,
         \A r \in Runs : start[r].pc \in Inserted => start'[r].pc \in Inserted,
         \A c \in Ids : report'[c].pc # "none" => report[c].pc # "none" \/ Busy(c),
         \A c \in Ids : Succeeds(c)' => Succeeds(c) \/ Busy(c),
         \A c \in Ids : report'[c].pc \in Continuing => report[c].pc \in Continuing \/ IsStart(c),
         \A c \in Ids : Busy(c)' => /\ Busy(c) \/ (c \in Waiting /\ c \in executed')
                                    /\ report'[c].pc = report[c].pc
  PROVE  CycleInv'
<1>1. Waiting' \subseteq Waiting /\ executed \subseteq executed'
  BY NothingNew
<1>2. \A c \in Ids : IsStart(c)' <=> IsStart(c)
  BY DEF IsStart
<1>3. RunsKnown'
  BY <1>2 DEF CycleInv, RunsKnown
<1>4. \A c \in Waiting : c \notin executed
  BY DEF Inv, ExecutedOnce
<1>5. ReportsKnown'
  BY <1>1, <1>2, <1>4 DEF CycleInv, ReportsKnown
<1>6. \A c \in Ids : Carries(c)' => Carries(c)
  BY <1>1, <1>2 DEF Carries
<1>. QED
  BY <1>3, <1>5, <1>6 DEF CycleInv, OneCarrier

(* A row is inserted; if it is a cycle, its run has no carrier left. *)
LEMMA CycleInsert ==
  ASSUME Inv, CycleInv, NEW type, NEW run, NEW at, NEW due,
         InsertCommand(type, run, at, due), UNCHANGED << poll, agent, executed >>,
         \A r \in Runs : start[r].pc \in Inserted => start'[r].pc \in Inserted,
         \A c \in Ids : \/ report'[c].pc = report[c].pc
                        \/ report'[c].pc = "answer" /\ report[c].pc = "insertNext",
         type = "job_start" =>
           /\ run \in Runs /\ start'[run].pc \in Inserted
           /\ \A c \in Ids : ~(/\ IsStart(c) /\ commands[c].run = run
                               /\ c \in Waiting \/ Busy(c) \/ Succeeds(c)')
  PROVE  CycleInv'
<1>1. PICK new \in Ids :
        /\ new = lastId' /\ new \notin 1..lastId
        /\ commands'[new].type = type /\ commands'[new].run = run
        /\ \A c \in Ids \ {new} : commands'[c] = commands[c]
  BY LifecycleAssumption DEF Inv, TypeOK, InsertCommand, Ids
<1>2. Waiting' = Waiting \cup {new}
  BY <1>1, InsertStep DEF Inv, QueueInv, Posts
<1>3. new \notin executed
  BY <1>1 DEF Inv, RowsUsed
<1>4. \A c \in Ids \ {new} : /\ IsStart(c)' <=> IsStart(c)
                             /\ commands'[c].run = commands[c].run
  BY <1>1 DEF IsStart
<1>5. \A c \in Ids : (Busy(c)' <=> Busy(c)) /\ (Succeeds(c)' => Succeeds(c))
  BY DEF Busy, Succeeds, Continuing
<1>6. ~Busy(new) /\ report[new].pc = "none"
  BY <1>1, <1>3 DEF CycleInv, ReportsKnown
<1>7. RunsKnown'
  <2>1. IsStart(new)' => type = "job_start"
    BY <1>1 DEF IsStart
  <2>. QED
    BY <1>1, <1>4, <2>1 DEF CycleInv, RunsKnown
<1>8. ReportsKnown'
  <2>1. \A c \in Ids : report'[c].pc # "none" => report[c].pc # "none" /\ c # new
    BY <1>6
  <2>2. \A c \in Ids : report'[c].pc \in Continuing => report[c].pc \in Continuing /\ c # new
    BY <1>6 DEF Continuing
  <2>3. \A c \in Ids : Busy(c) => report'[c].pc = "none"
    BY DEF CycleInv, ReportsKnown
  <2>. QED
    BY <1>4, <1>5, <2>1, <2>2, <2>3 DEF CycleInv, ReportsKnown
<1>9. \A c \in Ids \ {new} : Carries(c)' => Carries(c)
  BY <1>2, <1>4, <1>5 DEF Carries
<1>10. ASSUME NEW c \in Ids \ {new}, Carries(c)', Carries(new)'
       PROVE  commands'[c].run # run
  <2>1. type = "job_start"
    BY <1>1, <1>10 DEF Carries, IsStart
  <2>2. IsStart(c) /\ (c \in Waiting \/ Busy(c) \/ Succeeds(c)')
    BY <1>2, <1>4, <1>5, <1>10 DEF Carries
  <2>. QED
    BY <1>4, <2>1, <2>2
<1>11. OneCarrier'
  BY <1>1, <1>4, <1>9, <1>10 DEF CycleInv, OneCarrier
<1>. QED
  BY <1>7, <1>8, <1>11 DEF CycleInv

LEMMA StartCycle ==
  ASSUME Inv, CycleInv, [Next]_vars, NEW r \in Runs,
         \/ StartCheck(r) \/ StartStep(r) \/ StartPlanFails(r)
         \/ StartMarkRuntimeFails(r) \/ WindowPasses(r)
  PROVE  CycleInv'
<1>1. \A q \in Runs : start[q].pc \in Inserted => start'[q].pc \in Inserted
  <2>1. start \in [Runs -> StartLocals]
    BY DEF Inv, TypeOK
  <2>. QED
    BY <2>1
    DEF StartCheck, StartStep, StartStamp, StartQueueRun, StartInsert, StartMarkRun,
        StartMarkRuntime, StartEvent, StartPlanFails, StartMarkRuntimeFails, WindowPasses,
        StartLocals, Inserted
<1>2. CASE StartInsert(r)
  <2>1. /\ InsertCommand("job_start", r, start[r].at, TRUE)
        /\ UNCHANGED << poll, agent, executed, report >>
        /\ start[r].pc = "queued" /\ start'[r].pc = "inserted"
    BY <1>2 DEF StartInsert, restOfStart, Inv, TypeOK, StartLocals
  <2>2. \A c \in Ids : ~(IsStart(c) /\ commands[c].run = r)
    BY <2>1 DEF CycleInv, RunsKnown, Inserted
  <2>. QED
    BY <1>1, <2>1, <2>2, CycleInsert DEF Inserted
<1>3. CASE ~StartInsert(r)
  <2>1. UNCHANGED << lastId, commands, agent, report, executed >>
    BY <1>3
    DEF StartCheck, StartStep, StartQueueRun, StartMarkRun, StartMarkRuntime, StartEvent,
        StartPlanFails, StartMarkRuntimeFails, WindowPasses, startVars, restOfStart
  <2>. QED
    BY <1>1, <2>1, CycleFrame DEF Busy, Succeeds
<1>. QED
  BY <1>2, <1>3

LEMMA StopCycle ==
  ASSUME Inv, CycleInv, [Next]_vars, NEW s \in Stops,
         StopArrive(s) \/ StopStep(s) \/ StopFails(s)
  PROVE  CycleInv'
<1>1. CASE StopInsert(s)
  <2>1. /\ InsertCommand("job_stop", None, stop[s].at, TRUE)
        /\ UNCHANGED << poll, agent, executed, report, start >>
    BY <1>1 DEF StopInsert, restOfStop
  <2>. QED
    BY <2>1, CycleInsert
<1>2. CASE ~StopInsert(s)
  <2>1. UNCHANGED << lastId, commands, agent, report, executed, start >>
    BY <1>2 DEF StopArrive, StopStep, StopMarkRuntime, StopFails, restOfStop
  <2>. QED
    BY <2>1, CycleFrame DEF Busy, Succeeds
<1>. QED
  BY <1>1, <1>2

LEMMA PollCycle ==
  ASSUME Inv, CycleInv, [Next]_vars, NEW h \in Handlers, PollStep(h) \/ PollFails(h)
  PROVE  CycleInv'
<1>1. UNCHANGED << lastId, start, report, executed >>
  BY DEF PollStep, PollSelect, PollReadRuntime, PollRow, PollSettle, PollMarkSent,
         PollMarkStopped, PollAnswer, PollFails, restOfPoll
<1>2. \A c \in Ids : /\ commands'[c].type = commands[c].type
                     /\ commands'[c].run = commands[c].run
  <2>1. commands \in [Ids -> Row]
    BY DEF Inv, TypeOK
  <2>2. \A S : SettleIgnored(S) =>
          \A c \in Ids : /\ commands'[c].type = commands[c].type
                         /\ commands'[c].run = commands[c].run
    BY <2>1 DEF SettleIgnored, Row
  <2>3. \A S : \A c \in Ids : /\ Sent(S)[c].type = commands[c].type
                              /\ Sent(S)[c].run = commands[c].run
    BY <2>1 DEF Sent, Row
  <2>4. \/ UNCHANGED commands
        \/ \E S : SettleIgnored(S)
        \/ \E S : commands' = Sent(S)
    BY DEF PollStep, PollSelect, PollReadRuntime, PollRow, PollSettle, PollMarkSent,
           PollMarkStopped, PollAnswer, PollFails
  <2>. QED
    BY <2>2, <2>3, <2>4
<1>3. \A c \in Ids : Busy(c)' => Busy(c)
  <2>1. \/ UNCHANGED agent \/ agent' = Idle
        \/ \E S : agent' = [Idle EXCEPT !.mode = "working", !.inbox = S]
    BY DEF PollStep, PollSelect, PollReadRuntime, PollRow, PollSettle, PollMarkSent,
           PollMarkStopped, PollAnswer, PollFails
  <2>2. UNCHANGED agent \/ agent'.mode \in {"idle", "working"}
    <3>1. Idle.mode = "idle"
      BY DEF Idle
    <3>2. \A S : [Idle EXCEPT !.mode = "working", !.inbox = S].mode = "working"
      BY DEF Idle
    <3>. QED
      BY <2>1, <3>1, <3>2
  <2>. QED
    BY <2>2 DEF Busy
<1>. QED
  BY <1>1, <1>2, <1>3, CycleFrame DEF Succeeds

LEMMA AgentCycle ==
  ASSUME Inv, CycleInv, [Next]_vars,
         AgentStep \/ AgentReportLost \/ AgentTimeout \/ AgentRestart
  PROVE  CycleInv'
<1>. USE DEF restOfAgent
<1>1. agent \in AgentStates /\ report \in [Ids -> ReportLocals]
  BY DEF Inv, TypeOK
<1>2. UNCHANGED << commands, lastId, start >>
  BY DEF AgentStep, AgentPoll, AgentTake, AgentBatchDone, AgentPostEvent, AgentReport,
         AgentReportLost, AgentTimeout, AgentRestart
<1>3. CASE AgentTake
  <2>1. PICK c \in agent.inbox :
          /\ agent' = [agent EXCEPT !.mode = "executing", !.current = c,
                                    !.inbox = @ \ {c}]
          /\ executed' = executed \cup {c}
    BY <1>3 DEF AgentTake, Oldest
  <2>2. agent'.current = c /\ c \in Waiting
    BY <1>1, <2>1 DEF AgentStates, Waiting
  <2>3. UNCHANGED report
    BY <1>3 DEF AgentTake
  <2>. QED
    BY <1>2, <2>1, <2>2, <2>3, CycleFrame DEF Busy, Succeeds
<1>4. CASE AgentReport
  <2>1. /\ agent.mode \in {"executing", "posted"} /\ agent'.mode = "reporting"
        /\ agent.current \in Ids
    BY <1>1, <1>4 DEF AgentReport, Outcome, AgentStates, Inv, CurrentKnown
  <2>2. /\ Busy(agent.current)
        /\ \A c \in Ids \ {agent.current} : report'[c] = report[c]
    BY <1>1, <1>4, <2>1 DEF AgentReport, Busy
  <2>3. report'[agent.current].pc = "mark"
    BY <1>1, <1>4, <2>1 DEF AgentReport, NoReport
  <2>4. \A c \in Ids : ~Busy(c)'
    BY <2>1 DEF Busy
  <2>. QED
    BY <1>2, <2>2, <2>3, <2>4, CycleFrame DEF Succeeds, Continuing
<1>5. CASE ~AgentTake /\ ~AgentReport
  <2>1. UNCHANGED << report, executed >>
    BY <1>5
    DEF AgentStep, AgentPoll, AgentTake, AgentBatchDone, AgentPostEvent, AgentReport,
        AgentReportLost, AgentTimeout, AgentRestart
  <2>2. \/ agent'.mode \in {"idle", "polling", "working"}
        \/ agent'.mode = "posting" /\ agent.mode = "executing" /\ agent'.current = agent.current
        \/ agent'.mode = "posted" /\ agent.mode = "posting" /\ agent'.current = agent.current
    <3>1. Idle.mode = "idle" /\ GiveUp.mode = "working"
      BY <1>1 DEF Idle, GiveUp, AgentStates
    <3>2. \A h \in Handlers : AgentPoll(h) => agent'.mode = "polling"
      BY DEF AgentPoll, Idle
    <3>3. CASE AgentBatchDone \/ AgentReportLost \/ AgentRestart
      BY <3>1, <3>3 DEF AgentBatchDone, AgentReportLost, AgentRestart
    <3>4. CASE AgentPostEvent
      BY <1>1, <3>4 DEF AgentPostEvent, AgentStates
    <3>5. CASE AgentTimeout
      BY <1>1, <3>1, <3>5 DEF AgentTimeout, AgentStates
    <3>. QED
      BY <1>5, <3>2, <3>3, <3>4, <3>5 DEF AgentStep
  <2>3. \A c \in Ids : Busy(c)' => Busy(c)
    BY <2>2 DEF Busy
  <2>. QED
    BY <1>2, <2>1, <2>3, CycleFrame DEF Succeeds
<1>. QED
  BY <1>3, <1>4, <1>5

LEMMA ResultCycle ==
  ASSUME Inv, CycleInv, [Next]_vars, NEW c \in Ids,
         HandleEvent(c) \/ ResultStep(c) \/ ResultFails(c) \/ BecomesDue(c)
  PROVE  CycleInv'
<1>. USE DEF restOfReport
<1>1. /\ agent \in AgentStates /\ report \in [Ids -> ReportLocals]
      /\ commands \in [Ids -> Row]
  BY DEF Inv, TypeOK
<1>2. CASE ResultInsertNext(c)
  <2>1. /\ InsertCommand("job_start", commands[c].run, report[c].at, FALSE)
        /\ UNCHANGED << poll, agent, executed, start >>
        /\ report[c].pc = "insertNext" /\ report'[c].pc = "answer"
        /\ \A d \in Ids \ {c} : report'[d] = report[d]
    BY <1>1, <1>2 DEF ResultInsertNext, Goto, ReportLocals
  <2>2. /\ IsStart(c) /\ c \in executed /\ ~Busy(c)
    BY <2>1 DEF CycleInv, ReportsKnown, Continuing
  <2>3. c \notin Waiting
    BY <2>2 DEF Inv, ExecutedOnce
  <2>4. /\ commands[c].run \in Runs
        /\ start[commands[c].run].pc \in Inserted
    BY <2>2 DEF CycleInv, RunsKnown
  <2>5. Carries(c)
    BY <2>1, <2>2 DEF Carries, Succeeds, Continuing
  <2>6. \A d \in Ids : ~(/\ IsStart(d) /\ commands[d].run = commands[c].run
                         /\ d \in Waiting \/ Busy(d) \/ Succeeds(d)')
    <3>1. ~Succeeds(c)'
      BY <2>1 DEF Succeeds, Continuing
    <3>2. \A d \in Ids \ {c} : Succeeds(d)' => Succeeds(d)
      BY <2>1 DEF Succeeds
    <3>. QED
      BY <2>2, <2>3, <2>5, <3>1, <3>2 DEF CycleInv, OneCarrier, Carries
  <2>. QED
    BY <2>1, <2>4, <2>6, CycleInsert
<1>3. CASE ~ResultInsertNext(c)
  <2>1. UNCHANGED << lastId, start, executed >>
    BY <1>3
    DEF HandleEvent, ResultStep, ResultMark, ResultReadRuntime, ResultReadRun,
        ResultKeepRuntime, ResultKeepRun, ResultFindNext, ResultEndRuntime, ResultEndRun,
        ResultAnswer, ResultFails, BecomesDue
  <2>2. \A d \in Ids : /\ commands'[d].type = commands[d].type
                       /\ commands'[d].run = commands[d].run
    BY <1>1, <1>3
    DEF HandleEvent, ResultStep, ResultMark, ResultReadRuntime, ResultReadRun,
        ResultKeepRuntime, ResultKeepRun, ResultFindNext, ResultEndRuntime, ResultEndRun,
        ResultAnswer, ResultFails, BecomesDue, Row
  <2>3. \A d \in Ids : Busy(d)' => Busy(d)
    BY <1>1, <1>3
    DEF HandleEvent, ResultStep, ResultMark, ResultReadRuntime, ResultReadRun,
        ResultKeepRuntime, ResultKeepRun, ResultFindNext, ResultEndRuntime, ResultEndRun,
        ResultAnswer, ResultFails, ResultOver, BecomesDue, Busy, AgentStates
  <2>4. /\ \A d \in Ids \ {c} : report'[d] = report[d]
        /\ report'[c].pc # "none" => report[c].pc # "none"
        /\ report[c].pc = "none" => report'[c].pc = "none"
        /\ Succeeds(c)' => Succeeds(c)
        /\ report'[c].pc \in Continuing => report[c].pc \in Continuing \/ IsStart(c)
    <3>1. CASE HandleEvent(c) \/ BecomesDue(c)
      BY <3>1 DEF HandleEvent, BecomesDue, Succeeds
    <3>2. CASE ResultAnswer(c) \/ ResultFails(c)
      BY <1>1, <3>2
      DEF ResultAnswer, ResultFails, ResultOver, NoReport, Succeeds, Continuing
    <3>3. CASE ResultMark(c)
      BY <1>1, <3>3 DEF ResultMark, Goto, ReportLocals, Succeeds, Continuing
    <3>4. CASE \/ ResultReadRuntime(c) \/ ResultReadRun(c) \/ ResultKeepRuntime(c)
               \/ ResultKeepRun(c) \/ ResultFindNext(c) \/ ResultEndRuntime(c)
               \/ ResultEndRun(c)
      BY <1>1, <3>4
      DEF ResultReadRuntime, ResultReadRun, ResultKeepRuntime, ResultKeepRun,
          ResultFindNext, ResultEndRuntime, ResultEndRun, Goto, ReportLocals, Succeeds,
          Continuing
    <3>. QED
      BY <1>3, <3>1, <3>2, <3>3, <3>4 DEF ResultStep
  <2>5. \A d \in Ids : Busy(d) => report'[d].pc = report[d].pc
    BY <2>4 DEF CycleInv, ReportsKnown
  <2>. QED
    BY <2>1, <2>2, <2>3, <2>4, <2>5, CycleFrame DEF Succeeds
<1>. QED
  BY <1>2, <1>3

LEMMA CycleStep == Inv /\ CycleInv /\ [Next]_vars => CycleInv'
<1>. SUFFICES ASSUME Inv, CycleInv, [Next]_vars PROVE CycleInv'
  OBVIOUS
<1>1. CASE Next
  BY <1>1, StartCycle, StopCycle, PollCycle, AgentCycle, ResultCycle DEF Next
<1>2. CASE UNCHANGED vars
  BY <1>2
  DEF vars, CycleInv, RunsKnown, ReportsKnown, OneCarrier, Carries, Waiting, Arriving,
      Busy, Succeeds, IsStart
<1>. QED
  BY <1>1, <1>2

LEMMA CycleInit == Init => CycleInv
BY DEF Init, CycleInv, RunsKnown, ReportsKnown, OneCarrier, Carries, Busy, IsStart,
       NoRow, NoReport, Idle, Continuing

(* The cycles of a run never fork: late result handlers, abandoned polls   *)
(* and faults leave one row of the run, at most, to be executed.           *)
THEOREM OneCycle == Spec => []OneLiveCyclePerRun
<1>1. Inv /\ CycleInv => OneLiveCyclePerRun
  <2>. SUFFICES ASSUME Inv, CycleInv PROVE OneLiveCyclePerRun
    OBVIOUS
  <2>. DEFINE busy == IF agent.mode \in {"executing", "posting", "posted"}
                      THEN {agent.current} ELSE {}
  <2>1. \A c \in busy : c \in Ids /\ Busy(c)
    BY DEF Busy, Inv, CurrentKnown
  <2>2. Waiting \subseteq Ids
    BY QueueRange
  <2>3. \A c \in Waiting \cup busy : IsStart(c) => c \in Ids /\ Carries(c)
    BY <2>1, <2>2 DEF Carries
  <2>. QED
    BY <2>3 DEF OneLiveCyclePerRun, CycleInv, OneCarrier
<1>. QED
  BY <1>1, SpecInv, CycleInit, CycleStep, PTL DEF Spec

-----------------------------------------------------------------------------
(* The safe half of CommandsSettle: without faults a command is always     *)
(* with somebody, and goes only forward on its way to a final status.      *)

Settled(c) == commands[c].status \in {"completed", "failed"}
Pending(c) == commands[c].status = "pending"
Reported(c) == report[c].pc = "mark"
InWork(c, modes) == agent.mode \in modes /\ agent.current = c
InBatch(c) == c \in agent.inbox
InAnswer(c) == /\ agent.mode = "polling"
               /\ c \in poll[agent.handler].settle \cup poll[agent.handler].deliver

WithSomebody(c) ==
  \/ Settled(c) \/ Reported(c) \/ InWork(c, {"executing", "posting", "posted"})
  \/ InBatch(c) \/ InAnswer(c) \/ Pending(c)

CallsAnswered ==
  /\ agent.mode = "polling" => poll[agent.handler].pc # "free"
  /\ agent.mode = "posting" => agent.current \in events
  /\ agent.mode = "reporting" => report[agent.current].pc # "none"

(* Every row is in somebody's hands, and every call of the agent is being  *)
(* answered.                                                               *)
NoneDropped == faults = 0 => (\A c \in 1..lastId : WithSomebody(c)) /\ CallsAnswered

(* From one pair of hands into the next, never back. *)
Forward ==
  \A c \in 1..lastId :
    /\ Settled(c) => Settled(c)'
    /\ Reported(c) => (Reported(c) \/ Settled(c))'
    /\ InWork(c, {"posted"}) => (InWork(c, {"posted"}) \/ Reported(c))'
    /\ InWork(c, {"posting"}) => InWork(c, {"posting", "posted"})'
    /\ InWork(c, {"executing"}) => (InWork(c, {"executing", "posting"}) \/ Reported(c))'
    /\ InBatch(c) => (InBatch(c) \/ InWork(c, {"executing"}))'
    /\ InAnswer(c) => (InAnswer(c) \/ InBatch(c) \/ Settled(c))'
    /\ Pending(c) => (Pending(c) \/ InAnswer(c) \/ Settled(c))'

CommandsAdvance == [][faults' = 0 => Forward]_vars

(* What calm rests on: only the poll the agent waits for is alive, and     *)
(* nobody touches the rows it has read.                                    *)
Holds(p) ==
  IF p.pc = "rows"
  THEN /\ \A c \in p.todo \cup p.settle \cup p.deliver : Pending(c)
       /\ p.todo \cap (p.settle \cup p.deliver) = {} /\ p.settle \cap p.deliver = {}
  ELSE p.settle = {}

OneCall ==
  /\ \A h \in Handlers :
       IF agent.mode = "polling" /\ agent.handler = h THEN poll[h].pc # "free"
       ELSE poll[h] = FreeHandler
  /\ agent.mode = "polling" => Holds(poll[agent.handler])

TakenRows ==
  /\ \A c \in Ids : Reported(c) => c \in executed
  /\ agent.mode \in {"executing", "posting", "posted"} => agent.current \in executed

Calm == OneCall /\ TakenRows /\ CallsAnswered /\ \A c \in 1..lastId : WithSomebody(c)


(* A row is inserted as pending, or none is. *)
RowsGrow == lastId' = lastId \/ (lastId' = lastId + 1 /\ commands'[lastId'].status = "pending")

LEMMA Carried ==
  ASSUME TypeOK, Calm, Forward, RowsGrow
  PROVE  \A c \in 1..lastId' : WithSomebody(c)'
<1>. SUFFICES ASSUME NEW c \in 1..lastId' PROVE WithSomebody(c)'
  OBVIOUS
<1>1. CASE c \in 1..lastId
  <2>1. WithSomebody(c)
    BY <1>1 DEF Calm
  <2>2. /\ Settled(c) => Settled(c)'
        /\ Reported(c) => (Reported(c) \/ Settled(c))'
        /\ InWork(c, {"posted"}) => (InWork(c, {"posted"}) \/ Reported(c))'
        /\ InWork(c, {"posting"}) => InWork(c, {"posting", "posted"})'
        /\ InWork(c, {"executing"}) => (InWork(c, {"executing", "posting"}) \/ Reported(c))'
        /\ InBatch(c) => (InBatch(c) \/ InWork(c, {"executing"}))'
        /\ InAnswer(c) => (InAnswer(c) \/ InBatch(c) \/ Settled(c))'
        /\ Pending(c) => (Pending(c) \/ InAnswer(c) \/ Settled(c))'
    BY <1>1 DEF Forward
  <2>. QED
    BY <2>1, <2>2 DEF WithSomebody, InWork
<1>2. CASE c \notin 1..lastId
  BY <1>2 DEF TypeOK, RowsGrow, WithSomebody, Pending
<1>. QED
  BY <1>1, <1>2

(* Nothing moves but the table, where rows are inserted or become due. *)
LEMMA TableCalm ==
  ASSUME Inv, Calm, UNCHANGED << poll, agent, report, executed, events >>, RowsGrow,
         \A c \in 1..lastId : commands'[c].status = commands[c].status
  PROVE  OneCall' /\ TakenRows' /\ CallsAnswered' /\ Forward
<1>1. \A c \in Ids : Pending(c) => Pending(c)'
  BY DEF Inv, RowsUsed, Pending, Ids
<1>2. Forward
  BY DEF Forward, Settled, Reported, InWork, InBatch, InAnswer, Pending
<1>3. OneCall'
  <2>1. CASE agent.mode = "polling"
    <3>1. poll[agent.handler] \in PollLocals
      BY <2>1 DEF Inv, AgentInv, TypeOK
    <3>2. poll[agent.handler].todo \cup poll[agent.handler].settle
            \cup poll[agent.handler].deliver \subseteq Ids
      BY <3>1 DEF PollLocals
    <3>3. Holds(poll[agent.handler])'
      BY <1>1, <2>1, <3>2 DEF Calm, OneCall, Holds
    <3>. QED
      BY <3>3 DEF Calm, OneCall
  <2>2. CASE agent.mode # "polling"
    BY <2>2 DEF Calm, OneCall
  <2>. QED
    BY <2>1, <2>2
<1>4. TakenRows' /\ CallsAnswered'
  BY DEF Calm, TakenRows, CallsAnswered, Reported
<1>. QED
  BY <1>2, <1>3, <1>4

LEMMA StartCalm ==
  ASSUME Inv, Calm, NEW r \in Runs, StartCheck(r) \/ StartStep(r) \/ WindowPasses(r)
  PROVE  OneCall' /\ TakenRows' /\ CallsAnswered' /\ Forward /\ RowsGrow
<1>1. CASE StartInsert(r)
  <2>1. RowsGrow /\ \A c \in 1..lastId : commands'[c].status = commands[c].status
    BY <1>1, LifecycleAssumption DEF StartInsert, InsertCommand, Inv, TypeOK, Ids, RowsGrow
  <2>. QED
    BY <1>1, <2>1, TableCalm DEF StartInsert, restOfStart
<1>2. CASE ~StartInsert(r)
  <2>1. UNCHANGED << commands, lastId, poll, agent, report, executed, events >>
    BY <1>2 DEF StartCheck, StartStep, StartQueueRun, StartMarkRun, StartMarkRuntime, StartEvent,
                WindowPasses, startVars, restOfStart
  <2>. QED
    BY <2>1, TableCalm DEF RowsGrow
<1>. QED
  BY <1>1, <1>2

LEMMA StopCalm ==
  ASSUME Inv, Calm, NEW s \in Stops, StopArrive(s) \/ StopStep(s)
  PROVE  OneCall' /\ TakenRows' /\ CallsAnswered' /\ Forward /\ RowsGrow
<1>1. CASE StopInsert(s)
  <2>1. RowsGrow /\ \A c \in 1..lastId : commands'[c].status = commands[c].status
    BY <1>1, LifecycleAssumption DEF StopInsert, InsertCommand, Inv, TypeOK, Ids, RowsGrow
  <2>. QED
    BY <1>1, <2>1, TableCalm DEF StopInsert, restOfStop
<1>2. CASE ~StopInsert(s)
  <2>1. UNCHANGED << commands, lastId, poll, agent, report, executed, events >>
    BY <1>2 DEF StopArrive, StopStep, StopMarkRuntime, restOfStop
  <2>. QED
    BY <2>1, TableCalm DEF RowsGrow
<1>. QED
  BY <1>1, <1>2

(* The poll handler the agent waits for moves on, h to its locals p. *)
LEMMA HandlerCalm ==
  ASSUME Inv, Calm, NEW h \in Handlers, agent.mode = "polling", agent.handler = h,
         NEW p, poll' = [poll EXCEPT ![h] = p], p.pc # "free",
         UNCHANGED << agent, report, executed, events, lastId >>,
         Holds(p)',
         \A c \in 1..lastId :
           /\ Settled(c) => Settled(c)'
           /\ c \in poll[h].settle \cup poll[h].deliver =>
                c \in p.settle \cup p.deliver \/ Settled(c)'
           /\ Pending(c) => c \in p.settle \cup p.deliver \/ Settled(c)' \/ Pending(c)'
  PROVE  OneCall' /\ TakenRows' /\ CallsAnswered' /\ Forward
<1>1. poll'[h] = p /\ \A g \in Handlers : g # h => poll'[g] = poll[g]
  BY DEF Inv, TypeOK
<1>2. OneCall'
  BY <1>1 DEF Calm, OneCall
<1>3. TakenRows' /\ CallsAnswered'
  BY <1>1 DEF Calm, TakenRows, CallsAnswered, Reported
<1>4. Forward
  BY <1>1 DEF Forward, Reported, InWork, InBatch, InAnswer
<1>. QED
  BY <1>2, <1>3, <1>4

LEMMA PollCalm ==
  ASSUME Inv, Calm, NEW h \in Handlers, PollStep(h)
  PROVE  OneCall' /\ TakenRows' /\ CallsAnswered' /\ Forward /\ lastId' = lastId
<1>0. /\ TypeOK /\ poll[h] \in PollLocals
      /\ agent.mode = "polling" /\ agent.handler = h /\ poll[h].pc # "free"
      /\ Holds(poll[h])
  <2>0. FreeHandler.pc = "free" /\ FreeHandler.settle = {}
    BY DEF FreeHandler
  <2>1. poll[h] # FreeHandler
    <3>1. CASE PollSettle(h)
      BY <2>0, <3>1 DEF PollSettle
    <3>2. CASE ~PollSettle(h)
      BY <2>0, <3>2 DEF PollStep, PollSelect, PollReadRuntime, PollRow, PollMarkSent,
                        PollMarkStopped, PollAnswer
    <3>. QED
      BY <3>1, <3>2
  <2>. QED
    BY <2>1 DEF Inv, TypeOK, Calm, OneCall
<1>1. CASE PollSelect(h)
  <2>1. PICK p : p = [poll[h] EXCEPT !.pc = "rows", !.over = windowOver,
                        !.todo = {c \in Ids : commands[c].status = "pending" /\ commands[c].due}]
    OBVIOUS
  <2>2. poll' = [poll EXCEPT ![h] = p]
    BY <1>1, <2>1 DEF PollSelect
  <2>3. /\ p.pc = "rows" /\ p.settle = poll[h].settle /\ p.deliver = poll[h].deliver
        /\ \A c \in p.todo : Pending(c)
        /\ UNCHANGED << commands, agent, report, executed, events, lastId >>
    <3>. DEFINE rows == {c \in Ids : commands[c].status = "pending" /\ commands[c].due}
    <3>1. \A c \in rows : Pending(c)
      BY DEF Pending
    <3>. HIDE DEF rows
    <3>2. p = [poll[h] EXCEPT !.pc = "rows", !.over = windowOver, !.todo = rows]
      BY <2>1 DEF rows
    <3>3. /\ p.pc = "rows" /\ p.settle = poll[h].settle /\ p.deliver = poll[h].deliver
          /\ p.todo = rows
      BY <1>0, <3>2 DEF PollLocals
    <3>. QED
      BY <1>1, <3>1, <3>3 DEF PollSelect, restOfPoll
  <2>4. p.settle = {} /\ p.deliver = {}
    <3>1. poll[h].pc = "select"
      BY <1>1 DEF PollSelect
    <3>. QED
      BY <1>0, <2>3, <3>1 DEF Inv, HandlersInv, Holds
  <2>. QED
    BY <1>0, <2>2, <2>3, <2>4, HandlerCalm DEF Settled, Pending, Holds
<1>2. CASE PollReadRuntime(h)
  <2>1. PICK p : p = [poll[h] EXCEPT !.cache = runtime]
    OBVIOUS
  <2>2. /\ poll' = [poll EXCEPT ![h] = p] /\ p.pc = poll[h].pc /\ p.todo = poll[h].todo
        /\ p.settle = poll[h].settle /\ p.deliver = poll[h].deliver
        /\ UNCHANGED << commands, agent, report, executed, events, lastId >>
    <3>1. poll' = [poll EXCEPT ![h] = p]
      BY <1>2, <2>1 DEF PollReadRuntime
    <3>2. /\ p.pc = poll[h].pc /\ p.todo = poll[h].todo
          /\ p.settle = poll[h].settle /\ p.deliver = poll[h].deliver
      BY <1>0, <2>1 DEF PollLocals
    <3>. QED
      BY <1>2, <3>1, <3>2 DEF PollReadRuntime, restOfPoll
  <2>3. Holds(p)'
    BY <1>0, <2>2 DEF Holds, Pending
  <2>. QED
    BY <1>0, <2>2, <2>3, HandlerCalm DEF Settled, Pending
<1>3. CASE PollRow(h)
  <2>1. PICK c \in Oldest(poll[h].todo) :
          \/ poll' = [poll EXCEPT ![h] =
                        [poll[h] EXCEPT !.todo = @ \ {c}, !.settle = @ \cup {c}]]
          \/ poll' = [poll EXCEPT ![h] =
                        [poll[h] EXCEPT !.todo = @ \ {c}, !.deliver = @ \cup {c}]]
    BY <1>3 DEF PollRow
  <2>2. PICK p : /\ poll' = [poll EXCEPT ![h] = p]
                 /\ \/ p = [poll[h] EXCEPT !.todo = @ \ {c}, !.settle = @ \cup {c}]
                    \/ p = [poll[h] EXCEPT !.todo = @ \ {c}, !.deliver = @ \cup {c}]
    BY <2>1
  <2>3. /\ c \in poll[h].todo
        /\ poll' = [poll EXCEPT ![h] = p]
        /\ p.pc = "rows" /\ p.todo = poll[h].todo \ {c}
        /\ \/ p.settle = poll[h].settle \cup {c} /\ p.deliver = poll[h].deliver
           \/ p.settle = poll[h].settle /\ p.deliver = poll[h].deliver \cup {c}
    <3>1. /\ p.pc = poll[h].pc /\ p.todo = poll[h].todo \ {c}
          /\ \/ p.settle = poll[h].settle \cup {c} /\ p.deliver = poll[h].deliver
             \/ p.settle = poll[h].settle /\ p.deliver = poll[h].deliver \cup {c}
      BY <1>0, <2>2 DEF PollLocals
    <3>2. c \in poll[h].todo /\ poll[h].pc = "rows"
      BY <1>3, <2>1 DEF Oldest, PollRow
    <3>. QED
      BY <2>2, <3>1, <3>2
  <2>4. UNCHANGED << commands, agent, report, executed, events, lastId >> /\ poll[h].pc = "rows"
    BY <1>3 DEF PollRow, restOfPoll
  <2>5. Holds(p)'
    BY <1>0, <2>3, <2>4 DEF Holds, Pending
  <2>6. poll[h].settle \cup poll[h].deliver \subseteq p.settle \cup p.deliver
    BY <2>3
  <2>. QED
    BY <1>0, <2>3, <2>4, <2>5, <2>6, HandlerCalm DEF Settled, Pending
<1>4. CASE PollSettle(h)
  <2>1. PICK c \in poll[h].settle :
          SettleIgnored({c}) /\ poll' = [poll EXCEPT ![h].settle = @ \ {c}]
    BY <1>4 DEF PollSettle
  <2>2. PICK p : p = [poll[h] EXCEPT !.settle = @ \ {c}]
    OBVIOUS
  <2>3. /\ poll' = [poll EXCEPT ![h] = p] /\ p.pc = "rows" /\ poll[h].pc = "rows"
        /\ p.todo = poll[h].todo
        /\ p.settle = poll[h].settle \ {c} /\ p.deliver = poll[h].deliver
        /\ UNCHANGED << agent, report, executed, events, lastId >>
    <3>1. poll' = [poll EXCEPT ![h] = p]
      BY <2>1, <2>2
    <3>2. /\ p.pc = poll[h].pc /\ p.todo = poll[h].todo
          /\ p.settle = poll[h].settle \ {c} /\ p.deliver = poll[h].deliver
      BY <1>0, <2>2 DEF PollLocals
    <3>3. poll[h].pc = "rows"
      BY <1>0 DEF Holds
    <3>. QED
      BY <1>4, <3>1, <3>2, <3>3 DEF PollSettle, restOfPoll
  <2>4. /\ commands'[c].status = "completed"
        /\ \A d \in Ids : d # c => commands'[d] = commands[d]
    BY <1>0, <2>1 DEF SettleIgnored, TypeOK, Row, PollLocals
  <2>5. c \notin poll[h].todo \cup poll[h].deliver
    BY <1>0, <2>1, <2>3 DEF Holds
  <2>6. 1..lastId \subseteq Ids
    BY <1>0, LifecycleAssumption DEF TypeOK, Ids
  <2>7. Holds(p)' /\ \A d \in poll[h].settle \cup poll[h].deliver :
                       d \in p.settle \cup p.deliver \/ Settled(d)'
    BY <1>0, <2>3, <2>4, <2>5 DEF Holds, Pending, Settled, PollLocals
  <2>. QED
    BY <1>0, <2>3, <2>4, <2>6, <2>7, HandlerCalm DEF Settled, Pending
<1>5. CASE PollMarkSent(h)
  <2>1. PICK p : p = [poll[h] EXCEPT !.pc = "stops",
                        !.todo = {c \in poll[h].deliver : ~IsStart(c)}]
    OBVIOUS
  <2>2. /\ poll' = [poll EXCEPT ![h] = p] /\ p.pc = "stops"
        /\ p.settle = {} /\ p.deliver = poll[h].deliver /\ poll[h].settle = {}
        /\ UNCHANGED << agent, report, executed, events, lastId >>
    BY <1>0, <1>5, <2>1 DEF PollMarkSent, restOfPoll, PollLocals
  <2>3. \A c \in Ids : /\ c \in poll[h].deliver => Pending(c)
                       /\ c \notin poll[h].deliver => commands'[c] = commands[c]
    BY <1>0, <1>5 DEF PollMarkSent, Sent, Holds
  <2>4. 1..lastId \subseteq Ids
    BY <1>0, LifecycleAssumption DEF TypeOK, Ids
  <2>. QED
    BY <1>0, <2>2, <2>3, <2>4, HandlerCalm DEF Settled, Pending, Holds
<1>6. CASE PollMarkStopped(h)
  <2>1. PICK c \in poll[h].todo : poll' = [poll EXCEPT ![h].todo = @ \ {c}]
    BY <1>6 DEF PollMarkStopped
  <2>2. PICK p : p = [poll[h] EXCEPT !.todo = @ \ {c}]
    OBVIOUS
  <2>3. /\ poll' = [poll EXCEPT ![h] = p] /\ p.pc = "stops" /\ poll[h].pc = "stops"
        /\ p.settle = poll[h].settle /\ p.deliver = poll[h].deliver
        /\ UNCHANGED << commands, agent, report, executed, events, lastId >>
    BY <1>0, <1>6, <2>1, <2>2 DEF PollMarkStopped, restOfPoll, PollLocals
  <2>. QED
    BY <1>0, <2>3, HandlerCalm DEF Settled, Pending, Holds
<1>7. CASE PollAnswer(h)
  <2>1. /\ poll' = [poll EXCEPT ![h] = FreeHandler]
        /\ agent' = [Idle EXCEPT !.mode = "working", !.inbox = poll[h].deliver]
        /\ poll[h].settle = {}
        /\ UNCHANGED << commands, report, executed, events, lastId >>
    BY <1>0, <1>7 DEF PollAnswer, restOfPoll
  <2>2. agent'.mode = "working" /\ agent'.inbox = poll[h].deliver
    BY <2>1 DEF Idle
  <2>3. OneCall' /\ TakenRows' /\ CallsAnswered'
    BY <1>0, <2>1, <2>2 DEF Calm, OneCall, TakenRows, CallsAnswered, Reported, TypeOK
  <2>4. Forward
    BY <1>0, <2>1, <2>2 DEF Forward, Settled, Pending, Reported, InWork, InBatch, InAnswer,
                            Inv, AgentInv
  <2>. QED
    BY <2>1, <2>3, <2>4
<1>. QED
  BY <1>1, <1>2, <1>3, <1>4, <1>5, <1>6, <1>7 DEF PollStep, PollSelect, PollReadRuntime, PollRow,
     PollSettle, PollMarkSent, PollMarkStopped, PollAnswer, restOfPoll

LEMMA AgentCalm ==
  ASSUME Inv, Calm, AgentStep
  PROVE  OneCall' /\ TakenRows' /\ CallsAnswered' /\ Forward /\ lastId' = lastId
<1>0. /\ TypeOK /\ UNCHANGED << commands, lastId >>
      /\ \A c \in Ids : /\ Settled(c)' <=> Settled(c)
                        /\ Pending(c)' <=> Pending(c)
  BY DEF Inv, AgentStep, AgentPoll, AgentTake, AgentBatchDone, AgentPostEvent, AgentReport,
         restOfAgent, Settled, Pending
<1>1. 1..lastId \subseteq Ids
  BY <1>0, LifecycleAssumption DEF TypeOK, Ids
<1>2. ASSUME NEW h \in Handlers, AgentPoll(h)
      PROVE  OneCall' /\ TakenRows' /\ CallsAnswered' /\ Forward
  <2>1. /\ agent.mode = "idle" /\ agent'.mode = "polling" /\ agent'.handler = h
        /\ agent'.inbox = {} /\ poll[h] = FreeHandler
        /\ poll' = [poll EXCEPT ![h].pc = "select"]
        /\ UNCHANGED << report, executed, events >>
    BY <1>2 DEF AgentPoll, Idle, Calm, OneCall
  <2>2. /\ poll'[h].pc = "select" /\ poll'[h].settle = {}
        /\ \A g \in Handlers : g # h => poll'[g] = poll[g]
    BY <1>0, <2>1 DEF TypeOK, FreeHandler
  <2>3. OneCall' /\ TakenRows' /\ CallsAnswered'
    BY <2>1, <2>2 DEF Calm, OneCall, TakenRows, CallsAnswered, Reported, Holds
  <2>4. agent.inbox = {}
    BY <2>1 DEF Inv, AgentInv
  <2>. QED
    BY <1>0, <1>1, <2>1, <2>3, <2>4 DEF Forward, Reported, InWork, InBatch, InAnswer
<1>3. CASE AgentTake
  <2>1. PICK c \in agent.inbox :
          /\ agent.mode = "working"
          /\ agent' = [agent EXCEPT !.mode = "executing", !.current = c, !.inbox = @ \ {c}]
          /\ executed' = executed \cup {c}
          /\ UNCHANGED << poll, report, events >>
    BY <1>3 DEF AgentTake, Oldest
  <2>2. /\ agent'.mode = "executing" /\ agent'.current = c /\ agent'.inbox = agent.inbox \ {c}
    BY <1>0, <2>1 DEF TypeOK, AgentStates
  <2>3. OneCall' /\ TakenRows' /\ CallsAnswered'
    BY <2>1, <2>2 DEF Calm, OneCall, TakenRows, CallsAnswered, Reported
  <2>. QED
    BY <1>0, <1>1, <2>1, <2>2, <2>3 DEF Forward, Reported, InWork, InBatch, InAnswer
<1>4. CASE AgentBatchDone
  <2>1. /\ agent.mode = "working" /\ agent.inbox = {} /\ agent'.mode = "idle"
        /\ UNCHANGED << poll, report, executed, events >>
    BY <1>4 DEF AgentBatchDone, Idle
  <2>2. OneCall' /\ TakenRows' /\ CallsAnswered'
    BY <2>1 DEF Calm, OneCall, TakenRows, CallsAnswered, Reported
  <2>. QED
    BY <1>0, <1>1, <2>1, <2>2 DEF Forward, Reported, InWork, InBatch, InAnswer
<1>5. CASE AgentPostEvent
  <2>1. /\ agent.mode = "executing" /\ agent'.mode = "posting"
        /\ agent'.current = agent.current /\ agent'.inbox = agent.inbox
        /\ events' = events \cup {agent.current}
        /\ UNCHANGED << poll, report, executed >>
    BY <1>0, <1>5 DEF AgentPostEvent, TypeOK, AgentStates
  <2>2. OneCall' /\ TakenRows' /\ CallsAnswered'
    BY <2>1 DEF Calm, OneCall, TakenRows, CallsAnswered, Reported
  <2>. QED
    BY <1>0, <1>1, <2>1, <2>2 DEF Forward, Reported, InWork, InBatch, InAnswer
<1>6. CASE AgentReport
  <2>1. PICK r : /\ agent.mode \in {"executing", "posted"} /\ agent'.mode = "reporting"
                 /\ agent'.current = agent.current /\ agent'.inbox = agent.inbox
                 /\ report' = [report EXCEPT ![agent.current] = r] /\ r.pc = "mark"
                 /\ UNCHANGED << poll, executed, events >>
    <3>1. PICK o \in {"completed", "failed"} :
            /\ Outcome(o)
            /\ report' = [report EXCEPT ![agent.current] =
                 [NoReport EXCEPT !.pc = "mark", !.outcome = o, !.at = clock + 1]]
      BY <1>6 DEF AgentReport
    <3>2. [NoReport EXCEPT !.pc = "mark", !.outcome = o, !.at = clock + 1].pc = "mark"
      BY DEF NoReport
    <3>. QED
      BY <1>0, <1>6, <3>1, <3>2 DEF AgentReport, Outcome, TypeOK, AgentStates
  <2>2. agent.current \in Ids
    BY <2>1 DEF Inv, CurrentKnown
  <2>3. report'[agent.current].pc = "mark"
        /\ \A c \in Ids : c # agent.current => report'[c] = report[c]
    BY <1>0, <2>1, <2>2 DEF TypeOK
  <2>4. OneCall' /\ TakenRows' /\ CallsAnswered'
    BY <2>1, <2>2, <2>3 DEF Calm, OneCall, TakenRows, CallsAnswered, Reported
  <2>. QED
    BY <1>0, <1>1, <2>1, <2>3, <2>4 DEF Forward, Reported, InWork, InBatch, InAnswer
<1>. QED
  BY <1>0, <1>2, <1>3, <1>4, <1>5, <1>6 DEF AgentStep

LEMMA EventCalm ==
  ASSUME Inv, Calm, NEW d \in Ids, HandleEvent(d)
  PROVE  OneCall' /\ TakenRows' /\ CallsAnswered' /\ Forward /\ lastId' = lastId
<1>1. /\ UNCHANGED << commands, lastId, poll, report, executed >> /\ events' = events \ {d}
      /\ agent'.current = agent.current /\ agent'.inbox = agent.inbox
      /\ agent'.handler = agent.handler
      /\ IF agent.mode = "posting" /\ agent.current = d THEN agent'.mode = "posted"
         ELSE agent' = agent
  BY DEF HandleEvent, Inv, TypeOK, AgentStates
<1>2. OneCall' /\ TakenRows' /\ CallsAnswered'
  <2>1. OneCall'
    <3>1. Holds(poll[agent.handler]) => Holds(poll[agent.handler])'
      BY <1>1 DEF Holds, Pending
    <3>. QED
      BY <1>1, <3>1 DEF Calm, OneCall
  <2>. QED
    BY <1>1, <2>1 DEF Calm, TakenRows, CallsAnswered, Reported
<1>3. Forward
  BY <1>1 DEF Forward, Settled, Pending, Reported, InWork, InBatch, InAnswer
<1>. QED
  BY <1>1, <1>2, <1>3

(* A result handler goes on, or is over and lets the agent go on.          *)
LEMMA ReportCalm ==
  ASSUME Inv, Calm, NEW d \in Ids, NEW r, report' = [report EXCEPT ![d] = r], r.pc # "mark",
         \/ /\ \A c \in 1..lastId : commands'[c].status = commands[c].status
            /\ ~Reported(d)
         \/ /\ Reported(d) /\ Settled(d)'
            /\ \A c \in 1..lastId : c # d => commands'[c].status = commands[c].status,
         UNCHANGED << poll, executed, events >>, RowsGrow,
         \/ UNCHANGED agent /\ r.pc # "none"
         \/ agent' = IF agent.mode = "reporting" /\ agent.current = d
                     THEN [agent EXCEPT !.mode = "working", !.current = 0] ELSE agent
  PROVE  OneCall' /\ TakenRows' /\ CallsAnswered' /\ Forward
<1>0. TypeOK
  BY DEF Inv
<1>1. report'[d] = r /\ \A c \in Ids : c # d => report'[c] = report[c]
  BY <1>0 DEF TypeOK
<1>2. /\ agent'.inbox = agent.inbox
      /\ \/ UNCHANGED agent /\ (r.pc # "none" \/ agent.mode # "reporting" \/ agent.current # d)
         \/ agent.mode = "reporting" /\ agent'.mode = "working"
  BY <1>0 DEF TypeOK, AgentStates
<1>3. Reported(d) => ~Pending(d)
  BY DEF Inv, ExecutedOnce, Waiting, Calm, TakenRows, Pending
<1>4. \A c \in Ids : Pending(c) => Pending(c)'
  BY <1>3 DEF Inv, RowsUsed, Pending, Ids
<1>5. 1..lastId \subseteq Ids
  BY <1>0, LifecycleAssumption DEF TypeOK, Ids
<1>6. \A c \in 1..lastId : Settled(c) => Settled(c)'
  BY DEF Settled
<1>7. OneCall'
  <2>1. CASE agent.mode = "polling"
    <3>1. poll[agent.handler] \in PollLocals
      BY <1>0, <2>1 DEF Inv, AgentInv, TypeOK
    <3>2. Holds(poll[agent.handler])'
      BY <1>2, <1>4, <2>1, <3>1 DEF Calm, OneCall, Holds, PollLocals
    <3>. QED
      BY <1>2, <2>1, <3>2 DEF Calm, OneCall
  <2>2. CASE agent.mode # "polling"
    BY <1>2, <2>2 DEF Calm, OneCall
  <2>. QED
    BY <2>1, <2>2
<1>8. TakenRows'
  BY <1>1, <1>2 DEF Calm, TakenRows, Reported
<1>9. CallsAnswered'
  BY <1>1, <1>2 DEF Inv, CurrentKnown, Calm, CallsAnswered
<1>10. Forward
  BY <1>1, <1>2, <1>4, <1>5, <1>6 DEF Forward, Reported, InWork, InBatch, InAnswer
<1>. QED
  BY <1>7, <1>8, <1>9, <1>10

LEMMA ResultCalm ==
  ASSUME Inv, Calm, NEW d \in Ids, ResultStep(d)
  PROVE  OneCall' /\ TakenRows' /\ CallsAnswered' /\ Forward /\ RowsGrow
<1>0. TypeOK /\ report[d] \in ReportLocals
  BY DEF Inv, TypeOK
<1>1. CASE ResultMark(d)
  <2>1. PICK pc \in {"answer", "readRuntime", "endRuntime"} :
          report' = [report EXCEPT ![d] = [report[d] EXCEPT !.pc = pc]]
    BY <1>1 DEF ResultMark, Goto
  <2>2. [report[d] EXCEPT !.pc = pc].pc = pc
    BY <1>0 DEF ReportLocals
  <2>3. /\ Settled(d)' /\ Reported(d)
        /\ \A c \in Ids : c # d => commands'[c] = commands[c]
    BY <1>0, <1>1 DEF ResultMark, FinalStatus, Settled, Reported, TypeOK, Row, ReportLocals
  <2>4. 1..lastId \subseteq Ids /\ RowsGrow
    BY <1>0, <1>1, LifecycleAssumption DEF ResultMark, restOfReport, RowsGrow, TypeOK, Ids
  <2>. QED
    BY <1>1, <2>1, <2>2, <2>3, <2>4, ReportCalm DEF ResultMark, restOfReport
<1>2. CASE ResultInsertNext(d)
  <2>1. report' = [report EXCEPT ![d] = [report[d] EXCEPT !.pc = "answer"]]
    BY <1>2 DEF ResultInsertNext, Goto
  <2>2. [report[d] EXCEPT !.pc = "answer"].pc = "answer"
    BY <1>0 DEF ReportLocals
  <2>3. RowsGrow /\ \A c \in 1..lastId : commands'[c].status = commands[c].status
    BY <1>0, <1>2, LifecycleAssumption DEF ResultInsertNext, InsertCommand, TypeOK, Ids, RowsGrow
  <2>4. UNCHANGED << poll, executed, events, agent >> /\ ~Reported(d)
    BY <1>2 DEF ResultInsertNext, Reported
  <2>. QED
    BY <2>1, <2>2, <2>3, <2>4, ReportCalm
<1>3. CASE ResultAnswer(d)
  <2>1. NoReport.pc = "none"
    BY DEF NoReport
  <2>2. /\ UNCHANGED << commands, lastId, poll, executed, events >> /\ ~Reported(d)
        /\ report' = [report EXCEPT ![d] = NoReport]
        /\ agent' = IF agent.mode = "reporting" /\ agent.current = d
                    THEN [agent EXCEPT !.mode = "working", !.current = 0] ELSE agent
    BY <1>3 DEF ResultAnswer, ResultOver, restOfReport, Reported
  <2>3. RowsGrow
    BY <2>2 DEF RowsGrow
  <2>. QED
    BY <2>1, <2>2, <2>3, ReportCalm
<1>4. CASE \/ ResultReadRuntime(d) \/ ResultReadRun(d) \/ ResultKeepRuntime(d)
           \/ ResultKeepRun(d) \/ ResultFindNext(d) \/ ResultEndRuntime(d) \/ ResultEndRun(d)
  <2>1. PICK r : report' = [report EXCEPT ![d] = r] /\ r.pc \notin {"mark", "none"}
    <3>1. CASE ResultReadRuntime(d)
      <4>1. [report[d] EXCEPT !.pc = "readRun", !.runtime = runtime].pc = "readRun"
        BY <1>0 DEF ReportLocals
      <4>. QED
        BY <3>1, <4>1 DEF ResultReadRuntime
    <3>2. CASE ~ResultReadRuntime(d)
      <4>1. PICK pc \in {"keepRuntime", "endRuntime", "keepRun", "findNext", "answer",
                         "insertNext", "endRun", "endEvent"} : Goto(d, pc)
        BY <1>4, <3>2 DEF ResultReadRun, ResultKeepRuntime, ResultKeepRun, ResultFindNext,
                          ResultEndRuntime, ResultEndRun
      <4>2. [report[d] EXCEPT !.pc = pc].pc = pc
        BY <1>0 DEF ReportLocals
      <4>. QED
        BY <4>1, <4>2 DEF Goto
    <3>. QED
      BY <3>1, <3>2
  <2>2. UNCHANGED << commands, lastId, poll, executed, events, agent >> /\ ~Reported(d)
    BY <1>4 DEF ResultReadRuntime, ResultReadRun, ResultKeepRuntime, ResultKeepRun, ResultFindNext,
                ResultEndRuntime, ResultEndRun, restOfReport, Reported
  <2>3. RowsGrow
    BY <2>2 DEF RowsGrow
  <2>. QED
    BY <2>1, <2>2, <2>3, ReportCalm
<1>. QED
  BY <1>1, <1>2, <1>3, <1>4 DEF ResultStep

LEMMA CalmStep ==
  ASSUME Inv, faults = 0 => Calm, [Next]_vars, faults' = 0
  PROVE  Calm' /\ Forward
<1>0. TypeOK
  BY DEF Inv
<1>1. ~Fault
  BY <1>0 DEF Fault, TypeOK
<1>2. CASE Next
  <2>1. faults = 0
    BY <1>1, <1>2
    DEF Next, Fault, StartCheck, StartStep, StartQueueRun, StartInsert, StartMarkRun,
        StartMarkRuntime, StartEvent, StartPlanFails, StartMarkRuntimeFails, WindowPasses,
        StopArrive, StopStep, StopInsert, StopMarkRuntime, StopFails, PollStep, PollSelect,
        PollReadRuntime, PollRow, PollSettle, PollMarkSent, PollMarkStopped, PollAnswer, PollFails,
        AgentStep, AgentPoll, AgentTake, AgentBatchDone, AgentPostEvent, AgentReport,
        AgentReportLost, AgentTimeout, AgentRestart, HandleEvent, ResultStep, ResultMark,
        ResultReadRuntime, ResultReadRun, ResultKeepRuntime, ResultKeepRun, ResultFindNext,
        ResultInsertNext, ResultEndRuntime, ResultEndRun, ResultAnswer, ResultFails, BecomesDue,
        restOfStop, restOfPoll, restOfReport
  <2>2. Calm
    BY <2>1
  <2>3. OneCall' /\ TakenRows' /\ CallsAnswered' /\ Forward /\ RowsGrow
    <3>1. ASSUME NEW c \in Ids, BecomesDue(c)
          PROVE  OneCall' /\ TakenRows' /\ CallsAnswered' /\ Forward /\ RowsGrow
      <4>1. RowsGrow /\ UNCHANGED << poll, agent, report, executed, events >>
        BY <3>1 DEF BecomesDue, RowsGrow
      <4>2. \A b \in 1..lastId : commands'[b].status = commands[b].status
        BY <1>0, <3>1, LifecycleAssumption DEF BecomesDue, TypeOK, Row, Ids
      <4>. QED
        BY <2>2, <4>1, <4>2, TableCalm
    <3>2. ASSUME NEW r \in Runs, StartPlanFails(r) \/ StartMarkRuntimeFails(r) PROVE FALSE
      BY <1>1, <3>2 DEF StartPlanFails, StartMarkRuntimeFails
    <3>3. ASSUME NEW s \in Stops, StopFails(s) PROVE FALSE
      BY <1>1, <3>3 DEF StopFails
    <3>4. ASSUME NEW h \in Handlers, PollFails(h) PROVE FALSE
      BY <1>1, <3>4 DEF PollFails
    <3>5. ASSUME NEW c \in Ids, ResultFails(c) PROVE FALSE
      BY <1>1, <3>5 DEF ResultFails
    <3>6. ~AgentReportLost /\ ~AgentTimeout /\ ~AgentRestart
      BY <1>1 DEF AgentReportLost, AgentTimeout, AgentRestart
    <3>7. lastId' = lastId => RowsGrow
      BY DEF RowsGrow
    <3>. QED
      BY <1>2, <2>2, <3>1, <3>2, <3>3, <3>4, <3>5, <3>6, <3>7,
         StartCalm, StopCalm, PollCalm, AgentCalm, EventCalm, ResultCalm DEF Next
  <2>4. \A c \in 1..lastId' : WithSomebody(c)'
    BY <1>0, <2>2, <2>3, Carried
  <2>. QED
    BY <2>3, <2>4 DEF Calm
<1>3. CASE UNCHANGED vars
  <2>1. Calm /\ UNCHANGED << poll, agent, report, executed, events, commands, lastId >>
    BY <1>3 DEF vars
  <2>2. RowsGrow
    BY <2>1 DEF RowsGrow
  <2>3. OneCall' /\ TakenRows' /\ CallsAnswered' /\ Forward
    BY <2>1, <2>2, TableCalm
  <2>4. \A c \in 1..lastId' : WithSomebody(c)'
    BY <1>0, <2>1, <2>2, <2>3, Carried
  <2>. QED
    BY <2>3, <2>4 DEF Calm
<1>. QED
  BY <1>2, <1>3

LEMMA CalmInit == Init => Calm
<1>. SUFFICES ASSUME Init PROVE Calm
  OBVIOUS
<1>1. /\ agent.mode = "idle" /\ lastId = 0
      /\ \A h \in Handlers : poll[h] = FreeHandler
      /\ \A c \in Ids : report[c].pc = "none"
  BY DEF Init, Idle, NoReport
<1>. QED
  BY <1>1 DEF Calm, OneCall, TakenRows, CallsAnswered, Reported

LEMMA SpecCalm == Spec => [](Inv /\ (faults = 0 => Calm))
<1>1. Inv /\ (faults = 0 => Calm) /\ [Next]_vars => (faults = 0 => Calm)'
  BY CalmStep
<1>. QED
  BY <1>1, CalmInit, SpecInv, PTL DEF Spec

(* As long as nothing fails no command is forgotten between the backend    *)
(* and the agent, and no call of the agent is left without an answer.      *)
THEOREM NothingDropped == Spec => []NoneDropped
<1>1. (faults = 0 => Calm) => NoneDropped
  BY DEF Calm, NoneDropped
<1>. QED
  BY <1>1, SpecCalm, PTL

(* As long as nothing fails every step of backend and agent takes a        *)
(* command towards its final status, which it then keeps.                  *)
THEOREM CommandsGoForward == Spec => CommandsAdvance
<1>1. Inv /\ (faults = 0 => Calm) /\ [Next]_vars => [faults' = 0 => Forward]_vars
  BY CalmStep
<1>. QED
  BY <1>1, SpecCalm, PTL DEF Spec, CommandsAdvance
=============================================================================
