--------------------------- MODULE JobStepsProofs ---------------------------
(***************************************************************************)
(* For every job, segment and window: a sequential step works alone after  *)
(* the one it follows, a job ends with no worker left, and a job given up  *)
(* as stalled had nothing to start but steps whose time had just come.     *)
(***************************************************************************)
EXTENDS JobSteps, FiniteSetTheorems, TLAPS

(* Only the workers of a running step are alive. *)
LiveRuns == \A s \in Steps : state[s] # "running" => Live(s) = {}

(* A running sequential step follows one that is over or elsewhere. *)
Ordered ==
  \A s \in Steps : (state[s] = "running" /\ def[s].mode = "sequential" /\ Depends(s))
                     => state[def[s].from] \in {"absent", "completed", "skipped"}

(* What the job thread still has to scan. *)
Scans ==
  /\ At("start") => loop.todo \subseteq In({"pending"})
  /\ At("join") => loop.step \in Steps
  /\ At("stop") => In({"running"}) \subseteq loop.todo
  /\ At("join") /\ asked[loop.step] # "timeout"
       => In({"running"}) \subseteq loop.todo \cup {loop.step}

(* Nothing runs while the job thread looks for a way on, or after the end. *)
Rests ==
  (At("runnable") \/ At("future") \/ ended \in Events \ {"job_failed"})
    => In({"running"}) = {}

(* The scan for runnable steps still holds, but for the clock. *)
Verdict ==
  At("future") \/ ended = "job_staled"
    => \A s \in In({"pending"}) : Satisfied(s) => def[s].mode = "time"

Inv == /\ TypeOK /\ LiveRuns /\ Ordered /\ Scans /\ Rests /\ Verdict
       /\ ended # None => At("over")

-----------------------------------------------------------------------------
LEMMA Depended == ASSUME TypeOK, NEW s \in Steps, Depends(s) PROVE def[s].from \in Steps
<1>1. def \in [Steps -> StepDef]
  BY StepsAssumption DEF TypeOK, StepsAssumption
<1>. QED
  BY <1>1 DEF Depends, StepDef

LEMMA InitInv == ASSUME Init PROVE Inv
<1>. USE StepsAssumption DEF Init, StepsAssumption, Events
<1>1. TypeOK
  <2>1. /\ state \in [Steps -> StepStates]
        /\ worker \in [Steps -> [Cameras -> Phases]]
    BY DEF StepStates, Phases
  <2>2. loop \in [pc : Positions, todo : SUBSET Steps, step : Steps \cup {None}]
    BY DEF Positions
  <2>5. Window \in 0..Window /\ 0 \in 0..MaxDelay /\ 0 \in 0..MaxFaults
    <3>1. Window \in Nat /\ MaxDelay \in Nat /\ MaxFaults \in Nat
      OBVIOUS
    <3>. QED
      BY ONLY <3>1
  <2>3. left \in [Steps -> 0..Window] /\ age \in 0..MaxDelay /\ faults \in 0..MaxFaults
    BY <2>5, Zenon
  <2>4. asked \in [Steps -> {"nothing", "timeout", "job_cancel"}]
    OBVIOUS
  <2>. QED
    BY <2>1, <2>2, <2>3, <2>4 DEF TypeOK
<1>2. \A s \in Steps : Live(s) = {} /\ state[s] \in {"absent", "skipped", "pending"}
  BY DEF Live
<1>3. LiveRuns /\ Ordered /\ Scans /\ Rests /\ Verdict
  BY <1>2 DEF LiveRuns, Ordered, Scans, Rests, Verdict, At, In
<1>. QED
  BY <1>1, <1>3 DEF Inv, At

(* The job thread scans: no step and no worker changes. *)
LEMMA ScanSteps ==
  ASSUME Inv,
         \/ NextIteration \/ LastStarted \/ Decide \/ FindRunnable \/ FindFuture \/ LastStopped
         \/ \E s \in Steps : PassStep(s) \/ PassRunning(s)
  PROVE  Inv'
<1>. DEFINE same == UNCHANGED << plan, signals, state, worker, left, asked, age, cancel, faults >>
<1>0. TypeOK /\ LiveRuns /\ Ordered /\ Scans /\ Rests /\ Verdict /\ (ended # None => At("over"))
  BY DEF Inv
<1>1. same
  BY DEF NextIteration, LastStarted, Decide, FindRunnable, FindFuture, LastStopped,
         PassStep, PassRunning
<1>2. TypeOK'
  <2>1. /\ loop' \in [pc : Positions, todo : SUBSET Steps, step : Steps \cup {None}]
        /\ ended' \in {ended} \cup Events
    BY <1>0 DEF TypeOK, Events, NextIteration, LastStarted, Decide, FindRunnable, FindFuture,
       LastStopped, PassStep, PassRunning, Goto, Pass, End, In, Positions
  <2>. QED
    BY <1>0, <1>1, <2>1 DEF TypeOK, plan, signals
<1>3. LiveRuns' /\ Ordered'
  BY <1>0, <1>1 DEF LiveRuns, Ordered, Live, Depends, plan
<1>4. In({"running"})' = In({"running"}) /\ In({"pending"})' = In({"pending"})
  BY <1>1 DEF In
<1>5. \A s \in Steps : Satisfied(s)' = Satisfied(s)
  BY <1>1 DEF Satisfied, Depends, Missing, Due, plan, signals
<1>13. None \notin Events
  BY StepsAssumption DEF StepsAssumption
<1>6. CASE NextIteration
  BY <1>0, <1>1, <1>3, <1>2, <1>13, <1>4, <1>6
  DEF Inv, Events, NextIteration, Scans, Rests, Verdict, At, Goto
<1>7. CASE LastStarted
  BY <1>0, <1>1, <1>3, <1>2, <1>13, <1>4, <1>7
  DEF Inv, Events, LastStarted, Scans, Rests, Verdict, At, Goto
<1>8. CASE Decide
  <2>1. CASE In({"running"}) # {}
    BY <1>0, <1>1, <1>3, <1>2, <1>13, <1>4, <1>8, <2>1
    DEF Inv, Events, Decide, Scans, Rests, Verdict, At, Goto
  <2>2. CASE In({"running"}) = {} /\ In({"pending"}) = {}
    BY <1>0, <1>1, <1>3, <1>2, <1>13, <1>4, <1>8, <2>2
    DEF Inv, Events, Decide, Scans, Rests, Verdict, At, Goto, End
  <2>3. CASE In({"running"}) = {} /\ In({"pending"}) # {}
    BY <1>0, <1>1, <1>3, <1>2, <1>13, <1>4, <1>8, <2>3
    DEF Inv, Events, Decide, Scans, Rests, Verdict, At, Goto
  <2>. QED
    BY <2>1, <2>2, <2>3
<1>9. CASE FindRunnable
  <2>1. CASE \E s \in In({"pending"}) : Satisfied(s)
    BY <1>0, <1>1, <1>3, <1>2, <1>13, <1>4, <1>9, <2>1
    DEF Inv, Events, FindRunnable, Scans, Rests, Verdict, At, Goto
  <2>2. CASE \A s \in In({"pending"}) : ~Satisfied(s)
    <3>1. \A s \in In({"pending"})' : ~Satisfied(s)'
      BY <1>4, <1>5, <2>2 DEF In
    <3>. QED
      BY <1>0, <1>1, <1>3, <1>2, <1>13, <1>4, <1>9, <2>2, <3>1
      DEF Inv, Events, FindRunnable, Scans, Rests, Verdict, At, Goto
  <2>. QED
    BY <2>1, <2>2
<1>10. CASE FindFuture
  <2>1. \A s \in In({"pending"})' : Satisfied(s)' => def'[s].mode = "time"
    BY <1>0, <1>1, <1>4, <1>5, <1>10 DEF FindFuture, Verdict, In, plan
  <2>2. CASE \E s \in In({"pending"}) : CanStart(s)
    BY <1>0, <1>1, <1>3, <1>2, <1>13, <1>4, <1>10, <2>2
    DEF Inv, Events, FindFuture, Scans, Rests, Verdict, At, Goto
  <2>3. CASE ~\E s \in In({"pending"}) : CanStart(s)
    BY <1>0, <1>1, <1>3, <1>2, <1>13, <1>4, <1>10, <2>1, <2>3
    DEF Inv, Events, FindFuture, Scans, Rests, Verdict, At, Goto, End
  <2>. QED
    BY <2>2, <2>3
<1>11. CASE LastStopped
  BY <1>0, <1>1, <1>3, <1>2, <1>13, <1>4, <1>11
  DEF Inv, Events, LastStopped, Scans, Rests, Verdict, At, Goto, End
<1>12. ASSUME NEW s \in Steps, PassStep(s) \/ PassRunning(s) PROVE Inv'
  <2>1. loop'.pc \in {"start", "deadlines"} /\ loop'.pc = loop.pc /\ loop'.todo \subseteq loop.todo
    BY <1>0, <1>12 DEF PassStep, PassRunning, Pass, At, TypeOK
  <2>2. ended' = ended /\ ended = None
    BY <1>0, <1>12 DEF PassStep, PassRunning, At
  <2>4. Rests'
    BY <1>0, <1>4, <2>1, <2>2, StepsAssumption DEF Rests, At, StepsAssumption
  <2>5. Verdict'
    BY <1>0, <1>1, <1>4, <1>5, <2>1, <2>2, <1>13 DEF Verdict, At, In, plan, Events
  <2>. QED
    BY <1>0, <1>1, <1>2, <1>3, <1>4, <2>1, <2>2, <2>4, <2>5 DEF Inv, Events, Scans, At
<1>. QED
  BY <1>6, <1>7, <1>8, <1>9, <1>10, <1>11, <1>12

(* A step is started: it was pending, so no step has followed it yet.      *)
LEMMA StartSteps ==
  ASSUME Inv, NEW s \in Steps, StartStep(s) \/ StartThrows(s)
  PROVE  Inv'
<1>0. TypeOK /\ LiveRuns /\ Ordered /\ Scans /\ Rests /\ Verdict /\ (ended # None => At("over"))
  BY DEF Inv
<1>1. /\ At("start") /\ s \in loop.todo /\ Satisfied(s) /\ state[s] = "pending"
      /\ loop.todo \subseteq In({"pending"}) /\ ended = None
  BY <1>0 DEF StartStep, StartThrows, Scans, In, At
<1>2. /\ UNCHANGED << plan, signals, asked, age, cancel >>
      /\ \E started \in SUBSET Targets(s) :
           IF started = {} /\ StartStep(s)
           THEN state' = [state EXCEPT ![s] = "skipped"] /\ UNCHANGED << worker, left >>
           ELSE Spawn(s, started)
  BY DEF StartStep, StartThrows
<1>3. \/ ended' = None /\ loop' = [loop EXCEPT !.todo = @ \ {s}] /\ faults' = faults
      \/ ended' = "job_failed" /\ Goto("over", {}) /\ faults' \in 0..MaxFaults
  BY <1>0, <1>1, StepsAssumption
  DEF StartStep, StartThrows, Pass, End, TypeOK, StepsAssumption
<1>4. TypeOK'
  <2>1. state' \in [Steps -> StepStates]
    <3>1. \/ state' = [state EXCEPT ![s] = "skipped"]
          \/ state' = [state EXCEPT ![s] = "running"]
      BY <1>2 DEF Spawn
    <3>. QED
      BY <1>0, <3>1 DEF TypeOK, StepStates
  <2>4. worker' \in [Steps -> [Cameras -> Phases]]
    <3>1. ASSUME NEW w \in [Cameras -> Phases], worker' = [worker EXCEPT ![s] = w]
          PROVE  worker' \in [Steps -> [Cameras -> Phases]]
      BY <1>0, <3>1 DEF TypeOK
    <3>2. \A started : [c \in Cameras |-> IF c \in started THEN "capture" ELSE "none"]
                          \in [Cameras -> Phases]
      BY DEF Phases
    <3>. QED
      BY <1>0, <1>2, <3>1, <3>2 DEF Spawn, TypeOK
  <2>2. left' \in [Steps -> 0..Window]
    BY <1>0, <1>2, StepsAssumption DEF TypeOK, Spawn, StepsAssumption
  <2>3. loop' \in [pc : Positions, todo : SUBSET Steps, step : Steps \cup {None}]
    BY <1>0, <1>3 DEF TypeOK, Goto, Positions
  <2>. QED
    BY <1>0, <1>2, <1>3, <2>1, <2>2, <2>3, <2>4 DEF TypeOK, plan, signals, Events
<1>5. /\ state'[s] \in {"running", "skipped"}
      /\ \A t \in Steps \ {s} : state'[t] = state[t] /\ worker'[t] = worker[t]
      /\ state'[s] = "skipped" => worker' = worker
  BY <1>0, <1>2 DEF TypeOK, Spawn
<1>6. LiveRuns'
  BY <1>0, <1>1, <1>5 DEF LiveRuns, Live
<1>7. Ordered'
  <2>. SUFFICES ASSUME NEW t \in Steps, state'[t] = "running",
                       def[t].mode = "sequential", Depends(t)
                PROVE  state'[def[t].from] \in {"absent", "completed", "skipped"}
    BY <1>2 DEF Ordered, Depends, plan
  <2>1. def[t].from \in Steps
    BY <1>0, Depended
  <2>2. state[def[t].from] \in {"absent", "completed", "skipped"}
    <3>1. CASE t = s
      BY <1>1, <3>1 DEF Satisfied, Missing, Answers
    <3>2. CASE t # s
      <4>1. state[t] = "running"
        BY <1>5, <3>2
      <4>. QED
        BY <1>0, <4>1 DEF Ordered
    <3>. QED
      BY <3>1, <3>2
  <2>. QED
    BY <1>1, <1>5, <2>1, <2>2
<1>8. Scans' /\ (ended' # None => At("over")')
  <2>1. loop'.pc \in {"start", "over"} /\ (loop'.pc = "start" => loop'.todo = loop.todo \ {s} /\ ended' = None)
        /\ (loop'.pc = "over" \/ ended' = None)
    BY <1>0, <1>1, <1>3 DEF TypeOK, Goto, At
  <2>. QED
    BY <1>1, <1>5, <2>1 DEF Scans, At, In
<1>9. Rests' /\ Verdict'
  <2>1. loop'.pc \in {"start", "over"} /\ ended' \in {None, "job_failed"}
    BY <1>0, <1>1, <1>3 DEF TypeOK, Goto, At
  <2>. QED
    BY <2>1, StepsAssumption DEF Rests, Verdict, At, StepsAssumption, Events
<1>. QED
  BY <1>4, <1>6, <1>7, <1>8, <1>9 DEF Inv

(* A step is being finalized: it is no longer in the scan. *)
LEMMA FinalizeSteps ==
  ASSUME Inv, NEW s \in Steps, FinalizeAtDeadline(s) \/ FinalizeStopped(s)
  PROVE  Inv'
<1>0. TypeOK /\ LiveRuns /\ Ordered /\ Scans /\ Rests /\ Verdict /\ (ended # None => At("over"))
  BY DEF Inv
<1>1. ended = None /\ s \in loop.todo /\ (At("stop") => In({"running"}) \subseteq loop.todo)
  BY <1>0 DEF FinalizeAtDeadline, FinalizeStopped, At, Scans
<1>2. /\ loop' = [pc |-> "join", todo |-> loop.todo \ {s}, step |-> s]
      /\ UNCHANGED << plan, signals, state, worker, left, age, cancel, ended, faults >>
      /\ \/ asked' = [asked EXCEPT ![s] = "timeout"]
         \/ asked' = [asked EXCEPT ![s] = "job_cancel"] /\ At("stop")
  BY DEF FinalizeAtDeadline, FinalizeStopped, Finalize
<1>3. TypeOK'
  <2>1. loop' \in [pc : Positions, todo : SUBSET Steps, step : Steps \cup {None}]
    BY <1>0, <1>2 DEF TypeOK, Positions
  <2>2. asked' \in [Steps -> {"nothing", "timeout", "job_cancel"}]
    BY <1>0, <1>2 DEF TypeOK
  <2>. QED
    BY <1>0, <1>2, <2>1, <2>2 DEF TypeOK, plan, signals
<1>4. LiveRuns' /\ Ordered'
  BY <1>0, <1>2 DEF LiveRuns, Ordered, Live, Depends, plan
<1>5. Scans'
  <2>1. asked'[s] = "timeout" \/ In({"running"}) \subseteq loop.todo
    BY <1>0, <1>1, <1>2 DEF TypeOK
  <2>2. In({"running"})' = In({"running"})
    BY <1>2 DEF In
  <2>. QED
    BY <1>2, <2>1, <2>2 DEF Scans, At
<1>6. Rests' /\ Verdict' /\ (ended' # None => At("over")')
  BY <1>1, <1>2, StepsAssumption DEF Rests, Verdict, At, StepsAssumption, Events
<1>. QED
  BY <1>3, <1>4, <1>5, <1>6 DEF Inv

(* A step is completed: its workers are joined. *)
LEMMA JoinStep == ASSUME Inv, JoinWorkers PROVE Inv'
<1>. DEFINE s == loop.step
<1>0. TypeOK /\ LiveRuns /\ Ordered /\ Scans /\ Rests /\ Verdict /\ (ended # None => At("over"))
  BY DEF Inv
<1>1. s \in Steps /\ Live(s) = {} /\ ended = None
  BY <1>0 DEF JoinWorkers, At, Scans
<1>2. /\ state' = [state EXCEPT ![s] = "completed"]
      /\ loop'.todo = loop.todo
      /\ loop'.pc = IF asked[s] = "timeout" THEN "deadlines" ELSE "stop"
      /\ UNCHANGED << plan, signals, worker, left, asked, age, cancel, ended, faults >>
  BY DEF JoinWorkers, Goto
<1>3. TypeOK'
  <2>1. loop' \in [pc : Positions, todo : SUBSET Steps, step : Steps \cup {None}]
    BY <1>0 DEF JoinWorkers, TypeOK, Goto, Positions
  <2>2. state' \in [Steps -> StepStates]
    BY <1>0, <1>2 DEF TypeOK, StepStates
  <2>. QED
    BY <1>0, <1>2, <2>1, <2>2 DEF TypeOK, plan, signals
<1>4. state'[s] = "completed" /\ \A t \in Steps \ {s} : state'[t] = state[t]
  BY <1>0, <1>1, <1>2 DEF TypeOK
<1>5. LiveRuns'
  BY <1>0, <1>1, <1>2, <1>4 DEF LiveRuns, Live
<1>6. Ordered'
  <2>. SUFFICES ASSUME NEW t \in Steps, state'[t] = "running",
                       def[t].mode = "sequential", Depends(t)
                PROVE  state'[def[t].from] \in {"absent", "completed", "skipped"}
    BY <1>2 DEF Ordered, Depends, plan
  <2>1. def[t].from \in Steps
    BY <1>0, Depended
  <2>. QED
    BY <1>0, <1>4, <2>1 DEF Ordered
<1>7. Scans'
  BY <1>0, <1>2, <1>4 DEF Scans, At, In, JoinWorkers
<1>8. Rests' /\ Verdict' /\ (ended' # None => At("over")')
  BY <1>1, <1>2, StepsAssumption DEF Rests, Verdict, At, StepsAssumption, Events
<1>. QED
  BY <1>3, <1>5, <1>6, <1>7, <1>8 DEF Inv

(* The workers: they only go on while their step runs. *)
LEMMA WorkerSteps ==
  ASSUME Inv, NEW s \in Steps, NEW c \in Cameras,
         \/ WorkerEnds(s, c) \/ Infer(s, c) \/ WorkerFails(s, c)
  PROVE  Inv'
<1>0. TypeOK /\ LiveRuns /\ Ordered /\ Scans /\ Rests /\ Verdict /\ (ended # None => At("over"))
  BY DEF Inv
<1>. USE DEF WorkerEnds, EndCapture, BeginDrain, GiveUp, EndDrain, Infer, WorkerFails
<1>1. c \in Live(s) /\ state[s] = "running" /\ ended = None
  BY <1>0 DEF LiveRuns, Live
<1>2. /\ UNCHANGED << plan, state, left, asked, age, cancel, loop, ended >>
      /\ \/ worker' = worker
         \/ \E phase \in Phases : worker' = [worker EXCEPT ![s][c] = phase]
  BY DEF Move, Phases
<1>3. faults' \in 0..MaxFaults
  BY <1>0, StepsAssumption DEF TypeOK, StepsAssumption, Move
<1>4. answer' \in [Steps -> Answers \cup {None}] /\ triggered' \in SUBSET Steps
  <2>1. CASE Infer(s, c)
    <3>1. \A hook \in Named : hook \subseteq Steps
      BY DEF Named
    <3>2. triggered' \in SUBSET Steps
      BY <1>0, <2>1, <3>1 DEF TypeOK
    <3>3. answer' = answer \/ \E a \in Answers \cup {None} : answer' = [answer EXCEPT ![s] = a]
      BY <2>1
    <3>. QED
      BY <1>0, <3>2, <3>3 DEF TypeOK
  <2>2. CASE ~Infer(s, c)
    <3>1. UNCHANGED << answer, triggered >>
      BY <2>2 DEF signals
    <3>. QED
      BY <1>0, <3>1 DEF TypeOK
  <2>. QED
    BY <2>1, <2>2
<1>5. worker' \in [Steps -> [Cameras -> Phases]]
  <2>1. ASSUME NEW phase \in Phases, worker' = [worker EXCEPT ![s][c] = phase]
        PROVE  worker' \in [Steps -> [Cameras -> Phases]]
    BY <1>0, <2>1 DEF TypeOK
  <2>. QED
    BY <1>0, <1>2, <2>1 DEF TypeOK
<1>6. TypeOK'
  BY <1>0, <1>2, <1>3, <1>4, <1>5 DEF TypeOK, plan
<1>7. LiveRuns'
  <2>1. \A t \in Steps \ {s} : worker'[t] = worker[t]
    BY <1>0, <1>2 DEF TypeOK
  <2>. QED
    BY <1>0, <1>1, <1>2, <2>1 DEF LiveRuns, Live
<1>8. Ordered' /\ Scans' /\ (ended' # None => At("over")')
  BY <1>0, <1>2 DEF Ordered, Depends, Scans, At, In, plan
<1>9. ~At("runnable") /\ ~At("future")
  BY <1>0, <1>1 DEF Rests, In
<1>10. Rests' /\ Verdict'
  BY <1>1, <1>2, <1>9, StepsAssumption DEF Rests, Verdict, At, StepsAssumption, Events
<1>. QED
  BY <1>6, <1>7, <1>8, <1>10 DEF Inv

(* Time passes, or the job is stopped: only a delay may end. *)
LEMMA OutsideSteps == ASSUME Inv, Tick \/ Cancel PROVE Inv'
<1>0. TypeOK /\ LiveRuns /\ Ordered /\ Scans /\ Rests /\ Verdict /\ (ended # None => At("over"))
  BY DEF Inv
<1>1. UNCHANGED << plan, signals, state, worker, asked, loop, ended, faults >> /\ ended = None
  BY DEF Tick, Cancel
<1>2. TypeOK'
  <2>0. ASSUME Tick PROVE left' \in [Steps -> 0..Window] /\ age' \in 0..MaxDelay
    <3>1. \A s \in Steps : left[s] \in 0..Window /\ (left[s] > 0 => left[s] - 1 \in 0..Window)
      BY <1>0, StepsAssumption DEF TypeOK, StepsAssumption
    <3>2. left' \in [Steps -> 0..Window]
      BY <2>0, <3>1 DEF Tick
    <3>3. age' \in 0..MaxDelay
      BY <1>0, <2>0, StepsAssumption DEF Tick, TypeOK, StepsAssumption
    <3>. QED
      BY <3>2, <3>3
  <2>1. left' \in [Steps -> 0..Window] /\ age' \in 0..MaxDelay /\ cancel' \in BOOLEAN
    BY <1>0, <2>0 DEF Tick, Cancel, TypeOK
  <2>. QED
    BY <1>0, <1>1, <2>1 DEF TypeOK, plan, signals
<1>3. LiveRuns' /\ Ordered' /\ Scans' /\ Rests' /\ (ended' # None => At("over")')
  BY <1>0, <1>1 DEF LiveRuns, Live, Ordered, Depends, Scans, Rests, At, In, plan
<1>4. Verdict'
  <2>1. \A s \in Steps : Satisfied(s)' => Satisfied(s) \/ def[s].mode = "time"
    BY <1>1 DEF Satisfied, Depends, Missing, Due, plan, signals
  <2>. QED
    BY <1>0, <1>1, <2>1 DEF Verdict, At, In, plan
<1>. QED
  BY <1>2, <1>3, <1>4 DEF Inv

LEMMA NextInv == ASSUME Inv, [Next]_vars PROVE Inv'
<1>1. CASE Next
  BY <1>1, ScanSteps, StartSteps, FinalizeSteps, JoinStep, WorkerSteps, OutsideSteps
  DEF Next, JobThread
<1>2. CASE UNCHANGED vars
  <2>1. UNCHANGED << def, cams, state, worker, left, asked, answer, triggered, age,
                     cancel, loop, ended, faults >>
    BY <1>2 DEF vars
  <2>2. TypeOK' /\ LiveRuns' /\ Ordered' /\ (ended' # None => At("over")')
    BY <2>1 DEF Inv, TypeOK, LiveRuns, Live, Ordered, Depends, At
  <2>3. Scans' /\ Rests'
    BY <2>1 DEF Inv, Scans, Rests, At, In
  <2>4. Verdict'
    BY <2>1 DEF Inv, Verdict, Satisfied, Depends, Missing, Due, At, In
  <2>. QED
    BY <2>2, <2>3, <2>4 DEF Inv
<1>. QED
  BY <1>1, <1>2

LEMMA Invariant == Spec => []Inv
<1>. QED
  BY InitInv, NextInv, PTL DEF Spec

-----------------------------------------------------------------------------
(* Every variable keeps its type. *)
THEOREM TypeCorrect == Spec => []TypeOK
<1>1. Inv => TypeOK
  BY DEF Inv
<1>. QED
  BY <1>1, Invariant, PTL

(* A sequential step works only after the workers of the step it follows   *)
(* are joined.                                                             *)
THEOREM OneAfterAnother == Spec => []SequentialAlone
<1>1. ASSUME Inv PROVE SequentialAlone
  <2>. SUFFICES ASSUME NEW s \in Steps, def[s].mode = "sequential", Depends(s), Live(s) # {}
                PROVE  Live(def[s].from) = {}
    BY DEF SequentialAlone
  <2>1. def[s].from \in Steps /\ state[s] = "running"
    BY <1>1, Depended DEF Inv, LiveRuns
  <2>. QED
    BY <1>1, <2>1 DEF Inv, LiveRuns, Ordered
<1>. QED
  BY <1>1, Invariant, PTL

(* A job that ends other than by an exception has joined its workers. *)
THEOREM QuietEnd == Spec => []EndsQuiet
<1>1. ASSUME Inv PROVE EndsQuiet
  BY <1>1 DEF Inv, EndsQuiet, Rests, LiveRuns, In
<1>. QED
  BY <1>1, Invariant, PTL

(* A job is given up as stalled only if no trigger, no answer and no end   *)
(* of a step lets a step start.                                            *)
THEOREM StallCorrect == Spec => []StallIsReal
<1>1. ASSUME Inv PROVE StallIsReal
  BY <1>1 DEF Inv, StallIsReal, Verdict
<1>. QED
  BY <1>1, Invariant, PTL

-----------------------------------------------------------------------------
(* The safe halves of StopEnds, SuccessorStarts and TriggerHeard.          *)

(* A worker the job thread joins can go on without it. *)
CanEnd(s, c) ==
  CASE worker[s][c] = "capture" -> Cancelled(s) \/ DeadlineReached(s)
    [] worker[s][c] = "wait" -> Cancelled(s) \/ asked[s] = "timeout"
    [] OTHER -> TRUE

JoinNeverStuck == At("join") => \A c \in Live(loop.step) : CanEnd(loop.step, c)

(* What finalizeStep was called for. *)
Joined == asked[loop.step] = "timeout"

(* The way of a stopped job to its end: the rest of an iteration, then the *)
(* stops of its steps.                                                     *)
Stage ==
  CASE At("start") -> 6
    [] At("deadlines") \/ (At("join") /\ Joined) -> 5
    [] At("runnable") -> 4
    [] At("future") -> 3
    [] At("head") -> 2
    [] At("stop") \/ (At("join") /\ ~Joined) -> 1
    [] At("over") -> 0

StepsToScan == 2 * Cardinality(loop.todo) + (IF At("join") THEN 1 ELSE 0)

(* Once a job is stopped every move of its thread brings the end nearer. *)
StopAdvances ==
  [][(cancel /\ ended = None) =>
       loop' = loop \/ Stage' < Stage \/ (Stage' = Stage /\ StepsToScan' < StepsToScan)]_vars

(* A step whose predecessor is over, or that was triggered. *)
Runnable(s) ==
  state[s] = "pending" /\ def[s].mode \in {"sequential", "custom"} /\ Satisfied(s)

(* A runnable step stays so until it is started or refused, is in the next *)
(* scan and is not passed over by it.                                      *)
RunnableTaken ==
  [][\A s \in Steps : Runnable(s) =>
       \/ state'[s] # "pending"
       \/ /\ Runnable(s)'
          /\ (At("start") /\ s \in loop.todo) =>
                (At("start") /\ s \in loop.todo)' \/ ended' = "job_failed"
          /\ (At("head") /\ ~At("head")') => cancel \/ (At("start") /\ s \in loop.todo)']_vars

(* No runnable step is left when a job completes or is given up. *)
NobodyForgotten ==
  ended \in {"job_completed", "job_staled"} => \A s \in Steps : ~Runnable(s)

(* What the job thread has in its list, and why it joins. *)
Queued ==
  /\ At("deadlines") \/ At("stop") => loop.todo \subseteq In({"running"})
  /\ At("join") => /\ loop.step \in Steps /\ state[loop.step] = "running"
                   /\ loop.todo \subseteq In({"running"}) \ {loop.step}
                   /\ asked[loop.step] \in {"timeout", "job_cancel"}
                   /\ Joined => left[loop.step] = 0
  /\ ended = "job_completed" => In({"pending"}) = {}

LEMMA FinalizeQueued ==
  ASSUME Inv, Queued, NEW s \in Steps, FinalizeAtDeadline(s) \/ FinalizeStopped(s)
  PROVE  Queued'
<1>1. PICK why \in {"timeout", "job_cancel"} :
        Finalize(s, why) /\ s \in loop.todo /\ (why = "timeout" => left[s] = 0)
        /\ (At("deadlines") \/ At("stop"))
  BY DEF FinalizeAtDeadline, FinalizeStopped, DeadlineReached
<1>2. /\ loop'.pc = "join" /\ loop'.step = s /\ loop'.todo = loop.todo \ {s}
      /\ asked'[s] = why /\ UNCHANGED << state, left, ended >>
  BY <1>1 DEF Finalize, Inv, TypeOK
<1>3. state[s] = "running" /\ loop.todo \subseteq In({"running"})
  BY <1>1 DEF Queued, In
<1>4. ended = None /\ None # "job_completed"
  BY <1>1, StepsAssumption DEF Inv, At, Events, StepsAssumption
<1>. QED
  BY <1>1, <1>2, <1>3, <1>4 DEF Queued, At, In, Joined

LEMMA QueuedKept == ASSUME Inv, Queued, [Next]_vars PROVE Queued'
<1>0. None \notin Events /\ (ended # None => At("over"))
  BY StepsAssumption DEF StepsAssumption, Inv
<1>1. CASE UNCHANGED << loop, state, asked, left, ended >>
  BY <1>1 DEF Queued, At, In, Joined
<1>2. CASE Tick
  <2>1. \A s \in Steps : left[s] = 0 => left'[s] = 0
    BY <1>2 DEF Tick, Inv, TypeOK
  <2>. QED
    BY <1>2, <2>1 DEF Tick, Queued, At, In, Joined
<1>3. CASE NextIteration \/ LastStarted
  BY <1>0, <1>3 DEF NextIteration, LastStarted, Goto, Queued, At, In, Joined, Events
<1>4. ASSUME NEW s \in Steps, PassStep(s) \/ PassRunning(s) PROVE Queued'
  BY <1>0, <1>4 DEF PassStep, PassRunning, Pass, Queued, At, In, Joined, Inv, TypeOK, Events
<1>5. ASSUME NEW s \in Steps, StartStep(s) PROVE Queued'
  <2>1. loop'.pc = "start" /\ ended' = ended /\ ended # "job_completed"
    BY <1>0, <1>5 DEF StartStep, Pass, Inv, TypeOK, At, Events
  <2>. QED
    BY <2>1 DEF Queued, At
<1>6. ASSUME NEW s \in Steps, StartThrows(s) PROVE Queued'
  BY <1>6 DEF StartThrows, End, Goto, Queued, At
<1>7. ASSUME NEW s \in Steps, FinalizeAtDeadline(s) \/ FinalizeStopped(s) PROVE Queued'
  BY <1>7, FinalizeQueued
<1>8. CASE JoinWorkers
  <2>1. PICK pc \in {"deadlines", "stop"} : Goto(pc, loop.todo)
    BY <1>8 DEF JoinWorkers
  <2>2. loop'.pc = pc /\ loop'.todo = loop.todo /\ ended' = ended /\ ended # "job_completed"
    BY <1>0, <1>8, <2>1 DEF JoinWorkers, Goto, At, Events
  <2>3. \A s \in loop.todo : state'[s] = "running" /\ s \in Steps
    BY <1>8 DEF JoinWorkers, Queued, At, In, Inv, TypeOK
  <2>. QED
    BY <2>2, <2>3 DEF Queued, At, In
<1>9. CASE Decide \/ FindRunnable \/ FindFuture \/ LastStopped
  <2>1. CASE Decide
    BY <1>0, <2>1 DEF Decide, Goto, End, Queued, At, In, Events
  <2>2. CASE FindRunnable \/ FindFuture \/ LastStopped
    BY <1>0, <2>2 DEF FindRunnable, FindFuture, LastStopped, Goto, End, Queued, At, Events
  <2>. QED
    BY <1>9, <2>1, <2>2
<1>. QED
  BY <1>1, <1>2, <1>3, <1>4, <1>5, <1>6, <1>7, <1>8, <1>9
  DEF Next, JobThread, WorkerEnds, EndCapture, BeginDrain, GiveUp, EndDrain, Infer, WorkerFails,
      Cancel, Move, vars

LEMMA QueueInvariant == Spec => [](Inv /\ Queued)
<1>1. ASSUME Init PROVE Queued
  <2>1. loop.pc = "head" /\ ended = None /\ None # "job_completed"
    BY <1>1, StepsAssumption DEF Init, StepsAssumption, Events
  <2>. QED
    BY <2>1 DEF Queued, At
<1>2. Inv /\ Queued /\ [Next]_vars => Queued'
  BY QueuedKept
<1>. QED
  BY <1>1, <1>2, Invariant, PTL DEF Spec

(* finalizeStep never waits for a worker that waits for it: who is joined  *)
(* at its deadline has reached it, and what a worker that waits is asked   *)
(* for lets it drain or leave.                                             *)
THEOREM JoinsComeBack == Spec => []JoinNeverStuck
<1>1. Inv /\ Queued => JoinNeverStuck
  <2>. SUFFICES ASSUME Queued, At("join"), NEW c \in Live(loop.step)
                PROVE  CanEnd(loop.step, c)
    BY DEF JoinNeverStuck
  <2>1. asked[loop.step] \in {"timeout", "job_cancel"} /\ (Joined => left[loop.step] = 0)
    BY DEF Queued
  <2>2. worker[loop.step][c] \in {"capture", "wait", "drain"}
    BY DEF Live
  <2>. QED
    BY <2>1, <2>2 DEF CanEnd, Cancelled, DeadlineReached, Joined
<1>. QED
  BY <1>1, QueueInvariant, PTL

(* A job that completes, or is given up as stalled, leaves no step behind  *)
(* whose predecessor is over or that was triggered.                        *)
THEOREM NoneForgotten == Spec => []NobodyForgotten
<1>1. Inv /\ Queued => NobodyForgotten
  BY DEF Inv, Queued, Verdict, NobodyForgotten, Runnable, In
<1>. QED
  BY <1>1, QueueInvariant, PTL

(* The list of the job thread loses a step it had. *)
LEMMA OneLess ==
  ASSUME TypeOK, IsFiniteSet(Steps), NEW s \in loop.todo
  PROVE  /\ Cardinality(loop.todo) \in Nat
         /\ Cardinality(loop.todo \ {s}) = Cardinality(loop.todo) - 1
<1>1. loop.todo \subseteq Steps
  BY DEF TypeOK
<1>2. IsFiniteSet(loop.todo)
  BY <1>1, FS_Subset
<1>. QED
  BY <1>2, FS_CardinalityType, FS_RemoveElement

LEMMA StopStep ==
  ASSUME Inv, Queued, IsFiniteSet(Steps), [Next]_vars, cancel, ended = None
  PROVE  loop' = loop \/ Stage' < Stage \/ (Stage' = Stage /\ StepsToScan' < StepsToScan)
<1>0. TypeOK
  BY DEF Inv
<1>1. ASSUME NEW s \in Steps, PassStep(s) \/ StartStep(s) \/ PassRunning(s)
      PROVE  Stage' = Stage /\ StepsToScan' < StepsToScan
  <2>1. /\ s \in loop.todo /\ loop' = [loop EXCEPT !.todo = @ \ {s}]
        /\ At("start") \/ At("deadlines")
    BY <1>1 DEF PassStep, StartStep, PassRunning, Pass
  <2>2. loop'.pc = loop.pc /\ loop'.todo = loop.todo \ {s}
    BY <1>0, <2>1 DEF TypeOK
  <2>3. Stage' = Stage
    BY <2>1, <2>2 DEF Stage, At
  <2>4. /\ StepsToScan = 2 * Cardinality(loop.todo) + 0
        /\ StepsToScan' = 2 * Cardinality(loop.todo \ {s}) + 0
    BY <2>1, <2>2 DEF StepsToScan, At
  <2>. QED
    BY <1>0, <2>1, <2>3, <2>4, OneLess
<1>2. ASSUME NEW s \in Steps, FinalizeAtDeadline(s) \/ FinalizeStopped(s)
      PROVE  Stage' = Stage /\ StepsToScan' < StepsToScan
  <2>1. /\ s \in loop.todo /\ loop' = [pc |-> "join", todo |-> loop.todo \ {s}, step |-> s]
        /\ \/ At("deadlines") /\ asked'[s] = "timeout"
           \/ At("stop") /\ asked'[s] = "job_cancel"
    BY <1>0, <1>2 DEF FinalizeAtDeadline, FinalizeStopped, Finalize, TypeOK
  <2>2. loop'.pc = "join" /\ loop'.todo = loop.todo \ {s} /\ loop'.step = s
    BY <2>1
  <2>3. Stage' = Stage
    BY <2>1, <2>2 DEF Stage, At, Joined
  <2>4. /\ StepsToScan = 2 * Cardinality(loop.todo) + 0
        /\ StepsToScan' = 2 * Cardinality(loop.todo \ {s}) + 1
    BY <2>1, <2>2 DEF StepsToScan, At
  <2>. QED
    BY <1>0, <2>1, <2>3, <2>4, OneLess
<1>3. CASE JoinWorkers
  <2>1. /\ At("join") /\ loop'.todo = loop.todo
        /\ loop'.pc = IF Joined THEN "deadlines" ELSE "stop"
    BY <1>3 DEF JoinWorkers, Goto, Joined
  <2>2. Stage' = Stage
    BY <2>1 DEF Stage, At, Joined
  <2>3. loop.todo \subseteq Steps
    BY <1>0 DEF TypeOK
  <2>4. Cardinality(loop.todo) \in Nat
    BY <2>3, FS_Subset, FS_CardinalityType
  <2>5. /\ StepsToScan = 2 * Cardinality(loop.todo) + 1
        /\ StepsToScan' = 2 * Cardinality(loop.todo) + 0
    BY <2>1 DEF StepsToScan, At
  <2>. QED
    BY <2>2, <2>4, <2>5
<1>4. CASE NextIteration
  <2>1. At("head") /\ loop'.pc = "stop"
    BY <1>4 DEF NextIteration, Goto
  <2>2. Stage = 2 /\ Stage' = 1
    BY <2>1 DEF Stage, At
  <2>. QED
    BY <2>2
<1>5. CASE LastStarted
  <2>1. At("start") /\ loop'.pc = "deadlines"
    BY <1>5 DEF LastStarted, Goto
  <2>2. Stage = 6 /\ Stage' = 5
    BY <2>1 DEF Stage, At
  <2>. QED
    BY <2>2
<1>6. CASE Decide \/ FindRunnable \/ FindFuture \/ LastStopped \/ \E s \in Steps : StartThrows(s)
  <2>1. \/ At("start") /\ loop'.pc = "over"
        \/ At("deadlines") /\ loop'.pc \in {"head", "runnable", "over"}
        \/ At("runnable") /\ loop'.pc \in {"head", "future"}
        \/ At("future") /\ loop'.pc \in {"head", "over"}
        \/ At("stop") /\ loop'.pc = "over"
    <3>1. CASE Decide
      BY <3>1 DEF Decide, Goto, End
    <3>2. CASE FindRunnable
      BY <3>2 DEF FindRunnable, Goto
    <3>3. CASE FindFuture
      BY <3>3 DEF FindFuture, Goto, End
    <3>4. CASE LastStopped
      BY <3>4 DEF LastStopped, Goto, End
    <3>5. CASE \E s \in Steps : StartThrows(s)
      <4>1. At("start") /\ End("job_failed")
        BY <3>5 DEF StartThrows
      <4>. QED
        BY <4>1 DEF Goto, End
    <3>. QED
      BY <1>6, <3>1, <3>2, <3>3, <3>4, <3>5
  <2>2. /\ At("start") => Stage = 6
        /\ At("deadlines") => Stage = 5
        /\ At("runnable") => Stage = 4
        /\ At("future") => Stage = 3
        /\ At("stop") => Stage = 1
    BY DEF Stage, At
  <2>3. /\ loop'.pc = "runnable" => Stage' = 4
        /\ loop'.pc = "future" => Stage' = 3
        /\ loop'.pc = "head" => Stage' = 2
        /\ loop'.pc = "over" => Stage' = 0
    BY DEF Stage, At
  <2>. QED
    BY <2>1, <2>2, <2>3
<1>7. CASE UNCHANGED loop
  BY <1>7
<1>. QED
  BY <1>1, <1>2, <1>3, <1>4, <1>5, <1>6, <1>7
  DEF Next, JobThread, Tick, Cancel, WorkerEnds, EndCapture, BeginDrain, GiveUp, EndDrain, Infer,
      WorkerFails, Move, vars

(* A stopped job never begins another iteration, whatever its steps are at:*)
(* its thread comes nearer to its end with every move.                     *)
THEOREM StopComesNearer == ASSUME IsFiniteSet(Steps) PROVE Spec => StopAdvances
<1>1. Inv /\ Queued /\ [Next]_vars =>
        [(cancel /\ ended = None) =>
           loop' = loop \/ Stage' < Stage \/ (Stage' = Stage /\ StepsToScan' < StepsToScan)]_vars
  BY StopStep
<1>. QED
  BY <1>1, QueueInvariant, PTL DEF Spec, StopAdvances

(* A step goes from pending to running or skipped, from running to         *)
(* completed, and nowhere else; triggers are only added.                   *)
LEMMA StateMoves ==
  ASSUME Inv, Queued, [Next]_vars
  PROVE  /\ UNCHANGED plan /\ triggered \subseteq triggered'
         /\ \A s \in Steps : \/ state'[s] = state[s]
                             \/ state[s] = "pending" /\ state'[s] \in {"running", "skipped"}
                             \/ state[s] = "running" /\ state'[s] = "completed"
<1>0. TypeOK
  BY DEF Inv
<1>1. CASE UNCHANGED << plan, triggered, state >>
  BY <1>1
<1>2. ASSUME NEW s \in Steps, StartStep(s) \/ StartThrows(s)
      PROVE  /\ UNCHANGED << plan, triggered >>
             /\ \A d \in Steps : \/ state'[d] = state[d]
                                 \/ state[d] = "pending" /\ state'[d] \in {"running", "skipped"}
  <2>1. state[s] = "pending"
    BY <1>2 DEF StartStep, StartThrows, Inv, Scans, In
  <2>2. UNCHANGED << plan, triggered >> /\ \E st \in {"running", "skipped"} :
          state' = [state EXCEPT ![s] = st]
    BY <1>2 DEF StartStep, StartThrows, Spawn, signals
  <2>. QED
    BY <1>0, <2>1, <2>2 DEF TypeOK
<1>3. CASE JoinWorkers
  <2>1. state' = [state EXCEPT ![loop.step] = "completed"] /\ UNCHANGED << plan, triggered >>
    BY <1>3 DEF JoinWorkers, signals
  <2>2. state[loop.step] = "running"
    BY <1>3 DEF JoinWorkers, Queued
  <2>. QED
    BY <1>0, <2>1, <2>2 DEF TypeOK
<1>4. ASSUME NEW s \in Steps, NEW c \in Cameras, Infer(s, c)
      PROVE  UNCHANGED << plan, state >> /\ triggered \subseteq triggered'
  BY <1>4 DEF Infer
<1>5. CASE \/ NextIteration \/ LastStarted \/ Decide \/ FindRunnable \/ FindFuture \/ LastStopped
           \/ Tick \/ Cancel \/ UNCHANGED vars
  BY <1>1, <1>5 DEF NextIteration, LastStarted, Decide, FindRunnable, FindFuture, LastStopped,
                    Tick, Cancel, vars, signals, plan
<1>6. ASSUME NEW s \in Steps, \/ PassStep(s) \/ PassRunning(s)
                              \/ FinalizeAtDeadline(s) \/ FinalizeStopped(s)
      PROVE  UNCHANGED << plan, triggered, state >>
  BY <1>6 DEF PassStep, PassRunning, FinalizeAtDeadline, FinalizeStopped, Finalize, signals
<1>7. ASSUME NEW s \in Steps, NEW c \in Cameras, WorkerEnds(s, c) \/ WorkerFails(s, c)
      PROVE  UNCHANGED << plan, triggered, state >>
  BY <1>7 DEF WorkerEnds, EndCapture, BeginDrain, GiveUp, EndDrain, WorkerFails, Move, signals
<1>. QED
  BY <1>1, <1>2, <1>3, <1>4, <1>5, <1>6, <1>7 DEF Next, JobThread

LEMMA RunnableStays ==
  ASSUME Inv, Queued, [Next]_vars, NEW s \in Steps, Runnable(s), state'[s] = "pending"
  PROVE  Runnable(s)'
<1>1. UNCHANGED << def, cams >> /\ triggered \subseteq triggered'
  BY StateMoves DEF plan
<1>2. CASE ~Depends(s)
  BY <1>1, <1>2 DEF Runnable, Satisfied, Depends
<1>3. CASE Depends(s)
  <2>1. def[s].from \in Steps
    BY <1>3, Depended DEF Inv
  <2>2. /\ state[def[s].from] = "absent" <=> state'[def[s].from] = "absent"
        /\ state[def[s].from] \in {"completed", "skipped"} =>
             state'[def[s].from] = state[def[s].from]
    BY <2>1, StateMoves
  <2>3. /\ def[s].mode \in {"sequential", "custom"} /\ Depends(s)'
        /\ Missing(s) <=> Missing(s)'
        /\ s \in triggered => s \in triggered'
    BY <1>1, <1>3, <2>2 DEF Runnable, Depends, Missing
  <2>4. \/ Missing(s) /\ def[s].missing = "skip"
        \/ /\ ~Missing(s)
           /\ \/ def[s].mode = "sequential" /\ state[def[s].from] = "completed"
              \/ /\ def[s].mode = "sequential" /\ state[def[s].from] = "skipped"
                 /\ def[s].missing = "skip"
              \/ def[s].mode = "custom" /\ s \in triggered
    BY <1>3, <2>3 DEF Runnable, Satisfied, Answers
  <2>5. Satisfied(s)'
    BY <1>1, <2>2, <2>3, <2>4 DEF Satisfied
  <2>. QED
    BY <1>1, <2>3, <2>5 DEF Runnable
<1>. QED
  BY <1>2, <1>3

LEMMA RunnableStep ==
  ASSUME Inv, Queued, [Next]_vars, NEW s \in Steps, Runnable(s), state'[s] = "pending"
  PROVE  /\ (At("start") /\ s \in loop.todo) =>
              (At("start") /\ s \in loop.todo)' \/ ended' = "job_failed"
         /\ (At("head") /\ ~At("head")') => cancel \/ (At("start") /\ s \in loop.todo)'
<1>0. TypeOK /\ Satisfied(s) /\ s \in In({"pending"})
  BY DEF Inv, Runnable, In
<1>1. CASE UNCHANGED loop
  BY <1>1 DEF At
<1>2. CASE NextIteration
  BY <1>0, <1>2 DEF NextIteration, Goto, At
<1>3. ASSUME NEW d \in Steps, PassStep(d) \/ StartStep(d)
      PROVE  /\ At("start") /\ At("start")'
             /\ s \in loop.todo => s \in loop'.todo
  <2>1. CASE d = s
    <3>1. ~PassStep(d)
      BY <1>0, <2>1 DEF PassStep
    <3>2. ~StartStep(d)
      BY <1>0, <2>1 DEF StartStep, Spawn, TypeOK, Runnable
    <3>. QED
      BY <1>3, <3>1, <3>2
  <2>2. CASE d # s
    BY <1>0, <1>3, <2>2 DEF PassStep, StartStep, Pass, TypeOK, At
  <2>. QED
    BY <2>1, <2>2
<1>4. CASE LastStarted
  BY <1>4 DEF LastStarted, At
<1>5. ASSUME NEW d \in Steps, StartThrows(d) PROVE At("start") /\ ended' = "job_failed"
  BY <1>5 DEF StartThrows, End
<1>6. CASE \/ JoinWorkers \/ Decide \/ FindRunnable \/ FindFuture \/ LastStopped
           \/ \E d \in Steps : PassRunning(d) \/ FinalizeAtDeadline(d) \/ FinalizeStopped(d)
  BY <1>6 DEF JoinWorkers, Decide, FindRunnable, FindFuture, LastStopped, PassRunning,
     FinalizeAtDeadline, FinalizeStopped, At
<1>. QED
  BY <1>1, <1>2, <1>3, <1>4, <1>5, <1>6
  DEF Next, JobThread, Tick, Cancel, WorkerEnds, EndCapture, BeginDrain, GiveUp, EndDrain, Infer,
      WorkerFails, Move, At, vars

(* The next iteration starts or refuses every step that has become         *)
(* runnable by the end of another or by a trigger, unless the job is       *)
(* stopped or an exception ends it.                                        *)
THEOREM RunnableIsTaken == Spec => RunnableTaken
<1>. DEFINE Taken == \A s \in Steps : Runnable(s) =>
       \/ state'[s] # "pending"
       \/ /\ Runnable(s)'
          /\ (At("start") /\ s \in loop.todo) =>
                (At("start") /\ s \in loop.todo)' \/ ended' = "job_failed"
          /\ (At("head") /\ ~At("head")') => cancel \/ (At("start") /\ s \in loop.todo)'
<1>1. Inv /\ Queued /\ [Next]_vars => [Taken]_vars
  BY RunnableStays, RunnableStep
<1>. QED
  BY <1>1, QueueInvariant, PTL DEF Spec, RunnableTaken
=============================================================================
