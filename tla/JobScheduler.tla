---------------------------- MODULE JobScheduler ----------------------------
(***************************************************************************)
(* runJobSchedulerTick for one scheduled job: the cron lock, the slots a   *)
(* tick looks back over, the keys that make each window boundary fire      *)
(* once, and the runtime row the boundaries read and write.                *)
(*                                                                         *)
(* Ticks are HTTP requests of the desktop agent, one per second; the lock  *)
(* expires by time and is neither renewed nor released, so ticks overlap.  *)
(* Every SQL statement is one action.  Times are seconds since Init, all   *)
(* on one local date.                                                      *)
(***************************************************************************)
EXTENDS Naturals, FiniteSets

CONSTANTS
  Ticks,          \* ticks the backend can have in progress
  Windows,        \* enabled windows of the schedule day
  StartTime,      \* window -> first second its start boundary matches
  EndTime,        \* window -> first second its end boundary matches
  Width,          \* seconds a boundary matches: 1 for HH:MM:SS, 60 for HH:MM
  Lookback,       \* slotLookbackSeconds
  LockDuration,   \* lockDurationMs, in whole seconds
  MaxTickGap,     \* the agent's calls are at most this many seconds apart
  MaxDelay,       \* seconds between taking the lock and computing the slots
  MaxTime,        \* bound on the clock
  MaxFaults,      \* bound on failed plans and crashed ticks
  None            \* no boundary

Boundaries == [slot : 0..MaxTime, kind : {"start", "stop"}, window : Windows]

ASSUME SchedulerAssumption ==
  /\ StartTime \in [Windows -> Nat] /\ EndTime \in [Windows -> Nat]
  /\ Width \in Nat \ {0} /\ MaxTickGap \in Nat \ {0}
  /\ Lookback \in Nat /\ LockDuration \in Nat /\ MaxDelay \in Nat
  /\ MaxTime \in Nat /\ MaxFaults \in Nat
  /\ None \notin Boundaries

VARIABLES
  now,            \* wall clock
  lastTick,       \* second of the last call of the agent
  lockedUntil,    \* cron_locks.locked_until_utc of the lock "job_scheduler"
  tick,           \* tick -> its locals
  fires,          \* windows with a row in job_schedule_fires
  stops,          \* windows with a row in job_schedule_stops
  runtime,        \* job_runtime_states.status, "none" without a row
  launched,       \* window -> job_start plans executed for it
  stopsSent,      \* window -> job_stop plans executed for it
  pendingStops,   \* job_stop commands the agent has not taken
  examined,       \* slots some tick has taken up
  faults

vars == << now, lastTick, lockedUntil, tick, fires, stops, runtime, launched,
           stopsSent, pendingStops, examined, faults >>

Runtimes == {"none", "running", "stopping", "stopped", "completed", "failed"}

(* work: the boundaries the tick has still to deal with, item: the one it  *)
(* is dealing with, once it has got past the first statement of it.        *)
FreeTick == [pc |-> "free", at |-> 0, hasKey |-> TRUE, work |-> {}, item |-> None]

Init ==
  /\ now = 0
  /\ lastTick = 0
  /\ lockedUntil = 0
  /\ tick = [k \in Ticks |-> FreeTick]
  /\ fires = {}
  /\ stops = {}
  /\ runtime = "none"
  /\ launched = [w \in Windows |-> 0]
  /\ stopsSent = [w \in Windows |-> 0]
  /\ pendingStops = 0
  /\ examined = {}
  /\ faults = 0

Fault == faults < MaxFaults /\ faults' = faults + 1

(* doesBoundaryMatchLocalTime: a boundary without seconds matches its      *)
(* whole minute.                                                           *)
Matches(b) ==
  LET first == IF b.kind = "start" THEN StartTime[b.window] ELSE EndTime[b.window]
  IN b.slot \in first .. (first + Width - 1)

(* Slots are worked off in the order of time, the start windows of a slot  *)
(* before its end windows.                                                 *)
Front(S) ==
  {b \in S : \A c \in S :
     \/ b.slot < c.slot
     \/ b.slot = c.slot /\ (b.kind = "start" \/ c.kind = "stop")}

(* Tick k is done with boundary b. *)
Done(k, b) ==
  tick' = [tick EXCEPT ![k] =
    IF tick[k].work \subseteq {b} THEN FreeTick
    ELSE [tick[k] EXCEPT !.pc = "work", !.work = @ \ {b}, !.item = None]]

Goto(k, pc) == tick' = [tick EXCEPT ![k].pc = pc]

Take(k, b, pc) == tick' = [tick EXCEPT ![k].pc = pc, ![k].item = b]

-----------------------------------------------------------------------------
(* The lock and the slots. *)

restOfLock == << now, fires, stops, runtime, launched, stopsSent,
                 pendingStops, faults >>

(* A call of the agent: acquireCronLock reads the row, and the tick is     *)
(* skipped while the lock is in the future.                                *)
TickArrive(k) ==
  /\ tick[k].pc = "free"
  /\ lastTick < now
  /\ lastTick' = now
  /\ tick' = IF lockedUntil > now THEN tick
             ELSE [tick EXCEPT ![k] = [FreeTick EXCEPT !.pc = "lock", !.at = now]]
  /\ UNCHANGED << lockedUntil, examined, restOfLock >>

(* The row is written in a second statement, without looking at it again. *)
TickTakeLock(k) ==
  /\ tick[k].pc = "lock"
  /\ lockedUntil' = tick[k].at + LockDuration
  /\ Goto(k, "slots")
  /\ UNCHANGED << lastTick, examined, restOfLock >>

(* Mutants of Slots: one second too few, and the sign of the offset. *)
SlotsShort == {s \in 0..now : now < s + Lookback}
SlotsAhead == now..(now + Lookback)

(* buildSchedulerTickSlots: the seconds now - Lookback .. now. *)
Slots == {s \in 0..now : now <= s + Lookback}

(* The slots of the job are computed, its API keys have been looked up;    *)
(* slots that no boundary matches leave no trace.                          *)
TickSlots(k) ==
  /\ tick[k].pc = "slots"
  /\ examined' = examined \cup Slots
  /\ LET matching == {b \in [slot : Slots, kind : {"start", "stop"}, window : Windows] :
                        Matches(b)}
     IN \E hasKey \in BOOLEAN :
          tick' = [tick EXCEPT ![k] =
            IF matching = {} THEN FreeTick
            ELSE [FreeTick EXCEPT !.pc = "work", !.hasKey = hasKey, !.work = matching]]
  /\ UNCHANGED << lastTick, lockedUntil, restOfLock >>

-----------------------------------------------------------------------------
(* A start boundary. *)

restOfStart == << now, lastTick, lockedUntil, stops, stopsSent, pendingStops,
                  examined >>

(* A job seen running or stopping is left alone; without an API key the    *)
(* start is blocked.  Neither takes the fire key.                          *)
StartCheck(k) ==
  /\ tick[k].pc = "work"
  /\ \E b \in Front(tick[k].work) :
       /\ b.kind = "start"
       /\ IF runtime \in {"running", "stopping"} \/ ~tick[k].hasKey
          THEN Done(k, b) ELSE Take(k, b, "fire")
  /\ UNCHANGED << fires, launched, runtime, faults, restOfStart >>

(* Mutant of Fired: ON CONFLICT DO UPDATE, which changes a row each time. *)
FiredNever(w) == FALSE

Fired(w) == w \in fires

(* INSERT INTO job_schedule_fires ... ON CONFLICT DO NOTHING: the tick that *)
(* changes a row goes on, every other one is done with the boundary.       *)
StartFire(k) ==
  /\ tick[k].pc = "fire"
  /\ LET b == tick[k].item IN
       /\ fires' = fires \cup {b.window}
       /\ IF Fired(b.window) THEN Done(k, b) ELSE Goto(k, "launch")
  /\ UNCHANGED << launched, runtime, faults, restOfStart >>

(* executeJobStartPlan succeeds: the job_start command is in the table. *)
StartLaunch(k) ==
  /\ tick[k].pc = "launch"
  /\ launched' = [launched EXCEPT ![tick[k].item.window] = @ + 1]
  /\ Goto(k, "mark")
  /\ UNCHANGED << fires, runtime, faults, restOfStart >>

(* The plan or the upsert after it throws; the fire key stays taken. *)
StartFails(k) ==
  /\ tick[k].pc \in {"launch", "mark"}
  /\ Fault
  /\ Done(k, tick[k].item)
  /\ UNCHANGED << fires, launched, runtime, restOfStart >>

(* The runtime row is upserted as 'running'. *)
StartMark(k) ==
  /\ tick[k].pc = "mark"
  /\ runtime' = "running"
  /\ Done(k, tick[k].item)
  /\ UNCHANGED << fires, launched, faults, restOfStart >>

-----------------------------------------------------------------------------
(* An end boundary. *)

restOfStop == << now, lastTick, lockedUntil, fires, launched, examined >>

(* The stop key is taken before anything else is looked at. *)
StopFire(k) ==
  /\ tick[k].pc = "work"
  /\ \E b \in Front(tick[k].work) :
       /\ b.kind = "stop"
       /\ stops' = stops \cup {b.window}
       /\ IF b.window \in stops THEN Done(k, b) ELSE Take(k, b, "stopCheck")
  /\ UNCHANGED << runtime, stopsSent, pendingStops, faults, restOfStop >>

(* A job that is neither running nor stopping is not stopped. *)
StopCheck(k) ==
  /\ tick[k].pc = "stopCheck"
  /\ IF runtime \in {"running", "stopping"}
     THEN Goto(k, "stopPlan") ELSE Done(k, tick[k].item)
  /\ UNCHANGED << stops, runtime, stopsSent, pendingStops, faults, restOfStop >>

(* executeJobStopPlan inserts the job_stop command. *)
StopPlan(k) ==
  /\ tick[k].pc = "stopPlan"
  /\ stopsSent' = [stopsSent EXCEPT ![tick[k].item.window] = @ + 1]
  /\ pendingStops' = pendingStops + 1
  /\ Goto(k, "stopMark")
  /\ UNCHANGED << stops, runtime, faults, restOfStop >>

(* The runtime row is upserted as 'stopping'. *)
StopMark(k) ==
  /\ tick[k].pc = "stopMark"
  /\ runtime' = "stopping"
  /\ Done(k, tick[k].item)
  /\ UNCHANGED << stops, stopsSent, pendingStops, faults, restOfStop >>

(* A statement of the stop throws; the stop key stays taken. *)
StopFails(k) ==
  /\ tick[k].pc \in {"stopCheck", "stopPlan", "stopMark"}
  /\ Fault
  /\ Done(k, tick[k].item)
  /\ UNCHANGED << stops, runtime, stopsSent, pendingStops, restOfStop >>

TickStep(k) ==
  \/ TickTakeLock(k) \/ TickSlots(k)
  \/ StartCheck(k) \/ StartFire(k) \/ StartLaunch(k) \/ StartMark(k)
  \/ StopFire(k) \/ StopCheck(k) \/ StopPlan(k) \/ StopMark(k)

-----------------------------------------------------------------------------
(* Around the ticks. *)

restOfEnv == << lockedUntil, fires, stops, launched, stopsSent, examined >>

(* The backend restarts in the middle of a tick. *)
TickCrash(k) ==
  /\ tick[k].pc # "free"
  /\ Fault
  /\ tick' = [tick EXCEPT ![k] = FreeTick]
  /\ UNCHANGED << now, lastTick, runtime, pendingStops, restOfEnv >>

(* The poll of the agent takes a job_stop and writes 'stopped'. *)
AgentTakesStop ==
  /\ pendingStops > 0
  /\ pendingStops' = pendingStops - 1
  /\ runtime' = "stopped"
  /\ UNCHANGED << now, lastTick, tick, faults, restOfEnv >>

(* The last result of a run ends the job. *)
JobEnds ==
  /\ runtime = "running"
  /\ runtime' \in {"completed", "failed"}
  /\ UNCHANGED << now, lastTick, tick, pendingStops, faults, restOfEnv >>

(* Time passes.  The agent's loop misses at most the seconds its last call *)
(* lasted, and a tick with the lock computes its slots within MaxDelay.    *)
ClockAdvances ==
  /\ now < MaxTime
  /\ now + 1 <= lastTick + MaxTickGap
  /\ \A k \in Ticks : tick[k].pc \in {"lock", "slots"} => now < tick[k].at + MaxDelay
  /\ now' = now + 1
  /\ UNCHANGED << lastTick, tick, runtime, pendingStops, faults, restOfEnv >>

Next ==
  \/ \E k \in Ticks : \/ TickArrive(k) \/ TickStep(k) \/ TickCrash(k)
                      \/ StartFails(k) \/ StopFails(k)
  \/ AgentTakesStop \/ JobEnds \/ ClockAdvances

Spec == Init /\ [][Next]_vars

-----------------------------------------------------------------------------
(* Properties. *)

Positions == {"free", "lock", "slots", "work", "fire", "launch", "mark",
              "stopCheck", "stopPlan", "stopMark"}

TickRecords == [pc : Positions, at : Nat, hasKey : BOOLEAN,
                work : SUBSET Boundaries, item : Boundaries \cup {None}]

(* Every variable has its type; the slots of a tick and the seconds it has *)
(* examined are never ahead of the clock's range.                          *)
TypeOK ==
  /\ now \in 0..MaxTime /\ lastTick \in 0..now /\ lockedUntil \in Nat
  /\ tick \in [Ticks -> TickRecords]
  /\ fires \subseteq Windows /\ stops \subseteq Windows
  /\ runtime \in Runtimes
  /\ launched \in [Windows -> Nat] /\ stopsSent \in [Windows -> Nat]
  /\ pendingStops \in Nat
  /\ examined \subseteq 0..MaxTime
  /\ faults \in 0..MaxFaults

(* However ticks overlap, crash and look back over the same seconds, a     *)
(* window starts the job once at most and stops it once at most.           *)
OncePerBoundary ==
  \A w \in Windows : launched[w] <= 1 /\ stopsSent[w] <= 1

(* No second is missed: unless a tick crashes, a start boundary old enough *)
(* has been looked at by a tick, although ticks are skipped by the lock    *)
(* and by slow calls.                                                      *)
NoBoundaryMissed ==
  faults = 0 =>
    \A w \in Windows :
      now > StartTime[w] + LockDuration + MaxTickGap + MaxDelay
        => StartTime[w] \in examined

-----------------------------------------------------------------------------
(* Two statements the code does not keep: TLC refutes the first with the   *)
(* constants of JobScheduler.cfg, the second with fewer (README, section 3).*)

(* At most one tick is past the lock. *)
TicksDoNotOverlap ==
  \A j, k \in Ticks :
    tick[j].pc \notin {"free", "lock"} /\ tick[k].pc \notin {"free", "lock"} => j = k

(* Once a window that launched the job has been ended and all ticks are    *)
(* over, its stop was sent or the job had ended anyway.                    *)
EndedWindowStops ==
  \A w \in Windows :
    /\ launched[w] > 0 /\ w \in stops
    /\ \A k \in Ticks : tick[k].pc = "free"
    => stopsSent[w] > 0 \/ runtime # "running"
=============================================================================
