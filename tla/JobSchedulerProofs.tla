------------------------ MODULE JobSchedulerProofs ------------------------
(***************************************************************************)
(* Proofs about JobScheduler, for any number of ticks and windows.         *)
(*                                                                         *)
(* OncePerBoundary is not inductive by itself: it holds because a tick     *)
(* that is about to launch the job for a window owns the fire key of that  *)
(* window, no other tick does, and the window was not launched before.     *)
(***************************************************************************)
EXTENDS JobScheduler, TLAPS

(* A tick in the middle of a boundary remembers which one. *)
ItemKnown ==
  \A k \in Ticks :
    tick[k].pc \in {"fire", "launch", "mark", "stopCheck", "stopPlan", "stopMark"}
      => tick[k].item \in Boundaries

Launching(k) == tick[k].pc = "launch"

StartInv ==
  /\ \A w \in Windows : launched[w] <= 1
  /\ \A w \in Windows : launched[w] > 0 => w \in fires
  /\ \A k \in Ticks : Launching(k) => /\ tick[k].item.window \in fires
                                      /\ launched[tick[k].item.window] = 0
  /\ \A j, k \in Ticks : /\ Launching(j) /\ Launching(k)
                         /\ tick[j].item.window = tick[k].item.window
                         => j = k

Stopping(k) == tick[k].pc \in {"stopCheck", "stopPlan"}

StopInv ==
  /\ \A w \in Windows : stopsSent[w] <= 1
  /\ \A w \in Windows : stopsSent[w] > 0 => w \in stops
  /\ \A k \in Ticks : Stopping(k) => /\ tick[k].item.window \in stops
                                     /\ stopsSent[tick[k].item.window] = 0
  /\ \A j, k \in Ticks : /\ Stopping(j) /\ Stopping(k)
                         /\ tick[j].item.window = tick[k].item.window
                         => j = k

Inv == TypeOK /\ ItemKnown /\ StartInv /\ StopInv

-----------------------------------------------------------------------------
(* How the helpers move a tick: the other ticks stay where they are. *)

LEMMA DoneMoves ==
  ASSUME TypeOK, NEW k \in Ticks, NEW b, Done(k, b)
  PROVE  /\ tick' \in [Ticks -> TickRecords]
         /\ tick'[k].pc \in {"free", "work"}
         /\ \A j \in Ticks \ {k} : tick'[j] = tick[j]
<1>1. FreeTick \in TickRecords /\ FreeTick.pc = "free"
  BY DEF FreeTick, TickRecords, Positions
<1>2. [tick[k] EXCEPT !.pc = "work", !.work = @ \ {b}, !.item = None] \in TickRecords
  BY DEF TypeOK, TickRecords, Positions
<1>3. [tick[k] EXCEPT !.pc = "work", !.work = @ \ {b}, !.item = None].pc = "work"
  BY DEF TypeOK, TickRecords
<1>. QED
  BY <1>1, <1>2, <1>3 DEF TypeOK, Done

LEMMA GotoMoves ==
  ASSUME TypeOK, NEW k \in Ticks, NEW pc \in Positions, Goto(k, pc)
  PROVE  /\ tick' \in [Ticks -> TickRecords]
         /\ tick'[k].pc = pc /\ tick'[k].item = tick[k].item
         /\ \A j \in Ticks \ {k} : tick'[j] = tick[j]
BY DEF TypeOK, Goto, TickRecords

LEMMA TakeMoves ==
  ASSUME TypeOK, NEW k \in Ticks, NEW b \in Boundaries, NEW pc \in Positions,
         Take(k, b, pc)
  PROVE  /\ tick' \in [Ticks -> TickRecords]
         /\ tick'[k].pc = pc /\ tick'[k].item = b
         /\ \A j \in Ticks \ {k} : tick'[j] = tick[j]
BY DEF TypeOK, Take, TickRecords

(* The next boundary of a tick is one of those it has to work off. *)
LEMMA FrontIsWork ==
  ASSUME TypeOK, NEW k \in Ticks, NEW b \in Front(tick[k].work)
  PROVE  b \in Boundaries
BY DEF TypeOK, TickRecords, Front

LEMMA ItemWindow ==
  ASSUME ItemKnown, NEW k \in Ticks,
         tick[k].pc \in {"fire", "launch", "mark", "stopCheck", "stopPlan", "stopMark"}
  PROVE  tick[k].item.window \in Windows
BY DEF ItemKnown, Boundaries

-----------------------------------------------------------------------------
(* Type correctness. *)

LEMMA TypeStep == TypeOK /\ ItemKnown /\ [Next]_vars => TypeOK'
<1>. SUFFICES ASSUME TypeOK, ItemKnown, [Next]_vars PROVE TypeOK'
  OBVIOUS
<1>. USE SchedulerAssumption
<1>1. ASSUME NEW k \in Ticks, TickArrive(k) PROVE TypeOK'
  <2>1. FreeTick \in TickRecords /\ now \in Nat
    BY DEF TypeOK, FreeTick, TickRecords, Positions
  <2>2. [FreeTick EXCEPT !.pc = "lock", !.at = now] \in TickRecords
    BY <2>1 DEF TickRecords, Positions
  <2>3. tick' \in [Ticks -> TickRecords]
    BY <1>1, <2>2 DEF TypeOK, TickArrive
  <2>. QED
    BY <1>1, <2>3 DEF TypeOK, TickArrive, restOfLock
<1>2. ASSUME NEW k \in Ticks, TickTakeLock(k) PROVE TypeOK'
  <2>1. tick' \in [Ticks -> TickRecords]
    BY <1>2, GotoMoves DEF TickTakeLock, Positions
  <2>2. tick[k].at + LockDuration \in Nat
    BY DEF TypeOK, TickRecords
  <2>. QED
    BY <1>2, <2>1, <2>2 DEF TypeOK, TickTakeLock, restOfLock
<1>3. ASSUME NEW k \in Ticks, TickSlots(k) PROVE TypeOK'
  <2>1. Slots \subseteq 0..MaxTime
    BY DEF TypeOK, Slots
  <2>2. FreeTick \in TickRecords
    BY DEF FreeTick, TickRecords, Positions
  <2>3. ASSUME NEW W \in SUBSET Boundaries, NEW hasKey \in BOOLEAN
        PROVE [FreeTick EXCEPT !.pc = "work", !.hasKey = hasKey, !.work = W]
                \in TickRecords
    BY <2>2 DEF FreeTick, TickRecords, Positions
  <2>4. {b \in [slot : Slots, kind : {"start", "stop"}, window : Windows] : Matches(b)}
          \in SUBSET Boundaries
    BY <2>1 DEF Boundaries
  <2>5. tick' \in [Ticks -> TickRecords]
    BY <1>3, <2>2, <2>3, <2>4 DEF TypeOK, TickSlots
  <2>. QED
    BY <1>3, <2>1, <2>5 DEF TypeOK, TickSlots, restOfLock
<1>4. ASSUME NEW k \in Ticks, StartCheck(k) PROVE TypeOK'
  <2>1. tick' \in [Ticks -> TickRecords]
    BY <1>4, DoneMoves, TakeMoves, FrontIsWork DEF StartCheck, Positions
  <2>. QED
    BY <1>4, <2>1 DEF TypeOK, StartCheck, restOfStart
<1>5. ASSUME NEW k \in Ticks, StartFire(k) PROVE TypeOK'
  <2>1. tick' \in [Ticks -> TickRecords]
    BY <1>5, DoneMoves, GotoMoves DEF StartFire, Positions
  <2>2. fires' \subseteq Windows
    BY <1>5 DEF StartFire, TypeOK, ItemKnown, Boundaries
  <2>. QED
    BY <1>5, <2>1, <2>2 DEF TypeOK, StartFire, restOfStart
<1>6. ASSUME NEW k \in Ticks, StartLaunch(k) PROVE TypeOK'
  <2>1. tick' \in [Ticks -> TickRecords]
    BY <1>6, GotoMoves DEF StartLaunch, Positions
  <2>2. launched' \in [Windows -> Nat]
    BY <1>6, ItemWindow DEF StartLaunch, TypeOK
  <2>. QED
    BY <1>6, <2>1, <2>2 DEF TypeOK, StartLaunch, restOfStart
<1>7. ASSUME NEW k \in Ticks, StartFails(k) PROVE TypeOK'
  <2>1. tick' \in [Ticks -> TickRecords]
    BY <1>7, DoneMoves DEF StartFails
  <2>. QED
    BY <1>7, <2>1 DEF TypeOK, StartFails, Fault, restOfStart
<1>8. ASSUME NEW k \in Ticks, StartMark(k) PROVE TypeOK'
  <2>1. tick' \in [Ticks -> TickRecords]
    BY <1>8, DoneMoves DEF StartMark
  <2>. QED
    BY <1>8, <2>1 DEF TypeOK, StartMark, Runtimes, restOfStart
<1>9. ASSUME NEW k \in Ticks, StopFire(k) PROVE TypeOK'
  <2>1. tick' \in [Ticks -> TickRecords]
    BY <1>9, DoneMoves, TakeMoves, FrontIsWork DEF StopFire, Positions
  <2>2. stops' \subseteq Windows
    BY <1>9, FrontIsWork DEF StopFire, TypeOK, Boundaries
  <2>. QED
    BY <1>9, <2>1, <2>2 DEF TypeOK, StopFire, restOfStop
<1>10. ASSUME NEW k \in Ticks, StopCheck(k) PROVE TypeOK'
  <2>1. tick' \in [Ticks -> TickRecords]
    BY <1>10, DoneMoves, GotoMoves DEF StopCheck, Positions
  <2>. QED
    BY <1>10, <2>1 DEF TypeOK, StopCheck, restOfStop
<1>11. ASSUME NEW k \in Ticks, StopPlan(k) PROVE TypeOK'
  <2>1. tick' \in [Ticks -> TickRecords]
    BY <1>11, GotoMoves DEF StopPlan, Positions
  <2>2. stopsSent' \in [Windows -> Nat]
    BY <1>11, ItemWindow DEF StopPlan, TypeOK
  <2>. QED
    BY <1>11, <2>1, <2>2 DEF TypeOK, StopPlan, restOfStop
<1>12. ASSUME NEW k \in Ticks, StopMark(k) PROVE TypeOK'
  <2>1. tick' \in [Ticks -> TickRecords]
    BY <1>12, DoneMoves DEF StopMark
  <2>. QED
    BY <1>12, <2>1 DEF TypeOK, StopMark, Runtimes, restOfStop
<1>13. ASSUME NEW k \in Ticks, StopFails(k) PROVE TypeOK'
  <2>1. tick' \in [Ticks -> TickRecords]
    BY <1>13, DoneMoves DEF StopFails
  <2>. QED
    BY <1>13, <2>1 DEF TypeOK, StopFails, Fault, restOfStop
<1>14. ASSUME NEW k \in Ticks, TickCrash(k) PROVE TypeOK'
  <2>1. FreeTick \in TickRecords
    BY DEF FreeTick, TickRecords, Positions
  <2>. QED
    BY <1>14, <2>1 DEF TypeOK, TickCrash, Fault, restOfEnv
<1>15. CASE AgentTakesStop
  BY <1>15 DEF TypeOK, AgentTakesStop, Runtimes, restOfEnv
<1>16. CASE JobEnds
  BY <1>16 DEF TypeOK, JobEnds, Runtimes, restOfEnv
<1>17. CASE ClockAdvances
  BY <1>17 DEF TypeOK, ClockAdvances, restOfEnv
<1>18. CASE UNCHANGED vars
  BY <1>18 DEF TypeOK, vars
<1>. QED
  BY <1>1, <1>2, <1>3, <1>4, <1>5, <1>6, <1>7, <1>8, <1>9, <1>10, <1>11, <1>12,
     <1>13, <1>14, <1>15, <1>16, <1>17, <1>18 DEF Next, TickStep

-----------------------------------------------------------------------------
(* The inductive invariant. *)

(* A step of tick k that leaves it between two boundaries and touches      *)
(* neither keys nor counts.                                                *)
LEMMA QuietStep ==
  ASSUME ItemKnown, StartInv, StopInv, NEW k \in Ticks,
         tick'[k].pc \in {"free", "lock", "slots", "work"},
         \A j \in Ticks \ {k} : tick'[j] = tick[j],
         UNCHANGED << fires, stops, launched, stopsSent >>
  PROVE  ItemKnown' /\ StartInv' /\ StopInv'
BY DEF ItemKnown, StartInv, StopInv, Launching, Stopping

(* A step that moves no tick and touches neither keys nor counts. *)
LEMMA EnvironmentStep ==
  ASSUME ItemKnown, StartInv, StopInv,
         UNCHANGED << tick, fires, stops, launched, stopsSent >>
  PROVE  ItemKnown' /\ StartInv' /\ StopInv'
BY DEF ItemKnown, StartInv, StopInv, Launching, Stopping

LEMMA InvStep == Inv /\ [Next]_vars => Inv'
<1>. SUFFICES ASSUME Inv, [Next]_vars PROVE ItemKnown' /\ StartInv' /\ StopInv'
  BY TypeStep DEF Inv
<1>. USE DEF Inv
<1>1. ASSUME NEW k \in Ticks, TickArrive(k) PROVE ItemKnown' /\ StartInv' /\ StopInv'
  <2>1. CASE tick' = tick
    BY <1>1, <2>1, EnvironmentStep DEF TickArrive, restOfLock
  <2>2. CASE tick' = [tick EXCEPT ![k] = [FreeTick EXCEPT !.pc = "lock", !.at = now]]
    <3>1. tick'[k].pc = "lock" /\ \A j \in Ticks \ {k} : tick'[j] = tick[j]
      BY <2>2 DEF TypeOK, FreeTick
    <3>. QED
      BY <1>1, <3>1, QuietStep DEF TickArrive, restOfLock
  <2>. QED
    BY <1>1, <2>1, <2>2 DEF TickArrive
<1>2. ASSUME NEW k \in Ticks, TickTakeLock(k) PROVE ItemKnown' /\ StartInv' /\ StopInv'
  BY <1>2, GotoMoves, QuietStep DEF TickTakeLock, restOfLock, Positions
<1>3. ASSUME NEW k \in Ticks, TickSlots(k) PROVE ItemKnown' /\ StartInv' /\ StopInv'
  <2>1. tick'[k].pc \in {"free", "work"} /\ \A j \in Ticks \ {k} : tick'[j] = tick[j]
    BY <1>3 DEF TickSlots, TypeOK, FreeTick
  <2>. QED
    BY <1>3, <2>1, QuietStep DEF TickSlots, restOfLock
<1>4. ASSUME NEW k \in Ticks, StartCheck(k) PROVE ItemKnown' /\ StartInv' /\ StopInv'
  <2>1. PICK b \in Front(tick[k].work) : Done(k, b) \/ Take(k, b, "fire")
    BY <1>4 DEF StartCheck
  <2>2. CASE Done(k, b)
    BY <1>4, <2>2, DoneMoves, QuietStep DEF StartCheck, restOfStart
  <2>3. CASE Take(k, b, "fire")
    <3>1. /\ tick'[k].pc = "fire" /\ tick'[k].item \in Boundaries
          /\ \A j \in Ticks \ {k} : tick'[j] = tick[j]
      BY <2>1, <2>3, TakeMoves, FrontIsWork DEF Positions
    <3>. QED
      BY <1>4, <3>1
      DEF StartCheck, restOfStart, ItemKnown, StartInv, StopInv, Launching, Stopping
  <2>. QED
    BY <2>1, <2>2, <2>3
<1>5. ASSUME NEW k \in Ticks, StartFire(k) PROVE ItemKnown' /\ StartInv' /\ StopInv'
  <2>. DEFINE w == tick[k].item.window
  <2>1. w \in Windows /\ fires' = fires \cup {w}
    BY <1>5, ItemWindow DEF StartFire
  <2>2. CASE w \in fires
    <3>1. Done(k, tick[k].item) /\ fires' = fires
      BY <1>5, <2>1, <2>2 DEF StartFire, Fired
    <3>. QED
      BY <1>5, <3>1, DoneMoves, QuietStep DEF StartFire, restOfStart
  <2>3. CASE w \notin fires
    <3>1. /\ tick'[k].pc = "launch" /\ tick'[k].item = tick[k].item
          /\ \A j \in Ticks \ {k} : tick'[j] = tick[j]
      BY <1>5, <2>3, GotoMoves DEF StartFire, Fired, Positions
    <3>2. launched[w] = 0 /\ \A j \in Ticks \ {k} : Launching(j) => tick[j].item.window # w
      BY <2>1, <2>3 DEF StartInv, TypeOK
    <3>3. ItemKnown' /\ StopInv'
      BY <1>5, <3>1 DEF StartFire, restOfStart, ItemKnown, StopInv, Stopping
    <3>4. StartInv'
      BY <1>5, <2>1, <3>1, <3>2 DEF StartFire, restOfStart, StartInv, Launching
    <3>. QED
      BY <3>3, <3>4
  <2>. QED
    BY <2>2, <2>3
<1>6. ASSUME NEW k \in Ticks, StartLaunch(k) PROVE ItemKnown' /\ StartInv' /\ StopInv'
  <2>. DEFINE w == tick[k].item.window
  <2>1. /\ tick'[k].pc = "mark" /\ tick'[k].item = tick[k].item
        /\ \A j \in Ticks \ {k} : tick'[j] = tick[j]
    BY <1>6, GotoMoves DEF StartLaunch, Positions
  <2>2. w \in Windows /\ w \in fires /\ launched[w] = 0
    BY <1>6, ItemWindow DEF StartLaunch, StartInv, Launching
  <2>3. launched' = [launched EXCEPT ![w] = 1]
    BY <1>6, <2>2 DEF StartLaunch
  <2>4. \A j \in Ticks \ {k} : Launching(j) => tick[j].item.window # w
    BY <1>6 DEF StartLaunch, StartInv, Launching
  <2>5. ItemKnown' /\ StopInv'
    BY <1>6, <2>1 DEF StartLaunch, restOfStart, ItemKnown, StopInv, Stopping
  <2>6. StartInv'
    BY <1>6, <2>1, <2>2, <2>3, <2>4 DEF StartLaunch, restOfStart, StartInv, Launching, TypeOK
  <2>. QED
    BY <2>5, <2>6
<1>7. ASSUME NEW k \in Ticks, StartFails(k) \/ StartMark(k)
      PROVE  ItemKnown' /\ StartInv' /\ StopInv'
  BY <1>7, DoneMoves, QuietStep DEF StartFails, StartMark, restOfStart
<1>8. ASSUME NEW k \in Ticks, StopFire(k) PROVE ItemKnown' /\ StartInv' /\ StopInv'
  <2>1. PICK b \in Front(tick[k].work) :
          /\ stops' = stops \cup {b.window}
          /\ IF b.window \in stops THEN Done(k, b) ELSE Take(k, b, "stopCheck")
    BY <1>8 DEF StopFire
  <2>2. CASE b.window \in stops
    <3>1. stops' = stops /\ Done(k, b)
      BY <2>1, <2>2
    <3>. QED
      BY <1>8, <3>1, DoneMoves, QuietStep DEF StopFire, restOfStop
  <2>3. CASE b.window \notin stops
    <3>1. /\ tick'[k].pc = "stopCheck" /\ tick'[k].item = b /\ b \in Boundaries
          /\ \A j \in Ticks \ {k} : tick'[j] = tick[j]
      BY <2>1, <2>3, TakeMoves, FrontIsWork DEF Positions
    <3>2. b.window \in Windows
      BY <3>1 DEF Boundaries
    <3>3. /\ stopsSent[b.window] = 0
          /\ \A j \in Ticks \ {k} : Stopping(j) => tick[j].item.window # b.window
      BY <2>3, <3>2 DEF StopInv, TypeOK
    <3>4. ItemKnown' /\ StartInv'
      BY <1>8, <3>1 DEF StopFire, restOfStop, ItemKnown, StartInv, Launching
    <3>5. StopInv'
      BY <1>8, <2>1, <3>1, <3>2, <3>3 DEF StopFire, restOfStop, StopInv, Stopping
    <3>. QED
      BY <3>4, <3>5
  <2>. QED
    BY <2>2, <2>3
<1>9. ASSUME NEW k \in Ticks, StopCheck(k) PROVE ItemKnown' /\ StartInv' /\ StopInv'
  <2>1. CASE Done(k, tick[k].item)
    BY <1>9, <2>1, DoneMoves, QuietStep DEF StopCheck, restOfStop
  <2>2. CASE Goto(k, "stopPlan")
    <3>1. /\ tick'[k].pc = "stopPlan" /\ tick'[k].item = tick[k].item
          /\ \A j \in Ticks \ {k} : tick'[j] = tick[j]
      BY <2>2, GotoMoves DEF Positions
    <3>. QED
      BY <1>9, <3>1
      DEF StopCheck, restOfStop, ItemKnown, StartInv, StopInv, Launching, Stopping
  <2>. QED
    BY <1>9, <2>1, <2>2 DEF StopCheck
<1>10. ASSUME NEW k \in Ticks, StopPlan(k) PROVE ItemKnown' /\ StartInv' /\ StopInv'
  <2>. DEFINE w == tick[k].item.window
  <2>1. /\ tick'[k].pc = "stopMark" /\ tick'[k].item = tick[k].item
        /\ \A j \in Ticks \ {k} : tick'[j] = tick[j]
    BY <1>10, GotoMoves DEF StopPlan, Positions
  <2>2. w \in Windows /\ w \in stops /\ stopsSent[w] = 0
    BY <1>10, ItemWindow DEF StopPlan, StopInv, Stopping
  <2>3. stopsSent' = [stopsSent EXCEPT ![w] = 1]
    BY <1>10, <2>2 DEF StopPlan
  <2>4. \A j \in Ticks \ {k} : Stopping(j) => tick[j].item.window # w
    BY <1>10 DEF StopPlan, StopInv, Stopping
  <2>5. ItemKnown' /\ StartInv'
    BY <1>10, <2>1 DEF StopPlan, restOfStop, ItemKnown, StartInv, Launching
  <2>6. StopInv'
    BY <1>10, <2>1, <2>2, <2>3, <2>4 DEF StopPlan, restOfStop, StopInv, Stopping, TypeOK
  <2>. QED
    BY <2>5, <2>6
<1>11. ASSUME NEW k \in Ticks, StopMark(k) \/ StopFails(k)
       PROVE  ItemKnown' /\ StartInv' /\ StopInv'
  BY <1>11, DoneMoves, QuietStep DEF StopMark, StopFails, restOfStop
<1>12. ASSUME NEW k \in Ticks, TickCrash(k) PROVE ItemKnown' /\ StartInv' /\ StopInv'
  <2>1. tick'[k].pc = "free" /\ \A j \in Ticks \ {k} : tick'[j] = tick[j]
    BY <1>12 DEF TickCrash, TypeOK, FreeTick
  <2>. QED
    BY <1>12, <2>1, QuietStep DEF TickCrash, restOfEnv
<1>13. CASE AgentTakesStop \/ JobEnds \/ ClockAdvances \/ UNCHANGED vars
  BY <1>13, EnvironmentStep DEF AgentTakesStop, JobEnds, ClockAdvances, restOfEnv, vars
<1>. QED
  BY <1>1, <1>2, <1>3, <1>4, <1>5, <1>6, <1>7, <1>8, <1>9, <1>10, <1>11, <1>12,
     <1>13 DEF Next, TickStep

LEMMA InvInit == Init => Inv
<1>. SUFFICES ASSUME Init PROVE Inv
  OBVIOUS
<1>. USE SchedulerAssumption DEF Init
<1>1. TypeOK
  <2>1. FreeTick \in TickRecords
    BY DEF FreeTick, TickRecords, Positions
  <2>. QED
    BY <2>1 DEF TypeOK, Runtimes
<1>2. \A k \in Ticks : tick[k].pc = "free"
  BY DEF FreeTick
<1>. QED
  BY <1>1, <1>2 DEF Inv, ItemKnown, StartInv, StopInv, Launching, Stopping

-----------------------------------------------------------------------------
(* The theorems. *)

LEMMA SpecInv == Spec => []Inv
BY InvInit, InvStep, PTL DEF Spec

(* runJobSchedulerTick keeps all its state in its types, for any number of *)
(* ticks in progress and any set of windows.                               *)
THEOREM TypeCorrect == Spec => []TypeOK
<1>1. Inv => TypeOK
  BY DEF Inv
<1>. QED
  BY SpecInv, <1>1, PTL

(* However many ticks overlap, crash or fail, and however far they look    *)
(* back, a window launches its job once at most and stops it once at most: *)
(* the keys of job_schedule_fires and job_schedule_stops are enough, and   *)
(* the lock of acquireCronLock is not needed for it.                       *)
THEOREM FiresOnce == Spec => []OncePerBoundary
<1>1. Inv => OncePerBoundary
  BY DEF Inv, StartInv, StopInv, OncePerBoundary
<1>. QED
  BY SpecInv, <1>1, PTL

-----------------------------------------------------------------------------
(* No second is missed.                                                    *)
(*                                                                         *)
(* While no tick has the lock without its slots, every second the last     *)
(* lock stands for has been examined, and the last call of the agent was   *)
(* before the lock ends.  The next call to find it free is at most         *)
(* MaxTickGap - 1 seconds late, and a lookback that makes up for that      *)
(* closes the gap.                                                         *)

(* The lookback of the code is long enough for its lock and the gap. *)
LookbackSuffices ==
  /\ MaxDelay = 0 /\ LockDuration > 0
  /\ MaxTickGap <= Lookback
  /\ LockDuration + MaxTickGap <= Lookback + 2

Waiting(k) == tick[k].pc \in {"lock", "slots"}

Seen == \A s \in Nat :
          s + Lookback < now \/ s + LockDuration + MaxTickGap < now => s \in examined

WaitInv ==
  /\ \A k \in Ticks : Waiting(k) => tick[k].at = now /\ lastTick = now /\ Seen
  /\ \A k \in Ticks : tick[k].pc = "slots" => lockedUntil = now + LockDuration
  /\ \A j, k \in Ticks : Waiting(j) /\ Waiting(k) => j = k

RestInv ==
  (\A k \in Ticks : ~Waiting(k)) =>
    /\ lastTick < lockedUntil \/ lastTick = 0
    /\ \A s \in Nat : s + LockDuration <= lockedUntil => s \in examined

TimeInv ==
  /\ now <= lastTick + MaxTickGap
  /\ faults = 0 => WaitInv /\ RestInv

(* What a tick past its slots does is of no consequence. *)
LEMMA TimeQuiet ==
  ASSUME TypeOK, TimeInv, NEW k \in Ticks, ~Waiting(k), ~Waiting(k)',
         \A j \in Ticks \ {k} : tick'[j] = tick[j],
         UNCHANGED << now, lastTick, lockedUntil, examined >>,
         faults' = 0 => faults = 0
  PROVE  TimeInv'
<1>. SUFFICES ASSUME faults' = 0 PROVE WaitInv' /\ RestInv'
  BY DEF TimeInv
<1>1. WaitInv /\ RestInv
  BY DEF TimeInv
<1>2. \A j \in Ticks : Waiting(j)' => Waiting(j) /\ tick'[j] = tick[j]
  BY DEF Waiting
<1>3. \A j \in Ticks : Waiting(j) => Waiting(j)'
  BY DEF Waiting
<1>4. Seen' = Seen
  BY DEF Seen
<1>5. WaitInv'
  BY <1>1, <1>2, <1>4 DEF WaitInv, Waiting
<1>6. RestInv'
  BY <1>1, <1>3 DEF RestInv
<1>. QED
  BY <1>5, <1>6

(* Once the last lock is over, the seconds before the lookback are seen. *)
LEMMA RestSees ==
  ASSUME LookbackSuffices, TypeOK, TimeInv, RestInv,
         \A k \in Ticks : ~Waiting(k)
  PROVE  Seen
<1>. SUFFICES ASSUME NEW s \in Nat,
                     s + Lookback < now \/ s + LockDuration + MaxTickGap < now
              PROVE  s \in examined
  BY DEF Seen
<1>1. now <= lastTick + MaxTickGap /\ (lastTick < lockedUntil \/ lastTick = 0)
  BY DEF TimeInv, RestInv
<1>2. now \in Nat /\ lastTick \in Nat /\ lockedUntil \in Nat
  BY DEF TypeOK
<1>3. s + LockDuration <= lockedUntil
  BY <1>1, <1>2, SchedulerAssumption DEF SchedulerAssumption, LookbackSuffices
<1>. QED
  BY <1>3 DEF RestInv

LEMMA TimeInit ==
  ASSUME LookbackSuffices, Init
  PROVE  TimeInv
<1>1. \A k \in Ticks : ~Waiting(k)
  BY DEF Init, FreeTick, Waiting
<1>. QED
  BY <1>1, SchedulerAssumption
  DEF Init, TimeInv, WaitInv, RestInv, SchedulerAssumption, LookbackSuffices, Waiting

LEMMA TimeStep ==
  ASSUME LookbackSuffices, Inv, TimeInv, [Next]_vars
  PROVE  TimeInv'
<1>. USE SchedulerAssumption
<1>0. TypeOK
  BY DEF Inv
<1>1. ASSUME NEW k \in Ticks, TickArrive(k) PROVE TimeInv'
  <2>. SUFFICES ASSUME faults = 0 PROVE WaitInv' /\ RestInv'
    BY <1>0, <1>1 DEF TickArrive, restOfLock, TimeInv, TypeOK, SchedulerAssumption
  <2>1. WaitInv /\ RestInv /\ \A j \in Ticks : ~Waiting(j)
    BY <1>0, <1>1 DEF TimeInv, WaitInv, TickArrive, TypeOK
  <2>2. Seen
    BY <1>0, <2>1, RestSees
  <2>3. Seen' /\ lastTick' = now /\ now' = now /\ lockedUntil' = lockedUntil
    BY <1>1, <2>2 DEF Seen, TickArrive, restOfLock
  <2>4. CASE lockedUntil > now
    <3>1. \A j \in Ticks : ~Waiting(j)' /\ tick'[j].pc # "slots"
      BY <1>1, <2>1, <2>4 DEF TickArrive, Waiting
    <3>. QED
      BY <1>1, <2>1, <2>3, <2>4, <3>1 DEF WaitInv, RestInv, TickArrive
  <2>5. CASE ~(lockedUntil > now)
    <3>1. tick' = [tick EXCEPT ![k] = [FreeTick EXCEPT !.pc = "lock", !.at = now]]
      BY <1>1, <2>5 DEF TickArrive
    <3>2. tick'[k].pc = "lock" /\ tick'[k].at = now
      BY <1>0, <3>1 DEF FreeTick, TypeOK
    <3>3. \A j \in Ticks \ {k} : ~Waiting(j)' /\ tick'[j].pc # "slots"
      BY <1>0, <2>1, <3>1 DEF Waiting, TypeOK
    <3>. QED
      BY <2>3, <3>2, <3>3 DEF WaitInv, RestInv, Waiting
  <2>. QED
    BY <2>4, <2>5
<1>2. ASSUME NEW k \in Ticks, TickTakeLock(k) PROVE TimeInv'
  <2>. SUFFICES ASSUME faults = 0 PROVE WaitInv' /\ RestInv'
    BY <1>2 DEF TickTakeLock, restOfLock, TimeInv
  <2>1. WaitInv /\ Waiting(k)
    BY <1>2 DEF TimeInv, TickTakeLock, Waiting
  <2>2. /\ tick'[k].pc = "slots" /\ tick'[k].at = tick[k].at
        /\ \A j \in Ticks \ {k} : tick'[j] = tick[j]
    BY <1>0, <1>2 DEF TickTakeLock, Goto, TypeOK, TickRecords
  <2>3. \A j \in Ticks \ {k} : ~Waiting(j)' /\ tick'[j].pc # "slots"
    BY <2>1, <2>2 DEF WaitInv, Waiting
  <2>4. /\ Seen' = Seen /\ now' = now /\ lastTick' = lastTick
        /\ lockedUntil' = now + LockDuration
    BY <1>2, <2>1 DEF Seen, TickTakeLock, restOfLock, WaitInv
  <2>5. Waiting(k)'
    BY <2>2 DEF Waiting
  <2>. QED
    BY <2>1, <2>2, <2>3, <2>4, <2>5 DEF WaitInv, RestInv
<1>3. ASSUME NEW k \in Ticks, TickSlots(k) PROVE TimeInv'
  <2>. SUFFICES ASSUME faults = 0 PROVE WaitInv' /\ RestInv'
    BY <1>3 DEF TickSlots, restOfLock, TimeInv
  <2>1. WaitInv /\ Waiting(k)
    BY <1>3 DEF TimeInv, TickSlots, Waiting
  <2>2. /\ tick'[k].pc \in {"free", "work"}
        /\ \A j \in Ticks \ {k} : tick'[j] = tick[j]
    BY <1>0, <1>3 DEF TickSlots, FreeTick, TypeOK
  <2>3. \A j \in Ticks : ~Waiting(j)' /\ tick'[j].pc # "slots"
    BY <2>1, <2>2 DEF WaitInv, Waiting
  <2>4. Seen /\ lastTick = now /\ lockedUntil = now + LockDuration /\ now \in Nat
    BY <1>0, <1>3, <2>1 DEF WaitInv, TickSlots, TypeOK
  <2>5. ASSUME NEW s \in Nat, s + LockDuration <= lockedUntil PROVE s \in examined'
    <3>1. s <= now
      BY <2>4, <2>5 DEF SchedulerAssumption
    <3>2. s \in Slots \/ s \in examined
      BY <2>4, <3>1 DEF Slots, Seen, SchedulerAssumption
    <3>. QED
      BY <1>3, <3>2 DEF TickSlots
  <2>6. lastTick < lockedUntil \/ lastTick = 0
    BY <2>4, SchedulerAssumption DEF SchedulerAssumption, LookbackSuffices
  <2>. QED
    BY <1>3, <2>3, <2>5, <2>6 DEF WaitInv, RestInv, TickSlots, restOfLock
<1>4. ASSUME NEW k \in Ticks,
             \/ StartCheck(k) \/ StartFire(k) \/ StartLaunch(k) \/ StartMark(k)
             \/ StopFire(k) \/ StopCheck(k) \/ StopPlan(k) \/ StopMark(k)
             \/ StartFails(k) \/ StopFails(k)
      PROVE  TimeInv'
  <2>1. /\ UNCHANGED << now, lastTick, lockedUntil, examined >>
        /\ faults' = 0 => faults = 0
    BY <1>0, <1>4
    DEF StartCheck, StartFire, StartLaunch, StartMark, StopFire, StopCheck, StopPlan,
        StopMark, StartFails, StopFails, restOfStart, restOfStop, Fault, TypeOK,
        SchedulerAssumption
  <2>2. ~Waiting(k)
    BY <1>4
    DEF StartCheck, StartFire, StartLaunch, StartMark, StopFire, StopCheck, StopPlan,
        StopMark, StartFails, StopFails, Waiting
  <2>3. ~Waiting(k)' /\ \A j \in Ticks \ {k} : tick'[j] = tick[j]
    <3>1. CASE \E b : Done(k, b)
      BY <1>0, <3>1, DoneMoves DEF Waiting
    <3>2. CASE \E pc \in Positions \ {"lock", "slots"} : Goto(k, pc)
      BY <1>0, <3>2, GotoMoves DEF Waiting
    <3>3. CASE \E b \in Boundaries, pc \in Positions \ {"lock", "slots"} : Take(k, b, pc)
      BY <1>0, <3>3, TakeMoves DEF Waiting
    <3>4. CASE StartCheck(k) \/ StopFire(k)
      BY <1>0, <3>1, <3>3, <3>4, FrontIsWork DEF StartCheck, StopFire, Positions
    <3>5. CASE \/ StartFire(k) \/ StartLaunch(k) \/ StartMark(k) \/ StopCheck(k)
               \/ StopPlan(k) \/ StopMark(k) \/ StartFails(k) \/ StopFails(k)
      BY <3>1, <3>2, <3>5
      DEF StartFire, StartLaunch, StartMark, StopCheck, StopPlan, StopMark, StartFails,
          StopFails, Positions
    <3>. QED
      BY <1>4, <3>4, <3>5
  <2>. QED
    BY <1>0, <2>1, <2>2, <2>3, TimeQuiet
<1>5. ASSUME NEW k \in Ticks, TickCrash(k) PROVE TimeInv'
  <2>1. faults' # 0 /\ UNCHANGED << now, lastTick >>
    BY <1>0, <1>5 DEF TickCrash, Fault, TypeOK, SchedulerAssumption
  <2>. QED
    BY <2>1 DEF TimeInv
<1>6. CASE AgentTakesStop \/ JobEnds \/ UNCHANGED vars
  <2>1. UNCHANGED << now, lastTick, lockedUntil, examined, tick, faults >>
    BY <1>6 DEF AgentTakesStop, JobEnds, restOfEnv, vars
  <2>. QED
    BY <2>1 DEF TimeInv, WaitInv, RestInv, Waiting, Seen
<1>7. CASE ClockAdvances
  <2>1. /\ now' = now + 1 /\ now + 1 <= lastTick + MaxTickGap
        /\ UNCHANGED << lastTick, lockedUntil, examined, tick, faults >>
    BY <1>7 DEF ClockAdvances, restOfEnv
  <2>. SUFFICES ASSUME faults = 0 PROVE WaitInv' /\ RestInv'
    BY <2>1 DEF TimeInv
  <2>2. \A k \in Ticks : ~Waiting(k)
    BY <1>0, <1>7 DEF TimeInv, WaitInv, ClockAdvances, LookbackSuffices, Waiting, TypeOK
  <2>3. \A k \in Ticks : ~Waiting(k)' /\ tick'[k].pc # "slots"
    BY <2>1, <2>2 DEF Waiting
  <2>. QED
    BY <2>1, <2>2, <2>3 DEF TimeInv, WaitInv, RestInv
<1>. QED
  BY <1>1, <1>2, <1>3, <1>4, <1>5, <1>6, <1>7 DEF Next, TickStep

(* Whatever the number of ticks in progress, and although the lock is read *)
(* and written in two statements, is never renewed and skips calls: when   *)
(* the lookback covers the lock and the gap between the agent's calls, as  *)
(* the two seconds of each in the code do, a crash is all that can make    *)
(* the scheduler miss a second.                                            *)
THEOREM NothingMissed ==
  ASSUME LookbackSuffices
  PROVE  Spec => []NoBoundaryMissed
<1>1. Init => TimeInv
  BY TimeInit
<1>2. Inv /\ TimeInv /\ [Next]_vars => TimeInv'
  BY TimeStep
<1>3. Inv /\ TimeInv => NoBoundaryMissed
  <2>. SUFFICES ASSUME Inv, TimeInv, faults = 0, NEW w \in Windows,
                       now > StartTime[w] + LockDuration + MaxTickGap + MaxDelay
                PROVE  StartTime[w] \in examined
    BY DEF NoBoundaryMissed
  <2>1. TypeOK /\ WaitInv /\ RestInv /\ StartTime[w] \in Nat
    BY SchedulerAssumption DEF Inv, TimeInv, SchedulerAssumption
  <2>2. Seen
    BY <2>1, RestSees DEF WaitInv
  <2>. QED
    BY <2>1, <2>2, SchedulerAssumption
    DEF Seen, LookbackSuffices, SchedulerAssumption, TypeOK
<1>. QED
  BY SpecInv, <1>1, <1>2, <1>3, PTL DEF Spec
=============================================================================
