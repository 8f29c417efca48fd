------------------------ MODULE CameraSharingProofs ------------------------
(***************************************************************************)
(* Proofs about CameraSharing, for any cameras, jobs, steps and searches.  *)
(*                                                                         *)
(* NoOrphanSession is not inductive: while threads are at work a session   *)
(* may have no owner left.  What every step keeps is that each session is  *)
(* owned, or somebody is bound to look after it: a stop that has withdrawn *)
(* its own claim and not yet finished looking for others, a start that has *)
(* not yet acquired, or the search that started it.                        *)
(*                                                                         *)
(* SessionInUse needs a second invariant: a step holds at most one         *)
(* reference to a camera, and holds it as a target while it runs or, while *)
(* its job starts or stops it, as one still to be kept or given back.      *)
(***************************************************************************)
EXTENDS CameraSharing, FiniteSetTheorems, TLAPS

(* Which thread may be where, and what it then knows. *)
Placed(t) ==
  /\ At(t, "acquire") \/ At(t, "release") \/ At(t, "direct") => t \in Jobs
  /\ At(t, "consumers") => t \notin Searches
  /\ At(t, "searching") => t \in Searches
  /\ t \in Jobs /\ ~At(t, "idle") => thread[t].step \in Steps
  /\ ~At(t, "idle") /\ ~(t \in Jobs /\ At(t, "lock")) => thread[t].cam \in Cameras

(* A thread in the middle of a start holds the admission mutex, and the    *)
(* session it replaces is out of the map.                                  *)
Starting(t) ==
  /\ At(t, "check") \/ At(t, "create") \/ At(t, "acquire") => admission = t
  /\ At(t, "create") => sessions[thread[t].cam] = None
  /\ t = Cmd /\ (At(t, "check") \/ At(t, "create")) => thread[t].cam \in requested

(* Thread t is bound to look after camera c. *)
Responsible(t, c) ==
  /\ t \in Jobs \cup {Cmd}
  /\ thread[t].cam = c
  /\ thread[t].pc \in {"acquire", "consumers", "direct", "stop"}

Owned(c) == c \in requested \/ Held(c) \/ \E t \in Threads : Responsible(t, c)

SearchedBy(q, c) == thread[q].cam = c /\ thread[q].pc \in {"searching", "stop"}

(* A start is never refused on a camera that a job configured.  Otherwise a *)
(* refused start_camera can withdraw the direct request that the last      *)
(* release of a job has just counted on (CheckDirect, RefuseSession).      *)
NoConflict == ~Pressure \/ SharedCfg

OwnerInv ==
  NoConflict => \A c \in Cameras :
    /\ sessions[c] \in {"direct", "job"} => Owned(c)
    /\ sessions[c] = "temp" => \E q \in Searches : SearchedBy(q, c)
    /\ SharedCfg => sessions[c] # "job"

ThreadInv == \A t \in Threads : Placed(t) /\ Starting(t)

Inv == TypeOK /\ ThreadInv /\ OwnerInv

-----------------------------------------------------------------------------
(* How the helpers move a thread. *)

LEMMA IdleType == IdleThread \in Locals
BY DEF IdleThread, Locals, Positions

LEMMA GotoMoves ==
  ASSUME TypeOK, NEW t \in Threads, NEW pc \in Positions, Goto(t, pc)
  PROVE  /\ thread' \in [Threads -> Locals]
         /\ thread'[t].pc = pc /\ thread'[t].cam = thread[t].cam
         /\ thread'[t].step = thread[t].step
         /\ \A u \in Threads \ {t} : thread'[u] = thread[u]
BY DEF TypeOK, Goto, Locals

LEMMA RestMoves ==
  ASSUME TypeOK, NEW t \in Threads, Rest(t)
  PROVE  /\ thread' \in [Threads -> Locals]
         /\ thread'[t] = IdleThread
         /\ \A u \in Threads \ {t} : thread'[u] = thread[u]
BY IdleType DEF TypeOK, Rest

LEMMA StopEachMoves ==
  ASSUME TypeOK, NEW j \in Jobs, NEW s \in Steps, NEW cams \in SUBSET Cameras,
         StopEach(j, s, cams)
  PROVE  /\ thread' \in [Threads -> Locals]
         /\ thread'[j].pc = "release" /\ thread'[j].step = s /\ thread'[j].cam \in Cameras
         /\ \A u \in Threads \ {j} : thread'[u] = thread[u]
<1>1. PICK c \in cams : thread' = [thread EXCEPT ![j] =
        [IdleThread EXCEPT !.pc = "release", !.cam = c, !.step = s, !.todo = cams \ {c}]]
  BY DEF StopEach
<1>2. [IdleThread EXCEPT !.pc = "release", !.cam = c, !.step = s, !.todo = cams \ {c}]
        \in Locals
  BY <1>1, IdleType DEF Locals, Positions
<1>3. j \in Threads
  BY DEF Threads
<1>. QED
  BY <1>1, <1>2, <1>3 DEF TypeOK, IdleThread, Locals

(* What the end of a stop leaves behind: the thread is idle or at the      *)
(* release of its next camera.                                             *)
LEMMA LeaveMoves ==
  ASSUME Inv, NEW t \in Threads, Leave(t), ~At(t, "idle"), ~At(t, "lock")
  PROVE  /\ thread' \in [Threads -> Locals]
         /\ \A u \in Threads \ {t} : thread'[u] = thread[u]
         /\ \/ thread'[t] = IdleThread
            \/ /\ t \in Jobs /\ thread'[t].pc = "release"
               /\ thread'[t].step \in Steps /\ thread'[t].cam \in Cameras
         /\ admission' \in Threads \cup {None}
         /\ admission' = admission \/ (admission = t /\ admission' = None)
         /\ steps' \in [Steps -> StepStates]
<1>1. CASE t \notin Jobs
  BY <1>1, RestMoves DEF Leave, Inv, TypeOK
<1>2. CASE t \in Jobs /\ thread[t].todo # {}
  <2>1. thread[t].step \in Steps /\ thread[t].todo \in SUBSET Cameras
    BY <1>2 DEF Inv, ThreadInv, Placed, TypeOK, Locals
  <2>. QED
    BY <1>2, <2>1, StopEachMoves DEF Leave, Inv, TypeOK
<1>3. CASE t \in Jobs /\ thread[t].todo = {}
  BY <1>3, RestMoves DEF Leave, Inv, TypeOK, StepStates
<1>. QED
  BY <1>1, <1>2, <1>3

(* A step of t keeps what the other threads know: only the holder of the   *)
(* admission mutex puts a session into the map or gives the mutex away.    *)
LEMMA OthersKept ==
  ASSUME Inv, NEW t \in Threads,
         \A u \in Threads \ {t} : thread'[u] = thread[u],
         admission' = admission \/ admission = None \/ admission = t,
         \A c \in Cameras : sessions'[c] \in {sessions[c], None} \/ admission = t,
         t = Cmd \/ requested' = requested
  PROVE  \A u \in Threads \ {t} : Placed(u)' /\ Starting(u)'
<1>. SUFFICES ASSUME NEW u \in Threads \ {t} PROVE Placed(u)' /\ Starting(u)'
  OBVIOUS
<1>1. thread'[u] = thread[u] /\ Placed(u) /\ Starting(u) /\ u # None
  BY SharingAssumption DEF Inv, ThreadInv
<1>2. Placed(u)'
  BY <1>1 DEF Placed, At
<1>3. Starting(u)'
  BY <1>1 DEF Starting, At, Placed
<1>. QED
  BY <1>2, <1>3

(* A step of t that puts no session into the map keeps every owner, if it  *)
(* does so for the claims it touches.                                      *)
LEMMA OwnerKept ==
  ASSUME Inv, NEW t \in Threads,
         \A u \in Threads \ {t} : thread'[u] = thread[u],
         \A c \in Cameras : sessions'[c] \in {sessions[c], None},
         \A c \in Cameras : sessions'[c] # None
           /\ (c \in requested \/ Held(c) \/ Responsible(t, c)) => Owned(c)',
         \A c \in Cameras : sessions'[c] # None /\ sessions'[c] = "temp"
           /\ t \in Searches /\ SearchedBy(t, c) => SearchedBy(t, c)'
  PROVE  OwnerInv'
<1>. SUFFICES ASSUME NoConflict, NEW c \in Cameras, sessions'[c] # None
              PROVE  /\ sessions'[c] \in {"direct", "job"} => Owned(c)'
                     /\ sessions'[c] = "temp" => \E q \in Searches : SearchedBy(q, c)'
                     /\ SharedCfg => sessions'[c] # "job"
  BY SharingAssumption DEF OwnerInv
<1>1. sessions'[c] = sessions[c]
  OBVIOUS
<1>2. ASSUME sessions[c] \in {"direct", "job"} PROVE Owned(c)'
  <2>1. Owned(c)
    BY <1>2 DEF Inv, OwnerInv
  <2>2. ASSUME NEW u \in Threads \ {t}, Responsible(u, c) PROVE Owned(c)'
    BY <2>2 DEF Owned, Responsible
  <2>. QED
    BY <2>1, <2>2 DEF Owned
<1>3. ASSUME sessions[c] = "temp" PROVE \E q \in Searches : SearchedBy(q, c)'
  <2>1. PICK q \in Searches : SearchedBy(q, c)
    BY <1>3 DEF Inv, OwnerInv
  <2>2. CASE q = t
    BY <1>1, <1>3, <2>1, <2>2
  <2>3. CASE q # t
    BY <2>1, <2>3 DEF SearchedBy, Threads
  <2>. QED
    BY <2>2, <2>3
<1>. QED
  BY <1>1, <1>2, <1>3 DEF Inv, OwnerInv

(* The end of a start, successful or not. *)
LEMMA StartedMoves ==
  ASSUME Inv, NEW t \in Threads, Started(t), At(t, "check") \/ At(t, "create")
  PROVE  /\ thread' \in [Threads -> Locals]
         /\ \A u \in Threads \ {t} : thread'[u] = thread[u]
         /\ t \in Jobs => /\ thread'[t].pc = "acquire" /\ thread'[t].cam = thread[t].cam
                          /\ thread'[t].step = thread[t].step /\ admission' = admission
         /\ t \in Searches => /\ thread'[t].pc = "searching"
                              /\ thread'[t].cam = thread[t].cam /\ admission' = None
         /\ t = Cmd => thread'[t] = IdleThread /\ admission' = None
         /\ UNCHANGED << requested, steps >>
<1>. t \notin Jobs => t = Cmd \/ t \in Searches
  BY DEF Threads
<1>1. CASE t \in Jobs
  BY <1>1, GotoMoves, SharingAssumption DEF Inv, Started, Positions
<1>2. CASE t = Cmd
  BY <1>2, RestMoves, SharingAssumption DEF Inv, Started
<1>3. CASE t \in Searches
  BY <1>3, GotoMoves, SharingAssumption DEF Inv, Started, Positions
<1>. QED
  BY <1>1, <1>2, <1>3

LEMMA NotStartedMoves ==
  ASSUME Inv, NEW t \in Threads, NotStarted(t), At(t, "check") \/ At(t, "create")
  PROVE  /\ thread' \in [Threads -> Locals]
         /\ \A u \in Threads \ {t} : thread'[u] = thread[u]
         /\ \/ thread'[t] = IdleThread
            \/ /\ t \in Jobs /\ thread'[t].pc = "release"
               /\ thread'[t].step \in Steps /\ thread'[t].cam \in Cameras
         /\ admission' \in {admission, None}
         /\ steps' \in [Steps -> StepStates]
         /\ requested' \subseteq requested
         /\ \A c \in requested \ requested' : c = thread[t].cam /\ t = Cmd
<1>1. CASE t \notin Jobs
  BY <1>1, RestMoves DEF NotStarted, Inv, TypeOK
<1>2. CASE t \in Jobs
  <2>1. thread[t].step \in Steps /\ thread[t].acquired \in SUBSET Cameras
    BY <1>2 DEF Inv, ThreadInv, Placed, At, TypeOK, Locals
  <2>2. CASE thread[t].acquired = {}
    BY <1>2, <2>2, RestMoves DEF NotStarted, RollBack, Inv, TypeOK, StepStates
  <2>3. CASE thread[t].acquired # {}
    BY <1>2, <2>1, <2>3, StopEachMoves DEF NotStarted, RollBack, Inv, TypeOK
  <2>. QED
    BY <2>2, <2>3
<1>. QED
  BY <1>1, <1>2

-----------------------------------------------------------------------------
(* Every step keeps Inv. *)

(* An idle thread that begins an operation on camera c. *)
LEMMA BeginMoves ==
  ASSUME TypeOK, NEW t \in Threads, NEW c \in Cameras, NEW pc \in Positions,
         thread' = [thread EXCEPT ![t] = [IdleThread EXCEPT !.pc = pc, !.cam = c]]
  PROVE  /\ thread' \in [Threads -> Locals]
         /\ thread'[t].pc = pc /\ thread'[t].cam = c
         /\ \A u \in Threads \ {t} : thread'[u] = thread[u]
<1>1. [IdleThread EXCEPT !.pc = pc, !.cam = c] \in Locals
  BY IdleType DEF Locals
<1>. QED
  BY <1>1, IdleType DEF TypeOK, Locals

LEMMA StartCameraStep ==
  ASSUME Inv, NEW c \in Cameras, StartCamera(c) PROVE Inv'
<1>. Cmd \in Threads /\ Cmd \notin Jobs /\ Cmd \notin Searches /\ "lock" \in Positions
  BY SharingAssumption DEF Threads, Positions
<1>1. /\ thread' \in [Threads -> Locals]
      /\ thread'[Cmd].pc = "lock" /\ thread'[Cmd].cam = c
      /\ \A u \in Threads \ {Cmd} : thread'[u] = thread[u]
  BY BeginMoves DEF StartCamera, Inv
<1>2. TypeOK'
  BY <1>1 DEF StartCamera, Inv, TypeOK
<1>3. ThreadInv'
  <2>1. Placed(Cmd)' /\ Starting(Cmd)'
    BY <1>1 DEF Placed, Starting, At
  <2>. QED
    BY <1>1, <2>1, OthersKept DEF ThreadInv, StartCamera
<1>4. OwnerInv'
  <2>1. \A d \in Cameras : ~Responsible(Cmd, d)
    BY DEF StartCamera, At, Responsible
  <2>. QED
    BY <1>1, <2>1, OwnerKept DEF StartCamera, Owned, Held
<1>. QED
  BY <1>2, <1>3, <1>4 DEF Inv

LEMMA FindNoSessionStep ==
  ASSUME Inv, NEW q \in Searches, NEW c \in Cameras, FindNoSession(q, c) PROVE Inv'
<1>. q \in Threads /\ q \notin Jobs /\ q # Cmd /\ "lock" \in Positions
  BY SharingAssumption DEF Threads, Positions
<1>1. /\ thread' \in [Threads -> Locals]
      /\ thread'[q].pc = "lock" /\ thread'[q].cam = c
      /\ \A u \in Threads \ {q} : thread'[u] = thread[u]
  BY BeginMoves DEF FindNoSession, Inv
<1>2. TypeOK'
  BY <1>1 DEF FindNoSession, Inv, TypeOK
<1>3. ThreadInv'
  <2>1. Placed(q)' /\ Starting(q)'
    BY <1>1 DEF Placed, Starting, At
  <2>. QED
    BY <1>1, <2>1, OthersKept DEF ThreadInv, FindNoSession
<1>4. OwnerInv'
  <2>1. \A d \in Cameras : ~Responsible(q, d) /\ ~SearchedBy(q, d)
    BY DEF FindNoSession, At, Responsible, SearchedBy
  <2>. QED
    BY <1>1, <2>1, OwnerKept DEF FindNoSession, Owned, Held
<1>. QED
  BY <1>2, <1>3, <1>4 DEF Inv

LEMMA StopDirectStep ==
  ASSUME Inv, NEW c \in Cameras, StopDirect(c) PROVE Inv'
<1>. Cmd \in Threads /\ Cmd \notin Jobs /\ Cmd \notin Searches /\ "consumers" \in Positions
  BY SharingAssumption DEF Threads, Positions
<1>1. /\ thread' \in [Threads -> Locals]
      /\ thread'[Cmd].pc = "consumers" /\ thread'[Cmd].cam = c
      /\ \A u \in Threads \ {Cmd} : thread'[u] = thread[u]
  BY BeginMoves DEF StopDirect, Inv
<1>2. TypeOK'
  BY <1>1 DEF StopDirect, Inv, TypeOK
<1>3. ThreadInv'
  <2>1. Placed(Cmd)' /\ Starting(Cmd)'
    BY <1>1 DEF Placed, Starting, At
  <2>. QED
    BY <1>1, <2>1, OthersKept DEF ThreadInv, StopDirect
<1>4. OwnerInv'
  <2>1. \A d \in Cameras : ~Responsible(Cmd, d)
    BY DEF StopDirect, At, Responsible
  <2>2. Responsible(Cmd, c)'
    BY <1>1 DEF Responsible
  <2>3. \A d \in Cameras \ {c} : d \in requested => d \in requested'
    BY DEF StopDirect
  <2>. QED
    BY <1>1, <2>1, <2>2, <2>3, OwnerKept DEF StopDirect, Owned, Held
<1>. QED
  BY <1>2, <1>3, <1>4 DEF Inv

LEMMA LockForCameraStep ==
  ASSUME Inv, NEW t \in Threads, LockForCamera(t) PROVE Inv'
<1>1. /\ thread' \in [Threads -> Locals]
      /\ thread'[t].pc = "check" /\ thread'[t].cam = thread[t].cam
      /\ \A u \in Threads \ {t} : thread'[u] = thread[u]
  <2>1. thread[t] \in Locals /\ "check" \in Positions
    BY DEF Inv, TypeOK, Positions
  <2>2. \A b \in BOOLEAN : /\ [thread[t] EXCEPT !.pc = "check", !.before = b] \in Locals
                           /\ [thread[t] EXCEPT !.pc = "check", !.before = b].pc = "check"
                           /\ [thread[t] EXCEPT !.pc = "check", !.before = b].cam = thread[t].cam
    BY <2>1 DEF Locals
  <2>3. thread' = [thread EXCEPT ![t] = [thread[t] EXCEPT !.pc = "check",
                     !.before = (t = Cmd /\ thread[t].cam \in requested)]]
    BY DEF LockForCamera
  <2>4. (t = Cmd /\ thread[t].cam \in requested) \in BOOLEAN
    OBVIOUS
  <2>. DEFINE b == t = Cmd /\ thread[t].cam \in requested
  <2>. HIDE DEF b
  <2>. QED
    BY <2>2, <2>3, <2>4 DEF Inv, TypeOK, b
<1>2. thread[t].cam \in Cameras
  BY DEF LockForCamera, Inv, ThreadInv, Placed, At
<1>3. TypeOK'
  BY <1>1, <1>2 DEF LockForCamera, Inv, TypeOK
<1>4. ThreadInv'
  <2>1. Placed(t)' /\ Starting(t)'
    BY <1>1, <1>2 DEF Placed, Starting, At, LockForCamera
  <2>. QED
    BY <1>1, <2>1, OthersKept DEF ThreadInv, LockForCamera
<1>5. OwnerInv'
  <2>1. \A d \in Cameras : ~Responsible(t, d) /\ ~SearchedBy(t, d)
    BY DEF LockForCamera, At, Responsible, SearchedBy
  <2>2. requested \subseteq requested'
    BY DEF LockForCamera
  <2>. QED
    BY <1>1, <2>1, <2>2, OwnerKept DEF LockForCamera, Owned, Held
<1>. QED
  BY <1>3, <1>4, <1>5 DEF Inv

(* The end of a start by t, on a camera with the session it asked for. *)
LEMMA StartedKept ==
  ASSUME Inv, NEW t \in Threads, Started(t), At(t, "check") \/ At(t, "create"),
         refs' = refs, TypeOK', Cfg(t) = sessions'[thread[t].cam],
         \A c \in Cameras \ {thread[t].cam} : sessions'[c] = sessions[c],
         sessions'[thread[t].cam] = sessions[thread[t].cam] \/ At(t, "create")
  PROVE  Inv'
<1>1. thread[t].cam \in Cameras /\ admission = t /\ (t \in Jobs => thread[t].step \in Steps)
  BY DEF Inv, ThreadInv, Placed, Starting, At
<1>2. ThreadInv'
  <2>1. Placed(t)' /\ Starting(t)'
    BY <1>1, StartedMoves, SharingAssumption
       DEF Placed, Starting, At, IdleThread, Threads
  <2>2. admission' \in {admission, None}
    BY StartedMoves DEF Threads
  <2>. QED
    BY <1>1, <2>1, <2>2, StartedMoves, OthersKept DEF ThreadInv
<1>3. OwnerInv'
  <2>. SUFFICES ASSUME NoConflict, NEW c \in Cameras
                PROVE  /\ sessions'[c] \in {"direct", "job"} => Owned(c)'
                       /\ sessions'[c] = "temp" => \E q \in Searches : SearchedBy(q, c)'
                       /\ SharedCfg => sessions'[c] # "job"
    BY DEF OwnerInv
  <2>1. CASE c = thread[t].cam
    <3>1. CASE t \in Jobs
      BY <2>1, <3>1, StartedMoves, SharingAssumption DEF Owned, Responsible, Cfg
    <3>2. CASE t = Cmd
      <4>1. c \in requested
        BY <2>1, <3>2 DEF Inv, ThreadInv, Starting
      <4>. QED
        BY <2>1, <3>2, <4>1, StartedMoves, SharingAssumption DEF Owned, Cfg
    <3>3. CASE t \in Searches
      BY <2>1, <3>3, StartedMoves DEF SearchedBy, Cfg
    <3>. QED
      BY <3>1, <3>2, <3>3 DEF Threads
  <2>2. CASE c # thread[t].cam
    <3>1. ASSUME Owned(c) PROVE Owned(c)'
      <4>1. requested' = requested
        BY StartedMoves
      <4>2. ASSUME NEW u \in Threads, Responsible(u, c) PROVE Responsible(u, c)'
        BY <2>2, <4>2, StartedMoves DEF Responsible
      <4>. QED
        BY <3>1, <4>1, <4>2 DEF Owned, Held
    <3>2. ASSUME NEW q \in Searches, SearchedBy(q, c) PROVE SearchedBy(q, c)'
      BY <2>2, <3>2, StartedMoves DEF SearchedBy, Threads
    <3>. QED
      BY <2>2, <3>1, <3>2 DEF Inv, OwnerInv
  <2>. QED
    BY <2>1, <2>2
<1>. QED
  BY <1>2, <1>3 DEF Inv

LEMMA CfgType == ASSUME NEW t \in Threads PROVE Cfg(t) \in Configs
BY DEF Cfg, Configs

LEMMA StartedType ==
  ASSUME Inv, NEW t \in Threads, Started(t), At(t, "check") \/ At(t, "create")
  PROVE  admission' \in Threads \cup {None}
BY StartedMoves DEF Threads, Inv, TypeOK

LEMMA ReuseSessionStep ==
  ASSUME Inv, NEW t \in Threads, ReuseSession(t) PROVE Inv'
<1>1. TypeOK'
  BY StartedMoves, StartedType DEF ReuseSession, Inv, TypeOK
<1>. QED
  BY <1>1, StartedKept DEF ReuseSession

LEMMA CreateSessionStep ==
  ASSUME Inv, NEW t \in Threads, CreateSession(t) PROVE Inv'
<1>1. thread[t].cam \in Cameras
  BY DEF CreateSession, Inv, ThreadInv, Placed, At
<1>2. sessions' \in [Cameras -> Configs \cup {None}]
  BY <1>1, CfgType DEF CreateSession, Inv, TypeOK
<1>3. TypeOK'
  BY <1>2, StartedMoves, StartedType DEF CreateSession, Inv, TypeOK
<1>4. /\ sessions'[thread[t].cam] = Cfg(t)
      /\ \A c \in Cameras \ {thread[t].cam} : sessions'[c] = sessions[c]
  BY <1>1 DEF CreateSession, Inv, TypeOK
<1>. QED
  BY <1>3, <1>4, StartedKept DEF CreateSession

(* A start by t that fails on a camera without a session, or whose session *)
(* does not need the direct service.                                       *)
LEMMA NotStartedKept ==
  ASSUME Inv, NEW t \in Threads, NotStarted(t), At(t, "check") \/ At(t, "create"),
         refs' = refs, sessions' = sessions, TypeOK',
         NoConflict /\ t = Cmd => sessions[thread[t].cam] \notin {"direct", "job"}
  PROVE  Inv'
<1>1. thread[t].cam \in Cameras /\ admission = t
  BY DEF Inv, ThreadInv, Placed, Starting, At
<1>2. ThreadInv'
  <2>1. Placed(t)' /\ Starting(t)'
    BY <1>1, NotStartedMoves, SharingAssumption
       DEF Placed, Starting, At, IdleThread, Threads
  <2>2. t = Cmd \/ requested' = requested
    BY NotStartedMoves
  <2>. QED
    BY <1>1, <2>1, <2>2, NotStartedMoves, OthersKept DEF ThreadInv
<1>3. OwnerInv'
  <2>. SUFFICES ASSUME NoConflict, NEW c \in Cameras
                PROVE  /\ sessions[c] \in {"direct", "job"} => Owned(c)'
                       /\ sessions[c] = "temp" => \E q \in Searches : SearchedBy(q, c)'
                       /\ SharedCfg => sessions[c] # "job"
    BY DEF OwnerInv
  <2>1. ~Responsible(t, c) /\ ~SearchedBy(t, c)
    BY DEF Responsible, SearchedBy, At
  <2>2. ASSUME sessions[c] \in {"direct", "job"} PROVE Owned(c)'
    <3>1. c \in requested => c \in requested'
      BY <2>2, NotStartedMoves
    <3>2. ASSUME NEW u \in Threads, Responsible(u, c) PROVE Responsible(u, c)'
      BY <2>1, <3>2, NotStartedMoves DEF Responsible
    <3>. QED
      BY <2>2, <3>1, <3>2 DEF Inv, OwnerInv, Owned, Held
  <2>3. ASSUME NEW q \in Searches, SearchedBy(q, c) PROVE SearchedBy(q, c)'
    BY <2>1, <2>3, NotStartedMoves DEF SearchedBy, Threads
  <2>. QED
    BY <2>2, <2>3 DEF Inv, OwnerInv
<1>. QED
  BY <1>2, <1>3 DEF Inv

LEMMA NotStartedType ==
  ASSUME Inv, NEW t \in Threads, NotStarted(t), At(t, "check") \/ At(t, "create"),
         UNCHANGED << sessions, refs, targets, runs >>, faults' \in 0..MaxFaults
  PROVE  TypeOK'
<1>1. admission' \in Threads \cup {None} /\ requested' \subseteq Cameras
  BY NotStartedMoves DEF Inv, TypeOK
<1>. QED
  BY <1>1, NotStartedMoves DEF Inv, TypeOK

LEMMA RefuseSessionStep ==
  ASSUME Inv, NEW t \in Threads, RefuseSession(t) PROVE Inv'
<1>1. TypeOK'
  BY NotStartedType DEF RefuseSession, Inv, TypeOK
<1>2. thread[t].cam \in Cameras
  BY DEF RefuseSession, Inv, ThreadInv, Placed, At
<1>3. NoConflict /\ t = Cmd => sessions[thread[t].cam] \notin {"direct", "job"}
  BY <1>2, SharingAssumption DEF RefuseSession, Inv, OwnerInv, Cfg, NoConflict
<1>. QED
  BY <1>1, <1>3, NotStartedKept DEF RefuseSession

LEMMA CreateFailsStep ==
  ASSUME Inv, NEW t \in Threads, CreateFails(t) PROVE Inv'
<1>1. faults' \in 0..MaxFaults
  BY SharingAssumption DEF CreateFails, Inv, TypeOK
<1>2. TypeOK'
  BY <1>1, NotStartedType DEF CreateFails
<1>3. sessions[thread[t].cam] \notin {"direct", "job"}
  BY SharingAssumption DEF CreateFails, Inv, ThreadInv, Starting
<1>. QED
  BY <1>2, <1>3, NotStartedKept DEF CreateFails

LEMMA ReplaceSessionStep ==
  ASSUME Inv, NEW t \in Threads, ReplaceSession(t) PROVE Inv'
<1>1. /\ thread' \in [Threads -> Locals]
      /\ thread'[t].pc = "create" /\ thread'[t].cam = thread[t].cam
      /\ thread'[t].step = thread[t].step
      /\ \A u \in Threads \ {t} : thread'[u] = thread[u]
  BY GotoMoves DEF ReplaceSession, Inv, Positions
<1>2. thread[t].cam \in Cameras /\ admission = t /\ (t \in Jobs => thread[t].step \in Steps)
  BY DEF ReplaceSession, Inv, ThreadInv, Placed, Starting, At
<1>3. /\ \A c \in Cameras : sessions'[c] \in {sessions[c], None}
      /\ sessions'[thread[t].cam] = None
  BY <1>2 DEF ReplaceSession, Inv, TypeOK
<1>4. TypeOK'
  BY <1>1, <1>2 DEF ReplaceSession, Inv, TypeOK
<1>5. ThreadInv'
  <2>1. t = Cmd => thread[t].cam \in requested
    BY DEF ReplaceSession, Inv, ThreadInv, Starting
  <2>2. Placed(t)' /\ Starting(t)'
    BY <1>1, <1>2, <1>3, <2>1 DEF Placed, Starting, At, ReplaceSession
  <2>. QED
    BY <1>1, <1>2, <2>2, OthersKept DEF ThreadInv, ReplaceSession
<1>6. OwnerInv'
  <2>1. \A d \in Cameras : ~Responsible(t, d) /\ ~SearchedBy(t, d)
    BY DEF ReplaceSession, At, Responsible, SearchedBy
  <2>. QED
    BY <1>1, <1>3, <2>1, OwnerKept DEF ReplaceSession, Owned, Held
<1>. QED
  BY <1>4, <1>5, <1>6 DEF Inv

LEMMA StartStepStep ==
  ASSUME Inv, NEW s \in Steps, StartStep(s) PROVE Inv'
<1>. DEFINE j == JobOf[s]
<1>0. j \in Jobs /\ j \in Threads /\ j # Cmd /\ j \notin Searches
  BY SharingAssumption DEF Threads
<1>1. /\ thread' \in [Threads -> Locals]
      /\ thread'[j].pc = "lock" /\ thread'[j].step = s
      /\ \A u \in Threads \ {j} : thread'[u] = thread[u]
  <2>1. [IdleThread EXCEPT !.pc = "lock", !.step = s] \in Locals
    BY IdleType DEF Locals, Positions
  <2>. QED
    BY <1>0, <2>1, IdleType DEF StartStep, Inv, TypeOK, Locals
<1>2. TypeOK'
  BY <1>1 DEF StartStep, Inv, TypeOK, StepStates
<1>3. ThreadInv'
  <2>1. Placed(j)' /\ Starting(j)'
    BY <1>0, <1>1 DEF Placed, Starting, At
  <2>. QED
    BY <1>0, <1>1, <2>1, OthersKept DEF ThreadInv, StartStep
<1>4. OwnerInv'
  <2>1. \A d \in Cameras : ~Responsible(j, d)
    BY DEF StartStep, At, Responsible
  <2>. QED
    BY <1>0, <1>1, <2>1, OwnerKept DEF StartStep, Owned, Held
<1>. QED
  BY <1>2, <1>3, <1>4 DEF Inv

LEMMA LockForStepStep ==
  ASSUME Inv, NEW j \in Jobs, LockForStep(j) PROVE Inv'
<1>. DEFINE s == thread[j].step
<1>0. j \in Threads /\ j # Cmd /\ j \notin Searches /\ s \in Steps
  BY SharingAssumption DEF Threads, LockForStep, Inv, ThreadInv, Placed, At
<1>1. PICK blocked \in SUBSET {c \in CamerasOf[s] : sessions[c] # Cfg(j)} :
        LET admitted == CamerasOf[s] \ blocked IN
          IF admitted = {}
          THEN /\ steps' = [steps EXCEPT ![s] = "skipped"]
               /\ Rest(j) /\ UNCHANGED admission
          ELSE /\ admission' = j /\ UNCHANGED steps
               /\ \E c \in admitted : thread' = [thread EXCEPT ![j].pc = "check",
                                        ![j].cam = c, ![j].todo = admitted \ {c}]
  BY DEF LockForStep
<1>. DEFINE admitted == CamerasOf[s] \ blocked
<1>2. admitted \in SUBSET Cameras
  BY <1>0, SharingAssumption
<1>3. /\ thread' \in [Threads -> Locals]
      /\ \A u \in Threads \ {j} : thread'[u] = thread[u]
      /\ \/ thread'[j] = IdleThread
         \/ /\ thread'[j].pc = "check" /\ thread'[j].cam \in Cameras
            /\ thread'[j].step = s /\ admission' = j
      /\ admission' \in {admission, j}
      /\ steps' \in [Steps -> StepStates]
  <2>1. CASE admitted = {}
    BY <1>0, <1>1, <2>1, RestMoves DEF Inv, TypeOK, StepStates
  <2>2. CASE admitted # {}
    <3>1. PICK c \in admitted : thread' = [thread EXCEPT ![j].pc = "check",
                                        ![j].cam = c, ![j].todo = admitted \ {c}]
      BY <1>1, <2>2
    <3>2. admission' = j /\ UNCHANGED steps
      BY <1>1, <2>2
    <3>. HIDE DEF admitted
    <3>3. thread[j] \in Locals
      BY <1>0 DEF Inv, TypeOK
    <3>4. [thread[j] EXCEPT !.pc = "check", !.cam = c, !.todo = admitted \ {c}] \in Locals
      BY <1>2, <3>1, <3>3 DEF Locals, Positions
    <3>5. thread' = [thread EXCEPT ![j] = [thread[j] EXCEPT !.pc = "check", !.cam = c,
                                                           !.todo = admitted \ {c}]]
      BY <3>1
    <3>. QED
      BY <1>0, <1>2, <3>2, <3>3, <3>4, <3>5 DEF Inv, TypeOK, Locals
  <2>. QED
    BY <2>1, <2>2
<1>4. TypeOK'
  BY <1>0, <1>3 DEF LockForStep, Inv, TypeOK
<1>5. ThreadInv'
  <2>1. Placed(j)' /\ Starting(j)'
    BY <1>0, <1>3 DEF Placed, Starting, At, IdleThread
  <2>2. admission = None /\ UNCHANGED << sessions, requested >>
    BY DEF LockForStep
  <2>. QED
    BY <1>0, <1>3, <2>1, <2>2, OthersKept DEF ThreadInv
<1>6. OwnerInv'
  <2>1. \A d \in Cameras : ~Responsible(j, d)
    BY DEF LockForStep, At, Responsible
  <2>2. UNCHANGED << sessions, requested, refs >>
    BY DEF LockForStep
  <2>. QED
    BY <1>0, <1>3, <2>1, <2>2, OwnerKept DEF Owned, Held
<1>. QED
  BY <1>4, <1>5, <1>6 DEF Inv

LEMMA AcquireStep ==
  ASSUME Inv, NEW j \in Jobs, Acquire(j) PROVE Inv'
<1>. DEFINE s == thread[j].step
<1>. DEFINE cam == thread[j].cam
<1>. DEFINE got == thread[j].acquired \cup {cam}
<1>0. /\ j \in Threads /\ j # Cmd /\ j \notin Searches
      /\ s \in Steps /\ cam \in Cameras /\ admission = j
      /\ got \in SUBSET Cameras /\ thread[j].todo \in SUBSET Cameras
  <2>1. j \in Threads /\ j # Cmd /\ j \notin Searches
    BY SharingAssumption DEF Threads
  <2>2. s \in Steps /\ cam \in Cameras /\ admission = j
    BY <2>1 DEF Acquire, Inv, ThreadInv, Placed, Starting, At
  <2>3. thread[j] \in Locals
    BY <2>1 DEF Inv, TypeOK
  <2>4. thread[j].acquired \in SUBSET Cameras /\ thread[j].todo \in SUBSET Cameras
    BY <2>3 DEF Locals
  <2>. QED
    BY <2>1, <2>2, <2>4
<1>1. /\ thread' \in [Threads -> Locals]
      /\ \A u \in Threads \ {j} : thread'[u] = thread[u]
      /\ \/ thread'[j] = IdleThread
         \/ /\ thread'[j].pc = "check" /\ thread'[j].cam \in Cameras
            /\ thread'[j].step = s /\ admission' = j
      /\ admission' \in {j, None}
      /\ targets' \in [Steps -> SUBSET Cameras]
  <2>1. CASE thread[j].todo = {}
    BY <1>0, <2>1, RestMoves DEF Acquire, Inv, TypeOK
  <2>2. CASE thread[j].todo # {}
    <3>1. PICK c \in thread[j].todo : thread' = [thread EXCEPT ![j].pc = "check",
                ![j].cam = c, ![j].todo = @ \ {c}, ![j].acquired = got]
      BY <2>2 DEF Acquire
    <3>2. targets' = targets /\ admission' = admission /\ c \in Cameras
      BY <1>0, <2>2, <3>1 DEF Acquire
    <3>. HIDE DEF got, cam
    <3>3. thread[j] \in Locals
      BY <1>0 DEF Inv, TypeOK
    <3>. DEFINE new == [thread[j] EXCEPT !.pc = "check", !.cam = c, !.todo = @ \ {c},
                                         !.acquired = got]
    <3>4. new \in Locals /\ new.pc = "check" /\ new.cam = c /\ new.step = s
      BY <1>0, <3>1, <3>3 DEF Locals, Positions
    <3>5. thread' = [thread EXCEPT ![j] = new]
      BY <3>1
    <3>. HIDE DEF new
    <3>6. thread' \in [Threads -> Locals] /\ thread'[j] = new
          /\ \A u \in Threads \ {j} : thread'[u] = thread[u]
      BY <1>0, <3>4, <3>5 DEF Inv, TypeOK
    <3>. HIDE DEF s
    <3>. QED
      BY <1>0, <3>2, <3>4, <3>6 DEF Inv, TypeOK
  <2>. QED
    BY <2>1, <2>2
<1>2. /\ refs' \in [Cameras \X Steps -> Nat]
      /\ refs'[<<cam, s>>] > 0
      /\ \A c \in Cameras : Held(c) => Held(c)'
  <2>1. refs' = [refs EXCEPT ![<<cam, s>>] = @ + 1] /\ refs \in [Cameras \X Steps -> Nat]
    BY DEF Acquire, Inv, TypeOK
  <2>2. <<cam, s>> \in Cameras \X Steps
    BY <1>0
  <2>3. refs' \in [Cameras \X Steps -> Nat] /\ refs'[<<cam, s>>] > 0
    BY <2>1, <2>2
  <2>4. \A c \in Cameras, o \in Steps : refs[<<c, o>>] > 0 => refs'[<<c, o>>] > 0
    BY <2>1, <2>2
  <2>. QED
    BY <2>3, <2>4 DEF Held
<1>3. TypeOK'
  BY <1>0, <1>1, <1>2 DEF Acquire, Inv, TypeOK
<1>4. ThreadInv'
  <2>1. Placed(j)' /\ Starting(j)'
    BY <1>0, <1>1 DEF Placed, Starting, At, IdleThread
  <2>. QED
    BY <1>0, <1>1, <2>1, OthersKept DEF ThreadInv, Acquire
<1>5. OwnerInv'
  <2>1. \A d \in Cameras : Responsible(j, d) => Held(d)'
    BY <1>0, <1>2 DEF Responsible, Held
  <2>. QED
    BY <1>0, <1>1, <1>2, <2>1, OwnerKept DEF Acquire, Owned
<1>. QED
  BY <1>3, <1>4, <1>5 DEF Inv

LEMMA FinalizeStepStep ==
  ASSUME Inv, NEW s \in Steps, FinalizeStep(s) PROVE Inv'
<1>. DEFINE j == JobOf[s]
<1>. DEFINE cams == {c \in targets[s] : ~UsedByOtherRunningStep(s, c)}
<1>0. /\ j \in Jobs /\ j \in Threads /\ j # Cmd /\ j \notin Searches
      /\ cams \in SUBSET Cameras
  BY SharingAssumption DEF Threads, Inv, TypeOK
<1>1. /\ thread' \in [Threads -> Locals]
      /\ \A u \in Threads \ {j} : thread'[u] = thread[u]
      /\ \/ thread' = thread
         \/ /\ thread'[j].pc = "release" /\ thread'[j].cam \in Cameras
            /\ thread'[j].step = s
      /\ steps' \in [Steps -> StepStates]
  <2>1. CASE cams = {}
    BY <2>1 DEF FinalizeStep, Inv, TypeOK, StepStates
  <2>2. CASE cams # {}
    <3>1. StopEach(j, s, cams) /\ UNCHANGED steps
      BY <2>2 DEF FinalizeStep
    <3>. HIDE DEF cams, j
    <3>. QED
      BY <1>0, <3>1, StopEachMoves DEF Inv, TypeOK
  <2>. QED
    BY <2>1, <2>2
<1>2. TypeOK'
  BY <1>1 DEF FinalizeStep, Inv, TypeOK
<1>3. ThreadInv'
  <2>1. Placed(j)' /\ Starting(j)'
    BY <1>0, <1>1 DEF Placed, Starting, At, FinalizeStep
  <2>. QED
    BY <1>0, <1>1, <2>1, OthersKept DEF ThreadInv, FinalizeStep
<1>4. OwnerInv'
  <2>1. \A d \in Cameras : ~Responsible(j, d)
    BY DEF FinalizeStep, At, Responsible
  <2>. QED
    BY <1>0, <1>1, <2>1, OwnerKept DEF FinalizeStep, Owned, Held
<1>. QED
  BY <1>2, <1>3, <1>4 DEF Inv

LEMMA NewRunStep ==
  ASSUME Inv, NEW j \in Jobs, NewRun(j) PROVE Inv'
<1>1. TypeOK'
  BY DEF NewRun, Inv, TypeOK, StepStates
<1>2. ThreadInv' /\ OwnerInv'
  BY DEF NewRun, Inv, ThreadInv, Placed, Starting, At, OwnerInv, Owned, Held,
         Responsible, SearchedBy
<1>. QED
  BY <1>1, <1>2 DEF Inv

LEMMA EndSearchStep ==
  ASSUME Inv, NEW q \in Searches, EndSearch(q) PROVE Inv'
<1>0. q \in Threads /\ q \notin Jobs /\ q # Cmd /\ thread[q].cam \in Cameras
  BY SharingAssumption DEF Threads, EndSearch, Inv, ThreadInv, Placed, At
<1>1. /\ thread' \in [Threads -> Locals]
      /\ \A u \in Threads \ {q} : thread'[u] = thread[u]
      /\ \/ thread'[q] = IdleThread /\ sessions[thread[q].cam] # "temp"
         \/ thread'[q].pc = "stop" /\ thread'[q].cam = thread[q].cam
  BY <1>0, RestMoves, GotoMoves DEF EndSearch, Cfg, Inv, Positions
<1>2. TypeOK'
  BY <1>1 DEF EndSearch, Inv, TypeOK
<1>3. ThreadInv'
  <2>1. Placed(q)' /\ Starting(q)'
    BY <1>0, <1>1 DEF Placed, Starting, At, IdleThread
  <2>. QED
    BY <1>0, <1>1, <2>1, OthersKept DEF ThreadInv, EndSearch
<1>4. OwnerInv'
  <2>1. \A d \in Cameras : ~Responsible(q, d)
    BY <1>0 DEF Responsible
  <2>2. \A d \in Cameras : sessions[d] = "temp" /\ SearchedBy(q, d) => SearchedBy(q, d)'
    BY <1>1 DEF SearchedBy
  <2>. QED
    BY <1>0, <1>1, <2>1, <2>2, OwnerKept DEF EndSearch, Owned, Held
<1>. QED
  BY <1>2, <1>3, <1>4 DEF Inv

LEMMA ReleaseStep ==
  ASSUME Inv, NEW j \in Jobs, Release(j) PROVE Inv'
<1>. DEFINE s == thread[j].step
<1>. DEFINE cam == thread[j].cam
<1>0. j \in Threads /\ j # Cmd /\ j \notin Searches /\ s \in Steps /\ cam \in Cameras
  BY SharingAssumption DEF Threads, Release, Inv, ThreadInv, Placed, At
<1>1. /\ thread' \in [Threads -> Locals]
      /\ thread'[j].pc = "consumers" /\ thread'[j].cam = cam /\ thread'[j].step = s
      /\ \A u \in Threads \ {j} : thread'[u] = thread[u]
  BY <1>0, GotoMoves DEF Release, Inv, Positions
<1>2. /\ refs' \in [Cameras \X Steps -> Nat]
      /\ \A c \in Cameras \ {cam} : Held(c) => Held(c)'
  <2>1. /\ refs' = [refs EXCEPT ![<<cam, s>>] = IF @ > 0 THEN @ - 1 ELSE 0]
        /\ refs \in [Cameras \X Steps -> Nat]
    BY DEF Release, Inv, TypeOK
  <2>. DEFINE n == refs[<<cam, s>>]
  <2>4. n \in Nat
    BY <1>0, <2>1
  <2>5. (IF n > 0 THEN n - 1 ELSE 0) \in Nat
    BY <2>4
  <2>6. refs' = [refs EXCEPT ![<<cam, s>>] = IF n > 0 THEN n - 1 ELSE 0]
    BY <2>1
  <2>2. refs' \in [Cameras \X Steps -> Nat]
    <3>. HIDE DEF n
    <3>. QED
      BY <2>1, <2>5, <2>6
  <2>3. \A c \in Cameras \ {cam}, o \in Steps : refs'[<<c, o>>] = refs[<<c, o>>]
    BY <2>1
  <2>. QED
    BY <2>2, <2>3 DEF Held
<1>3. TypeOK'
  BY <1>1, <1>2 DEF Release, Inv, TypeOK
<1>4. ThreadInv'
  <2>1. Placed(j)' /\ Starting(j)'
    BY <1>0, <1>1 DEF Placed, Starting, At
  <2>. QED
    BY <1>0, <1>1, <2>1, OthersKept DEF ThreadInv, Release
<1>5. OwnerInv'
  <2>1. \A d \in Cameras : ~Responsible(j, d)
    BY DEF Release, At, Responsible
  <2>2. Responsible(j, cam)'
    BY <1>1 DEF Responsible
  <2>3. \A d \in Cameras : d \in requested \/ Held(d) => Owned(d)'
    <3>1. requested' = requested
      BY DEF Release
    <3>3. \A d \in Cameras \ {cam} : d \in requested \/ Held(d) => Owned(d)'
      BY <1>2, <3>1 DEF Owned
    <3>4. ASSUME NEW d \in Cameras, d \in requested \/ Held(d) PROVE Owned(d)'
      <4>1. CASE d = cam
        BY <4>1, <1>0, <1>1 DEF Owned, Responsible
      <4>2. CASE d # cam
        BY <3>3, <3>4, <4>2
      <4>. QED
        BY <4>1, <4>2
    <3>. QED
      BY <3>4
  <2>. QED
    BY <1>0, <1>1, <2>1, <2>3, OwnerKept DEF Release
<1>. QED
  BY <1>3, <1>4, <1>5 DEF Inv

(* A thread that leaves a camera which has another owner, or no session.   *)
LEMMA LeaveKept ==
  ASSUME Inv, NEW t \in Threads, Leave(t), ~At(t, "idle"), ~At(t, "lock"),
         UNCHANGED << requested, refs, targets, runs, faults >>,
         \A c \in Cameras \ {thread[t].cam} : sessions'[c] = sessions[c],
         \/ sessions'[thread[t].cam] = None
         \/ /\ sessions'[thread[t].cam] = sessions[thread[t].cam]
            /\ t \notin Searches
            /\ thread[t].cam \in requested \/ Held(thread[t].cam),
         sessions' \in [Cameras -> Configs \cup {None}]
  PROVE  Inv'
<1>1. TypeOK'
  BY LeaveMoves DEF Inv, TypeOK
<1>2. \A c \in Cameras : sessions'[c] \in {sessions[c], None}
  OBVIOUS
<1>3. ThreadInv'
  <2>1. Placed(t)' /\ Starting(t)'
    BY LeaveMoves DEF Placed, Starting, At, IdleThread
  <2>. QED
    BY <1>2, <2>1, LeaveMoves, OthersKept DEF ThreadInv
<1>4. OwnerInv'
  <2>1. \A c \in Cameras : c \in requested \/ Held(c) => Owned(c)'
    BY DEF Owned, Held
  <2>2. \A c \in Cameras : sessions'[c] # None /\ Responsible(t, c) => Owned(c)'
    BY <2>1 DEF Responsible
  <2>3. \A c \in Cameras : sessions'[c] # None /\ t \in Searches => ~SearchedBy(t, c)
    BY DEF SearchedBy
  <2>. QED
    BY <1>2, <2>1, <2>2, <2>3, LeaveMoves, OwnerKept
<1>. QED
  BY <1>1, <1>3, <1>4 DEF Inv

(* A thread that found no other owner goes on towards the stop. *)
LEMMA GoOnKept ==
  ASSUME Inv, NEW t \in Threads \ Searches, NEW pc \in {"direct", "stop"}, Goto(t, pc),
         At(t, "consumers") \/ At(t, "direct"), pc = "direct" => t \in Jobs,
         UNCHANGED << sessions, requested, refs, admission, steps, targets, runs, faults >>
  PROVE  Inv'
<1>0. t \in Threads /\ pc \in Positions
      /\ thread[t].cam \in Cameras /\ (t \in Jobs => thread[t].step \in Steps)
  BY DEF Positions, Inv, ThreadInv, Placed, At
<1>1. /\ thread' \in [Threads -> Locals]
      /\ thread'[t].pc = pc /\ thread'[t].cam = thread[t].cam
      /\ thread'[t].step = thread[t].step
      /\ \A u \in Threads \ {t} : thread'[u] = thread[u]
  BY <1>0, GotoMoves DEF Inv
<1>2. TypeOK'
  BY <1>1 DEF Inv, TypeOK
<1>3. ThreadInv'
  <2>1. Placed(t)' /\ Starting(t)'
    BY <1>0, <1>1 DEF Placed, Starting, At
  <2>. QED
    BY <1>1, <2>1, OthersKept DEF ThreadInv
<1>4. OwnerInv'
  <2>1. \A c \in Cameras : Responsible(t, c) => Responsible(t, c)'
    BY <1>1 DEF Responsible
  <2>2. \A c \in Cameras : c \in requested \/ Held(c) => Owned(c)'
    BY DEF Owned, Held
  <2>. QED
    BY <1>0, <1>1, <2>1, <2>2, OwnerKept DEF Owned
<1>. QED
  BY <1>2, <1>3, <1>4 DEF Inv

LEMMA CheckConsumersStep ==
  ASSUME Inv, NEW t \in Threads, CheckConsumers(t) PROVE Inv'
<1>1. t \notin Searches /\ (t # Cmd => t \in Jobs)
  BY DEF CheckConsumers, Inv, ThreadInv, Placed, Threads
<1>2. CASE Held(thread[t].cam)
  BY <1>1, <1>2, LeaveKept DEF CheckConsumers, At, Inv, TypeOK
<1>3. CASE ~Held(thread[t].cam)
  BY <1>1, <1>3, GoOnKept DEF CheckConsumers
<1>. QED
  BY <1>2, <1>3

LEMMA CheckDirectStep ==
  ASSUME Inv, NEW j \in Jobs, CheckDirect(j) PROVE Inv'
<1>1. j \in Threads /\ j \notin Searches
  BY SharingAssumption DEF Threads
<1>2. CASE thread[j].cam \in requested
  BY <1>1, <1>2, LeaveKept DEF CheckDirect, At, Inv, TypeOK
<1>3. CASE thread[j].cam \notin requested
  BY <1>1, <1>3, GoOnKept DEF CheckDirect
<1>. QED
  BY <1>2, <1>3

LEMMA StopSessionStep ==
  ASSUME Inv, NEW t \in Threads, StopSession(t) PROVE Inv'
<1>1. thread[t].cam \in Cameras
  BY DEF StopSession, Inv, ThreadInv, Placed, At
<1>2. /\ sessions' \in [Cameras -> Configs \cup {None}]
      /\ sessions'[thread[t].cam] = None
      /\ \A c \in Cameras \ {thread[t].cam} : sessions'[c] = sessions[c]
  BY <1>1 DEF StopSession, Inv, TypeOK
<1>. QED
  BY <1>2, LeaveKept DEF StopSession, At

LEMMA StutterStep == ASSUME Inv, UNCHANGED vars PROVE Inv'
BY DEF vars, Inv, TypeOK, ThreadInv, Placed, Starting, At, OwnerInv, Owned, Held,
       Responsible, SearchedBy

-----------------------------------------------------------------------------
LEMMA InitInv == Init => Inv
<1>. SUFFICES ASSUME Init PROVE Inv
  OBVIOUS
<1>1. TypeOK
  BY IdleType, SharingAssumption DEF Init, TypeOK, StepStates
<1>2. \A t \in Threads : thread[t] = IdleThread
  BY DEF Init
<1>3. ThreadInv
  BY <1>2 DEF ThreadInv, Placed, Starting, At, IdleThread
<1>4. OwnerInv
  BY SharingAssumption DEF Init, OwnerInv
<1>. QED
  BY <1>1, <1>3, <1>4 DEF Inv

LEMMA NextInv == ASSUME Inv, [Next]_vars PROVE Inv'
<1>1. ASSUME NEW t \in Threads, StartingStep(t) PROVE Inv'
  BY <1>1, LockForCameraStep, ReuseSessionStep, RefuseSessionStep, ReplaceSessionStep,
     CreateSessionStep, CreateFailsStep DEF StartingStep
<1>2. ASSUME NEW t \in Threads, StoppingStep(t) PROVE Inv'
  BY <1>2, CheckConsumersStep, StopSessionStep DEF StoppingStep
<1>3. ASSUME NEW j \in Jobs, JobStep(j) PROVE Inv'
  BY <1>3, LockForStepStep, AcquireStep, ReleaseStep, CheckDirectStep DEF JobStep
<1>. QED
  BY <1>1, <1>2, <1>3, StartCameraStep, StopDirectStep, FindNoSessionStep, EndSearchStep,
     StartStepStep, FinalizeStepStep, NewRunStep, StutterStep DEF Next

LEMMA InvNoOrphan == Inv /\ NoConflict => NoOrphanSession
<1>. SUFFICES ASSUME Inv, NoConflict, NEW c \in Cameras, Quiet(c), sessions[c] # None
              PROVE  c \in requested \/ Held(c)
  BY DEF NoOrphanSession
<1>1. \A t \in Threads : ~Responsible(t, c) /\ ~SearchedBy(t, c)
  BY DEF Quiet, Responsible, SearchedBy
<1>2. sessions[c] \in {"direct", "job", "temp"}
  BY DEF Inv, TypeOK, Configs
<1>. QED
  BY <1>1, <1>2 DEF Inv, OwnerInv, Owned, Threads

(* Every variable keeps its type.                                          *)
THEOREM TypeCorrect == Spec => []TypeOK
<1>1. Inv /\ [Next]_vars => Inv'
  BY NextInv
<1>2. Inv => TypeOK
  BY DEF Inv
<1>. QED
  BY InitInv, <1>1, <1>2, PTL DEF Spec

(* Unless starts may be refused for lack of memory while jobs and direct   *)
(* services configure a camera differently, no session is left without an  *)
(* owner, however many jobs, searches and commands work on it at once.     *)
THEOREM NoOrphan == ASSUME NoConflict PROVE Spec => []NoOrphanSession
<1>1. Inv /\ [Next]_vars => Inv'
  BY NextInv
<1>2. Inv => NoOrphanSession
  BY InvNoOrphan
<1>. QED
  BY InitInv, <1>1, <1>2, PTL DEF Spec

(* A step puts a session only where there is none: the map entry is empty  *)
(* from ReplaceSession to CreateSession.                                   *)
LEMMA StepNoOverwrite ==
  ASSUME Inv, [Next]_vars, NEW c \in Cameras, sessions'[c] # sessions[c]
  PROVE  None \in {sessions[c], sessions'[c]}
<1>1. ASSUME NEW t \in Threads, StartingStep(t)
      PROVE  None \in {sessions[c], sessions'[c]}
  <2>1. CASE ReplaceSession(t)
    BY <2>1 DEF ReplaceSession, Inv, TypeOK
  <2>2. CASE CreateSession(t)
    <3>1. thread[t].cam = c
      BY <2>2 DEF CreateSession, Inv, TypeOK
    <3>. QED
      BY <2>2, <3>1 DEF CreateSession, Inv, ThreadInv, Starting
  <2>. QED
    BY <1>1, <2>1, <2>2 DEF StartingStep, LockForCamera, ReuseSession, RefuseSession,
                            CreateFails
<1>2. ASSUME NEW t \in Threads, StoppingStep(t)
      PROVE  None \in {sessions[c], sessions'[c]}
  BY <1>2 DEF StoppingStep, CheckConsumers, StopSession, Inv, TypeOK
<1>3. ASSUME NEW j \in Jobs, JobStep(j) PROVE FALSE
  BY <1>3 DEF JobStep, LockForStep, Acquire, Release, CheckDirect
<1>4. ~UNCHANGED vars
  BY DEF vars
<1>. QED
  BY <1>1, <1>2, <1>3, <1>4 DEF Next, StartCamera, StopDirect, FindNoSession, EndSearch,
     StartStep, FinalizeStep, NewRun

(* No start ever drops a session that was not taken out and stopped.       *)
THEOREM NeverOverwritten == Spec => NoOverwrite
<1>1. Inv /\ [Next]_vars => Inv'
  BY NextInv
<1>2. Inv /\ [Next]_vars =>
        [\A c \in Cameras : sessions'[c] # sessions[c]
                             => None \in {sessions[c], sessions'[c]}]_vars
  BY StepNoOverwrite
<1>. QED
  BY InitInv, <1>1, <1>2, PTL DEF Spec, NoOverwrite

-----------------------------------------------------------------------------
(* A session that is kept serves a running step, for jobs whose steps do   *)
(* not share cameras.  (Two steps of a job on one camera may both pass     *)
(* over it when they end: freezeStepCaptureAndCamera.)                     *)

DisjointSteps ==
  \A s, o \in Steps : s # o /\ JobOf[s] = JobOf[o] => CamerasOf[s] \cap CamerasOf[o] = {}

Doing(s) == thread[JobOf[s]].step = s

(* Step s may hold camera c: it is one of its targets, or, while its job   *)
(* starts or stops it, one acquired so far or not yet released.            *)
MayHold(s, c) ==
  LET own == thread[JobOf[s]] IN
  \/ ~Doing(s) /\ steps[s] = "running" /\ c \in targets[s]
  \/ /\ Doing(s)
     /\ \/ own.pc \in {"check", "create", "acquire"} /\ c \in own.acquired
        \/ own.pc = "release" /\ c \in {own.cam} \cup own.todo
        \/ own.pc \in {"consumers", "direct", "stop"} /\ c \in own.todo

HeldRightly(s) ==
  \A c \in Cameras : refs[<<c, s>>] \in {0, 1} /\ (refs[<<c, s>>] = 1 => MayHold(s, c))

(* What the thread of a job knows of the step it starts or stops.          *)
StepKnown(j) ==
  LET own == thread[j] IN
  /\ own.step \in Steps => JobOf[own.step] = j /\ own.pc # "idle"
  /\ own.pc = "lock" => own.todo = {} /\ own.acquired = {}
  /\ own.pc \in {"lock", "check", "create", "acquire"} => steps[own.step] = "running"
  /\ own.pc \in {"check", "create", "acquire"} =>
       /\ own.cam \notin own.todo /\ (own.todo \cup {own.cam}) \cap own.acquired = {}
       /\ own.todo \cup {own.cam} \cup own.acquired \subseteq CamerasOf[own.step]

UseInv ==
  /\ \A j \in Jobs : StepKnown(j)
  /\ \A s \in Steps : targets[s] \subseteq CamerasOf[s] /\ HeldRightly(s)

(* A step of one job's thread concerns the steps of that job only.         *)
LEMMA OwnSteps ==
  ASSUME Inv, UseInv, NEW t \in Threads,
         \A u \in Threads \ {t} : thread'[u] = thread[u],
         \A s \in Steps : JobOf[s] # t =>
           /\ steps'[s] = steps[s] /\ targets'[s] = targets[s]
           /\ \A c \in Cameras : refs'[<<c, s>>] = refs[<<c, s>>],
         t \in Jobs =>
           /\ StepKnown(t)'
           /\ \A s \in Steps : JobOf[s] = t => targets'[s] \subseteq CamerasOf[s] /\ HeldRightly(s)'
  PROVE  UseInv'
<1>1. ASSUME NEW j \in Jobs \ {t} PROVE StepKnown(j)'
  <2>1. thread'[j] = thread[j] /\ StepKnown(j)
    BY DEF UseInv, Threads
  <2>2. thread[j].pc \in {"lock", "check", "create", "acquire"} =>
          thread[j].step \in Steps /\ JobOf[thread[j].step] = j
    BY <2>1 DEF Inv, ThreadInv, Placed, At, StepKnown, Threads
  <2>3. thread[j].pc \in {"lock", "check", "create", "acquire"} =>
          steps'[thread[j].step] = steps[thread[j].step]
    BY <2>2
  <2>. QED
    BY <2>1, <2>3 DEF StepKnown
<1>2. ASSUME NEW s \in Steps, JobOf[s] # t
      PROVE  targets'[s] \subseteq CamerasOf[s] /\ HeldRightly(s)'
  <2>1. JobOf[s] \in Threads /\ thread'[JobOf[s]] = thread[JobOf[s]]
    BY <1>2, SharingAssumption DEF Threads
  <2>. QED
    BY <1>2, <2>1 DEF UseInv, HeldRightly, MayHold, Doing
<1>3. ASSUME NEW j \in Jobs PROVE StepKnown(j)'
  <2>1. CASE j = t
    BY <2>1
  <2>2. CASE j # t
    BY <1>1, <2>2
  <2>. QED
    BY <2>1, <2>2
<1>4. ASSUME NEW s \in Steps PROVE targets'[s] \subseteq CamerasOf[s] /\ HeldRightly(s)'
  <2>1. CASE JobOf[s] = t
    BY <2>1, SharingAssumption
  <2>2. CASE JobOf[s] # t
    BY <1>2, <2>2
  <2>. QED
    BY <2>1, <2>2
<1>. QED
  BY <1>3, <1>4 DEF UseInv

(* The other steps of the job are not touched, nor is what they hold.      *)
LEMMA OwnStep ==
  ASSUME Inv, UseInv, NEW j \in Jobs, NEW s \in Steps, JobOf[s] = j,
         thread[j].step \in {s, None}, thread'[j].step \in {s, None},
         \A u \in Threads \ {j} : thread'[u] = thread[u],
         \A o \in Steps \ {s} :
           /\ steps'[o] = steps[o] /\ targets'[o] = targets[o]
           /\ \A c \in Cameras : refs'[<<c, o>>] = refs[<<c, o>>],
         StepKnown(j)', targets'[s] \subseteq CamerasOf[s], HeldRightly(s)'
  PROVE  UseInv'
<1>1. j \in Threads /\ None \notin Steps
  BY SharingAssumption DEF Threads
<1>2. ASSUME NEW o \in Steps \ {s}, JobOf[o] = j
      PROVE  targets'[o] \subseteq CamerasOf[o] /\ HeldRightly(o)'
  <2>1. ~Doing(o) /\ ~Doing(o)'
    BY <1>1, <1>2 DEF Doing
  <2>. QED
    BY <1>2, <2>1 DEF UseInv, HeldRightly, MayHold
<1>3. \A o \in Steps : JobOf[o] # j =>
        /\ steps'[o] = steps[o] /\ targets'[o] = targets[o]
        /\ \A c \in Cameras : refs'[<<c, o>>] = refs[<<c, o>>]
  OBVIOUS
<1>4. \A o \in Steps : JobOf[o] = j => targets'[o] \subseteq CamerasOf[o] /\ HeldRightly(o)'
  BY <1>2
<1>. QED
  BY <1>1, <1>3, <1>4, OwnSteps

(* The thread of job j is through with step s. *)
StepEnds(j, s) ==
  /\ Rest(j)
  /\ \A o \in Steps \ {s} : steps'[o] = steps[o]

(* What a thread that is not of a job does. *)
LEMMA OthersUse ==
  ASSUME Inv, UseInv, NEW t \in Threads \ Jobs,
         \A u \in Threads \ {t} : thread'[u] = thread[u],
         UNCHANGED << steps, targets, refs >>
  PROVE  UseInv'
BY OwnSteps

(* The thread of a job goes from one position to the next ... *)
LEMMA GoUse ==
  ASSUME Inv, UseInv, NEW j \in Jobs, NEW pc \in Positions, Goto(j, pc),
         UNCHANGED << steps, targets, refs >>,
         \/ thread[j].pc \in {"check", "create"} /\ pc \in {"create", "acquire"}
         \/ thread[j].pc \in {"consumers", "direct"} /\ pc \in {"direct", "stop"}
  PROVE  UseInv'
<1>. DEFINE s == thread[j].step
<1>0. j \in Threads /\ s \in Steps /\ JobOf[s] = j /\ thread[j] \in Locals
  BY DEF Inv, ThreadInv, Placed, At, UseInv, StepKnown, Threads, TypeOK
<1>1. /\ thread' \in [Threads -> Locals] /\ thread'[j] = [thread[j] EXCEPT !.pc = pc]
      /\ \A u \in Threads \ {j} : thread'[u] = thread[u]
  BY <1>0, GotoMoves DEF Inv, Goto, TypeOK
<1>2. /\ thread'[j].pc = pc /\ thread'[j].step = s /\ thread'[j].cam = thread[j].cam
      /\ thread'[j].todo = thread[j].todo /\ thread'[j].acquired = thread[j].acquired
  BY <1>0, <1>1 DEF Locals
<1>3. StepKnown(j)'
  BY <1>0, <1>2 DEF UseInv, StepKnown
<1>4. HeldRightly(s)'
  BY <1>0, <1>2 DEF UseInv, HeldRightly, MayHold, Doing
<1>. QED
  BY <1>0, <1>1, <1>2, <1>3, <1>4, OwnStep DEF UseInv

(* ... or to the release of the first of the cameras a step holds, or, if  *)
(* it holds none, is through with the step.                                *)
LEMMA ReleaseUse ==
  ASSUME Inv, UseInv, NEW j \in Jobs, NEW s \in Steps, JobOf[s] = j,
         thread[j].step \in {s, None}, NEW cams \in SUBSET Cameras,
         \A c \in Cameras : refs[<<c, s>>] = 1 => c \in cams,
         UNCHANGED << targets, refs >>,
         \/ StepEnds(j, s) /\ cams = {}
         \/ StopEach(j, s, cams) /\ UNCHANGED steps
  PROVE  UseInv'
<1>0. j \in Threads /\ HeldRightly(s) /\ targets[s] \subseteq CamerasOf[s]
      /\ None \notin Steps /\ IdleThread \in Locals
  BY SharingAssumption, IdleType DEF UseInv, Threads
<1>1. CASE StepEnds(j, s) /\ cams = {}
  <2>1. /\ thread'[j] = IdleThread /\ \A u \in Threads \ {j} : thread'[u] = thread[u]
        /\ \A o \in Steps \ {s} : steps'[o] = steps[o]
    BY <1>0, <1>1 DEF StepEnds, Rest, Inv, TypeOK
  <2>2. StepKnown(j)'
    BY <1>0, <2>1 DEF StepKnown, IdleThread
  <2>3. HeldRightly(s)'
    BY <1>0, <1>1 DEF HeldRightly
  <2>. QED
    BY <1>0, <2>1, <2>2, <2>3, OwnStep DEF IdleThread
<1>2. CASE StopEach(j, s, cams) /\ UNCHANGED steps
  <2>1. PICK c \in cams : thread' = [thread EXCEPT ![j] =
          [IdleThread EXCEPT !.pc = "release", !.cam = c, !.step = s, !.todo = cams \ {c}]]
    BY <1>2 DEF StopEach
  <2>. DEFINE new == [IdleThread EXCEPT !.pc = "release", !.cam = c, !.step = s,
                                        !.todo = cams \ {c}]
  <2>2. new.pc = "release" /\ new.cam = c /\ new.step = s /\ new.todo = cams \ {c}
    BY DEF IdleThread
  <2>3. thread' = [thread EXCEPT ![j] = new]
    BY <2>1
  <2>. HIDE DEF new
  <2>4. thread'[j] = new /\ \A u \in Threads \ {j} : thread'[u] = thread[u]
    BY <1>0, <2>3 DEF Inv, TypeOK
  <2>5. StepKnown(j)'
    BY <2>2, <2>4 DEF StepKnown
  <2>6. HeldRightly(s)'
    BY <1>0, <2>2, <2>4 DEF HeldRightly, MayHold, Doing
  <2>. QED
    BY <1>0, <1>2, <2>2, <2>4, <2>5, <2>6, OwnStep
<1>. QED
  BY <1>1, <1>2

(* The step a job's thread is at, and what an idle thread has. *)
LEMMA AtStep ==
  ASSUME Inv, UseInv, NEW j \in Jobs
  PROVE  /\ j \in Threads /\ thread[j] \in Locals
         /\ At(j, "idle") => thread[j].step = None
         /\ ~At(j, "idle") => thread[j].step \in Steps /\ JobOf[thread[j].step] = j
<1>1. j \in Threads /\ Placed(j) /\ StepKnown(j)
  BY DEF Threads, Inv, ThreadInv, UseInv
<1>2. thread[j] \in Locals
  BY <1>1 DEF Inv, TypeOK
<1>. QED
  BY <1>1, <1>2 DEF StepKnown, Placed, At, Locals

LEMMA StartStepUse ==
  ASSUME Inv, UseInv, NEW s \in Steps, StartStep(s) PROVE UseInv'
<1>. DEFINE j == JobOf[s]
<1>0. j \in Jobs
  BY SharingAssumption
<1>1. /\ thread[j].step = None /\ j \in Threads /\ None \notin Steps
      /\ HeldRightly(s) /\ targets[s] \subseteq CamerasOf[s]
  BY <1>0, AtStep, SharingAssumption DEF StartStep, UseInv
<1>2. \A c \in Cameras : refs[<<c, s>>] # 1
  BY <1>1 DEF HeldRightly, MayHold, Doing, StartStep
<1>. DEFINE new == [IdleThread EXCEPT !.pc = "lock", !.step = s]
<1>3. new.pc = "lock" /\ new.step = s /\ new.todo = {} /\ new.acquired = {}
  BY DEF IdleThread
<1>4. thread' = [thread EXCEPT ![j] = new]
  BY DEF StartStep
<1>. HIDE DEF new
<1>5. thread'[j] = new /\ \A u \in Threads \ {j} : thread'[u] = thread[u]
  BY <1>1, <1>4 DEF Inv, TypeOK
<1>6. steps'[s] = "running" /\ \A o \in Steps \ {s} : steps'[o] = steps[o]
  BY DEF StartStep, Inv, TypeOK
<1>7. StepKnown(j)'
  BY <1>3, <1>5, <1>6 DEF StepKnown
<1>8. HeldRightly(s)'
  BY <1>1, <1>2 DEF HeldRightly, StartStep
<1>. QED
  BY <1>0, <1>1, <1>3, <1>5, <1>6, <1>7, <1>8, OwnStep DEF StartStep

LEMMA LockForStepUse ==
  ASSUME Inv, UseInv, NEW j \in Jobs, NEW s \in Steps, s = thread[j].step, LockForStep(j)
  PROVE  UseInv'
<1>0. /\ j \in Threads /\ thread[j] \in Locals /\ s \in Steps /\ JobOf[s] = j
      /\ thread[j].pc = "lock"
  BY AtStep DEF LockForStep, At
<1>1. /\ thread[j].acquired = {} /\ steps[s] = "running" /\ HeldRightly(s)
      /\ None \notin Steps /\ CamerasOf[s] \subseteq Cameras
  BY <1>0, SharingAssumption DEF UseInv, StepKnown
<1>2. \A c \in Cameras : refs[<<c, s>>] # 1
  BY <1>0, <1>1 DEF HeldRightly, MayHold, Doing
<1>3. /\ targets'[s] = {} /\ \A o \in Steps \ {s} : targets'[o] = targets[o]
      /\ UNCHANGED refs
  BY <1>0 DEF LockForStep, Inv, TypeOK
<1>4. HeldRightly(s)'
  BY <1>1, <1>2, <1>3 DEF HeldRightly
<1>5. CASE Rest(j) /\ steps' = [steps EXCEPT ![s] = "skipped"]
  <2>1. /\ thread'[j] = IdleThread /\ \A u \in Threads \ {j} : thread'[u] = thread[u]
        /\ \A o \in Steps \ {s} : steps'[o] = steps[o]
    BY <1>0, <1>5 DEF Rest, Inv, TypeOK
  <2>2. StepKnown(j)'
    BY <1>1, <2>1 DEF StepKnown, IdleThread
  <2>3. thread'[j].step = None
    BY <2>1 DEF IdleThread
  <2>. QED
    BY <1>0, <1>3, <1>4, <2>1, <2>2, <2>3, OwnStep
<1>6. ASSUME NEW admitted \in SUBSET CamerasOf[s], NEW c \in admitted, UNCHANGED steps,
             thread' = [thread EXCEPT ![j].pc = "check", ![j].cam = c,
                                      ![j].todo = admitted \ {c}]
      PROVE  UseInv'
  <2>. DEFINE new == [thread[j] EXCEPT !.pc = "check", !.cam = c, !.todo = admitted \ {c}]
  <2>1. /\ new.pc = "check" /\ new.cam = c /\ new.todo = admitted \ {c}
        /\ new.step = s /\ new.acquired = {}
    BY <1>0, <1>1 DEF Locals
  <2>2. thread' = [thread EXCEPT ![j] = new]
    BY <1>6
  <2>. HIDE DEF new
  <2>3. thread'[j] = new /\ \A u \in Threads \ {j} : thread'[u] = thread[u]
    BY <1>0, <2>2 DEF Inv, TypeOK
  <2>4. StepKnown(j)'
    BY <1>0, <1>1, <1>6, <2>1, <2>3 DEF StepKnown
  <2>. QED
    BY <1>0, <1>3, <1>4, <1>6, <2>1, <2>3, <2>4, OwnStep
<1>. QED
  <2>1. PICK blocked \in SUBSET {c \in CamerasOf[s] : sessions[c] # Cfg(j)} :
        LET admitted == CamerasOf[s] \ blocked IN
          IF admitted = {}
          THEN /\ steps' = [steps EXCEPT ![s] = "skipped"]
               /\ Rest(j) /\ UNCHANGED admission
          ELSE /\ admission' = j /\ UNCHANGED steps
               /\ \E c \in admitted : thread' = [thread EXCEPT ![j].pc = "check",
                                        ![j].cam = c, ![j].todo = admitted \ {c}]
    BY DEF LockForStep
  <2>. QED
    BY <1>5, <1>6, <2>1

LEMMA AcquireUse ==
  ASSUME Inv, UseInv, NEW j \in Jobs, NEW s \in Steps, s = thread[j].step, Acquire(j)
  PROVE  UseInv'
<1>. DEFINE cam == thread[j].cam
<1>. DEFINE todo == thread[j].todo
<1>. DEFINE acquired == thread[j].acquired
<1>. DEFINE got == acquired \cup {cam}
<1>0. /\ j \in Threads /\ thread[j] \in Locals /\ s \in Steps /\ JobOf[s] = j
      /\ thread[j].pc = "acquire" /\ cam \in Cameras /\ None \notin Steps
  BY AtStep, SharingAssumption DEF Acquire, At, Inv, ThreadInv, Placed
<1>1. /\ steps[s] = "running" /\ HeldRightly(s) /\ targets[s] \subseteq CamerasOf[s]
      /\ cam \notin todo /\ (todo \cup {cam}) \cap acquired = {}
      /\ todo \cup {cam} \cup acquired \subseteq CamerasOf[s]
  BY <1>0 DEF UseInv, StepKnown
<1>2. \A c \in Cameras : refs[<<c, s>>] \in {0, 1} /\ (refs[<<c, s>>] = 1 => c \in acquired)
  BY <1>0, <1>1 DEF HeldRightly, MayHold, Doing
<1>3. \A c \in Cameras : refs'[<<c, s>>] \in {0, 1} /\ (refs'[<<c, s>>] = 1 => c \in got)
  <2>1. refs' = [refs EXCEPT ![<<cam, s>>] = refs[<<cam, s>>] + 1]
        /\ refs \in [Cameras \X Steps -> Nat]
    BY DEF Acquire, Inv, TypeOK
  <2>2. refs[<<cam, s>>] = 0
    BY <1>0, <1>1, <1>2
  <2>3. refs'[<<cam, s>>] = 1
    BY <1>0, <2>1, <2>2
  <2>4. \A c \in Cameras \ {cam} : refs'[<<c, s>>] = refs[<<c, s>>]
    BY <1>0, <2>1
  <2>. QED
    BY <1>2, <2>3, <2>4
<1>4. \A o \in Steps \ {s}, c \in Cameras : refs'[<<c, o>>] = refs[<<c, o>>]
  BY <1>0 DEF Acquire, Inv, TypeOK
<1>5. UNCHANGED steps
  BY DEF Acquire
<1>6. CASE todo = {}
  <2>1. /\ thread'[j] = IdleThread /\ \A u \in Threads \ {j} : thread'[u] = thread[u]
        /\ targets'[s] = got /\ \A o \in Steps \ {s} : targets'[o] = targets[o]
    BY <1>0, <1>6 DEF Acquire, Rest, Inv, TypeOK
  <2>2. StepKnown(j)' /\ thread'[j].step = None
    BY <1>0, <2>1 DEF StepKnown, IdleThread
  <2>3. HeldRightly(s)'
    <3>. HIDE DEF got
    <3>. QED
      BY <1>0, <1>1, <1>3, <1>5, <2>1, <2>2 DEF HeldRightly, MayHold, Doing
  <2>4. targets'[s] \subseteq CamerasOf[s]
    BY <1>1, <2>1
  <2>. QED
    BY <1>0, <1>4, <1>5, <2>1, <2>2, <2>3, <2>4, OwnStep
<1>7. CASE todo # {}
  <2>1. PICK c \in todo : thread' = [thread EXCEPT ![j].pc = "check",
                ![j].cam = c, ![j].todo = @ \ {c}, ![j].acquired = got]
    BY <1>7 DEF Acquire
  <2>2. UNCHANGED targets
    BY <1>7 DEF Acquire
  <2>. DEFINE new == [thread[j] EXCEPT !.pc = "check", !.cam = c, !.todo = @ \ {c},
                                       !.acquired = got]
  <2>3. /\ new.pc = "check" /\ new.cam = c /\ new.todo = todo \ {c}
        /\ new.step = s /\ new.acquired = got
    BY <1>0 DEF Locals
  <2>4. thread' = [thread EXCEPT ![j] = new]
    BY <2>1
  <2>. HIDE DEF new
  <2>5. thread'[j] = new /\ \A u \in Threads \ {j} : thread'[u] = thread[u]
    BY <1>0, <2>4 DEF Inv, TypeOK
  <2>. DEFINE rest == todo \ {c}
  <2>8. /\ c \notin rest /\ (rest \cup {c}) \cap got = {}
        /\ rest \cup {c} \cup got \subseteq CamerasOf[s]
    BY <1>1, <2>1
  <2>6. StepKnown(j)'
    <3>1. /\ thread'[j].pc = "check" /\ thread'[j].cam = c /\ thread'[j].todo = rest
          /\ thread'[j].step = s /\ thread'[j].acquired = got
      BY <2>3, <2>5
    <3>2. steps'[s] = "running"
      BY <1>1, <1>5
    <3>. HIDE DEF got, rest
    <3>. QED
      BY <1>0, <2>8, <3>1, <3>2 DEF StepKnown
  <2>7. HeldRightly(s)'
    <3>. HIDE DEF got
    <3>. QED
      BY <1>0, <1>3, <2>3, <2>5 DEF HeldRightly, MayHold, Doing
  <2>. HIDE DEF got
  <2>. QED
    BY <1>0, <1>1, <1>4, <1>5, <2>2, <2>3, <2>5, <2>6, <2>7, OwnStep
<1>. QED
  BY <1>6, <1>7

LEMMA FinalizeStepUse ==
  ASSUME Inv, UseInv, DisjointSteps, NEW s \in Steps, FinalizeStep(s) PROVE UseInv'
<1>. DEFINE j == JobOf[s]
<1>0. /\ j \in Jobs /\ None \notin Steps /\ targets[s] \subseteq CamerasOf[s]
      /\ CamerasOf[s] \subseteq Cameras /\ HeldRightly(s)
  BY SharingAssumption DEF UseInv
<1>1. thread[j].step = None /\ j \in Threads /\ steps[s] = "running" /\ StepKnown(j)
  BY <1>0, AtStep DEF FinalizeStep, UseInv
<1>2. \A c \in Cameras : refs[<<c, s>>] = 1 => c \in targets[s]
  BY <1>0, <1>1 DEF HeldRightly, MayHold, Doing
<1>3. \A c \in targets[s] : ~UsedByOtherRunningStep(s, c)
  BY <1>0 DEF UsedByOtherRunningStep, UseInv, DisjointSteps
<1>4. {c \in targets[s] : ~UsedByOtherRunningStep(s, c)} = targets[s]
  BY <1>3
<1>5. UNCHANGED << refs, targets >>
  BY DEF FinalizeStep
<1>6. CASE targets[s] = {}
  <2>1. UNCHANGED thread /\ \A o \in Steps \ {s} : steps'[o] = steps[o]
    BY <1>4, <1>6 DEF FinalizeStep, Inv, TypeOK
  <2>2. thread[j].pc = "idle"
    BY DEF FinalizeStep, At
  <2>3. StepKnown(j)'
    BY <1>1, <2>1, <2>2 DEF StepKnown
  <2>4. HeldRightly(s)'
    BY <1>0, <1>2, <1>5, <1>6 DEF HeldRightly
  <2>. QED
    BY <1>0, <1>1, <1>5, <2>1, <2>3, <2>4, OwnStep
<1>7. CASE targets[s] # {}
  <2>1. StopEach(j, s, targets[s]) /\ UNCHANGED steps
    BY <1>4, <1>7 DEF FinalizeStep
  <2>. QED
    BY <1>0, <1>1, <1>2, <1>5, <2>1, ReleaseUse
<1>. QED
  BY <1>6, <1>7

LEMMA NewRunUse ==
  ASSUME Inv, UseInv, NEW j \in Jobs, NewRun(j) PROVE UseInv'
<1>0. j \in Threads /\ thread[j].step = None /\ None \notin Steps /\ StepKnown(j)
  BY AtStep, SharingAssumption DEF NewRun, UseInv
<1>1. UNCHANGED << thread, targets, refs >>
  BY DEF NewRun
<1>2. \A s \in Steps : JobOf[s] # j => steps'[s] = steps[s]
  BY DEF NewRun
<1>3. ASSUME NEW s \in Steps, JobOf[s] = j PROVE HeldRightly(s)'
  <2>1. steps[s] # "running"
    BY <1>3 DEF NewRun
  <2>2. \A c \in Cameras : refs[<<c, s>>] \in {0, 1} /\ refs[<<c, s>>] # 1
    BY <1>0, <1>3, <2>1 DEF UseInv, HeldRightly, MayHold, Doing
  <2>. QED
    BY <1>1, <2>2 DEF HeldRightly
<1>4. StepKnown(j)'
  BY <1>0, <1>1 DEF StepKnown, NewRun, At
<1>5. \A s \in Steps : JobOf[s] = j => targets'[s] \subseteq CamerasOf[s] /\ HeldRightly(s)'
  BY <1>1, <1>3 DEF UseInv
<1>. QED
  BY <1>0, <1>1, <1>2, <1>4, <1>5, OwnSteps

LEMMA ReleaseStepUse ==
  ASSUME Inv, UseInv, NEW j \in Jobs, NEW s \in Steps, s = thread[j].step, Release(j)
  PROVE  UseInv'
<1>. DEFINE cam == thread[j].cam
<1>0. /\ j \in Threads /\ thread[j] \in Locals /\ JobOf[s] = j /\ StepKnown(j)
      /\ thread[j].pc = "release" /\ cam \in Cameras /\ None \notin Steps
  BY AtStep, SharingAssumption DEF Release, At, Inv, ThreadInv, Placed, UseInv
<1>1. HeldRightly(s) /\ targets[s] \subseteq CamerasOf[s]
  BY DEF UseInv
<1>2. \A c \in Cameras : refs[<<c, s>>] \in {0, 1}
        /\ (refs[<<c, s>>] = 1 => c \in {cam} \cup thread[j].todo)
  BY <1>0, <1>1 DEF HeldRightly, MayHold, Doing
<1>3. refs' = [refs EXCEPT ![<<cam, s>>] = IF refs[<<cam, s>>] > 0 THEN refs[<<cam, s>>] - 1 ELSE 0]
      /\ refs \in [Cameras \X Steps -> Nat] /\ UNCHANGED << targets, steps >>
  BY DEF Release, Inv, TypeOK
<1>4. refs'[<<cam, s>>] = 0
  BY <1>0, <1>2, <1>3
<1>5. /\ \A c \in Cameras \ {cam} : refs'[<<c, s>>] = refs[<<c, s>>]
      /\ \A o \in Steps \ {s}, c \in Cameras : refs'[<<c, o>>] = refs[<<c, o>>]
  BY <1>0, <1>3
<1>6. thread'[j] = [thread[j] EXCEPT !.pc = "consumers"]
      /\ \A u \in Threads \ {j} : thread'[u] = thread[u]
  BY <1>0 DEF Release, Goto, Inv, TypeOK
<1>7. thread'[j].pc = "consumers" /\ thread'[j].step = s /\ thread'[j].todo = thread[j].todo
  BY <1>0, <1>6 DEF Locals
<1>8. StepKnown(j)'
  BY <1>0, <1>7 DEF StepKnown
<1>9. HeldRightly(s)'
  BY <1>0, <1>2, <1>4, <1>5, <1>7 DEF HeldRightly, MayHold, Doing
<1>. QED
  BY <1>0, <1>1, <1>3, <1>5, <1>6, <1>7, <1>8, <1>9, OwnStep

(* The end of a stop: the next camera, or the end of the step. *)
LEMMA LeaveUse ==
  ASSUME Inv, UseInv, NEW t \in Threads, Leave(t), thread[t].pc \in {"consumers", "direct", "stop"},
         UNCHANGED << refs, targets >>
  PROVE  UseInv'
<1>1. CASE t \notin Jobs
  BY <1>1, RestMoves, OthersUse DEF Leave, Inv
<1>2. CASE t \in Jobs
  <2>1. PICK s \in Steps : s = thread[t].step /\ JobOf[s] = t
    BY <1>2, AtStep DEF At
  <2>2. thread[t].todo \in SUBSET Cameras
    BY <1>2, AtStep DEF Locals
  <2>3. \A c \in Cameras : refs[<<c, s>>] = 1 => c \in thread[t].todo
    BY <2>1 DEF UseInv, HeldRightly, MayHold, Doing
  <2>4. CASE thread[t].todo = {}
    <3>1. StepEnds(t, s)
      BY <1>2, <2>1, <2>4 DEF Leave, StepEnds, Inv, TypeOK
    <3>. QED
      BY <1>2, <2>1, <2>2, <2>3, <2>4, <3>1, ReleaseUse
  <2>5. CASE thread[t].todo # {}
    <3>1. StopEach(t, s, thread[t].todo) /\ UNCHANGED steps
      BY <1>2, <2>1, <2>5 DEF Leave
    <3>. QED
      BY <1>2, <2>1, <2>2, <2>3, <3>1, ReleaseUse
  <2>. QED
    BY <2>4, <2>5
<1>. QED
  BY <1>1, <1>2

(* A start that fails releases what its step has acquired. *)
LEMMA NotStartedUse ==
  ASSUME Inv, UseInv, NEW t \in Threads, NotStarted(t), thread[t].pc \in {"check", "create"},
         UNCHANGED << refs, targets >>
  PROVE  UseInv'
<1>1. CASE t \notin Jobs
  BY <1>1, RestMoves, OthersUse DEF NotStarted, Inv
<1>2. CASE t \in Jobs
  <2>1. PICK s \in Steps : s = thread[t].step /\ JobOf[s] = t
    BY <1>2, AtStep DEF At
  <2>. DEFINE acquired == thread[t].acquired
  <2>2. acquired \in SUBSET Cameras
    BY <1>2, AtStep DEF Locals
  <2>3. \A c \in Cameras : refs[<<c, s>>] = 1 => c \in acquired
    BY <2>1 DEF UseInv, HeldRightly, MayHold, Doing
  <2>4. CASE acquired = {}
    <3>1. StepEnds(t, s)
      BY <1>2, <2>1, <2>4 DEF NotStarted, RollBack, StepEnds, Inv, TypeOK
    <3>. QED
      BY <1>2, <2>1, <2>2, <2>3, <2>4, <3>1, ReleaseUse
  <2>5. CASE acquired # {}
    <3>1. StopEach(t, s, acquired) /\ UNCHANGED steps
      BY <1>2, <2>1, <2>5 DEF NotStarted, RollBack
    <3>. QED
      BY <1>2, <2>1, <2>2, <2>3, <3>1, ReleaseUse
  <2>. QED
    BY <2>4, <2>5
<1>. QED
  BY <1>1, <1>2

LEMMA StartingUse ==
  ASSUME Inv, UseInv, NEW t \in Threads, StartingStep(t) PROVE UseInv'
<1>1. CASE LockForCamera(t)
  <2>1. \A u \in Threads \ {t} : thread'[u] = thread[u]
    BY <1>1 DEF LockForCamera, Inv, TypeOK
  <2>. QED
    BY <1>1, <2>1, OthersUse DEF LockForCamera
<1>2. ASSUME Started(t), thread[t].pc \in {"check", "create"}, UNCHANGED << refs, targets >>
      PROVE  UseInv'
  <2>1. CASE t \in Jobs
    BY <1>2, <2>1, GoUse DEF Started, Positions
  <2>2. CASE t \notin Jobs
    BY <1>2, <2>2, StartedMoves, OthersUse DEF At
  <2>. QED
    BY <2>1, <2>2
<1>3. CASE ReuseSession(t) \/ CreateSession(t)
  BY <1>2, <1>3 DEF ReuseSession, CreateSession, At
<1>4. CASE ReplaceSession(t)
  <2>1. Goto(t, "create") /\ thread[t].pc = "check" /\ UNCHANGED << steps, targets, refs >>
    BY <1>4 DEF ReplaceSession, At
  <2>2. CASE t \in Jobs
    BY <2>1, <2>2, GoUse DEF Positions
  <2>3. CASE t \notin Jobs
    BY <2>1, <2>3, GotoMoves, OthersUse DEF Inv, Positions
  <2>. QED
    BY <2>2, <2>3
<1>5. CASE RefuseSession(t) \/ CreateFails(t)
  BY <1>5, NotStartedUse DEF RefuseSession, CreateFails, At
<1>. QED
  BY <1>1, <1>3, <1>4, <1>5 DEF StartingStep

LEMMA StoppingUse ==
  ASSUME Inv, UseInv, NEW t \in Threads, StoppingStep(t) \/ (t \in Jobs /\ CheckDirect(t))
  PROVE  UseInv'
<1>1. ASSUME NEW pc \in {"direct", "stop"}, Goto(t, pc), thread[t].pc \in {"consumers", "direct"},
             UNCHANGED << steps, targets, refs >>
      PROVE  UseInv'
  <2>1. CASE t \in Jobs
    BY <1>1, <2>1, GoUse DEF Positions
  <2>2. CASE t \notin Jobs
    BY <1>1, <2>2, GotoMoves, OthersUse DEF Inv, Positions
  <2>. QED
    BY <2>1, <2>2
<1>2. CASE CheckConsumers(t) \/ (t \in Jobs /\ CheckDirect(t))
  BY <1>1, <1>2, LeaveUse DEF CheckConsumers, CheckDirect, At
<1>3. CASE StopSession(t)
  BY <1>3, LeaveUse DEF StopSession, At
<1>. QED
  BY <1>2, <1>3 DEF StoppingStep

LEMMA OutsideUse ==
  ASSUME Inv, UseInv, NEW c \in Cameras,
         StartCamera(c) \/ StopDirect(c)
           \/ \E q \in Searches : FindNoSession(q, c) \/ EndSearch(q)
  PROVE  UseInv'
<1>1. Cmd \in Threads \ Jobs /\ \A q \in Searches : q \in Threads \ Jobs
  BY SharingAssumption DEF Threads
<1>2. CASE StartCamera(c) \/ StopDirect(c)
  <2>1. \A u \in Threads \ {Cmd} : thread'[u] = thread[u]
    BY <1>2 DEF StartCamera, StopDirect, Inv, TypeOK
  <2>. QED
    BY <1>1, <1>2, <2>1, OthersUse DEF StartCamera, StopDirect
<1>3. ASSUME NEW q \in Searches, FindNoSession(q, c) \/ EndSearch(q) PROVE UseInv'
  <2>1. \A u \in Threads \ {q} : thread'[u] = thread[u]
    BY <1>3 DEF FindNoSession, EndSearch, Goto, Rest, Inv, TypeOK
  <2>. QED
    BY <1>1, <1>3, <2>1, OthersUse DEF FindNoSession, EndSearch
<1>. QED
  BY <1>2, <1>3

LEMMA UseInit == Init => UseInv
<1>. SUFFICES ASSUME Init PROVE UseInv
  OBVIOUS
<1>1. \A j \in Jobs : StepKnown(j)
  BY SharingAssumption DEF Init, StepKnown, IdleThread, Threads
<1>2. \A s \in Steps : targets[s] \subseteq CamerasOf[s] /\ HeldRightly(s)
  BY DEF Init, HeldRightly
<1>. QED
  BY <1>1, <1>2 DEF UseInv

LEMMA UseNext ==
  ASSUME Inv, UseInv, DisjointSteps, [Next]_vars PROVE UseInv'
<1>1. CASE UNCHANGED vars
  BY <1>1 DEF vars, UseInv, StepKnown, HeldRightly, MayHold, Doing
<1>2. ASSUME NEW j \in Jobs, JobStep(j) PROVE UseInv'
  <2>1. CASE CheckDirect(j)
    BY <2>1, StoppingUse DEF Threads
  <2>2. CASE LockForStep(j) \/ Acquire(j) \/ Release(j)
    <3>1. thread[j].step \in Steps
      BY <2>2, AtStep DEF LockForStep, Acquire, Release, At
    <3>. QED
      BY <2>2, <3>1, LockForStepUse, AcquireUse, ReleaseStepUse
  <2>. QED
    BY <1>2, <2>1, <2>2 DEF JobStep
<1>3. ASSUME NEW t \in Threads, StartingStep(t) \/ StoppingStep(t) PROVE UseInv'
  BY <1>3, StartingUse, StoppingUse
<1>4. ASSUME NEW q \in Searches, EndSearch(q) PROVE UseInv'
  <2>1. q \in Threads \ Jobs
    BY SharingAssumption DEF Threads
  <2>2. thread[q].cam \in Cameras
    BY <1>4, <2>1 DEF EndSearch, At, Inv, ThreadInv, Placed
  <2>. QED
    BY <1>4, <2>2, OutsideUse
<1>. QED
  BY <1>1, <1>2, <1>3, <1>4, OutsideUse, StartStepUse, FinalizeStepUse, NewRunUse DEF Next

LEMMA UsedWhenQuiet ==
  ASSUME Inv, UseInv, NoConflict
  PROVE  SessionInUse
<1>. SUFFICES ASSUME NEW c \in Cameras, Quiet(c), sessions[c] # None, c \notin requested
              PROVE  \E s \in Steps : steps[s] = "running" /\ c \in targets[s]
  BY DEF SessionInUse
<1>1. PICK s \in Steps : refs[<<c, s>>] > 0
  BY InvNoOrphan DEF NoOrphanSession, Held
<1>2. refs[<<c, s>>] = 1 /\ MayHold(s, c)
  BY <1>1 DEF UseInv, HeldRightly
<1>3. JobOf[s] \in Threads
  BY SharingAssumption DEF Threads
<1>. QED
  BY <1>2, <1>3 DEF Quiet, MayHold

(* While the steps of a job share no camera (and, as in NoOrphan, no start *)
(* is refused over a different configuration), a session that is kept      *)
(* without a direct request serves a running step, whichever starts,       *)
(* roll-backs, deadlines and stops of other jobs come in between.          *)
THEOREM KeptInUse == ASSUME NoConflict, DisjointSteps PROVE Spec => []SessionInUse
<1>1. Init => Inv /\ UseInv
  BY InitInv, UseInit
<1>2. (Inv /\ UseInv) /\ [Next]_vars => (Inv /\ UseInv)'
  BY NextInv, UseNext
<1>3. Inv /\ UseInv => SessionInUse
  BY UsedWhenQuiet
<1>. QED
  BY <1>1, <1>2, <1>3, PTL DEF Spec

-----------------------------------------------------------------------------
(* The holder of the admission mutex: the safe half of MutexReleased.      *)

(* Where a thread may be while it holds the mutex: no step from one of     *)
(* these positions waits for another thread.                               *)
HolderPositions(t) ==
  {"check", "create"} \cup
  (IF t \in Jobs THEN {"acquire", "release", "consumers", "direct", "stop"} ELSE {})

HolderReady == \A t \in Threads : admission = t => thread[t].pc \in HolderPositions(t)

(* The steps a holder has left at most: seven for a camera it has still to *)
(* start and perhaps to give back, four for one it has acquired.           *)
StepsLeft(t) ==
  LET n == Cardinality(thread[t].todo)
      k == Cardinality(thread[t].acquired)
  IN CASE At(t, "check") -> 7 * n + 4 * k + 7
       [] At(t, "create") -> 7 * n + 4 * k + 6
       [] At(t, "acquire") -> 7 * n + 4 * k + 5
       [] At(t, "release") -> 4 * n + 4
       [] At(t, "consumers") -> 4 * n + 3
       [] At(t, "direct") -> 4 * n + 2
       [] At(t, "stop") -> 4 * n + 1
       [] OTHER -> 0

(* A holder that moves comes nearer to the end of its critical section.    *)
HolderAdvances ==
  [][\A t \in Threads : admission = t /\ admission' = t =>
       thread'[t] = thread[t] \/ StepsLeft(t)' < StepsLeft(t)]_vars

(* A position is the only arm of StepsLeft that counts. *)
LEMMA StepsLeftAt ==
  ASSUME NEW t \in Threads, NEW n, n = Cardinality(thread[t].todo),
         NEW k, k = Cardinality(thread[t].acquired)
  PROVE  /\ At(t, "check") => StepsLeft(t) = 7 * n + 4 * k + 7
         /\ At(t, "create") => StepsLeft(t) = 7 * n + 4 * k + 6
         /\ At(t, "acquire") => StepsLeft(t) = 7 * n + 4 * k + 5
         /\ At(t, "release") => StepsLeft(t) = 4 * n + 4
         /\ At(t, "consumers") => StepsLeft(t) = 4 * n + 3
         /\ At(t, "direct") => StepsLeft(t) = 4 * n + 2
         /\ At(t, "stop") => StepsLeft(t) = 4 * n + 1
  BY DEF StepsLeft, At

LEMMA FewCameras ==
  ASSUME TypeOK, IsFiniteSet(Cameras), NEW t \in Threads
  PROVE  /\ IsFiniteSet(thread[t].todo) /\ Cardinality(thread[t].todo) \in Nat
         /\ IsFiniteSet(thread[t].acquired) /\ Cardinality(thread[t].acquired) \in Nat
<1>1. thread[t].todo \subseteq Cameras /\ thread[t].acquired \subseteq Cameras
  BY DEF TypeOK, Locals
<1>. QED
  BY <1>1, FS_Subset, FS_CardinalityType

(* The stops of a set of cameras cost four steps each. *)
LEMMA StopEachLeft ==
  ASSUME TypeOK, IsFiniteSet(Cameras), NEW j \in Jobs, NEW s \in Steps,
         NEW cams \in SUBSET Cameras, StopEach(j, s, cams)
  PROVE  StepsLeft(j)' = 4 * Cardinality(cams) /\ thread'[j].pc = "release"
<1>1. PICK c \in cams : thread' = [thread EXCEPT ![j] =
        [IdleThread EXCEPT !.pc = "release", !.cam = c, !.step = s, !.todo = cams \ {c}]]
  BY DEF StopEach
<1>2. j \in Threads
  BY DEF Threads
<1>3. thread'[j].pc = "release" /\ thread'[j].todo = cams \ {c}
  BY <1>1, <1>2 DEF TypeOK, IdleThread
<1>4. IsFiniteSet(cams) /\ Cardinality(cams) \in Nat
      /\ Cardinality(cams \ {c}) = Cardinality(cams) - 1
  BY <1>1, FS_Subset, FS_CardinalityType, FS_RemoveElement
<1>5. StepsLeft(j)' = 4 * Cardinality(cams \ {c}) + 4
  BY <1>3 DEF StepsLeft, At
<1>. QED
  BY <1>3, <1>4, <1>5

(* What a step of the holder does to its critical section. *)
Advances(t) ==
  \/ admission' = None
  \/ /\ admission' = t /\ thread'[t].pc \in HolderPositions(t)
     /\ StepsLeft(t)' < StepsLeft(t)

(* The thread goes on to another position with the same cameras. *)
LEMMA GotoAdvances ==
  ASSUME Inv, IsFiniteSet(Cameras), NEW t \in Threads, admission = t,
         \/ At(t, "check") /\ Goto(t, "create")
         \/ t \in Jobs /\ (At(t, "check") \/ At(t, "create")) /\ Goto(t, "acquire")
         \/ t \in Jobs /\ At(t, "release") /\ Goto(t, "consumers")
         \/ t \in Jobs /\ At(t, "consumers") /\ Goto(t, "direct")
         \/ t \in Jobs /\ At(t, "direct") /\ Goto(t, "stop"),
         admission' = admission
  PROVE  Advances(t)
<1>. DEFINE n == Cardinality(thread[t].todo)
            k == Cardinality(thread[t].acquired)
<1>1. n \in Nat /\ k \in Nat
  BY FewCameras DEF Inv
<1>2. thread'[t].todo = thread[t].todo /\ thread'[t].acquired = thread[t].acquired
  BY DEF Inv, TypeOK, Goto, Locals
<1>3. /\ Goto(t, "create") => thread'[t].pc = "create"
      /\ Goto(t, "acquire") => thread'[t].pc = "acquire"
      /\ Goto(t, "consumers") => thread'[t].pc = "consumers"
      /\ Goto(t, "direct") => thread'[t].pc = "direct"
      /\ Goto(t, "stop") => thread'[t].pc = "stop"
  BY GotoMoves DEF Inv, Positions
<1>4. /\ thread'[t].pc = "create" => StepsLeft(t)' = 7 * n + 4 * k + 6
      /\ thread'[t].pc = "acquire" => StepsLeft(t)' = 7 * n + 4 * k + 5
      /\ thread'[t].pc = "consumers" => StepsLeft(t)' = 4 * n + 3
      /\ thread'[t].pc = "direct" => StepsLeft(t)' = 4 * n + 2
      /\ thread'[t].pc = "stop" => StepsLeft(t)' = 4 * n + 1
  BY <1>2 DEF StepsLeft, At
<1>5. /\ At(t, "check") => StepsLeft(t) = 7 * n + 4 * k + 7
      /\ At(t, "create") => StepsLeft(t) = 7 * n + 4 * k + 6
      /\ At(t, "release") => StepsLeft(t) = 4 * n + 4
      /\ At(t, "consumers") => StepsLeft(t) = 4 * n + 3
      /\ At(t, "direct") => StepsLeft(t) = 4 * n + 2
  BY StepsLeftAt
<1>. HIDE DEF n, k
<1>6. StepsLeft(t)' < StepsLeft(t)
  BY <1>1, <1>3, <1>4, <1>5
<1>. QED
  BY <1>3, <1>6 DEF Advances, HolderPositions

(* The end of one stop of a roll-back. *)
LEMMA LeaveAdvances ==
  ASSUME Inv, IsFiniteSet(Cameras), NEW t \in Jobs, admission = t, Leave(t),
         thread[t].pc \in {"consumers", "direct", "stop"}
  PROVE  Advances(t)
<1>1. t \in Threads
  BY DEF Threads
<1>2. CASE thread[t].todo = {}
  BY <1>2 DEF Leave, Advances
<1>3. CASE thread[t].todo # {}
  <2>1. thread[t].step \in Steps /\ thread[t].todo \in SUBSET Cameras
    BY <1>1 DEF Inv, ThreadInv, Placed, At, TypeOK, Locals
  <2>2. StepsLeft(t)' = 4 * Cardinality(thread[t].todo) /\ thread'[t].pc = "release"
    BY <1>3, <2>1, StopEachLeft DEF Leave, Inv
  <2>3. Cardinality(thread[t].todo) \in Nat
    BY <1>1, FewCameras DEF Inv
  <2>4. StepsLeft(t)' < StepsLeft(t)
    BY <1>1, <2>2, <2>3, StepsLeftAt DEF At
  <2>. QED
    BY <1>3, <2>2, <2>4 DEF Leave, Advances, HolderPositions
<1>. QED
  BY <1>2, <1>3

(* A start that is refused, or fails, is rolled back. *)
LEMMA NotStartedAdvances ==
  ASSUME Inv, IsFiniteSet(Cameras), NEW t \in Threads, admission = t, NotStarted(t),
         At(t, "check") \/ At(t, "create")
  PROVE  Advances(t)
<1>1. CASE t \notin Jobs \/ thread[t].acquired = {}
  BY <1>1 DEF NotStarted, RollBack, Advances
<1>2. CASE t \in Jobs /\ thread[t].acquired # {}
  <2>1. thread[t].step \in Steps /\ thread[t].acquired \in SUBSET Cameras
    BY <1>2 DEF Inv, ThreadInv, Placed, At, TypeOK, Locals
  <2>2. StepsLeft(t)' = 4 * Cardinality(thread[t].acquired) /\ thread'[t].pc = "release"
    BY <1>2, <2>1, StopEachLeft DEF NotStarted, RollBack, Inv
  <2>3. Cardinality(thread[t].acquired) \in Nat /\ Cardinality(thread[t].todo) \in Nat
    BY FewCameras DEF Inv
  <2>4. StepsLeft(t)' < StepsLeft(t)
    BY <2>2, <2>3, StepsLeftAt
  <2>. QED
    BY <1>2, <2>2, <2>4 DEF NotStarted, RollBack, Advances, HolderPositions
<1>. QED
  BY <1>1, <1>2

(* An acquired camera costs less than one that is still to be started. *)
LEMMA AcquireAdvances ==
  ASSUME Inv, IsFiniteSet(Cameras), NEW t \in Jobs, admission = t, Acquire(t)
  PROVE  Advances(t)
<1>. DEFINE got == thread[t].acquired \cup {thread[t].cam}
<1>0. t \in Threads
  BY DEF Threads
<1>1. CASE thread[t].todo = {}
  BY <1>1 DEF Acquire, Advances
<1>2. CASE thread[t].todo # {}
  <2>1. PICK c \in thread[t].todo : thread' = [thread EXCEPT ![t].pc = "check",
                ![t].cam = c, ![t].todo = @ \ {c}, ![t].acquired = got]
    BY <1>2 DEF Acquire
  <2>2. /\ thread'[t].pc = "check" /\ thread'[t].todo = thread[t].todo \ {c}
        /\ thread'[t].acquired = got
    BY <1>0, <2>1 DEF Inv, TypeOK, Locals
  <2>3. /\ IsFiniteSet(thread[t].todo) /\ Cardinality(thread[t].todo) \in Nat
        /\ IsFiniteSet(thread[t].acquired) /\ Cardinality(thread[t].acquired) \in Nat
    BY <1>0, FewCameras DEF Inv
  <2>4. /\ Cardinality(thread[t].todo \ {c}) = Cardinality(thread[t].todo) - 1
        /\ Cardinality(got) <= Cardinality(thread[t].acquired) + 1 /\ Cardinality(got) \in Nat
    <3>1. Cardinality(thread[t].todo \ {c}) = Cardinality(thread[t].todo) - 1
      BY <2>3, FS_RemoveElement
    <3>2. IsFiniteSet(got)
          /\ Cardinality(got) = IF thread[t].cam \in thread[t].acquired
                                THEN Cardinality(thread[t].acquired)
                                ELSE Cardinality(thread[t].acquired) + 1
      BY <2>3, FS_AddElement
    <3>. HIDE DEF got
    <3>. QED
      BY <2>3, <3>1, <3>2
  <2>5. StepsLeft(t)' = 7 * Cardinality(thread[t].todo \ {c}) + 4 * Cardinality(got) + 7
    BY <2>2 DEF StepsLeft, At
  <2>6. At(t, "acquire") /\ admission' = admission
    BY <1>2 DEF Acquire
  <2>7. StepsLeft(t) = 7 * Cardinality(thread[t].todo) + 4 * Cardinality(thread[t].acquired) + 5
    BY <1>0, <2>6, StepsLeftAt
  <2>. HIDE DEF got
  <2>8. StepsLeft(t)' < StepsLeft(t)
    BY <2>3, <2>4, <2>5, <2>7
  <2>. QED
    BY <2>2, <2>6, <2>8 DEF Advances, HolderPositions
<1>. QED
  BY <1>1, <1>2

(* Every step of the holder is a step to the end of its critical section.  *)
LEMMA OwnAdvances ==
  ASSUME Inv, IsFiniteSet(Cameras), NEW t \in Threads, admission = t, HolderReady,
         StartingStep(t) \/ StoppingStep(t) \/ (t \in Jobs /\ JobStep(t))
  PROVE  Advances(t)
<1>. USE DEF Inv
<1>1. t # None /\ thread[t].pc \in HolderPositions(t)
  BY SharingAssumption DEF HolderReady
<1>2. ~LockForCamera(t) /\ ~LockForStep(t)
  BY <1>1 DEF LockForCamera, LockForStep
<1>3. CASE ReuseSession(t) \/ CreateSession(t)
  <2>1. CASE t \in Jobs
    BY <1>3, <2>1, GotoAdvances DEF ReuseSession, CreateSession, Started
  <2>2. CASE t \notin Jobs
    BY <1>3, <2>2 DEF ReuseSession, CreateSession, Started, Advances
  <2>. QED
    BY <2>1, <2>2
<1>4. CASE RefuseSession(t) \/ CreateFails(t)
  BY <1>4, NotStartedAdvances DEF RefuseSession, CreateFails
<1>5. CASE ReplaceSession(t)
  BY <1>5, GotoAdvances DEF ReplaceSession
<1>6. CASE CheckConsumers(t)
  <2>1. t \in Jobs /\ t # Cmd
    BY <1>1, <1>6, SharingAssumption DEF CheckConsumers, At, HolderPositions
  <2>2. CASE Held(thread[t].cam)
    BY <1>6, <2>1, <2>2, LeaveAdvances DEF CheckConsumers, At
  <2>3. CASE ~Held(thread[t].cam)
    BY <1>6, <2>1, <2>3, GotoAdvances DEF CheckConsumers
  <2>. QED
    BY <2>2, <2>3
<1>7. CASE StopSession(t)
  <2>1. t \in Jobs
    BY <1>1, <1>7 DEF StopSession, At, HolderPositions
  <2>. QED
    BY <1>7, <2>1, LeaveAdvances DEF StopSession, At
<1>8. CASE t \in Jobs /\ (Acquire(t) \/ Release(t) \/ CheckDirect(t))
  <2>1. CASE Acquire(t)
    BY <1>8, <2>1, AcquireAdvances
  <2>2. CASE Release(t)
    BY <1>8, <2>2, GotoAdvances DEF Release
  <2>3. CASE CheckDirect(t)
    <3>1. CASE thread[t].cam \in requested
      BY <1>8, <2>3, <3>1, LeaveAdvances DEF CheckDirect, At
    <3>2. CASE thread[t].cam \notin requested
      BY <1>8, <2>3, <3>2, GotoAdvances DEF CheckDirect
    <3>. QED
      BY <3>1, <3>2
  <2>. QED
    BY <1>8, <2>1, <2>2, <2>3
<1>. QED
  BY <1>2, <1>3, <1>4, <1>5, <1>6, <1>7, <1>8 DEF StartingStep, StoppingStep, JobStep

(* Nobody else touches the mutex or the holder. *)
LEMMA OthersWait ==
  ASSUME Inv, NEW t \in Threads, admission = t, HolderReady, NEW u \in Threads \ {t},
         StartingStep(u) \/ StoppingStep(u) \/ (u \in Jobs /\ JobStep(u))
  PROVE  admission' = t /\ thread'[t] = thread[t]
<1>1. t # None /\ ~At(u, "check") /\ ~At(u, "create") /\ ~At(u, "acquire")
  BY SharingAssumption DEF Inv, ThreadInv, Starting
<1>2. CASE CheckConsumers(u) \/ StopSession(u) \/ (u \in Jobs /\ CheckDirect(u))
  <2>1. CASE Leave(u)
    <3>1. ~At(u, "idle") /\ ~At(u, "lock")
      BY <1>2 DEF CheckConsumers, StopSession, CheckDirect, At
    <3>. QED
      BY <2>1, <3>1, LeaveMoves
  <2>2. CASE (Goto(u, "stop") \/ Goto(u, "direct")) /\ UNCHANGED admission
    BY <2>2, GotoMoves DEF Inv, Positions
  <2>. QED
    BY <1>2, <2>1, <2>2 DEF CheckConsumers, StopSession, CheckDirect
<1>3. CASE u \in Jobs /\ Release(u)
  BY <1>3, GotoMoves DEF Inv, Release, Positions
<1>. QED
  BY <1>1, <1>2, <1>3 DEF StartingStep, StoppingStep, JobStep, LockForCamera, LockForStep, Acquire,
     ReuseSession, RefuseSession, ReplaceSession, CreateSession, CreateFails

(* The steps outside the critical sections. *)
LEMMA OutsideWaits ==
  ASSUME Inv, NEW t \in Threads, admission = t, HolderReady,
         \/ \E c \in Cameras : StartCamera(c) \/ StopDirect(c)
         \/ \E q \in Searches, c \in Cameras : FindNoSession(q, c)
         \/ \E q \in Searches : EndSearch(q)
         \/ \E s \in Steps : StartStep(s) \/ FinalizeStep(s)
         \/ \E j \in Jobs : NewRun(j)
  PROVE  admission' = t /\ thread'[t] = thread[t]
<1>1. ~At(t, "idle") /\ ~At(t, "searching")
  BY DEF HolderReady, HolderPositions, At
<1>2. ASSUME NEW s \in Steps, FinalizeStep(s) PROVE admission' = t /\ thread'[t] = thread[t]
  <2>1. JobOf[s] # t /\ JobOf[s] \in Threads
    BY <1>1, <1>2, SharingAssumption DEF FinalizeStep, Threads
  <2>. QED
    BY <1>2, <2>1 DEF FinalizeStep, StopEach, Inv, TypeOK
<1>3. ASSUME NEW s \in Steps, StartStep(s) PROVE admission' = t /\ thread'[t] = thread[t]
  <2>1. JobOf[s] # t
    BY <1>1, <1>3 DEF StartStep
  <2>. QED
    BY <1>3, <2>1 DEF StartStep, Inv, TypeOK
<1>4. ASSUME NEW q \in Searches, EndSearch(q) PROVE admission' = t /\ thread'[t] = thread[t]
  <2>1. q # t
    BY <1>1, <1>4 DEF EndSearch
  <2>. QED
    BY <1>4, <2>1 DEF EndSearch, Goto, Rest, Inv, TypeOK
<1>5. ASSUME NEW c \in Cameras, StartCamera(c) \/ StopDirect(c)
      PROVE  admission' = t /\ thread'[t] = thread[t]
  <2>1. Cmd # t
    BY <1>1, <1>5 DEF StartCamera, StopDirect
  <2>. QED
    BY <1>5, <2>1 DEF StartCamera, StopDirect, Inv, TypeOK
<1>6. ASSUME NEW q \in Searches, NEW c \in Cameras, FindNoSession(q, c)
      PROVE  admission' = t /\ thread'[t] = thread[t]
  <2>1. q # t
    BY <1>1, <1>6 DEF FindNoSession
  <2>. QED
    BY <1>6, <2>1 DEF FindNoSession, Inv, TypeOK
<1>. QED
  BY <1>2, <1>3, <1>4, <1>5, <1>6 DEF NewRun

LEMMA HolderStep ==
  ASSUME Inv, IsFiniteSet(Cameras), NEW t \in Threads, admission = t, HolderReady, [Next]_vars
  PROVE  Advances(t) \/ (admission' = t /\ thread'[t] = thread[t])
<1>1. ASSUME NEW u \in Threads, StartingStep(u) \/ StoppingStep(u) \/ (u \in Jobs /\ JobStep(u))
      PROVE  Advances(t) \/ (admission' = t /\ thread'[t] = thread[t])
  BY <1>1, OwnAdvances, OthersWait
<1>2. ASSUME NEW j \in Jobs, JobStep(j)
      PROVE  Advances(t) \/ (admission' = t /\ thread'[t] = thread[t])
  BY <1>1, <1>2 DEF Threads
<1>3. CASE UNCHANGED vars
  BY <1>3 DEF vars
<1>. QED
  BY <1>1, <1>2, <1>3, OutsideWaits DEF Next

(* Whoever takes the mutex is at its first position. *)
LEMMA HolderReadyKept ==
  ASSUME Inv, IsFiniteSet(Cameras), HolderReady, [Next]_vars
  PROVE  HolderReady'
<1>. SUFFICES ASSUME NEW t \in Threads, admission' = t
              PROVE  thread'[t].pc \in HolderPositions(t)
  BY DEF HolderReady, HolderPositions
<1>1. CASE admission = t
  <2>1. t # None
    BY SharingAssumption
  <2>. QED
    BY <1>1, <2>1, HolderStep DEF Advances, HolderReady
<1>2. CASE admission # t
  <2>1. admission = None
    <3>1. SUFFICES ASSUME admission # None PROVE FALSE
      OBVIOUS
    <3>2. PICK u \in Threads : admission = u
      BY <3>1 DEF Inv, TypeOK
    <3>3. t # None
      BY SharingAssumption
    <3>. QED
      BY <1>2, <3>2, <3>3, HolderStep DEF Advances
  <2>2. t # None /\ admission' # admission
    BY <1>2, SharingAssumption
  <2>3. \E u \in Threads : LockForCamera(u) \/ LockForStep(u)
    <3>1. \A u \in Threads : ~At(u, "check") /\ ~At(u, "create") /\ ~At(u, "acquire")
      BY <2>1, SharingAssumption DEF Inv, ThreadInv, Starting
    <3>2. \A j \in Jobs : j \in Threads
      BY DEF Threads
    <3>3. \A u \in Threads : Leave(u) => admission' = admission
      BY <2>1 DEF Leave
    <3>. QED
      BY <2>2, <3>1, <3>2, <3>3 DEF Next, vars, StartingStep, StoppingStep, JobStep, StartCamera,
         StopDirect, FindNoSession, EndSearch, StartStep, FinalizeStep, NewRun, ReuseSession,
         RefuseSession, ReplaceSession, CreateSession, CreateFails, CheckConsumers, StopSession,
         Acquire, Release, CheckDirect
  <2>4. PICK u \in Threads : LockForCamera(u) \/ LockForStep(u)
    BY <2>3
  <2>5. u = t
    BY <2>2, <2>4 DEF LockForCamera, LockForStep
  <2>6. thread'[t].pc = "check"
    <3>1. thread \in [Threads -> Locals]
      BY DEF Inv, TypeOK
    <3>2. CASE LockForCamera(u)
      BY <2>5, <3>1, <3>2 DEF LockForCamera, Locals
    <3>3. CASE LockForStep(u)
      <4>. DEFINE s == thread[t].step
      <4>0. LockForStep(t)
        BY <2>5, <3>3
      <4>1. PICK blocked \in SUBSET {c \in CamerasOf[s] : sessions[c] # Cfg(t)} :
              LET admitted == CamerasOf[s] \ blocked IN
                IF admitted = {}
                THEN UNCHANGED admission
                ELSE \E c \in admitted : thread' = [thread EXCEPT ![t].pc = "check",
                                              ![t].cam = c, ![t].todo = admitted \ {c}]
        BY <4>0 DEF LockForStep
      <4>. DEFINE admitted == CamerasOf[s] \ blocked
      <4>2. PICK c \in admitted : thread' = [thread EXCEPT ![t].pc = "check",
                                              ![t].cam = c, ![t].todo = admitted \ {c}]
        BY <2>2, <4>1
      <4>. HIDE DEF admitted
      <4>. QED
        BY <3>1, <4>2 DEF Locals
    <3>. QED
      BY <2>4, <3>2, <3>3
  <2>. QED
    BY <2>6 DEF HolderPositions
<1>. QED
  BY <1>1, <1>2

LEMMA HolderInv == ASSUME IsFiniteSet(Cameras) PROVE Spec => [](Inv /\ HolderReady)
<1>1. Init => Inv /\ HolderReady
  BY InitInv, SharingAssumption DEF Init, HolderReady
<1>2. (Inv /\ HolderReady) /\ [Next]_vars => (Inv /\ HolderReady)'
  BY NextInv, HolderReadyKept
<1>. QED
  BY <1>1, <1>2, PTL DEF Spec

(* The thread that holds the admission mutex is at a position from which   *)
(* it can go on alone: a roll-back that stops cameras under the mutex      *)
(* never comes to wait for it (startJobStepCameras_, stopCameraForJob).    *)
THEOREM HolderNeverWaits == ASSUME IsFiniteSet(Cameras) PROVE Spec => []HolderReady
BY HolderInv, PTL

(* And each of its steps leaves it fewer: with the scheduling of the thread*)
(* this is why the mutex is given back, for any number of cameras.         *)
THEOREM MutexComesBack == ASSUME IsFiniteSet(Cameras) PROVE Spec => HolderAdvances
<1>. DEFINE Advance == \A t \in Threads : admission = t /\ admission' = t =>
                         thread'[t] = thread[t] \/ StepsLeft(t)' < StepsLeft(t)
<1>1. ASSUME Inv, HolderReady, [Next]_vars PROVE Advance
  <2>1. SUFFICES ASSUME NEW t \in Threads, admission = t, admission' = t
                 PROVE  thread'[t] = thread[t] \/ StepsLeft(t)' < StepsLeft(t)
    OBVIOUS
  <2>2. t # None
    BY SharingAssumption
  <2>. QED
    BY <1>1, <2>1, <2>2, HolderStep DEF Advances
<1>2. Inv /\ HolderReady /\ [Next]_vars => [Advance]_vars
  BY <1>1
<1>. QED
  BY <1>2, HolderInv, PTL DEF Spec, HolderAdvances
=============================================================================
