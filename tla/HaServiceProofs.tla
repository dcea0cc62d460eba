--------------------------- MODULE HaServiceProofs ---------------------------
(***************************************************************************)
(* Proofs about the Home Assistant worker and its callers: one thread at a *)
(* time, a control that says Running only of a live thread, a depth that   *)
(* is the queue's length, and a motion slot whose wakeup is never lost,    *)
(* for every capacity and any number of saves, shutdowns, failures, posts  *)
(* and motion changes.                                                     *)
(***************************************************************************)
EXTENDS HaService, TLAPS

ThreadRecord == [pc : PCs, observed : Generations, config : Settings,
                 next : Generations, stale : BOOLEAN, up : BOOLEAN,
                 active : Levels \cup {NoLevel}, motion : BOOLEAN,
                 publish : BOOLEAN]

(* The types, of the callers too.                                          *)
StateOK ==
    /\ config \in Settings
    /\ config_generation \in Generations \ {0}
    /\ {accept_motion, wakeup_queued, notify} \subseteq BOOLEAN
    /\ queue_depth \in 0 .. Capacity
    /\ worker \in {None} \cup Controls
    /\ queue \in [Launches -> Seq(Requests)]
    /\ shutdown_requested \in [Launches -> BOOLEAN]
    /\ thread \in [Launches -> ThreadRecord]
    /\ state \in {"disabled", "error", "connecting", "online", "backoff"}
    /\ admin \in [pc : {"idle", "load", "lock", "join", "launch"},
                  config : Settings, launch : Generations]
    /\ closer \in [pc : {"idle", "lock", "join"}, launch : Generations]
    /\ client \in Posted \cup {None}
    /\ level \in Levels /\ retained \in Levels \cup {NoLevel}
    /\ saves \in 0 .. MaxSaves

(* A reconfigure still to come has a generation left to take, and takes it *)
(* before it launches a thread: the thread's name is then a fresh one.     *)
Pending == IF admin.pc \in {"load", "lock"} THEN 1 ELSE 0
GenerationsAreFresh ==
    /\ config_generation + saves + Pending <= MaxSaves + 2
    /\ admin.pc \in {"join", "launch"} => config_generation >= 2
    /\ \A t \in Launches : thread[t].pc # "none" =>
          /\ t <= config_generation
          /\ admin.pc \in {"join", "launch"} => t < config_generation
    /\ \A t \in Launches : thread[t].pc = "none" =>
          queue[t] = <<>> /\ ~thread[t].up

(* The control is that of the only thread there is.                        *)
ControlIsTheThreads ==
    /\ \A t \in Launches : Alive(t) => worker # None /\ worker.launch = t
    /\ worker # None => thread[worker.launch].pc # "none"
    /\ RunningIsAlive

DepthIsTheQueues ==
    /\ \A t \in Launches : Alive(t) => queue_depth = Len(queue[t])
    /\ \A t \in Launches : Len(queue[t]) <= Capacity
    /\ (\A t \in Launches : ~Alive(t)) => queue_depth = 0

(* Where a wakeup is in the queue, and where it may be in hand instead.    *)
SessionPoints == {"control", "drain", "collect", "states", "reset", "read",
                  "publish", "poll", "requests"}
Awaits(t) == thread[t].up \/ thread[t].pc \in {"read", "publish"}
SlotHasItsWakeup ==
    \A t \in Launches :
        /\ thread[t].up => thread[t].pc \in SessionPoints
        /\ thread[t].pc \in {"poll", "requests"} => thread[t].up
        /\ Awaits(t) /\ thread[t].config = "motion" /\ wakeup_queued
              /\ thread[t].observed = config_generation
           => \/ Contains(queue[t], "motion")
              \/ thread[t].pc \in {"poll", "reset"} /\ thread[t].motion

HaInv == /\ StateOK /\ GenerationsAreFresh /\ ControlIsTheThreads
         /\ DepthIsTheQueues /\ SlotHasItsWakeup
-----------------------------------------------------------------------------
(* What the assumptions say of the constants.                              *)
LEMMA Constants ==
    /\ Capacity \in Nat /\ Capacity >= 1 /\ MaxSaves \in Nat
    /\ None \notin Requests /\ None \notin Controls
    /\ Saved \subseteq Settings /\ Found \subseteq Settings
BY SettingsAssumption, LimitsAssumption, NoneAssumption

(* The fields of a thread's record.                                        *)
LEMMA ThreadFields ==
    ASSUME StateOK, NEW t \in Launches
    PROVE  /\ thread[t] \in ThreadRecord
           /\ thread[t].pc \in PCs /\ thread[t].observed \in Generations
           /\ thread[t].config \in Settings /\ thread[t].next \in Generations
           /\ thread[t].stale \in BOOLEAN /\ thread[t].up \in BOOLEAN
           /\ thread[t].active \in Levels \cup {NoLevel}
           /\ thread[t].motion \in BOOLEAN /\ thread[t].publish \in BOOLEAN
BY DEF StateOK, ThreadRecord

(* The record of a thread between sessions. *)
FreshAt(pc, observed) == [Fresh EXCEPT !.pc = pc, !.observed = observed]

(* A record between sessions is a thread's.                                *)
LEMMA FreshIsAThread ==
    ASSUME NEW pc \in PCs, NEW observed \in Generations
    PROVE  /\ FreshAt(pc, observed) \in ThreadRecord
           /\ FreshAt(pc, observed).pc = pc
           /\ FreshAt(pc, observed).up = FALSE
           /\ FreshAt(pc, observed).observed = observed
<1>1. 0 \in Generations
    BY Constants DEF Generations
<1> QED BY <1>1 DEF Fresh, FreshAt, ThreadRecord, Settings

(* What a thread does on its own: it stays alive, and only its record, its  *)
(* queue with the depth, the slot, the reported state, the broker's copy   *)
(* and a bound change.                                                     *)
Steps(t) ==
    /\ Alive(t) /\ Alive(t)'
    /\ thread' \in [Launches -> ThreadRecord]
    /\ \A u \in Launches \ {t} : thread'[u] = thread[u]
    /\ UNCHANGED <<config_generation, accept_motion, worker,
                   shutdown_requested, callers, motion, saves>>
    /\ wakeup_queued' \in {wakeup_queued, FALSE}
    /\ state' \in {"disabled", "error", "connecting", "online", "backoff"}
    /\ retained' \in Levels \cup {NoLevel}

Moves(t) == Steps(t) /\ UNCHANGED <<queue, queue_depth>>

Drains(t) ==
    /\ Steps(t)
    /\ \A u \in Launches \ {t} : queue'[u] = queue[u]
    /\ queue' \in [Launches -> Seq(Requests)]
    /\ Len(queue'[t]) <= Len(queue[t])
    /\ queue_depth' = queue_depth - (Len(queue[t]) - Len(queue'[t]))

(* The slot of one thread. *)
SlotOf(t) ==
    /\ thread[t].up => thread[t].pc \in SessionPoints
    /\ thread[t].pc \in {"poll", "requests"} => thread[t].up
    /\ Awaits(t) /\ thread[t].config = "motion" /\ wakeup_queued
          /\ thread[t].observed = config_generation
       => \/ Contains(queue[t], "motion")
          \/ thread[t].pc \in {"poll", "reset"} /\ thread[t].motion

(* A step of the thread alone keeps the invariant when its own slot does.  *)
LEMMA DrainsKeep ==
    ASSUME HaInv, NEW t \in Launches, Drains(t), SlotOf(t)'
    PROVE  HaInv'
<1> USE DEF HaInv, Drains, Steps
<1>0. /\ queue[t] \in Seq(Requests) /\ queue'[t] \in Seq(Requests)
      /\ Len(queue[t]) \in Nat /\ Len(queue'[t]) \in Nat
      /\ queue_depth = Len(queue[t]) /\ Len(queue[t]) <= Capacity
      /\ wakeup_queued \in BOOLEAN /\ queue_depth' = Len(queue'[t])
      /\ Capacity \in Nat
    <2>1. queue \in [Launches -> Seq(Requests)] /\ wakeup_queued \in BOOLEAN
        BY DEF StateOK
    <2>2. /\ queue[t] \in Seq(Requests) /\ queue'[t] \in Seq(Requests)
          /\ Len(queue[t]) \in Nat /\ Len(queue'[t]) \in Nat
        BY <2>1
    <2>3. queue_depth = Len(queue[t]) /\ Len(queue[t]) <= Capacity
        BY DEF DepthIsTheQueues
    <2>4. queue_depth' = Len(queue'[t])
        BY <2>2, <2>3
    <2> QED BY <2>1, <2>2, <2>3, <2>4, Constants
<1>1. StateOK'
    <2>1. queue_depth' \in 0 .. Capacity
        BY <1>0
    <2>2. wakeup_queued' \in BOOLEAN
        BY <1>0
    <2> QED BY <2>1, <2>2 DEF StateOK, callers, motion
<1>2. \A u \in Launches : Alive(u)' <=> Alive(u)
    BY DEF Alive
<1>3. \A u \in Launches : thread'[u].pc = "none" <=> thread[u].pc = "none"
    BY DEF Alive
<1>4. GenerationsAreFresh'
    <2>1. \A u \in Launches : thread'[u].pc = "none" =>
             thread'[u] = thread[u] /\ queue'[u] = queue[u]
        BY <1>3 DEF Alive
    <2> QED BY <1>3, <2>1 DEF GenerationsAreFresh, Pending, callers
<1>5. ControlIsTheThreads'
    <2>1. worker # None => worker.launch \in Launches
        BY DEF StateOK, Controls
    <2> QED BY <1>2, <1>3, <2>1 DEF ControlIsTheThreads, RunningIsAlive
<1>6. DepthIsTheQueues'
    <2>1. \A u \in Launches : Alive(u) => u = t
        BY DEF ControlIsTheThreads
    <2>2. \A u \in Launches : Alive(u)' => u = t
        BY <1>2, <2>1
    <2>3. \A u \in Launches : Len(queue[u]) <= Capacity
        BY DEF DepthIsTheQueues
    <2>4. \A u \in Launches : Len(queue'[u]) <= Capacity
        <3> SUFFICES ASSUME NEW u \in Launches PROVE Len(queue'[u]) <= Capacity
            OBVIOUS
        <3>1. CASE u = t
            BY <1>0, <3>1
        <3>2. CASE u # t
            BY <2>3, <3>2
        <3> QED BY <3>1, <3>2
    <2>5. Alive(t)'
        OBVIOUS
    <2> QED BY ONLY <1>0, <2>2, <2>4, <2>5 DEF DepthIsTheQueues
<1>7. SlotHasItsWakeup'
    <2> SUFFICES ASSUME NEW u \in Launches PROVE SlotOf(u)'
        BY DEF SlotHasItsWakeup, SlotOf
    <2>1. CASE u = t
        BY <2>1
    <2>2. CASE u # t
        <3>1. thread'[u] = thread[u] /\ queue'[u] = queue[u]
              /\ config_generation' = config_generation
            BY <2>2
        <3>2. wakeup_queued' => wakeup_queued
            BY <1>0
        <3>3. SlotOf(u)
            BY DEF SlotHasItsWakeup, SlotOf
        <3> QED BY ONLY <3>1, <3>2, <3>3 DEF SlotOf, Awaits
    <2> QED BY <2>1, <2>2
<1> QED BY <1>1, <1>4, <1>5, <1>6, <1>7

(* So does one that leaves the queue alone.                                *)
LEMMA MovesKeep ==
    ASSUME HaInv, NEW t \in Launches, Moves(t), SlotOf(t)'
    PROVE  HaInv'
<1>1. /\ queue \in [Launches -> Seq(Requests)] /\ Len(queue[t]) \in Nat
      /\ queue_depth \in Nat
    BY Constants DEF HaInv, StateOK
<1>2. Drains(t)
    BY <1>1 DEF Moves, Drains
<1> QED BY <1>2, DrainsKeep

(* A thread whose session ended has no slot to wait for. *)
LEMMA SessionEnded ==
    ASSUME StateOK, NEW t \in Launches, NEW pc \in PCs \ {"none", "exited", "read", "publish", "poll", "requests"},
           NEW observed \in Generations, SessionEnds(t, pc, observed)
    PROVE  /\ Alive(t)' /\ SlotOf(t)'
           /\ thread' \in [Launches -> ThreadRecord]
           /\ \A u \in Launches \ {t} : thread'[u] = thread[u]
<1>1. thread' = [thread EXCEPT ![t] = FreshAt(pc, observed)]
    BY DEF SessionEnds, FreshAt
<1>2. thread \in [Launches -> ThreadRecord]
    BY DEF StateOK
<1>3. thread'[t] = FreshAt(pc, observed)
    BY <1>1, <1>2
<1>4. thread'[t].pc = pc /\ ~thread'[t].up /\ thread'[t] \in ThreadRecord
    <2>1. pc \in PCs
        OBVIOUS
    <2>2. /\ FreshAt(pc, observed) \in ThreadRecord
          /\ FreshAt(pc, observed).pc = pc /\ ~FreshAt(pc, observed).up
        BY <2>1, FreshIsAThread
    <2> QED BY ONLY <1>3, <2>2
<1> QED BY <1>1, <1>2, <1>4 DEF Alive, SlotOf, Awaits

(* What Goto leaves of the thread.                                         *)
LEMMA GotoMoves ==
    ASSUME StateOK, NEW t \in Launches, NEW pc \in PCs \ {"none", "exited"}, Goto(t, pc)
    PROVE  /\ Alive(t)'
           /\ thread' \in [Launches -> ThreadRecord]
           /\ \A u \in Launches \ {t} : thread'[u] = thread[u]
           /\ thread'[t].pc = pc
           /\ thread'[t].up = thread[t].up /\ thread'[t].motion = thread[t].motion
           /\ thread'[t].config = thread[t].config
           /\ thread'[t].observed = thread[t].observed
<1>1. thread[t] \in ThreadRecord
    BY DEF StateOK
<1>2. thread'[t] = [thread[t] EXCEPT !.pc = pc]
    BY DEF StateOK, Goto
<1>3. thread'[t] \in ThreadRecord
    BY <1>1, <1>2 DEF ThreadRecord
<1> QED BY <1>1, <1>2, <1>3 DEF StateOK, Goto, Alive, ThreadRecord

(* What Up leaves of the thread.                                           *)
LEMMA UpMoves ==
    ASSUME StateOK, NEW t \in Launches, Up(t)
    PROVE  /\ Alive(t)'
           /\ thread' \in [Launches -> ThreadRecord]
           /\ \A u \in Launches \ {t} : thread'[u] = thread[u]
           /\ thread'[t].pc = "control" /\ thread'[t].up = TRUE
           /\ thread'[t].motion = FALSE
           /\ thread'[t].config = thread[t].config
           /\ thread'[t].observed = thread[t].observed
           /\ state' \in {state, "online"}
<1>1. thread[t] \in ThreadRecord
    BY DEF StateOK
<1>2. thread'[t] = [thread[t] EXCEPT !.pc = "control", !.up = TRUE,
                                     !.motion = FALSE, !.publish = FALSE]
    BY DEF StateOK, Up
<1>3. thread'[t] \in ThreadRecord
    BY <1>1, <1>2 DEF ThreadRecord, PCs
<1> QED BY <1>1, <1>2, <1>3 DEF StateOK, Up, Alive, ThreadRecord

(* What a failure leaves of the thread.                                    *)
LEMMA FailureMoves ==
    ASSUME StateOK, NEW t \in Launches, Failure(t)
    PROVE  /\ Alive(t)' /\ SlotOf(t)'
           /\ thread' \in [Launches -> ThreadRecord]
           /\ \A u \in Launches \ {t} : thread'[u] = thread[u]
           /\ state' = "backoff"
BY SessionEnded, ThreadFields DEF Failure, PCs

(* The steps between sessions and the connect loop. *)
LEMMA LoopSteps ==
    ASSUME HaInv, NEW t \in Launches,
           \/ check_generation(t) \/ load_settings(t) \/ backoff_check(t)
           \/ session_control(t) \/ connect_waits(t) \/ connect_accepted(t)
           \/ publish_discovery(t) \/ broker_fails(t) \/ collect(t)
    PROVE  HaInv'
<1> USE DEF HaInv, service, callers, motion, bounds
<1>0. /\ StateOK /\ config_generation \in Generations
      /\ thread[t] \in ThreadRecord /\ thread \in [Launches -> ThreadRecord]
      /\ wakeup_queued \in BOOLEAN
    BY DEF StateOK
<1>s. SlotOf(t)
    BY DEF SlotHasItsWakeup, SlotOf
<1>1. CASE check_generation(t)
    <2>1. CASE shutdown_requested[t]
        <3>1. ~thread[t].up /\ Goto(t, "exiting")
            BY <1>s, <1>1, <2>1 DEF check_generation, SlotOf, SessionPoints
        <3>2. Moves(t)
            BY <1>0, <1>1, <2>1, <3>1, GotoMoves
               DEF check_generation, Moves, Steps, Alive, PCs, StateOK
        <3>3. SlotOf(t)'
            BY <1>0, <3>1, GotoMoves DEF SlotOf, Awaits, PCs
        <3> QED BY <3>2, <3>3, MovesKeep
    <2>2. CASE ~shutdown_requested[t]
        <3>1. thread' = [thread EXCEPT ![t] = [thread[t] EXCEPT !.pc = "load",
                                                   !.observed = config_generation]]
            BY <1>0, <1>1, <2>2 DEF check_generation
        <3>2. /\ thread'[t] \in ThreadRecord /\ thread'[t].pc = "load"
              /\ thread'[t].up = thread[t].up
            BY <1>0, <3>1 DEF ThreadRecord, PCs
        <3>3. ~thread[t].up
            BY <1>s, <1>1 DEF check_generation, SlotOf, SessionPoints
        <3>4. SlotOf(t)'
            BY <3>2, <3>3 DEF SlotOf, Awaits
        <3>5. Moves(t)
            BY <1>0, <1>1, <3>1, <3>2 DEF check_generation, Moves, Steps, Alive, StateOK
        <3> QED BY <3>4, <3>5, MovesKeep
    <2> QED BY <2>1, <2>2
<1>2. CASE load_settings(t)
    <2>0. ~thread[t].up
        BY <1>s, <1>2 DEF load_settings, SlotOf, SessionPoints
    <2>1. CASE config \in {"quiet", "motion"}
        <3>1. thread' = [thread EXCEPT ![t] = [thread[t] EXCEPT !.pc = "control",
                                                   !.config = config]]
            BY <1>0, <1>2, <2>1 DEF load_settings
        <3>2. /\ thread'[t] \in ThreadRecord /\ thread'[t].pc = "control"
              /\ thread'[t].up = thread[t].up
            BY <1>0, <2>1, <3>1 DEF ThreadRecord, PCs, Settings
        <3>4. SlotOf(t)'
            BY <2>0, <3>2 DEF SlotOf, Awaits
        <3>5. Moves(t)
            BY <1>0, <1>2, <2>1, <3>1, <3>2 DEF load_settings, Moves, Steps, Alive, StateOK
        <3> QED BY <3>4, <3>5, MovesKeep
    <2>2. CASE config \notin {"quiet", "motion"}
        <3>1. PICK pc \in {"backoff", "exiting"} : Goto(t, pc)
            BY <1>2, <2>2 DEF load_settings
        <3>2. Moves(t)
            BY <1>0, <1>2, <2>2, <3>1, GotoMoves
               DEF load_settings, Moves, Steps, Alive, PCs, StateOK
        <3>3. SlotOf(t)'
            BY <1>0, <2>0, <3>1, GotoMoves DEF SlotOf, Awaits, PCs
        <3> QED BY <3>2, <3>3, MovesKeep
    <2> QED BY <2>1, <2>2
<1>3. CASE backoff_check(t)
    <2>1. CASE shutdown_requested[t]
        <3>1. ~thread[t].up /\ Goto(t, "exiting")
            BY <1>s, <1>3, <2>1 DEF backoff_check, SlotOf, SessionPoints
        <3>2. Moves(t)
            BY <1>0, <1>3, <2>1, <3>1, GotoMoves
               DEF backoff_check, Moves, Steps, Alive, PCs, StateOK
        <3>3. SlotOf(t)'
            BY <1>0, <3>1, GotoMoves DEF SlotOf, Awaits, PCs
        <3> QED BY <3>2, <3>3, MovesKeep
    <2>2. CASE ~shutdown_requested[t]
        <3>1. PICK o \in Generations : SessionEnds(t, "top", o)
            BY <1>0, <1>3, <2>2, ThreadFields DEF backoff_check
        <3>2. Moves(t) /\ SlotOf(t)'
            BY <1>0, <1>3, <3>1, SessionEnded DEF backoff_check, Moves, Steps, Alive, PCs, StateOK
        <3> QED BY <3>2, MovesKeep
    <2> QED BY <2>1, <2>2
<1>4. CASE session_control(t)
    <2>1. CASE shutdown_requested[t]
        <3>1. SessionEnds(t, "exiting", thread[t].observed)
            BY <1>4, <2>1 DEF session_control
        <3>2. Moves(t) /\ SlotOf(t)'
            BY <1>0, <1>4, <3>1, SessionEnded, ThreadFields
               DEF session_control, Moves, Steps, Alive, PCs, StateOK
        <3> QED BY <3>2, MovesKeep
    <2>2. CASE ~shutdown_requested[t]
        <3>1. thread' = [thread EXCEPT ![t] = [thread[t] EXCEPT !.pc = "drain",
                            !.next = config_generation,
                            !.stale = (config_generation # thread[t].observed)]]
            BY <1>0, <1>4, <2>2 DEF session_control
        <3>2. /\ thread'[t] \in ThreadRecord /\ thread'[t].pc = "drain"
              /\ thread'[t].up = thread[t].up /\ thread'[t].config = thread[t].config
              /\ thread'[t].observed = thread[t].observed
            BY <1>0, <3>1 DEF ThreadRecord, PCs
        <3>4. SlotOf(t)'
            BY <1>s, <1>4, <3>2
               DEF session_control, SlotOf, Awaits, SessionPoints
        <3>5. Moves(t)
            BY <1>0, <1>4, <3>1, <3>2 DEF session_control, Moves, Steps, Alive, StateOK
        <3> QED BY <3>4, <3>5, MovesKeep
    <2> QED BY <2>1, <2>2
<1>5. CASE connect_waits(t)
    <2>1. ~thread[t].up
        BY <1>s, <1>5 DEF connect_waits, SlotOf, SessionPoints
    <2>2. Moves(t) /\ SlotOf(t)'
        BY <1>0, <1>5, <2>1, GotoMoves
           DEF connect_waits, Moves, Steps, Alive, SlotOf, Awaits, PCs, StateOK
    <2> QED BY <2>2, MovesKeep
<1>6. CASE connect_accepted(t)
    <2>1. CASE Current(t)
        <3>1. ~thread[t].up
            BY <1>s, <1>6 DEF connect_accepted, SlotOf, SessionPoints
        <3>2. Moves(t) /\ SlotOf(t)'
            BY <1>0, <1>6, <2>1, <3>1, GotoMoves
               DEF connect_accepted, Moves, Steps, Alive, SlotOf, Awaits, PCs, StateOK
        <3> QED BY <3>2, MovesKeep
    <2>2. CASE ~Current(t)
        <3>1. SessionEnds(t, "top", config_generation)
            BY <1>6, <2>2 DEF connect_accepted
        <3>2. Moves(t) /\ SlotOf(t)'
            BY <1>0, <1>6, <3>1, SessionEnded DEF connect_accepted, Moves, Steps, Alive, PCs, StateOK
        <3> QED BY <3>2, MovesKeep
    <2> QED BY <2>1, <2>2
<1>7. CASE publish_discovery(t)
    <2>1. CASE Current(t)
        <3>1. ~thread[t].up
            BY <1>s, <1>7 DEF publish_discovery, SlotOf, SessionPoints
        <3>2. Moves(t) /\ SlotOf(t)'
            BY <1>0, <1>7, <2>1, <3>1, GotoMoves
               DEF publish_discovery, Moves, Steps, Alive, SlotOf, Awaits, PCs, StateOK
        <3> QED BY <3>2, MovesKeep
    <2>2. CASE ~Current(t)
        <3>2. Moves(t) /\ SlotOf(t)'
            BY <1>0, <1>7, <2>2, FailureMoves DEF publish_discovery, Moves, Steps, Alive, StateOK
        <3> QED BY <3>2, MovesKeep
    <2> QED BY <2>1, <2>2
<1>8. CASE broker_fails(t)
    <2>2. Moves(t) /\ SlotOf(t)'
        BY <1>0, <1>8, FailureMoves DEF broker_fails, Moves, Steps, Alive, StateOK
    <2> QED BY <2>2, MovesKeep
<1>9. CASE collect(t)
    <2>1. thread' = [thread EXCEPT ![t] = [thread[t] EXCEPT !.pc = "states", !.active = level]]
        BY <1>0, <1>9 DEF collect
    <2>2. /\ thread'[t] \in ThreadRecord /\ thread'[t].pc = "states"
          /\ thread'[t].up = thread[t].up /\ thread'[t].config = thread[t].config
          /\ thread'[t].observed = thread[t].observed
        BY <1>0, <2>1 DEF ThreadRecord, PCs, StateOK
    <2>4. SlotOf(t)'
        BY <1>s, <1>9, <2>2 DEF collect, SlotOf, Awaits, SessionPoints
    <2>5. Moves(t)
        BY <1>0, <1>9, <2>1, <2>2 DEF collect, Moves, Steps, Alive, StateOK
    <2> QED BY <2>4, <2>5, MovesKeep
<1> QED BY <1>1, <1>2, <1>3, <1>4, <1>5, <1>6, <1>7, <1>8, <1>9

(* The steps of a session that is up, or about to be. *)
LEMMA SessionSteps ==
    ASSUME HaInv, NEW t \in Launches,
           \/ publish_states(t) \/ collection_fails(t)
           \/ publish_motion_resync(t) \/ release_slot(t) \/ read_motion(t)
           \/ publish_motion(t) \/ poll_due(t) \/ poll_not_due(t)
           \/ states_due(t) \/ states_not_due(t)
    PROVE  HaInv'
<1> USE DEF HaInv, service, callers, motion, bounds
<1>0. /\ StateOK /\ config_generation \in Generations
      /\ thread[t] \in ThreadRecord /\ thread \in [Launches -> ThreadRecord]
      /\ wakeup_queued \in BOOLEAN /\ level \in Levels
      /\ retained \in Levels \cup {NoLevel} /\ thread[t].active \in Levels \cup {NoLevel}
    BY DEF StateOK, ThreadRecord
<1>s. SlotOf(t)
    BY DEF SlotHasItsWakeup, SlotOf
<1> SUFFICES Moves(t) /\ SlotOf(t)'
    BY MovesKeep
<1>1. CASE publish_states(t)
    <2>1. CASE ~Connected(t) /\ ~Current(t)
        <3>1. Failure(t) /\ UNCHANGED <<retained, wakeup_queued>>
            BY <1>1, <2>1 DEF publish_states
        <3> QED
            BY <1>0, <1>1, <3>1, FailureMoves DEF publish_states, Moves, Steps, Alive, StateOK
    <2>2. CASE Connected(t) \/ (Current(t) /\ thread[t].config # "motion")
        <3>1. Up(t) /\ wakeup_queued' \in {wakeup_queued, FALSE}
              /\ retained' \in {retained, thread[t].active}
            BY <1>1, <2>2 DEF publish_states
        <3>2. Moves(t)
            BY <1>0, <1>1, <3>1, UpMoves DEF publish_states, Moves, Steps, Alive, StateOK
        <3>3. thread[t].config = "motion" /\ wakeup_queued' => thread[t].up /\ wakeup_queued
            BY <1>0, <2>2, <3>1 DEF Connected
        <3>4. thread[t].pc = "states" /\ UNCHANGED <<queue, config_generation>>
            BY <1>1 DEF publish_states
        <3>5. SlotOf(t)'
            BY <1>0, <1>s, <3>1, <3>3, <3>4, UpMoves DEF SlotOf, Awaits, SessionPoints
        <3> QED BY <3>2, <3>5
    <2>3. CASE ~Connected(t) /\ Current(t) /\ thread[t].config = "motion"
        <3>0. Goto(t, "resync") /\ UNCHANGED <<state, wakeup_queued>>
            BY <1>1, <2>3 DEF publish_states
        <3>1. Moves(t)
            BY <1>0, <1>1, <3>0, GotoMoves DEF publish_states, Moves, Steps, Alive, StateOK, PCs
        <3>2. SlotOf(t)'
            BY <1>0, <2>3, <3>0, GotoMoves DEF SlotOf, Awaits, PCs, Connected
        <3> QED BY <3>1, <3>2
    <2> QED BY <2>1, <2>2, <2>3
<1>2. CASE collection_fails(t)
    <2>1. CASE Failure(t)
        BY <1>0, <1>2, <2>1, FailureMoves DEF collection_fails, Moves, Steps, Alive, StateOK
    <2>2. CASE Up(t) /\ Connected(t)
        <3>1. Moves(t)
            BY <1>0, <1>2, <2>2, UpMoves DEF collection_fails, Moves, Steps, Alive, StateOK
        <3>3. SlotOf(t)'
            BY <1>0, <1>s, <1>2, <2>2, UpMoves
               DEF collection_fails, SlotOf, Awaits, SessionPoints, Connected
        <3> QED BY <3>1, <3>3
    <2> QED BY <1>2, <2>1, <2>2 DEF collection_fails
<1>3. CASE publish_motion_resync(t)
    <2>1. CASE Failure(t)
        BY <1>0, <1>3, <2>1, FailureMoves DEF publish_motion_resync, Moves, Steps, Alive, StateOK
    <2>2. CASE Goto(t, "reset") /\ UNCHANGED state
        <3>0. ~thread[t].up
            BY <1>s, <1>3 DEF publish_motion_resync, SlotOf, SessionPoints
        <3>1. Moves(t)
            BY <1>0, <1>3, <2>2, GotoMoves DEF publish_motion_resync, Moves, Steps, Alive, StateOK, PCs
        <3>2. SlotOf(t)'
            <4>1. thread'[t].pc = "reset" /\ thread'[t].up = thread[t].up
                BY <1>0, <2>2, GotoMoves DEF PCs
            <4> QED BY ONLY <3>0, <4>1 DEF SlotOf, Awaits
        <3> QED BY <3>1, <3>2
    <2> QED BY <1>3, <2>1, <2>2 DEF publish_motion_resync
<1>4. CASE release_slot(t)
    <2>1. Moves(t)
        BY <1>0, <1>4, GotoMoves DEF release_slot, Moves, Steps, Alive, StateOK, PCs
    <2>2. SlotOf(t)'
        BY <1>0, <1>4, GotoMoves DEF release_slot, SlotOf, SessionPoints, PCs
    <2> QED BY <2>1, <2>2
<1>5. CASE read_motion(t)
    <2>1. thread' = [thread EXCEPT ![t] = [thread[t] EXCEPT !.pc = "publish", !.active = level]]
        BY <1>0, <1>5 DEF read_motion
    <2>2. /\ thread'[t] \in ThreadRecord /\ thread'[t].pc = "publish"
          /\ thread'[t].up = thread[t].up /\ thread'[t].config = thread[t].config
          /\ thread'[t].observed = thread[t].observed
        BY <1>0, <2>1 DEF ThreadRecord, PCs
    <2>4. SlotOf(t)'
        BY <1>s, <1>5, <2>2 DEF read_motion, SlotOf, Awaits, SessionPoints
    <2>5. Moves(t)
        BY <1>0, <1>5, <2>1, <2>2 DEF read_motion, Moves, Steps, Alive, StateOK
    <2> QED BY <2>4, <2>5
<1>6. CASE publish_motion(t)
    <2>1. CASE Failure(t)
        BY <1>0, <1>6, <2>1, FailureMoves DEF publish_motion, Moves, Steps, Alive, StateOK
    <2>2. CASE Goto(t, "requests") /\ Connected(t) /\ UNCHANGED state
        <3>1. Moves(t)
            BY <1>0, <1>6, <2>2, GotoMoves DEF publish_motion, Moves, Steps, Alive, StateOK, PCs
        <3>2. SlotOf(t)'
            BY <1>0, <1>s, <1>6, <2>2, GotoMoves
               DEF publish_motion, SlotOf, Awaits, PCs, SessionPoints, Connected
        <3> QED BY <3>1, <3>2
    <2>3. CASE Up(t)
        <3>1. Moves(t)
            BY <1>0, <1>6, <2>3, UpMoves DEF publish_motion, Moves, Steps, Alive, StateOK
        <3>2. SlotOf(t)'
            BY <1>0, <1>s, <1>6, <2>3, UpMoves
               DEF publish_motion, SlotOf, Awaits, SessionPoints
        <3> QED BY <3>1, <3>2
    <2> QED BY <1>6, <2>1, <2>2, <2>3 DEF publish_motion
<1>7. CASE poll_due(t) \/ poll_not_due(t)
    <2>1. PICK pc \in {"reset", "requests"} :
             /\ Goto(t, pc)
             /\ pc = "requests" => thread[t].config # "motion" \/ ~thread[t].motion
        BY <1>7 DEF poll_due, poll_not_due
    <2>2. thread[t].pc = "poll" /\ UNCHANGED <<wakeup_queued, queue, config_generation>>
        BY <1>7 DEF poll_due, poll_not_due
    <2>3. Moves(t)
        BY <1>0, <1>7, <2>1, GotoMoves DEF poll_due, poll_not_due, Moves, Steps, Alive, StateOK, PCs
    <2>4. SlotOf(t)'
        BY <1>0, <1>s, <2>1, <2>2, GotoMoves DEF SlotOf, Awaits, PCs, SessionPoints
    <2> QED BY <2>3, <2>4
<1>8. CASE states_due(t)
    <2>1. CASE Failure(t)
        BY <1>0, <1>8, <2>1, FailureMoves DEF states_due, Moves, Steps, Alive, StateOK
    <2>2. CASE Goto(t, "collect") /\ UNCHANGED state
        <3>1. Moves(t)
            BY <1>0, <1>8, <2>2, GotoMoves DEF states_due, Moves, Steps, Alive, StateOK, PCs
        <3>2. SlotOf(t)'
            BY <1>0, <1>s, <1>8, <2>2, GotoMoves
               DEF states_due, SlotOf, Awaits, PCs, SessionPoints
        <3> QED BY <3>1, <3>2
    <2> QED BY <1>8, <2>1, <2>2 DEF states_due
<1>9. CASE states_not_due(t)
    <2>1. Moves(t)
        BY <1>0, <1>9, UpMoves DEF states_not_due, Moves, Steps, Alive, StateOK
    <2>2. /\ Up(t) /\ thread[t].pc = "requests"
          /\ UNCHANGED <<queue, config_generation, wakeup_queued>>
        BY <1>9 DEF states_not_due
    <2>3. thread[t].up
        BY <1>s, <2>2 DEF SlotOf
    <2>4. SlotOf(t)'
        BY <1>0, <1>s, <2>2, <2>3, UpMoves DEF SlotOf, Awaits, SessionPoints
    <2> QED BY <2>1, <2>4
<1> QED BY <1>1, <1>2, <1>3, <1>4, <1>5, <1>6, <1>7, <1>8, <1>9

(* How much of the queue a drain takes. *)
LEMMA TakenOf ==
    ASSUME StateOK, NEW t \in Launches, NEW n \in Taken(t)
    PROVE  /\ n \in 0 .. Len(queue[t])
           /\ ~(~thread[t].stale /\ Contains(SubSeq(queue[t], 1, n), "reconnect"))
              => n = Len(queue[t])
<1>1. queue[t] \in Seq(Requests) /\ Len(queue[t]) \in Nat
    BY DEF StateOK
<1>2. CASE ~thread[t].stale /\ Contains(queue[t], "reconnect")
    <2>1. n \in 1 .. Len(queue[t]) /\ queue[t][n] = "reconnect"
        BY <1>1, <1>2 DEF Taken
    <2>2. Len(SubSeq(queue[t], 1, n)) = n /\ SubSeq(queue[t], 1, n)[n] = queue[t][n]
        BY <1>1, <2>1
    <2> QED BY <1>1, <1>2, <2>1, <2>2 DEF Contains
<1>3. CASE ~(~thread[t].stale /\ Contains(queue[t], "reconnect"))
    BY <1>1, <1>3 DEF Taken
<1> QED BY <1>2, <1>3

(* The steps that take requests from the queue. *)
LEMMA DrainStep ==
    ASSUME HaInv, NEW t \in Launches, drain(t)
    PROVE  HaInv'
<1> USE DEF HaInv, service, callers, motion, bounds
<1>0. /\ StateOK /\ thread[t] \in ThreadRecord
      /\ thread \in [Launches -> ThreadRecord]
      /\ queue \in [Launches -> Seq(Requests)]
      /\ queue[t] \in Seq(Requests) /\ Len(queue[t]) \in Nat
      /\ queue_depth \in Nat /\ wakeup_queued \in BOOLEAN
    BY Constants DEF StateOK
<1>s. SlotOf(t)
    BY DEF SlotHasItsWakeup, SlotOf
<1>1. PICK n \in Taken(t) :
         /\ queue' = [queue EXCEPT ![t] = SubSeq(queue[t], n + 1, Len(queue[t]))]
         /\ queue_depth' = queue_depth - n
         /\ LET taken == SubSeq(queue[t], 1, n)
                reconnect == ~thread[t].stale /\ Contains(taken, "reconnect")
            IN \/ /\ reconnect
                  /\ SessionEnds(t, "top", thread[t].observed)
               \/ /\ ~reconnect /\ ~HasSender(t)
                  /\ SessionEnds(t, "exiting", thread[t].observed)
               \/ /\ ~reconnect /\ HasSender(t) /\ thread[t].stale
                  /\ SessionEnds(t, "top", thread[t].next)
               \/ /\ ~reconnect /\ HasSender(t) /\ ~thread[t].stale
                  /\ thread' = [thread EXCEPT
                       ![t].pc = IF Connected(t) THEN "poll" ELSE "handshake",
                       ![t].motion = Connected(t) /\ Contains(taken, "motion"),
                       ![t].publish = Connected(t) /\ Contains(taken, "publish")]
    BY <1>0 DEF drain
<1>2. n \in 0 .. Len(queue[t])
    BY <1>0, TakenOf
<1>3. /\ queue'[t] \in Seq(Requests) /\ Len(queue'[t]) = Len(queue[t]) - n
      /\ queue' \in [Launches -> Seq(Requests)]
      /\ \A u \in Launches \ {t} : queue'[u] = queue[u]
    <2>1. queue'[t] = SubSeq(queue[t], n + 1, Len(queue[t]))
        BY <1>0, <1>1
    <2>2. queue'[t] \in Seq(Requests) /\ Len(queue'[t]) = Len(queue[t]) - n
        BY <1>0, <1>2, <2>1
    <2> QED BY <1>0, <1>1, <2>2
<1>4. /\ Len(queue'[t]) <= Len(queue[t])
      /\ queue_depth' = queue_depth - (Len(queue[t]) - Len(queue'[t]))
    BY <1>0, <1>1, <1>2, <1>3
<1>5. SUFFICES Steps(t) /\ SlotOf(t)'
    BY <1>3, <1>4, DrainsKeep DEF Drains
<1>6. CASE \E pc \in {"top", "exiting"}, o \in Generations : SessionEnds(t, pc, o)
    <2>1. PICK pc \in {"top", "exiting"}, o \in Generations : SessionEnds(t, pc, o)
        BY <1>6
    <2>2. pc \in PCs \ {"none", "exited", "read", "publish", "poll", "requests"}
        BY DEF PCs
    <2>3. /\ Alive(t)' /\ SlotOf(t)'
          /\ thread' \in [Launches -> ThreadRecord]
          /\ \A u \in Launches \ {t} : thread'[u] = thread[u]
        BY <1>0, <2>1, <2>2, SessionEnded
    <2>4. Alive(t)
        BY DEF drain, Alive
    <2>5. Steps(t)
        BY <2>3, <2>4 DEF drain, Steps, StateOK
    <2> QED BY <2>3, <2>5
<1>7. CASE /\ ~(~thread[t].stale /\ Contains(SubSeq(queue[t], 1, n), "reconnect"))
           /\ thread' = [thread EXCEPT
                ![t].pc = IF Connected(t) THEN "poll" ELSE "handshake",
                ![t].motion = Connected(t) /\ Contains(SubSeq(queue[t], 1, n), "motion"),
                ![t].publish = Connected(t) /\ Contains(SubSeq(queue[t], 1, n), "publish")]
    <2>1. SubSeq(queue[t], 1, n) = queue[t]
        BY <1>0, <1>7, TakenOf
    <2>2. /\ Connected(t) \in BOOLEAN
          /\ (Connected(t) /\ Contains(queue[t], "motion")) \in BOOLEAN
          /\ (Connected(t) /\ Contains(queue[t], "publish")) \in BOOLEAN
        BY <1>0, ThreadFields DEF Connected
    <2>3. thread' = [thread EXCEPT ![t] = [thread[t] EXCEPT
                !.pc = IF Connected(t) THEN "poll" ELSE "handshake",
                !.motion = Connected(t) /\ Contains(queue[t], "motion"),
                !.publish = Connected(t) /\ Contains(queue[t], "publish")]]
        BY <1>0, <1>7, <2>1
    <2>4. /\ thread'[t] \in ThreadRecord
          /\ thread'[t].pc = (IF Connected(t) THEN "poll" ELSE "handshake")
          /\ thread'[t].up = thread[t].up /\ thread'[t].config = thread[t].config
          /\ thread'[t].observed = thread[t].observed
          /\ thread'[t].motion = (Connected(t) /\ Contains(queue[t], "motion"))
        <3> DEFINE pc == IF Connected(t) THEN "poll" ELSE "handshake"
                   mo == Connected(t) /\ Contains(queue[t], "motion")
                   pu == Connected(t) /\ Contains(queue[t], "publish")
        <3>1. pc \in {"poll", "handshake"} /\ mo \in BOOLEAN /\ pu \in BOOLEAN
            BY <2>2
        <3>2. thread'[t] = [thread[t] EXCEPT !.pc = pc, !.motion = mo, !.publish = pu]
            BY <1>0, <2>3
        <3> HIDE DEF pc, mo, pu
        <3>3. /\ thread'[t] \in ThreadRecord /\ thread'[t].pc = pc
              /\ thread'[t].up = thread[t].up /\ thread'[t].config = thread[t].config
              /\ thread'[t].observed = thread[t].observed /\ thread'[t].motion = mo
            BY <1>0, <3>1, <3>2 DEF ThreadRecord, PCs
        <3> QED BY <3>3 DEF pc, mo
    <2>5. Alive(t) /\ thread[t].pc = "drain"
        BY DEF drain, Alive
    <2>6. Steps(t)
        BY <1>0, <2>3, <2>4, <2>5 DEF drain, Steps, Alive, StateOK
    <2>7. SlotOf(t)'
        <3>1. UNCHANGED <<wakeup_queued, config_generation>>
            BY DEF drain
        <3>2. CASE Connected(t)
            BY <1>s, <2>4, <2>5, <3>1, <3>2 DEF SlotOf, Awaits, SessionPoints, Connected
        <3>3. CASE ~Connected(t)
            BY <2>4, <3>3 DEF SlotOf, Awaits, Connected
        <3> QED BY <3>2, <3>3
    <2> QED BY <2>6, <2>7
<1>8. thread[t].observed \in Generations /\ thread[t].next \in Generations
    BY <1>0, ThreadFields
<1> QED BY <1>1, <1>6, <1>7, <1>8

(* A request received during backoff, or the channel closed.               *)
LEMMA BackoffReceive ==
    ASSUME HaInv, NEW t \in Launches, backoff_receive(t)
    PROVE  HaInv'
<1> USE DEF HaInv, service, callers, motion, bounds
<1>0. /\ StateOK /\ thread[t] \in ThreadRecord
      /\ thread \in [Launches -> ThreadRecord]
      /\ queue \in [Launches -> Seq(Requests)]
      /\ queue[t] \in Seq(Requests) /\ Len(queue[t]) \in Nat
      /\ queue_depth \in Nat /\ wakeup_queued \in BOOLEAN
    BY Constants DEF StateOK
<1>s. ~thread[t].up /\ thread[t].pc = "backoff" /\ Alive(t)
    BY DEF SlotHasItsWakeup, SessionPoints, backoff_receive, Alive
<1>1. CASE queue[t] # <<>> /\ queue' = [queue EXCEPT ![t] = Tail(queue[t])]
           /\ queue_depth' = queue_depth - 1
           /\ (UNCHANGED thread \/ Goto(t, "top"))
    <2>1. queue'[t] = Tail(queue[t])
        BY <1>0, <1>1
    <2>2. Tail(queue[t]) \in Seq(Requests) /\ Len(Tail(queue[t])) = Len(queue[t]) - 1
        BY <1>0, <1>1
    <2>3. /\ queue' \in [Launches -> Seq(Requests)]
          /\ \A u \in Launches \ {t} : queue'[u] = queue[u]
          /\ Len(queue'[t]) <= Len(queue[t])
          /\ queue_depth' = queue_depth - (Len(queue[t]) - Len(queue'[t]))
        BY <1>0, <1>1, <2>1, <2>2
    <2>4. /\ Alive(t)' /\ thread' \in [Launches -> ThreadRecord]
          /\ \A u \in Launches \ {t} : thread'[u] = thread[u]
          /\ thread'[t].pc \in {"backoff", "top"} /\ thread'[t].up = thread[t].up
        BY <1>0, <1>s, <1>1, GotoMoves DEF PCs, Alive
    <2>5. SlotOf(t)'
        BY <1>s, <2>4 DEF SlotOf, Awaits
    <2>6. Steps(t)
        BY <1>s, <2>4 DEF backoff_receive, Steps, StateOK
    <2> QED BY <2>3, <2>5, <2>6, DrainsKeep DEF Drains
<1>2. CASE Goto(t, "exiting") /\ UNCHANGED <<queue, queue_depth>>
    <2>1. Moves(t)
        BY <1>0, <1>s, <1>2, GotoMoves DEF backoff_receive, Moves, Steps, StateOK, PCs
    <2>2. SlotOf(t)'
        BY <1>0, <1>s, <1>2, GotoMoves DEF SlotOf, Awaits, PCs
    <2> QED BY <2>1, <2>2, MovesKeep
<1> QED BY <1>1, <1>2 DEF backoff_receive

(* worker_exited: the thread starts over, or it is gone. *)
LEMMA WorkerExited ==
    ASSUME HaInv, NEW t \in Launches, worker_exited(t)
    PROVE  HaInv'
<1> USE DEF HaInv, service, callers, motion, bounds
<1>0. /\ StateOK /\ thread[t] \in ThreadRecord
      /\ thread \in [Launches -> ThreadRecord]
      /\ queue \in [Launches -> Seq(Requests)]
      /\ queue[t] \in Seq(Requests) /\ Len(queue[t]) \in Nat
      /\ queue_depth \in Nat /\ wakeup_queued \in BOOLEAN
    BY Constants DEF StateOK
<1>s. ~thread[t].up /\ thread[t].pc = "exiting" /\ Alive(t)
    BY DEF SlotHasItsWakeup, SessionPoints, worker_exited, Alive
<1>w. worker # None /\ worker.launch = t /\ worker \in Controls
    BY <1>0, <1>s DEF ControlIsTheThreads, StateOK
<1>q. /\ queue' = [queue EXCEPT ![t] = <<>>] /\ queue'[t] = <<>> /\ Len(queue'[t]) = 0
      /\ queue' \in [Launches -> Seq(Requests)]
      /\ \A u \in Launches \ {t} : queue'[u] = queue[u]
    BY <1>0 DEF worker_exited
<1>1. CASE StartsOver(t)
    <2>1. /\ queue_depth' = queue_depth - Len(queue[t])
          /\ SessionEnds(t, "top", 0)
          /\ UNCHANGED <<worker, accept_motion, wakeup_queued>>
        BY <1>w, <1>1 DEF worker_exited
    <2>2. 0 \in Generations /\ "top" \in PCs \ {"none", "exited", "read", "publish", "poll", "requests"}
        BY Constants DEF Generations, PCs
    <2>3. /\ Alive(t)' /\ SlotOf(t)'
          /\ thread' \in [Launches -> ThreadRecord]
          /\ \A u \in Launches \ {t} : thread'[u] = thread[u]
        BY <1>0, <2>1, <2>2, SessionEnded
    <2>4. Steps(t)
        BY <1>s, <2>1, <2>3 DEF worker_exited, Steps, StateOK
    <2> QED BY <1>0, <1>q, <2>1, <2>3, <2>4, DrainsKeep DEF Drains
<1>2. CASE ~StartsOver(t)
    <2>1. /\ worker' = [worker EXCEPT !.state = "Stopping", !.sender = FALSE]
          /\ accept_motion' = FALSE /\ wakeup_queued' = FALSE
          /\ queue_depth' = 0
          /\ Goto(t, "exited")
          /\ UNCHANGED <<config_generation, shutdown_requested, state, callers,
                         motion, retained, bounds>>
        BY <1>w, <1>2 DEF worker_exited
    <2>2. /\ thread'[t] = [thread[t] EXCEPT !.pc = "exited"]
          /\ \A u \in Launches \ {t} : thread'[u] = thread[u]
        BY <1>0, <2>1 DEF Goto
    <2>3. /\ thread'[t].pc = "exited" /\ thread'[t].up = thread[t].up
          /\ thread'[t] \in ThreadRecord
        BY <1>0, <2>2 DEF ThreadRecord, PCs
    <2>4. thread' \in [Launches -> ThreadRecord]
        BY <1>0, <2>1, <2>3 DEF Goto
    <2>5. worker' \in Controls /\ worker'.launch = t /\ worker'.state = "Stopping"
        BY <1>w, <2>1 DEF Controls
    <2>6. \A u \in Launches : ~Alive(u)'
        BY <1>w, <2>2, <2>3 DEF ControlIsTheThreads, Alive
    <2>7. StateOK'
        <3>1. 0 \in 0 .. Capacity
            BY Constants
        <3>2. {accept_motion', wakeup_queued', notify'} \subseteq BOOLEAN
            BY <2>1 DEF StateOK
        <3> QED BY <1>q, <2>1, <2>4, <2>5, <3>1, <3>2 DEF StateOK
    <2>8. GenerationsAreFresh'
        <3>1. \A u \in Launches : thread'[u].pc = "none" =>
                 u # t /\ thread'[u] = thread[u] /\ queue'[u] = queue[u]
            BY <1>q, <2>2, <2>3
        <3> QED BY <1>s, <2>1, <2>2, <3>1 DEF GenerationsAreFresh, Pending
    <2>9. ControlIsTheThreads'
        BY <2>3, <2>5, <2>6 DEF ControlIsTheThreads, RunningIsAlive
    <2>10. DepthIsTheQueues'
        BY <1>0, <1>q, <2>1, <2>6, Constants DEF DepthIsTheQueues
    <2>11. SlotHasItsWakeup'
        BY <1>s, <2>1, <2>2, <2>3 DEF SlotHasItsWakeup, Awaits
    <2> QED BY <2>7, <2>8, <2>9, <2>10, <2>11
<1> QED BY <1>1, <1>2

(* A step of a caller that touches no thread and no queue.                 *)
LEMMA CallerKeeps ==
    ASSUME HaInv, StateOK', GenerationsAreFresh', ControlIsTheThreads',
           UNCHANGED <<thread, queue, config_generation>>,
           UNCHANGED queue_depth \/ (queue_depth' = 0 /\ \A t \in Launches : ~Alive(t)),
           wakeup_queued' => wakeup_queued
    PROVE  HaInv'
<1>1. DepthIsTheQueues'
    BY DEF HaInv, DepthIsTheQueues, Alive
<1>2. SlotHasItsWakeup'
    BY DEF HaInv, SlotHasItsWakeup, Awaits
<1> QED BY <1>1, <1>2 DEF HaInv

(* A caller that does not touch the control either.                        *)
LEMMA ControlKeeps ==
    ASSUME HaInv, UNCHANGED <<thread, worker>>
    PROVE  ControlIsTheThreads'
BY DEF HaInv, ControlIsTheThreads, RunningIsAlive, Alive

(* The generations stay fresh while the handler that saves is left alone.  *)
LEMMA FreshKeeps ==
    ASSUME HaInv, UNCHANGED <<thread, queue, config_generation, admin, saves>>
    PROVE  GenerationsAreFresh'
BY DEF HaInv, GenerationsAreFresh, Pending

(* The flags, one by one.                                                  *)
LEMMA SlotIsBoolean ==
    ASSUME StateOK
    PROVE  /\ wakeup_queued \in BOOLEAN /\ accept_motion \in BOOLEAN
           /\ notify \in BOOLEAN
BY DEF StateOK

(* save, and reconfigure until it launches.                                *)
LEMMA SaveSteps ==
    ASSUME HaInv,
           \/ \E c \in Saved : save(c)
           \/ reconfigure_load \/ reconfigure_lock \/ reconfigure_join
    PROVE  HaInv'
<1> USE DEF service, callers, motion, bounds
<1>0. /\ StateOK /\ ControlIsTheThreads /\ GenerationsAreFresh
      /\ config_generation \in Nat /\ config_generation >= 1
      /\ saves \in Nat /\ MaxSaves \in Nat
      /\ wakeup_queued \in BOOLEAN /\ worker \in {None} \cup Controls
    BY Constants DEF HaInv, StateOK, Generations
<1>1. ASSUME NEW c \in Saved, save(c)
      PROVE  HaInv'
    <2>1. /\ admin' = [admin EXCEPT !.pc = "load"] /\ admin.pc = "idle"
          /\ saves > 0 /\ saves' = saves - 1 /\ config' = c
          /\ UNCHANGED <<service, queue, thread, closer, client, motion, retained>>
        BY <1>1 DEF save
    <2>2. StateOK'
        <3>1. config' \in Settings /\ saves' \in 0 .. MaxSaves
            BY <1>0, <2>1, Constants DEF StateOK
        <3>2. admin' \in [pc : {"idle", "load", "lock", "join", "launch"},
                          config : Settings, launch : Generations]
            BY <1>0, <2>1 DEF StateOK
        <3> QED BY <1>0, <2>1, <3>1, <3>2 DEF StateOK
    <2>3. admin'.pc = "load"
        BY <1>0, <2>1 DEF StateOK
    <2>4. GenerationsAreFresh'
        BY <1>0, <2>1, <2>3 DEF GenerationsAreFresh, Pending
    <2> QED BY <1>0, <2>1, <2>2, <2>4, ControlKeeps, CallerKeeps
<1>2. CASE reconfigure_load
    <2>1. /\ admin' = [admin EXCEPT !.pc = "lock", !.config = config] /\ admin.pc = "load"
          /\ state' \in {"error", state}
          /\ UNCHANGED <<config_generation, accept_motion, queue_depth, wakeup_queued,
                   worker, shutdown_requested, queue, thread, config, closer,
                   client, motion, retained, bounds>>
        BY <1>2 DEF reconfigure_load
    <2>2. admin' \in [pc : {"idle", "load", "lock", "join", "launch"},
                      config : Settings, launch : Generations]
          /\ admin'.pc = "lock"
        BY <1>0, <2>1 DEF StateOK
    <2>3. StateOK'
        BY <1>0, <2>1, <2>2 DEF StateOK
    <2>4. GenerationsAreFresh'
        BY <1>0, <2>1, <2>2 DEF GenerationsAreFresh, Pending
    <2> QED BY <1>0, <2>1, <2>3, <2>4, ControlKeeps, CallerKeeps
<1>3. CASE reconfigure_lock
    <2>1. /\ admin.pc = "lock" /\ config_generation' = config_generation + 1
          /\ wakeup_queued' = FALSE /\ accept_motion' \in BOOLEAN
          /\ UNCHANGED <<queue_depth, shutdown_requested, state, queue, thread,
                         config, closer, client, motion, retained, bounds>>
        BY <1>3 DEF reconfigure_lock, WantsMotion
    <2>2. /\ admin' \in [pc : {"idle", "load", "lock", "join", "launch"},
                         config : Settings, launch : Generations]
          /\ admin'.pc \in {"launch", "idle", "join"}
        <3>1. admin \in [pc : {"idle", "load", "lock", "join", "launch"},
                         config : Settings, launch : Generations]
            BY <1>0 DEF StateOK
        <3>2. worker # None => worker.launch \in Generations
            BY <1>0 DEF Controls, Launches, Generations
        <3>3. CASE \E pc \in {"launch", "idle"} : admin' = [admin EXCEPT !.pc = pc]
            BY <3>1, <3>3
        <3>4. CASE /\ worker # None
                   /\ admin' = [admin EXCEPT !.pc = "join", !.launch = worker.launch]
            BY <3>1, <3>2, <3>4
        <3> QED BY <1>3, <3>3, <3>4 DEF reconfigure_lock
    <2>3. \/ UNCHANGED worker
          \/ /\ worker # None /\ worker.state = "Stopping"
             /\ worker' = [worker EXCEPT !.handle = FALSE]
        BY <1>3 DEF reconfigure_lock
    <2>4. /\ worker' \in {None} \cup Controls
          /\ worker # None => worker'.launch = worker.launch /\ worker'.state = worker.state
          /\ worker # None /\ worker.state = "Running" => worker' = worker
        BY <1>0, <2>3 DEF Controls
    <2>5. worker' # None <=> worker # None
        <3>1. CASE UNCHANGED worker
            BY <3>1
        <3>2. CASE worker # None /\ worker' = [worker EXCEPT !.handle = FALSE]
            <4>1. worker' \in Controls
                BY <1>0, <3>2 DEF Controls
            <4> QED BY <3>2, <4>1, Constants
        <3> QED BY <2>3, <3>1, <3>2
    <2>l. config_generation + 1 <= MaxSaves + 2
        BY <1>0, <2>1 DEF GenerationsAreFresh, Pending
    <2>6. StateOK'
        <3>1. config_generation' \in Generations \ {0}
            BY <1>0, <2>1, <2>l DEF Generations
        <3>2. {accept_motion', wakeup_queued', notify'} \subseteq BOOLEAN
            BY <1>0, <2>1, SlotIsBoolean
        <3> QED BY <1>0, <2>1, <2>2, <2>4, <3>1, <3>2 DEF StateOK
    <2>7. GenerationsAreFresh'
        <3>1. config_generation' + saves' + Pending' <= MaxSaves + 2
            BY <1>0, <2>1, <2>2 DEF GenerationsAreFresh, Pending
        <3>2. \A t \in Launches : t \in Nat
            BY Constants DEF Launches
        <3> QED BY <1>0, <2>1, <3>1, <3>2 DEF GenerationsAreFresh
    <2>8. ControlIsTheThreads'
        BY <1>0, <2>1, <2>4, <2>5 DEF ControlIsTheThreads, RunningIsAlive, Alive
    <2>9. DepthIsTheQueues'
        BY <2>1 DEF HaInv, DepthIsTheQueues, Alive
    <2>10. SlotHasItsWakeup'
        BY <2>1 DEF HaInv, SlotHasItsWakeup
    <2> QED BY <2>6, <2>7, <2>8, <2>9, <2>10 DEF HaInv
<1>4. CASE reconfigure_join
    <2>1. /\ admin' = [admin EXCEPT !.pc = "launch"] /\ admin.pc = "join"
          /\ thread[admin.launch].pc = "exited"
          /\ worker' = IF JoinedIs(admin.launch) THEN None ELSE worker
          /\ UNCHANGED <<config_generation, accept_motion, queue_depth, wakeup_queued,
                   shutdown_requested, state, queue, thread, config, closer,
                   client, motion, retained, bounds>>
        BY <1>4 DEF reconfigure_join
    <2>2. admin' \in [pc : {"idle", "load", "lock", "join", "launch"},
                      config : Settings, launch : Generations]
          /\ admin'.pc = "launch"
        BY <1>0, <2>1 DEF StateOK
    <2>3. StateOK'
        BY <1>0, <2>1, <2>2 DEF StateOK
    <2>4. GenerationsAreFresh'
        BY <1>0, <2>1, <2>2 DEF GenerationsAreFresh, Pending
    <2>5. ControlIsTheThreads'
        <3>1. CASE JoinedIs(admin.launch)
            BY <1>0, <2>1, <3>1 DEF JoinedIs, ControlIsTheThreads, RunningIsAlive, Alive
        <3>2. CASE ~JoinedIs(admin.launch)
            BY <1>0, <2>1, <3>2 DEF ControlIsTheThreads, RunningIsAlive, Alive
        <3> QED BY <3>1, <3>2
    <2> QED BY <2>1, <2>3, <2>4, <2>5, CallerKeeps
<1> QED BY <1>1, <1>2, <1>3, <1>4

(* reconfigure launches: no thread is left, and the name is a fresh one.   *)
LEMMA LaunchStep ==
    ASSUME HaInv, reconfigure_launch, admin.config # "off", worker = None, Launch
    PROVE  HaInv'
<1> USE DEF service, callers, motion, bounds
<1> DEFINE t == config_generation
<1>0. /\ StateOK /\ ControlIsTheThreads /\ GenerationsAreFresh
      /\ DepthIsTheQueues /\ SlotHasItsWakeup
      /\ saves \in Nat /\ MaxSaves \in Nat
      /\ thread \in [Launches -> ThreadRecord]
      /\ queue \in [Launches -> Seq(Requests)]
    BY Constants DEF HaInv, StateOK
<1>1. t \in Launches
    <2>1. /\ config_generation \in Nat /\ config_generation >= 2
          /\ config_generation + saves + Pending <= MaxSaves + 2
        BY <1>0 DEF reconfigure_launch, GenerationsAreFresh, StateOK, Generations
    <2> QED BY <1>0, <2>1 DEF Launches, Pending
<1>2. \A u \in Launches : ~Alive(u)
    BY <1>0 DEF ControlIsTheThreads
<1>3. thread[t].pc = "none" /\ queue[t] = <<>> /\ ~thread[t].up
    <2>1. ~(t < config_generation) /\ admin.pc = "launch"
        BY <1>1 DEF reconfigure_launch, Launches
    <2> QED BY <1>0, <1>1, <2>1 DEF GenerationsAreFresh
<1>4. queue_depth = 0
    BY <1>0, <1>2 DEF DepthIsTheQueues
<1>5. /\ worker' = [launch |-> t, state |-> "Running", sender |-> TRUE, handle |-> TRUE]
      /\ thread' = [thread EXCEPT ![t] = [thread[t] EXCEPT !.pc = "top"]]
      /\ admin' = [admin EXCEPT !.pc = "idle"]
      /\ UNCHANGED <<accept_motion, wakeup_queued, queue_depth, state,
                     config_generation, shutdown_requested, queue, config,
                     closer, client, motion, retained, saves>>
    BY <1>0 DEF reconfigure_launch, Launch
<1> HIDE DEF t
<1>6. /\ thread'[t] = [thread[t] EXCEPT !.pc = "top"]
      /\ thread'[t].pc = "top" /\ thread'[t].up = thread[t].up
      /\ thread' \in [Launches -> ThreadRecord]
      /\ \A u \in Launches \ {t} : thread'[u] = thread[u]
    <2>1. thread[t] \in ThreadRecord
        BY <1>0, <1>1
    <2>2. /\ [thread[t] EXCEPT !.pc = "top"] \in ThreadRecord
          /\ [thread[t] EXCEPT !.pc = "top"].pc = "top"
          /\ [thread[t] EXCEPT !.pc = "top"].up = thread[t].up
        BY <2>1 DEF ThreadRecord, PCs
    <2> QED BY <1>0, <1>1, <1>5, <2>2
<1>7. \A u \in Launches : Alive(u)' <=> u = t
    BY <1>1, <1>2, <1>6 DEF Alive
<1>8. worker' \in Controls
    BY <1>1, <1>5 DEF Controls
<1>9. /\ admin' \in [pc : {"idle", "load", "lock", "join", "launch"},
                     config : Settings, launch : Generations]
      /\ admin'.pc = "idle"
    BY <1>0, <1>5 DEF StateOK
<1>10. StateOK'
    BY <1>0, <1>5, <1>6, <1>8, <1>9 DEF StateOK
<1>11. GenerationsAreFresh'
    <2>1. \A u \in Launches : u # t => thread'[u].pc = thread[u].pc /\ thread'[u].up = thread[u].up
        BY <1>6
    <2>2. admin.pc = "launch" /\ t = config_generation /\ t <= config_generation
        BY <1>1 DEF reconfigure_launch, t, Launches
    <2> QED BY <1>0, <1>5, <1>6, <1>9, <2>1, <2>2 DEF GenerationsAreFresh, Pending
<1>12. ControlIsTheThreads'
    <2>1. worker' # None
        BY <1>8, Constants
    <2> QED BY <1>1, <1>5, <1>6, <1>7, <2>1 DEF ControlIsTheThreads, RunningIsAlive
<1>13. DepthIsTheQueues'
    <2>1. Len(queue[t]) = 0
        BY <1>3
    <2> QED BY <1>0, <1>1, <1>4, <1>5, <1>7, <2>1 DEF DepthIsTheQueues
<1>14. SlotHasItsWakeup'
    <2> SUFFICES ASSUME NEW u \in Launches PROVE SlotOf(u)'
        BY DEF SlotHasItsWakeup, SlotOf
    <2>1. CASE u = t
        BY <1>3, <1>6, <2>1 DEF SlotOf, Awaits
    <2>2. CASE u # t
        <3>1. SlotOf(u)
            BY <1>0 DEF SlotHasItsWakeup, SlotOf
        <3>2. /\ thread'[u] = thread[u] /\ queue' = queue
              /\ wakeup_queued' = wakeup_queued /\ config_generation' = config_generation
            BY <1>5, <1>6, <2>2
        <3> QED BY <3>1, <3>2 DEF SlotOf, Awaits
    <2> QED BY <2>1, <2>2
<1> QED BY <1>10, <1>11, <1>12, <1>13, <1>14 DEF HaInv

(* reconfigure launches, is refused the thread or finds nothing to launch. *)
LEMMA LaunchSteps ==
    ASSUME HaInv, reconfigure_launch
    PROVE  HaInv'
<1> USE DEF service, callers, motion, bounds
<1>0. StateOK /\ GenerationsAreFresh /\ ControlIsTheThreads
    BY DEF HaInv
<1>1. CASE admin.config # "off" /\ worker = None /\ Launch
    BY <1>1, LaunchStep
<1>2. CASE ~(admin.config # "off" /\ worker = None /\ Launch)
    <2>1. /\ admin' = [admin EXCEPT !.pc = "idle"] /\ admin.pc = "launch"
          /\ UNCHANGED <<config_generation, shutdown_requested, queue, config, closer,
                   client, motion, retained, saves, worker, thread>>
        BY <1>2 DEF reconfigure_launch, SpawnFails
    <2>2. \/ /\ state' \in {"disabled", state}
             /\ UNCHANGED <<accept_motion, wakeup_queued, queue_depth>>
          \/ /\ worker = None /\ state' = "error"
             /\ accept_motion' = FALSE /\ wakeup_queued' = FALSE /\ queue_depth' = 0
        BY <1>2 DEF reconfigure_launch, SpawnFails
    <2>3. /\ admin' \in [pc : {"idle", "load", "lock", "join", "launch"},
                         config : Settings, launch : Generations]
          /\ admin'.pc = "idle"
        BY <1>0, <2>1 DEF StateOK
    <2>4. StateOK'
        <3>1. 0 \in 0 .. Capacity
            BY Constants
        <3>2. {accept_motion', wakeup_queued', notify'} \subseteq BOOLEAN
            BY <1>0, <2>1, <2>2, SlotIsBoolean
        <3> QED BY <1>0, <2>1, <2>2, <2>3, <3>1, <3>2 DEF StateOK
    <2>5. GenerationsAreFresh'
        BY <1>0, <2>1, <2>3 DEF GenerationsAreFresh, Pending
    <2>6. ControlIsTheThreads'
        BY <2>1, ControlKeeps
    <2>7. UNCHANGED queue_depth \/ (queue_depth' = 0 /\ \A t \in Launches : ~Alive(t))
        BY <1>0, <2>2 DEF ControlIsTheThreads
    <2>8. wakeup_queued' => wakeup_queued
        BY <2>2
    <2> QED BY <2>1, <2>4, <2>5, <2>6, <2>7, <2>8, CallerKeeps
<1> QED BY <1>1, <1>2

(* shutdown. *)
LEMMA CloserSteps ==
    ASSUME HaInv, shutdown_refuse_motion \/ shutdown_stop \/ shutdown_join
    PROVE  HaInv'
<1> USE DEF service, callers, motion, bounds
<1>0. /\ StateOK /\ ControlIsTheThreads /\ GenerationsAreFresh
      /\ closer \in [pc : {"idle", "lock", "join"}, launch : Generations]
      /\ worker \in {None} \cup Controls
    BY DEF HaInv, StateOK
<1>1. CASE shutdown_refuse_motion
    <2>1. /\ accept_motion' = FALSE /\ wakeup_queued' = FALSE
          /\ closer' = [closer EXCEPT !.pc = "lock"]
          /\ UNCHANGED <<config_generation, queue_depth, worker, shutdown_requested,
                   state, queue, thread, config, admin, client, motion,
                   retained, saves>>
        BY <1>1 DEF shutdown_refuse_motion
    <2>2. StateOK'
        <3>1. {accept_motion', wakeup_queued', notify'} \subseteq BOOLEAN
            BY <1>0, <2>1, SlotIsBoolean
        <3>2. closer' \in [pc : {"idle", "lock", "join"}, launch : Generations]
            BY <1>0, <2>1
        <3> QED BY <1>0, <2>1, <3>1, <3>2 DEF StateOK
    <2> QED BY <2>1, <2>2, FreshKeeps, ControlKeeps, CallerKeeps
<1>2. CASE shutdown_stop
    <2>1. UNCHANGED <<config_generation, accept_motion, wakeup_queued, state,
                   queue, thread, config, admin, client, motion, retained,
                   bounds>>
        BY <1>2 DEF shutdown_stop
    <2>2. closer' \in [pc : {"idle", "lock", "join"}, launch : Generations]
        <3>1. worker # None => worker.launch \in Generations
            BY <1>0 DEF Controls, Launches, Generations
        <3> QED BY <1>0, <1>2, <3>1 DEF shutdown_stop
    <2>3. CASE worker = None
        <3>1. UNCHANGED <<worker, shutdown_requested>> /\ queue_depth' = 0
            BY <1>2, <2>3 DEF shutdown_stop
        <3>2. \A t \in Launches : ~Alive(t)
            BY <1>0, <2>3 DEF ControlIsTheThreads
        <3>3. StateOK'
            <4>1. 0 \in 0 .. Capacity
                BY Constants
            <4> QED BY <1>0, <2>1, <2>2, <3>1, <4>1 DEF StateOK
        <3> QED BY <2>1, <3>1, <3>2, <3>3, FreshKeeps, ControlKeeps, CallerKeeps
    <2>4. CASE worker # None
        <3>1. /\ worker' = [worker EXCEPT !.state = "Stopping", !.sender = FALSE,
                                          !.handle = FALSE]
              /\ shutdown_requested' = [shutdown_requested EXCEPT ![worker.launch] = TRUE]
              /\ UNCHANGED queue_depth
            BY <1>2, <2>4 DEF shutdown_stop
        <3>2. /\ worker' \in Controls /\ worker'.launch = worker.launch
              /\ worker'.state = "Stopping"
            BY <1>0, <2>4, <3>1 DEF Controls
        <3>3. StateOK'
            <4>1. shutdown_requested' \in [Launches -> BOOLEAN]
                BY <1>0, <3>1 DEF StateOK
            <4> QED BY <1>0, <2>1, <2>2, <3>1, <3>2, <4>1 DEF StateOK
        <3>4. ControlIsTheThreads'
            <4>1. worker' # None
                BY <3>2, Constants
            <4> QED BY <1>0, <2>1, <2>4, <3>2, <4>1 DEF ControlIsTheThreads, RunningIsAlive, Alive
        <3> QED BY <2>1, <3>1, <3>3, <3>4, FreshKeeps, CallerKeeps
    <2> QED BY <2>3, <2>4
<1>3. CASE shutdown_join
    <2>1. /\ thread[closer.launch].pc = "exited"
          /\ closer' = [closer EXCEPT !.pc = "idle"]
          /\ UNCHANGED <<config_generation, accept_motion, wakeup_queued,
                   shutdown_requested, state, queue, thread, config, admin,
                   client, motion, retained, bounds>>
        BY <1>3 DEF shutdown_join
    <2>2. closer' \in [pc : {"idle", "lock", "join"}, launch : Generations]
        BY <1>0, <2>1
    <2>3. CASE JoinedIs(closer.launch)
        <3>1. worker' = None /\ queue_depth' = 0
            BY <1>3, <2>3 DEF shutdown_join
        <3>2. \A t \in Launches : ~Alive(t)
            BY <1>0, <2>1, <2>3 DEF JoinedIs, ControlIsTheThreads, Alive
        <3>3. StateOK'
            <4>1. 0 \in 0 .. Capacity
                BY Constants
            <4> QED BY <1>0, <2>1, <2>2, <3>1, <4>1 DEF StateOK
        <3>4. ControlIsTheThreads'
            BY <2>1, <3>1, <3>2 DEF ControlIsTheThreads, RunningIsAlive, Alive
        <3> QED BY <2>1, <3>1, <3>2, <3>3, <3>4, FreshKeeps, CallerKeeps
    <2>4. CASE ~JoinedIs(closer.launch)
        <3>1. UNCHANGED <<worker, queue_depth>>
            BY <1>3, <2>4 DEF shutdown_join
        <3>2. StateOK'
            BY <1>0, <2>1, <2>2, <3>1 DEF StateOK
        <3> QED BY <2>1, <3>1, <3>2, FreshKeeps, ControlKeeps, CallerKeeps
    <2> QED BY <2>3, <2>4
<1> QED BY <1>1, <1>2, <1>3

(* What is appended is in the queue, and so is what was there before.      *)
LEMMA AppendContains ==
    ASSUME NEW S, NEW q \in Seq(S), NEW r \in S
    PROVE  /\ Append(q, r) \in Seq(S) /\ Len(Append(q, r)) = Len(q) + 1
           /\ Contains(Append(q, r), r)
           /\ \A e : Contains(q, e) => Contains(Append(q, r), e)
<1>1. /\ Append(q, r) \in Seq(S) /\ Len(Append(q, r)) = Len(q) + 1 /\ Len(q) \in Nat
      /\ Append(q, r)[Len(q) + 1] = r
      /\ \A i \in 1 .. Len(q) : Append(q, r)[i] = q[i]
    OBVIOUS
<1>2. Contains(Append(q, r), r)
    BY <1>1 DEF Contains
<1>3. ASSUME NEW e, Contains(q, e) PROVE Contains(Append(q, r), e)
    <2>1. PICK i \in 1 .. Len(q) : q[i] = e
        BY <1>3 DEF Contains
    <2>2. i \in 1 .. (Len(q) + 1) /\ Append(q, r)[i] = e
        BY <1>1, <2>1
    <2> QED BY <1>1, <2>2 DEF Contains
<1> QED BY <1>1, <1>2, <1>3

(* An accepted request goes to the channel of the thread that will read it. *)
LEMMA EnqueueKeeps ==
    ASSUME HaInv, NEW r \in Requests, Running, Accepts(worker.launch),
           enqueue_to(worker.launch, r),
           wakeup_queued' \in {wakeup_queued, r = "motion"},
           notify' \in BOOLEAN, client' \in Posted \cup {None},
           UNCHANGED <<config_generation, accept_motion, worker,
                       shutdown_requested, state, thread, config, admin,
                       closer, level, retained, bounds>>
    PROVE  HaInv'
<1> DEFINE t == worker.launch
<1>0. /\ StateOK /\ ControlIsTheThreads /\ DepthIsTheQueues /\ SlotHasItsWakeup
      /\ queue \in [Launches -> Seq(Requests)] /\ Capacity \in Nat
      /\ wakeup_queued \in BOOLEAN /\ accept_motion \in BOOLEAN
      /\ saves' = saves
    BY Constants, SlotIsBoolean DEF HaInv, StateOK, bounds
<1>1. t \in Launches /\ Alive(t)
    BY <1>0 DEF Running, StateOK, Controls, ControlIsTheThreads, RunningIsAlive
<1>2. /\ queue' = [queue EXCEPT ![t] = Append(queue[t], r)]
      /\ queue_depth' = queue_depth + 1 /\ Len(queue[t]) < Capacity
    BY <1>0, <1>1 DEF enqueue_to, Accepts
<1> HIDE DEF t
<1>3. /\ queue[t] \in Seq(Requests) /\ Len(queue[t]) \in Nat
      /\ queue'[t] = Append(queue[t], r)
      /\ \A u \in Launches \ {t} : queue'[u] = queue[u]
    BY <1>0, <1>1, <1>2
<1>4. /\ queue'[t] \in Seq(Requests) /\ Len(queue'[t]) = Len(queue[t]) + 1
      /\ Contains(queue'[t], r)
      /\ Contains(queue[t], "motion") => Contains(queue'[t], "motion")
    BY <1>3, AppendContains
<1>5. /\ queue_depth = Len(queue[t])
      /\ \A u \in Launches : Alive(u) => u = t
      /\ \A u \in Launches : Len(queue[u]) <= Capacity
    BY <1>0, <1>1 DEF DepthIsTheQueues, ControlIsTheThreads
<1>6. StateOK'
    <2>1. queue_depth' \in 0 .. Capacity
        BY <1>0, <1>2, <1>3, <1>5
    <2>2. queue' \in [Launches -> Seq(Requests)]
        BY <1>0, <1>1, <1>2, <1>3, <1>4
    <2>3. {accept_motion', wakeup_queued', notify'} \subseteq BOOLEAN
        BY <1>0
    <2> QED BY <1>0, <2>1, <2>2, <2>3 DEF StateOK
<1>7. GenerationsAreFresh'
    <2>1. \A u \in Launches : thread[u].pc = "none" => u # t
        BY <1>1 DEF Alive
    <2> QED BY <1>0, <1>3, <2>1 DEF HaInv, GenerationsAreFresh, Pending
<1>8. ControlIsTheThreads'
    BY ControlKeeps
<1>9. \A u \in Launches : Alive(u)' <=> Alive(u)
    BY DEF Alive
<1>10. DepthIsTheQueues'
    <2>1. \A u \in Launches : Len(queue'[u]) <= Capacity
        <3> SUFFICES ASSUME NEW u \in Launches PROVE Len(queue'[u]) <= Capacity
            OBVIOUS
        <3>1. CASE u = t
            BY <1>0, <1>2, <1>3, <1>4, <3>1
        <3>2. CASE u # t
            BY <1>3, <1>5, <3>2
        <3> QED BY <3>1, <3>2
    <2>2. queue_depth' = Len(queue'[t])
        BY <1>2, <1>4, <1>5
    <2> QED BY ONLY <1>1, <1>5, <1>9, <2>1, <2>2 DEF DepthIsTheQueues
<1>11. SlotHasItsWakeup'
    <2> SUFFICES ASSUME NEW u \in Launches PROVE SlotOf(u)'
        BY DEF SlotHasItsWakeup, SlotOf
    <2>1. SlotOf(u)
        BY <1>0 DEF SlotHasItsWakeup, SlotOf
    <2>2. Contains(queue[u], "motion") => Contains(queue'[u], "motion")
        BY <1>3, <1>4
    <2>3. Awaits(u) => u = t
        <3>1. thread[u].up => thread[u].pc \in SessionPoints
            BY <1>0 DEF SlotHasItsWakeup
        <3> QED BY <1>5, <3>1 DEF Awaits, Alive, SessionPoints
    <2>4. CASE wakeup_queued' => wakeup_queued
        BY <2>1, <2>2, <2>4 DEF SlotOf, Awaits
    <2>5. CASE r = "motion"
        BY <1>4, <2>1, <2>3, <2>5 DEF SlotOf, Awaits
    <2> QED BY <2>4, <2>5
<1> QED BY <1>6, <1>7, <1>8, <1>10, <1>11 DEF HaInv

(* HTTP actions and the motion poller. *)
LEMMA CallerSteps ==
    ASSUME HaInv,
           \/ \E r \in Posted : action_check(r)
           \/ enqueue \/ enqueue_motion \/ motion_contended
           \/ \E l \in Levels : motion_changes(l)
    PROVE  HaInv'
<1> USE DEF service, callers, motion, bounds
<1>0. StateOK
    BY DEF HaInv
<1>1. CASE \E r \in Posted : action_check(r)
    <2>1. /\ client' \in Posted
          /\ UNCHANGED <<service, queue, thread, config, admin, closer, motion,
                         retained, saves>>
        BY <1>1 DEF action_check
    <2>2. StateOK'
        BY <1>0, <2>1 DEF StateOK
    <2> QED BY <2>1, <2>2, FreshKeeps, ControlKeeps, CallerKeeps
<1>2. CASE enqueue
    <2>1. client \in Requests /\ client' = None
        BY <1>0, <1>2 DEF enqueue, StateOK, Posted, Requests
    <2>2. CASE Running /\ Accepts(worker.launch)
        <3>1. enqueue_to(worker.launch, client)
            BY <1>2, <2>2 DEF enqueue
        <3>2. UNCHANGED <<config_generation, accept_motion, wakeup_queued, worker,
                   shutdown_requested, state, thread, config, admin, closer,
                   motion, retained, bounds>>
            BY <1>2 DEF enqueue
        <3>3. notify' \in BOOLEAN
            BY <1>0, <3>2, SlotIsBoolean
        <3> QED BY <2>1, <2>2, <3>1, <3>2, <3>3, EnqueueKeeps
    <2>3. CASE ~(Running /\ Accepts(worker.launch))
        <3>1. UNCHANGED <<config_generation, accept_motion, wakeup_queued, worker,
                   shutdown_requested, state, thread, config, admin, closer,
                   motion, retained, bounds, queue, queue_depth>>
            BY <1>2, <2>3 DEF enqueue
        <3>2. StateOK'
            BY <1>0, <2>1, <3>1 DEF StateOK
        <3> QED BY <3>1, <3>2, FreshKeeps, ControlKeeps, CallerKeeps
    <2> QED BY <2>2, <2>3
<1>3. CASE enqueue_motion
    <2>1. /\ notify' = FALSE
          /\ UNCHANGED <<config_generation, accept_motion, worker, shutdown_requested,
                   state, thread, callers, level, retained, bounds>>
        BY <1>3 DEF enqueue_motion
    <2>2. CASE accept_motion /\ Running /\ ~wakeup_queued /\ Accepts(worker.launch)
        <3>1. wakeup_queued' = TRUE /\ enqueue_to(worker.launch, "motion")
            BY <1>3, <2>2 DEF enqueue_motion
        <3>2. client' \in Posted \cup {None} /\ "motion" \in Requests
            BY <1>0, <2>1 DEF StateOK, Requests
        <3> QED BY <2>1, <2>2, <3>1, <3>2, EnqueueKeeps
    <2>3. CASE ~(accept_motion /\ Running /\ ~wakeup_queued /\ Accepts(worker.launch))
        <3>1. UNCHANGED <<wakeup_queued, queue, queue_depth>>
            BY <1>3, <2>3 DEF enqueue_motion
        <3>2. {accept_motion', wakeup_queued', notify'} \subseteq BOOLEAN
            BY <1>0, <2>1, <3>1, SlotIsBoolean
        <3>3. StateOK'
            BY <1>0, <2>1, <3>1, <3>2 DEF StateOK
        <3> QED BY <2>1, <3>1, <3>3, FreshKeeps, ControlKeeps, CallerKeeps
    <2> QED BY <2>2, <2>3
<1>4. CASE motion_contended
    <2>1. /\ notify' = FALSE
          /\ UNCHANGED <<service, queue, thread, callers, level, retained, bounds>>
        BY <1>4 DEF motion_contended
    <2>2. {accept_motion', wakeup_queued', notify'} \subseteq BOOLEAN
        BY <1>0, <2>1, SlotIsBoolean
    <2>3. StateOK'
        BY <1>0, <2>1, <2>2 DEF StateOK
    <2> QED BY <2>1, <2>3, FreshKeeps, ControlKeeps, CallerKeeps
<1>5. CASE \E l \in Levels : motion_changes(l)
    <2>1. /\ level' \in Levels /\ notify' \in BOOLEAN
          /\ UNCHANGED <<service, queue, thread, callers, retained, saves>>
        BY <1>5 DEF motion_changes
    <2>2. {accept_motion', wakeup_queued', notify'} \subseteq BOOLEAN
        BY <1>0, <2>1, SlotIsBoolean
    <2>3. StateOK'
        BY <1>0, <2>1, <2>2 DEF StateOK
    <2> QED BY <2>1, <2>3, FreshKeeps, ControlKeeps, CallerKeeps
<1> QED BY <1>1, <1>2, <1>3, <1>4, <1>5

(* The daemon starts with no worker.                                       *)
LEMMA InitialState == Init => HaInv
<1> SUFFICES ASSUME Init PROVE HaInv
    OBVIOUS
<1>1. /\ saves \in 0 .. MaxSaves
    <2>1. \A b \in Budgets : b.saves \in 0 .. MaxSaves
        BY LimitsAssumption
    <2> QED BY <2>1 DEF Init
<1>2. Fresh \in ThreadRecord /\ Fresh.pc = "none" /\ Fresh.up = FALSE
    BY Constants DEF Fresh, ThreadRecord, PCs, Generations, Settings
<1>3. /\ thread = [t \in Launches |-> Fresh]
      /\ \A t \in Launches : thread[t] = Fresh
      /\ thread \in [Launches -> ThreadRecord]
    BY <1>2 DEF Init
<1>4. /\ queue \in [Launches -> Seq(Requests)]
      /\ \A t \in Launches : queue[t] = <<>> /\ Len(queue[t]) = 0
    <2>1. <<>> \in Seq(Requests) /\ Len(<<>>) = 0
        OBVIOUS
    <2> QED BY <2>1 DEF Init
<1>5. admin \in [pc : {"idle", "load", "lock", "join", "launch"},
                 config : Settings, launch : Generations] /\ admin.pc = "load"
    BY Constants DEF Init, Settings, Generations
<1>6. closer \in [pc : {"idle", "lock", "join"}, launch : Generations]
    BY Constants DEF Init, Generations
<1>7. /\ config_generation = 1 /\ config_generation \in Generations \ {0}
      /\ queue_depth = 0 /\ queue_depth \in 0 .. Capacity
    BY Constants DEF Init, Generations
<1>8. StateOK
    <2>1. {accept_motion, wakeup_queued, notify} \subseteq BOOLEAN
        BY DEF Init
    <2>2. /\ config \in Settings /\ worker \in {None} \cup Controls
          /\ shutdown_requested \in [Launches -> BOOLEAN]
          /\ client \in Posted \cup {None}
          /\ level \in Levels /\ retained \in Levels \cup {NoLevel}
        BY Constants DEF Init
    <2>3. state \in {"disabled", "error", "connecting", "online", "backoff"}
        BY DEF Init
    <2> QED BY <1>1, <1>3, <1>4, <1>5, <1>6, <1>7, <2>1, <2>2, <2>3 DEF StateOK
<1>9. GenerationsAreFresh
    BY <1>1, <1>2, <1>3, <1>4, <1>5, <1>7, Constants DEF GenerationsAreFresh, Pending
<1>10. ControlIsTheThreads
    BY <1>2, <1>3 DEF Init, ControlIsTheThreads, RunningIsAlive, Alive
<1>11. DepthIsTheQueues
    BY <1>2, <1>3, <1>4, <1>7, Constants DEF DepthIsTheQueues, Alive
<1>12. SlotHasItsWakeup
    BY <1>2, <1>3 DEF SlotHasItsWakeup, Awaits
<1> QED BY <1>8, <1>9, <1>10, <1>11, <1>12 DEF HaInv

(* Every step of every actor keeps the invariant.                          *)
LEMMA StepInvariant == HaInv /\ [Next]_vars => HaInv'
<1> SUFFICES ASSUME HaInv, [Next]_vars PROVE HaInv'
    OBVIOUS
<1>1. CASE UNCHANGED vars
    <2>1. /\ UNCHANGED <<thread, queue, config_generation, queue_depth, wakeup_queued, worker>>
          /\ UNCHANGED <<admin, saves>>
        BY <1>1 DEF vars, service, callers, bounds
    <2>2. StateOK'
        BY <1>1 DEF HaInv, StateOK, vars, service, callers, motion, bounds
    <2> QED BY <2>1, <2>2, FreshKeeps, ControlKeeps, CallerKeeps
<1>2. CASE \E t \in Launches : Worker(t) \/ broker_fails(t) \/ collection_fails(t)
    <2>1. PICK t \in Launches : Worker(t) \/ broker_fails(t) \/ collection_fails(t)
        BY <1>2
    <2> QED
        BY <2>1, LoopSteps, SessionSteps, DrainStep, BackoffReceive, WorkerExited
           DEF Worker
<1>3. CASE (\E c \in Saved : save(c)) \/ Reconfigure
    BY <1>3, SaveSteps, LaunchSteps DEF Reconfigure
<1>4. CASE shutdown_refuse_motion \/ Shutdown
    BY <1>4, CloserSteps DEF Shutdown
<1>5. CASE \/ \E r \in Posted : action_check(r)
           \/ enqueue \/ enqueue_motion \/ motion_contended
           \/ \E l \in Levels : motion_changes(l)
    BY <1>5, CallerSteps
<1> QED BY <1>1, <1>2, <1>3, <1>4, <1>5 DEF Next

(* The invariant that carries the two results below.                       *)
THEOREM HaInvariance == Spec => []HaInv
<1> QED BY InitialState, StepInvariant, PTL DEF Spec

(* However saves, actions, motion, failures, exits, joins and shutdowns    *)
(* interleave, there is one worker thread at most, a control that says     *)
(* Running is that of a live thread, and the depth the API reports is the  *)
(* length of the queue the worker reads.                                   *)
THEOREM ServiceStaysConsistent == Spec => []ServiceIsConsistent
<1>1. HaInv => ServiceIsConsistent
    <2> SUFFICES ASSUME HaInv PROVE ServiceIsConsistent
        OBVIOUS
    <2>1. StateOK /\ ControlIsTheThreads /\ DepthIsTheQueues
        BY DEF HaInv
    <2>2. TypeOK
        <3>1. /\ \A t \in Launches : Len(queue[t]) <= Capacity
              /\ \A t \in Launches : \A i \in DOMAIN queue[t] : queue[t][i] \in Requests
            <4>1. \A t \in Launches : queue[t] \in Seq(Requests)
                BY <2>1 DEF StateOK
            <4> QED BY <2>1, <4>1 DEF DepthIsTheQueues
        <3> QED BY <2>1, <3>1 DEF StateOK, TypeOK, ThreadRecord
    <2>3. AtMostOneWorker /\ RunningIsAlive
        BY <2>1 DEF ControlIsTheThreads, AtMostOneWorker
    <2>4. DepthMatchesQueue
        <3>1. worker # None => worker.launch \in Launches
            BY <2>1 DEF StateOK, Controls
        <3> QED BY <2>1, <2>3, <3>1 DEF DepthIsTheQueues, RunningIsAlive, DepthMatchesQueue
    <2> QED BY <2>2, <2>3, <2>4 DEF ServiceIsConsistent
<1> QED BY <1>1, HaInvariance, PTL

(* A motion change that took the slot of an established session is never   *)
(* left behind: its wakeup is in the queue or the worker holds it.         *)
THEOREM WakeupStays == Spec => []WakeupIsNotLost
<1>1. HaInv => WakeupIsNotLost
    BY DEF HaInv, SlotHasItsWakeup, WakeupIsNotLost, Awaits, Connected
<1> QED BY <1>1, HaInvariance, PTL
=============================================================================
