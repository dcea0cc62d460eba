------------------------------- MODULE Motion -------------------------------
(***************************************************************************)
(* The poller that turns the results of Raptor's video daemon (RVD) into   *)
(* motion events: motion_lifecycle.rs, the state machine of                *)
(* camera/motion_state.rs, and the user's updates that change its          *)
(* configuration behind its back.                                          *)
(*                                                                         *)
(* A poll is one unit of time.  What the code keeps as monotonic           *)
(* milliseconds is kept here as ages and remainders in polls, each held at *)
(* the largest value a configuration compares it with; the identity of a   *)
(* result (epoch, sequence) is kept as its relation to the last identity   *)
(* the poller has taken in.  The sequence the poller gives its own         *)
(* observations only grows, so the machine's test for replays never fires. *)
(***************************************************************************)
EXTENDS Naturals, FiniteSets

CONSTANTS
    None,             \* the code's None
    Configs,          \* [debounce, cooldown, init, hold], in samples and polls
    MaxRestarts,      \* restarts and pauses of RVD's detector
    MaxUpdates,       \* requests of the user that reach RVD
    MaxMotionFailures \* commands that fail or whose answer is lost

(* The fields are integers of a fixed width: each has a longest.           *)
ASSUME MotionConfigs ==
    /\ Configs \subseteq [debounce : Nat, cooldown : Nat, init : Nat, hold : Nat]
    /\ \A field \in {"debounce", "cooldown", "init", "hold"} :
          \E c \in Configs : \A d \in Configs : d[field] <= c[field]
    /\ {MaxRestarts, MaxUpdates, MaxMotionFailures} \subseteq Nat

Longest(field) ==
    CHOOSE n \in {c[field] : c \in Configs} : \A c \in Configs : c[field] <= n
MaxDebounce == Longest("debounce")
MaxCooldown == Longest("cooldown")
MaxInit     == Longest("init")
MaxHold     == Longest("hold")
UpTo(n, max) == IF n < max THEN n ELSE max

VARIABLES
    rvd,        \* what RVD would answer now, and what it would restart with
    machine,    \* MotionStateMachine
    poller,     \* the locals of worker_loop
    runtime,    \* Snapshot
    update,     \* the request that holds the mutation lock
    motionLog,  \* for the properties: what RVD produced and what was published
    motionLeft  \* what is left of the bounds
motionVars == <<rvd, machine, poller, runtime, update, motionLog, motionLeft>>

MotionTypeOK ==
    /\ rvd \in [active : BOOLEAN, receiving : BOOLEAN, raw : BOOLEAN,
                result : {"none", "other", "same", "newer"},
                config : Configs, saved : Configs, enabled : BOOLEAN]
    /\ machine \in [config : Configs, active : BOOLEAN, session : {"none", "old", "current"},
                    debounce : 0..MaxDebounce, qualifying : (0..MaxHold) \cup {None},
                    cooldown : 0..MaxCooldown]
    /\ poller \in [pc : {"load", "adopt", "poll", "reload", "readopt"}, read : Configs,
                   known : BOOLEAN, resetting : BOOLEAN, awaiting : BOOLEAN,
                   monitoring : BOOLEAN, since : 0..MaxInit]
    /\ runtime \in [available : BOOLEAN, monitoring : BOOLEAN, active : BOOLEAN]
    /\ update \in [pc : {"idle", "lifecycle", "readback", "save"}, enabled : BOOLEAN,
                   config : Configs]
    /\ motionLog \in [announced : BOOLEAN, excused : BOOLEAN, raws : 0..MaxDebounce + 1]
    /\ motionLeft \in [restarts : 0..MaxRestarts, updates : 0..MaxUpdates,
                       failures : 0..MaxMotionFailures]

Fresh(config) == [config |-> config, active |-> FALSE, session |-> "none",
                  debounce |-> 0, qualifying |-> None, cooldown |-> 0]

MotionInit ==
    \E c \in Configs, on \in BOOLEAN :
        /\ rvd = [active |-> on, receiving |-> on, result |-> "none", raw |-> FALSE,
                  config |-> c, saved |-> c, enabled |-> on]
        /\ machine = Fresh(CHOOSE d \in Configs : TRUE)
        /\ poller = [pc |-> "load", read |-> c, known |-> FALSE, resetting |-> FALSE,
                     awaiting |-> TRUE, monitoring |-> FALSE, since |-> 0]
        /\ runtime = [available |-> FALSE, monitoring |-> FALSE, active |-> FALSE]
        /\ update = [pc |-> "idle", enabled |-> on, config |-> c]
        /\ motionLog = [announced |-> FALSE, excused |-> FALSE, raws |-> 0]
        /\ motionLeft = [restarts |-> MaxRestarts, updates |-> MaxUpdates,
                         failures |-> MaxMotionFailures]

Costs(resource) ==
    /\ motionLeft[resource] > 0
    /\ motionLeft' = [motionLeft EXCEPT ![resource] = @ - 1]
Free == UNCHANGED motionLeft

-----------------------------------------------------------------------------
(* RVD, as raptor.patch makes it: every start of the detector opens a new  *)
(* epoch without a result, every result of an epoch has a higher sequence  *)
(* number than the last, and a stopped detector keeps its last result.     *)

NewResult(raw) ==
    /\ rvd.active /\ rvd.receiving
    /\ rvd' = [rvd EXCEPT !.raw = raw,
                          !.result = IF @ \in {"none", "other"} THEN "other" ELSE "newer"]
    /\ motionLog' = IF raw THEN [motionLog EXCEPT !.raws = UpTo(@ + 1, MaxDebounce + 1)]
                           ELSE motionLog
    /\ UNCHANGED <<machine, poller, runtime, update, motionLeft>>

Switched(r, on) ==
    IF on THEN [r EXCEPT !.active = TRUE, !.receiving = TRUE, !.result = "none", !.raw = FALSE]
          ELSE [r EXCEPT !.active = FALSE, !.receiving = FALSE]

RvdRestarts ==
    /\ Costs("restarts")
    /\ rvd' = [Switched(rvd, rvd.enabled) EXCEPT !.config = rvd.saved,
                                                 !.result = "none", !.raw = FALSE]
    /\ motionLog' = [motionLog EXCEPT !.raws = 0]
    /\ UNCHANGED <<machine, poller, runtime, update>>

(* A change of a stream or of the regions pauses the detector.             *)
DetectorPauses ==
    /\ rvd.active /\ rvd.receiving
    /\ Costs("restarts")
    /\ rvd' = [rvd EXCEPT !.receiving = FALSE]
    /\ UNCHANGED <<machine, poller, runtime, update, motionLog>>
DetectorResumes ==
    /\ rvd.active /\ ~rvd.receiving
    /\ rvd' = Switched(rvd, TRUE)
    /\ motionLog' = [motionLog EXCEPT !.raws = 0]
    /\ UNCHANGED <<machine, poller, runtime, update, motionLeft>>

(* set-motion-config and ivs-enable start the detector only if it is off.  *)
Command(on) ==
    /\ rvd' = IF rvd.active = on THEN rvd ELSE Switched(rvd, on)
    /\ motionLog' = IF on /\ ~rvd.active THEN [motionLog EXCEPT !.raws = 0] ELSE motionLog

-----------------------------------------------------------------------------
(* MotionStateMachine::apply.  `since` is the age of the monitoring        *)
(* session.                                                                *)

InSession(m) == IF m.session = "current" THEN m
                ELSE [m EXCEPT !.session = "current", !.debounce = 0]

apply_stopped(m) ==
    [m EXCEPT !.active = FALSE, !.debounce = 0, !.qualifying = None,
              !.cooldown = IF m.active THEN m.config.cooldown ELSE @]

apply_detected(m, since) ==
    LET counted == [m EXCEPT !.debounce = UpTo(@ + 1, MaxDebounce)]
    IN  IF since < m.config.init \/ m.cooldown > 0 THEN m
        ELSE IF counted.debounce < m.config.debounce THEN counted
        ELSE [counted EXCEPT !.active = TRUE, !.qualifying = 0]

apply_clear(m) ==
    LET cleared == [m EXCEPT !.debounce = 0]
    IN  IF ~m.active THEN cleared
        ELSE IF m.qualifying = None THEN [cleared EXCEPT !.qualifying = 0]
        ELSE IF m.qualifying < m.config.hold THEN cleared
        ELSE [cleared EXCEPT !.active = FALSE, !.qualifying = None,
                             !.cooldown = m.config.cooldown]

Apply(m, observation, since) ==
    CASE observation = "stopped"  -> apply_stopped(InSession(m))
      [] observation = "detected" -> apply_detected(InSession(m), since)
      [] observation = "clear"    -> apply_clear(InSession(m))

(* wait_for_next_poll: one poll later.                                     *)
Elapse(m) == [m EXCEPT !.cooldown = IF @ > 0 THEN @ - 1 ELSE 0,
                       !.qualifying = IF @ = None THEN @ ELSE UpTo(@ + 1, MaxHold)]
WaitThen(pc, p) == [p EXCEPT !.pc = pc, !.since = UpTo(@ + 1, MaxInit)]

-----------------------------------------------------------------------------
(* worker_loop.  Each command to RVD is a step of its own; what the poller *)
(* does with the answer under its own locks is one step with it, but for   *)
(* the adoption of a configuration it has read: an update may have adopted *)
(* a newer one in between.                                                 *)

Read == poller' = [poller EXCEPT !.read = rvd.config,
                                 !.pc = IF @ = "load" THEN "adopt" ELSE "readopt"]

load_config ==
    /\ poller.pc = "load" /\ Read
    /\ UNCHANGED <<rvd, machine, runtime, update, motionLog, motionLeft>>

load_fails ==
    /\ poller.pc = "load" /\ Costs("failures")
    /\ runtime' = [runtime EXCEPT !.available = FALSE]
    /\ machine' = Elapse(machine)
    /\ poller' = WaitThen("load", poller)
    /\ UNCHANGED <<rvd, update, motionLog>>

(* A machine thrown away announces no end of its motion.                   *)
Adopted(log, reset) == [log EXCEPT !.excused = @ \/ (reset /\ log.announced)]

adopt_config ==
    /\ poller.pc = "adopt"
    /\ machine' = IF poller.resetting THEN Fresh(poller.read)
                  ELSE [machine EXCEPT !.config = poller.read]
    /\ poller' = IF poller.resetting
                 THEN [poller EXCEPT !.pc = "poll", !.resetting = FALSE,
                                     !.monitoring = FALSE, !.since = 0]
                 ELSE [poller EXCEPT !.pc = "poll"]
    /\ motionLog' = Adopted(motionLog, poller.resetting)
    /\ UNCHANGED <<rvd, runtime, update, motionLeft>>

NothingMeansClear ==   \* variant: a poll without an answer clears the level
    /\ poller.pc = "poll"
    /\ Costs("failures") \/ (rvd.active # rvd.receiving /\ Free)
    /\ runtime' = [runtime EXCEPT !.available = FALSE, !.active = FALSE]
    /\ machine' = Elapse(machine)
    /\ poller' = WaitThen("poll", poller)
    /\ UNCHANGED <<rvd, update, motionLog>>

(* No status, or the detector is neither on nor off.                       *)
poll_nothing ==
    /\ poller.pc = "poll"
    /\ Costs("failures") \/ (rvd.active # rvd.receiving /\ Free)
    /\ runtime' = [runtime EXCEPT !.available = FALSE]
    /\ machine' = Elapse(machine)
    /\ poller' = WaitThen("poll", poller)
    /\ UNCHANGED <<rvd, update, motionLog>>

ProducerChanged == rvd.result = "other" /\ poller.known
Coherent == poller.pc = "poll" /\ rvd.active = rvd.receiving /\ Free
Taken(known) == [rvd EXCEPT !.result = IF @ = "none" THEN "none"
                                       ELSE IF known THEN "same" ELSE "other"]

ProducerNotRemembered ==   \* variant: the new identity is not taken in
    /\ Coherent /\ ProducerChanged
    /\ poller' = [poller EXCEPT !.pc = "reload", !.awaiting = TRUE, !.monitoring = rvd.active]
    /\ motionLog' = [motionLog EXCEPT !.raws = 0]
    /\ UNCHANGED <<rvd, machine, runtime, update, motionLeft>>

poll_other_producer ==
    /\ Coherent /\ ProducerChanged
    /\ rvd' = Taken(TRUE)
    /\ poller' = [poller EXCEPT !.pc = "reload", !.awaiting = TRUE, !.monitoring = rvd.active]
    /\ motionLog' = [motionLog EXCEPT !.raws = 0]
    /\ UNCHANGED <<machine, runtime, update, motionLeft>>

reload_config ==
    /\ poller.pc = "reload" /\ Read
    /\ UNCHANGED <<rvd, machine, runtime, update, motionLog, motionLeft>>

reload_fails ==
    /\ poller.pc = "reload" /\ Costs("failures")
    /\ poller' = WaitThen("load", [poller EXCEPT !.resetting = TRUE])
    /\ runtime' = [runtime EXCEPT !.available = FALSE]
    /\ machine' = Elapse(machine)
    /\ UNCHANGED <<rvd, update, motionLog>>

reset_for_producer ==
    /\ poller.pc = "readopt"
    /\ machine' = Elapse(Fresh(poller.read))
    /\ poller' = WaitThen("poll", [poller EXCEPT !.since = 0])
    /\ runtime' = [available |-> FALSE, monitoring |-> poller.monitoring, active |-> FALSE]
    /\ motionLog' = Adopted(motionLog, TRUE)
    /\ UNCHANGED <<rvd, update, motionLeft>>

AnySample == poller.known /\ rvd.result # "none"   \* variant: a result counts again
NewSample == poller.known /\ rvd.result = "newer"

(* Monitoring, and no result the poller has not seen: the first one only   *)
(* tells it where the producer is.                                         *)
poll_no_sample ==
    /\ Coherent /\ ~ProducerChanged /\ rvd.active /\ ~NewSample
    /\ rvd' = Taken(TRUE)
    /\ poller' = WaitThen("poll", [poller EXCEPT !.known = @ \/ rvd.result # "none"])
    /\ runtime' = [runtime EXCEPT !.available = ~poller.awaiting /\ rvd.result # "none",
                                  !.monitoring = TRUE]
    /\ machine' = Elapse(machine)
    /\ motionLog' = IF poller.known THEN motionLog ELSE [motionLog EXCEPT !.raws = 0]
    /\ UNCHANGED <<update, motionLeft>>

Published(log, before, after) ==
    IF before = after THEN log ELSE [log EXCEPT !.announced = after, !.excused = FALSE]

poll_sample ==
    /\ Coherent /\ ~ProducerChanged /\ (rvd.active => NewSample)
    /\ LET observation == IF ~rvd.active THEN "stopped" ELSE IF rvd.raw THEN "detected" ELSE "clear"
           starts  == rvd.active /\ ~poller.monitoring
           since   == IF starts THEN 0 ELSE poller.since
           before  == IF starts /\ machine.session = "current"
                      THEN [machine EXCEPT !.session = "old"] ELSE machine
           after   == Apply(before, observation, since)
           known   == rvd.result # "none"
       IN  /\ machine' = Elapse(after)
           /\ rvd' = Taken(known)
           /\ poller' = WaitThen("poll", [poller EXCEPT !.known = known, !.awaiting = FALSE,
                                             !.monitoring = rvd.active, !.since = since])
           /\ runtime' = [available |-> TRUE, monitoring |-> rvd.active, active |-> after.active]
           /\ motionLog' = Published(IF observation = "detected" THEN motionLog
                                     ELSE [motionLog EXCEPT !.raws = 0],
                                     machine.active, after.active)
    /\ UNCHANGED <<update, motionLeft>>

MotionPoll ==
    \/ load_config \/ load_fails \/ adopt_config
    \/ poll_nothing \/ poll_other_producer \/ poll_no_sample \/ poll_sample
    \/ reload_config \/ reload_fails \/ reset_for_producer

-----------------------------------------------------------------------------
(* update_motion_config with a lifecycle, and live_control's switch, both  *)
(* under the mutation lock.  A command that fails may have been carried    *)
(* out; what was applied stays, and the user is told so.                   *)

Refused == update' = [update EXCEPT !.pc = "idle"]

live_motion(on) ==
    /\ update.pc = "idle" /\ Costs("updates")
    /\ Command(on)
    /\ UNCHANGED <<machine, poller, runtime, update>>

update_enable(on, c) ==
    /\ update.pc = "idle" /\ Costs("updates")
    /\ Command(on)
    /\ update' = [pc |-> "lifecycle", enabled |-> on, config |-> c]
    /\ UNCHANGED <<machine, poller, runtime>>

update_lifecycle ==
    /\ update.pc = "lifecycle"
    /\ rvd' = [rvd EXCEPT !.config = update.config]
    /\ \/ update' = [update EXCEPT !.pc = "readback"] /\ Free
       \/ Refused /\ Costs("failures")
    /\ UNCHANGED <<machine, poller, runtime, motionLog>>

update_readback ==
    /\ update.pc = "readback"
    /\ IF rvd.config = update.config
       THEN /\ machine' = [machine EXCEPT !.config = update.config]
            /\ update' = [update EXCEPT !.pc = "save"]
       ELSE Refused /\ UNCHANGED machine
    /\ UNCHANGED <<rvd, poller, runtime, motionLog, motionLeft>>

update_save ==
    /\ update.pc = "save" /\ Refused
    /\ \/ /\ rvd.receiving = update.enabled /\ rvd.active = update.enabled
          /\ rvd' = [rvd EXCEPT !.saved = rvd.config, !.enabled = update.enabled]
          /\ Free
       \/ (rvd.receiving # update.enabled \/ rvd.active # update.enabled) /\ UNCHANGED rvd /\ Free
       \/ UNCHANGED rvd /\ Costs("failures")
    /\ UNCHANGED <<machine, poller, runtime, motionLog>>

MotionUpdate == update_lifecycle \/ update_readback \/ update_save

-----------------------------------------------------------------------------
MotionNext ==
    \/ MotionPoll
    \/ MotionUpdate
    \/ \E on \in BOOLEAN : live_motion(on) \/ \E c \in Configs : update_enable(on, c)
    \/ \E raw \in BOOLEAN : NewResult(raw)
    \/ RvdRestarts \/ DetectorPauses \/ DetectorResumes

(* The poller is a thread of its own, an update has a thread of the server *)
(* and the detector is resumed by the command that paused it.              *)
MotionFairness ==
    /\ WF_motionVars(MotionPoll)
    /\ WF_motionVars(MotionUpdate)
    /\ WF_motionVars(DetectorResumes)
MotionSpec == MotionInit /\ [][MotionNext]_motionVars /\ MotionFairness

-----------------------------------------------------------------------------
(* Motion is announced only on as many results as the configuration asks   *)
(* for, all of the producer that runs, and none of them the one the poller *)
(* started from, counted before the last clear one, or counted twice.      *)
ActiveIsEarned ==
    [][~motionLog.announced /\ motionLog'.announced
         => motionLog.raws >= machine.config.debounce /\ motionLog.raws > 0]_motionVars

(* The level the camera shows is the one the last event announced.  The    *)
(* exception is a producer that changed during motion: the machine is      *)
(* thrown away and nobody is told that the motion ended.                   *)
EventsMatchTheLevel ==
    ~motionLog.excused => (runtime.active <=> motionLog.announced)

(* Motion that goes on is shown, and motion that is over is shown to be,   *)
(* as long as results keep coming: no configuration, restart or update     *)
(* leaves the level standing.                                              *)
ResultsKeepComing(raw) ==
    /\ <>[](rvd.active /\ rvd.receiving /\ rvd.raw = raw)
    /\ []<><<NewResult(raw)>>_motionVars
MotionIsShown == \A raw \in BOOLEAN :
    ResultsKeepComing(raw) => <>[](runtime.active = raw)
=============================================================================
