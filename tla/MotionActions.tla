---------------------------- MODULE MotionActions ----------------------------
(***************************************************************************)
(* The thread that acts on motion events (motion_actions.rs): it starts a  *)
(* recording, owns it, extends it with every event and stops it.  Around   *)
(* it: the recorder, the user who starts and stops the same recording with *)
(* live_control, and the card format, all of them under the mutation lock. *)
(*                                                                         *)
(* stop_at is kept as "due or not"; the end of the recording, the second   *)
(* of a retry and the second of the speaker's limit pass when they like.   *)
(***************************************************************************)
EXTENDS Naturals

CONSTANTS
    AlertCapacity,    \* QUEUE_CAPACITY
    MaxAlerts,        \* bound: events of motion
    MaxViewer,        \* bound: requests of the user
    MaxFormats,       \* bound: formats of the card
    MaxActionFailures \* bound: commands that fail, readings that are refused

ASSUME AlertCapacityAssumption ==
    /\ AlertCapacity \in Nat \ {0}
    /\ {MaxAlerts, MaxViewer, MaxFormats, MaxActionFailures} \subseteq Nat

VARIABLES
    alerts,         \* the events in the queue
    acting,         \* the locals of worker_loop
    holder,         \* who has the mutation lock
    userGeneration, \* recording_user_generation
    writer,         \* the recorder's writer
    viewer,         \* the user's request
    formatting,     \* the format found a recording to put back
    claim,          \* for the properties: whose the recording is
    actionLeft      \* what is left of the bounds
actionVars == <<alerts, acting, holder, userGeneration, writer, viewer,
                formatting, claim, actionLeft>>

ActionTypeOK ==
    /\ alerts \in 0..AlertCapacity
    /\ acting \in [pc : {"wait", "look", "command", "confirm", "due", "stop",
                         "stop_look", "stop_command", "stop_confirm"},
                   owned : BOOLEAN, due : BOOLEAN, generation : 0..MaxViewer,
                   spoke : BOOLEAN]
    /\ holder \in {"none", "motion", "user", "format"}
    /\ userGeneration \in 0..MaxViewer
    /\ writer \in {"closed", "opening", "recording", "closing"}
    /\ viewer \in [pc : {"idle", "look", "command", "confirm"}, starts : BOOLEAN]
    /\ formatting \in BOOLEAN
    /\ claim \in {"none", "motion", "user"}
    /\ actionLeft \in [alerts : 0..MaxAlerts, requests : 0..MaxViewer,
                       formats : 0..MaxFormats, failures : 0..MaxActionFailures]

(* The recorder may have been started by its own policy.                   *)
ActionInit ==
    /\ alerts = 0
    /\ acting = [pc |-> "wait", owned |-> FALSE, due |-> FALSE, generation |-> 0,
                 spoke |-> FALSE]
    /\ holder = "none" /\ userGeneration = 0
    /\ writer \in {"closed", "recording"}
    /\ viewer = [pc |-> "idle", starts |-> FALSE]
    /\ formatting = FALSE /\ claim = "none"
    /\ actionLeft = [alerts |-> MaxAlerts, requests |-> MaxViewer,
                     formats |-> MaxFormats, failures |-> MaxActionFailures]

Spends(resource) ==
    /\ actionLeft[resource] > 0
    /\ actionLeft' = [actionLeft EXCEPT ![resource] = @ - 1]
Unspent == UNCHANGED actionLeft

-----------------------------------------------------------------------------
(* The recorder: set-recording is intent, the writer follows.              *)

Intends(on) ==
    writer' = CASE on /\ writer \in {"closed", "closing"}      -> "opening"
                [] ~on /\ writer \in {"opening", "recording"} -> "closing"
                [] OTHER                                     -> writer

WriterOpens ==
    /\ writer = "opening" /\ writer' = "recording"
    /\ UNCHANGED <<alerts, acting, holder, userGeneration, viewer, formatting, claim, actionLeft>>
WriterCloses ==
    /\ writer = "closing" /\ writer' = "closed"
    /\ UNCHANGED <<alerts, acting, holder, userGeneration, viewer, formatting, claim, actionLeft>>
WriterFails ==
    /\ writer \in {"opening", "recording"} /\ writer' = "closing"
    /\ Spends("failures")
    /\ UNCHANGED <<alerts, acting, holder, userGeneration, viewer, formatting, claim>>

-----------------------------------------------------------------------------
(* try_send_motion: an event that finds the queue full is dropped.         *)
try_send_motion ==
    /\ Spends("alerts")
    /\ alerts' = IF alerts < AlertCapacity THEN alerts + 1 ELSE alerts
    /\ UNCHANGED <<acting, holder, userGeneration, writer, viewer, formatting, claim>>

(* stop_at is reached; the speaker may be used again.                      *)
stop_at_passes ==
    /\ acting.owned /\ ~acting.due
    /\ acting' = [acting EXCEPT !.due = TRUE]
    /\ UNCHANGED <<alerts, holder, userGeneration, writer, viewer, formatting, claim, actionLeft>>
speaker_limit_passes ==
    /\ acting.spoke
    /\ acting' = [acting EXCEPT !.spoke = FALSE]
    /\ UNCHANGED <<alerts, holder, userGeneration, writer, viewer, formatting, claim, actionLeft>>

-----------------------------------------------------------------------------
(* worker_loop.  A step of the thread leaves the user's and the format's   *)
(* side alone, and keeps the lock unless it says otherwise.                *)

Worker(pc) == acting.pc = pc /\ UNCHANGED <<userGeneration, viewer, formatting>>
Go(pc, a) == acting' = [a EXCEPT !.pc = pc]
Unlocks == holder' = "none"

(* An event: the configuration may not be readable, may ask for the        *)
(* speaker (at most once a second) and for a recording.                    *)
receive_event ==
    /\ Worker("wait") /\ alerts > 0
    /\ alerts' = alerts - 1
    /\ UNCHANGED <<writer, claim>>
    /\ \/ Go("due", acting) /\ UNCHANGED holder /\ Spends("failures")
       \/ \E speaks, records \in BOOLEAN :
            LET heard == [acting EXCEPT !.spoke = @ \/ speaks]
            IN  /\ Unspent
                /\ IF ~records THEN Go("due", heard) /\ UNCHANGED holder
                   ELSE IF acting.owned
                   THEN Go("due", [heard EXCEPT !.due = FALSE]) /\ UNCHANGED holder
                   ELSE IF holder # "none" THEN Go("due", heard) /\ UNCHANGED holder
                   ELSE /\ Go("look", [heard EXCEPT !.generation = userGeneration])
                        /\ holder' = "motion"

receive_nothing ==
    /\ Worker("wait") /\ Go("due", acting)
    /\ UNCHANGED <<alerts, holder, writer, claim, actionLeft>>

(* motion_event_start_recording, under the lock.                           *)
start_look ==
    /\ Worker("look")
    /\ \/ writer = "closed" /\ Go("command", acting) /\ UNCHANGED holder /\ Unspent
       \/ writer # "closed" /\ Go("due", acting) /\ Unlocks /\ Unspent
       \/ Go("due", acting) /\ Unlocks /\ Spends("failures")
    /\ UNCHANGED <<alerts, writer, claim>>

Owns(a) == [a EXCEPT !.owned = TRUE, !.due = FALSE]

start_command ==
    /\ Worker("command")
    /\ \/ /\ Intends(TRUE) /\ claim' = "motion" /\ Unspent
          /\ Go("confirm", acting) /\ UNCHANGED holder
       \/ /\ (Intends(TRUE) /\ claim' = "motion") \/ UNCHANGED <<writer, claim>>
          /\ Spends("failures")
          /\ Go("due", Owns(acting)) /\ Unlocks
    /\ UNCHANGED alerts

(* Confirmed by the writer or not: owned either way.                       *)
start_confirm ==
    /\ Worker("confirm") /\ Go("due", Owns(acting)) /\ Unlocks
    /\ UNCHANGED <<alerts, writer, claim, actionLeft>>

Disowned == [acting EXCEPT !.owned = FALSE, !.due = FALSE]
Again    == [acting EXCEPT !.due = FALSE]

(* Is it time to stop?  The first look at the user's generation is taken   *)
(* without the lock.                                                       *)
check_due ==
    /\ Worker("due")
    /\ IF ~acting.due THEN Go("wait", acting)
       ELSE IF userGeneration # acting.generation THEN Go("wait", Disowned)
       ELSE Go("stop", acting)
    /\ UNCHANGED <<alerts, holder, writer, claim, actionLeft>>

StopOnTheFirstLook ==   \* variant: the generation is not compared again
    /\ Worker("stop")
    /\ IF holder # "none" THEN Go("wait", Again) /\ UNCHANGED holder
       ELSE Go("stop_look", acting) /\ holder' = "motion"
    /\ UNCHANGED <<alerts, writer, claim, actionLeft>>

(* motion_event_stop_recording: the lock, and the generation again.        *)
stop_lock ==
    /\ Worker("stop")
    /\ IF holder # "none" THEN Go("wait", Again) /\ UNCHANGED holder
       ELSE IF userGeneration # acting.generation
       THEN Go("wait", Disowned) /\ UNCHANGED holder
       ELSE Go("stop_look", acting) /\ holder' = "motion"
    /\ UNCHANGED <<alerts, writer, claim, actionLeft>>

stop_look ==
    /\ Worker("stop_look")
    /\ \/ writer = "closed" /\ Go("wait", Disowned) /\ Unlocks /\ Unspent
       \/ writer = "recording" /\ Go("stop_command", acting) /\ UNCHANGED holder /\ Unspent
       \/ writer \in {"opening", "closing"} /\ Go("wait", Again) /\ Unlocks /\ Unspent
       \/ Go("wait", Again) /\ Unlocks /\ Spends("failures")
    /\ UNCHANGED <<alerts, writer, claim>>

StopOnce ==   \* variant: a stop that fails is not tried again
    /\ Worker("stop_command")
    /\ \/ /\ writer = "closed" /\ Go("wait", Disowned) /\ Unlocks
          /\ UNCHANGED writer /\ Unspent
       \/ /\ writer # "closed" /\ Go("stop_confirm", acting) /\ UNCHANGED holder
          /\ Intends(FALSE) /\ Unspent
       \/ /\ Go("wait", Disowned) /\ Unlocks
          /\ Intends(FALSE) \/ UNCHANGED writer
          /\ Spends("failures")
    /\ UNCHANGED <<alerts, claim>>

(* set_recording looks again before it commands.                           *)
stop_command ==
    /\ Worker("stop_command")
    /\ \/ /\ writer = "closed" /\ Go("wait", Disowned) /\ Unlocks
          /\ UNCHANGED writer /\ Unspent
       \/ /\ writer # "closed" /\ Go("stop_confirm", acting) /\ UNCHANGED holder
          /\ Intends(FALSE) /\ Unspent
       \/ /\ Go("wait", Again) /\ Unlocks
          /\ Intends(FALSE) \/ UNCHANGED writer
          /\ Spends("failures")
    /\ UNCHANGED <<alerts, claim>>

stop_confirm ==
    /\ Worker("stop_confirm") /\ Unlocks
    /\ IF writer = "closed" THEN Go("wait", Disowned) ELSE Go("wait", Again)
    /\ UNCHANGED <<alerts, writer, claim, actionLeft>>

ActionWorker ==
    \/ receive_event \/ receive_nothing \/ start_look \/ start_command \/ start_confirm
    \/ check_due \/ stop_lock \/ stop_look \/ stop_command \/ stop_confirm

-----------------------------------------------------------------------------
(* live_control: the generation moves under the lock, before the recorder  *)
(* is asked anything, whatever becomes of the request.                     *)

Viewer(pc) == viewer.pc = pc /\ UNCHANGED <<alerts, acting, formatting>>
Answered == viewer' = [viewer EXCEPT !.pc = "idle"] /\ Unlocks

viewer_asks(start) ==
    /\ Viewer("idle") /\ holder = "none" /\ Spends("requests")
    /\ holder' = "user" /\ userGeneration' = userGeneration + 1
    /\ viewer' = [pc |-> "look", starts |-> start]
    /\ claim' = "none"
    /\ UNCHANGED writer

IsSo == writer = IF viewer.starts THEN "recording" ELSE "closed"
Granted == claim' = IF viewer.starts THEN "user" ELSE "none"

viewer_look ==
    /\ Viewer("look")
    /\ \/ IsSo /\ Answered /\ Granted /\ Unspent
       \/ /\ ~IsSo /\ viewer' = [viewer EXCEPT !.pc = "command"]
          /\ UNCHANGED <<holder, claim>> /\ Unspent
       \/ Answered /\ UNCHANGED claim /\ Spends("failures")
    /\ UNCHANGED <<userGeneration, writer>>

viewer_command ==
    /\ Viewer("command")
    /\ \/ /\ Intends(viewer.starts) /\ Unspent
          /\ viewer' = [viewer EXCEPT !.pc = "confirm"] /\ UNCHANGED holder
       \/ /\ Intends(viewer.starts) \/ UNCHANGED writer
          /\ Answered /\ Spends("failures")
    /\ UNCHANGED <<userGeneration, claim>>

viewer_confirm ==
    /\ Viewer("confirm") /\ Answered
    /\ IF IsSo THEN Granted ELSE UNCHANGED claim
    /\ UNCHANGED <<userGeneration, writer, actionLeft>>

ActionViewer == viewer_look \/ viewer_command \/ viewer_confirm

(* run_storage_format as the recorder sees it: it stops a recording, and   *)
(* starts it again unless that fails, without a change of the generation.  *)
format_stops ==
    /\ holder = "none" /\ holder' = "format"
    /\ writer \in {"closed", "recording"} /\ Spends("formats")
    /\ formatting' = (writer = "recording") /\ Intends(FALSE)
    /\ UNCHANGED <<alerts, acting, userGeneration, viewer, claim>>

format_restores ==
    /\ holder = "format" /\ writer = "closed" /\ Unlocks
    /\ \/ (IF formatting THEN Intends(TRUE) ELSE UNCHANGED writer) /\ Unspent
       \/ formatting /\ UNCHANGED writer /\ Spends("failures")
    /\ formatting' = FALSE
    /\ UNCHANGED <<alerts, acting, userGeneration, viewer, claim>>

-----------------------------------------------------------------------------
ActionNext ==
    \/ try_send_motion \/ stop_at_passes \/ speaker_limit_passes
    \/ ActionWorker \/ ActionViewer
    \/ \E start \in BOOLEAN : viewer_asks(start)
    \/ format_stops \/ format_restores
    \/ WriterOpens \/ WriterCloses \/ WriterFails

(* The thread, the user's request and the format are scheduled, time       *)
(* passes, and a writer opens and closes its file in the end.              *)
ActionFairness ==
    /\ WF_actionVars(ActionWorker) /\ WF_actionVars(stop_at_passes)
    /\ WF_actionVars(ActionViewer) /\ WF_actionVars(format_restores)
    /\ WF_actionVars(WriterOpens) /\ WF_actionVars(WriterCloses)
ActionSpec == ActionInit /\ [][ActionNext]_actionVars /\ ActionFairness

-----------------------------------------------------------------------------
(* Motion ends the recordings it has started, and no other: not one of the *)
(* recorder's own policy, and not one the user has asked for, also between *)
(* the decision to stop and the stop.                                      *)
MotionEndsItsOwn ==
    [][stop_command /\ writer' # writer => claim = "motion"]_actionVars

(* A recording that only motion asked for does not go on for ever, though  *)
(* its start was never confirmed, a stop failed, or a format came between. *)
MotionRecordingsEnd ==
    writer = "recording" /\ claim = "motion"
        ~> writer = "closed" \/ claim # "motion"
=============================================================================
