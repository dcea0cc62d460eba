----------------------------- MODULE Timelapse -----------------------------
(***************************************************************************)
(* The timelapse service of thingino-control (raptor_backend/timelapse):   *)
(* one worker thread that takes a picture when it is due, stages and       *)
(* publishes it on the SD card, and removes old pictures; HTTP handlers    *)
(* that save its policy, switch privacy and the camera's outputs; and the  *)
(* card formatter, which pauses it.                                        *)
(*                                                                         *)
(* A step is one access to what the threads share, one daemon command, or  *)
(* one file operation; the mutation lock's short sections are one step.    *)
(***************************************************************************)
EXTENDS Integers, FiniteSets

CONSTANTS
    Images,        \* names on the card; a name without files may be used anew
    NFields,       \* outputs the user sets and a capture borrows
    None,          \* no image, no update, nobody, no policy that can be read
    Policies,      \* policies in use, records of Policy
    MaxSaves,      \* bound: policies saved
    MaxPrivacy,    \* bound: privacy commands
    MaxUserSets,   \* bound: outputs set by the user
    MaxPauses,     \* bound: pauses for the formatter
    MaxFaults,     \* bound: failing daemon commands and file operations
    MaxCuts        \* bound: power cuts

Policy == [enabled : BOOLEAN, preset : BOOLEAN, keep : BOOLEAN]
Default == [enabled |-> FALSE, preset |-> FALSE, keep |-> FALSE]
Fields == 1 .. NFields

ASSUME ImagesAssumption == IsFiniteSet(Images) /\ None \notin Images
ASSUME NoneAssumption == None \notin {"format", "privacy", "user"}
ASSUME PoliciesAssumption == Policies \subseteq Policy
ASSUME LimitsAssumption ==
    {NFields, MaxSaves, MaxPrivacy, MaxUserSets, MaxPauses, MaxFaults, MaxCuts}
        \subseteq Nat

VARIABLES
    policy, policy_known, config,        \* in memory, read back, in the file
    pending, queue,                      \* a save is under way; its update
    maintenance, storage_active, publishing_name, quarantine,
    cleanup_blocked, restored,
    generation, ha_privacy_generation, timelapse_user_generation,
    mutation,     \* holder of the mutation lock
    worker,       \* the thread and the locals of capture()
    saver, pauser, privacy, user,        \* the callers
    mask,         \* what RVD does to the video: "off", "partial", "on"
    outputs,      \* IR-cut, IR LED, colour
    card,         \* files of each image: "pending", "jpg", "owned"
    exposed,      \* history: the mask was up since the frame was shot
    clean,        \* history: images accepted while it had not been
    wanted,       \* history: outputs as the user last had them
    borrowed,     \* history: outputs a capture set and nobody has set since
    saves, privacies, sets, pauses, faults, cuts

settings == <<policy, policy_known, config, pending, queue>>
storage == <<maintenance, storage_active, publishing_name, quarantine,
             cleanup_blocked>>
epochs == <<generation, ha_privacy_generation, timelapse_user_generation>>
camera == <<mask, outputs>>
history == <<exposed, clean, wanted, borrowed>>
callers == <<saver, pauser, privacy, user, mutation>>
bounds == <<saves, privacies, sets, pauses, cuts>>
backend == <<epochs, camera, history, callers, bounds>>
others == <<settings, storage, backend, restored, card>>
vars == <<others, faults, worker>>

Epoch == <<generation, ha_privacy_generation, timelapse_user_generation>>
Outputs == [Fields -> BOOLEAN]
Presets == [f \in Fields |-> TRUE]

(* The points of capture() that begin with a fence.                        *)
Fenced == {"lease", "apply", "shoot", "begin", "before_publish", "verify",
           "publish", "reverify", "complete"}
(* Those at which the service works on the card or holds files of it.      *)
Storing == {"name", "stage", "before_publish", "verify", "publish", "mark",
            "reverify", "complete", "discard", "drop_name", "take", "sweep",
            "sweep_marker", "release"}
Elsewhere == {"load", "receive", "persist", "answer", "gate", "epoch", "lease",
              "lease_check", "apply", "shoot", "restore", "begin", "claim",
              "recheck", "cleanup"}

Idle == [pc |-> "load", fence |-> "passed", purpose |-> "capture",
         update |-> Default, epoch |-> <<0, 0, 0>>, policy |-> Default,
         original |-> [f \in Fields |-> FALSE], changed |-> {},
         lease |-> <<0, 0>>, failed |-> FALSE, shot |-> FALSE, image |-> None]

Init ==
    /\ config \in Policies \cup {Default, None}
    /\ policy = Default /\ policy_known = FALSE
    /\ pending = FALSE /\ queue = None
    /\ maintenance = FALSE /\ storage_active = FALSE
    /\ publishing_name = None /\ quarantine = None /\ cleanup_blocked = FALSE
    /\ restored = "not_used"
    /\ generation = 0 /\ ha_privacy_generation = 0
    /\ timelapse_user_generation = 0
    /\ mutation = None /\ worker = Idle
    /\ saver = "idle" /\ pauser = "idle" /\ privacy = "idle" /\ user = "idle"
    /\ mask \in {"off", "on"}
    /\ outputs \in Outputs
    /\ card = [i \in Images |-> {}]
    /\ exposed = FALSE /\ clean = {} /\ wanted = outputs /\ borrowed = {}
    /\ saves = MaxSaves /\ privacies = MaxPrivacy /\ sets = MaxUserSets
    /\ pauses = MaxPauses /\ faults = MaxFaults /\ cuts = MaxCuts

Fault == faults > 0 /\ faults' = faults - 1

Goto(pc) == [worker EXCEPT
    !.pc = pc, !.fence = IF pc \in Fenced THEN "before" ELSE "passed"]
Fail(pc) == [Goto(pc) EXCEPT !.failed = TRUE]
At(pc) == worker.pc = pc /\ worker.fence = "passed"

(***************************************************************************)
(* submit: one save at a time, invalidating the capture that is under way. *)
(***************************************************************************)
submit ==
    /\ saver = "idle" /\ saves > 0 /\ ~pending /\ worker.pc # "load"
    /\ pending' = TRUE
    /\ generation' = generation + 1
    /\ saver' = "sending" /\ saves' = saves - 1
    /\ UNCHANGED <<policy, policy_known, config, queue, storage,
                   ha_privacy_generation, timelapse_user_generation, camera,
                   history, pauser, privacy, user, mutation, privacies, sets,
                   pauses, cuts, faults, restored, worker, card>>

submit_send(p) ==
    /\ saver = "sending"
    /\ queue' = p /\ saver' = "waiting"
    /\ UNCHANGED <<policy, policy_known, config, pending, storage, epochs,
                   camera, history, pauser, privacy, user, mutation, bounds,
                   faults, restored, worker, card>>

submit_times_out ==
    /\ saver = "waiting"
    /\ saver' = "idle"
    /\ UNCHANGED <<settings, storage, epochs, camera, history, pauser,
                   privacy, user, mutation, bounds, faults, restored, worker,
                   card>>

(***************************************************************************)
(* pause_storage and the formatter that holds the pause.                   *)
(***************************************************************************)
pause_claim ==
    /\ pauser = "idle" /\ pauses > 0 /\ mutation = None /\ ~maintenance
    /\ mutation' = "format" /\ maintenance' = TRUE
    /\ pauser' = "claimed" /\ pauses' = pauses - 1
    /\ UNCHANGED <<settings, storage_active, publishing_name, quarantine,
                   cleanup_blocked, epochs, camera, history, saver, privacy,
                   user, saves, privacies, sets, cuts, faults, restored,
                   worker, card>>

pause_invalidate ==
    /\ pauser = "claimed"
    /\ generation' = generation + 1
    /\ pauser' = "active"
    /\ UNCHANGED <<settings, storage, ha_privacy_generation,
                   timelapse_user_generation, camera, history, saver, privacy,
                   user, mutation, bounds, faults, restored, worker, card>>

(* The three conditions are read one after the other, from the first again *)
(* when one does not hold.                                                 *)
Pausing == {"active", "name", "image"}

poll_pause ==
    /\ pauser \in Pausing
    /\ pauser' = CASE pauser = "active" /\ ~storage_active -> "name"
                   [] pauser = "name" /\ publishing_name = None -> "image"
                   [] pauser = "image" /\ quarantine = None -> "held"
                   [] OTHER -> "active"
    /\ UNCHANGED <<settings, storage, epochs, camera, history, saver, privacy,
                   user, mutation, bounds, faults, restored, worker, card>>

(* A pause that was not granted in time, or a format that has ended.       *)
pause_ends ==
    /\ pauser \in {"active", "held"}
    /\ maintenance' = FALSE /\ mutation' = None /\ pauser' = "idle"
    /\ UNCHANGED <<settings, storage_active, publishing_name, quarantine,
                   cleanup_blocked, epochs, camera, history, saver, privacy,
                   user, bounds, faults, restored, worker, card>>

(* The outcome of the format is unknown: pause and lock are never dropped. *)
pause_forgotten ==
    /\ pauser = "held"
    /\ pauser' = "forgotten"
    /\ UNCHANGED <<settings, storage, epochs, camera, history, saver, privacy,
                   user, mutation, bounds, faults, restored, worker, card>>

(***************************************************************************)
(* set_privacy, under the mutation lock: the generation is raised before   *)
(* the command, which RVD may apply to some of the video only.             *)
(***************************************************************************)
Masks == {"off", "partial", "on"}

(* The frame in hand may still be accepted after what happens now.         *)
Undecided ==
    /\ worker.shot
    /\ ~(worker.pc = "complete" /\ worker.fence \in {"after", "passed"})

set_privacy(to) ==
    /\ privacy = "idle" /\ privacies > 0 /\ mutation = None
    /\ mutation' = "privacy"
    /\ ha_privacy_generation' = ha_privacy_generation + 1
    /\ privacy' = to /\ privacies' = privacies - 1
    /\ UNCHANGED <<settings, storage, generation, timelapse_user_generation,
                   camera, history, saver, pauser, user, saves, sets, pauses,
                   cuts, faults, restored, worker, card>>

privacy_command ==
    /\ privacy \in {"off", "on"}
    /\ \/ mask' = privacy /\ UNCHANGED faults
       \/ mask' \in Masks /\ Fault
    /\ exposed' = (exposed \/ (Undecided /\ mask' # "off"))
    /\ privacy' = "readback"
    /\ UNCHANGED <<settings, storage, epochs, outputs, clean, wanted,
                   borrowed, saver, pauser, user, mutation, bounds, restored,
                   worker, card>>

privacy_readback ==
    /\ privacy = "readback"
    /\ mutation' = None /\ privacy' = "idle"
    /\ UNCHANGED <<settings, storage, epochs, camera, history, saver, pauser,
                   user, bounds, faults, restored, worker, card>>

(***************************************************************************)
(* live_control and set_daynight_mode: the user sets an output.            *)
(***************************************************************************)
live_control ==
    /\ user = "idle" /\ sets > 0 /\ mutation = None
    /\ mutation' = "user"
    /\ timelapse_user_generation' = timelapse_user_generation + 1
    /\ user' = "command" /\ sets' = sets - 1
    /\ UNCHANGED <<settings, storage, generation, ha_privacy_generation,
                   camera, history, saver, pauser, privacy, saves, privacies,
                   pauses, cuts, faults, restored, worker, card>>

set_output(f, v) ==
    /\ user = "command"
    /\ outputs' = [outputs EXCEPT ![f] = v]
    /\ wanted' = [wanted EXCEPT ![f] = v] /\ borrowed' = borrowed \ {f}
    /\ mutation' = None /\ user' = "idle"
    /\ UNCHANGED <<settings, storage, epochs, mask, exposed, clean, saver,
                   pauser, privacy, bounds, faults, restored, worker, card>>

(***************************************************************************)
(* worker: load, then per turn a save, a capture when one is due, and the  *)
(* card's upkeep.                                                          *)
(***************************************************************************)
load ==
    /\ At("load")
    /\ policy_known' = (config # None)
    /\ policy' = IF config = None THEN policy ELSE config
    /\ worker' = Goto("receive")
    /\ UNCHANGED <<config, pending, queue, storage, backend, faults, restored,
                   card>>

receive ==
    /\ At("receive")
    /\ IF queue = None
       THEN worker' = Goto("gate") /\ UNCHANGED queue
       ELSE /\ queue' = None
            /\ \/ worker' = [Goto("persist") EXCEPT !.update = queue]
               \/ worker' = Goto("answer")    \* its deadline has passed
    /\ UNCHANGED <<policy, policy_known, config, pending, storage, backend,
                   faults, restored, card>>

(* A mistake: a failed save leaves the policy known.                       *)
PersistStaysKnown ==
    /\ At("persist")
    /\ \/ /\ config' = worker.update
          /\ policy' = worker.update /\ policy_known' = TRUE
          /\ restored' = "not_used"
          /\ UNCHANGED faults
       \/ /\ Fault
          /\ config' \in {config, worker.update}
          /\ UNCHANGED <<policy, policy_known, restored>>
    /\ worker' = Goto("answer")
    /\ UNCHANGED <<pending, queue, storage, backend, card>>

(* A failure after the rename leaves the new file under the old policy.    *)
persist ==
    /\ At("persist")
    /\ \/ /\ config' = worker.update
          /\ policy' = worker.update /\ policy_known' = TRUE
          /\ restored' = "not_used"
          /\ UNCHANGED faults
       \/ /\ Fault
          /\ config' \in {config, worker.update}
          /\ policy_known' = FALSE
          /\ UNCHANGED <<policy, restored>>
    /\ worker' = Goto("answer")
    /\ UNCHANGED <<pending, queue, storage, backend, card>>

answer ==
    /\ At("answer")
    /\ pending' = FALSE
    /\ saver' = IF saver = "waiting" THEN "idle" ELSE saver
    /\ worker' = Goto("gate")
    /\ UNCHANGED <<policy, policy_known, config, queue, storage, epochs,
                   camera, history, pauser, privacy, user, mutation, bounds,
                   faults, restored, card>>

gate ==
    /\ At("gate")
    /\ \/ /\ policy.enabled /\ ~maintenance /\ ~cleanup_blocked
          /\ restored # "conflict"
          /\ worker' = [Idle EXCEPT !.pc = "epoch", !.policy = policy]
       \/ worker' = Goto("cleanup")    \* not due, or not allowed
    /\ UNCHANGED <<others, faults>>

capture ==
    /\ At("epoch")
    /\ worker' = [Goto("lease") EXCEPT !.epoch = Epoch]
    /\ UNCHANGED <<others, faults>>

(***************************************************************************)
(* fence: nothing has changed, privacy is off, nothing has changed.        *)
(***************************************************************************)
(* A mistake: only the service's own generation and the user's are compared. *)
UnchangedButPrivacy ==
    ~maintenance /\ Epoch[1] = worker.epoch[1] /\ Epoch[3] = worker.epoch[3]

Unchanged == ~maintenance /\ Epoch = worker.epoch

FenceFails ==
    worker' = Fail(CASE worker.pc \in {"lease", "apply", "begin"} -> "cleanup"
                     [] worker.pc = "shoot" -> "restore"
                     [] OTHER -> "discard")

FencePasses(to) == worker' = [worker EXCEPT !.fence = to]

fence_before ==
    /\ worker.fence = "before"
    /\ IF Unchanged THEN FencePasses("read") ELSE FenceFails
    /\ UNCHANGED <<others, faults>>

fence_read ==
    /\ worker.fence = "read"
    /\ \/ mask = "off" /\ FencePasses("after") /\ UNCHANGED faults
       \/ mask # "off" /\ FenceFails /\ UNCHANGED faults
       \/ mask = "off" /\ Fault /\ FenceFails
    /\ UNCHANGED <<others>>

(* Past the last fence the image is accepted.                              *)
fence_after ==
    /\ worker.fence = "after"
    /\ IF Unchanged THEN FencePasses("passed") ELSE FenceFails
    /\ clean' = IF Unchanged /\ worker.pc = "complete" /\ ~exposed
                THEN clean \cup {worker.image} ELSE clean
    /\ UNCHANGED <<settings, storage, epochs, camera, exposed, wanted,
                   borrowed, callers, bounds, faults, restored, card>>

(***************************************************************************)
(* The preset lease: outputs are borrowed for the picture and given back,  *)
(* each under the mutation lock and only while nobody else set one.        *)
(***************************************************************************)
lease_read ==
    /\ At("lease")
    /\ \/ ~worker.policy.preset /\ worker' = Goto("apply") /\ UNCHANGED faults
       \/ /\ worker.policy.preset
          /\ worker' = [Goto("lease_check") EXCEPT
                          !.lease = <<timelapse_user_generation,
                                      ha_privacy_generation>>,
                          !.original = outputs]
          /\ UNCHANGED faults
       \/ worker.policy.preset /\ Fault /\ worker' = Fail("cleanup")
    /\ UNCHANGED <<others>>

lease_check ==
    /\ At("lease_check")
    /\ worker' = IF timelapse_user_generation = worker.lease[1]
                 THEN Goto("apply") ELSE Fail("cleanup")
    /\ UNCHANGED <<others, faults>>

(* A mistake: what the user did meanwhile is not looked at.                *)
CurrentForPrivacy ==
    mutation = None /\ ha_privacy_generation = worker.lease[2] /\ mask = "off"

Current ==
    /\ mutation = None
    /\ worker.lease = <<timelapse_user_generation, ha_privacy_generation>>
    /\ mask = "off"

ToBorrow == IF worker.policy.preset
            THEN {f \in Fields : worker.original[f] # Presets[f]} \ worker.changed
            ELSE {}

apply(f) ==
    /\ At("apply") /\ f \in ToBorrow /\ \A g \in ToBorrow : f <= g
    /\ \/ /\ Current /\ outputs[f] = worker.original[f]
          /\ outputs' = [outputs EXCEPT ![f] = Presets[f]]
          /\ worker' = [worker EXCEPT !.changed = @ \cup {f}]
          /\ borrowed' = borrowed \cup {f}
          /\ UNCHANGED faults
       \/ /\ ~(Current /\ outputs[f] = worker.original[f])
          /\ worker' = Fail("restore")
          /\ UNCHANGED <<outputs, borrowed, faults>>
       \/ /\ Current /\ outputs[f] = worker.original[f] /\ Fault
          /\ outputs' \in {outputs, [outputs EXCEPT ![f] = Presets[f]]}
          /\ worker' = [Fail("restore") EXCEPT !.changed = @ \cup {f}]
          /\ borrowed' = borrowed \cup {f}
    /\ UNCHANGED <<settings, storage, epochs, mask, exposed, clean, wanted,
                   callers, bounds, restored, card>>

applied ==
    /\ At("apply") /\ ToBorrow = {}
    /\ worker' = Goto("shoot")
    /\ UNCHANGED <<others, faults>>

shoot ==
    /\ At("shoot")
    /\ \/ /\ worker' = [Goto("restore") EXCEPT !.shot = TRUE]
          /\ exposed' = (mask # "off")
          /\ UNCHANGED faults
       \/ Fault /\ worker' = Fail("restore") /\ UNCHANGED exposed
    /\ UNCHANGED <<settings, storage, epochs, camera, clean, wanted, borrowed,
                   callers, bounds, restored, card>>

restore(f) ==
    /\ At("restore") /\ f \in worker.changed /\ \A g \in worker.changed : f >= g
    /\ \/ /\ Current
          /\ outputs' = [outputs EXCEPT ![f] = worker.original[f]]
          /\ worker' = [worker EXCEPT !.changed = @ \ {f}]
          /\ borrowed' = borrowed \ {f}
          /\ UNCHANGED <<restored, faults>>
       \/ /\ \/ ~Current /\ UNCHANGED <<outputs, faults>>
             \/ /\ Current /\ Fault
                /\ outputs' \in {outputs,
                                 [outputs EXCEPT ![f] = worker.original[f]]}
          /\ restored' = "conflict"
          /\ worker' = [Fail("cleanup") EXCEPT !.changed = {}]
          /\ UNCHANGED borrowed
    /\ UNCHANGED <<settings, storage, epochs, mask, exposed, clean, wanted,
                   callers, bounds, card>>

given_back ==
    /\ At("restore") /\ worker.changed = {}
    /\ restored' = IF worker.policy.preset THEN "restored" ELSE "not_used"
    /\ worker' = Goto(IF worker.failed THEN "cleanup" ELSE "begin")
    /\ UNCHANGED <<settings, storage, backend, faults, card>>

(***************************************************************************)
(* begin_storage, for a capture, for the retry of a discard and for        *)
(* retention: the activity is claimed between two looks at maintenance.    *)
(* Only the worker claims it, so it is never busy.                         *)
(***************************************************************************)
Refused == Fail(IF worker.purpose = "capture" THEN "cleanup" ELSE "receive")

begin_storage ==
    /\ At("begin")
    /\ worker' = IF maintenance THEN Refused ELSE Goto("claim")
    /\ UNCHANGED <<others, faults>>

claim ==
    /\ At("claim")
    /\ storage_active' = TRUE
    /\ worker' = Goto("recheck")
    /\ UNCHANGED <<settings, maintenance, publishing_name, quarantine,
                   cleanup_blocked, backend, faults, restored, card>>

(* A mistake: maintenance is looked at once, before the claim.             *)
RecheckNothing ==
    /\ At("recheck")
    /\ worker' = Goto(CASE worker.purpose = "capture" -> "name"
                         [] worker.purpose = "retry" -> "take"
                         [] worker.purpose = "retention" -> "sweep")
    /\ UNCHANGED <<others, faults>>

recheck ==
    /\ At("recheck")
    /\ IF maintenance
       THEN worker' = Refused /\ storage_active' = FALSE
       ELSE /\ worker' = Goto(CASE worker.purpose = "capture" -> "name"
                                [] worker.purpose = "retry" -> "take"
                                [] worker.purpose = "retention" -> "sweep")
            /\ UNCHANGED storage_active
    /\ UNCHANGED <<settings, maintenance, publishing_name, quarantine,
                   cleanup_blocked, backend, faults, restored, card>>

(***************************************************************************)
(* Image: staged under a hidden name, copied to its own with a marker, and *)
(* complete once the hidden name is gone.                                  *)
(***************************************************************************)
name ==
    /\ At("name")
    /\ \/ \E i \in Images : /\ card[i] = {}
                            /\ publishing_name' = i
                            /\ worker' = Goto("stage")
                            /\ UNCHANGED faults
       \/ /\ \A i \in Images : card[i] # {}    \* no name left in the model
          /\ worker' = Fail("release") /\ UNCHANGED <<publishing_name, faults>>
       \/ Fault /\ worker' = Fail("release") /\ UNCHANGED publishing_name
    /\ UNCHANGED <<settings, maintenance, storage_active, quarantine,
                   cleanup_blocked, backend, restored, card>>

Put(i, file) == card' = [card EXCEPT ![i] = @ \cup {file}]
Remove(i, file) == card' = [card EXCEPT ![i] = @ \ {file}]

stage ==
    /\ At("stage")
    /\ LET i == publishing_name
           staged(pc) == [Goto(pc) EXCEPT !.image = i]
       IN \/ /\ Put(i, "pending") /\ worker' = staged("before_publish")
             /\ UNCHANGED faults
          \/ Put(i, "pending") /\ Fault
             /\ worker' = [staged("discard") EXCEPT !.failed = TRUE]
          \/ Fault /\ worker' = Fail("drop_name") /\ UNCHANGED card
    /\ clean' = clean \ {publishing_name}
    /\ UNCHANGED <<settings, storage, epochs, camera, exposed, wanted,
                   borrowed, callers, bounds, restored>>

before_publish ==
    /\ At("before_publish")
    /\ worker' = Goto("verify")
    /\ UNCHANGED <<others, faults>>

verify_mount ==
    /\ \/ At("verify")
       \/ At("reverify")
    /\ \/ /\ worker' = Goto(IF worker.pc = "verify" THEN "publish"
                                                    ELSE "complete")
          /\ UNCHANGED faults
       \/ Fault /\ worker' = Fail("discard")
    /\ UNCHANGED <<others>>

publish ==
    /\ At("publish")
    /\ \/ /\ Put(worker.image, "jpg") /\ worker' = Goto("mark")
          /\ UNCHANGED faults
       \/ Fault /\ worker' = Fail("discard")
          /\ (Put(worker.image, "jpg") \/ UNCHANGED card)
    /\ UNCHANGED <<settings, storage, backend, restored>>

mark ==
    /\ At("mark")
    /\ \/ /\ Put(worker.image, "owned") /\ worker' = Goto("reverify")
          /\ UNCHANGED faults
       \/ Fault /\ worker' = Fail("discard")
          /\ (Put(worker.image, "owned") \/ UNCHANGED card)
    /\ UNCHANGED <<settings, storage, backend, restored>>

complete ==
    /\ At("complete")
    /\ \/ /\ Remove(worker.image, "pending")
          /\ worker' = [Goto("drop_name") EXCEPT !.image = None, !.shot = FALSE]
          /\ UNCHANGED faults
       \/ Fault /\ worker' = Fail("discard") /\ UNCHANGED card
    /\ UNCHANGED <<settings, storage, backend, restored>>

(* discard: the marker first, the hidden name last; what cannot be removed *)
(* is kept in quarantine and blocks captures.                              *)
Doomed == IF "owned" \in card[worker.image] THEN "owned"
          ELSE IF "jpg" \in card[worker.image] THEN "jpg" ELSE "pending"

Discarded ==
    [Goto(IF worker.purpose = "retry" THEN "release" ELSE "drop_name")
        EXCEPT !.image = None, !.shot = FALSE]

discard ==
    /\ At("discard")
    /\ \/ /\ card[worker.image] # {}
          /\ Remove(worker.image, Doomed)
          /\ UNCHANGED <<worker, publishing_name, quarantine, cleanup_blocked,
                         faults>>
       \/ /\ card[worker.image] = {}
          /\ IF worker.purpose = "retry"
             THEN cleanup_blocked' = FALSE /\ publishing_name' = None
             ELSE UNCHANGED <<cleanup_blocked, publishing_name>>
          /\ worker' = Discarded
          /\ UNCHANGED <<quarantine, card, faults>>
       \/ /\ card[worker.image] # {} /\ Fault
          /\ quarantine' = worker.image /\ cleanup_blocked' = TRUE
          /\ worker' = Discarded
          /\ UNCHANGED <<publishing_name, card>>
    /\ UNCHANGED <<settings, maintenance, storage_active, backend, restored>>

drop_name ==
    /\ At("drop_name")
    /\ publishing_name' = IF cleanup_blocked THEN publishing_name ELSE None
    /\ worker' = Goto("release")
    /\ UNCHANGED <<settings, maintenance, storage_active, quarantine,
                   cleanup_blocked, backend, faults, restored, card>>

release ==
    /\ At("release")
    /\ storage_active' = FALSE
    /\ worker' = Goto(IF worker.purpose = "capture" THEN "cleanup" ELSE "receive")
    /\ UNCHANGED <<settings, maintenance, publishing_name, quarantine,
                   cleanup_blocked, backend, faults, restored, card>>

(***************************************************************************)
(* The card's upkeep, when due: another try at a quarantined image, or the *)
(* removal of old ones.                                                    *)
(***************************************************************************)
(* A mistake: the upkeep is the enabled policy's only.                     *)
CleanupWhenEnabled ==
    /\ At("cleanup")
    /\ \/ worker' = [Idle EXCEPT !.pc = "receive"]    \* not due, nothing to do
       \/ /\ ~maintenance /\ cleanup_blocked /\ policy.enabled
          /\ worker' = [Idle EXCEPT !.pc = "begin", !.purpose = "retry"]
       \/ /\ ~maintenance /\ ~cleanup_blocked /\ policy.enabled /\ policy.keep
          /\ worker' = [Idle EXCEPT !.pc = "begin", !.purpose = "retention",
                                    !.epoch = Epoch]
    /\ UNCHANGED <<others, faults>>

cleanup ==
    /\ At("cleanup")
    /\ \/ worker' = [Idle EXCEPT !.pc = "receive"]    \* not due, nothing to do
       \/ /\ ~maintenance /\ cleanup_blocked
          /\ worker' = [Idle EXCEPT !.pc = "begin", !.purpose = "retry"]
       \/ /\ ~maintenance /\ ~cleanup_blocked /\ policy.enabled /\ policy.keep
          /\ worker' = [Idle EXCEPT !.pc = "begin", !.purpose = "retention",
                                    !.epoch = Epoch]
    /\ UNCHANGED <<others, faults>>

take ==
    /\ At("take")
    /\ quarantine' = None
    /\ worker' = [Goto("discard") EXCEPT !.image = quarantine]
    /\ UNCHANGED <<settings, maintenance, storage_active, publishing_name,
                   cleanup_blocked, backend, faults, restored, card>>

(* owned: an image of the service, whole and not under its hidden name.    *)
Owned(i) == card[i] = {"jpg", "owned"}

retention ==
    /\ At("sweep")
    /\ \/ /\ generation = worker.epoch[1]
          /\ \E i \in Images :
                /\ Owned(i)
                /\ \/ /\ Remove(i, "jpg") /\ UNCHANGED faults
                      /\ worker' = [Goto("sweep_marker") EXCEPT !.image = i]
                   \/ Fault /\ worker' = Goto("release") /\ UNCHANGED card
       \/ worker' = Goto("release") /\ UNCHANGED <<card, faults>>
    /\ UNCHANGED <<settings, storage, backend, restored>>

retention_marker ==
    /\ At("sweep_marker")
    /\ \/ /\ Remove(worker.image, "owned") /\ UNCHANGED faults
          /\ worker' = [Goto("sweep") EXCEPT !.image = None]
       \/ /\ Fault /\ UNCHANGED card
          /\ worker' = [Goto("release") EXCEPT !.image = None]
    /\ UNCHANGED <<settings, storage, backend, restored>>

(* The camera loses power: the card and the saved policy stay, privacy and *)
(* the outputs come up as they are configured.                             *)
PowerCut ==
    /\ cuts > 0
    /\ cuts' = cuts - 1
    /\ policy' = Default /\ policy_known' = FALSE /\ pending' = FALSE
    /\ queue' = None
    /\ maintenance' = FALSE /\ storage_active' = FALSE
    /\ publishing_name' = None /\ quarantine' = None /\ cleanup_blocked' = FALSE
    /\ restored' = "not_used"
    /\ generation' = 0 /\ ha_privacy_generation' = 0
    /\ timelapse_user_generation' = 0
    /\ mutation' = None /\ worker' = Idle
    /\ saver' = "idle" /\ pauser' = "idle" /\ privacy' = "idle" /\ user' = "idle"
    /\ mask' \in {"off", "on"}
    /\ outputs' \in Outputs /\ wanted' = outputs' /\ borrowed' = {}
    /\ exposed' = FALSE
    /\ UNCHANGED <<config, card, clean, saves, privacies, sets, pauses,
                   faults>>

(***************************************************************************)
(* The specification.                                                      *)
(***************************************************************************)
Upkeep == cleanup \/ take \/ retention \/ retention_marker

Worker ==
    \/ load \/ receive \/ persist \/ answer \/ gate \/ capture
    \/ fence_before \/ fence_read \/ fence_after
    \/ lease_read \/ lease_check
    \/ (\E f \in Fields : apply(f) \/ restore(f))
    \/ applied \/ shoot \/ given_back
    \/ begin_storage \/ claim \/ recheck
    \/ name \/ stage \/ before_publish \/ verify_mount \/ publish \/ mark
    \/ complete \/ discard \/ drop_name \/ release
    \/ Upkeep

Callers ==
    \/ submit \/ (\E p \in Policies : submit_send(p)) \/ submit_times_out
    \/ pause_claim \/ pause_invalidate \/ poll_pause \/ pause_ends
    \/ pause_forgotten
    \/ (\E m \in {"off", "on"} : set_privacy(m))
    \/ privacy_command \/ privacy_readback
    \/ live_control
    \/ (\E f \in Fields, v \in BOOLEAN : set_output(f, v))

Next == Worker \/ Callers \/ PowerCut

Spec == Init /\ [][Next]_vars

(* The thread runs and sleeps at most 100 ms a turn, a save is sent at     *)
(* once, a pause has a deadline and a format ends, unless its outcome is   *)
(* unknown, and the upkeep is due again within a minute.                   *)
Fairness ==
    /\ WF_vars(Worker)
    /\ WF_vars(\E p \in Policies : submit_send(p))
    /\ WF_vars(pause_invalidate \/ poll_pause) /\ SF_vars(pause_ends)
    /\ SF_vars(cleanup /\ worker'.purpose = "retry")

FairSpec == Spec /\ Fairness

-----------------------------------------------------------------------------
(* Every variable has its type, and the generation counts what raises it:  *)
(* each save and each pause once, so that within the bounds it never       *)
(* returns to a value a capture remembers.                                 *)
TypeOK ==
    /\ policy \in Policies \cup {Default} /\ policy_known \in BOOLEAN
    /\ config \in Policies \cup {Default, None}
    /\ pending \in BOOLEAN /\ queue \in Policies \cup {None}
    /\ {maintenance, storage_active, cleanup_blocked} \subseteq BOOLEAN
    /\ {publishing_name, quarantine} \subseteq Images \cup {None}
    /\ restored \in {"not_used", "restored", "conflict"}
    /\ generation \in 0 .. (MaxSaves - saves) + (MaxPauses - pauses)
    /\ ha_privacy_generation \in 0 .. (MaxPrivacy - privacies)
    /\ timelapse_user_generation \in 0 .. (MaxUserSets - sets)
    /\ mutation \in {None, "format", "privacy", "user"}
    /\ worker.pc \in Storing \cup Elsewhere
    /\ worker.fence \in {"before", "read", "after", "passed"}
    /\ worker.purpose \in {"capture", "retry", "retention"}
    /\ worker.image \in Images \cup {None} /\ worker.changed \subseteq Fields
    /\ saver \in {"idle", "sending", "waiting"}
    /\ pauser \in Pausing \cup {"idle", "claimed", "held", "forgotten"}
    /\ privacy \in {"idle", "off", "on", "readback"}
    /\ user \in {"idle", "command"}
    /\ mask \in Masks /\ outputs \in Outputs /\ wanted \in Outputs
    /\ card \in [Images -> SUBSET {"pending", "jpg", "owned"}]
    /\ clean \subseteq Images /\ borrowed \subseteq Fields
    /\ exposed \in BOOLEAN

(* An image that can be listed, now or after any power cut, was accepted,  *)
(* and privacy was never up, not even in part, from its shot until the     *)
(* mask was read for the last time: whatever was staged, published or      *)
(* marked before is hidden by its .pending name, and a discard that stops  *)
(* half way leaves it so.                                                  *)
Listed(i) == Owned(i) /\ publishing_name # i

ListedIsPrivate == \A i \in Images : Listed(i) => i \in clean

(* The IR-cut, IR LED and colour are as the user last had them, except for *)
(* those a capture holds, or gave up on: giving back never undoes a change *)
(* the user made while a capture was under way.                            *)
OutputsAreTheUsers ==
    \A f \in Fields \ borrowed : outputs[f] = wanted[f]

(* The policy shown as known is the one in the file, also after a save     *)
(* that failed when the file had already been replaced.                    *)
KnownPolicyIsSaved ==
    policy_known => policy = config

(* A save that is let in finds the queue empty and no other save at work.  *)
SavesDoNotOverlap ==
    saver = "sending" => queue = None /\ worker.pc \notin {"persist", "answer"}

(* The policy, its file and its queue agree, whatever fails or times out.  *)
PolicyIsConsistent == TypeOK /\ KnownPolicyIsSaved /\ SavesDoNotOverlap

(* The pause is what StoragePause promises to the formatter: no file       *)
(* operation, no unfinished image and no failed discard is under a pause,  *)
(* and none begins while one is asked for.                                 *)
Pause == INSTANCE StoragePause WITH
    writing <- worker.pc \in Storing \/ quarantine # None,
    pause <- CASE pauser = "idle" -> "none"
               [] pauser \in {"held", "forgotten"} -> "held"
               [] OTHER -> "asked"

PausesAsPromised == Pause!Spec

(* Every save that is let in is over: the next one is not refused for ever.*)
SavesEnd == pending ~> ~pending

(* An image that could not be discarded is, also when the policy has been  *)
(* disabled since; only an unknown outcome of a format keeps it.           *)
CardIsReclaimed ==
    cleanup_blocked ~> (~cleanup_blocked \/ pauser = "forgotten")

(* What is asked of the worker is over in the end: saves and discards.     *)
TimelapseSettles == SavesEnd /\ CardIsReclaimed
=============================================================================
