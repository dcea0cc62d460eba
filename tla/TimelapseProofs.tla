-------------------------- MODULE TimelapseProofs --------------------------
(***************************************************************************)
(* Proofs about the timelapse service: what can be listed is private, the  *)
(* outputs are the user's, the policy shown is the saved one and pauses    *)
(* are what StoragePause promises, for any number of images, saves,        *)
(* privacy commands, pauses, faults and power cuts.                        *)
(***************************************************************************)
EXTENDS Timelapse, TLAPS

(* The points of the worker; those at which it has a save to answer; those *)
(* from the first hidden file of an image to the last look at it.          *)
Points     == Storing \cup Elsewhere
Answering  == {"persist", "answer"}
Publishing == {"before_publish", "verify", "publish", "mark", "reverify", "complete"}

Workers ==
    [pc : Points, fence : {"before", "read", "after", "passed"},
     purpose : {"capture", "retry", "retention"}, update : Policies \cup {Default},
     epoch : Nat \X Nat \X Nat, policy : Policies \cup {Default}, original : Outputs,
     changed : SUBSET Fields, lease : Nat \X Nat, failed : BOOLEAN, shot : BOOLEAN,
     image : Images \cup {None}]

(* TypeOK, and the locals of capture().                                    *)
SettingTypes ==
    /\ policy \in Policies \cup {Default} /\ policy_known \in BOOLEAN
    /\ config \in Policies \cup {Default, None}
    /\ pending \in BOOLEAN /\ queue \in Policies \cup {None}
    /\ restored \in {"not_used", "restored", "conflict"}
StorageTypes ==
    /\ maintenance \in BOOLEAN /\ storage_active \in BOOLEAN /\ cleanup_blocked \in BOOLEAN
    /\ publishing_name \in Images \cup {None} /\ quarantine \in Images \cup {None}
    /\ card \in [Images -> SUBSET {"pending", "jpg", "owned"}]
    /\ clean \subseteq Images
CallerTypes ==
    /\ mutation \in {None, "format", "privacy", "user"}
    /\ saver \in {"idle", "sending", "waiting"}
    /\ pauser \in Pausing \cup {"idle", "claimed", "held", "forgotten"}
    /\ privacy \in {"idle", "off", "on", "readback"}
    /\ user \in {"idle", "command"}
CameraTypes ==
    /\ mask \in Masks /\ outputs \in Outputs /\ wanted \in Outputs
    /\ borrowed \subseteq Fields /\ exposed \in BOOLEAN
EpochTypes ==
    /\ generation \in Nat /\ ha_privacy_generation \in Nat
    /\ timelapse_user_generation \in Nat
    /\ saves \in Nat /\ privacies \in Nat /\ sets \in Nat /\ pauses \in Nat
Types == /\ worker \in Workers /\ SettingTypes /\ StorageTypes /\ CallerTypes
         /\ CameraTypes /\ EpochTypes

(* Each generation counts what raises it; a pause that has been claimed is *)
(* about to.                                                               *)
GenerationsCount ==
    /\ generation + (IF pauser = "claimed" THEN 1 ELSE 0) <=
         (MaxSaves - saves) + (MaxPauses - pauses)
    /\ ha_privacy_generation <= MaxPrivacy - privacies
    /\ timelapse_user_generation <= MaxUserSets - sets

(* A save that was let in is in one place: with its caller, in the queue,  *)
(* or with the worker.                                                     *)
SaveIsOne ==
    /\ saver = "sending" => pending /\ queue = None /\ worker.pc \notin Answering
    /\ queue # None => pending /\ worker.pc \notin Answering
    /\ worker.pc \in Answering => pending
    /\ ~pending => saver = "idle"

(* The mutation lock is its holder's; maintenance is the pauser's.         *)
LockIsTheirs ==
    /\ maintenance <=> pauser # "idle"
    /\ pauser # "idle" => mutation = "format"
    /\ privacy # "idle" => mutation = "privacy"
    /\ user # "idle" => mutation = "user"

(* The worker works on the card only while its activity shows, and a pause *)
(* that has seen none will see none.                                       *)
CardIsClaimed ==
    /\ worker.pc \in Storing \cup {"recheck"} => storage_active
    /\ pauser \in {"name", "image", "held", "forgotten"} => worker.pc \notin Storing
    /\ pauser \in {"held", "forgotten"} => quarantine = None

(* Only a fenced point has a fence before it.                              *)
FencesAreThere == worker.pc \notin Fenced => worker.fence = "passed"

(* An output is as the user wants it or as a capture's preset has it; what *)
(* a capture may give back the user has not touched since it was borrowed. *)
LeaseHolds ==
    /\ \A f \in Fields : \/ outputs[f] = wanted[f]
                         \/ f \in borrowed /\ outputs[f] = Presets[f]
    /\ worker.lease[1] <= timelapse_user_generation
    /\ worker.changed # {} =>
         \/ worker.pc = "apply" /\ worker.fence = "passed"
         \/ worker.pc \in {"shoot", "restore"}
    /\ worker.changed # {} /\ worker.lease[1] = timelapse_user_generation =>
         user = "idle" /\ \A f \in worker.changed : wanted[f] = worker.original[f]

(* A capture that comes to the card without a failure has its frame.       *)
FrameIsThere ==
    /\ worker.pc = "epoch" => ~worker.shot
    /\ worker.pc = "restore" => worker.failed \/ worker.shot
    /\ worker.pc \in {"begin", "claim", "recheck"} /\ worker.purpose = "capture" =>
         worker.shot
    /\ worker.pc \in {"name", "stage"} \cup Publishing => worker.shot

(* While no privacy command was given since the capture began, a mask that *)
(* is up after it was seen down stays up: the last fence sees it.          *)
Same     == ha_privacy_generation = worker.epoch[2]
Settled  == privacy \notin {"on", "off"}
LastRead == worker.pc = "complete" /\ worker.fence \in {"after", "passed"}
ShotIsPrivate ==
    /\ worker.epoch[2] <= ha_privacy_generation
    /\ worker.pc = "shoot" /\ worker.fence \in {"after", "passed"} /\ Same /\ mask # "off" =>
         Settled
    /\ worker.shot /\ worker.pc # "discard" /\ ~LastRead /\ exposed /\ Same =>
         mask # "off" /\ Settled
    /\ LastRead /\ Same => ~exposed

(* An image with a marker is hidden by its other name or was accepted.     *)
CardIsClean ==
    /\ \A i \in Images : "owned" \in card[i] /\ "pending" \notin card[i] => i \in clean
    /\ worker.pc = "stage" => publishing_name \in Images /\ card[publishing_name] = {}
    /\ worker.pc \in Publishing => /\ worker.image \in Images
                                   /\ "pending" \in card[worker.image]
    /\ worker.pc = "complete" /\ worker.fence = "passed" => worker.image \in clean

TimelapseInv ==
    /\ Types /\ GenerationsCount /\ KnownPolicyIsSaved /\ SaveIsOne /\ LockIsTheirs
    /\ CardIsClaimed /\ FencesAreThere /\ LeaseHolds /\ FrameIsThere /\ ShotIsPrivate
    /\ CardIsClean

(***************************************************************************)
(* Names, and the worker's steps.                                          *)
(***************************************************************************)

(* Nobody who holds the mutation lock is nobody.                           *)
LEMMA Names == None # "format" /\ None # "privacy" /\ None # "user"
BY NoneAssumption

(* The bounds are bounds.                                                  *)
LEMMA Limits ==
    /\ MaxSaves \in Nat /\ MaxPrivacy \in Nat /\ MaxUserSets \in Nat
    /\ MaxPauses \in Nat /\ NFields \in Nat
BY LimitsAssumption

(* The points are these.                                                   *)
LEMMA PointsAre ==
    Points = {"name", "stage", "before_publish", "verify", "publish", "mark",
              "reverify", "complete", "discard", "drop_name", "take", "sweep",
              "sweep_marker", "release", "load", "receive", "persist", "answer",
              "gate", "epoch", "lease", "lease_check", "apply", "shoot", "restore",
              "begin", "claim", "recheck", "cleanup"}
BY DEF Points, Storing, Elsewhere

(* Two workers with the same frame, lease and image; a worker that has     *)
(* come to a point.                                                        *)
Alike(v, w) ==
    /\ v.purpose = w.purpose /\ v.epoch = w.epoch /\ v.shot = w.shot /\ v.image = w.image
    /\ v.original = w.original /\ v.changed = w.changed /\ v.lease = w.lease
Stands(w, pc) ==
    /\ w \in Workers /\ w.pc = pc
    /\ w.fence = (IF pc \in Fenced THEN "before" ELSE "passed")

(* What a step makes of the worker: it goes on, fails, begins anew.        *)
Moves(pc) == Stands(worker', pc) /\ Alike(worker', worker) /\ worker'.failed = worker.failed
Fails(pc) == Stands(worker', pc) /\ Alike(worker', worker) /\ worker'.failed
Begins(pc, purpose) ==
    /\ worker' \in Workers /\ worker'.pc = pc /\ worker'.fence = "passed"
    /\ worker'.purpose = purpose /\ worker'.epoch[2] <= ha_privacy_generation
    /\ worker'.changed = {} /\ worker'.lease[1] = 0 /\ ~worker'.shot

(* Where Goto leads.                                                       *)
LEMMA Going ==
    ASSUME worker \in Workers, NEW pc \in Points
    PROVE /\ Stands(Goto(pc), pc) /\ Alike(Goto(pc), worker)
          /\ Goto(pc).failed = worker.failed
<1>1. /\ Goto(pc).pc = pc /\ Goto(pc).failed = worker.failed
      /\ Goto(pc).fence = (IF pc \in Fenced THEN "before" ELSE "passed")
  BY DEF Goto, Workers
<1>2. Alike(Goto(pc), worker)
  BY DEF Goto, Alike
<1>3. Goto(pc) \in Workers
  BY ZenonT(30) DEF Goto, Workers
<1> QED
  BY <1>1, <1>2, <1>3 DEF Stands

(* Where Fail leads.                                                       *)
LEMMA Failing ==
    ASSUME worker \in Workers, NEW pc \in Points
    PROVE Stands(Fail(pc), pc) /\ Alike(Fail(pc), worker) /\ Fail(pc).failed
<1>1. Stands(Goto(pc), pc) /\ Alike(Goto(pc), worker)
  BY Going
<1> QED
  BY <1>1 DEF Fail, Workers, Stands, Alike

(* The worker begins anew.                                                 *)
LEMMA Idling ==
    /\ Idle \in Workers /\ Idle.pc = "load" /\ Idle.fence = "passed" /\ Idle.purpose = "capture"
    /\ Idle.epoch = <<0, 0, 0>> /\ Idle.changed = {} /\ Idle.lease = <<0, 0>>
    /\ ~Idle.failed /\ ~Idle.shot /\ Idle.image = None
BY SMTT(30), PointsAre DEF Idle, Workers, Outputs

(* The worker's steps by what they leave as it is.                         *)
Saving   == load \/ receive \/ persist \/ answer
Looking  == gate \/ capture \/ fence_before \/ fence_read \/ lease_read
            \/ lease_check \/ applied \/ begin_storage \/ before_publish
            \/ verify_mount \/ cleanup
Shooting == shoot \/ given_back \/ (\E f \in Fields : apply(f) \/ restore(f))
Claiming == claim \/ recheck \/ release
Filing   == name \/ stage \/ publish \/ mark \/ complete \/ discard
            \/ drop_name \/ take \/ retention \/ retention_marker

(* There is no other step of the worker but the end of a fence.            *)
LEMMA WorkerParts ==
    Worker <=> Saving \/ Looking \/ fence_after \/ Shooting \/ Claiming \/ Filing
BY DEF Worker, Upkeep, Saving, Looking, Shooting, Claiming, Filing

(* A save touches the policy and its caller.                               *)
LEMMA SavingFrame ==
    Saving => UNCHANGED <<maintenance, storage_active, publishing_name,
                          quarantine, cleanup_blocked, generation,
                          ha_privacy_generation, timelapse_user_generation,
                          mutation, pauser, privacy, user, mask, outputs, card,
                          exposed, clean, wanted, borrowed, saves, privacies,
                          sets, pauses>>
<1> DEFINE Kept == UNCHANGED <<maintenance, storage_active, publishing_name,
                               quarantine, cleanup_blocked, generation,
                               ha_privacy_generation, timelapse_user_generation,
                               mutation, pauser, privacy, user, mask, outputs,
                               card, exposed, clean, wanted, borrowed, saves,
                               privacies, sets, pauses>>
<1>1. load => Kept
  BY DEF load, backend, storage, epochs, camera, history, callers, bounds
<1>2. receive => Kept
  BY DEF receive, backend, storage, epochs, camera, history, callers, bounds
<1>3. persist => Kept
  BY DEF persist, backend, storage, epochs, camera, history, callers, bounds
<1>4. answer => Kept
  BY DEF answer, storage, epochs, camera, history, bounds
<1> QED
  BY <1>1, <1>2, <1>3, <1>4 DEF Saving

(* These change nothing but the worker.                                    *)
LEMMA LookingFrame ==
    Looking => UNCHANGED <<policy, policy_known, config, pending, queue,
                           maintenance, storage_active, publishing_name,
                           quarantine, cleanup_blocked, restored, generation,
                           ha_privacy_generation, timelapse_user_generation,
                           mutation, saver, pauser, privacy, user, mask, outputs,
                           card, exposed, clean, wanted, borrowed, saves,
                           privacies, sets, pauses>>
<1> DEFINE Kept == UNCHANGED <<policy, policy_known, config, pending, queue,
                               maintenance, storage_active, publishing_name,
                               quarantine, cleanup_blocked, restored, generation,
                               ha_privacy_generation, timelapse_user_generation,
                               mutation, saver, pauser, privacy, user, mask,
                               outputs, card, exposed, clean, wanted, borrowed,
                               saves, privacies, sets, pauses>>
<1>1. gate => Kept
  BY DEF gate, others, backend, settings, storage, epochs, camera, history,
       callers, bounds
<1>2. capture => Kept
  BY DEF capture, others, backend, settings, storage, epochs, camera, history,
       callers, bounds
<1>3. fence_before => Kept
  BY DEF fence_before, others, backend, settings, storage, epochs, camera,
       history, callers, bounds
<1>4. fence_read => Kept
  BY DEF fence_read, others, backend, settings, storage, epochs, camera,
       history, callers, bounds
<1>5. lease_read => Kept
  BY DEF lease_read, others, backend, settings, storage, epochs, camera,
       history, callers, bounds
<1>6. lease_check => Kept
  BY DEF lease_check, others, backend, settings, storage, epochs, camera,
       history, callers, bounds
<1>7. applied => Kept
  BY DEF applied, others, backend, settings, storage, epochs, camera, history,
       callers, bounds
<1>8. begin_storage => Kept
  BY DEF begin_storage, others, backend, settings, storage, epochs, camera,
       history, callers, bounds
<1>9. before_publish => Kept
  BY DEF before_publish, others, backend, settings, storage, epochs, camera,
       history, callers, bounds
<1>10. verify_mount => Kept
  BY DEF verify_mount, others, backend, settings, storage, epochs, camera,
       history, callers, bounds
<1>11. cleanup => Kept
  BY DEF cleanup, others, backend, settings, storage, epochs, camera, history,
       callers, bounds
<1> QED
  BY <1>1, <1>2, <1>3, <1>4, <1>5, <1>6, <1>7, <1>8, <1>9, <1>10, <1>11 DEF Looking

(* The picture touches the outputs.                                        *)
LEMMA ShootingFrame ==
    Shooting => UNCHANGED <<policy, policy_known, config, pending, queue,
                            maintenance, storage_active, publishing_name,
                            quarantine, cleanup_blocked, generation,
                            ha_privacy_generation, timelapse_user_generation,
                            mutation, saver, pauser, privacy, user, mask, card,
                            clean, wanted, saves, privacies, sets, pauses>>
<1> DEFINE Kept == UNCHANGED <<policy, policy_known, config, pending, queue,
                               maintenance, storage_active, publishing_name,
                               quarantine, cleanup_blocked, generation,
                               ha_privacy_generation, timelapse_user_generation,
                               mutation, saver, pauser, privacy, user, mask, card,
                               clean, wanted, saves, privacies, sets, pauses>>
<1>1. shoot => Kept
  BY DEF shoot, settings, storage, epochs, camera, callers, bounds
<1>2. given_back => Kept
  BY DEF given_back, backend, settings, storage, epochs, camera, history,
       callers, bounds
<1>3. \A f \in Fields : apply(f) => Kept
  BY DEF apply, settings, storage, epochs, callers, bounds
<1>4. \A f \in Fields : restore(f) => Kept
  BY DEF restore, settings, storage, epochs, callers, bounds
<1> QED
  BY <1>1, <1>2, <1>3, <1>4 DEF Shooting

(* The claim touches the activity.                                         *)
LEMMA ClaimingFrame ==
    Claiming => UNCHANGED <<policy, policy_known, config, pending, queue,
                            maintenance, publishing_name, quarantine,
                            cleanup_blocked, restored, generation,
                            ha_privacy_generation, timelapse_user_generation,
                            mutation, saver, pauser, privacy, user, mask, outputs,
                            card, exposed, clean, wanted, borrowed, saves,
                            privacies, sets, pauses>>
<1> DEFINE Kept == UNCHANGED <<policy, policy_known, config, pending, queue,
                               maintenance, publishing_name, quarantine,
                               cleanup_blocked, restored, generation,
                               ha_privacy_generation, timelapse_user_generation,
                               mutation, saver, pauser, privacy, user, mask,
                               outputs, card, exposed, clean, wanted, borrowed,
                               saves, privacies, sets, pauses>>
<1>1. claim => Kept
  BY DEF claim, backend, settings, epochs, camera, history, callers, bounds
<1>2. recheck => Kept
  BY DEF recheck, backend, settings, epochs, camera, history, callers, bounds
<1>3. release => Kept
  BY DEF release, backend, settings, epochs, camera, history, callers, bounds
<1> QED
  BY <1>1, <1>2, <1>3 DEF Claiming

(* The image touches the card.                                             *)
LEMMA FilingFrame ==
    Filing => UNCHANGED <<policy, policy_known, config, pending, queue,
                          maintenance, storage_active, restored, generation,
                          ha_privacy_generation, timelapse_user_generation,
                          mutation, saver, pauser, privacy, user, mask, outputs,
                          exposed, wanted, borrowed, saves, privacies, sets,
                          pauses>>
<1> DEFINE Kept == UNCHANGED <<policy, policy_known, config, pending, queue,
                               maintenance, storage_active, restored, generation,
                               ha_privacy_generation, timelapse_user_generation,
                               mutation, saver, pauser, privacy, user, mask,
                               outputs, exposed, wanted, borrowed, saves,
                               privacies, sets, pauses>>
<1>1. name => Kept
  BY DEF name, backend, settings, epochs, camera, history, callers, bounds
<1>2. stage => Kept
  BY DEF stage, settings, storage, epochs, camera, callers, bounds
<1>3. publish => Kept
  BY DEF publish, backend, settings, storage, epochs, camera, history, callers,
       bounds
<1>4. mark => Kept
  BY DEF mark, backend, settings, storage, epochs, camera, history, callers,
       bounds
<1>5. complete => Kept
  BY DEF complete, backend, settings, storage, epochs, camera, history, callers,
       bounds
<1>6. discard => Kept
  BY DEF discard, backend, settings, epochs, camera, history, callers, bounds
<1>7. drop_name => Kept
  BY DEF drop_name, backend, settings, epochs, camera, history, callers, bounds
<1>8. take => Kept
  BY DEF take, backend, settings, epochs, camera, history, callers, bounds
<1>9. retention => Kept
  BY DEF retention, backend, settings, storage, epochs, camera, history,
       callers, bounds
<1>10. retention_marker => Kept
  BY DEF retention_marker, backend, settings, storage, epochs, camera, history,
       callers, bounds
<1> QED
  BY <1>1, <1>2, <1>3, <1>4, <1>5, <1>6, <1>7, <1>8, <1>9, <1>10 DEF Filing

(* The end of a fence can accept an image.                                 *)
LEMMA FenceFrame ==
    fence_after => UNCHANGED <<policy, policy_known, config, pending, queue,
                               maintenance, storage_active, publishing_name,
                               quarantine, cleanup_blocked, restored, generation,
                               ha_privacy_generation, timelapse_user_generation,
                               mutation, saver, pauser, privacy, user, mask,
                               outputs, card, exposed, wanted, borrowed, saves,
                               privacies, sets, pauses>>
BY DEF fence_after, others, backend, settings, storage, epochs, camera, history, callers, bounds

(* What is the callers' no step of the worker touches.                     *)
LEMMA WorkerFrame ==
    Worker => UNCHANGED <<maintenance, generation, ha_privacy_generation,
                          timelapse_user_generation, mutation, pauser, privacy,
                          user, mask, wanted, saves, privacies, sets, pauses>>
BY WorkerParts, SavingFrame, LookingFrame, FenceFrame, ShootingFrame, ClaimingFrame, FilingFrame

(* The callers by what they leave as it is.                                *)
Saver   == submit \/ (\E p \in Policies : submit_send(p)) \/ submit_times_out
Pauser  == \/ pause_claim \/ pause_invalidate \/ poll_pause \/ pause_ends
           \/ pause_forgotten
Privacy == (\E m \in {"off", "on"} : set_privacy(m)) \/ privacy_command \/ privacy_readback
User    == live_control \/ (\E f \in Fields, v \in BOOLEAN : set_output(f, v))

(* There is no other caller.                                               *)
LEMMA CallerParts == Callers <=> Saver \/ Pauser \/ Privacy \/ User
BY DEF Callers, Saver, Pauser, Privacy, User

(* Who saves a policy.                                                     *)
LEMMA SaverFrame ==
    Saver => UNCHANGED <<policy, policy_known, config, maintenance,
                         storage_active, publishing_name, quarantine,
                         cleanup_blocked, restored, ha_privacy_generation,
                         timelapse_user_generation, mutation, worker, pauser,
                         privacy, user, mask, outputs, card, exposed, clean,
                         wanted, borrowed, privacies, sets, pauses>>
<1> DEFINE Kept == UNCHANGED <<policy, policy_known, config, maintenance,
                               storage_active, publishing_name, quarantine,
                               cleanup_blocked, restored, ha_privacy_generation,
                               timelapse_user_generation, mutation, worker,
                               pauser, privacy, user, mask, outputs, card,
                               exposed, clean, wanted, borrowed, privacies, sets,
                               pauses>>
<1>1. submit => Kept
  BY DEF submit, storage, camera, history
<1>2. \A p \in Policies : submit_send(p) => Kept
  BY DEF submit_send, storage, epochs, camera, history, bounds
<1>3. submit_times_out => Kept
  BY DEF submit_times_out, settings, storage, epochs, camera, history, bounds
<1> QED
  BY <1>1, <1>2, <1>3 DEF Saver

(* Who formats the card.                                                   *)
LEMMA PauserFrame ==
    Pauser => UNCHANGED <<policy, policy_known, config, pending, queue,
                          storage_active, publishing_name, quarantine,
                          cleanup_blocked, restored, ha_privacy_generation,
                          timelapse_user_generation, worker, saver, privacy, user,
                          mask, outputs, card, exposed, clean, wanted, borrowed,
                          saves, privacies, sets>>
<1> DEFINE Kept == UNCHANGED <<policy, policy_known, config, pending, queue,
                               storage_active, publishing_name, quarantine,
                               cleanup_blocked, restored, ha_privacy_generation,
                               timelapse_user_generation, worker, saver, privacy,
                               user, mask, outputs, card, exposed, clean, wanted,
                               borrowed, saves, privacies, sets>>
<1>1. pause_claim => Kept
  BY DEF pause_claim, settings, epochs, camera, history
<1>2. pause_invalidate => Kept
  BY DEF pause_invalidate, settings, storage, camera, history, bounds
<1>3. poll_pause => Kept
  BY DEF poll_pause, settings, storage, epochs, camera, history, bounds
<1>4. pause_ends => Kept
  BY DEF pause_ends, settings, epochs, camera, history, bounds
<1>5. pause_forgotten => Kept
  BY DEF pause_forgotten, settings, storage, epochs, camera, history, bounds
<1> QED
  BY <1>1, <1>2, <1>3, <1>4, <1>5 DEF Pauser

(* Who switches privacy.                                                   *)
LEMMA PrivacyFrame ==
    Privacy => UNCHANGED <<policy, policy_known, config, pending, queue,
                           maintenance, storage_active, publishing_name,
                           quarantine, cleanup_blocked, restored, generation,
                           timelapse_user_generation, worker, saver, pauser, user,
                           outputs, card, clean, wanted, borrowed, saves, sets,
                           pauses>>
<1> DEFINE Kept == UNCHANGED <<policy, policy_known, config, pending, queue,
                               maintenance, storage_active, publishing_name,
                               quarantine, cleanup_blocked, restored, generation,
                               timelapse_user_generation, worker, saver, pauser,
                               user, outputs, card, clean, wanted, borrowed,
                               saves, sets, pauses>>
<1>1. \A m \in {"off", "on"} : set_privacy(m) => Kept
  BY DEF set_privacy, settings, storage, camera, history
<1>2. privacy_command => Kept
  BY DEF privacy_command, settings, storage, epochs, bounds
<1>3. privacy_readback => Kept
  BY DEF privacy_readback, settings, storage, epochs, camera, history, bounds
<1> QED
  BY <1>1, <1>2, <1>3 DEF Privacy

(* Who sets an output.                                                     *)
LEMMA UserFrame ==
    User => UNCHANGED <<policy, policy_known, config, pending, queue, maintenance,
                        storage_active, publishing_name, quarantine,
                        cleanup_blocked, restored, generation,
                        ha_privacy_generation, worker, saver, pauser, privacy,
                        mask, card, exposed, clean, saves, privacies, pauses>>
<1> DEFINE Kept == UNCHANGED <<policy, policy_known, config, pending, queue,
                               maintenance, storage_active, publishing_name,
                               quarantine, cleanup_blocked, restored, generation,
                               ha_privacy_generation, worker, saver, pauser,
                               privacy, mask, card, exposed, clean, saves,
                               privacies, pauses>>
<1>1. live_control => Kept
  BY DEF live_control, settings, storage, camera, history
<1>2. \A f \in Fields, v \in BOOLEAN : set_output(f, v) => Kept
  BY DEF set_output, settings, storage, epochs, bounds
<1> QED
  BY <1>1, <1>2 DEF User

(* The callers leave the worker, the card and the saved policy alone.      *)
LEMMA CallersFrame ==
    Callers => UNCHANGED <<policy, policy_known, config, storage_active,
                           publishing_name, quarantine, cleanup_blocked, restored,
                           worker, card, clean>>
BY CallerParts, SaverFrame, PauserFrame, PrivacyFrame, UserFrame

(***************************************************************************)
(* Types.                                                                  *)
(***************************************************************************)

(* The policy, its file and its queue.                                     *)
LEMMA SettingsTyped ==
    ASSUME TimelapseInv, Next
    PROVE SettingTypes'
<1>1. CASE load
  BY <1>1 DEF load, backend, storage, epochs, camera, history, callers, bounds,
       TimelapseInv, Types, SettingTypes
<1>2. CASE receive
  BY <1>2 DEF receive, backend, storage, epochs, camera, history, callers, bounds,
       TimelapseInv, Types, SettingTypes
<1>3. CASE persist
  BY <1>3 DEF persist, backend, storage, epochs, camera, history, callers, bounds,
       Workers, TimelapseInv, Types, SettingTypes
<1>4. CASE answer
  BY <1>4 DEF answer, storage, epochs, camera, history, bounds, TimelapseInv, Types,
       SettingTypes
<1>5. CASE Looking
  BY <1>5, LookingFrame DEF TimelapseInv, Types, SettingTypes
<1>6. CASE fence_after
  BY <1>6, FenceFrame DEF TimelapseInv, Types, SettingTypes
<1>7. CASE shoot
  BY <1>7 DEF shoot, settings, storage, epochs, camera, callers, bounds,
       TimelapseInv, Types, SettingTypes
<1>8. CASE given_back
  BY <1>8 DEF given_back, backend, settings, storage, epochs, camera, history,
       callers, bounds, TimelapseInv, Types, SettingTypes
<1>9. ASSUME NEW f \in Fields, apply(f) PROVE SettingTypes'
  BY <1>9 DEF apply, settings, storage, epochs, callers, bounds, TimelapseInv, Types,
       SettingTypes
<1>10. ASSUME NEW f \in Fields, restore(f) PROVE SettingTypes'
  BY <1>10 DEF restore, settings, storage, epochs, callers, bounds, TimelapseInv,
       Types, SettingTypes
<1>11. CASE Claiming
  BY <1>11, ClaimingFrame DEF TimelapseInv, Types, SettingTypes
<1>12. CASE Filing
  BY <1>12, FilingFrame DEF TimelapseInv, Types, SettingTypes
<1>13. CASE submit
  BY <1>13 DEF submit, storage, camera, history, TimelapseInv, Types, SettingTypes
<1>14. ASSUME NEW p \in Policies, submit_send(p) PROVE SettingTypes'
  BY <1>14 DEF submit_send, storage, epochs, camera, history, bounds, TimelapseInv,
       Types, SettingTypes
<1>15. CASE submit_times_out
  BY <1>15 DEF submit_times_out, settings, storage, epochs, camera, history, bounds,
       TimelapseInv, Types, SettingTypes
<1>16. CASE Pauser
  BY <1>16, PauserFrame DEF TimelapseInv, Types, SettingTypes
<1>17. CASE Privacy
  BY <1>17, PrivacyFrame DEF TimelapseInv, Types, SettingTypes
<1>18. CASE User
  BY <1>18, UserFrame DEF TimelapseInv, Types, SettingTypes
<1>19. CASE PowerCut
  BY <1>19 DEF PowerCut, TimelapseInv, Types, SettingTypes
<1> QED
  BY <1>1, <1>2, <1>3, <1>4, <1>5, <1>6, <1>7, <1>8, <1>9, <1>10, <1>11, <1>12,
       <1>13, <1>14, <1>15, <1>16, <1>17, <1>18, <1>19, WorkerParts, CallerParts DEF
       Next, Saving, Shooting, Saver

(* The card and what is known of it.                                       *)
LEMMA StorageTyped ==
    ASSUME TimelapseInv, Next
    PROVE StorageTypes'
<1>1. CASE Saving
  BY <1>1, SavingFrame DEF TimelapseInv, Types, StorageTypes
<1>2. CASE Looking
  BY <1>2, LookingFrame DEF TimelapseInv, Types, StorageTypes
<1>3. CASE fence_after
  BY <1>3, FenceFrame DEF fence_after, settings, storage, epochs, camera, callers,
       bounds, Workers, CardIsClean, Publishing, FencePasses, TimelapseInv, Types,
       StorageTypes
<1>4. CASE Shooting
  BY <1>4, ShootingFrame DEF TimelapseInv, Types, StorageTypes
<1>5. CASE claim
  BY <1>5 DEF claim, backend, settings, epochs, camera, history, callers, bounds,
       TimelapseInv, Types, StorageTypes
<1>6. CASE recheck
  BY <1>6 DEF recheck, backend, settings, epochs, camera, history, callers, bounds,
       TimelapseInv, Types, StorageTypes
<1>7. CASE release
  BY <1>7 DEF release, backend, settings, epochs, camera, history, callers, bounds,
       TimelapseInv, Types, StorageTypes
<1>8. CASE name
  BY <1>8 DEF name, backend, settings, epochs, camera, history, callers, bounds,
       TimelapseInv, Types, StorageTypes
<1>9. CASE stage
  BY <1>9 DEF stage, settings, storage, epochs, camera, callers, bounds, Put,
       TimelapseInv, Types, StorageTypes
<1>10. CASE publish
  BY <1>10 DEF publish, backend, settings, storage, epochs, camera, history, callers,
       bounds, Put, TimelapseInv, Types, StorageTypes
<1>11. CASE mark
  BY <1>11 DEF mark, backend, settings, storage, epochs, camera, history, callers,
       bounds, Put, TimelapseInv, Types, StorageTypes
<1>12. CASE complete
  BY <1>12 DEF complete, backend, settings, storage, epochs, camera, history,
       callers, bounds, Remove, TimelapseInv, Types, StorageTypes
<1>13. CASE discard
  <2>1. worker.image \in Images \cup {None} /\ StorageTypes
    BY DEF TimelapseInv, Types, Workers
  <2>2. /\ publishing_name' \in Images \cup {None} /\ quarantine' \in Images \cup {None}
        /\ cleanup_blocked' \in BOOLEAN /\ maintenance' = maintenance
        /\ storage_active' = storage_active /\ clean' = clean
    BY <1>13, <2>1, FilingFrame DEF discard, backend, history, StorageTypes
  <2>3. card' = card \/ card' = [card EXCEPT ![worker.image] = @ \ {Doomed}]
    BY <1>13 DEF discard, Remove
  <2>4. card' \in [Images -> SUBSET {"pending", "jpg", "owned"}]
    BY <2>1, <2>3 DEF StorageTypes
  <2> QED
    BY <2>1, <2>2, <2>4 DEF StorageTypes
<1>14. CASE drop_name
  BY <1>14 DEF drop_name, backend, settings, epochs, camera, history, callers,
       bounds, TimelapseInv, Types, StorageTypes
<1>15. CASE take
  BY <1>15 DEF take, backend, settings, epochs, camera, history, callers, bounds,
       TimelapseInv, Types, StorageTypes
<1>16. CASE retention
  BY <1>16 DEF retention, backend, settings, storage, epochs, camera, history,
       callers, bounds, Remove, TimelapseInv, Types, StorageTypes
<1>17. CASE retention_marker
  BY <1>17 DEF retention_marker, backend, settings, storage, epochs, camera, history,
       callers, bounds, Remove, TimelapseInv, Types, StorageTypes
<1>18. CASE Saver
  BY <1>18, SaverFrame DEF TimelapseInv, Types, StorageTypes
<1>19. CASE pause_claim
  BY <1>19 DEF pause_claim, settings, epochs, camera, history, TimelapseInv, Types,
       StorageTypes
<1>20. CASE pause_invalidate
  BY <1>20 DEF pause_invalidate, settings, storage, camera, history, bounds,
       TimelapseInv, Types, StorageTypes
<1>21. CASE poll_pause
  BY <1>21 DEF poll_pause, settings, storage, epochs, camera, history, bounds,
       TimelapseInv, Types, StorageTypes
<1>22. CASE pause_ends
  BY <1>22 DEF pause_ends, settings, epochs, camera, history, bounds, TimelapseInv,
       Types, StorageTypes
<1>23. CASE pause_forgotten
  BY <1>23 DEF pause_forgotten, settings, storage, epochs, camera, history, bounds,
       TimelapseInv, Types, StorageTypes
<1>24. CASE Privacy
  BY <1>24, PrivacyFrame DEF TimelapseInv, Types, StorageTypes
<1>25. CASE User
  BY <1>25, UserFrame DEF TimelapseInv, Types, StorageTypes
<1>26. CASE PowerCut
  BY <1>26 DEF PowerCut, TimelapseInv, Types, StorageTypes
<1> QED
  BY <1>1, <1>2, <1>3, <1>4, <1>5, <1>6, <1>7, <1>8, <1>9, <1>10, <1>11, <1>12,
       <1>13, <1>14, <1>15, <1>16, <1>17, <1>18, <1>19, <1>20, <1>21, <1>22, <1>23,
       <1>24, <1>25, <1>26, WorkerParts, CallerParts DEF Next, Claiming, Filing,
       Pauser

(* The callers.                                                            *)
LEMMA CallersTyped ==
    ASSUME TimelapseInv, Next
    PROVE CallerTypes'
<1>1. CASE load
  BY <1>1 DEF load, backend, storage, epochs, camera, history, callers, bounds,
       TimelapseInv, Types, CallerTypes
<1>2. CASE receive
  BY <1>2 DEF receive, backend, storage, epochs, camera, history, callers, bounds,
       TimelapseInv, Types, CallerTypes
<1>3. CASE persist
  BY <1>3 DEF persist, backend, storage, epochs, camera, history, callers, bounds,
       TimelapseInv, Types, CallerTypes
<1>4. CASE answer
  BY <1>4 DEF answer, storage, epochs, camera, history, bounds, TimelapseInv, Types,
       CallerTypes
<1>5. CASE Looking
  BY <1>5, LookingFrame DEF TimelapseInv, Types, CallerTypes
<1>6. CASE fence_after
  BY <1>6, FenceFrame DEF TimelapseInv, Types, CallerTypes
<1>7. CASE Shooting
  BY <1>7, ShootingFrame DEF TimelapseInv, Types, CallerTypes
<1>8. CASE Claiming
  BY <1>8, ClaimingFrame DEF TimelapseInv, Types, CallerTypes
<1>9. CASE Filing
  BY <1>9, FilingFrame DEF TimelapseInv, Types, CallerTypes
<1>10. CASE submit
  BY <1>10 DEF submit, storage, camera, history, TimelapseInv, Types, CallerTypes
<1>11. ASSUME NEW p \in Policies, submit_send(p) PROVE CallerTypes'
  BY <1>11 DEF submit_send, storage, epochs, camera, history, bounds, TimelapseInv,
       Types, CallerTypes
<1>12. CASE submit_times_out
  BY <1>12 DEF submit_times_out, settings, storage, epochs, camera, history, bounds,
       TimelapseInv, Types, CallerTypes
<1>13. CASE pause_claim
  BY <1>13 DEF pause_claim, settings, epochs, camera, history, TimelapseInv, Types,
       CallerTypes
<1>14. CASE pause_invalidate
  BY <1>14 DEF pause_invalidate, settings, storage, camera, history, bounds, Pausing,
       TimelapseInv, Types, CallerTypes
<1>15. CASE poll_pause
  BY <1>15 DEF poll_pause, settings, storage, epochs, camera, history, bounds,
       Pausing, TimelapseInv, Types, CallerTypes
<1>16. CASE pause_ends
  BY <1>16 DEF pause_ends, settings, epochs, camera, history, bounds, TimelapseInv,
       Types, CallerTypes
<1>17. CASE pause_forgotten
  BY <1>17 DEF pause_forgotten, settings, storage, epochs, camera, history, bounds,
       TimelapseInv, Types, CallerTypes
<1>18. ASSUME NEW m \in {"off", "on"}, set_privacy(m) PROVE CallerTypes'
  BY <1>18 DEF set_privacy, settings, storage, camera, history, TimelapseInv, Types,
       CallerTypes
<1>19. CASE privacy_command
  BY <1>19 DEF privacy_command, settings, storage, epochs, bounds, TimelapseInv,
       Types, CallerTypes
<1>20. CASE privacy_readback
  BY <1>20 DEF privacy_readback, settings, storage, epochs, camera, history, bounds,
       TimelapseInv, Types, CallerTypes
<1>21. CASE live_control
  BY <1>21 DEF live_control, settings, storage, camera, history, TimelapseInv, Types,
       CallerTypes
<1>22. ASSUME NEW f \in Fields, NEW v \in BOOLEAN, set_output(f, v) PROVE CallerTypes'
  BY <1>22 DEF set_output, settings, storage, epochs, bounds, TimelapseInv, Types,
       CallerTypes
<1>23. CASE PowerCut
  BY <1>23 DEF PowerCut, TimelapseInv, Types, CallerTypes
<1> QED
  BY <1>1, <1>2, <1>3, <1>4, <1>5, <1>6, <1>7, <1>8, <1>9, <1>10, <1>11, <1>12,
       <1>13, <1>14, <1>15, <1>16, <1>17, <1>18, <1>19, <1>20, <1>21, <1>22, <1>23,
       WorkerParts, CallerParts DEF Next, Saving, Saver, Pauser, Privacy, User

(* The camera.                                                             *)
LEMMA CameraTyped ==
    ASSUME TimelapseInv, Next
    PROVE CameraTypes'
<1>1. CASE Saving
  BY <1>1, SavingFrame DEF TimelapseInv, Types, CameraTypes
<1>2. CASE Looking
  BY <1>2, LookingFrame DEF TimelapseInv, Types, CameraTypes
<1>3. CASE fence_after
  BY <1>3, FenceFrame DEF TimelapseInv, Types, CameraTypes
<1>4. CASE shoot
  BY <1>4 DEF shoot, settings, storage, epochs, camera, callers, bounds,
       TimelapseInv, Types, CameraTypes
<1>5. CASE given_back
  BY <1>5 DEF given_back, backend, settings, storage, epochs, camera, history,
       callers, bounds, TimelapseInv, Types, CameraTypes
<1>6. ASSUME NEW f \in Fields, apply(f) PROVE CameraTypes'
  BY <1>6 DEF apply, settings, storage, epochs, callers, bounds, Outputs, Presets,
       TimelapseInv, Types, CameraTypes
<1>7. ASSUME NEW f \in Fields, restore(f) PROVE CameraTypes'
  BY <1>7 DEF restore, settings, storage, epochs, callers, bounds, Outputs, Workers,
       TimelapseInv, Types, CameraTypes
<1>8. CASE Claiming
  BY <1>8, ClaimingFrame DEF TimelapseInv, Types, CameraTypes
<1>9. CASE Filing
  BY <1>9, FilingFrame DEF TimelapseInv, Types, CameraTypes
<1>10. CASE Saver
  BY <1>10, SaverFrame DEF TimelapseInv, Types, CameraTypes
<1>11. CASE Pauser
  BY <1>11, PauserFrame DEF TimelapseInv, Types, CameraTypes
<1>12. ASSUME NEW m \in {"off", "on"}, set_privacy(m) PROVE CameraTypes'
  BY <1>12 DEF set_privacy, settings, storage, camera, history, TimelapseInv, Types,
       CameraTypes
<1>13. CASE privacy_command
  BY <1>13 DEF privacy_command, settings, storage, epochs, bounds, Masks, Undecided,
       TimelapseInv, Types, CameraTypes
<1>14. CASE privacy_readback
  BY <1>14 DEF privacy_readback, settings, storage, epochs, camera, history, bounds,
       TimelapseInv, Types, CameraTypes
<1>15. CASE live_control
  BY <1>15 DEF live_control, settings, storage, camera, history, TimelapseInv, Types,
       CameraTypes
<1>16. ASSUME NEW f \in Fields, NEW v \in BOOLEAN, set_output(f, v) PROVE CameraTypes'
  BY <1>16 DEF set_output, settings, storage, epochs, bounds, Outputs, TimelapseInv,
       Types, CameraTypes
<1>17. CASE PowerCut
  BY <1>17 DEF PowerCut, Masks, TimelapseInv, Types, CameraTypes
<1> QED
  BY <1>1, <1>2, <1>3, <1>4, <1>5, <1>6, <1>7, <1>8, <1>9, <1>10, <1>11, <1>12,
       <1>13, <1>14, <1>15, <1>16, <1>17, WorkerParts, CallerParts DEF Next,
       Shooting, Privacy, User

(* The generations, and what is left of the bounds.                        *)
LEMMA EpochsTyped ==
    ASSUME TimelapseInv, Next
    PROVE EpochTypes'
<1>1. CASE Worker
  BY <1>1, WorkerFrame DEF TimelapseInv, Types, EpochTypes
<1>2. CASE submit
  BY <1>2 DEF submit, storage, camera, history, TimelapseInv, Types, EpochTypes
<1>3. ASSUME NEW p \in Policies, submit_send(p) PROVE EpochTypes'
  BY <1>3 DEF submit_send, storage, epochs, camera, history, bounds, TimelapseInv,
       Types, EpochTypes
<1>4. CASE submit_times_out
  BY <1>4 DEF submit_times_out, settings, storage, epochs, camera, history, bounds,
       TimelapseInv, Types, EpochTypes
<1>5. CASE pause_claim
  BY <1>5 DEF pause_claim, settings, epochs, camera, history, TimelapseInv, Types,
       EpochTypes
<1>6. CASE pause_invalidate
  BY <1>6 DEF pause_invalidate, settings, storage, camera, history, bounds,
       TimelapseInv, Types, EpochTypes
<1>7. CASE poll_pause
  BY <1>7 DEF poll_pause, settings, storage, epochs, camera, history, bounds,
       TimelapseInv, Types, EpochTypes
<1>8. CASE pause_ends
  BY <1>8 DEF pause_ends, settings, epochs, camera, history, bounds, TimelapseInv,
       Types, EpochTypes
<1>9. CASE pause_forgotten
  BY <1>9 DEF pause_forgotten, settings, storage, epochs, camera, history, bounds,
       TimelapseInv, Types, EpochTypes
<1>10. ASSUME NEW m \in {"off", "on"}, set_privacy(m) PROVE EpochTypes'
  BY <1>10 DEF set_privacy, settings, storage, camera, history, TimelapseInv, Types,
       EpochTypes
<1>11. CASE privacy_command
  BY <1>11 DEF privacy_command, settings, storage, epochs, bounds, TimelapseInv,
       Types, EpochTypes
<1>12. CASE privacy_readback
  BY <1>12 DEF privacy_readback, settings, storage, epochs, camera, history, bounds,
       TimelapseInv, Types, EpochTypes
<1>13. CASE live_control
  BY <1>13 DEF live_control, settings, storage, camera, history, TimelapseInv, Types,
       EpochTypes
<1>14. ASSUME NEW f \in Fields, NEW v \in BOOLEAN, set_output(f, v) PROVE EpochTypes'
  BY <1>14 DEF set_output, settings, storage, epochs, bounds, TimelapseInv, Types,
       EpochTypes
<1>15. CASE PowerCut
  BY <1>15 DEF PowerCut, TimelapseInv, Types, EpochTypes
<1> QED
  BY <1>1, <1>2, <1>3, <1>4, <1>5, <1>6, <1>7, <1>8, <1>9, <1>10, <1>11, <1>12,
       <1>13, <1>14, <1>15, CallerParts DEF Next, Saver, Pauser, Privacy, User

(***************************************************************************)
(* The worker's steps by what they make of its locals.                     *)
(***************************************************************************)

(* A step that goes to a point, or fails to it, does just that.            *)
LEMMA GoingOn ==
    ASSUME worker \in Workers, NEW pc \in Points
    PROVE (worker' = Goto(pc) => Moves(pc)) /\ (worker' = Fail(pc) => Fails(pc))
BY Going, Failing DEF Moves, Fails

(* A fence that fails ends the capture where it is.                        *)
LEMMA FailingFence ==
    ASSUME worker \in Workers, FenceFails
    PROVE \/ worker.pc \in {"lease", "apply", "begin"} /\ Fails("cleanup")
          \/ worker.pc = "shoot" /\ Fails("restore")
          \/ worker.pc \notin {"lease", "apply", "begin", "shoot"} /\ Fails("discard")
BY PointsAre, GoingOn DEF FenceFails

(* One that passes leaves everything else.                                 *)
Passes(to) ==
    /\ worker' \in Workers /\ worker'.pc = worker.pc /\ worker'.fence = to
    /\ Alike(worker', worker) /\ worker'.failed = worker.failed

(* A fence passes to its next point.                                       *)
LEMMA PassingFence ==
    ASSUME worker \in Workers, NEW to \in {"before", "read", "after", "passed"},
           FencePasses(to)
    PROVE Passes(to)
BY DEF FencePasses, Workers, Passes, Alike

(* A save moves the worker.                                                *)
LEMMA SavingSteps ==
    ASSUME worker \in Workers, SettingTypes
    PROVE /\ load => At("load") /\ Moves("receive")
          /\ receive => /\ At("receive")
                        /\ \/ queue = None /\ Moves("gate") /\ queue' = queue
                           \/ /\ queue # None /\ queue' = None
                              /\ Moves("persist") \/ Moves("answer")
          /\ persist => At("persist") /\ Moves("answer")
          /\ answer => At("answer") /\ Moves("gate")
<1>1. \A pc \in Points : (worker' = Goto(pc) => Moves(pc)) /\ (worker' = Fail(pc) => Fails(pc))
  BY GoingOn
<1>2. /\ load => At("load") /\ Moves("receive")
      /\ persist => At("persist") /\ Moves("answer")
      /\ answer => At("answer") /\ Moves("gate")
  BY <1>1, PointsAre DEF load, persist, answer
<1>3. ASSUME NEW p \in Policies, worker' = [Goto("persist") EXCEPT !.update = p]
      PROVE Moves("persist")
  <2>1. Stands(Goto("persist"), "persist") /\ Alike(Goto("persist"), worker)
        /\ Goto("persist").failed = worker.failed
    BY Going, PointsAre
  <2> QED
    BY <2>1, <1>3 DEF Stands, Alike, Workers, Moves
<1>4. receive => /\ At("receive")
                 /\ \/ queue = None /\ Moves("gate") /\ queue' = queue
                    \/ /\ queue # None /\ queue' = None
                       /\ Moves("persist") \/ Moves("answer")
  BY <1>1, <1>3, PointsAre DEF receive, SettingTypes
<1> QED
  BY <1>2, <1>4

(* A capture, a retry or a retention begins anew, with nothing borrowed.   *)
LEMMA Beginning ==
    ASSUME EpochTypes
    PROVE /\ \A p \in Policies \cup {Default} :
               worker' = [Idle EXCEPT !.pc = "epoch", !.policy = p] => Begins("epoch", "capture")
          /\ worker' = [Idle EXCEPT !.pc = "receive"] => Begins("receive", "capture")
          /\ worker' = [Idle EXCEPT !.pc = "begin", !.purpose = "retry"] =>
               Begins("begin", "retry")
          /\ worker' = [Idle EXCEPT !.pc = "begin", !.purpose = "retention", !.epoch = Epoch] =>
               Begins("begin", "retention")
<1>1. Epoch \in Nat \X Nat \X Nat /\ Epoch[2] = ha_privacy_generation
  BY DEF Epoch, EpochTypes
<1>2. <<0, 0, 0>>[2] <= ha_privacy_generation /\ <<0, 0>>[1] = 0
  BY DEF EpochTypes
<1>3. ASSUME NEW p \in Policies \cup {Default},
             worker' = [Idle EXCEPT !.pc = "epoch", !.policy = p]
      PROVE Begins("epoch", "capture")
  BY <1>2, <1>3, PointsAre DEF Idle, Begins, Workers, Outputs
<1>4. ASSUME worker' = [Idle EXCEPT !.pc = "receive"]
      PROVE Begins("receive", "capture")
  BY <1>2, <1>4, Idling, PointsAre DEF Begins, Workers
<1>5. ASSUME worker' = [Idle EXCEPT !.pc = "begin", !.purpose = "retry"]
      PROVE Begins("begin", "retry")
  BY <1>2, <1>5, PointsAre DEF Idle, Begins, Workers, Outputs
<1>6. ASSUME NEW e \in Nat \X Nat \X Nat, e[2] = ha_privacy_generation,
             worker' = [Idle EXCEPT !.pc = "begin", !.purpose = "retention", !.epoch = e]
      PROVE Begins("begin", "retention")
  <2>1. worker' \in Workers
    BY <1>6, Idling, PointsAre DEF Workers
  <2>2. /\ worker'.pc = "begin" /\ worker'.fence = "passed" /\ worker'.purpose = "retention"
        /\ worker'.epoch = e /\ worker'.changed = {} /\ worker'.lease = <<0, 0>>
        /\ ~worker'.shot
    BY <1>6 DEF Idle
  <2>3. worker'.epoch[2] <= ha_privacy_generation
    BY <1>6, <2>2 DEF EpochTypes
  <2> QED
    BY <1>2, <2>1, <2>2, <2>3 DEF Begins
<1> QED
  BY <1>1, <1>3, <1>4, <1>5, <1>6

(* The fences.                                                             *)
FenceLost == \/ worker.pc \in {"lease", "apply", "begin"} /\ Fails("cleanup")
             \/ worker.pc = "shoot" /\ Fails("restore")
             \/ worker.pc \notin {"lease", "apply", "begin", "shoot"} /\ Fails("discard")

(* What the three accesses of a fence make of the worker.                  *)
LEMMA FenceSteps ==
    ASSUME worker \in Workers
    PROVE /\ fence_before => worker.fence = "before" /\ (Passes("read") \/ FenceLost)
          /\ fence_read => /\ worker.fence = "read"
                           /\ (mask = "off" /\ Passes("after")) \/ FenceLost
          /\ fence_after => /\ worker.fence = "after"
                            /\ (Unchanged /\ Passes("passed")) \/ FenceLost
<1>1. \A x \in {"before", "read", "after", "passed"} : FencePasses(x) => Passes(x)
  BY PassingFence
<1>2. FenceFails => FenceLost
  BY FailingFence DEF FenceLost
<1> QED
  BY <1>1, <1>2 DEF fence_before, fence_read, fence_after

(* The capture takes its epoch, and looks before it borrows.               *)
Remembers ==
    /\ Stands(worker', "lease") /\ worker'.epoch = Epoch
    /\ worker'.shot = worker.shot /\ worker'.changed = worker.changed
    /\ worker'.lease = worker.lease /\ worker'.original = worker.original
Leases ==
    /\ Stands(worker', "lease_check") /\ worker'.original = outputs
    /\ worker'.lease = <<timelapse_user_generation, ha_privacy_generation>>
    /\ worker'.changed = worker.changed /\ worker'.shot = worker.shot
    /\ worker'.epoch = worker.epoch

(* What the steps up to the lease make of it.                              *)
LEMMA CaptureSteps ==
    ASSUME worker \in Workers, Types
    PROVE /\ gate => At("gate") /\ (Begins("epoch", "capture") \/ Moves("cleanup"))
          /\ capture => At("epoch") /\ Remembers
          /\ lease_read => At("lease") /\ (Moves("apply") \/ Leases \/ Fails("cleanup"))
          /\ lease_check => At("lease_check") /\ (Moves("apply") \/ Fails("cleanup"))
          /\ applied => At("apply") /\ Moves("shoot")
          /\ cleanup => \/ Begins("receive", "capture") \/ Begins("begin", "retry")
                        \/ Begins("begin", "retention")
<1>1. \A pc \in Points : (worker' = Goto(pc) => Moves(pc)) /\ (worker' = Fail(pc) => Fails(pc))
  BY GoingOn
<1>2. gate => At("gate") /\ (Begins("epoch", "capture") \/ Moves("cleanup"))
  BY <1>1, Beginning, PointsAre DEF gate, Types, SettingTypes
<1>3. ASSUME capture PROVE Remembers
  <2>1. Stands(Goto("lease"), "lease") /\ Alike(Goto("lease"), worker)
    BY Going, PointsAre
  <2>2. worker' = [Goto("lease") EXCEPT !.epoch = Epoch] /\ Epoch \in Nat \X Nat \X Nat
    BY <1>3 DEF capture, Epoch, Types, EpochTypes
  <2> QED
    BY <2>1, <2>2 DEF Stands, Alike, Workers, Remembers
<1>4. ASSUME worker' = [Goto("lease_check") EXCEPT
                          !.lease = <<timelapse_user_generation, ha_privacy_generation>>,
                          !.original = outputs]
      PROVE Leases
  <2>1. Stands(Goto("lease_check"), "lease_check") /\ Alike(Goto("lease_check"), worker)
    BY Going, PointsAre
  <2>2. /\ <<timelapse_user_generation, ha_privacy_generation>> \in Nat \X Nat
        /\ outputs \in Outputs
    BY DEF Types, EpochTypes, CameraTypes
  <2> QED
    BY <2>1, <2>2, <1>4 DEF Stands, Alike, Workers, Leases
<1>5. lease_read => At("lease") /\ (Moves("apply") \/ Leases \/ Fails("cleanup"))
  BY <1>1, <1>4, PointsAre DEF lease_read
<1>6. /\ lease_check => At("lease_check") /\ (Moves("apply") \/ Fails("cleanup"))
      /\ applied => At("apply") /\ Moves("shoot")
  BY <1>1, PointsAre DEF lease_check, applied
<1>7. cleanup => \/ Begins("receive", "capture") \/ Begins("begin", "retry")
                 \/ Begins("begin", "retention")
  BY Beginning DEF cleanup, Types
<1> QED
  BY <1>2, <1>3, <1>5, <1>6, <1>7 DEF capture

(* Outputs are borrowed, the picture is taken, outputs are given back.     *)
Borrows(S) ==
    /\ worker' \in Workers /\ worker'.pc = worker.pc /\ worker'.fence = worker.fence
    /\ worker'.changed = S /\ worker'.lease = worker.lease
    /\ worker'.original = worker.original /\ worker'.failed = worker.failed
    /\ worker'.shot = worker.shot /\ worker'.epoch = worker.epoch
FailsWith(pc, S) ==
    /\ Stands(worker', pc) /\ worker'.failed /\ worker'.changed = S
    /\ worker'.lease = worker.lease /\ worker'.original = worker.original
    /\ worker'.shot = worker.shot /\ worker'.epoch = worker.epoch
Shoots ==
    /\ Stands(worker', "restore") /\ worker'.shot
    /\ worker'.changed = worker.changed /\ worker'.lease = worker.lease
    /\ worker'.original = worker.original /\ worker'.epoch = worker.epoch

(* What the picture makes of it.                                           *)
LEMMA ShootingSteps ==
    ASSUME worker \in Workers
    PROVE /\ \A f \in Fields : apply(f) =>
               /\ At("apply")
               /\ \/ Borrows(worker.changed \cup {f}) \/ Fails("restore")
                  \/ FailsWith("restore", worker.changed \cup {f})
          /\ shoot => /\ At("shoot")
                      /\ \/ Shoots /\ (exposed' <=> mask # "off")
                         \/ Fails("restore") /\ exposed' = exposed
          /\ \A f \in Fields : restore(f) =>
               At("restore") /\ (Borrows(worker.changed \ {f}) \/ FailsWith("cleanup", {}))
          /\ given_back => /\ At("restore") /\ worker.changed = {}
                           /\ \/ worker.failed /\ Moves("cleanup")
                              \/ ~worker.failed /\ Moves("begin")
<1>1. \A pc \in Points : (worker' = Goto(pc) => Moves(pc)) /\ (worker' = Fail(pc) => Fails(pc))
  BY GoingOn
<1>2. ASSUME NEW S \in SUBSET Fields, worker' = [worker EXCEPT !.changed = S]
      PROVE Borrows(S)
  BY <1>2 DEF Workers, Borrows
<1>3. ASSUME NEW pc \in {"restore", "cleanup"}, NEW S \in SUBSET Fields,
             worker' = [Fail(pc) EXCEPT !.changed = S]
      PROVE FailsWith(pc, S)
  <2>1. Stands(Fail(pc), pc) /\ Alike(Fail(pc), worker) /\ Fail(pc).failed
    BY Failing, PointsAre
  <2> QED
    BY <2>1, <1>3 DEF Stands, Alike, Workers, FailsWith
<1>4. ASSUME worker' = [Goto("restore") EXCEPT !.shot = TRUE] PROVE Shoots
  <2>1. Stands(Goto("restore"), "restore") /\ Alike(Goto("restore"), worker)
    BY Going, PointsAre
  <2> QED
    BY <2>1, <1>4 DEF Stands, Alike, Workers, Shoots
<1>5. worker.changed \in SUBSET Fields
  BY DEF Workers
<1>6. ASSUME NEW f \in Fields, apply(f)
      PROVE /\ At("apply")
            /\ \/ Borrows(worker.changed \cup {f}) \/ Fails("restore")
               \/ FailsWith("restore", worker.changed \cup {f})
  <2>1. Fail("restore").changed = worker.changed
    BY Failing, PointsAre DEF Alike
  <2>2. /\ At("apply")
        /\ \/ worker' = [worker EXCEPT !.changed = @ \cup {f}] \/ worker' = Fail("restore")
           \/ worker' = [Fail("restore") EXCEPT !.changed = @ \cup {f}]
    BY <1>6 DEF apply
  <2> QED
    BY <2>1, <2>2, <1>1, <1>2, <1>3, <1>5, PointsAre
<1>7. ASSUME shoot
      PROVE /\ At("shoot")
            /\ \/ Shoots /\ (exposed' <=> mask # "off")
               \/ Fails("restore") /\ exposed' = exposed
  <2>1. CASE worker' = [Goto("restore") EXCEPT !.shot = TRUE] /\ exposed' = (mask # "off")
    <3>1. exposed' <=> mask # "off"
      BY <2>1
    <3> QED
      BY <2>1, <3>1, <1>4, <1>7 DEF shoot
  <2>2. CASE worker' = Fail("restore") /\ exposed' = exposed
    BY <2>2, <1>1, <1>7, PointsAre DEF shoot
  <2> QED
    BY <1>7, <2>1, <2>2, Zenon DEF shoot
<1>8. ASSUME NEW f \in Fields, restore(f)
      PROVE At("restore") /\ (Borrows(worker.changed \ {f}) \/ FailsWith("cleanup", {}))
  BY <1>8, <1>2, <1>3, <1>5 DEF restore
<1>9. given_back => /\ At("restore") /\ worker.changed = {}
                    /\ \/ worker.failed /\ Moves("cleanup")
                       \/ ~worker.failed /\ Moves("begin")
  BY <1>1, PointsAre DEF given_back
<1> QED
  BY <1>6, <1>7, <1>8, <1>9

(* The activity is claimed between two looks at maintenance.               *)
LEMMA ClaimingSteps ==
    ASSUME worker \in Workers
    PROVE /\ begin_storage => /\ At("begin")
                              /\ Moves("claim") \/ Fails("cleanup") \/ Fails("receive")
          /\ claim => At("claim") /\ Moves("recheck") /\ storage_active' = TRUE
          /\ recheck =>
               /\ At("recheck")
               /\ \/ /\ maintenance /\ storage_active' = FALSE
                     /\ Fails("cleanup") \/ Fails("receive")
                  \/ /\ ~maintenance /\ storage_active' = storage_active
                     /\ \/ worker.purpose = "capture" /\ Moves("name")
                        \/ Moves("take") \/ Moves("sweep")
          /\ release => /\ At("release") /\ storage_active' = FALSE
                        /\ Moves("cleanup") \/ Moves("receive")
<1>1. \A pc \in Points : (worker' = Goto(pc) => Moves(pc)) /\ (worker' = Fail(pc) => Fails(pc))
  BY GoingOn
<1>2. worker' = Refused => Fails("cleanup") \/ Fails("receive")
  BY <1>1, PointsAre DEF Refused
<1>3. begin_storage => /\ At("begin")
                       /\ Moves("claim") \/ Fails("cleanup") \/ Fails("receive")
  BY <1>1, <1>2, PointsAre DEF begin_storage
<1>4. claim => At("claim") /\ Moves("recheck") /\ storage_active' = TRUE
  BY <1>1, PointsAre DEF claim
<1>5. ASSUME recheck
      PROVE /\ At("recheck")
            /\ \/ /\ maintenance /\ storage_active' = FALSE
                  /\ Fails("cleanup") \/ Fails("receive")
               \/ /\ ~maintenance /\ storage_active' = storage_active
                  /\ \/ worker.purpose = "capture" /\ Moves("name")
                     \/ Moves("take") \/ Moves("sweep")
  <2>1. CASE maintenance
    BY <2>1, <1>5, <1>2 DEF recheck
  <2>2. CASE ~maintenance
    <3>1. worker.purpose \in {"capture", "retry", "retention"}
      BY DEF Workers
    <3>2. \/ worker.purpose = "capture" /\ worker' = Goto("name")
          \/ worker' = Goto("take") \/ worker' = Goto("sweep")
      BY <2>2, <3>1, <1>5 DEF recheck
    <3> QED
      BY <2>2, <3>2, <1>1, <1>5, PointsAre DEF recheck
  <2> QED
    BY <2>1, <2>2
<1>6. release => /\ At("release") /\ storage_active' = FALSE
                 /\ Moves("cleanup") \/ Moves("receive")
  BY <1>1, PointsAre DEF release
<1> QED
  BY <1>3, <1>4, <1>5, <1>6

(* An image is taken up, and let go with its frame.                        *)
Takes(pc, i) ==
    /\ Stands(worker', pc) /\ worker'.image = i
    /\ worker'.shot = worker.shot /\ worker'.epoch = worker.epoch
    /\ worker'.changed = worker.changed /\ worker'.lease = worker.lease
    /\ worker'.original = worker.original
LetsGo(pc) ==
    /\ Stands(worker', pc) /\ ~worker'.shot /\ worker'.epoch = worker.epoch
    /\ worker'.changed = worker.changed /\ worker'.lease = worker.lease
    /\ worker'.original = worker.original

(* What the way of an image makes of it.                                   *)
LEMMA FilingSteps ==
    ASSUME worker \in Workers, StorageTypes
    PROVE /\ name => /\ At("name")
                     /\ \/ /\ Moves("stage") /\ publishing_name' \in Images
                           /\ card[publishing_name'] = {}
                        \/ Fails("release") /\ publishing_name' = publishing_name
          /\ stage => /\ At("stage")
                      /\ \/ /\ Put(publishing_name, "pending")
                            /\ \/ Takes("before_publish", publishing_name)
                               \/ Takes("discard", publishing_name)
                         \/ Fails("drop_name") /\ card' = card
          /\ before_publish => At("before_publish") /\ Moves("verify")
          /\ verify_mount => \/ At("verify") /\ (Moves("publish") \/ Fails("discard"))
                             \/ At("reverify") /\ (Moves("complete") \/ Fails("discard"))
          /\ publish => /\ At("publish") /\ (Moves("mark") \/ Fails("discard"))
                        /\ Put(worker.image, "jpg") \/ card' = card
          /\ mark => /\ At("mark") /\ (Moves("reverify") \/ Fails("discard"))
                     /\ Put(worker.image, "owned") \/ card' = card
          /\ complete => /\ At("complete")
                         /\ \/ LetsGo("drop_name") /\ Remove(worker.image, "pending")
                            \/ Fails("discard") /\ card' = card
<1>1. \A pc \in Points : (worker' = Goto(pc) => Moves(pc)) /\ (worker' = Fail(pc) => Fails(pc))
  BY GoingOn
<1>2. name => /\ At("name")
              /\ \/ /\ Moves("stage") /\ publishing_name' \in Images
                    /\ card[publishing_name'] = {}
                 \/ Fails("release") /\ publishing_name' = publishing_name
  BY <1>1, PointsAre DEF name
<1>3. ASSUME stage
      PROVE /\ At("stage")
            /\ \/ /\ Put(publishing_name, "pending")
                  /\ \/ Takes("before_publish", publishing_name)
                     \/ Takes("discard", publishing_name)
               \/ Fails("drop_name") /\ card' = card
  <2>1. \A pc \in Points : Stands(Goto(pc), pc) /\ Alike(Goto(pc), worker)
    BY Going
  <2>2. publishing_name \in Images \cup {None}
    BY DEF StorageTypes
  <2>3. ASSUME worker' = [Goto("before_publish") EXCEPT !.image = publishing_name]
        PROVE Takes("before_publish", publishing_name)
    <3>1. /\ Stands(Goto("before_publish"), "before_publish")
          /\ Alike(Goto("before_publish"), worker)
      BY <2>1, PointsAre
    <3> QED
      BY <2>2, <2>3, <3>1 DEF Stands, Alike, Workers, Takes
  <2>4. ASSUME worker' = [[Goto("discard") EXCEPT !.image = publishing_name]
                            EXCEPT !.failed = TRUE]
        PROVE Takes("discard", publishing_name)
    <3>1. Stands(Goto("discard"), "discard") /\ Alike(Goto("discard"), worker)
      BY <2>1, PointsAre
    <3> QED
      BY <2>2, <2>4, <3>1 DEF Stands, Alike, Workers, Takes
  <2>5. \/ /\ Put(publishing_name, "pending")
           /\ \/ worker' = [Goto("before_publish") EXCEPT !.image = publishing_name]
              \/ worker' = [[Goto("discard") EXCEPT !.image = publishing_name]
                              EXCEPT !.failed = TRUE]
        \/ worker' = Fail("drop_name") /\ card' = card
    BY <1>3 DEF stage
  <2> QED
    BY <1>1, <1>3, <2>3, <2>4, <2>5, PointsAre DEF stage
<1>4. /\ before_publish => At("before_publish") /\ Moves("verify")
      /\ verify_mount => \/ At("verify") /\ (Moves("publish") \/ Fails("discard"))
                         \/ At("reverify") /\ (Moves("complete") \/ Fails("discard"))
  BY <1>1, PointsAre DEF before_publish, verify_mount, At
<1>5. /\ publish => /\ At("publish") /\ (Moves("mark") \/ Fails("discard"))
                    /\ Put(worker.image, "jpg") \/ card' = card
      /\ mark => /\ At("mark") /\ (Moves("reverify") \/ Fails("discard"))
                 /\ Put(worker.image, "owned") \/ card' = card
  BY <1>1, PointsAre DEF publish, mark
<1>6. ASSUME worker' = [Goto("drop_name") EXCEPT !.image = None, !.shot = FALSE]
      PROVE LetsGo("drop_name")
  <2>1. Stands(Goto("drop_name"), "drop_name") /\ Alike(Goto("drop_name"), worker)
    BY Going, PointsAre
  <2> QED
    BY <1>6, <2>1 DEF Stands, Alike, Workers, LetsGo
<1>7. complete => /\ At("complete")
                  /\ \/ LetsGo("drop_name") /\ Remove(worker.image, "pending")
                     \/ Fails("discard") /\ card' = card
  BY <1>1, <1>6, PointsAre DEF complete
<1> QED
  BY <1>2, <1>3, <1>4, <1>5, <1>7

(* A discard, and the card's upkeep.                                       *)
LEMMA UpkeepSteps ==
    ASSUME worker \in Workers, StorageTypes
    PROVE /\ discard => /\ At("discard")
                        /\ \/ worker' = worker /\ Remove(worker.image, Doomed)
                           \/ /\ LetsGo("drop_name") \/ LetsGo("release")
                              /\ card' = card
          /\ drop_name => At("drop_name") /\ Moves("release")
          /\ take => At("take") /\ Takes("discard", quarantine)
          /\ retention => /\ At("sweep")
                          /\ \/ Moves("release") /\ card' = card
                             \/ \E i \in Images : /\ Owned(i) /\ Remove(i, "jpg")
                                                  /\ Takes("sweep_marker", i)
          /\ retention_marker => /\ At("sweep_marker")
                                 /\ Takes("sweep", None) \/ Takes("release", None)
                                 /\ Remove(worker.image, "owned") \/ card' = card
<1>1. \A pc \in Points : (worker' = Goto(pc) => Moves(pc)) /\ (worker' = Fail(pc) => Fails(pc))
  BY GoingOn
<1>2. ASSUME NEW pc \in {"drop_name", "release"},
             worker' = [Goto(pc) EXCEPT !.image = None, !.shot = FALSE]
      PROVE LetsGo(pc)
  <2>1. Stands(Goto(pc), pc) /\ Alike(Goto(pc), worker)
    BY Going, PointsAre
  <2> QED
    BY <1>2, <2>1 DEF Stands, Alike, Workers, LetsGo
<1>3. ASSUME NEW pc \in {"discard", "sweep_marker", "sweep", "release"},
             NEW i \in Images \cup {None}, worker' = [Goto(pc) EXCEPT !.image = i]
      PROVE Takes(pc, i)
  <2>1. Stands(Goto(pc), pc) /\ Alike(Goto(pc), worker)
    BY Going, PointsAre
  <2> QED
    BY <1>3, <2>1 DEF Stands, Alike, Workers, Takes
<1>4. worker' = Discarded => LetsGo("drop_name") \/ LetsGo("release")
  BY <1>2 DEF Discarded
<1>5. discard => /\ At("discard")
                 /\ \/ worker' = worker /\ Remove(worker.image, Doomed)
                    \/ (LetsGo("drop_name") \/ LetsGo("release")) /\ card' = card
  BY <1>4 DEF discard
<1>6. drop_name => At("drop_name") /\ Moves("release")
  BY <1>1, PointsAre DEF drop_name
<1>7. take => At("take") /\ Takes("discard", quarantine)
  BY <1>3 DEF take, StorageTypes
<1>8. retention => /\ At("sweep")
                   /\ \/ Moves("release") /\ card' = card
                      \/ \E i \in Images : /\ Owned(i) /\ Remove(i, "jpg")
                                           /\ Takes("sweep_marker", i)
  BY <1>1, <1>3, PointsAre DEF retention
<1>9. retention_marker => /\ At("sweep_marker")
                          /\ Takes("sweep", None) \/ Takes("release", None)
                          /\ Remove(worker.image, "owned") \/ card' = card
  BY <1>3 DEF retention_marker
<1> QED
  BY <1>5, <1>6, <1>7, <1>8, <1>9

(* The worker.                                                             *)
LEMMA WorkerTyped ==
    ASSUME TimelapseInv, Next
    PROVE worker' \in Workers
<1>1. worker \in Workers /\ Types /\ SettingTypes /\ StorageTypes
  BY DEF TimelapseInv, Types
<1>2. CASE Saving
  BY <1>1, <1>2, SavingSteps DEF Saving, Moves, Stands
<1>3. CASE Looking
  <2>1. CASE fence_before \/ fence_read
    BY <1>1, <2>1, FenceSteps DEF Passes, FenceLost, Fails, Stands
  <2>2. CASE gate \/ capture \/ lease_read \/ lease_check \/ applied \/ cleanup
    BY <1>1, <2>2, CaptureSteps DEF Moves, Fails, Begins, Remembers, Leases, Stands
  <2>3. CASE begin_storage
    BY <1>1, <2>3, ClaimingSteps DEF Moves, Fails, Stands
  <2>4. CASE before_publish \/ verify_mount
    BY <1>1, <2>4, FilingSteps DEF Moves, Fails, Stands
  <2> QED
    BY <1>3, <2>1, <2>2, <2>3, <2>4 DEF Looking
<1>4. CASE fence_after
  BY <1>1, <1>4, FenceSteps DEF Passes, FenceLost, Fails, Stands
<1>5. CASE Shooting
  BY <1>1, <1>5, ShootingSteps DEF Shooting, Moves, Fails, Borrows, FailsWith, Shoots, Stands
<1>6. CASE Claiming
  BY <1>1, <1>6, ClaimingSteps DEF Claiming, Moves, Fails, Stands
<1>7. CASE Filing
  <2>1. CASE name \/ stage \/ publish \/ mark \/ complete
    BY <1>1, <2>1, FilingSteps DEF Moves, Fails, Takes, LetsGo, Stands
  <2>2. CASE discard \/ drop_name \/ take \/ retention \/ retention_marker
    BY <1>1, <2>2, UpkeepSteps DEF Moves, Takes, LetsGo, Stands
  <2> QED
    BY <1>7, <2>1, <2>2 DEF Filing
<1>8. CASE Callers
  BY <1>1, <1>8, CallersFrame
<1>9. CASE PowerCut
  BY <1>9, Idling DEF PowerCut
<1> QED
  BY <1>2, <1>3, <1>4, <1>5, <1>6, <1>7, <1>8, <1>9, WorkerParts DEF Next

(* Every variable keeps its type.                                          *)
LEMMA TypesKept ==
    ASSUME TimelapseInv, Next
    PROVE Types'
BY WorkerTyped, SettingsTyped, StorageTyped, CallersTyped, CameraTyped, EpochsTyped DEF Types

(***************************************************************************)
(* The callers' invariants.                                                *)
(***************************************************************************)

(* What a poll of the pause finds.                                         *)
LEMMA Polling ==
    ASSUME poll_pause
    PROVE /\ pauser \in Pausing
          /\ \/ pauser = "active" /\ ~storage_active /\ pauser' = "name"
             \/ pauser = "name" /\ publishing_name = None /\ pauser' = "image"
             \/ pauser = "image" /\ quarantine = None /\ pauser' = "held"
             \/ pauser' = "active"
<1>1. pauser \in {"active", "name", "image"}
  BY DEF poll_pause, Pausing
<1> QED
  BY <1>1 DEF poll_pause, Pausing

(* A generation is raised where its bound is lowered.                      *)
LEMMA CountsKept ==
    ASSUME TimelapseInv, Next
    PROVE GenerationsCount'
<1>1. CASE Worker
  BY <1>1, WorkerFrame, Limits DEF TimelapseInv, Types, EpochTypes, GenerationsCount
<1>2. CASE submit
  BY <1>2, Limits DEF submit, storage, camera, history, TimelapseInv, Types,
       EpochTypes, GenerationsCount
<1>3. ASSUME NEW p \in Policies, submit_send(p) PROVE GenerationsCount'
  BY <1>3, Limits DEF submit_send, storage, epochs, camera, history, bounds,
       TimelapseInv, Types, EpochTypes, GenerationsCount
<1>4. CASE submit_times_out
  BY <1>4, Limits DEF submit_times_out, settings, storage, epochs, camera, history,
       bounds, TimelapseInv, Types, EpochTypes, GenerationsCount
<1>5. CASE pause_claim
  BY <1>5, Limits DEF pause_claim, settings, epochs, camera, history, TimelapseInv,
       Types, EpochTypes, GenerationsCount
<1>6. CASE pause_invalidate
  BY <1>6, Limits DEF pause_invalidate, settings, storage, camera, history, bounds,
       TimelapseInv, Types, EpochTypes, GenerationsCount
<1>7. CASE poll_pause
  BY <1>7, Limits DEF poll_pause, settings, storage, epochs, camera, history, bounds,
       TimelapseInv, Types, EpochTypes, GenerationsCount
<1>8. CASE pause_ends
  BY <1>8, Limits DEF pause_ends, settings, epochs, camera, history, bounds,
       TimelapseInv, Types, EpochTypes, GenerationsCount
<1>9. CASE pause_forgotten
  BY <1>9, Limits DEF pause_forgotten, settings, storage, epochs, camera, history,
       bounds, TimelapseInv, Types, EpochTypes, GenerationsCount
<1>10. ASSUME NEW m \in {"off", "on"}, set_privacy(m) PROVE GenerationsCount'
  BY <1>10, Limits DEF set_privacy, settings, storage, camera, history, TimelapseInv,
       Types, EpochTypes, GenerationsCount
<1>11. CASE privacy_command
  BY <1>11, Limits DEF privacy_command, settings, storage, epochs, bounds,
       TimelapseInv, Types, EpochTypes, GenerationsCount
<1>12. CASE privacy_readback
  BY <1>12, Limits DEF privacy_readback, settings, storage, epochs, camera, history,
       bounds, TimelapseInv, Types, EpochTypes, GenerationsCount
<1>13. CASE live_control
  BY <1>13, Limits DEF live_control, settings, storage, camera, history,
       TimelapseInv, Types, EpochTypes, GenerationsCount
<1>14. ASSUME NEW f \in Fields, NEW v \in BOOLEAN, set_output(f, v) PROVE GenerationsCount'
  BY <1>14, Limits DEF set_output, settings, storage, epochs, bounds, TimelapseInv,
       Types, EpochTypes, GenerationsCount
<1>15. CASE PowerCut
  BY <1>15, Limits DEF PowerCut, TimelapseInv, Types, EpochTypes, GenerationsCount
<1> QED
  BY <1>1, <1>2, <1>3, <1>4, <1>5, <1>6, <1>7, <1>8, <1>9, <1>10, <1>11, <1>12,
       <1>13, <1>14, <1>15, CallerParts DEF Next, Saver, Pauser, Privacy, User

(* A lock is taken by its holder.                                          *)
LEMMA LockKept ==
    ASSUME TimelapseInv, Next
    PROVE LockIsTheirs'
<1>1. CASE Worker
  BY <1>1, WorkerFrame, Names DEF TimelapseInv, Types, CallerTypes, LockIsTheirs
<1>2. CASE Saver
  BY <1>2, SaverFrame, Names DEF TimelapseInv, Types, CallerTypes, LockIsTheirs
<1>3. CASE pause_claim
  BY <1>3, Names DEF pause_claim, settings, epochs, camera, history, TimelapseInv,
       Types, CallerTypes, LockIsTheirs
<1>4. CASE pause_invalidate
  BY <1>4, Names DEF pause_invalidate, settings, storage, camera, history, bounds,
       TimelapseInv, Types, CallerTypes, LockIsTheirs
<1>5. CASE poll_pause
  BY <1>5, Names, Polling, PauserFrame DEF poll_pause, settings, storage, epochs,
       camera, history, bounds, Pausing, TimelapseInv, Types, CallerTypes,
       LockIsTheirs
<1>6. CASE pause_ends
  BY <1>6, Names DEF pause_ends, settings, epochs, camera, history, bounds,
       TimelapseInv, Types, CallerTypes, LockIsTheirs
<1>7. CASE pause_forgotten
  BY <1>7, Names DEF pause_forgotten, settings, storage, epochs, camera, history,
       bounds, TimelapseInv, Types, CallerTypes, LockIsTheirs
<1>8. ASSUME NEW m \in {"off", "on"}, set_privacy(m) PROVE LockIsTheirs'
  BY <1>8, Names DEF set_privacy, settings, storage, camera, history, TimelapseInv,
       Types, CallerTypes, LockIsTheirs
<1>9. CASE privacy_command
  BY <1>9, Names DEF privacy_command, settings, storage, epochs, bounds,
       TimelapseInv, Types, CallerTypes, LockIsTheirs
<1>10. CASE privacy_readback
  BY <1>10, Names DEF privacy_readback, settings, storage, epochs, camera, history,
       bounds, TimelapseInv, Types, CallerTypes, LockIsTheirs
<1>11. CASE live_control
  BY <1>11, Names DEF live_control, settings, storage, camera, history, TimelapseInv,
       Types, CallerTypes, LockIsTheirs
<1>12. ASSUME NEW f \in Fields, NEW v \in BOOLEAN, set_output(f, v) PROVE LockIsTheirs'
  BY <1>12, Names DEF set_output, settings, storage, epochs, bounds, TimelapseInv,
       Types, CallerTypes, LockIsTheirs
<1>13. CASE PowerCut
  BY <1>13, Names DEF PowerCut, TimelapseInv, Types, CallerTypes, LockIsTheirs
<1> QED
  BY <1>1, <1>2, <1>3, <1>4, <1>5, <1>6, <1>7, <1>8, <1>9, <1>10, <1>11, <1>12,
       <1>13, CallerParts DEF Next, Pauser, Privacy, User

(* The policy is known by the worker that has saved or read it.            *)
LEMMA KnownKept ==
    ASSUME TimelapseInv, Next
    PROVE KnownPolicyIsSaved'
<1>1. CASE load
  BY <1>1 DEF load, backend, storage, epochs, camera, history, callers, bounds,
       TimelapseInv, KnownPolicyIsSaved
<1>2. CASE receive
  BY <1>2 DEF receive, backend, storage, epochs, camera, history, callers, bounds,
       TimelapseInv, KnownPolicyIsSaved
<1>3. CASE persist
  BY <1>3 DEF persist, backend, storage, epochs, camera, history, callers, bounds,
       TimelapseInv, KnownPolicyIsSaved
<1>4. CASE answer
  BY <1>4 DEF answer, storage, epochs, camera, history, bounds, TimelapseInv,
       KnownPolicyIsSaved
<1>5. CASE Looking
  BY <1>5, LookingFrame DEF TimelapseInv, KnownPolicyIsSaved
<1>6. CASE fence_after
  BY <1>6, FenceFrame DEF TimelapseInv, KnownPolicyIsSaved
<1>7. CASE Shooting
  BY <1>7, ShootingFrame DEF TimelapseInv, KnownPolicyIsSaved
<1>8. CASE Claiming
  BY <1>8, ClaimingFrame DEF TimelapseInv, KnownPolicyIsSaved
<1>9. CASE Filing
  BY <1>9, FilingFrame DEF TimelapseInv, KnownPolicyIsSaved
<1>10. CASE Callers
  BY <1>10, CallersFrame DEF TimelapseInv, KnownPolicyIsSaved
<1>11. CASE PowerCut
  BY <1>11 DEF PowerCut, TimelapseInv, KnownPolicyIsSaved
<1> QED
  BY <1>1, <1>2, <1>3, <1>4, <1>5, <1>6, <1>7, <1>8, <1>9, <1>10, <1>11, WorkerParts
       DEF Next, Saving

(***************************************************************************)
(* The worker's invariants.                                                *)
(***************************************************************************)

(* A fence is before a fenced point only.                                  *)
LEMMA FencesKept ==
    ASSUME TimelapseInv, Next
    PROVE FencesAreThere'
<1>1. worker \in Workers /\ Types /\ SettingTypes /\ StorageTypes
  BY DEF TimelapseInv, Types
<1>2. CASE load \/ receive \/ persist \/ answer
  BY <1>2, <1>1, SavingSteps DEF Moves, Stands, Alike, At, TimelapseInv,
       FencesAreThere
<1>3. CASE gate \/ capture \/ lease_read \/ lease_check \/ applied \/ cleanup
  BY <1>3, <1>1, CaptureSteps DEF Begins, Moves, Remembers, Leases, Fails, Stands,
       Alike, At, TimelapseInv, FencesAreThere
<1>4. CASE fence_before \/ fence_read
  BY <1>4, <1>1, FenceSteps DEF Passes, FenceLost, Fails, Stands, Alike, At,
       TimelapseInv, FencesAreThere
<1>5. CASE begin_storage
  BY <1>5, <1>1, ClaimingSteps DEF Moves, Fails, Stands, Alike, At, TimelapseInv,
       FencesAreThere
<1>6. CASE before_publish \/ verify_mount
  BY <1>6, <1>1, FilingSteps DEF Moves, Fails, Stands, Alike, At, TimelapseInv,
       FencesAreThere
<1>7. CASE fence_after
  BY <1>7, <1>1, FenceSteps DEF Passes, FenceLost, Fails, Stands, Alike, At,
       TimelapseInv, FencesAreThere
<1>8. CASE shoot \/ given_back \/ (\E f \in Fields : apply(f)) \/ (\E f \in Fields :
     restore(f))
  BY <1>8, <1>1, ShootingSteps DEF Shoots, Fails, Moves, Borrows, FailsWith, Stands,
       Alike, At, TimelapseInv, FencesAreThere
<1>9. CASE claim \/ recheck \/ release
  BY <1>9, <1>1, ClaimingSteps DEF Moves, Fails, Stands, Alike, At, TimelapseInv,
       FencesAreThere
<1>10. CASE name \/ stage \/ publish \/ mark \/ complete
  BY <1>10, <1>1, FilingSteps DEF Moves, Fails, Takes, LetsGo, Stands, Alike, At,
       TimelapseInv, FencesAreThere
<1>11. CASE discard \/ drop_name \/ take \/ retention \/ retention_marker
  BY <1>11, <1>1, UpkeepSteps DEF LetsGo, Moves, Takes, Stands, Alike, At,
       TimelapseInv, FencesAreThere
<1>12. CASE Callers
  BY <1>12, CallersFrame DEF Stands, Alike, At, TimelapseInv, FencesAreThere
<1>13. CASE PowerCut
  BY <1>13, Idling DEF PowerCut, Stands, Alike, At, TimelapseInv, FencesAreThere
<1> QED
  BY <1>2, <1>3, <1>4, <1>5, <1>6, <1>7, <1>8, <1>9, <1>10, <1>11, <1>12, <1>13,
       WorkerParts DEF Next, Saving, Looking, Shooting, Claiming, Filing

(* A save is in one place.                                                 *)
LEMMA SaveIsOneKept ==
    ASSUME TimelapseInv, Next
    PROVE SaveIsOne'
<1>1. worker \in Workers /\ Types /\ SettingTypes /\ StorageTypes
  BY DEF TimelapseInv, Types
<1>2. CASE load
  BY <1>2, <1>1, SavingSteps DEF load, backend, storage, epochs, camera, history,
       callers, bounds, Moves, Stands, Alike, At, TimelapseInv, SaveIsOne,
       FencesAreThere, Answering
<1>3. CASE receive
  BY <1>3, <1>1, SavingSteps DEF receive, backend, storage, epochs, camera, history,
       callers, bounds, Moves, Stands, Alike, At, TimelapseInv, SaveIsOne,
       FencesAreThere, Answering
<1>4. CASE persist
  BY <1>4, <1>1, SavingSteps DEF persist, backend, storage, epochs, camera, history,
       callers, bounds, Moves, Stands, Alike, At, TimelapseInv, SaveIsOne,
       FencesAreThere, Answering
<1>5. CASE answer
  BY <1>5, <1>1, SavingSteps DEF answer, storage, epochs, camera, history, bounds,
       Moves, Types, CallerTypes, Stands, Alike, At, TimelapseInv, SaveIsOne,
       FencesAreThere, Answering
<1>6. CASE gate \/ capture \/ lease_read \/ lease_check \/ applied \/ cleanup
  BY <1>6, <1>1, CaptureSteps, LookingFrame DEF Begins, Moves, Remembers, Leases,
       Fails, Looking, Stands, Alike, At, TimelapseInv, SaveIsOne, FencesAreThere,
       Answering
<1>7. CASE fence_before \/ fence_read
  BY <1>7, <1>1, FenceSteps, LookingFrame DEF Passes, FenceLost, Fails, Looking,
       Fenced, Stands, Alike, At, TimelapseInv, SaveIsOne, FencesAreThere, Answering
<1>8. CASE begin_storage
  BY <1>8, <1>1, ClaimingSteps, LookingFrame DEF Moves, Fails, Looking, Stands,
       Alike, At, TimelapseInv, SaveIsOne, FencesAreThere, Answering
<1>9. CASE before_publish \/ verify_mount
  BY <1>9, <1>1, FilingSteps, LookingFrame DEF Moves, Fails, Looking, Stands, Alike,
       At, TimelapseInv, SaveIsOne, FencesAreThere, Answering
<1>10. CASE fence_after
  BY <1>10, <1>1, FenceSteps, FenceFrame DEF Passes, FenceLost, Fails, Fenced,
       Stands, Alike, At, TimelapseInv, SaveIsOne, FencesAreThere, Answering
<1>11. CASE shoot \/ given_back \/ (\E f \in Fields : apply(f)) \/ (\E f \in Fields :
     restore(f))
  BY <1>11, <1>1, ShootingSteps, ShootingFrame DEF Shoots, Fails, Moves, Borrows,
       FailsWith, Shooting, Stands, Alike, At, TimelapseInv, SaveIsOne,
       FencesAreThere, Answering
<1>12. CASE claim \/ recheck \/ release
  BY <1>12, <1>1, ClaimingSteps, ClaimingFrame DEF Moves, Fails, Claiming, Stands,
       Alike, At, TimelapseInv, SaveIsOne, FencesAreThere, Answering
<1>13. CASE name \/ stage \/ publish \/ mark \/ complete
  BY <1>13, <1>1, FilingSteps, FilingFrame DEF Moves, Fails, Takes, LetsGo, Filing,
       Stands, Alike, At, TimelapseInv, SaveIsOne, FencesAreThere, Answering
<1>14. CASE discard \/ drop_name \/ take \/ retention \/ retention_marker
  BY <1>14, <1>1, UpkeepSteps, FilingFrame DEF LetsGo, Moves, Takes, Filing, Stands,
       Alike, At, TimelapseInv, SaveIsOne, FencesAreThere, Answering
<1>15. CASE submit
  BY <1>15 DEF submit, storage, camera, history, Stands, Alike, At, TimelapseInv,
       SaveIsOne, FencesAreThere, Answering
<1>16. ASSUME NEW p \in Policies, submit_send(p) PROVE SaveIsOne'
  BY <1>16 DEF submit_send, storage, epochs, camera, history, bounds, Stands, Alike,
       At, TimelapseInv, SaveIsOne, FencesAreThere, Answering
<1>17. CASE submit_times_out
  BY <1>17 DEF submit_times_out, settings, storage, epochs, camera, history, bounds,
       Stands, Alike, At, TimelapseInv, SaveIsOne, FencesAreThere, Answering
<1>18. CASE Pauser
  BY <1>18, PauserFrame DEF Stands, Alike, At, TimelapseInv, SaveIsOne,
       FencesAreThere, Answering
<1>19. CASE Privacy
  BY <1>19, PrivacyFrame DEF Stands, Alike, At, TimelapseInv, SaveIsOne,
       FencesAreThere, Answering
<1>20. CASE User
  BY <1>20, UserFrame DEF Stands, Alike, At, TimelapseInv, SaveIsOne, FencesAreThere,
       Answering
<1>21. CASE PowerCut
  BY <1>21, Idling DEF PowerCut, Stands, Alike, At, TimelapseInv, SaveIsOne,
       FencesAreThere, Answering
<1> QED
  BY <1>2, <1>3, <1>4, <1>5, <1>6, <1>7, <1>8, <1>9, <1>10, <1>11, <1>12, <1>13,
       <1>14, <1>15, <1>16, <1>17, <1>18, <1>19, <1>20, <1>21, WorkerParts,
       CallerParts DEF Next, Saving, Looking, Shooting, Claiming, Filing, Saver

(* The card is worked on while it is claimed.                              *)
LEMMA ClaimKept ==
    ASSUME TimelapseInv, Next
    PROVE CardIsClaimed'
<1>1. worker \in Workers /\ Types /\ SettingTypes /\ StorageTypes
  BY DEF TimelapseInv, Types
<1>2. CASE load \/ receive \/ persist \/ answer
  BY <1>2, <1>1, SavingSteps, SavingFrame DEF Moves, Saving, Stands, Alike, At,
       TimelapseInv, CardIsClaimed, LockIsTheirs, Storing
<1>3. CASE gate \/ capture \/ lease_read \/ lease_check \/ applied \/ cleanup
  BY <1>3, <1>1, CaptureSteps, LookingFrame DEF Begins, Moves, Remembers, Leases,
       Fails, Looking, Stands, Alike, At, TimelapseInv, CardIsClaimed, LockIsTheirs,
       Storing
<1>4. CASE fence_before \/ fence_read
  BY <1>4, <1>1, FenceSteps, LookingFrame DEF Passes, FenceLost, Fails, Looking,
       FencesAreThere, Fenced, Stands, Alike, At, TimelapseInv, CardIsClaimed,
       LockIsTheirs, Storing
<1>5. CASE begin_storage
  BY <1>5, <1>1, ClaimingSteps, LookingFrame DEF Moves, Fails, Looking, Stands,
       Alike, At, TimelapseInv, CardIsClaimed, LockIsTheirs, Storing
<1>6. CASE before_publish \/ verify_mount
  BY <1>6, <1>1, FilingSteps, LookingFrame DEF Moves, Fails, Looking, Stands, Alike,
       At, TimelapseInv, CardIsClaimed, LockIsTheirs, Storing
<1>7. CASE fence_after
  BY <1>7, <1>1, FenceSteps, FenceFrame DEF Passes, FenceLost, Fails, FencesAreThere,
       Fenced, Stands, Alike, At, TimelapseInv, CardIsClaimed, LockIsTheirs, Storing
<1>8. CASE shoot \/ given_back \/ (\E f \in Fields : apply(f)) \/ (\E f \in Fields :
     restore(f))
  BY <1>8, <1>1, ShootingSteps, ShootingFrame DEF Shoots, Fails, Moves, Borrows,
       FailsWith, Shooting, Stands, Alike, At, TimelapseInv, CardIsClaimed,
       LockIsTheirs, Storing
<1>9. CASE claim \/ release
  BY <1>9, <1>1, ClaimingSteps, ClaimingFrame DEF Moves, Claiming, Stands, Alike, At,
       TimelapseInv, CardIsClaimed, LockIsTheirs, Storing
<1>10. CASE recheck
  BY <1>10, <1>1, ClaimingSteps, ClaimingFrame DEF Moves, Fails, Claiming, Stands,
       Alike, At, TimelapseInv, CardIsClaimed, LockIsTheirs, Storing
<1>11. CASE name \/ stage \/ publish \/ mark \/ complete
  BY <1>11, <1>1, FilingSteps, FilingFrame DEF Moves, Fails, Takes, LetsGo, Filing,
       Stands, Alike, At, TimelapseInv, CardIsClaimed, LockIsTheirs, Storing
<1>12. CASE discard
  BY <1>12, <1>1, UpkeepSteps DEF discard, backend, settings, epochs, camera,
       history, callers, bounds, LetsGo, Stands, Alike, At, TimelapseInv,
       CardIsClaimed, LockIsTheirs, Storing
<1>13. CASE drop_name \/ retention \/ retention_marker
  BY <1>13, <1>1, UpkeepSteps, FilingFrame DEF Moves, Takes, Filing, Stands, Alike,
       At, TimelapseInv, CardIsClaimed, LockIsTheirs, Storing
<1>14. CASE take
  BY <1>14, <1>1, UpkeepSteps DEF take, backend, settings, epochs, camera, history,
       callers, bounds, Takes, Stands, Alike, At, TimelapseInv, CardIsClaimed,
       LockIsTheirs, Storing
<1>15. CASE Saver
  BY <1>15, SaverFrame DEF Stands, Alike, At, TimelapseInv, CardIsClaimed,
       LockIsTheirs, Storing
<1>16. CASE pause_claim
  BY <1>16 DEF pause_claim, settings, epochs, camera, history, Stands, Alike, At,
       TimelapseInv, CardIsClaimed, LockIsTheirs, Storing
<1>17. CASE pause_invalidate
  BY <1>17 DEF pause_invalidate, settings, storage, camera, history, bounds, Stands,
       Alike, At, TimelapseInv, CardIsClaimed, LockIsTheirs, Storing
<1>18. CASE poll_pause
  BY <1>18, Polling, PauserFrame DEF poll_pause, settings, storage, epochs, camera,
       history, bounds, Stands, Alike, At, TimelapseInv, CardIsClaimed, LockIsTheirs,
       Storing
<1>19. CASE pause_ends
  BY <1>19 DEF pause_ends, settings, epochs, camera, history, bounds, Stands, Alike,
       At, TimelapseInv, CardIsClaimed, LockIsTheirs, Storing
<1>20. CASE pause_forgotten
  BY <1>20 DEF pause_forgotten, settings, storage, epochs, camera, history, bounds,
       Stands, Alike, At, TimelapseInv, CardIsClaimed, LockIsTheirs, Storing
<1>21. CASE Privacy
  BY <1>21, PrivacyFrame DEF Stands, Alike, At, TimelapseInv, CardIsClaimed,
       LockIsTheirs, Storing
<1>22. CASE User
  BY <1>22, UserFrame DEF Stands, Alike, At, TimelapseInv, CardIsClaimed,
       LockIsTheirs, Storing
<1>23. CASE PowerCut
  BY <1>23, Idling DEF PowerCut, Stands, Alike, At, TimelapseInv, CardIsClaimed,
       LockIsTheirs, Storing
<1> QED
  BY <1>2, <1>3, <1>4, <1>5, <1>6, <1>7, <1>8, <1>9, <1>10, <1>11, <1>12, <1>13,
       <1>14, <1>15, <1>16, <1>17, <1>18, <1>19, <1>20, <1>21, <1>22, <1>23,
       WorkerParts, CallerParts DEF Next, Saving, Looking, Shooting, Claiming,
       Filing, Pauser

(* A capture comes to the card with its frame.                             *)
LEMMA FrameKept ==
    ASSUME TimelapseInv, Next
    PROVE FrameIsThere'
<1>1. worker \in Workers /\ Types /\ SettingTypes /\ StorageTypes
  BY DEF TimelapseInv, Types
<1>2. CASE load \/ receive \/ persist \/ answer
  BY <1>2, <1>1, SavingSteps DEF Moves, Stands, Alike, At, TimelapseInv,
       FrameIsThere, Publishing
<1>3. CASE gate \/ capture \/ lease_read \/ lease_check \/ applied \/ cleanup
  BY <1>3, <1>1, CaptureSteps DEF Begins, Moves, Remembers, Leases, Fails, Stands,
       Alike, At, TimelapseInv, FrameIsThere, Publishing
<1>4. CASE fence_before \/ fence_read
  BY <1>4, <1>1, FenceSteps DEF Passes, FenceLost, Fails, Stands, Alike, At,
       TimelapseInv, FrameIsThere, Publishing
<1>5. CASE begin_storage
  BY <1>5, <1>1, ClaimingSteps DEF Moves, Fails, Stands, Alike, At, TimelapseInv,
       FrameIsThere, Publishing
<1>6. CASE before_publish \/ verify_mount
  BY <1>6, <1>1, FilingSteps DEF Moves, Fails, Stands, Alike, At, TimelapseInv,
       FrameIsThere, Publishing
<1>7. CASE fence_after
  BY <1>7, <1>1, FenceSteps DEF Passes, FenceLost, Fails, Stands, Alike, At,
       TimelapseInv, FrameIsThere, Publishing
<1>8. CASE shoot \/ given_back \/ (\E f \in Fields : apply(f)) \/ (\E f \in Fields :
     restore(f))
  BY <1>8, <1>1, ShootingSteps DEF Shoots, Fails, Moves, Borrows, FailsWith, Stands,
       Alike, At, TimelapseInv, FrameIsThere, Publishing
<1>9. CASE claim \/ recheck \/ release
  BY <1>9, <1>1, ClaimingSteps DEF Moves, Fails, Stands, Alike, At, TimelapseInv,
       FrameIsThere, Publishing
<1>10. CASE name \/ stage \/ publish \/ mark \/ complete
  BY <1>10, <1>1, FilingSteps DEF Moves, Fails, Takes, LetsGo, Stands, Alike, At,
       TimelapseInv, FrameIsThere, Publishing
<1>11. CASE discard \/ drop_name \/ take \/ retention \/ retention_marker
  BY <1>11, <1>1, UpkeepSteps DEF LetsGo, Moves, Takes, Stands, Alike, At,
       TimelapseInv, FrameIsThere, Publishing
<1>12. CASE Callers
  BY <1>12, CallersFrame DEF Stands, Alike, At, TimelapseInv, FrameIsThere,
       Publishing
<1>13. CASE PowerCut
  BY <1>13, Idling DEF PowerCut, Stands, Alike, At, TimelapseInv, FrameIsThere,
       Publishing
<1> QED
  BY <1>2, <1>3, <1>4, <1>5, <1>6, <1>7, <1>8, <1>9, <1>10, <1>11, <1>12, <1>13,
       WorkerParts DEF Next, Saving, Looking, Shooting, Claiming, Filing

(* An output is given back only as the user left it.                       *)
LEMMA LeaseKept ==
    ASSUME TimelapseInv, Next
    PROVE LeaseHolds'
<1>1. worker \in Workers /\ Types /\ SettingTypes /\ StorageTypes
  BY DEF TimelapseInv, Types
<1>2. /\ outputs \in Outputs /\ wanted \in Outputs /\ worker.original \in Outputs
      /\ worker.changed \in SUBSET Fields /\ timelapse_user_generation \in Nat
      /\ worker.lease[1] \in Nat
  BY <1>1 DEF Types, CameraTypes, EpochTypes, Workers
<1>3. LeaseHolds /\ (mutation = None => user = "idle")
  BY Names DEF TimelapseInv, LockIsTheirs
<1>4. CASE load \/ receive \/ persist \/ answer
  BY <1>4, <1>1, SavingSteps, <1>2, <1>3, SavingFrame DEF Moves, Saving, Stands,
       Alike, At, LeaseHolds
<1>5. CASE gate \/ capture \/ lease_read \/ lease_check \/ applied \/ cleanup
  BY <1>5, <1>1, CaptureSteps, <1>2, <1>3, LookingFrame DEF Begins, Moves, Remembers,
       Leases, Fails, Looking, Stands, Alike, At, LeaseHolds
<1>6. CASE fence_before \/ fence_read
  BY <1>6, <1>1, FenceSteps, <1>2, <1>3, LookingFrame DEF Passes, FenceLost, Fails,
       Looking, TimelapseInv, FencesAreThere, Fenced, Stands, Alike, At, LeaseHolds
<1>7. CASE begin_storage
  BY <1>7, <1>1, ClaimingSteps, <1>2, <1>3, LookingFrame DEF Moves, Fails, Looking,
       Stands, Alike, At, LeaseHolds
<1>8. CASE before_publish \/ verify_mount
  BY <1>8, <1>1, FilingSteps, <1>2, <1>3, LookingFrame DEF Moves, Fails, Looking,
       Stands, Alike, At, LeaseHolds
<1>9. CASE fence_after
  BY <1>9, <1>1, FenceSteps, <1>2, <1>3, FenceFrame DEF Passes, FenceLost, Fails,
       TimelapseInv, FencesAreThere, Fenced, Stands, Alike, At, LeaseHolds
<1>10. CASE shoot
  BY <1>10, <1>1, ShootingSteps, <1>2, <1>3 DEF shoot, settings, storage, epochs,
       camera, callers, bounds, Shoots, Fails, Stands, Alike, At, LeaseHolds
<1>11. CASE given_back
  BY <1>11, <1>1, ShootingSteps, <1>2, <1>3 DEF given_back, backend, settings,
       storage, epochs, camera, history, callers, bounds, Moves, Stands, Alike, At,
       LeaseHolds
<1>12. ASSUME NEW f \in Fields, apply(f) PROVE LeaseHolds'
  <2>1. /\ f \notin worker.changed /\ worker.original[f] # Presets[f]
        /\ Presets[f] = TRUE /\ UNCHANGED <<wanted, user, timelapse_user_generation>>
    BY <1>12, WorkerFrame, WorkerParts DEF apply, ToBorrow, Presets, Shooting
  <2>2. CASE Current /\ outputs[f] = worker.original[f]
    <3>1. /\ worker.lease[1] = timelapse_user_generation /\ user = "idle"
          /\ wanted[f] = worker.original[f]
      BY <1>3, <2>1, <2>2 DEF Current, LeaseHolds
    <3>2. /\ outputs' \in {outputs, [outputs EXCEPT ![f] = Presets[f]]}
          /\ borrowed' = borrowed \cup {f}
      BY <1>12, <2>2 DEF apply
    <3>3. \A g \in Fields : \/ outputs'[g] = wanted[g]
                            \/ g \in borrowed' /\ outputs'[g] = Presets[g]
      BY <1>2, <1>3, <3>2 DEF Outputs, LeaseHolds
    <3>4. /\ worker'.changed \subseteq worker.changed \cup {f}
          /\ worker'.lease = worker.lease /\ worker'.original = worker.original
          /\ \/ worker'.pc = "apply" /\ worker'.fence = "passed"
             \/ worker'.pc = "restore"
      BY <1>12, <1>1, ShootingSteps DEF Borrows, Fails, FailsWith, Stands, Alike, At
    <3> QED
      BY <1>2, <1>3, <2>1, <3>1, <3>3, <3>4 DEF LeaseHolds
  <2>3. CASE ~(Current /\ outputs[f] = worker.original[f])
    <3>1. worker' = Fail("restore") /\ outputs' = outputs /\ borrowed' = borrowed
      BY <1>12, <2>3 DEF apply
    <3>2. Fails("restore")
      BY <1>1, <3>1, GoingOn, PointsAre
    <3> QED
      BY <1>2, <1>3, <2>1, <3>1, <3>2 DEF LeaseHolds, Fails, Stands, Alike
  <2> QED
    BY <2>2, <2>3
<1>13. ASSUME NEW f \in Fields, restore(f) PROVE LeaseHolds'
  <2>1. f \in worker.changed /\ UNCHANGED <<wanted, user, timelapse_user_generation>>
    BY <1>13, WorkerFrame, WorkerParts DEF restore, Shooting
  <2>2. /\ worker'.changed \subseteq worker.changed
        /\ worker'.lease = worker.lease /\ worker'.original = worker.original
        /\ worker'.pc = "restore" \/ worker'.changed = {}
    BY <1>13, <1>1, ShootingSteps DEF Borrows, FailsWith, Stands, At
  <2>3. \A g \in Fields : \/ outputs'[g] = wanted[g]
                          \/ g \in borrowed' /\ outputs'[g] = Presets[g]
    <3>1. CASE Current
      <4>1. wanted[f] = worker.original[f]
        BY <1>3, <2>1, <3>1 DEF Current, LeaseHolds
      <4>2. \/ /\ outputs' = [outputs EXCEPT ![f] = worker.original[f]]
               /\ borrowed' = borrowed \ {f}
            \/ /\ outputs' \in {outputs, [outputs EXCEPT ![f] = worker.original[f]]}
               /\ borrowed' = borrowed
        BY <1>13, <3>1 DEF restore
      <4> QED
        BY <1>2, <1>3, <4>1, <4>2 DEF Outputs, LeaseHolds
    <3>2. CASE ~Current
      BY <1>13, <1>3, <3>2 DEF restore, LeaseHolds
    <3> QED
      BY <3>1, <3>2
  <2> QED
    BY <1>2, <1>3, <2>1, <2>2, <2>3 DEF LeaseHolds
<1>14. CASE claim \/ recheck \/ release
  BY <1>14, <1>1, ClaimingSteps, <1>2, <1>3, ClaimingFrame DEF Moves, Fails,
       Claiming, Stands, Alike, At, LeaseHolds
<1>15. CASE name \/ stage \/ publish \/ mark \/ complete
  BY <1>15, <1>1, FilingSteps, <1>2, <1>3, FilingFrame DEF Moves, Fails, Takes,
       LetsGo, Filing, Stands, Alike, At, LeaseHolds
<1>16. CASE discard \/ drop_name \/ take \/ retention \/ retention_marker
  BY <1>16, <1>1, UpkeepSteps, <1>2, <1>3, FilingFrame DEF LetsGo, Moves, Takes,
       Filing, Stands, Alike, At, LeaseHolds
<1>17. CASE Saver
  BY <1>17, SaverFrame, <1>3 DEF Stands, Alike, At, LeaseHolds
<1>18. CASE Pauser
  BY <1>18, PauserFrame, <1>3 DEF Stands, Alike, At, LeaseHolds
<1>19. CASE Privacy
  BY <1>19, PrivacyFrame, <1>3 DEF Stands, Alike, At, LeaseHolds
<1>20. CASE live_control
  BY <1>20, <1>2, <1>3 DEF live_control, settings, storage, camera, history,
       UserFrame, Stands, Alike, At, LeaseHolds
<1>21. ASSUME NEW f \in Fields, NEW v \in BOOLEAN, set_output(f, v) PROVE LeaseHolds'
  BY <1>21, <1>2, <1>3 DEF set_output, settings, storage, epochs, bounds, Outputs,
       Stands, Alike, At, LeaseHolds
<1>22. CASE PowerCut
  BY <1>22, Idling, <1>2 DEF PowerCut, Stands, Alike, At, LeaseHolds
<1> QED
  BY <1>4, <1>5, <1>6, <1>7, <1>8, <1>9, <1>10, <1>11, <1>12, <1>13, <1>14, <1>15,
       <1>16, <1>17, <1>18, <1>19, <1>20, <1>21, <1>22, WorkerParts, CallerParts DEF
       Next, Saving, Looking, Shooting, Claiming, Filing, User

(* A mask that goes up during the picture is seen by the last fence.       *)
LEMMA ShotKept ==
    ASSUME TimelapseInv, Next
    PROVE ShotIsPrivate'
<1>1. worker \in Workers /\ Types /\ SettingTypes /\ StorageTypes
  BY DEF TimelapseInv, Types
<1>2. /\ ha_privacy_generation \in Nat /\ worker.epoch[2] \in Nat
      /\ Epoch[2] = ha_privacy_generation /\ exposed \in BOOLEAN
      /\ privacy \in {"idle", "off", "on", "readback"}
  BY <1>1 DEF Types, EpochTypes, CameraTypes, CallerTypes, Workers, Epoch
<1>3. ShotIsPrivate /\ FrameIsThere
  BY DEF TimelapseInv
<1>4. CASE load \/ receive \/ persist \/ answer
  BY <1>4, <1>1, SavingSteps, <1>2, <1>3, SavingFrame DEF Moves, Saving, Stands,
       Alike, At, ShotIsPrivate, Same, Settled, LastRead, Fenced
<1>5. CASE gate \/ lease_read \/ lease_check \/ applied \/ cleanup
  BY <1>5, <1>1, CaptureSteps, <1>2, <1>3, LookingFrame DEF Begins, Moves, Leases,
       Fails, Looking, Stands, Alike, At, ShotIsPrivate, Same, Settled, LastRead,
       Fenced
<1>6. CASE capture
  BY <1>6, <1>1, CaptureSteps, <1>2, <1>3, LookingFrame DEF Remembers, Looking,
       FrameIsThere, Stands, Alike, At, ShotIsPrivate, Same, Settled, LastRead,
       Fenced
<1>7. CASE fence_before
  BY <1>7, <1>1, FenceSteps, <1>2, <1>3, LookingFrame DEF Passes, FenceLost, Fails,
       Looking, Stands, Alike, At, ShotIsPrivate, Same, Settled, LastRead, Fenced
<1>8. CASE fence_read
  BY <1>8, <1>1, FenceSteps, <1>2, <1>3, LookingFrame DEF Passes, FenceLost, Fails,
       Looking, FrameIsThere, Publishing, Stands, Alike, At, ShotIsPrivate, Same,
       Settled, LastRead, Fenced
<1>9. CASE begin_storage
  BY <1>9, <1>1, ClaimingSteps, <1>2, <1>3, LookingFrame DEF Moves, Fails, Looking,
       Stands, Alike, At, ShotIsPrivate, Same, Settled, LastRead, Fenced
<1>10. CASE before_publish \/ verify_mount
  BY <1>10, <1>1, FilingSteps, <1>2, <1>3, LookingFrame DEF Moves, Fails, Looking,
       Stands, Alike, At, ShotIsPrivate, Same, Settled, LastRead, Fenced
<1>11. CASE fence_after
  BY <1>11, <1>1, FenceSteps, <1>2, <1>3, FenceFrame DEF Passes, FenceLost, Fails,
       Stands, Alike, At, ShotIsPrivate, Same, Settled, LastRead, Fenced
<1>12. CASE shoot
  <2>1. /\ worker.pc = "shoot" /\ worker.fence = "passed"
        /\ UNCHANGED <<mask, privacy, ha_privacy_generation>>
    BY <1>12, WorkerFrame, WorkerParts DEF shoot, At, Shooting
  <2>2. /\ Stands(worker', "restore") /\ worker'.epoch = worker.epoch
        /\ worker'.shot /\ exposed' => mask # "off" \/ (worker.shot /\ exposed)
    BY <1>12, <1>1, ShootingSteps DEF Shoots, Fails, Alike
  <2> QED
    BY <1>2, <1>3, <2>1, <2>2 DEF Stands, ShotIsPrivate, Same, Settled, LastRead
<1>13. CASE given_back
  BY <1>13, <1>1, ShootingSteps, <1>2, <1>3 DEF given_back, backend, settings,
       storage, epochs, camera, history, callers, bounds, Moves, Stands, Alike, At,
       ShotIsPrivate, Same, Settled, LastRead, Fenced
<1>14. CASE (\E f \in Fields : apply(f)) \/ (\E f \in Fields : restore(f))
  BY <1>14, <1>1, ShootingSteps, <1>2, <1>3 DEF apply, settings, storage, epochs,
       callers, bounds, restore, Borrows, Fails, FailsWith, Stands, Alike, At,
       ShotIsPrivate, Same, Settled, LastRead, Fenced
<1>15. CASE claim
  BY <1>15, <1>1, ClaimingSteps, <1>2, <1>3, ClaimingFrame DEF Moves, Claiming,
       Stands, Alike, At, ShotIsPrivate, Same, Settled, LastRead, Fenced
<1>16. CASE recheck
  <2>1. /\ worker'.epoch = worker.epoch /\ worker'.shot = worker.shot
        /\ worker.pc = "recheck" /\ worker'.pc \in {"cleanup", "receive", "name", "take", "sweep"}
    BY <1>16, <1>1, ClaimingSteps DEF Moves, Fails, Stands, Alike, At
  <2> QED
    BY <1>16, <1>2, <1>3, <2>1, ClaimingFrame DEF Claiming, ShotIsPrivate, Same, Settled, LastRead
<1>17. CASE release
  BY <1>17, <1>1, ClaimingSteps, <1>2, <1>3, ClaimingFrame DEF Moves, Claiming,
       Stands, Alike, At, ShotIsPrivate, Same, Settled, LastRead, Fenced
<1>18. CASE name \/ stage \/ publish \/ mark \/ complete
  BY <1>18, <1>1, FilingSteps, <1>2, <1>3, FilingFrame DEF Moves, Fails, Takes,
       LetsGo, Filing, Stands, Alike, At, ShotIsPrivate, Same, Settled, LastRead,
       Fenced
<1>19. CASE discard \/ drop_name \/ take \/ retention \/ retention_marker
  BY <1>19, <1>1, UpkeepSteps, <1>2, <1>3, FilingFrame DEF LetsGo, Moves, Takes,
       Filing, Stands, Alike, At, ShotIsPrivate, Same, Settled, LastRead, Fenced
<1>20. CASE Saver
  BY <1>20, SaverFrame, <1>3 DEF Stands, Alike, At, ShotIsPrivate, Same, Settled,
       LastRead, Fenced
<1>21. CASE Pauser
  BY <1>21, PauserFrame, <1>3 DEF Stands, Alike, At, ShotIsPrivate, Same, Settled,
       LastRead, Fenced
<1>22. ASSUME NEW m \in {"off", "on"}, set_privacy(m) PROVE ShotIsPrivate'
  BY <1>22, <1>2, <1>3 DEF set_privacy, settings, storage, camera, history, Stands,
       Alike, At, ShotIsPrivate, Same, Settled, LastRead, Fenced
<1>23. CASE privacy_command
  <2>1. /\ UNCHANGED <<worker, ha_privacy_generation>> /\ privacy \in {"off", "on"}
        /\ privacy' = "readback"
    BY <1>23, CallersFrame, CallerParts DEF privacy_command, epochs, Privacy
  <2>2. exposed' => exposed \/ (Undecided /\ mask' # "off")
    BY <1>23 DEF privacy_command
  <2>3. Undecided => worker.shot /\ ~LastRead
    BY DEF Undecided, LastRead
  <2> QED
    BY <1>2, <1>3, <2>1, <2>2, <2>3 DEF ShotIsPrivate, Same, Settled, LastRead
<1>24. CASE privacy_readback
  BY <1>24, <1>2, <1>3 DEF privacy_readback, settings, storage, epochs, camera,
       history, bounds, Stands, Alike, At, ShotIsPrivate, Same, Settled, LastRead,
       Fenced
<1>25. CASE User
  BY <1>25, UserFrame, <1>3 DEF Stands, Alike, At, ShotIsPrivate, Same, Settled,
       LastRead, Fenced
<1>26. CASE PowerCut
  BY <1>26, Idling, <1>2 DEF PowerCut, Stands, Alike, At, ShotIsPrivate, Same,
       Settled, LastRead, Fenced
<1> QED
  BY <1>4, <1>5, <1>6, <1>7, <1>8, <1>9, <1>10, <1>11, <1>12, <1>13, <1>14, <1>15,
       <1>16, <1>17, <1>18, <1>19, <1>20, <1>21, <1>22, <1>23, <1>24, <1>25, <1>26,
       WorkerParts, CallerParts DEF Next, Saving, Looking, Shooting, Claiming,
       Filing, Privacy

(* An image loses its other name only once it was accepted.                *)
LEMMA CardKept ==
    ASSUME TimelapseInv, Next
    PROVE CardIsClean'
<1>1. worker \in Workers /\ Types /\ SettingTypes /\ StorageTypes
  BY DEF TimelapseInv, Types
<1>2. card \in [Images -> SUBSET {"pending", "jpg", "owned"}]
  BY <1>1 DEF StorageTypes
<1>3. CardIsClean
  BY DEF TimelapseInv
<1>4. CASE load \/ receive \/ persist \/ answer
  BY <1>4, <1>1, SavingSteps, <1>2, <1>3, SavingFrame DEF Moves, Saving, Stands,
       Alike, At, CardIsClean, Publishing, Fenced
<1>5. CASE gate \/ capture \/ lease_read \/ lease_check \/ applied \/ cleanup
  BY <1>5, <1>1, CaptureSteps, <1>2, <1>3, LookingFrame DEF Begins, Moves, Remembers,
       Leases, Fails, Looking, Stands, Alike, At, CardIsClean, Publishing, Fenced
<1>6. CASE fence_before \/ fence_read
  BY <1>6, <1>1, FenceSteps, <1>2, <1>3, LookingFrame DEF Passes, FenceLost, Fails,
       Looking, Stands, Alike, At, CardIsClean, Publishing, Fenced
<1>7. CASE begin_storage
  BY <1>7, <1>1, ClaimingSteps, <1>2, <1>3, LookingFrame DEF Moves, Fails, Looking,
       Stands, Alike, At, CardIsClean, Publishing, Fenced
<1>8. CASE before_publish \/ verify_mount
  BY <1>8, <1>1, FilingSteps, <1>2, <1>3, LookingFrame DEF Moves, Fails, Looking,
       Stands, Alike, At, CardIsClean, Publishing, Fenced
<1>9. CASE fence_after
  <2>1. UNCHANGED <<card, publishing_name>>
    BY <1>9, FenceFrame
  <2>2. Passes("passed") \/ FenceLost
    BY <1>9, <1>1, FenceSteps
  <2>3. clean \subseteq clean'
    BY <1>9 DEF fence_after
  <2>4. CASE worker.pc = "complete" /\ Unchanged
    <3>1. Same
      BY <1>1, <2>4 DEF Unchanged, Epoch, Same, Types, EpochTypes, Workers
    <3>2. ~exposed
      BY <1>9, <3>1, <2>4 DEF fence_after, TimelapseInv, ShotIsPrivate, LastRead
    <3>3. clean' = clean \cup {worker.image}
      BY <1>9, <2>4, <3>2 DEF fence_after
    <3> QED
      BY <1>3, <2>1, <2>2, <2>4, <3>3
        DEF Passes, FenceLost, Fails, Stands, Alike, CardIsClean, Publishing
  <2>5. CASE worker.pc # "complete"
    BY <1>3, <2>1, <2>2, <2>3, <2>5
      DEF Passes, FenceLost, Fails, Stands, Alike, CardIsClean, Publishing
  <2>6. CASE ~Unchanged
    <3>1. FenceLost
      BY <1>9, <2>6, <1>1, FailingFence DEF fence_after, FenceLost
    <3> QED
      BY <1>3, <2>1, <2>3, <3>1 DEF FenceLost, Fails, Stands, Alike, CardIsClean, Publishing
  <2> QED
    BY <2>4, <2>5, <2>6
<1>10. CASE shoot \/ given_back \/ (\E f \in Fields : apply(f)) \/ (\E f \in Fields :
     restore(f))
  BY <1>10, <1>1, ShootingSteps, <1>2, <1>3, ShootingFrame DEF Shoots, Fails, Moves,
       Borrows, FailsWith, Shooting, Stands, Alike, At, CardIsClean, Publishing,
       Fenced
<1>11. CASE claim \/ recheck \/ release
  BY <1>11, <1>1, ClaimingSteps, <1>2, <1>3, ClaimingFrame DEF Moves, Fails,
       Claiming, Stands, Alike, At, CardIsClean, Publishing, Fenced
<1>12. CASE name
  BY <1>12, <1>1, FilingSteps, <1>2, <1>3 DEF name, backend, settings, epochs,
       camera, history, callers, bounds, Moves, Fails, Stands, Alike, At,
       CardIsClean, Publishing, Fenced
<1>13. CASE stage
  <2>1. /\ publishing_name \in Images /\ card[publishing_name] = {}
        /\ publishing_name' = publishing_name /\ clean' = clean \ {publishing_name}
    BY <1>13, <1>3 DEF stage, storage, At, CardIsClean
  <2>2. CASE Put(publishing_name, "pending")
    <3>1. /\ \A i \in Images \ {publishing_name} : card'[i] = card[i]
          /\ "pending" \in card'[publishing_name]
      BY <1>2, <2>1, <2>2 DEF Put
    <3>2. Takes("before_publish", publishing_name) \/ worker'.pc \in {"discard", "drop_name"}
      BY <1>13, <1>1, FilingSteps DEF Takes, Fails, Stands
    <3> QED
      BY <1>3, <2>1, <3>1, <3>2 DEF CardIsClean, Publishing, Takes, Stands
  <2>3. CASE Fails("drop_name") /\ card' = card
    BY <1>3, <2>1, <2>3 DEF Fails, Stands, CardIsClean, Publishing
  <2> QED
    BY <1>13, <1>1, <2>2, <2>3, FilingSteps
<1>14. CASE publish
  BY <1>14, <1>1, FilingSteps, <1>2, <1>3 DEF publish, backend, settings, storage,
       epochs, camera, history, callers, bounds, Moves, Fails, Put, Stands, Alike,
       At, CardIsClean, Publishing, Fenced
<1>15. CASE mark
  BY <1>15, <1>1, FilingSteps, <1>2, <1>3 DEF mark, backend, settings, storage,
       epochs, camera, history, callers, bounds, Moves, Fails, Put, Stands, Alike,
       At, CardIsClean, Publishing, Fenced
<1>16. CASE complete
  BY <1>16, <1>1, FilingSteps, <1>2, <1>3 DEF complete, backend, settings, storage,
       epochs, camera, history, callers, bounds, LetsGo, Fails, Remove, Stands,
       Alike, At, CardIsClean, Publishing, Fenced
<1>17. CASE discard
  <2>1. /\ clean' = clean /\ worker.pc = "discard"
        /\ worker'.pc \in {"discard", "drop_name", "release"}
    BY <1>17, <1>1, UpkeepSteps DEF discard, backend, history, LetsGo, Stands, At
  <2>2. CASE card' = card
    BY <1>3, <2>1, <2>2 DEF CardIsClean, Publishing
  <2>3. CASE Remove(worker.image, Doomed)
    <3>1. \A i \in Images : card'[i] = IF i = worker.image THEN card[i] \ {Doomed} ELSE card[i]
      BY <1>2, <2>3 DEF Remove
    <3>2. \A i \in Images : "owned" \in card'[i] => card'[i] = card[i]
      BY <3>1 DEF Doomed
    <3> QED
      BY <1>3, <2>1, <3>2 DEF CardIsClean, Publishing
  <2> QED
    BY <1>17, <1>1, <2>2, <2>3, UpkeepSteps
<1>18. CASE drop_name
  BY <1>18, <1>1, UpkeepSteps, <1>2, <1>3 DEF drop_name, backend, settings, epochs,
       camera, history, callers, bounds, Moves, Stands, Alike, At, CardIsClean,
       Publishing, Fenced
<1>19. CASE take
  BY <1>19, <1>1, UpkeepSteps, <1>2, <1>3 DEF take, backend, settings, epochs,
       camera, history, callers, bounds, Takes, Stands, Alike, At, CardIsClean,
       Publishing, Fenced
<1>20. CASE retention
  BY <1>20, <1>1, UpkeepSteps, <1>2, <1>3 DEF retention, backend, settings, storage,
       epochs, camera, history, callers, bounds, Moves, Takes, Remove, Owned, Stands,
       Alike, At, CardIsClean, Publishing, Fenced
<1>21. CASE retention_marker
  BY <1>21, <1>1, UpkeepSteps, <1>2, <1>3 DEF retention_marker, backend, settings,
       storage, epochs, camera, history, callers, bounds, Takes, Remove, Stands,
       Alike, At, CardIsClean, Publishing, Fenced
<1>22. CASE Callers
  BY <1>22, CallersFrame, <1>3 DEF Stands, Alike, At, CardIsClean, Publishing, Fenced
<1>23. CASE PowerCut
  BY <1>23, Idling, <1>3 DEF PowerCut, Stands, Alike, At, CardIsClean, Publishing,
       Fenced
<1> QED
  BY <1>4, <1>5, <1>6, <1>7, <1>8, <1>9, <1>10, <1>11, <1>12, <1>13, <1>14, <1>15,
       <1>16, <1>17, <1>18, <1>19, <1>20, <1>21, <1>22, <1>23, WorkerParts DEF Next,
       Saving, Looking, Shooting, Claiming, Filing

(* Work on the card begins only while nobody has asked for a pause.        *)
LEMMA WorkBegins ==
    ASSUME TimelapseInv, Worker
    PROVE \/ worker.pc \in Storing
          \/ quarantine' = quarantine /\ (worker'.pc \in Storing => pauser = "idle")
<1>1. worker \in Workers /\ Types /\ SettingTypes /\ StorageTypes
  BY DEF TimelapseInv, Types
<1>2. /\ worker.pc \notin Fenced => worker.fence = "passed"
      /\ ~maintenance => pauser = "idle"
  BY DEF TimelapseInv, FencesAreThere, LockIsTheirs
<1>3. CASE load \/ receive \/ persist \/ answer
  BY <1>3, <1>1, SavingSteps, <1>2, SavingFrame DEF Moves, Saving, Stands, Alike, At,
       Storing
<1>4. CASE gate \/ capture \/ lease_read \/ lease_check \/ applied \/ cleanup
  BY <1>4, <1>1, CaptureSteps, <1>2, LookingFrame DEF Begins, Moves, Remembers,
       Leases, Fails, Looking, Stands, Alike, At, Storing
<1>5. CASE fence_before \/ fence_read
  BY <1>5, <1>1, FenceSteps, <1>2, LookingFrame DEF Passes, FenceLost, Fails,
       Looking, Fenced, Stands, Alike, At, Storing
<1>6. CASE begin_storage
  BY <1>6, <1>1, ClaimingSteps, <1>2, LookingFrame DEF Moves, Fails, Looking, Stands,
       Alike, At, Storing
<1>7. CASE before_publish \/ verify_mount
  BY <1>7, <1>1, FilingSteps, <1>2, LookingFrame DEF Moves, Fails, Looking, Stands,
       Alike, At, Storing
<1>8. CASE fence_after
  BY <1>8, <1>1, FenceSteps, <1>2, FenceFrame DEF Passes, FenceLost, Fails, Fenced,
       Stands, Alike, At, Storing
<1>9. CASE shoot \/ given_back \/ (\E f \in Fields : apply(f)) \/ (\E f \in Fields :
     restore(f))
  BY <1>9, <1>1, ShootingSteps, <1>2, ShootingFrame DEF Shoots, Fails, Moves,
       Borrows, FailsWith, Shooting, Stands, Alike, At, Storing
<1>10. CASE claim \/ recheck \/ release
  BY <1>10, <1>1, ClaimingSteps, <1>2, ClaimingFrame DEF Moves, Fails, Claiming,
       Stands, Alike, At, Storing
<1>11. CASE name \/ stage \/ publish \/ mark \/ complete
  BY <1>11, <1>1, FilingSteps, <1>2, FilingFrame DEF Moves, Fails, Takes, LetsGo,
       Filing, Stands, Alike, At, Storing
<1>12. CASE discard \/ drop_name \/ take \/ retention \/ retention_marker
  BY <1>12, <1>1, UpkeepSteps, <1>2, FilingFrame DEF LetsGo, Moves, Takes, Filing,
       Stands, Alike, At, Storing
<1> QED
  BY <1>3, <1>4, <1>5, <1>6, <1>7, <1>8, <1>9, <1>10, <1>11, <1>12, WorkerParts DEF
       Saving, Looking, Shooting, Claiming, Filing

(***************************************************************************)
(* The theorems.                                                           *)
(***************************************************************************)

(* The invariant holds at first.                                           *)
LEMMA InvInit == Init => TimelapseInv
<1> SUFFICES ASSUME Init PROVE TimelapseInv
  OBVIOUS
<1>1. worker = Idle /\ generation = 0 /\ ha_privacy_generation = 0
      /\ timelapse_user_generation = 0 /\ pauser = "idle" /\ privacy = "idle"
      /\ user = "idle" /\ saver = "idle" /\ wanted = outputs /\ outputs \in Outputs
  BY DEF Init
<1>2. Types
  <2>1. SettingTypes /\ StorageTypes
    BY DEF Init, SettingTypes, StorageTypes
  <2>2. CallerTypes /\ CameraTypes
    BY DEF Init, CallerTypes, CameraTypes, Masks
  <2>3. EpochTypes
    BY Limits DEF Init, EpochTypes
  <2> QED
    BY <1>1, <2>1, <2>2, <2>3, Idling DEF Types
<1>3. GenerationsCount
  BY Limits DEF Init, GenerationsCount
<1>4. KnownPolicyIsSaved /\ SaveIsOne /\ LockIsTheirs
  BY <1>1, Idling DEF Init, KnownPolicyIsSaved, SaveIsOne, LockIsTheirs, Answering
<1>5. CardIsClaimed /\ FencesAreThere
  BY <1>1, Idling DEF CardIsClaimed, FencesAreThere, Storing
<1>6. LeaseHolds /\ FrameIsThere
  BY <1>1, Idling DEF LeaseHolds, FrameIsThere, Publishing
<1>7. ShotIsPrivate
  <2>1. <<0, 0, 0>>[2] = 0
    OBVIOUS
  <2> QED
    BY <1>1, <2>1, Idling DEF ShotIsPrivate, LastRead
<1>8. CardIsClean
  BY <1>1, Idling DEF Init, CardIsClean, Publishing
<1> QED
  BY <1>2, <1>3, <1>4, <1>5, <1>6, <1>7, <1>8 DEF TimelapseInv

(* Every step keeps it.                                                    *)
LEMMA InvNext == TimelapseInv /\ [Next]_vars => TimelapseInv'
<1>1. ASSUME TimelapseInv, Next PROVE TimelapseInv'
  BY <1>1, TypesKept, CountsKept, KnownKept, SaveIsOneKept, LockKept, ClaimKept,
     FencesKept, LeaseKept, FrameKept, ShotKept, CardKept DEF TimelapseInv
<1>2. ASSUME TimelapseInv, UNCHANGED vars PROVE TimelapseInv'
  <2>1. UNCHANGED <<policy, policy_known, config, pending, queue, maintenance,
                    storage_active, publishing_name, quarantine, cleanup_blocked,
                    restored, generation, ha_privacy_generation,
                    timelapse_user_generation, mutation, worker, saver, pauser,
                    privacy, user, mask, outputs, card, exposed, clean, wanted,
                    borrowed, saves, privacies, sets, pauses>>
    BY <1>2 DEF vars, others, backend, settings, storage, epochs, camera, history,
         callers, bounds
  <2>2. Types'
    BY <1>2, <2>1 DEF TimelapseInv, Types, SettingTypes, StorageTypes, CallerTypes,
         CameraTypes, EpochTypes
  <2>3. /\ GenerationsCount' /\ KnownPolicyIsSaved' /\ SaveIsOne' /\ LockIsTheirs'
        /\ CardIsClaimed' /\ FencesAreThere' /\ FrameIsThere'
    BY <1>2, <2>1 DEF TimelapseInv, GenerationsCount, KnownPolicyIsSaved, SaveIsOne,
         LockIsTheirs, CardIsClaimed, FencesAreThere, FrameIsThere
  <2>4. LeaseHolds' /\ ShotIsPrivate' /\ CardIsClean'
    BY <1>2, <2>1 DEF TimelapseInv, LeaseHolds, ShotIsPrivate, CardIsClean, Same,
         Settled, LastRead
  <2> QED
    BY <2>2, <2>3, <2>4 DEF TimelapseInv
<1> QED
  BY <1>1, <1>2

(* The invariant of the service, whatever its callers, its faults and the  *)
(* power do.                                                               *)
THEOREM TimelapseInvariance == Spec => []TimelapseInv
BY InvInit, InvNext, PTL DEF Spec

(* An image that can be listed was accepted while privacy had never been   *)
(* up since its shot: no order of privacy commands, fences and file        *)
(* operations shows another.                                               *)
THEOREM ListedStaysPrivate == Spec => []ListedIsPrivate
<1>1. TimelapseInv => ListedIsPrivate
  BY DEF TimelapseInv, CardIsClean, ListedIsPrivate, Listed, Owned
<1> QED
  BY <1>1, TimelapseInvariance, PTL

(* Giving back what a capture borrowed never undoes what the user did.     *)
THEOREM OutputsStayTheUsers == Spec => []OutputsAreTheUsers
<1>1. TimelapseInv => OutputsAreTheUsers
  BY DEF TimelapseInv, LeaseHolds, OutputsAreTheUsers
<1> QED
  BY <1>1, TimelapseInvariance, PTL

(* The policy, its file and its queue agree, and so do the generations and *)
(* what is left of their bounds.                                           *)
THEOREM PolicyStaysConsistent == Spec => []PolicyIsConsistent
<1>1. TimelapseInv => TypeOK
  <2> SUFFICES ASSUME TimelapseInv PROVE TypeOK
    OBVIOUS
  <2>1. Types /\ SettingTypes /\ StorageTypes /\ CallerTypes /\ CameraTypes /\ EpochTypes
    BY DEF TimelapseInv, Types
  <2>2. /\ generation \in 0 .. (MaxSaves - saves) + (MaxPauses - pauses)
        /\ ha_privacy_generation \in 0 .. (MaxPrivacy - privacies)
        /\ timelapse_user_generation \in 0 .. (MaxUserSets - sets)
    BY <2>1, Limits DEF TimelapseInv, GenerationsCount, EpochTypes
  <2>3. /\ worker.pc \in Storing \cup Elsewhere
        /\ worker.fence \in {"before", "read", "after", "passed"}
        /\ worker.purpose \in {"capture", "retry", "retention"}
        /\ worker.image \in Images \cup {None} /\ worker.changed \subseteq Fields
    BY <2>1 DEF Types, Workers, Points
  <2>4. /\ {maintenance, storage_active, cleanup_blocked} \subseteq BOOLEAN
        /\ {publishing_name, quarantine} \subseteq Images \cup {None}
    BY <2>1 DEF StorageTypes
  <2> QED
    BY <2>1, <2>2, <2>3, <2>4, Zenon
      DEF TypeOK, SettingTypes, StorageTypes, CallerTypes, CameraTypes
<1>2. TimelapseInv => KnownPolicyIsSaved /\ SavesDoNotOverlap
  BY DEF TimelapseInv, SaveIsOne, SavesDoNotOverlap, Answering
<1>3. TimelapseInv => PolicyIsConsistent
  BY <1>1, <1>2 DEF PolicyIsConsistent
<1> QED
  BY <1>3, TimelapseInvariance, PTL

(* A step of the service is a step of the pause it promises, or none.      *)
LEMMA PauseSteps ==
    ASSUME TimelapseInv, Next
    PROVE Pause!Next \/ UNCHANGED Pause!vars
<1> DEFINE writing == worker.pc \in Storing \/ quarantine # None
           pause == CASE pauser = "idle" -> "none"
                      [] pauser \in {"held", "forgotten"} -> "held"
                      [] OTHER -> "asked"
<1>1. /\ pauser = "idle" => pause = "none"
      /\ pauser \in {"held", "forgotten"} => pause = "held"
      /\ pauser \notin {"idle", "held", "forgotten"} => pause = "asked"
  OBVIOUS
<1>2. /\ pauser' = "idle" => pause' = "none"
      /\ pauser' \in {"held", "forgotten"} => pause' = "held"
      /\ pauser' \notin {"idle", "held", "forgotten"} => pause' = "asked"
  OBVIOUS
<1>3. writing \in BOOLEAN /\ writing' \in BOOLEAN
  OBVIOUS
<1>4. /\ Pause!Next <=>
            \/ ~writing /\ pause = "none" /\ writing' = TRUE /\ pause' = pause
            \/ writing /\ writing' = FALSE /\ pause' = pause
            \/ pause = "none" /\ pause' = "asked" /\ writing' = writing
            \/ pause = "asked" /\ ~writing /\ pause' = "held" /\ writing' = writing
            \/ pause # "none" /\ pause' = "none" /\ writing' = writing
            \/ writing' = FALSE /\ pause' = "none"
      /\ UNCHANGED Pause!vars <=> writing' = writing /\ pause' = pause
  BY Zenon DEF Pause!Next, Pause!Begin, Pause!End, Pause!Ask, Pause!Grant, Pause!Withdraw,
       Pause!Restart, Pause!vars
<1>5. CASE Worker
  <2>1. pauser' = pauser /\ pause' = pause
    BY <1>5, WorkerFrame
  <2>2. \/ worker.pc \in Storing
        \/ quarantine' = quarantine /\ (worker'.pc \in Storing => pauser = "idle")
    BY <1>5, WorkBegins
  <2>3. ~writing /\ writing' => pause = "none"
    BY <1>1, <2>2
  <2> HIDE DEF writing, pause
  <2> QED
    BY <1>3, <1>4, <2>1, <2>3
<1>6. CASE Callers
  <2>1. worker' = worker /\ quarantine' = quarantine /\ writing' = writing
    BY <1>6, CallersFrame
  <2>2. CASE Saver \/ Privacy \/ User
    <3>1. pauser' = pauser
      BY <2>2, SaverFrame, PrivacyFrame, UserFrame
    <3>2. pause' = pause
      BY <3>1
    <3> QED
      BY <1>4, <2>1, <3>2
  <2>3. CASE Pauser
    <3>1. \/ pauser = "idle" /\ pauser' = "claimed"
          \/ pauser = "claimed" /\ pauser' = "active"
          \/ pauser \in Pausing /\ pauser' \in Pausing
          \/ pauser = "image" /\ pauser' = "held" /\ quarantine = None
          \/ pauser \in {"active", "held"} /\ pauser' = "idle"
          \/ pauser = "held" /\ pauser' = "forgotten"
      BY <2>3, Polling
        DEF Pauser, pause_claim, pause_invalidate, pause_ends, pause_forgotten, Pausing
    <3>2. pauser = "image" /\ quarantine = None => ~writing
      BY DEF TimelapseInv, CardIsClaimed
    <3>3. \/ pause = "none" /\ pause' = "asked"
          \/ pause' = pause
          \/ pause = "asked" /\ pause' = "held" /\ ~writing
          \/ pause # "none" /\ pause' = "none"
      <4> HIDE DEF writing, pause
      <4> QED
        BY <1>1, <1>2, <3>1, <3>2 DEF Pausing
    <3> HIDE DEF writing, pause
    <3> QED
      BY <1>3, <1>4, <2>1, <3>3
  <2> QED
    BY <1>6, <2>2, <2>3, CallerParts
<1>7. CASE PowerCut
  <2>1. worker'.pc = "load" /\ quarantine' = None /\ pauser' = "idle"
    BY <1>7, Idling DEF PowerCut
  <2>2. writing' = FALSE
    BY <2>1 DEF Storing
  <2>3. pause' = "none"
    BY <1>2, <2>1
  <2> QED
    BY <1>4, <2>2, <2>3
<1> QED
  BY <1>5, <1>6, <1>7 DEF Next

(* The service implements the pause of StoragePause: granted only when     *)
(* nothing of it is on the card, and nothing is begun once it is asked for.*)
THEOREM PausesArePromised == Spec => PausesAsPromised
<1>1. Init => Pause!Init
  <2>1. Init => worker.pc \notin Storing /\ quarantine = None /\ pauser = "idle"
    BY Idling DEF Init, Storing
  <2> QED
    BY <2>1 DEF Pause!Init
<1>2. TimelapseInv /\ [Next]_vars => [Pause!Next]_Pause!vars
  <2>1. ASSUME UNCHANGED vars PROVE UNCHANGED Pause!vars
    BY <2>1 DEF vars, others, backend, settings, storage, callers, Pause!vars
  <2> QED
    BY <2>1, PauseSteps
<1> QED
  BY <1>1, <1>2, TimelapseInvariance, PTL DEF Spec, PausesAsPromised, Pause!Spec

=============================================================================
