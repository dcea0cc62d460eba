--------------------------- MODULE StorageFormat ---------------------------
(***************************************************************************)
(* Formatting the SD card while the camera runs.  The format worker of     *)
(* thingino-control (raptor_backend/files/worker.rs) closes the storage    *)
(* reader, takes the timelapse's pause, stops the recorders, pauses their  *)
(* maintenance threads, asks the storage worker, a process of its own, to  *)
(* unmount, format and mount the card, and puts everything back.           *)
(*                                                                         *)
(* The timelapse is what StoragePause promises of it.  The recorders are   *)
(* the managed RMR of patches/raptor-full-source: a loop that serves one   *)
(* command at a time and opens and closes segments, a thread that writes   *)
(* and closes them, and a thread that probes the card and cleans it up.    *)
(*                                                                         *)
(* A step is one command with its answer, one critical section, one        *)
(* message between threads, or one command on the card.                    *)
(***************************************************************************)
EXTENDS Integers, FiniteSets

CONSTANTS
    NChannels,    \* recorders that run: RMR1 may be absent
    Clients,      \* HTTP requests that are served at a time
    None,         \* no job, nobody
    Autostart,    \* recorders whose policy starts them at boot
    MaxFormats,   \* bound: formats asked for
    MaxReads,     \* bound: other requests for the reader
    MaxSets,      \* bound: recordings started or stopped by the user
    MaxFaults     \* bound: commands to a recorder that fail

Channels == 0 .. NChannels - 1

ASSUME ClientsAssumption ==
    IsFiniteSet(Clients) /\ {None, "format", "user"} \cap Clients = {}
ASSUME NoneAssumption ==
    /\ None \notin {"format", "user"}
    /\ None \notin [by : Clients \cup {"format"}, live : BOOLEAN]
ASSUME ChannelsAssumption == NChannels \in {1, 2} /\ Autostart \subseteq Channels
ASSUME LimitsAssumption == {MaxFormats, MaxReads, MaxSets, MaxFaults} \subseteq Nat

VARIABLES
    format_active, format_queue,      \* Reads: latch and the place of one job
    job, reading,                     \* the reader's queue and current job
    client,                           \* requests on their way to the reader
    mutation,                         \* holder of the mutation lock
    format,                           \* the format thread and its locals
    user,                             \* a request that sets a recording
    writing, pause,                   \* the timelapse, as StoragePause has it
    recording, boot_recording_pending, managed_error,
    segment,                          \* "none", "open", "written"
    closing,                          \* "none", "flushing", "unconfirmed"
    paused, current, observed,        \* rmr_maintenance
    probe, cleaning,                  \* its thread
    worker, mounted,                  \* the storage worker and the card
    warned,                           \* history: a format ended in "partial"
    formats, reads, sets, faults

reader == <<job, reading, client, reads>>
timelapse == <<writing, pause>>
recorder == <<recording, boot_recording_pending, managed_error, segment, closing>>
maintenance == <<paused, current, observed, probe, cleaning>>
rmr == <<recorder, maintenance>>
storage == <<worker, mounted>>
control == <<format_active, format_queue, format, warned, formats>>
person == <<user, sets>>
vars == <<reader, timelapse, rmr, storage, control, person, mutation, faults>>

Timelapse == INSTANCE StoragePause

NoFormat == [pc |-> "recv", ch |-> 0, prior |-> {}, stopped |-> {},
             held |-> {}, result |-> "failed", bad |-> FALSE]
NoRequest == [pc |-> "idle", kind |-> "read"]
NoSet == [pc |-> "idle", ch |-> 0, on |-> FALSE]
Every(value) == [c \in Channels |-> value]

(* The camera has booted with a card; what the recorders' policies start   *)
(* is pending until their first look at it.                                *)
Init ==
    /\ format_active = FALSE /\ format_queue = FALSE
    /\ job = None /\ reading = None
    /\ client = [k \in Clients |-> NoRequest]
    /\ mutation = None /\ format = NoFormat /\ user = NoSet /\ warned = FALSE
    /\ Timelapse!Init
    /\ recording = Every(FALSE) /\ managed_error = Every(FALSE)
    /\ boot_recording_pending = [c \in Channels |-> c \in Autostart]
    /\ segment = Every("none") /\ closing = Every("none")
    /\ paused = Every(FALSE) /\ current = Every(TRUE)
    /\ observed = Every("none") /\ probe = Every("none")
    /\ cleaning = Every(FALSE)
    /\ worker = "idle" /\ mounted = TRUE
    /\ formats = MaxFormats /\ reads = MaxReads /\ sets = MaxSets
    /\ faults = MaxFaults

(* The reboot that an unknown outcome asks for; the card may not come back.*)
reboot ==
    /\ format.pc = "uncertain"
    /\ format_active' = FALSE /\ format_queue' = FALSE
    /\ job' = None /\ reading' = None
    /\ client' = [k \in Clients |-> NoRequest]
    /\ mutation' = None /\ format' = NoFormat /\ user' = NoSet /\ warned' = FALSE
    /\ Timelapse!Restart
    /\ recording' = Every(FALSE) /\ managed_error' = Every(FALSE)
    /\ boot_recording_pending' = [c \in Channels |-> c \in Autostart]
    /\ segment' = Every("none") /\ closing' = Every("none")
    /\ paused' = Every(FALSE) /\ current' = Every(TRUE)
    /\ observed' = Every("none") /\ probe' = Every("none")
    /\ cleaning' = Every(FALSE)
    /\ worker' = "idle" /\ mounted' \in BOOLEAN
    /\ UNCHANGED <<formats, reads, sets, faults>>

(***************************************************************************)
(* The storage reader.  A job is [by, live]; it is live until its deadline *)
(* of 150 ms, which is when its client gives up.                           *)
(***************************************************************************)
Job(k) == [by |-> k, live |-> TRUE]
Late(j, k) == IF j = Job(k) THEN [j EXCEPT !.live = FALSE] ELSE j
Request(k, pc) == client' = [client EXCEPT ![k].pc = pc]

(* recording_files, recording_identity and recording_sd look at the latch  *)
(* before they submit, a deletion takes the mutation lock as well, and     *)
(* queue_storage_format begins with a read of the card's state.            *)
recording_files(k, kind) ==
    /\ client[k].pc = "idle" /\ reads > 0 /\ reads' = reads - 1
    /\ kind \in {"read", "delete"}
    /\ ~format_active
    /\ IF kind = "delete" THEN mutation = None /\ mutation' = k
                          ELSE UNCHANGED mutation
    /\ client' = [client EXCEPT ![k] = [pc |-> "submit", kind |-> kind]]
    /\ UNCHANGED <<job, reading, timelapse, rmr, storage, control, person, faults>>

queue_storage_format(k) ==
    /\ client[k].pc = "idle" /\ formats > 0 /\ formats' = formats - 1
    /\ client' = [client EXCEPT ![k] = [pc |-> "submit", kind |-> "format"]]
    /\ UNCHANGED <<job, reading, reads, timelapse, rmr, storage, format_active,
                   format_queue, format, warned, person, mutation, faults>>

Unlock(k) == mutation' = IF mutation = k THEN None ELSE mutation

(* A mistake: only the caller's early look at the latch counts.            *)
SubmitUnchecked(k) ==
    /\ client[k].pc = "submit" /\ job = None
    /\ job' = Job(k) /\ Request(k, "wait")
    /\ UNCHANGED <<reading, reads, timelapse, rmr, storage, control, person,
                   mutation, faults>>

submit(k) ==
    /\ client[k].pc = "submit" /\ ~format_active /\ job = None
    /\ job' = Job(k) /\ Request(k, "wait")
    /\ UNCHANGED <<reading, reads, timelapse, rmr, storage, control, person,
                   mutation, faults>>

submit_refused(k) ==
    /\ client[k].pc = "submit" /\ (format_active \/ job # None)
    /\ Request(k, "idle") /\ Unlock(k)
    /\ UNCHANGED <<job, reading, reads, timelapse, rmr, storage, control,
                   person, faults>>

submit_times_out(k) ==
    /\ client[k].pc = "wait"
    /\ job' = Late(job, k) /\ reading' = Late(reading, k)
    /\ Request(k, "idle") /\ Unlock(k)
    /\ UNCHANGED <<reads, timelapse, rmr, storage, control, person, faults>>

(* An expired job is dropped without touching the card.                    *)
receive_job ==
    /\ job # None /\ reading = None
    /\ reading' = IF job.live THEN job ELSE None
    /\ job' = None
    /\ UNCHANGED <<client, reads, timelapse, rmr, storage, control, person,
                   mutation, faults>>

(* The answer reaches a client, or the format thread if it was the drain.  *)
answer_job ==
    /\ reading # None
    /\ reading' = None
    /\ IF reading.live /\ reading.by \in Clients
       THEN LET k == reading.by IN
            /\ Request(k, IF client[k].kind = "format" THEN "activate" ELSE "idle")
            /\ Unlock(k)
       ELSE UNCHANGED <<client, mutation>>
    /\ IF reading.live /\ reading.by = "format"
       THEN format' = [format EXCEPT !.pc = "observe", !.ch = 0]
       ELSE UNCHANGED format
    /\ UNCHANGED <<job, reads, timelapse, rmr, storage, format_active,
                   format_queue, warned, formats, person, faults>>

(* A format needs a mounted card and is the only one.                      *)
activate_format(k) ==
    /\ client[k].pc = "activate"
    /\ IF mounted /\ ~format_active
       THEN /\ format_active' = TRUE /\ Request(k, "queue")
       ELSE /\ Request(k, "idle") /\ UNCHANGED format_active
    /\ UNCHANGED <<job, reading, reads, timelapse, rmr, storage, format_queue,
                   format, warned, formats, person, mutation, faults>>

send_format(k) ==
    /\ client[k].pc = "queue"
    /\ format_queue' = TRUE /\ Request(k, "idle")
    /\ UNCHANGED <<job, reading, reads, timelapse, rmr, storage, format_active,
                   format, warned, formats, person, mutation, faults>>

(***************************************************************************)
(* A recorder's answers and commands.                                      *)
(***************************************************************************)
Available(c) == observed[c] = "mounted"
FileClosed(c) == segment[c] = "none" /\ closing[c] = "none"
Active(c) == segment[c] = "written" /\ ~managed_error[c]

(* The field "recording" of state_reply.                                   *)
Shown(c) ==
    IF Active(c) THEN "true"
    ELSE IF FileClosed(c) /\ ~recording[c] THEN "false"
    ELSE "null"

(* What set_recording takes as evidence that its intent was carried out.   *)
Confirmed(c, on) ==
    IF on THEN Shown(c) = "true" /\ Available(c) /\ recording[c]
          ELSE Shown(c) = "false"

(* set-recording: a start is refused while the maintenance is paused, and  *)
(* unless the card is known good and the last file closed.                 *)
Startable(c) == recording[c] \/ (Available(c) /\ FileClosed(c))

Accepts(c) == ~paused[c] /\ Startable(c)

(* A turn of the recorder's loop ends an unwanted segment; its thread then *)
(* writes out what is queued, closes the file and marks it as complete.    *)
Stop(c, error) ==
    /\ recording' = [recording EXCEPT ![c] = FALSE]
    /\ managed_error' = [managed_error EXCEPT ![c] = @ \/ error]
    /\ segment' = [segment EXCEPT ![c] = "none"]
    /\ closing' = [closing EXCEPT ![c] = IF segment[c] = "none" THEN @ ELSE "flushing"]

Start(c) ==
    /\ recording' = [recording EXCEPT ![c] = TRUE]
    /\ managed_error' = [managed_error EXCEPT ![c] = @ /\ recording[c]]
    /\ UNCHANGED <<segment, closing>>

(* The loop takes a turn after each command, before it takes the next.     *)
SetRecording(c, on) ==
    /\ boot_recording_pending' = [boot_recording_pending EXCEPT ![c] =
                                    @ /\ on /\ paused[c]]
    /\ IF ~on THEN Stop(c, FALSE)
       ELSE IF Accepts(c) THEN Start(c)
       ELSE UNCHANGED <<recording, managed_error, segment, closing>>
    /\ UNCHANGED maintenance

(* set-storage-maintenance: a change forgets what was observed and makes   *)
(* the scan in progress an old one; without an observation the next turn   *)
(* ends a recording.                                                       *)
SetPaused(c, on) ==
    /\ paused' = [paused EXCEPT ![c] = on]
    /\ IF paused[c] # on
       THEN /\ observed' = [observed EXCEPT ![c] = "none"]
            /\ current' = [current EXCEPT ![c] = FALSE]
            /\ Stop(c, recording[c])
       ELSE UNCHANGED <<observed, current, recording, managed_error, segment, closing>>
    /\ UNCHANGED <<boot_recording_pending, probe, cleaning>>

Quiescent(c) == paused[c] /\ ~cleaning[c] /\ probe[c] = "none"

Fault == faults > 0 /\ faults' = faults - 1

(***************************************************************************)
(* The recorder's loop between commands.                                   *)
(***************************************************************************)
OnlyRecorder == UNCHANGED <<maintenance, reader, timelapse, storage, control,
                            person, mutation, faults>>

(* rmr_managed_service: the recording due since boot, and one that fails:  *)
(* no card, no segment in time, or an error of the writer.                 *)
boot_recording(c) ==
    /\ boot_recording_pending[c] /\ Available(c)
    /\ SetRecording(c, TRUE)
    /\ UNCHANGED <<reader, timelapse, storage, control, person, mutation, faults>>

recording_fails(c) ==
    /\ \/ recording[c] /\ (~Available(c) \/ segment[c] = "none")
       \/ segment[c] # "none"
       \/ closing[c] = "flushing"
    /\ Stop(c, TRUE)
    /\ UNCHANGED boot_recording_pending /\ OnlyRecorder

start_segment(c) ==
    /\ recording[c] /\ segment[c] = "none" /\ Available(c) /\ ~managed_error[c]
    /\ mounted
    /\ segment' = [segment EXCEPT ![c] = "open"]
    /\ UNCHANGED <<recording, boot_recording_pending, managed_error, closing>>
    /\ OnlyRecorder

write_segment(c) ==
    /\ segment[c] = "open"
    /\ segment' = [segment EXCEPT ![c] = "written"]
    /\ UNCHANGED <<recording, boot_recording_pending, managed_error, closing>>
    /\ OnlyRecorder

(* At its length limit a segment is closed while the next one is open.     *)
rotate_segment(c) ==
    /\ recording[c] /\ segment[c] = "written" /\ closing[c] = "none"
    /\ closing' = [closing EXCEPT ![c] = "flushing"]
    /\ UNCHANGED <<recording, boot_recording_pending, managed_error, segment>>
    /\ OnlyRecorder

(* The last file being closed is; a failed close leaves closure unconfirmed*)
(* for as long as RMR runs.                                                *)
writer_ends(c, closed) ==
    /\ closing[c] = "flushing" /\ (closed \/ segment[c] = "none")
    /\ closing' = [closing EXCEPT ![c] = IF closed THEN "none" ELSE "unconfirmed"]
    /\ managed_error' = [managed_error EXCEPT ![c] = @ \/ ~closed]
    /\ UNCHANGED <<recording, boot_recording_pending, segment>>
    /\ OnlyRecorder

(***************************************************************************)
(* The maintenance thread.  begin_io and end_io count what it has under    *)
(* way: a probe of the card, or a clean-up that may probe as it goes.      *)
(***************************************************************************)
OnlyScan == UNCHANGED <<recorder, paused, reader, timelapse, storage, control,
                        person, mutation, faults>>

MayBegin(c) == ~paused[c] /\ (cleaning[c] => current[c])

(* A mistake: the scan keeps the generation it began with.                 *)
ProbeBeginsAsBefore(c) ==
    /\ probe[c] = "none" /\ MayBegin(c)
    /\ probe' = [probe EXCEPT ![c] = "begun"]
    /\ UNCHANGED <<current, observed, cleaning>> /\ OnlyScan

probe_begin(c) ==
    /\ probe[c] = "none" /\ MayBegin(c)
    /\ probe' = [probe EXCEPT ![c] = "begun"]
    /\ current' = [current EXCEPT ![c] = TRUE]
    /\ UNCHANGED <<observed, cleaning>> /\ OnlyScan

probe_card(c) ==
    /\ probe[c] = "begun"
    /\ probe' = [probe EXCEPT ![c] = IF mounted THEN "mounted" ELSE "absent"]
    /\ UNCHANGED <<current, observed, cleaning>> /\ OnlyScan

probe_end(c) ==
    /\ probe[c] \in {"mounted", "absent"}
    /\ observed' = [observed EXCEPT ![c] =
                        IF ~paused[c] /\ current[c] THEN probe[c] ELSE @]
    /\ probe' = [probe EXCEPT ![c] = "none"]
    /\ UNCHANGED <<current, cleaning>> /\ OnlyScan

(* An observation counts for 2.5 seconds.                                  *)
observation_expires(c) ==
    /\ observed[c] # "none"
    /\ observed' = [observed EXCEPT ![c] = "none"]
    /\ UNCHANGED <<current, probe, cleaning>> /\ OnlyScan

clean_begin(c) ==
    /\ ~cleaning[c] /\ probe[c] = "none"
    /\ ~paused[c] /\ current[c] /\ observed[c] = "mounted"
    /\ cleaning' = [cleaning EXCEPT ![c] = TRUE]
    /\ UNCHANGED <<current, observed, probe>> /\ OnlyScan

clean_end(c) ==
    /\ cleaning[c] /\ probe[c] = "none"
    /\ cleaning' = [cleaning EXCEPT ![c] = FALSE]
    /\ UNCHANGED <<current, observed, probe>> /\ OnlyScan

(***************************************************************************)
(* The storage worker: format_card_with.  Every step may fail; a umount or *)
(* mount that is killed or not confirmed may have happened all the same.   *)
(***************************************************************************)
OnlyWorker == UNCHANGED <<reader, timelapse, rmr, control, person, mutation, faults>>

(* Files of the camera's own that are open on the card.                    *)
Scanning(c) == cleaning[c] \/ probe[c] # "none"
FileOpen(c) == segment[c] # "none" \/ closing[c] = "flushing"
Reading == reading # None /\ reading.by \in Clients
InUse == Reading \/ writing \/ \E c \in Channels : Scanning(c) \/ FileOpen(c)

Reject == worker' = "rejected"

validate == 
    /\ worker = "validate"
    /\ worker' \in {"umount", "rejected"}
    /\ UNCHANGED mounted /\ OnlyWorker

umount ==
    /\ worker = "umount"
    /\ \/ ~InUse /\ worker' = "revalidate" /\ mounted' = FALSE
       \/ ~InUse /\ Reject /\ mounted' = FALSE
       \/ Reject /\ UNCHANGED mounted
    /\ OnlyWorker

revalidate ==
    /\ worker = "revalidate"
    /\ worker' \in {"mkfs", "rejected"}
    /\ UNCHANGED mounted /\ OnlyWorker

(* When mkfs fails, the card is mounted again as it was, if that works.    *)
mkfs ==
    /\ worker = "mkfs"
    /\ \/ worker' = "mount" /\ UNCHANGED mounted
       \/ Reject /\ mounted' \in BOOLEAN
    /\ OnlyWorker

mount ==
    /\ worker = "mount"
    /\ \/ worker' = "formatted" /\ mounted' = TRUE
       \/ Reject /\ mounted' \in BOOLEAN
    /\ OnlyWorker

(* The answer of a request that is no longer waited for.                   *)
answer_unheard ==
    /\ worker \in {"formatted", "rejected"} /\ format.pc # "answer"
    /\ worker' = "idle"
    /\ UNCHANGED mounted /\ OnlyWorker

(***************************************************************************)
(* The format thread: format_loop, run_storage_format.                     *)
(***************************************************************************)
At(pc) == format.pc = pc
Goto(pc) == format' = [format EXCEPT !.pc = pc]

(* The next turn of a loop over some recorders, in their order.            *)
Loop(f, pc, S, from, after) ==
    LET rest == {c \in S : c >= from} IN
    IF rest = {} THEN after
    ELSE [f EXCEPT !.pc = pc,
                   !.ch = CHOOSE c \in rest : \A d \in rest : c <= d]

Release(f, result) == [f EXCEPT !.pc = "release", !.result = result]

Restore(f, from) ==
    Loop(f, "restore", f.stopped, from,
         Release(f, IF f.bad THEN "partial" ELSE f.result))

Resume(f, from) ==
    Loop(f, "resume", f.held, from,
         IF f.bad THEN Release(f, "partial") ELSE Restore(f, 0))

(* The operation is over, with or without success.                         *)
Fails == format' = Resume([format EXCEPT !.result = "failed"], 0)
Succeeds == format' = Resume([format EXCEPT !.result = "ok"], 0)

OnlyFormat == UNCHANGED <<format_active, format_queue, warned, formats, client, reads,
                          reading, storage, person>>

(* An observation of one recorder, which may fail.                         *)
Observe(next, failed) ==
    /\ \/ next /\ UNCHANGED faults
       \/ failed /\ Fault
    /\ UNCHANGED <<job, timelapse, rmr, mutation>> /\ OnlyFormat

(* A command to it: answered, or failed, carried out or not.               *)
Command(effect, next, failed) ==
    /\ \/ effect /\ next /\ UNCHANGED faults
       \/ effect /\ failed /\ Fault
       \/ UNCHANGED rmr /\ failed /\ Fault
    /\ UNCHANGED <<job, timelapse, mutation>> /\ OnlyFormat

receive_format ==
    /\ At("recv") /\ format_queue
    /\ format_queue' = FALSE
    /\ format' = [NoFormat EXCEPT !.pc = "lock"]
    /\ UNCHANGED <<format_active, warned, formats, reader, timelapse, rmr, storage,
                   person, mutation, faults>>

(* A mistake: the format does not respect the mutation lock.               *)
LockAnyway ==
    /\ At("lock")
    /\ mutation' = "format" /\ Goto("pause")
    /\ UNCHANGED <<job, timelapse, rmr, faults>> /\ OnlyFormat

lock_mutation ==
    /\ At("lock")
    /\ IF mutation = None THEN mutation' = "format" /\ Goto("pause")
                          ELSE UNCHANGED mutation /\ Goto("release")
    /\ UNCHANGED <<job, timelapse, rmr, faults>> /\ OnlyFormat

pause_storage ==
    /\ \/ At("pause") /\ Timelapse!Ask /\ Goto("pausing")
       \/ At("pausing") /\ Timelapse!Grant /\ Goto("drain")
       \/ At("pausing") /\ Timelapse!Withdraw /\ Goto("release")
    /\ UNCHANGED <<job, rmr, mutation, faults>> /\ OnlyFormat

(* The drain is admitted whatever the latch says, behind what was let in.  *)
drain ==
    /\ At("drain")
    /\ IF job = None THEN job' = Job("format") /\ Goto("drained")
                     ELSE UNCHANGED job /\ Goto("release")
    /\ UNCHANGED <<timelapse, rmr, mutation, faults>> /\ OnlyFormat

drain_times_out ==
    /\ At("drained")
    /\ job' = Late(job, "format") /\ reading' = Late(reading, "format")
    /\ Goto("release")
    /\ UNCHANGED <<client, reads, format_active, format_queue, warned, formats, timelapse,
                   rmr, storage, person, mutation, faults>>

Stopping(f, from) ==
    Loop(f, "stop", f.prior, from, [f EXCEPT !.pc = "barrier", !.ch = 0])

EachChannel(f, after) ==
    IF f.ch + 1 < NChannels THEN [f EXCEPT !.ch = @ + 1] ELSE after

(* The recorders' intent before; a state in between is refused.            *)
observe_prior ==
    /\ At("observe")
    /\ LET seen == [format EXCEPT !.prior =
                        IF Shown(format.ch) = "true" THEN @ \cup {format.ch} ELSE @]
       IN Observe(format' = IF Shown(format.ch) = "null" THEN Release(format, "failed")
                            ELSE EachChannel(seen, Stopping(seen, 0)),
                  Goto("release"))

(* set_recording, to stop: observe, send, wait for evidence.               *)
stop_observe ==
    /\ At("stop")
    /\ LET tried == [format EXCEPT !.stopped = @ \cup {format.ch}] IN
       Observe(format' = IF Confirmed(format.ch, FALSE)
                         THEN Stopping(tried, format.ch + 1)
                         ELSE [tried EXCEPT !.pc = "stop_send"],
               format' = Resume([tried EXCEPT !.result = "failed"], 0))

stop_send ==
    /\ At("stop_send")
    /\ Command(SetRecording(format.ch, FALSE), Goto("stop_confirm"), Fails)

stop_confirm ==
    /\ At("stop_confirm")
    /\ \/ Confirmed(format.ch, FALSE) /\ format' = Stopping(format, format.ch + 1)
       \/ Fails
    /\ UNCHANGED <<job, timelapse, rmr, mutation, faults>> /\ OnlyFormat

(* The barrier: after all transitions every recorder is closed.            *)
barrier ==
    /\ At("barrier")
    /\ Observe(IF Shown(format.ch) = "false"
               THEN format' = EachChannel(format, [format EXCEPT !.pc = "maintain", !.ch = 0])
               ELSE Fails,
               Fails)

maintain ==
    /\ At("maintain")
    /\ LET tried == [format EXCEPT !.held = @ \cup {format.ch}] IN
       Command(SetPaused(format.ch, TRUE), format' = [tried EXCEPT !.pc = "quiesce"],
               format' = Resume([tried EXCEPT !.result = "failed"], 0))

quiesce ==
    /\ At("quiesce")
    /\ \/ /\ Quiescent(format.ch)
          /\ format' = LET on == [format EXCEPT !.pc = "maintain"] IN
                       EachChannel(on, [format EXCEPT !.pc = "dispatch"])
       \/ Fails
    /\ UNCHANGED <<job, timelapse, rmr, mutation, faults>> /\ OnlyFormat

(* format_raptor_storage: refused before anything is sent, sent, or        *)
(* broken while it is sent, when the worker may have it or not.            *)
Uncertain == [format EXCEPT !.pc = "uncertain", !.result = "uncertain"]

dispatch ==
    /\ At("dispatch")
    /\ \/ Fails /\ UNCHANGED worker
       \/ mounted /\ worker' = "validate" /\ Goto("answer")
       \/ mounted /\ worker' \in {worker, "validate"} /\ format' = Uncertain
    /\ UNCHANGED <<format_active, format_queue, warned, formats, mounted, reader, timelapse, rmr,
                   person, mutation, faults>>

(* The answer, or none in time: then everything stays as it is.            *)
answer ==
    /\ At("answer")
    /\ \/ worker = "formatted" /\ worker' = "idle" /\ Succeeds
       \/ worker = "rejected" /\ worker' = "idle" /\ Fails
       \/ format' = Uncertain /\ UNCHANGED worker
    /\ UNCHANGED <<format_active, format_queue, warned, formats, mounted, reader, timelapse, rmr,
                   person, mutation, faults>>

NotResumed == format' = Resume([format EXCEPT !.bad = TRUE], format.ch + 1)
NotRestored == format' = Restore([format EXCEPT !.bad = TRUE], format.ch + 1)

resume ==
    /\ At("resume")
    /\ Command(SetPaused(format.ch, FALSE), Goto("resumed"), NotResumed)

resume_observe ==
    /\ At("resumed")
    /\ Observe(format' = Resume(format, format.ch + 1), NotResumed)

(* restore_recording_after_maintenance, and set_recording to start.        *)
restore_wait ==
    /\ At("restore")
    /\ \/ Available(format.ch) /\ Goto("start")
       \/ NotRestored
    /\ UNCHANGED <<job, timelapse, rmr, mutation, faults>> /\ OnlyFormat

start_observe ==
    /\ At("start")
    /\ Observe(IF ~Available(format.ch) THEN NotRestored
               ELSE IF Confirmed(format.ch, TRUE)
                    THEN format' = Restore(format, format.ch + 1)
               ELSE Goto("start_send"),
               NotRestored)

start_send ==
    /\ At("start_send")
    /\ Command(SetRecording(format.ch, TRUE),
               IF Accepts(format.ch) THEN Goto("start_confirm") ELSE NotRestored,
               NotRestored)

start_confirm ==
    /\ At("start_confirm")
    /\ \/ /\ Confirmed(format.ch, TRUE)
          /\ format' = Restore(format, format.ch + 1)
       \/ NotRestored
    /\ UNCHANGED <<job, timelapse, rmr, mutation, faults>> /\ OnlyFormat

(* The end of run_storage_format drops the pause and the lock.             *)
release ==
    /\ At("release")
    /\ IF pause = "none" THEN UNCHANGED timelapse ELSE Timelapse!Withdraw
    /\ Unlock("format") /\ Goto("open")
    /\ UNCHANGED <<job, rmr, faults>> /\ OnlyFormat

(* A mistake: only a success lets the next request in.                     *)
ReopenAfterSuccess ==
    /\ At("open")
    /\ format_active' = (format.result # "ok")
    /\ format' = NoFormat
    /\ warned' = (warned \/ format.result = "partial")
    /\ UNCHANGED <<format_queue, formats, reader, timelapse, rmr, storage,
                   person, mutation, faults>>

reopen ==
    /\ At("open")
    /\ format_active' = FALSE
    /\ format' = NoFormat
    /\ warned' = (warned \/ format.result = "partial")
    /\ UNCHANGED <<format_queue, formats, reader, timelapse, rmr, storage,
                   person, mutation, faults>>

(***************************************************************************)
(* A user, or a motion event, sets a recording under the mutation lock.    *)
(***************************************************************************)
OnlyUser == UNCHANGED <<reader, timelapse, storage, control, faults>>

Gives(pc) == user' = [user EXCEPT !.pc = pc]
Ends == user' = NoSet /\ Unlock("user")

set_recording(c, on) ==
    /\ user.pc = "idle" /\ sets > 0 /\ sets' = sets - 1
    /\ mutation = None /\ mutation' = "user"
    /\ user' = [pc |-> "before", ch |-> c, on |-> on]
    /\ UNCHANGED rmr /\ OnlyUser

set_recording_before ==
    /\ user.pc = "before"
    /\ IF Confirmed(user.ch, user.on) \/ (user.on /\ ~Available(user.ch))
       THEN Ends ELSE Gives("send") /\ UNCHANGED mutation
    /\ UNCHANGED <<sets, rmr>> /\ OnlyUser

set_recording_send ==
    /\ user.pc = "send"
    /\ \/ SetRecording(user.ch, user.on) /\ Gives("confirm") /\ UNCHANGED mutation
       \/ UNCHANGED rmr /\ Ends
    /\ UNCHANGED sets /\ OnlyUser

(* With or without evidence: the handler does not wait for ever.           *)
set_recording_ends ==
    /\ user.pc = "confirm" /\ Ends
    /\ UNCHANGED <<sets, rmr>> /\ OnlyUser

(***************************************************************************)
(* The timelapse begins and ends work on the card.                         *)
(***************************************************************************)
timelapse_works ==
    /\ Timelapse!Begin \/ Timelapse!End
    /\ UNCHANGED <<reader, rmr, storage, control, person, mutation, faults>>

Serve(k) ==
    \/ \E kind \in {"read", "delete"} : recording_files(k, kind)
    \/ queue_storage_format(k)
    \/ submit(k) \/ submit_refused(k) \/ submit_times_out(k)
    \/ activate_format(k) \/ send_format(k)

Read == receive_job \/ answer_job

Scan(c) ==
    \/ probe_begin(c) \/ probe_card(c) \/ probe_end(c)
    \/ clean_begin(c) \/ clean_end(c)

Record(c) ==
    \/ boot_recording(c) \/ recording_fails(c)
    \/ start_segment(c) \/ write_segment(c) \/ rotate_segment(c)
    \/ \E closed \in BOOLEAN : writer_ends(c, closed)

StorageWorker ==
    \/ validate \/ umount \/ revalidate \/ mkfs \/ mount \/ answer_unheard

Format ==
    \/ receive_format \/ lock_mutation \/ pause_storage
    \/ drain \/ drain_times_out \/ observe_prior
    \/ stop_observe \/ stop_send \/ stop_confirm \/ barrier
    \/ maintain \/ quiesce \/ dispatch \/ answer
    \/ resume \/ resume_observe
    \/ restore_wait \/ start_observe \/ start_send \/ start_confirm
    \/ release \/ reopen

User ==
    \/ \E c \in Channels, on \in BOOLEAN : set_recording(c, on)
    \/ set_recording_before \/ set_recording_send \/ set_recording_ends

Next ==
    \/ \E k \in Clients : Serve(k)
    \/ Read
    \/ \E c \in Channels : Scan(c) \/ Record(c) \/ observation_expires(c)
    \/ StorageWorker \/ Format \/ User \/ timelapse_works \/ reboot

(* Every thread is scheduled; a card that answers lets the scan finish.    *)
Fairness ==
    /\ \A k \in Clients : WF_vars(Serve(k))
    /\ WF_vars(Read) /\ WF_vars(Format) /\ WF_vars(StorageWorker)
    /\ \A c \in Channels : WF_vars(probe_begin(c) \/ probe_card(c) \/ probe_end(c))
    /\ \A c \in Channels : WF_vars(clean_end(c))

Spec == Init /\ [][Next]_vars /\ Fairness

(***************************************************************************)
(* Properties.                                                             *)
(***************************************************************************)
PerChannel(S) == [Channels -> S]

Jobs == [by : Clients \cup {"format"}, live : BOOLEAN] \cup {None}

TypeOK ==
    /\ format_active \in BOOLEAN /\ format_queue \in BOOLEAN
    /\ job \in Jobs /\ reading \in Jobs
    /\ client \in [Clients ->
         [pc : {"idle", "submit", "wait", "activate", "queue"},
          kind : {"read", "delete", "format"}]]
    /\ mutation \in {None, "format", "user"} \cup Clients
    /\ format \in
         [pc : {"recv", "lock", "pause", "pausing", "drain", "drained", "observe",
                "stop", "stop_send", "stop_confirm", "barrier", "maintain",
                "quiesce", "dispatch", "answer", "uncertain", "resume", "resumed",
                "restore", "start", "start_send", "start_confirm", "release", "open"},
          ch : Channels, prior : SUBSET Channels, stopped : SUBSET Channels,
          held : SUBSET Channels,
          result : {"ok", "failed", "partial", "uncertain"}, bad : BOOLEAN]
    /\ user \in [pc : {"idle", "before", "send", "confirm"}, ch : Channels, on : BOOLEAN]
    /\ writing \in BOOLEAN /\ warned \in BOOLEAN /\ pause \in {"none", "asked", "held"}
    /\ {recording, boot_recording_pending, managed_error, paused, current, cleaning}
         \subseteq PerChannel(BOOLEAN)
    /\ segment \in PerChannel({"none", "open", "written"})
    /\ closing \in PerChannel({"none", "flushing", "unconfirmed"})
    /\ observed \in PerChannel({"none", "absent", "mounted"})
    /\ probe \in PerChannel({"none", "begun", "absent", "mounted"})
    /\ worker \in {"idle", "validate", "umount", "revalidate", "mkfs", "mount",
                   "formatted", "rejected"}
    /\ mounted \in BOOLEAN
    /\ <<formats, reads, sets, faults>> \in
         (0 .. MaxFormats) \X (0 .. MaxReads) \X (0 .. MaxSets) \X (0 .. MaxFaults)

Working == worker # "idle"
Unknown == At("uncertain")

(* From the moment the storage worker is asked until it has answered, and  *)
(* for good when nobody knows its answer, the reader, the timelapse and    *)
(* the recorders' scans are off the card, and every barrier still stands:  *)
(* no request that was admitted before or comes later gets through.        *)
CardIsLeftAlone ==
    Working \/ Unknown =>
        /\ ~Reading /\ ~writing /\ pause = "held"
        /\ format_active /\ mutation = "format"
        /\ \A c \in Channels : paused[c] /\ ~Scanning(c)

(* The recorders have closed their files then: the ones the format stopped *)
(* for sure, and of the others those that no policy starts at boot.        *)
FilesAreClosed ==
    Working \/ Unknown =>
        \A c \in Channels : FileOpen(c) => c \in Autostart \ format.stopped

(* "A separate observation after both transitions is the format barrier"   *)
(* (run_storage_format): with every recorder closed at the barrier and     *)
(* paused after it, none would have a file open.                           *)
BarrierHolds == Working => \A c \in Channels : ~FileOpen(c)

(* What a recorder holds to be the card's state was observed of the mount  *)
(* as it is: no scan that began before a format vouches for the card after *)
(* it, and none is remembered while the card is away.                      *)
ObservationsHold ==
    \A c \in Channels :
        observed[c] # "none" => (observed[c] = "mounted" <=> mounted)

(* Until one format has ended with "perform a normal reboot", each has     *)
(* resumed the maintenance of every recorder, whichever step failed.       *)
NoRecorderIsLeftPaused ==
    ~format_active /\ ~warned => \A c \in Channels : ~paused[c]

(* And it has started again whatever it may have stopped: a recorder that  *)
(* was recording is recording, or has failed by itself and says so.        *)
RecordersAreRestored ==
    At("release") /\ format.result \in {"ok", "failed"} =>
        \A c \in format.prior : recording[c] \/ managed_error[c]

(* What the storage worker finds while it works, or is not known to have   *)
(* ended: nobody on the card, every barrier up, and no recorder that takes *)
(* an old mount for the card.                                              *)
CardIsFree == TypeOK /\ ObservationsHold /\ CardIsLeftAlone /\ FilesAreClosed

(* And what it leaves behind: recorders that are as they were before.      *)
RecordersComeBack == NoRecorderIsLeftPaused /\ RecordersAreRestored

(* Both, for what a format needs of the card and of the recorders.         *)
FormatIsSafe == CardIsFree /\ RecordersComeBack

(* A format that was admitted ends, and lets the next request in, or is    *)
(* known to be uncertain.                                                  *)
FormatsEnd == format_active ~> ~format_active \/ Unknown

(* A recorder that is not paused sees a mounted card again and again: no   *)
(* pause leaves its scan behind on an old generation.                      *)
RecordersSeeTheCard ==
    \A c \in Channels : []<>(paused[c] \/ ~mounted \/ observed[c] = "mounted")
=============================================================================
