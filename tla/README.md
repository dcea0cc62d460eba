# A verification project for the DCS-6100LHV2 A1 firmware

The repository builds a replacement firmware for one camera. Its own logic is
in three places: a flash installer that must survive a power cut at any
instant, a Rust daemon (`thingino-control`) that owns the camera's services,
and host tools that prepare the SD card and the images. This directory holds
TLA+ modules that model those parts from their source, configurations with
which TLC checks them on small instances, and proofs for TLAPS.

Paths below are relative to the repository's root.

## 1. Inventory

| Component | Source | State it keeps | Operations | What is hard |
|---|---|---|---|---|
| Flash installer | `installer/stage1/init.c` | mtd1, mtd2, system, data; the card; a RAM snapshot | `install_stage2`, `switch_to_thingino` | a cut at any write; retries over a half-written NOR; the order of syncs, renames and erases |
| Universal host commands | `installer/universal_install.py`, `media_install_set.py`, `media.py` | files of the card, the archive on the host | stage, handoff, activate, deactivate, evacuate | legal commands in an order nobody tried; a card left by an interrupted install |
| Media quarantine | `installer/media.py` | the card's tree, the archive and its receipt | archive, remove, put back, resume | a crash, a failing call or the card's owner between any two of its steps |
| Stock restore | `installer/stock_restore` | mtd1, mtd2, the other regions; the card's run, selector and record of completion | stage, authorize, reauthorize, deactivate; the restorer's sequence; passivate | cuts between and inside the steps that consume the authorization and overwrite the firmware; host commands that end half way |
| Recovery AP, capture collector | `installer/recovery_ap`, `installer/collector` | a session | one-shot sequences | the network, not the order |
| Installer image tools | `installer/*.py` | files | pack, parse, sign, validate | formats; no interleaving |
| Home Assistant worker | `components/thingino-control/src/camera/ha` | a worker thread, its generation, a bounded queue, the motion slot | reconfigure, shutdown, enqueue, session loop | replies of a replaced worker, a full queue, motion set while publishing |
| Motion | `camera/motion_state.rs`, `raptor_backend/motion_lifecycle.rs`, `motion.rs` | the state machine, the poller's locals, the snapshot that is shown | poll, update of the configuration, live switch | a detector that restarts, a repeated or older result, an update between two polls |
| Motion actions | `raptor_backend/motion_actions.rs` | a queue, the recording that motion owns, its end | receive an event, start, extend and stop a recording | the user, the format or the recorder's own policy with the same recording |
| Motion senders | `raptor_backend/motion_{webhook,ntfy,gotify,telegram,email,ftp}.rs`, their domains in `camera/config/domains.rs` | a queue, a generation, live and saved settings | offer, deliver, save and apply settings, show them | an event queued under settings that are being replaced; a picture that privacy covers |
| Settings of streams, audio, OSD, access, imaging, day/night, motion, recorder, privacy, timezone | `raptor_backend/{streams,audio,osd,access,imaging,daynight,motion,recorder_config,privacy,timezone}.rs` | none of its own: a value in the camera, in a daemon's memory and in its file | look, set, save, look again; report | one command of several fails, deceives or loses its answer; a daemon restarts in between |
| Timelapse | `raptor_backend/timelapse` | a worker, generations, a pause lease | begin, pause and resume storage, capture | capture racing a format |
| Storage reader and card format | `raptor_backend/files/worker.rs` | a one-place queue, the format latch, the format thread | list, delete, identify, format | admission against a format; a barrier over two recorders; restoring them whichever step fails |
| Recorder control | `raptor_backend/recorder.rs`, with the recorder in `patches/raptor-full-source` | intent, segment, closure, maintenance pause and scan generation of each recorder | set a recording, pause and resume maintenance | intent is not evidence; a scan overtaken by a pause |
| Storage worker | `components/thingino-control/storage-worker` | the card's mount | unmount, format and mount in one request | an answer that never comes |
| HTTP server | `server.rs`, `router.rs` | connection queue, worker pool, backend permits | accept, dispatch, reject | every worker waiting; queue at its limit |
| Web authentication | `web_auth.rs` | password record, sessions, failure windows | login, logout, change password, authenticate | a login racing a password change; the cap of the session table; expiry |
| Boot scripts | `patches/thingino`, `profiles` | services | start order | ownership of the streamer |
| Web UI | `webui/src` | view state | HTTP calls | stale answers |
| Vendored patches | `patches/onvif`, `patches/uhttpd`, `patches/raptor-full-source` | not this repository's own program | | |

How they interact. The installer and the host commands share nothing but the
card: the host writes it while the camera is off, Stage 1 consumes it and
leaves its backup and checkpoint on it. The parts of `thingino-control` share
one process: HTTP handlers, one Home Assistant worker, one timelapse worker,
one motion poller and one storage reader, over a mutation lock, a few atomics
and bounded channels; they command the streamer (RVD, RIC, RMR) over a socket
that may answer late or not at all, and the card formatter in a process of its
own. The hazards are listed one by one, with the line where each bites and the
properties that cover it, in `PROJECT.json` under `hazards`.

What makes each part correct:

- Flash installer: a kernel that boots finds its whole system; stock data is
  always somewhere; as long as backup and checkpoint are on the card, a retry
  after any cut is accepted; an update leaves the user's data alone.
- Home Assistant worker: one session at a time; the last settings saved win;
  nothing is accepted that nobody will read; the broker ends with the camera's
  motion level.
- Timelapse: what can be listed was shot and accepted in private; the user's
  outputs are given back; a pause means that the card is not touched; what is
  shown as saved is saved.
- Storage worker and reader: nothing reads, records or writes while the card
  is formatted; the recorders resume or stay stopped, never in between.
- Motion: a producer that restarts, repeats or overtakes itself neither loses
  nor repeats a transition; a recording is stopped by its owner only.
- Motion senders: a change discards what is queued, and a request in hand may
  only finish, to where it was queued for; no picture is sent that privacy covers;
  what is called applied is live.
- Stock restore: a stock kernel lies over the whole stock firmware; a restore cut
  while it writes can go on; a record of completion is true; the leftovers that
  nothing but a hand removes are known.
- Media quarantine: no file that anybody wrote is lost; the card ends cleared or
  whole, but for three leftovers.
- Settings: an accepted request is true in the camera, the daemon and the file;
  a plain error has changed nothing; a GET is true of a moment while it ran.
- HTTP server: no permit is lost, every connection is answered or refused.
- Web authentication: the two copies of the password agree or the failure is
  reported; a session outlives no password change; logins are limited.

## 2. Plan

The order is that of the damage a fault does.

| # | Module | Composes | State |
|---|---|---|---|
| 1 | `Stage1`, `Stage1Invariant`, `Stage1Proofs`, `Stage1Recovery`, `Stage1Retry` | | done, its safety proved |
| 2 | `HaService`, `HaServiceProofs` | | done, its safety proved |
| 3 | `Timelapse`, `StoragePause`, `TimelapseProofs` | `Timelapse` implements `StoragePause` | done, its safety and the refinement proved |
| 4 | `StorageFormat`, `StorageFormatProofs`: the format worker, the reader's admission and drain, the recorder barriers, the storage worker | uses `StoragePause` in place of `Timelapse` | done, its safety proved |
| 5 | `Motion`: the poller, the state machine, updates behind their back | | done, proved in `ThreadProofs` |
| 6 | `MotionActions`: recordings owned by motion events | the recorder as 4 has it, less its maintenance | done, proved in `ThreadProofs` |
| 7 | `ControlServer`: queue, workers, backend permits | | done, the gate proved in `ThreadProofs` |
| 8 | `SettingsSteps`, `StreamSettings`, `CameraSettings`, `Settings`: 43 handlers, one machine that runs them; `SettingsInvariant`, `SettingsProofs` | | done, its safety proved |
| 9 | `Senders`: the six senders with the domains of their settings | | done, proved in `RequestProofs` |
| 10 | `Credentials`: the password in two places, sessions, the limit on logins | | done, proved in `RequestProofs` |
| 11 | `MediaQuarantine`: a host transaction interrupted and resumed | | done, its safety proved in `CardProofs` |
| 12 | `StockRestore` | | done, its safety proved in `CardProofs` |
| 13 | `DaemonThreads`, `DaemonRequests`, `MCThreads`, `MCRequests`, `MCCards`: parts that share no state, one per behaviour | 5, 6, 7; 8, 9, 10; 11, 12 | done |

Abstract specification: `StoragePause`, the contract between the timelapse and
the format. `Timelapse` is shown to implement it, and `StorageFormat` uses it in
place of `Timelapse`, so that the composition of the two is checked without
their product.

What is left to prove is liveness, which the prover cannot; see section 5 for
what each proof rests on.

Runs are few and each asks its own question. A module gets one run for its
safety, on the largest instance that ends in two or three minutes, and one for
its liveness, on a smaller one. Parts of the daemon that share no state with
one another are checked in one run, one part per behaviour (`MCThreads`,
`MCRequests`, `MCCards`).

## 3. The modules

### Stage1 — the crash-safe flash installer

State and code. `kernel`, `mtd2`, `system` and `data` are the NOR, cut into
erase blocks whose content is one of a few kinds (stock, blank, torn, a block
of some build's image, a block of some provisioning image, data of the running
firmware). `card` is the FAT card as `init.c` sees it and `disk` as it is on the
medium; they differ by what has not been synced. `pc` names the call of
`install_stage2` that comes next, `cursor` the erase block, `run` the RAM
snapshot that `verify_camera_authorization` takes, `held` the digest of the data
region of a preserve update, `failure` the code `fail` shows. `archive` is what
the host has evacuated from the card.

Actions. There is one per call that changes the flash or the card, or that
decides: snapshot and authorization, the removal of the consumed selector, the
export of the backup and its read-back, the two renames and every sync, the
checkpoint, each erase and program of a block, each verification, the
passivation of the card's files, the reboot. A region is written block by block
so that a cut may fall inside. `PowerCut` leaves the block at the cursor torn
or not and every unsynced file change present or not, independently, a
temporary also torn; `CallFails` stops at any step; a write may also
be bad without being reported (`Outcome`, `WriteFile`). The stock
U-Boot and its updater are external (`Boot`, `UpdateKernel`, `UpdateMtd2`),
modelled from what `init.c` and the host tools rely on. The host commands
(`universal_install.py`, `media_install_set.py`, `media.py`) are atomic steps
with their refusals, taken with the camera off. The evacuation has its two forms:
the default (`evacuate_existing_stock_backups`) archives and removes the backup
and its checkpoint and looks at no camera file; `evacuate_with_install_inputs`
(`--include-install-inputs`) takes the camera files along, when the checkpoint
binds both.

What the model shows that is worth knowing. A passivation that is cut or fails
between its two removals leaves one camera file. With the checkpoint on the
card nothing can activate the passive set again, and the kernel boots. Once the
default evacuation took the checkpoint, or behind a preserve build, which has
none, the lower-level activation can: the updater overwrites the installed
kernel with Stage 1, which refuses for the provisioning or the authorization
that is gone. From there no command goes on (`HalfPassivated`): staging refuses
half the camera files, the default evacuation finds no backup, the other form no
checkpoint. The way out is to remove the remaining file by hand.

A digest comparison is equality of contents, and each build's image fills its
region's payload with blocks of its own.

Not modelled: the LEDs, the console and the device nodes, which decide nothing;
the host commands' own crashes, and the quarantine of an inconsistent card,
which `MediaQuarantine` models by itself.

`Stage1Invariant`, `Stage1Recovery` and `Stage1Retry` hold the three invariants
behind the theorems, each on top of the one before; `stage1_retries` checks
their conjunction as `RetryInv`.

### HaService — the Home Assistant worker

State and code. `config_generation`, `accept_motion`, `queue_depth`,
`wakeup_queued`, `worker` (the `WorkerControl` under the mutex) and `state` are
the service's own; `queue` and `shutdown_requested` belong to each launch.
`thread` holds, per launch, where `worker_loop` and `connected_session` are and
their locals. `admin` is the handler that saves and reconfigures, `closer` the
caller of `shutdown`, `client` a request between `action`'s check and its
enqueue. `level` is what the motion poller knows, `retained` what the broker
has.

Actions. A critical section of the mutex is one step; everything read outside
it is its own step: the worker's generation check, the load of the settings,
the drain, the release of the motion slot, the read of the level, the publish.
Reconfigures come one at a time, as the handlers hold the mutation lock.
`motion_contended` is the event dropped when `try_lock` fails.

Not modelled: MQTT framing, inbound commands, the order of discovery and
availability documents, the live image, counters, a panic of the worker thread
and the poisoned lock it leaves. `shutdown` is called by tests only at this
commit; it is modelled because its races with `reconfigure` are in the code.

### Timelapse and StoragePause — captures, the card and the policy

State and code. `policy`, `policy_known`, `pending` and the one-place `queue` are
`Service`'s, `config` the file. `maintenance`, `storage_active`,
`publishing_name`, `quarantine` and `cleanup_blocked` are its storage side.
`generation`, `ha_privacy_generation` and `timelapse_user_generation` are the three
epochs a capture compares. `worker` is the thread with the locals of `capture`.
`saver`, `pauser`, `privacy` and `user` are callers inside `submit`,
`pause_storage` and the format, `set_privacy`, and `live_control`; `mutation` says
who of them holds the mutation lock. `mask` and `outputs` are the camera's, and
`card` has, for each image, which of its three files exist. Four history
variables record what the properties speak about: whether the mask was up since
the shot, which images were accepted, what the user last set and what is
borrowed.

Actions. One per access to shared state: a fence is three (compare, ask the
camera, compare again), a claim of the storage two looks around a store, the
lease one for each output and direction. Staging, copying, marking, completing
and discarding an image are one file operation each, each of which may fail and
may or may not have had its effect; the marker is removed first and the hidden
name last, as in `Image::discard`. `PowerCut` keeps the card and the file and
forgets the rest.

`StoragePause` is the abstract specification: writing and pausing exclude each
other, and nothing begins after a pause was asked for. `Timelapse` implements it
under the mapping in `Pause`; "writing" is the worker between the claim and the
release, or an image in quarantine.

Modelling decisions a reader may question:

- The atomics are sequentially consistent in the model. The code uses
  acquire/release operations; the camera has one core.
- The card is mounted `sync`, so unlinks reach it in order.
- An image is accepted at the last read of the mask in the final fence
  (comment at `timelapse/mod.rs:649`); privacy that goes on after that belongs
  to the next frame.
- A privacy command takes effect when it is answered; one that times out and
  is applied much later is left out.
- The capture's preset is modelled in the manual day/night mode, the only one
  in which it is applied. Its outputs are booleans, so `restore`'s own
  comparison with the preset says nothing the epochs do not.

Things the model shows that are worth knowing, none of them against a stated
intention of the code: when privacy goes on, or a handler holds the mutation
lock, while outputs are borrowed, the lease ends in "conflict", the outputs stay
as the capture set them, and captures stop until a policy is saved; an image
that cannot be removed keeps its quarantine, and every pause times out until it
can.

Not modelled: image bytes and the directory walk, names that collide after the
clock steps, an image the user deletes, `stop`, which only tests set.

### StorageFormat — formatting the card while the camera runs

State and code. `format_active` and `format_queue` are `Reads::format_active` and
the `sync_channel` of one `FormatJob`; `job` and `reading` the reader's queue of
one and the job it runs; `client` requests between their two looks at the latch
and their answer; `mutation` the holder of the mutation lock. `format` is the
thread of `format_loop` with the locals of `run_storage_format`: `prior`,
`stop_attempted` (`stopped`), `maintenance_attempted` (`held`), the result so
far, and whether something could not be put back (`bad`). `writing` and `pause`
are the timelapse, taken from `StoragePause`. For each recorder there is its
intent, its segment, the file its writer closes, and, of the maintenance
thread, the pause, whether its scan has the current generation, what it has
observed, the probe under way and the clean-up. `worker` and `mounted` are the
storage worker and the card. `warned` is history: a format has ended with the
advice to reboot.

Actions. The format thread has one per command to a recorder, per wait, and per
decision. A command fails, and has or has not taken effect, as `faults` allow;
a wait ends with the evidence or without it. The recorder's loop serves
commands in order, and takes a turn after each. Its scan begins, looks and
reports in three steps, so that a pause may come between them. The storage
worker has one action for each step of `format_card_with`, any of which may
be refused or may fail after it has had its effect.

Modelling decisions a reader may question:

- The recorder is another project's program. What `patches/raptor-full-source`
  adds to it is modelled as the environment `recorder.rs` relies on and marked
  external, with the patch's lines; its loop around the patch is taken from
  what the patch leaves in place.
- `RMR1` may be absent: that is the instance with one channel. Whether it runs is
  fixed for a run of the model.
- A umount is refused while a file of the camera's own is open, as Linux does.
- The files a recorder is closing are one: `closing` ends when the last does.
- A card that is mounted and full, a recorder without video, and a recorder that
  is restarted are left out; the first two make `available` false as an absent card
  does.
- The reboot is taken after an unknown outcome only, when nothing else is
  left to do.

What the model shows against the source is the finding below (`sf_barrier`). One
more thing is worth knowing: after a format that ended with the advice to
reboot, a new request that fails early replaces that message with the general
one, while a recorder may still be paused; `NoRecorderIsLeftPaused` is stated
up to that advice.

Not modelled: clips and pages, the status of a format as the interface shows it,
the card's identity and its change, recordings owned by motion events.

### Motion — from a detector's results to events

State and code. `rvd` is what the video daemon would answer to a poll, with what
it would restart from; `machine` the `MotionStateMachine`; `poller` the locals of
`worker_loop` in `motion_lifecycle.rs`; `runtime` the `Snapshot` the interface
shows; `update` the handler that holds the mutation lock. `motionLog` is history:
the results of the running producer, and what was announced.

A poll is the unit of time. Monotonic milliseconds are ages and remainders in
polls, and the identity of a result is its relation to the last one taken in,
so that counters need no bound.

Actions. One per branch of the poll (nothing new, another producer, no sample, a
sample), with the whole of `observe` in it, one per load of the configuration, one
per step of an update and of the live switch. The detector restarts, pauses and
produces when it likes.

Things the model shows that are worth knowing: a producer that changes during
motion makes the poller throw its machine away, and no event says that the
motion ended (`EventsMatchTheLevel` excepts it); and the comment at
`motion_lifecycle.rs:227` speaks of a producer known only by a remembered
result, which the poll then takes as its starting point.

### MotionActions — recordings that motion owns

State and code. `alerts` is the queue of `motion_actions.rs`, `acting` the locals
of its thread, `holder` the mutation lock, `userGeneration` the
`recording_user_generation` that tells the thread the user has been there.
`writer` is the recorder. `viewer` is `live_control`, `formatting` the format's
memory of a recording it stopped. `claim` is history: who asked for the
recording that runs.

Actions. The look, the command and the confirming look of a start or stop are
three steps each, of the thread and of the user. A command may fail with or
without effect. Worth knowing: after the user has stopped a recording that
motion owned, further events extend that lost ownership, and start nothing,
until its time is over.

### ControlServer — queue, workers, permits

State and code. `channel` is the queue of accepted connections, `worker` each
worker with its connection, `holds` and `active` the `BackendGate`, `accepting`
the accepting thread. `connection` is what has become of each.

Actions. `acquire`, `look_again` and `times_out` are the three ways out of the
gate's loop, `drop` is `BackendPermit::drop` with `notify_one`. A request that
`api_request` does not know gives its permit back and takes another, as
`handle_client` does. The condition variable is that of Linux: a waiter that
was woken is not reported as timed out. Deadlines may have passed whenever they
are looked at. The daemon itself never sets the shutdown flag; tests do. An
error of `accept` ends the daemon and joins nobody.

### SettingsSteps, StreamSettings, CameraSettings, Settings — saved settings

State and code. A setting has a value in three places: what the camera does
(`active`), what its daemon has in memory (`config`), its file (`disk`). A handler
is a sequence of commands to a daemon. `StreamSettings` and `CameraSettings`
write each handler of the backend as that sequence, named like the functions of
the source: what is looked at before anything changes, what is set, how often
it is looked at again and against what, what is saved, and what a GET reads and
says. `SettingsSteps` is the vocabulary, `Settings` the machine that runs one
handler per behaviour: `world` is the three places, `update` the handler of a POST
with its locals, `query` that of a GET. `settingLog` and `moments` are history: the
world before the request and as it would be without it, the parts whose daemon was
restarted, whether what a GET compares was ever the same.

Actions. One per command. It succeeds, fails with or without its effect, is
answered though nothing was done, or answers what is not so (`failures`). A
failure before anything changed is a plain error, afterwards a partial
application, as each handler has it. `DaemonRestarts` falls between any two: the
file is loaded. Handlers whose parts exclude each other, follow each other or must
be alike say so in their record.

What is checked. `AnswersAreTrue`: what is accepted is in all the places it has to
be, whatever restarts; a plain refusal has changed nothing; a restart is announced
just when one is awaited; and what a request does not name is saved as it was or
as its daemon had it, so a handler that took the size it is not asked for from
what is active would be found to undo a size that awaits a restart.
`ReportsAreTrue` for a GET, and `NeverTogether` for values that exclude each other.

Modelling decisions a reader may question, and what the model shows:

- RVD moves a motion region that is the whole frame with the sub stream, by what
  it has in memory; the handler predicts that from the file. Where the two
  differ, because an earlier request was left half done, RVD's reply contradicts
  the handler and the request ends as a partial application
  (`FollowsAsExpected`); RVD's memory of the region is never looked at, so what is
  promised of it is the file only.
- One fault per request. Two lies of a daemon about the same value can make any
  handler accept what is not so.
- If a settings file cannot be read back after saving, some handlers answer a
  plain error although the file has changed; and the handlers of live switches
  (`set_color`, `set_privacy`, `set_daynight_mode`, motion) answer plain errors
  after a command was sent. These are marked `plain`, and `RefusalsChangeNothing`
  excepts them.
- What a partial application has set but not saved is saved by the next
  `config-save` of another setting. Requests are one per behaviour, so this is
  not seen.
- One day/night group and one motion field per request; the comparison of
  running modes in `update_daynight_config`, the idle recorder `update_enabled`
  asks for and the speaker's half of `set_live_audio` are left out, and so is the
  unsaved imaging of daemons that cannot save.

### Senders — notifications of motion

State and code. `live`, `generation`, `enabled` and `queued` are `LiveConfig`,
`Service` and its runtime; `events` the channel, whose events carry the
generation they were queued under; `saved` the settings' domain in the file. `offer`
is `try_send_motion`, `delivery` the worker, `request` and `reading` the handlers of
POST and GET. `mask` is privacy as the FTP sender sees it.

Actions. The six services have one shape, which `PlainWorker`, `TrySend`,
`SenderRequest`, `Applies` and `SenderLook` give once; `webhook_worker` and the
like bind them. `Merged` and `PossiblePatch` are what
`update_validated_config_domain` and `normalize_secret_update` make of a partial
update, `validate_motion_*` what each service's domain must have, with its
fields abstracted to whether it is enabled, where it goes and what proves who
it is. FTP's `process_event` has one step per look at the camera, the last under
the mutation lock.

Modelling decisions: a wrong file by hand at the start leaves the defaults live,
and every POST is refused until it is mended. Email's user name is taken as set
with its host, a port and a subject always are. Counters, texts and libcurl are
left out.

A worker clones its settings, drops the lock and posts. The request in hand may
therefore go out after a change was acknowledged, which `docs/features.md:89-90`
says ("a request already accepted by its worker may still finish").
`NothingStaleIsSent` is about what leaves the camera, at the step where it does:
each event goes with the very settings it was queued under (`EventsGoAsQueued`);
after an acknowledgement at most one older event goes, the one in hand, and of
FTP, whose admission takes the lock a change holds, none
(`OldEventsAreDiscarded`); no picture goes that privacy covered, however briefly
(`PicturesArePrivate`).

### Credentials — the password in two places, sessions, the limit on logins

State and code. `shadow` and `onvif` are the two files, the second may be torn;
`sessions`, `limiter` and `clock` are `WebAuth`'s; `login` the one login between its
steps; `change` the workers that hold a POST of the password, `updates` the lock
that lets one of them through. `credLog` is history.

Actions. One per write and read-back of a change, with the rollback of each; the
admission, the verification and the insertion of a login; expiry with the
clock. Worth knowing: the deletion of an API key may be answered as an error
although the key is gone. A restart of the daemon between the two writes of a
password is not modelled: the code keeps no record of it.

### StockRestore — back to the stock firmware

State and code. `nor` is the flash in the regions the restorer overwrites one
after the other; `sdcard` is the card as it is seen, `medium` as it is on the
medium, each with the files that carry the protocol: the staged set (whole, in
part or archived), the selector, the authorization, the records of the run and of
completion, each with its temporary name, and `RESTORE.PSV` with what was
moved into it (`archive`) and its marker (`psv`). `at` names the call of
`restore_stock` that comes next.

Actions. One per call of the restorer: the creation, sync, read-back, rename and
second sync of the run's record, the removal of the authorization, each erase,
write and read-back in order, and the record of completion with the same five
steps. A cut leaves the step under way torn or not and the last change of the
card present or not. The host commands (`staging.py`, `activation.py`,
`passivation.py`) are steps with their refusals that may end half way: a staging
leaves part of the set, an authorization its temporary name, a passivation any
prefix of its moves and a torn or whole `PASSIVE.OK`. The updater of the stock
U-Boot is external: it writes mtd1, then mtd2.

Left out: the path over UART into RAM, and a host roll-back that fails in
its turn.

What the model shows that is worth knowing.

- The restorer reads a temporary status file before it creates one, and creates
  it exclusively only when there is none. A `.RESTORE.RUN.part` torn by a cut
  goes to the read-back, which stops the restorer at every later boot, and no
  host command removes it. A `.RESTORE.OK.part` that a cut leaves behind
  blocks `sd-retry` and `sd-passivate`. `docs/recovery.md:92` says of an interrupted
  run that it "requires sd-retry, another updater pass, and another handoff"; these
  need a file removed by hand first.
- A host killed while it authorizes leaves `.RESTORE.GO.part`, which authorize,
  retry, deactivate and passivate all refuse. The camera may have been in the
  middle of its restore.
- A torn `PASSIVE.OK` blocks every later passivation
  (`tests/test_stock_restore_transactions.py:436` says so), and staging completes no
  set that was staged in part.
- Nothing in the authorization asks for `RESTORE.PSV`. After a passivation that was
  interrupted with both status files moved, the restore can be authorized and
  run again; then status files lie in both places, and passivation refuses.

`StatusLeftover` and `SetLeftover` name these. `RetryIsAdmitted` says that a camera
cut between the first overwriting and the last has none of them but the GO of a
killed host, and everything a retry asks for; `EventuallyRestored` that stock is
back and the card archived in the end, unless one of them stays for ever. Each
exception is needed: without any one of them TLC finds a counterexample.

`CardProofs` proves both safety properties.

### MediaQuarantine — clearing an inconsistent card

State and code. `tree` is the card as the host sees it, `durable` as it is on the
medium; `snapshot` what the manifest says, `destination` how far the archive is,
`receipt` and `durableReceipt` the receipt that follows the removals. `doing` is
the next call of `quarantine_inconsistent_media` with the locals `writing`,
`removed` and `which`. `latest` and `archived` are history: what the owner last put
under each name, and what lies in archives.

Actions. One per rename, sync, unlink and receipt, forwards and backwards; the
host's system writes back when it likes; the host crashes between any two; the
card's owner changes and replaces files while no command looks.

Modelling decisions a reader may question: the owner does not write between a
comparison and the unlink that follows it in the same loop turn; an operator who
starts afresh abandons the old archive.

What the model shows that is worth knowing. `QuarantineSettles`, that the card is
whole or cleared in the end, has three exceptions, and each is needed:

- `OwnersFile`: a file of the installer's that the owner wrote anew, which
  `--resume` refuses to take for the archived one;
- `PartLeftover`: a `.thingino-*-restore.part` that a crash leaves behind makes
  every later `--resume` fail, as the file is created exclusively. The help of
  `--resume` (`user_cli_parser.py:764`) and `docs/installation.md:300-304`
  promise the rollback without this exception;
- `FalseReceipt`: a receipt that is final and not true of the card, because a
  roll-back was begun behind "completed" and did not end, or because a sync had
  failed and the roll-back took a file for restored that was not on the medium.

`CardProofs` proves that no file is lost.

### DaemonThreads, DaemonRequests, MCThreads, MCRequests, MCCards — one run for several parts

Parts that share no state are put side by side, and a behaviour is about one of
them: `DaemonThreads` has the poller, the actions and the server, and is what
`ThreadProofs` is about; `MCThreads` gives it values. `DaemonRequests` has the
settings, the senders and the credentials (proofs in `RequestProofs` and
`SettingsProofs`), `MCRequests` gives it values. `MCCards` does both for the two
works on a card (`CardProofs`).

## 4. What is checked

Each run below is one of `PROJECT.json`; each of its properties has a mutant, a
plausible mistake in a mapped definition, that makes the same run fail.

| Run | Instance | Shows |
|---|---|---|
| `stage1_retries` | 2 initialize builds, 2 credentials, 2 cuts, 1 fault, 2 stagings | the order of the commit points under cuts: a kernel that boots has its system and data; the first erase comes after backup and checkpoint are durable; stock data is never lost; a retry is refused only for want of a camera file, and only on a card whose backup and checkpoint were evacuated; a committed backup is never replaced; a silently bad erase, program or file write is met by a read-back before the next commit point; the proofs' invariants hold |
| `stage1_updates` | 1 initialize and 1 preserve build, 1 cut, 1 fault, 3 stagings | an update never writes the data region and never mixes with a checkpointed install; a retry is refused only for want of a camera file on a card without backup and checkpoint, cut updates included; an operator who keeps trying gets an installed camera, or a half passivated card, or goes on activating over a camera that would start |
| `ha_lifecycle` | 2 saves, 1 shutdown, 1 failure, 1 action, 1 motion change | one thread at a time, no request accepted by a thread that has decided to exit, the depth right, no wakeup swallowed |
| `ha_settles` | 1 shutdown, and 2 saves, or 1 with an action, or 1 with a failure and a motion change | the last settings win; joins return; the broker ends with the camera's level |
| `tl_captures` | 2 outputs, 2 privacy commands, 1 user setting, 1 fault, 1 cut | a listed picture was private throughout; the user's outputs survive a capture |
| `tl_card` | 2 saves, 1 pause, retention on, 1 fault | the pause implements `StoragePause`; a policy shown as known is the file's; saves do not overlap and end; an image that could not be discarded is |
| `sf_card` | 2 recorders, the first started at boot, 2 requests: 1 format, 1 read or deletion; 1 failing command | `FormatIsSafe`: nothing but the storage worker touches the card while it has it; the recorders' files are closed; no stale observation; recorders are resumed and restored |
| `sf_settles` | 1 recorder, 1 request at a time, 1 user setting, 1 failing command | a format ends and reopens the reader; the recorder sees the card again; a user's setting does not come between the format's look and its restore |
| `sf_barrier` | 1 recorder that is started at boot, no fault | violated: see below |
| `daemon_threads` | the poller with 2 configurations, 1 restart or pause, 1 update, 1 failure; the actions with a queue of 2, 3 events, 2 requests of the user, 1 format, 1 failure; the server with 3 workers, 1 permit, a queue of 1, 3 connections | motion is earned by enough results of one producer, announced and shown; it ends its own recordings and no other; no permit is lost, every admitted connection is answered, a shutdown returns |
| `daemon_requests` | each of the 43 handlers with 1 failure or GET and 1 restart; each of the 6 senders with 2 events, 2 requests out of 5, 2 privacy commands, 1 failure, 1 GET; the credentials with 2 changers, 3 logins from 2 addresses, 2 failures, 3 ticks | answers and reports are true; what is sent goes as it was queued, and after a change only what was in hand; a sender is as it is shown; the password's copies stay together; logins are limited |
| `cards` | the restore with 3 cuts, 2 faults, 2 host commands that end half way; the quarantine of 3 files, 2 of them needed, with 2 crashes, 2 faults, 1 change by the owner | a stock kernel lies over the whole stock firmware and completion is recorded truly; a restore cut while it writes can go on; no file is lost; both come to an end that is whole, unless a leftover named in section 3 stays |

Why the bounds are enough. In `Stage1` two cuts are the smallest number that
interrupts a retry, a second staging lets another tuple meet the first one's
checkpoint and a third lets the first meet the second's, and a kernel of four
blocks has an activation span of two, a tail of two and a payload shorter than
the region, so that every loop there turns more than once or ends inside its
part. The loops over the system, which have the form of the kernel's tail, turn
twice in `stage1_updates` and once in `stage1_retries`, those over the data once
in both: two cuts multiply every block, and the proofs are for any number. In
`HaService` a queue of one place is full after one request, which reaches the
refusals at once, and two saves give three launches: one that exits, one that
replaces it and a reconfigure that overlaps both. In `Timelapse` one image is
reused after it is discarded or swept, two privacy commands are on and off again
between two looks, two outputs let a lease stop half way, and one fault is
enough for each cleanup path; saves, pauses and privacy are split over two runs
because they meet in the epochs only, which each run exercises.

In `StorageFormat` two recorders are all there are, and the second is paused
while the first already is; one failing command meets every step in turn, and
the waits fail without it; one request is enough to be between its two looks
while the format drains. Users' settings are in the run with one recorder, as
the mutation lock keeps them apart from the format whatever their number.

In `Motion` two configurations differ in every comparison the machine makes: one
announces at once and is held, one needs two results and waits after a start;
one restart at any poll meets each of the poller's locals. In `MotionActions`
three events over a queue of two are refused once and extend once, and two
requests of the user undo each other; what holds for more is proved. In
`ControlServer` three workers on one permit are one that holds, one that waits
and one that comes late; what holds for more is proved. In `Settings` a second
failure of one request would have to be a second lie of a daemon about the very
value just read (see below); one restart falls between any two commands. Two
parts with two values each are all that one request relates. In `Senders` an
event is taken, in the queue or refused with a queue of one, and two changes of
settings are away and back; the five patches switch on, off, clear a secret,
clear an address and set one that may not carry a secret. In `Credentials` a
window of three ticks is crossed by the largest budget, and two changers wait
for one another; what the senders and the credentials promise for more is
proved. In `cards` three cuts interrupt a restore, its retry and the retry's
retry, two host commands that end half way may be one after the other, with a
restore in between, and three files are one that is removed, one that is being
removed and one that is not yet.

The finding. `run_storage_format` calls its second observation of both recorders
"the format barrier" (`worker.rs:678`). `BarrierHolds` says what that promises:
when the storage worker is asked, no recorder has a file open. In `sf_barrier` a
recorder whose policy starts it at boot, and to which the card was not
available until then, starts itself after that observation and before its
maintenance is paused. The pause makes it stop, but waits for the scan only and
not for the writer, so that the file may be open when the worker unmounts. The
unmount is refused and the card is safe; the format fails, and the recording due
since boot is used up and not started again. `FilesAreClosed`, which holds,
is the same statement without those recorders.

`HaService` may stop: with no worker wanted and the bounds used up nothing is
left to do, so its configurations switch the deadlock check off, and so do
`Threads.cfg`, `Requests.cfg` and `Cards.cfg`, whose parts are over when their
bounds are.
`Stage1`, `Timelapse` and `StorageFormat` never stop, and theirs leave it on.
`StorageFormatCard.cfg` counts requests up to who makes them; it checks
invariants only.

### Fairness

- `Stage1`: the camera's own steps are weakly fair, as PID 1 runs alone. The
  operator switches off a camera that waits or failed (weak), and keeps trying
  the host commands of the installation guide that the card admits (strong, since
  the camera's cycles disable them again and again), either evacuation among
  them. The lower-level activation he gives in the end only while both camera
  files are there and the camera would start nothing; at other times he may.
  Cuts and faults are never forced. `EventuallyInstalled` has three exceptions: a
  half passivated card that stays so (section 3), which is a dead end of the
  code; a card whose camera files are gone with no staging left, which is one of
  the bound `MaxStagings`; and an operator who for ever activates the passive set
  over a camera that would start by itself.
- `HaService`: the threads and handlers are scheduled (weak). A reachable broker
  accepts in the end, and the 500 ms poll is due in the end, though other turns of
  the loop come in between (strong); `connected_session` tests the deadline in
  every turn. `SettingsTakeEffect` and `MotionIsPublished` except a launch the
  system refused, which the code retries at the next save only, and the first
  also a daemon that was told to shut down.
- `Timelapse`: the worker never blocks for longer than its 100 ms sleep (weak),
  a caller sends at once (weak), a pause gives up after three seconds or is held
  until its format ends (strong, unless the outcome stays unknown and the pause
  is never dropped), and the upkeep is due again within 60 seconds (strong).
- `StorageFormat`: requests, the reader, the format thread and the storage worker
  are scheduled (weak): each of their steps ends by a deadline in the code. A
  recorder's scan goes on and ends when the card answers (weak). Recording, the
  user, the timelapse's work and the reboot are never forced.

- `Motion`: the poller is a thread, an update has a worker of the server, and
  the detector is resumed by the command that paused it (weak). Results are
  not: `MotionIsShown` is about a detector that goes on producing.
- `MotionActions`: the thread, the user's handler and the format are scheduled,
  the recording's end comes, and a writer opens and closes its file in the end
  (weak).
- `ControlServer`: each worker goes on, since reads, operations and answers have
  deadlines and the gate's wait a timeout; the accepting thread joins (weak).
- `StockRestore`: the restorer is alone on the camera and the updater runs by
  itself (weak); an operator switches off what has ended and lets the updater boot
  (weak), boots the restorer again and keeps trying the host command the card
  admits (strong, since cuts and other commands disable both for a while).
- `MediaQuarantine`: the command goes on (weak) and an operator resumes it as
  often as it was interrupted (strong). Crashes, faults and the owner are
  never forced. In both, an exception must hold for ever from some time on: a
  leftover that a later command takes away excuses nothing.
- `Settings`, `Senders` and `Credentials` are checked for safety only.

## 5. What is proved

The theorems are `THEOREM`s of the specifications of section 3, for every value
of the constants that the named assumptions admit. Where an invariant of a run
is not inductive, the strengthening is stated beside it, and TLC has checked it
before it was proved (`RetryInv` is still one of the properties of
`stage1_retries`). Each proof has a lemma per group of actions, under it one step
per action, and under that one step per conjunct the action can disturb.

| Module | Theorems | Rest on |
|---|---|---|
| `Stage1Proofs` | `TypeCorrect`, `ActivationIsComplete`, `Invariance`; `InstallStaysSafe`, `FlashStaysAttributable`, `BackupStays`, `DataStays`, `RecoveryInvariance`; `RetriesAreAdmitted`, `RetryInvariance` | `IInv`, `RecoveryInv`, `RetryInv` |
| `HaServiceProofs` | `ServiceStaysConsistent`, `WakeupStays`, `HaInvariance` | `HaInv` |
| `TimelapseProofs` | `ListedStaysPrivate`, `OutputsStayTheUsers`, `PolicyStaysConsistent`, `PausesArePromised`, `TimelapseInvariance` | `TimelapseInv` |
| `StorageFormatProofs` | `FormatStaysSafe`, `RecordersAreLeftWell`, `FormatInvariance` | `FormatInv` |
| `ThreadProofs` | `GateKeepsPermits`, `MotionIsEarned`, `ThreadsStayConsistent`, `MotionStopsItsOwn`, `MotionInvariance` | `ServerInv`, `MotionInv`, `ActionInv` |
| `RequestProofs` | `SenderStaysAsShown`, `NothingStaleGoesOut`, `SenderInvariance`, `SendingInvariance`; `CredentialsStayTogether`, `AttemptsStayLimited`, `CredentialInvariance` | `SenderInv`, `SendingInv`, `CredInv` |
| `SettingsProofs` | `AnswersTellTheTruth`, `ReportsTellTheTruth`, `ExcludedStayApart`, `SettingsAreTyped`, `SettingsKeepInvariant`; `RequestsStayConsistent` | `Sound`, `SettingsInv`, `SavedInv` |
| `CardProofs` | `RestoreKeepsSafe`, `RestoreAdmitsRetry`, `RestoreInvariance`; `QuarantineLosesNothing`, `QuarantineInvariance` | `RestoreInv`, `KilledInv`, `QuarantineInv` |

### Stage 1

Assumed: builds and credentials are disjoint and each build has one data action
(`BuildsAssumption`); absence and torn content are no content
(`AbsenceAssumption`); the regions are not empty, and the payload of the kernel
reaches past its activation span and fits (`GeometryAssumption`; in the code the
constants checked at compile time); the bounds are naturals.

That a kernel which boots is over its own system is not inductive. A step that
programs the last block of the activation span completes a kernel, and only
what came before says that the system is complete. `IInv` says it:

- `RunBound`: past the snapshot the build in RAM is the one in mtd2;
- `SelectorAhead`, `BackupAhead`: what the updater and the renames find;
- `CursorBound`: the block loops stay in their part of the region, so that the
  tail's loops never touch the activation span and its loops never the tail;
- `InstallerAhead`: until the activation span is erased, mtd1 starts with an
  installer block, so it equals no final kernel;
- `SystemAhead`: from the verification of the system on it is complete, and
  past the tail's the block behind the activation span is the same build's.

The block behind the span is what makes the argument work across a cut: a
kernel assembled from a half-written attempt would need it, and nothing but
the tail loop, which runs behind the verified system, writes it.

`RecoveryInv` adds what a second attempt finds: until the installer changes a
file the card is as on the medium; a committed backup is never written over, and
a checkpoint is on either view of the card only with the durable backup it
binds; a checkpoint, the camera files and the run name one build and one set of
credentials; every block of the NOR is one of four contents that a checkpoint on
the card accounts for; once the content is not stock any more its backup is on
the medium or in an archive. Three lemmas on the shape of steps (a step changes
the NOR, or one file of the card, or what is durable) let each conjunct be
shown for the few actions that can disturb it.

`RetryInv` adds what the loops have done while nothing has failed, block by
block, and what the host's commands leave consistent. With it no read-back
refuses and no restaging mixes two tuples. What the camera files on the card say
agrees with the staged build (`CameraFilesAgree`), and so does a checkpoint, which
is always an initialize build's (`CheckpointIsStaged`). A camera file that was
there is missing only where an install has passivated the card (`GoneIsBehind`):
either its checkpoint is still on the card, which refuses the lower-level
activation, and its kernel boots; or backup and checkpoint are gone, behind an
update, which takes none, or evacuated, and then only may Stage 1 run again and
refuse for the file that is gone. That is `CutsNeverStrand`: as long as backup
and checkpoint are on the card, nothing refuses; without them, the file that is
missing is what is named. `stage1_retries` runs through the second case with
initialize builds and `stage1_updates` with both.

### The daemon

`HaService` (`SettingsAssumption`, `LimitsAssumption`, `NoneAssumption`). `HaInv`:
generations to come are fresh and name the threads, the control is that of the
only thread there is, the depth is its queue's, and a session that is up waits
for a slot only at the points that still hold its wakeup. The depth is what a
handler and the worker change in separate steps; it is the length of the queue
that the current control leads to, plus what one is about to add or subtract.

`Timelapse` (`ImagesAssumption`, `PoliciesAssumption`, `NoneAssumption`,
`LimitsAssumption`). `TimelapseInv` says what each generation counts, where a
save is, whose the lock is, that the card is worked on only while it is claimed
(`CardIsClaimed`), which outputs a capture may still give back (`LeaseHolds`),
what its fences have seen (`FencesAreThere`, `ShotIsPrivate`) and that what is
listed has been through them (`CardIsClean`). `PausesArePromised` is the
refinement: `writing` is the worker's claim, and every step is one of
`StoragePause`'s or leaves both variables alone. A grant takes `CardIsClaimed`,
a beginning that no pause is up where the worker claims.

`StorageFormat` (`ClientsAssumption`, `NoneAssumption`, `ChannelsAssumption`,
`LimitsAssumption`). `FormatInv`: the thread's part (`ThreadInv`: one format at a
time, the lock and the pause are its own, the drain is the last job let in) and
one part per recorder (`RecordersInv`): what the thread knows of it at each of
its points, which recorders it has seen closed, which may be left paused, which
are owed a recording. The thread's loops over the recorders are taken one turn at
a time; `LoopCases` says what a turn comes to for one or two recorders, which is
all `ChannelsAssumption` admits and the camera has.

`ControlServer` (`ServerAssumption`). That no permit is lost is not inductive: a
waiter that has been woken may find the permit taken and sleep again.
`HeldAtWork` ties a permit to the two points where it is held, and `PermitsAreDue`
says that while anybody waits, the permits in use and the workers that have been
woken are together no fewer than all permits: whoever takes a permit after being
woken moves from one number to the other, whoever sleeps again has seen all
permits in use, and a permit given back wakes one of those that wait.

`Motion` and `MotionActions` (`MotionConfigs`, `AlertCapacityAssumption`).
`MotionInv`: the machine has counted no more results than the producer has
produced, the one that waits to be read aside, and the level shown, the
machine's and the announced one are the same. `ActionInv`: whoever is at work on
the recorder has the mutation lock, the user's generation has moved by the
time the user has it and not while motion has it, and what motion believes to be
its own while the user has asked for nothing is, or there is no recording and
none to put back.

`Senders` (`SenderAssumption`). `SenderInv`: the generation is behind the changes
that have begun by what the request in hand has still to add (`Lead`), no event is
older than its generation says, a request has made live what it saved, a mask is
found out by its generation or by its state, and a GET that saw no agreement
answers none. It holds of all six senders; a step is split by what it does and
not by whose it is. `SendingInv` follows an event on its way (`OnItsWay`: in the
channel, with the one who offers or with the worker): while its generation is the
live one, its settings are the live ones, and when it is the next one's, those
about to be assigned (`KeepsItsSettings`); what the worker cloned behind its
check is what the event was queued under (`EventsKeepTheirSettings`). Once an older
event has been posted, the one in hand is not older (`LateIsOver`), since it
passed the check after the change was live.

`Credentials` (`CredentialAssumption`). `CredInv`: the lock is held from end to
end, the two files are as far as its holder's point says, a session's number is
its own. For the limit, a window keeps count of its own attempts, and of those
before it no more than the limit are less than a window's time before it: any
stretch of a window's length meets two windows at most, so that at most twice
the limit are in it. The counting uses the theorems on finite sets.

`StockRestore` and `MediaQuarantine` (`RestoreAssumption`,
`QuarantineAssumption`). `RestoreInv` says, for the card as it is seen and as it is
on the medium alike, what each point of the restorer relies on, which regions are
stock again, and where a completed restore is archived or authorized once
more. `KilledInv` adds that a temporary authorization is a killed host's.
`QuarantineInv`: what is not on the card any more is in the
archive, which was durable before the receipt was, which was durable before the
first removal; a file the owner has changed since is no longer the one
recorded, and is not removed.

### Settings

`Settings` (`SettingAssumption`: the parameter `NoValue` is no value, the bounds
are naturals, the names are those of handlers, the budgets are known ones). The
machine is one, the handlers are 43, so the argument has two halves.

`Sound` says of a handler, without running it, what its truth rests on: it only
looks and compares before it changes anything (`Asks`); it sets what it is asked
for and nothing else (`Does`); it makes sure in one of four ways (`Assures`: set,
save and look again; write the file and have each process load it; one command
for all; a switch that is not saved); it looks at what waits for a restart last
(`Announces`); a GET reads what it compares (`Reports`); values that exclude each
other are refused by the daemon or sent together (`Excludes`).
`HandlersAreSound` proves it of all 43, and a handler that was changed in the
source would have to be looked at there only.

`SettingsInv` and `SavedInv` hold of the machine for any sound handler. Each part
says of every command that has run what it has left behind:

- `FlowInv`: what is sent is what is wanted, or merged from what was looked at;
- `RestInv`: what the request does not name is on disk and in memory one of
  the two values it was before; `NothingYet`: nothing has changed before the
  first set, nor when a refusal is plain;
- `PendingInv`, `PendingTold`: what the last looks at the camera have found still
  awaits a restart, so that the answer says so just when it is true;
- `LoadedInv`, `CommittedInv`, `SwitchedInv`, `SavedInv`: for each of the four ways,
  what is known after the set, after the save and after each look;
- `ReadInv`: while a GET has never seen the places it compares alike, neither has
  changed since it was read.

All but `SavedInv` hold however many commands deceive. `SavedInv`, and with it
`AnswersTellTheTruth`, takes `SettingFailures <= 1`: a set that is answered without
effect, then a save that is, over a file which an earlier half-done request left
with the very value asked for, pass every look of every handler that saves.
That is the one hypothesis added to the specification's, and the
runs have the same bound (section 3).

`RequestsStayConsistent` is the invariant of `daemon_requests`: the settings are
typed and exclude each other, and the senders and the credentials are typed.

TLC checked the parts of `SettingsInv` and `SavedInv` on the instance of
`daemon_requests` before they were proved. The plan of this proof found the model
wrong in one place, which had made the acceptance of a change of size unreachable:
how RVD's reply on the region that follows is compared (`FollowsAsExpected`).

### What is only checked

- Every liveness property (`EventuallyInstalled`, `MotionIsPublished`, `FormatsEnd`
  and the others of section 4): fairness and ENABLED are out of TLAPS's reach.
- `BarrierHolds`, which is violated.

Every invariant and every action property of a passing run is a theorem. The
theorems are about the modules; that the values given to the constants by the
`MC` modules meet the named assumptions is evaluated by TLC on every run.

## 6. Not modelled

- Formats, packing, parsing and rendering; the Raptor protocol, WHIP and the
  browser bridge below "succeeded, failed or uncertain"; the protocols of the
  senders below "sent": each is one bounded exchange.
- Domains of the settings file other than the senders' (admin, web UI, syslog,
  network, crontab): parsed and replaced one at a time under one lock, with
  nobody reading them meanwhile.
- The replacement of a passive package and the closure of a card, whose
  transactions are like the quarantine's; a stock restore over UART into RAM.
- The recorder's restart with a policy of its own, clips and pages, an image that
  the user deletes, MQTT framing and inbound commands.
- Image, package and build tools, boot scripts, the web interface and other
  projects' sources patched here: sequential, or not this repository's program.
