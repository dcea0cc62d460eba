------------------------------ MODULE HaService ------------------------------
(***************************************************************************)
(* The Home Assistant worker of thingino-control (camera/ha): a service    *)
(* object shared by HTTP handlers, the motion poller and one worker        *)
(* thread, which it launches, reconfigures, stops and joins, and talks to  *)
(* through a bounded queue, a generation counter and a one-place motion    *)
(* slot.                                                                   *)
(*                                                                         *)
(* A critical section of the worker mutex is one step. What runs outside   *)
(* it is a step per shared access: the worker reads the generation, drains *)
(* the queue, resets the slot and reads the motion level separately.       *)
(***************************************************************************)
EXTENDS Integers, Sequences, FiniteSets, SequencesExt

CONSTANTS
    Capacity,       \* EVENT_QUEUE_CAPACITY
    Levels,         \* motion levels the camera reports, NoLevel when it has none
    None,           \* no worker control, no request being posted
    Saved,          \* settings the HTTP API may save
    Found,          \* settings the daemon may find when it starts
    MaxSaves,       \* bound: saves of the settings
    MaxShutdowns,   \* bound: calls of shutdown
    MaxFailures,    \* bound: failures of the broker or of state collection
    MaxPosts,       \* bound: actions posted to the service
    MaxFlips,       \* bound: changes of the motion level
    Budgets         \* what of these bounds one behaviour may use

(* What load() and worker_loop tell apart in the settings document:        *)
(* disabled, no broker host, without or with the motion entity, unreadable.*)
Settings == {"off", "nohost", "quiet", "motion", "invalid"}
Enabled(c) == c \in {"nohost", "quiet", "motion"}
WantsMotion(c) == c \in {"nohost", "motion"}

(* What the camera reports, and the broker keeps, when motion is not known. *)
NoLevel == ""

(* RepublishDiscovery and PublishState are one request: the session treats *)
(* them alike except for the topics it repeats.                            *)
Requests == {"reconnect", "publish", "motion"}
Posted == {"reconnect", "publish"}

ASSUME SettingsAssumption ==
    /\ Saved \subseteq Settings \ {"invalid"}
    /\ Found \subseteq Settings

ASSUME LimitsAssumption ==
    /\ Capacity \in Nat \ {0}
    /\ {MaxSaves, MaxShutdowns, MaxFailures, MaxPosts, MaxFlips} \subseteq Nat
    /\ Budgets \subseteq [saves : 0..MaxSaves, failures : 0..MaxFailures,
                          posts : 0..MaxPosts, flips : 0..MaxFlips]

(* A reconfigure increments the generation and may launch one thread, so   *)
(* launch_generation names the thread.                                     *)
Generations == 0 .. MaxSaves + 2
Launches == 2 .. MaxSaves + 2

(* WorkerControl: the thread, whether it is to stop, and what is left of   *)
(* its sender and its handle.                                              *)
Controls == [launch : Launches, state : {"Running", "Stopping"},
             sender : BOOLEAN, handle : BOOLEAN]

ASSUME NoneAssumption == None \notin Requests /\ None \notin Controls

VARIABLES
    config,              \* the settings document
    config_generation, accept_motion, queue_depth,
    wakeup_queued,       \* the motion slot is taken
    worker,              \* WorkerControl, or None
    queue,               \* the channel of each launch
    shutdown_requested,  \* the flag of each launch
    thread,              \* what the thread of each launch is doing
    state,               \* RuntimeState.state
    admin,               \* the handler that saves and reconfigures
    closer,              \* the caller of shutdown
    client,              \* a request whose action() has read the settings
    level,               \* what the camera reports about motion
    notify,              \* the motion poller has an event to hand over
    retained,            \* motion payload retained by the broker
    saves, shutdowns, failures, posts, flips   \* what is left of each bound

service == <<config_generation, accept_motion, queue_depth, wakeup_queued,
             worker, shutdown_requested, state>>
callers == <<config, admin, closer, client>>
motion == <<level, notify>>
bounds == <<saves, shutdowns, failures, posts, flips>>
vars == <<service, callers, motion, bounds, queue, thread, retained>>

Fresh == [pc |-> "none", observed |-> 0, config |-> "off", next |-> 0,
          stale |-> FALSE, up |-> FALSE, active |-> NoLevel, motion |-> FALSE,
          publish |-> FALSE]

PCs == {"none", "top", "load", "control", "drain", "handshake", "discovery",
        "collect", "states", "resync", "reset", "read",
        "publish", "poll", "requests", "backoff", "exiting", "exited"}

(* The points of a session that is up: the loop after "online". *)
Connected(t) == thread[t].up

Init ==
    /\ config \in Found
    /\ config_generation = 1
    /\ accept_motion = FALSE /\ wakeup_queued = FALSE /\ queue_depth = 0
    /\ worker = None
    /\ queue = [t \in Launches |-> <<>>]
    /\ shutdown_requested = [t \in Launches |-> FALSE]
    /\ thread = [t \in Launches |-> Fresh]
    /\ state = "disabled"
    /\ admin = [pc |-> "load", config |-> "off", launch |-> 0]
    /\ closer = [pc |-> "idle", launch |-> 0]
    /\ client = None
    /\ level \in Levels /\ notify = FALSE /\ retained = NoLevel
    /\ shutdowns = MaxShutdowns
    /\ \E b \in Budgets : /\ saves = b.saves /\ failures = b.failures
                         /\ posts = b.posts /\ flips = b.flips

(***************************************************************************)
(* reconfigure: start_ha calls it once, a save of the settings each time,  *)
(* under the mutation lock; there is one at a time.                        *)
(***************************************************************************)
save(c) ==
    /\ admin.pc = "idle" /\ saves > 0
    /\ config' = c
    /\ admin' = [admin EXCEPT !.pc = "load"]
    /\ saves' = saves - 1
    /\ UNCHANGED <<service, queue, thread, closer, client, motion, retained,
                   shutdowns, failures, posts, flips>>

reconfigure_load ==
    /\ admin.pc = "load"
    /\ admin' = [admin EXCEPT !.pc = "lock", !.config = config]
    /\ state' = IF config = "invalid" THEN "error" ELSE state
    /\ UNCHANGED <<config_generation, accept_motion, queue_depth, wakeup_queued,
                   worker, shutdown_requested, queue, thread, config, closer,
                   client, motion, retained, bounds>>

(* Under the mutex: a running worker will notice the generation; a stopped *)
(* one is taken to be joined; one that another caller joins is left alone. *)
reconfigure_lock ==
    /\ admin.pc = "lock"
    /\ accept_motion' = WantsMotion(admin.config)
    /\ wakeup_queued' = FALSE
    /\ config_generation' = config_generation + 1
    /\ \/ /\ worker = None
          /\ admin' = [admin EXCEPT !.pc = "launch"]
          /\ UNCHANGED worker
       \/ /\ worker # None
          /\ worker.state = "Running" \/ ~worker.handle
          /\ admin' = [admin EXCEPT !.pc = "idle"]
          /\ UNCHANGED worker
       \/ /\ worker # None
          /\ worker.state = "Stopping" /\ worker.handle
          /\ worker' = [worker EXCEPT !.handle = FALSE]
          /\ admin' = [admin EXCEPT !.pc = "join", !.launch = worker.launch]
    /\ UNCHANGED <<queue_depth, shutdown_requested, state, queue, thread,
                   config, closer, client, motion, retained, bounds>>

JoinedIs(launch) ==
    /\ worker # None
    /\ worker.launch = launch /\ worker.state = "Stopping" /\ ~worker.handle

reconfigure_join ==
    /\ admin.pc = "join"
    /\ thread[admin.launch].pc = "exited"
    /\ worker' = IF JoinedIs(admin.launch) THEN None ELSE worker
    /\ admin' = [admin EXCEPT !.pc = "launch"]
    /\ UNCHANGED <<config_generation, accept_motion, queue_depth, wakeup_queued,
                   shutdown_requested, state, queue, thread, config, closer,
                   client, motion, retained, bounds>>

Launch ==
    /\ worker' = [launch |-> config_generation, state |-> "Running",
                  sender |-> TRUE, handle |-> TRUE]
    /\ thread' = [thread EXCEPT ![config_generation].pc = "top"]
    /\ UNCHANGED <<accept_motion, wakeup_queued, queue_depth, state, failures>>

SpawnFails ==
    /\ failures > 0
    /\ failures' = failures - 1
    /\ accept_motion' = FALSE /\ wakeup_queued' = FALSE /\ queue_depth' = 0
    /\ state' = "error"
    /\ UNCHANGED <<worker, thread>>

reconfigure_launch ==
    /\ admin.pc = "launch"
    /\ admin' = [admin EXCEPT !.pc = "idle"]
    /\ \/ /\ admin.config = "off"
          /\ state' = "disabled"
          /\ UNCHANGED <<accept_motion, wakeup_queued, queue_depth, worker,
                         thread, failures>>
       \/ /\ admin.config # "off" /\ worker # None
          /\ UNCHANGED <<accept_motion, wakeup_queued, queue_depth, state,
                         worker, thread, failures>>
       \/ admin.config # "off" /\ worker = None /\ (Launch \/ SpawnFails)
    /\ UNCHANGED <<config_generation, shutdown_requested, queue, config, closer,
                   client, motion, retained, saves, shutdowns, posts, flips>>

(***************************************************************************)
(* shutdown: refuse motion, ask the worker to stop, join it outside the    *)
(* mutex.                                                                  *)
(***************************************************************************)
shutdown_refuse_motion ==
    /\ closer.pc = "idle" /\ shutdowns > 0
    /\ accept_motion' = FALSE /\ wakeup_queued' = FALSE
    /\ closer' = [closer EXCEPT !.pc = "lock"]
    /\ shutdowns' = shutdowns - 1
    /\ UNCHANGED <<config_generation, queue_depth, worker, shutdown_requested,
                   state, queue, thread, config, admin, client, motion,
                   retained, saves, failures, posts, flips>>

StopWithoutRequest ==   \* variant: the thread is not told to stop
    /\ closer.pc = "lock"
    /\ \/ worker = None /\ closer' = [closer EXCEPT !.pc = "idle"] /\ UNCHANGED worker
       \/ /\ worker # None
          /\ worker' = [worker EXCEPT !.state = "Stopping", !.handle = FALSE]
          /\ closer' = IF worker.handle
                       THEN [pc |-> "join", launch |-> worker.launch]
                       ELSE [closer EXCEPT !.pc = "idle"]
    /\ UNCHANGED <<config_generation, accept_motion, wakeup_queued, queue_depth,
                   shutdown_requested, state, queue, thread, config, admin,
                   client, motion, retained, bounds>>

shutdown_stop ==
    /\ closer.pc = "lock"
    /\ \/ /\ worker = None
          /\ queue_depth' = 0
          /\ closer' = [closer EXCEPT !.pc = "idle"]
          /\ UNCHANGED <<worker, shutdown_requested>>
       \/ /\ worker # None
          /\ worker' = [worker EXCEPT !.state = "Stopping", !.sender = FALSE,
                                      !.handle = FALSE]
          /\ shutdown_requested' =
                [shutdown_requested EXCEPT ![worker.launch] = TRUE]
          /\ closer' = IF worker.handle
                       THEN [pc |-> "join", launch |-> worker.launch]
                       ELSE [closer EXCEPT !.pc = "idle"]
          /\ UNCHANGED queue_depth
    /\ UNCHANGED <<config_generation, accept_motion, wakeup_queued, state,
                   queue, thread, config, admin, client, motion, retained,
                   bounds>>

shutdown_join ==
    /\ closer.pc = "join"
    /\ thread[closer.launch].pc = "exited"
    /\ IF JoinedIs(closer.launch)
       THEN worker' = None /\ queue_depth' = 0
       ELSE UNCHANGED <<worker, queue_depth>>
    /\ closer' = [closer EXCEPT !.pc = "idle"]
    /\ UNCHANGED <<config_generation, accept_motion, wakeup_queued,
                   shutdown_requested, state, queue, thread, config, admin,
                   client, motion, retained, bounds>>

(***************************************************************************)
(* The other callers: HTTP actions and the motion poller.                  *)
(***************************************************************************)
Running == worker # None /\ worker.state = "Running" /\ worker.sender

(* try_send: refused when the channel is full or its receiver is gone.     *)
Accepts(launch) ==
    /\ Len(queue[launch]) < Capacity
    /\ thread[launch].pc # "exited"

enqueue_to(launch, request) ==
    /\ queue' = [queue EXCEPT ![launch] = Append(@, request)]
    /\ queue_depth' = queue_depth + 1

(* action() reads the settings before it takes the worker mutex.           *)
action_check(request) ==
    /\ client = None /\ posts > 0
    /\ Enabled(config)
    /\ client' = request
    /\ posts' = posts - 1
    /\ UNCHANGED <<service, queue, thread, config, admin, closer, motion,
                   retained, saves, shutdowns, failures, flips>>

enqueue ==
    /\ client # None
    /\ client' = None
    /\ IF Running /\ Accepts(worker.launch)
       THEN enqueue_to(worker.launch, client)
       ELSE UNCHANGED <<queue, queue_depth>>
    /\ UNCHANGED <<config_generation, accept_motion, wakeup_queued, worker,
                   shutdown_requested, state, thread, config, admin, closer,
                   motion, retained, bounds>>

(* The poller updates its state first and hands the event over after;      *)
(* losing the observation is a change without an event.                    *)
motion_changes(to) ==
    /\ ~notify /\ flips > 0 /\ to # level
    /\ level' = to
    /\ notify' = (to # NoLevel)
    /\ flips' = flips - 1
    /\ UNCHANGED <<service, queue, thread, callers, retained, saves, shutdowns,
                   failures, posts>>

(* submit: the slot coalesces behind one queued wakeup.                    *)
enqueue_motion ==
    /\ notify
    /\ notify' = FALSE
    /\ IF accept_motion /\ Running /\ ~wakeup_queued /\ Accepts(worker.launch)
       THEN wakeup_queued' = TRUE /\ enqueue_to(worker.launch, "motion")
       ELSE UNCHANGED <<wakeup_queued, queue, queue_depth>>
    /\ UNCHANGED <<config_generation, accept_motion, worker, shutdown_requested,
                   state, thread, callers, level, retained, bounds>>

(* Both the mutex and the slot are only tried: contention drops the event. *)
motion_contended ==
    /\ notify
    /\ notify' = FALSE
    /\ UNCHANGED <<service, queue, thread, callers, level, retained, bounds>>

(***************************************************************************)
(* worker_loop, between sessions.                                          *)
(***************************************************************************)
Goto(t, pc) == thread' = [thread EXCEPT ![t].pc = pc]

(* The end of a session: connected is cleared, the loop starts over with   *)
(* the generation the session ended for.                                   *)
SessionEnds(t, pc, observed) ==
    thread' = [thread EXCEPT ![t] = [Fresh EXCEPT !.pc = pc,
                                                  !.observed = observed]]

check_generation(t) ==
    /\ thread[t].pc = "top"
    /\ IF shutdown_requested[t]
       THEN Goto(t, "exiting")
       ELSE thread' = [thread EXCEPT ![t].pc = "load",
                                     ![t].observed = config_generation]
    /\ UNCHANGED <<service, queue, callers, motion, retained, bounds>>

load_settings(t) ==
    /\ thread[t].pc = "load"
    /\ \/ /\ config = "invalid"
          /\ wakeup_queued' = FALSE /\ state' = "error"
          /\ Goto(t, "backoff")
       \/ /\ config = "off"
          /\ wakeup_queued' = FALSE /\ state' = "disabled"
          /\ Goto(t, "exiting")
       \/ /\ config = "nohost"
          /\ state' = "error"
          /\ Goto(t, "exiting")
          /\ UNCHANGED wakeup_queued
       \/ /\ config \in {"quiet", "motion"}
          /\ state' = "connecting"
          /\ thread' = [thread EXCEPT ![t].pc = "control", ![t].config = config]
          /\ UNCHANGED wakeup_queued
    /\ UNCHANGED <<config_generation, accept_motion, queue_depth, worker,
                   shutdown_requested, queue, callers, motion, retained, bounds>>

Failure(t) ==
    /\ SessionEnds(t, "backoff", thread[t].observed)
    /\ state' = "backoff"

(* wait_backoff looks at the flag and the generation each second, and      *)
(* wakes for any request but motion.                                       *)
backoff_check(t) ==
    /\ thread[t].pc = "backoff"
    /\ \/ shutdown_requested[t] /\ Goto(t, "exiting")
       \/ /\ ~shutdown_requested[t]
          /\ SessionEnds(t, "top", IF config_generation # thread[t].observed
                                   THEN config_generation
                                   ELSE thread[t].observed)
    /\ UNCHANGED <<service, queue, callers, motion, retained, bounds>>

HasSender(t) == worker # None /\ worker.launch = t /\ worker.sender

backoff_receive(t) ==
    /\ thread[t].pc = "backoff"
    /\ \/ /\ queue[t] # <<>>
          /\ queue' = [queue EXCEPT ![t] = Tail(@)]
          /\ queue_depth' = queue_depth - 1
          /\ IF Head(queue[t]) = "motion" THEN UNCHANGED thread ELSE Goto(t, "top")
       \/ /\ queue[t] = <<>> /\ ~HasSender(t)
          /\ Goto(t, "exiting")
          /\ UNCHANGED <<queue, queue_depth>>
    /\ UNCHANGED <<config_generation, accept_motion, wakeup_queued, worker,
                   shutdown_requested, state, callers, motion, retained, bounds>>

(***************************************************************************)
(* worker_exited: under the mutex the thread either starts over, when a    *)
(* reconfigure came after the generation it acted on, or is gone.          *)
(***************************************************************************)
ExitWithoutStopping(t) ==   \* variant: the control still says Running
    /\ thread[t].pc = "exiting"
    /\ worker' = [worker EXCEPT !.sender = FALSE]
    /\ accept_motion' = FALSE /\ wakeup_queued' = FALSE /\ queue_depth' = 0
    /\ Goto(t, "exited")
    /\ queue' = [queue EXCEPT ![t] = <<>>]
    /\ UNCHANGED <<config_generation, shutdown_requested, state, callers, motion,
                   retained, bounds>>

ExitDespiteReconfigure(t) ==   \* variant: the generation is not compared
    /\ thread[t].pc = "exiting"
    /\ worker' = [worker EXCEPT !.state = "Stopping", !.sender = FALSE]
    /\ accept_motion' = FALSE /\ wakeup_queued' = FALSE /\ queue_depth' = 0
    /\ Goto(t, "exited")
    /\ queue' = [queue EXCEPT ![t] = <<>>]
    /\ UNCHANGED <<config_generation, shutdown_requested, state, callers, motion,
                   retained, bounds>>

(* The control of a thread is its own until the thread has been joined.    *)
StartsOver(t) ==
    /\ worker.state = "Running" /\ ~shutdown_requested[t]
    /\ config_generation # thread[t].observed

worker_exited(t) ==
    /\ thread[t].pc = "exiting"
    /\ IF worker = None \/ worker.launch # t
       THEN /\ Goto(t, "exited")
            /\ UNCHANGED <<worker, accept_motion, wakeup_queued, queue_depth>>
       ELSE IF StartsOver(t)
       THEN /\ queue_depth' = queue_depth - Len(queue[t])
            /\ SessionEnds(t, "top", 0)
            /\ UNCHANGED <<worker, accept_motion, wakeup_queued>>
       ELSE /\ worker' = [worker EXCEPT !.state = "Stopping", !.sender = FALSE]
            /\ accept_motion' = FALSE /\ wakeup_queued' = FALSE
            /\ queue_depth' = 0
            /\ Goto(t, "exited")
    /\ queue' = [queue EXCEPT ![t] = <<>>]   \* drained, or dropped with it
    /\ UNCHANGED <<config_generation, shutdown_requested, state, callers, motion,
                   retained, bounds>>

(***************************************************************************)
(* connected_session. "control" and "drain" are session_control: the flag  *)
(* and the generation are read first, the queue is emptied after.          *)
(***************************************************************************)
Current(t) ==
    config_generation = thread[t].observed /\ ~shutdown_requested[t]

session_control(t) ==
    /\ thread[t].pc = "control"
    /\ IF shutdown_requested[t]
       THEN SessionEnds(t, "exiting", thread[t].observed)
       ELSE thread' = [thread EXCEPT
                ![t].pc = "drain",
                ![t].next = config_generation,
                ![t].stale = (config_generation # thread[t].observed)]
    /\ UNCHANGED <<service, queue, callers, motion, retained, bounds>>

(* A reconnect leaves the requests behind it for the next session; a       *)
(* reconfigure discards them all; before the session is up they are        *)
(* dropped, for it starts by publishing everything.                        *)
Taken(t) ==
    IF ~thread[t].stale /\ Contains(queue[t], "reconnect")
    THEN {n \in DOMAIN queue[t] :
            /\ queue[t][n] = "reconnect"
            /\ \A i \in 1 .. (n - 1) : queue[t][i] # "reconnect"}
    ELSE {Len(queue[t])}

drain(t) ==
    /\ thread[t].pc = "drain"
    /\ \E n \in Taken(t) :
       LET taken == SubSeq(queue[t], 1, n)
           reconnect == ~thread[t].stale /\ Contains(taken, "reconnect")
       IN /\ queue' = [queue EXCEPT ![t] = SubSeq(@, n + 1, Len(@))]
          /\ queue_depth' = queue_depth - n
          /\ \/ /\ reconnect
                /\ SessionEnds(t, "top", thread[t].observed)
             \/ /\ ~reconnect /\ ~HasSender(t)
                /\ SessionEnds(t, "exiting", thread[t].observed)
             \/ /\ ~reconnect /\ HasSender(t) /\ thread[t].stale
                /\ SessionEnds(t, "top", thread[t].next)
             \/ /\ ~reconnect /\ HasSender(t) /\ ~thread[t].stale
                /\ thread' = [thread EXCEPT
                        ![t].pc = IF Connected(t) THEN "poll" ELSE "handshake",
                        ![t].motion = Connected(t) /\ Contains(taken, "motion"),
                        ![t].publish = Connected(t) /\ Contains(taken, "publish")]
    /\ UNCHANGED <<config_generation, accept_motion, wakeup_queued, worker,
                   shutdown_requested, state, callers, motion, retained, bounds>>

(* The connect loop: not answered yet, or CONNACK.                         *)
connect_waits(t) ==
    /\ thread[t].pc = "handshake"
    /\ Goto(t, "control")
    /\ UNCHANGED <<service, queue, callers, motion, retained, bounds>>

connect_accepted(t) ==
    /\ thread[t].pc = "handshake"
    /\ IF Current(t)
       THEN Goto(t, "discovery")
       ELSE SessionEnds(t, "top", config_generation)
    /\ UNCHANGED <<service, queue, callers, motion, retained, bounds>>

(* Loading the client, connecting, subscribing, publishing and the network *)
(* loop each end the session when they fail.                               *)
broker_fails(t) ==
    /\ thread[t].pc \in {"control", "handshake", "discovery", "states", "resync",
                         "publish", "poll", "requests"}
    /\ failures > 0
    /\ failures' = failures - 1
    /\ Failure(t)
    /\ UNCHANGED <<config_generation, accept_motion, queue_depth, wakeup_queued,
                   worker, shutdown_requested, queue, callers, motion, retained,
                   saves, shutdowns, posts, flips>>

publish_discovery(t) ==
    /\ thread[t].pc = "discovery"
    /\ IF Current(t)
       THEN Goto(t, "collect") /\ UNCHANGED state
       ELSE Failure(t)
    /\ UNCHANGED <<config_generation, accept_motion, queue_depth, wakeup_queued,
                   worker, shutdown_requested, queue, callers, motion, retained,
                   bounds>>

Up(t) ==
    /\ thread' = [thread EXCEPT ![t].pc = "control", ![t].up = TRUE,
                                ![t].motion = FALSE, ![t].publish = FALSE]
    /\ state' = IF Connected(t) THEN state ELSE "online"

(* The states of all entities are collected, then published; motion is one *)
(* of them.                                                                *)
collect(t) ==
    /\ thread[t].pc = "collect"
    /\ thread' = [thread EXCEPT ![t].pc = "states", ![t].active = level]
    /\ UNCHANGED <<service, queue, callers, motion, retained, bounds>>

(* When the settings changed meanwhile the first publication fails the     *)
(* session and a later one is only noted.                                  *)
publish_states(t) ==
    /\ thread[t].pc = "states"
    /\ \/ /\ ~Current(t) /\ ~Connected(t)
          /\ Failure(t)
          /\ UNCHANGED <<retained, wakeup_queued>>
       \/ /\ ~Current(t) /\ Connected(t)
          /\ Up(t)
          /\ UNCHANGED <<retained, wakeup_queued>>
       \/ /\ Current(t)
          /\ retained' = IF thread[t].config = "motion" THEN thread[t].active
                         ELSE retained
          /\ IF Connected(t)
             THEN Up(t) /\ UNCHANGED wakeup_queued
             ELSE IF thread[t].config = "motion"
             THEN Goto(t, "resync") /\ UNCHANGED <<state, wakeup_queued>>
             ELSE Up(t) /\ wakeup_queued' = FALSE
    /\ UNCHANGED <<config_generation, accept_motion, queue_depth, worker,
                   shutdown_requested, queue, callers, motion, bounds>>

(* Collecting failed: every entity goes unavailable with its state cleared.*)
collection_fails(t) ==
    /\ thread[t].pc = "states" /\ Current(t)
    /\ failures > 0
    /\ failures' = failures - 1
    /\ retained' = IF Connected(t) /\ thread[t].config = "motion" THEN NoLevel
                   ELSE retained
    /\ IF Connected(t) THEN Up(t) ELSE Failure(t)
    /\ UNCHANGED <<config_generation, accept_motion, queue_depth, wakeup_queued,
                   worker, shutdown_requested, queue, callers, motion, saves,
                   shutdowns, posts, flips>>

ResyncWithoutUpdates(t) ==   \* variant: the slot is not released at connect
    /\ thread[t].pc = "resync"
    /\ IF Current(t)
       THEN Up(t) /\ retained' = level
       ELSE Failure(t) /\ UNCHANGED retained
    /\ UNCHANGED <<config_generation, accept_motion, queue_depth, wakeup_queued,
                   worker, shutdown_requested, queue, callers, motion, bounds>>

publish_motion_resync(t) ==
    /\ thread[t].pc = "resync"
    /\ IF Current(t)
       THEN Goto(t, "reset") /\ retained' = level /\ UNCHANGED state
       ELSE Failure(t) /\ UNCHANGED retained
    /\ UNCHANGED <<config_generation, accept_motion, queue_depth, wakeup_queued,
                   worker, shutdown_requested, queue, callers, motion, bounds>>

(* publish_motion_updates: the slot is released before the level is read.  *)
release_slot(t) ==
    /\ thread[t].pc = "reset"
    /\ wakeup_queued' = FALSE
    /\ Goto(t, "read")
    /\ UNCHANGED <<config_generation, accept_motion, queue_depth, worker,
                   shutdown_requested, state, queue, callers, motion, retained,
                   bounds>>

read_motion(t) ==
    /\ thread[t].pc = "read"
    /\ thread' = [thread EXCEPT ![t].pc = "publish", ![t].active = level]
    /\ UNCHANGED <<service, queue, callers, motion, retained, bounds>>

publish_motion(t) ==
    /\ thread[t].pc = "publish"
    /\ \/ /\ ~Current(t)
          /\ Failure(t)
          /\ UNCHANGED retained
       \/ /\ Current(t)
          /\ retained' = thread[t].active
          /\ IF Connected(t) THEN Goto(t, "requests") /\ UNCHANGED state ELSE Up(t)
    /\ UNCHANGED <<config_generation, accept_motion, queue_depth, wakeup_queued,
                   worker, shutdown_requested, queue, callers, motion, bounds>>

PollOnlyWhenWoken(t) ==   \* variant: motion waits for its wakeup
    /\ thread[t].pc = "poll" /\ thread[t].motion
    /\ Goto(t, IF thread[t].config = "motion" THEN "reset" ELSE "requests")
    /\ UNCHANGED <<service, queue, callers, motion, retained, bounds>>

(* Each turn of the loop publishes motion when a wakeup was drained or the *)
(* 500 ms poll is due, and states when asked or when their interval is.    *)
poll_due(t) ==
    /\ thread[t].pc = "poll"
    /\ Goto(t, IF thread[t].config = "motion" THEN "reset" ELSE "requests")
    /\ UNCHANGED <<service, queue, callers, motion, retained, bounds>>

poll_not_due(t) ==
    /\ thread[t].pc = "poll" /\ ~thread[t].motion
    /\ Goto(t, "requests")
    /\ UNCHANGED <<service, queue, callers, motion, retained, bounds>>

states_due(t) ==
    /\ thread[t].pc = "requests"
    /\ \/ ~Current(t) /\ Failure(t)    \* discovery was due as well
       \/ Goto(t, "collect") /\ UNCHANGED state
    /\ UNCHANGED <<config_generation, accept_motion, queue_depth, wakeup_queued,
                   worker, shutdown_requested, queue, callers, motion, retained,
                   bounds>>

states_not_due(t) ==
    /\ thread[t].pc = "requests" /\ ~thread[t].publish
    /\ Up(t)
    /\ UNCHANGED <<config_generation, accept_motion, queue_depth, wakeup_queued,
                   worker, shutdown_requested, queue, callers, motion, retained,
                   bounds>>

(***************************************************************************)
(* The specification.                                                      *)
(***************************************************************************)
Worker(t) ==
    \/ check_generation(t) \/ load_settings(t)
    \/ backoff_check(t) \/ backoff_receive(t) \/ worker_exited(t)
    \/ session_control(t) \/ drain(t)
    \/ connect_waits(t) \/ connect_accepted(t)
    \/ publish_discovery(t) \/ collect(t) \/ publish_states(t)
    \/ publish_motion_resync(t)
    \/ release_slot(t) \/ read_motion(t) \/ publish_motion(t)
    \/ poll_due(t) \/ poll_not_due(t) \/ states_due(t) \/ states_not_due(t)

Reconfigure ==
    reconfigure_load \/ reconfigure_lock \/ reconfigure_join \/ reconfigure_launch

Shutdown == shutdown_stop \/ shutdown_join

Next ==
    \/ \E c \in Saved : save(c)
    \/ Reconfigure
    \/ shutdown_refuse_motion \/ Shutdown
    \/ \E r \in Posted : action_check(r)
    \/ enqueue
    \/ \E l \in Levels : motion_changes(l)
    \/ enqueue_motion \/ motion_contended
    \/ \E t \in Launches :
          Worker(t) \/ broker_fails(t) \/ collection_fails(t)

Spec == Init /\ [][Next]_vars

(* Threads that have work are scheduled, a reachable broker answers, and   *)
(* the poll deadline, tested every turn of the loop, is passed in the end. *)
Fairness ==
    /\ WF_vars(Reconfigure) /\ WF_vars(Shutdown) /\ WF_vars(enqueue)
    /\ \A t \in Launches :
        /\ WF_vars(Worker(t))
        /\ SF_vars(connect_accepted(t))
        /\ SF_vars(poll_due(t))

FairSpec == Spec /\ Fairness

(***************************************************************************)
(* Properties.                                                             *)
(***************************************************************************)
Alive(t) == thread[t].pc \notin {"none", "exited"}

TypeOK ==
    /\ config \in Settings
    /\ config_generation \in Generations \ {0}
    /\ {accept_motion, wakeup_queued, notify} \subseteq BOOLEAN
    /\ queue_depth \in 0 .. Capacity
    /\ worker \in {None} \cup Controls
    /\ \A t \in Launches :
        /\ Len(queue[t]) <= Capacity
        /\ \A i \in DOMAIN queue[t] : queue[t][i] \in Requests
    /\ shutdown_requested \in [Launches -> BOOLEAN]
    /\ thread \in [Launches -> [pc : PCs, observed : Generations,
                                config : Settings, next : Generations,
                                stale : BOOLEAN, up : BOOLEAN,
                                active : Levels \cup {NoLevel},
                                motion : BOOLEAN, publish : BOOLEAN]]
    /\ state \in {"disabled", "error", "connecting", "online", "backoff"}
    /\ client \in Posted \cup {None}
    /\ level \in Levels /\ retained \in Levels \cup {NoLevel}

(* There is never a second worker thread: one that is replaced has been    *)
(* joined before its successor is launched.                                *)
AtMostOneWorker == \A t, u \in Launches : Alive(t) /\ Alive(u) => t = u

(* While the control says Running, its thread is alive and will read what  *)
(* is put into its channel: no accepted action is stranded in the queue of *)
(* a worker that has decided to exit.                                      *)
RunningIsAlive ==
    worker # None /\ worker.state = "Running" =>
        worker.sender /\ worker.handle /\ Alive(worker.launch)

(* The depth the API reports is the length of the queue of the running     *)
(* worker, and zero once there is none, through every drain and reset.     *)
DepthMatchesQueue ==
    /\ worker # None /\ worker.state = "Running" =>
          queue_depth = Len(queue[worker.launch])
    /\ (\A t \in Launches : ~Alive(t)) => queue_depth = 0

(* The control, the threads and the queue agree after every launch, exit,  *)
(* join and drain, in whatever order the callers and the worker get there. *)
ServiceIsConsistent ==
    TypeOK /\ AtMostOneWorker /\ RunningIsAlive /\ DepthMatchesQueue

(* A taken slot of an established session that is up to date has its       *)
(* wakeup in the queue or in hand: the worker never waits behind a slot    *)
(* whose wakeup was swallowed by a drain or by backoff.                    *)
WakeupIsNotLost ==
    \A t \in Launches :
        /\ Connected(t) /\ thread[t].config = "motion"
        /\ wakeup_queued /\ thread[t].observed = config_generation
        => thread[t].motion \/ Contains(queue[t], "motion")

(* The service follows the settings: the thread, what it acts on, the      *)
(* motion switch and the reported state.                                   *)
Settled ==
    /\ admin.pc = "idle"
    /\ CASE config = "off" ->
              (\A t \in Launches : ~Alive(t)) /\ state = "disabled"
         [] config = "nohost" ->
              (\A t \in Launches : ~Alive(t)) /\ state = "error"
         [] config = "invalid" ->
              \E t \in Launches : Alive(t) /\ state = "error"
         [] OTHER ->
              \E t \in Launches :
                  /\ Connected(t) /\ thread[t].config = config
                  /\ state = "online"
    /\ accept_motion = (config = "motion")

(* The system refused the thread: an error until the next save.            *)
LaunchFailed == admin.pc = "idle" /\ worker = None /\ state = "error"

(* Whatever saves, actions, failures and exits race, the last settings     *)
(* saved are the ones the service ends up with, unless no thread could be  *)
(* launched for them or the daemon shuts down.                             *)
SettingsTakeEffect ==
    <>[](Settled \/ LaunchFailed \/ shutdowns < MaxShutdowns)

(* Once the motion level stays, the broker ends up with it for good,       *)
(* though events are dropped, coalesced and overtaken by state reports,    *)
(* unless the daemon was told to shut down.                                *)
MotionIsPublished ==
    <>[](config = "motion" /\ shutdowns = MaxShutdowns /\ ~LaunchFailed
            => retained = level)

(* A join waits only for a thread that is going to exit, and no caller     *)
(* waits for it under the worker mutex.                                    *)
JoinsReturn ==
    /\ admin.pc = "join" ~> admin.pc # "join"
    /\ closer.pc = "join" ~> closer.pc # "join"
=============================================================================
