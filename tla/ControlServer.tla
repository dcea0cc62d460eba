----------------------------- MODULE ControlServer -----------------------------
(***************************************************************************)
(* The HTTP server of the control daemon: a thread that accepts            *)
(* connections, a bounded queue, workers, and the gate that lets only a    *)
(* few of them use the backend at a time.  server.rs and handle_client of  *)
(* router.rs.                                                              *)
(***************************************************************************)
EXTENDS Integers, Sequences, FiniteSets

CONSTANTS
    Workers,         \* the worker threads
    QueueCapacity,   \* CONNECTION_QUEUE_CAPACITY
    MaxPermits,      \* MAX_BACKEND_OPERATIONS
    MaxConnections   \* bound: connections

ASSUME ServerAssumption ==
    /\ IsFiniteSet(Workers) /\ Workers # {}
    /\ QueueCapacity \in Nat \ {0} /\ MaxPermits \in Nat \ {0} /\ MaxConnections \in Nat

Connections == 1..MaxConnections
NoConnection == 0

VARIABLES
    accepting,   \* the thread that accepts: "on", "joining" the workers, "returned" or "failed"
    connection,  \* what has become of each connection
    channel,     \* the queue
    worker,      \* each worker: where it is, its connection, what it asks for
    holds,       \* the permits each worker holds
    active       \* BackendGate.active
serverVars == <<accepting, connection, channel, worker, holds, active>>

(* What a request asks of the backend: nothing ("none"), one operation      *)
(* ("one"), or another after the first has said it is not its own ("two").  *)
Asks == {"none", "one", "two"}
Idle == [pc |-> "receive", connection |-> NoConnection, asks |-> "none"]

ServerTypeOK ==
    /\ accepting \in {"on", "joining", "returned", "failed"}
    /\ connection \in [Connections -> {"coming", "queued", "handled", "answered", "refused"}]
    /\ channel \in Seq(Connections) /\ Len(channel) <= QueueCapacity
    /\ worker \in [Workers -> [pc : {"receive", "read", "acquire", "waiting", "woken", "operate",
                                     "drop", "answer", "exit"},
                               connection : {NoConnection} \union Connections, asks : Asks]]
    /\ holds \in [Workers -> 0..1]
    /\ active \in 0..MaxPermits

ServerInit ==
    /\ accepting = "on"
    /\ connection = [c \in Connections |-> "coming"] /\ channel = <<>>
    /\ worker = [w \in Workers |-> Idle] /\ holds = [w \in Workers |-> 0] /\ active = 0

At(w, pc) == worker[w].pc = pc
Goes(w, pc) == worker' = [worker EXCEPT ![w].pc = pc]

-----------------------------------------------------------------------------
(* serve: what does not fit in the queue is refused at once.               *)

accept(c) ==
    /\ accepting = "on" /\ connection[c] = "coming"
    /\ \A other \in 1..c - 1 : connection[other] # "coming"
    /\ IF Len(channel) < QueueCapacity
       THEN channel' = Append(channel, c) /\ connection' = [connection EXCEPT ![c] = "queued"]
       ELSE connection' = [connection EXCEPT ![c] = "refused"] /\ UNCHANGED channel
    /\ UNCHANGED <<accepting, worker, holds, active>>

(* The shutdown flag ends the loop.                                        *)
shutdown ==
    /\ accepting = "on" /\ accepting' = "joining"
    /\ UNCHANGED <<connection, channel, worker, holds, active>>

(* An error of accept ends the daemon: nobody waits for the workers, which *)
(* go on for as long as the process lasts.                                 *)
accept_fails ==
    /\ accepting = "on" /\ accepting' = "failed"
    /\ UNCHANGED <<connection, channel, worker, holds, active>>

join ==
    /\ accepting = "joining" /\ \A w \in Workers : At(w, "exit")
    /\ accepting' = "returned"
    /\ UNCHANGED <<connection, channel, worker, holds, active>>

-----------------------------------------------------------------------------
(* BackendGate.  A waiter is woken by the permit that is given back, and   *)
(* has to look again, because somebody else may have taken it meanwhile.   *)
(* The deadline of a connection, TOTAL_TIMEOUT after it was accepted, may  *)
(* have passed whenever it is looked at.                                   *)

Takes(w) ==
    /\ active < MaxPermits /\ active' = active + 1
    /\ holds' = [holds EXCEPT ![w] = @ + 1] /\ Goes(w, "operate")
Waits(w) ==
    /\ active >= MaxPermits
    /\ Goes(w, "waiting") /\ UNCHANGED <<holds, active>>
GivesUp(w) ==
    /\ active >= MaxPermits /\ Goes(w, "answer") /\ UNCHANGED <<holds, active>>

acquire(w) ==
    /\ At(w, "acquire")
    /\ (Takes(w) \/ Waits(w) \/ GivesUp(w))
    /\ UNCHANGED <<accepting, connection, channel>>

(* BACKEND_QUEUE_TIMEOUT, or the deadline if that is earlier: the counter  *)
(* is not looked at any more.                                              *)
times_out(w) ==
    /\ At(w, "waiting") /\ Goes(w, "answer")
    /\ UNCHANGED <<accepting, connection, channel, holds, active>>

DeadlineFirst(w) ==   \* variant: the deadline is looked at before the counter
    /\ At(w, "woken") /\ (Takes(w) \/ Waits(w) \/ (Goes(w, "answer") /\ UNCHANGED <<holds, active>>))
    /\ UNCHANGED <<accepting, connection, channel>>

look_again(w) ==
    /\ At(w, "woken") /\ (Takes(w) \/ Waits(w) \/ GivesUp(w))
    /\ UNCHANGED <<accepting, connection, channel>>

(* Drop: notify_one wakes one of those that wait, if any does.             *)
GivesBack(w, next) ==
    /\ active' = active - 1 /\ holds' = [holds EXCEPT ![w] = @ - 1]
    /\ LET waiting == {v \in Workers : At(v, "waiting")}
           dropped == [worker EXCEPT ![w] = next]
       IN  IF waiting = {} THEN worker' = dropped
           ELSE \E v \in waiting : worker' = [dropped EXCEPT ![v].pc = "woken"]

-----------------------------------------------------------------------------
(* A worker.  Once the sender is dropped it still takes what is queued.    *)

receive(w) ==
    /\ At(w, "receive") /\ channel # <<>>
    /\ worker' = [worker EXCEPT ![w] =
                      [pc |-> "read", connection |-> Head(channel), asks |-> "none"]]
    /\ connection' = [connection EXCEPT ![Head(channel)] = "handled"]
    /\ channel' = Tail(channel)
    /\ UNCHANGED <<accepting, holds, active>>

ExitsAtShutdown(w) ==   \* variant: a worker ends with connections in the queue
    /\ At(w, "receive") /\ accepting = "joining" /\ Goes(w, "exit")
    /\ UNCHANGED <<accepting, connection, channel, holds, active>>

disconnected(w) ==
    /\ At(w, "receive") /\ channel = <<>> /\ accepting \in {"joining", "failed"}
    /\ Goes(w, "exit")
    /\ UNCHANGED <<accepting, connection, channel, holds, active>>

(* A request that is malformed, not authorized, public, of the credentials *)
(* or of a media file's identity does not use the backend's permits; one   *)
(* for WHIP uses one.                                                      *)
read_request(w) ==
    /\ At(w, "read")
    /\ \E asks \in Asks :
         worker' = [worker EXCEPT ![w].asks = asks,
                                  ![w].pc = IF asks = "none" THEN "answer" ELSE "acquire"]
    /\ UNCHANGED <<accepting, connection, channel, holds, active>>

(* The operation ends by its deadline.  Its answer is sent before the       *)
(* permit is given back; a request that api_request does not know is        *)
(* answered later.                                                          *)
operate(w) ==
    /\ At(w, "operate") /\ Goes(w, "drop")
    /\ connection' = [connection EXCEPT ![worker[w].connection] =
                          IF worker[w].asks = "one" THEN "answered" ELSE @]
    /\ UNCHANGED <<accepting, channel, holds, active>>

Second(w) == [pc : {"acquire", "answer"}, connection : {worker[w].connection}, asks : {"one"}]

(* A route that is not the API's needs a permit of its own; an unknown one  *)
(* is answered without.                                                     *)
drop(w) ==
    /\ At(w, "drop")
    /\ IF worker[w].asks = "two" THEN \E next \in Second(w) : GivesBack(w, next)
       ELSE GivesBack(w, Idle)
    /\ UNCHANGED <<accepting, connection, channel>>

answer(w) ==
    /\ At(w, "answer")
    /\ connection' = [connection EXCEPT ![worker[w].connection] = "answered"]
    /\ worker' = [worker EXCEPT ![w] = Idle]
    /\ UNCHANGED <<accepting, channel, holds, active>>

Serves(w) ==
    \/ receive(w) \/ disconnected(w) \/ read_request(w) \/ acquire(w) \/ times_out(w)
    \/ look_again(w) \/ operate(w) \/ drop(w) \/ answer(w)

ServerNext ==
    \/ \E c \in Connections : accept(c)
    \/ shutdown \/ accept_fails \/ join
    \/ \E w \in Workers : Serves(w)

(* Reads, operations and answers are bounded by deadlines and waits by the  *)
(* queue's timeout, so that every worker goes on.                           *)
ServerSpec == ServerInit /\ [][ServerNext]_serverVars

-----------------------------------------------------------------------------
(* The gate's counter is the number of operations that hold a permit, and   *)
(* who waits for a permit has none, so that nobody waits for a waiter.      *)
PermitsAreHeld ==
    /\ active = Cardinality({w \in Workers : holds[w] = 1})
    /\ \A w \in Workers : worker[w].pc \in {"acquire", "waiting", "woken"} => holds[w] = 0

(* A permit that is free while somebody sleeps has woken somebody: it is    *)
(* not lost to a waiter that times out, or that finds it taken.             *)
NoPermitIsLost ==
    active < MaxPermits /\ (\E w \in Workers : At(w, "waiting"))
    => \E w \in Workers : At(w, "woken")

(* The gate, for any number of workers and permits.                        *)
PermitsAreKept == ServerTypeOK /\ PermitsAreHeld /\ NoPermitIsLost

(* Whoever was let into the queue is answered, at a shutdown too, unless    *)
(* the daemon ends: of finitely many connections, in the end none is queued *)
(* or in hand.                                                              *)
EveryConnectionIsAnswered ==
    []<>(\/ accepting = "failed"
         \/ \A c \in Connections : connection[c] \notin {"queued", "handled"})

(* A server that is asked to stop does.                                     *)
ServeReturns == accepting = "joining" ~> accepting = "returned"

(* Nobody waits for the server for ever.                                   *)
ServerFinishes == EveryConnectionIsAnswered /\ ServeReturns
=============================================================================
