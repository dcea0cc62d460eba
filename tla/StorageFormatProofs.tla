------------------------- MODULE StorageFormatProofs -------------------------
(***************************************************************************)
(* Proofs about the formatting of the card: FormatIsSafe for any number of *)
(* clients, formats, reads, recordings and failing commands.               *)
(***************************************************************************)
EXTENDS StorageFormat, TLAPS

(* The points at which the format thread has the mutation lock, at which   *)
(* it has the timelapse's pause, at which the reader is drained.           *)
Stops    == {"stop", "stop_send", "stop_confirm"}
Resuming == {"resume", "resumed"}
Starting == {"restore", "start", "start_send", "start_confirm"}
Alone    == {"observe", "barrier", "maintain", "quiesce", "dispatch", "answer",
             "uncertain"} \cup Stops \cup Resuming \cup Starting
Holding  == Alone \cup {"drain", "drained"}
Locked   == Holding \cup {"pause", "pausing"}
Points   == Locked \cup {"recv", "lock", "release", "open"}

Requests == [pc : {"idle", "submit", "wait", "activate", "queue"},
             kind : {"read", "delete", "format"}]
Locals   == [pc : Points, ch : Channels, prior : SUBSET Channels,
             stopped : SUBSET Channels, held : SUBSET Channels,
             result : {"ok", "failed", "partial", "uncertain"}, bad : BOOLEAN]
Persons  == [pc : {"idle", "before", "send", "confirm"}, ch : Channels, on : BOOLEAN]
Works    == {"idle", "validate", "umount", "revalidate", "mkfs", "mount",
             "formatted", "rejected"}

(* TypeOK in two halves: the recorders, and everything else.               *)
RecorderTypes ==
    /\ recording \in PerChannel(BOOLEAN) /\ managed_error \in PerChannel(BOOLEAN)
    /\ boot_recording_pending \in PerChannel(BOOLEAN)
    /\ paused \in PerChannel(BOOLEAN) /\ current \in PerChannel(BOOLEAN)
    /\ cleaning \in PerChannel(BOOLEAN)
    /\ segment \in PerChannel({"none", "open", "written"})
    /\ closing \in PerChannel({"none", "flushing", "unconfirmed"})
    /\ observed \in PerChannel({"none", "absent", "mounted"})
    /\ probe \in PerChannel({"none", "begun", "absent", "mounted"})
ThreadTypes ==
    /\ format_active \in BOOLEAN /\ format_queue \in BOOLEAN
    /\ job \in Jobs /\ reading \in Jobs /\ client \in [Clients -> Requests]
    /\ mutation \in {None, "format", "user"} \cup Clients
    /\ format \in Locals /\ user \in Persons
    /\ writing \in BOOLEAN /\ warned \in BOOLEAN /\ pause \in {"none", "asked", "held"}
    /\ worker \in Works /\ mounted \in BOOLEAN
    /\ formats \in 0 .. MaxFormats /\ reads \in 0 .. MaxReads
    /\ sets \in 0 .. MaxSets /\ faults \in 0 .. MaxFaults

(* One format at a time: on its way from a client, in the queue, or here.  *)
LatchIsOne ==
    /\ format_queue \/ ~At("recv") => format_active
    /\ format_queue => At("recv")
    /\ \A k \in Clients : client[k].pc = "queue" =>
         /\ format_active /\ ~format_queue /\ At("recv")
         /\ \A l \in Clients : client[l].pc = "queue" => l = k

(* The lock is the format's from its observation of the recorders to its   *)
(* release; a format that did not get it has seen no recorder.             *)
LockIsTheirs ==
    /\ format.pc \in Locked => mutation = "format"
    /\ user.pc # "idle" => mutation = "user"
    /\ At("release") => mutation = "format" \/ format.prior = {}

PauseIsHeld ==
    /\ format.pc \in Holding => pause = "held"
    /\ pause = "held" => ~writing

(* The drain is the last job that is let in: when it is answered there is  *)
(* no other.                                                               *)
DrainIsLast ==
    /\ At("drained") => \/ job = Job("format") /\ reading # Job("format")
                        \/ job = None /\ reading = Job("format")
    /\ ~At("drained") => job # Job("format") /\ reading # Job("format")
    /\ format.pc \in Alone => job = None /\ reading = None

WorkerIsAsked == Working => format.pc \in {"answer", "uncertain"}

(* What a format has not come to is as it was when it began.               *)
Ordered(f) ==
    /\ f.stopped \subseteq f.prior
    /\ f.pc \in Stops => f.ch \in f.prior
    /\ f.pc \in {"stop_send", "stop_confirm"} => f.ch \in f.stopped
    /\ f.pc \in Points \ (Alone \cup {"release", "open"}) => f.prior = {}
    /\ f.pc = "observe" => f.stopped = {}
    /\ f.pc \in {"observe", "barrier"} \cup Stops
         \cup (Points \ (Alone \cup {"release", "open"})) => f.held = {}
    /\ f.pc \in Points \ (Resuming \cup Starting \cup {"release", "open", "uncertain"}) =>
         ~f.bad /\ f.result = "failed"

ThreadInv == /\ LatchIsOne /\ LockIsTheirs /\ PauseIsHeld /\ DrainIsLast
             /\ WorkerIsAsked /\ Ordered(format)

(* A recorder by itself.  What it remembers of the card, or is about to,   *)
(* is of the card as it is.                                                *)
RecorderHolds(c) ==
    /\ segment[c] # "none" => recording[c]
    /\ recording[c] \/ segment[c] # "none" \/ closing[c] # "none" =>
         ~boot_recording_pending[c]
    /\ boot_recording_pending[c] => c \in Autostart
    /\ paused[c] => observed[c] = "none" /\ ~current[c]
    /\ observed[c] # "none" => (observed[c] = "mounted" <=> mounted)
    /\ current[c] /\ probe[c] \in {"mounted", "absent"} => (probe[c] = "mounted" <=> mounted)

(* A recorder as the format thread knows it: which it has seen closed at   *)
(* the barrier, which are paused and quiet, which may be left paused, and  *)
(* which must record or have failed by themselves.                         *)
PastBarrier(f, c) ==
    \/ f.pc \in {"maintain", "quiesce", "dispatch", "answer", "uncertain"}
    \/ f.pc = "barrier" /\ c < f.ch
PastPause(f, c) ==
    \/ f.pc \in {"dispatch", "answer", "uncertain"}
    \/ f.pc \in {"maintain", "quiesce"} /\ c < f.ch
MayBePaused(f, c) ==
    \/ f.pc \in Locked \ (Resuming \cup Starting) /\ c \in f.held
    \/ f.pc = "uncertain"
    \/ f.pc = "resume" /\ c \in f.held /\ c >= f.ch
    \/ f.pc = "resumed" /\ c \in f.held /\ c > f.ch
    \/ f.pc \in Resuming \cup Starting /\ f.bad
    \/ f.pc \in {"release", "open"} /\ f.result = "partial"
Owed(f, c) ==
    /\ c \in f.prior
    /\ \/ f.pc \in Locked \cup {"release"} /\ c \notin f.stopped
       \/ f.pc \in Starting /\ ~f.bad /\ c < f.ch
       \/ f.pc = "release" /\ f.result \in {"ok", "failed"}
Known(f, c) ==
    /\ c \in f.prior => ~boot_recording_pending[c]
    /\ PastBarrier(f, c) /\ c \notin Autostart \ f.stopped =>
         ~recording[c] /\ segment[c] = "none" /\ closing[c] = "none"
    /\ PastPause(f, c) => paused[c] /\ ~Scanning(c)
    /\ paused[c] => warned \/ MayBePaused(f, c)
    /\ Owed(f, c) => recording[c] \/ managed_error[c]

RecordersInv == \A c \in Channels : RecorderHolds(c) /\ Known(format, c)

FormatInv == RecorderTypes /\ ThreadTypes /\ ThreadInv /\ RecordersInv

(***************************************************************************)
(* Names and types.                                                        *)
(***************************************************************************)

(* Nobody else is called like the format thread, and no job is no job.     *)
LEMMA Names ==
    /\ None # "format" /\ None # "user"
    /\ \A k \in Clients : k # None /\ k # "format" /\ k # "user"
    /\ \A by \in Clients \cup {"format"}, live \in BOOLEAN :
         [by |-> by, live |-> live] # None
BY ClientsAssumption, NoneAssumption

(* The two halves are TypeOK.                                              *)
LEMMA TypesAre == RecorderTypes /\ ThreadTypes <=> TypeOK
<1>1. Points = {"recv", "lock", "pause", "pausing", "drain", "drained", "observe",
                "stop", "stop_send", "stop_confirm", "barrier", "maintain",
                "quiesce", "dispatch", "answer", "uncertain", "resume", "resumed",
                "restore", "start", "start_send", "start_confirm", "release", "open"}
  BY DEF Points, Locked, Holding, Alone, Stops, Resuming, Starting
<1>2. RecorderTypes <=>
        /\ {recording, boot_recording_pending, managed_error, paused, current, cleaning}
             \subseteq PerChannel(BOOLEAN)
        /\ segment \in PerChannel({"none", "open", "written"})
        /\ closing \in PerChannel({"none", "flushing", "unconfirmed"})
        /\ observed \in PerChannel({"none", "absent", "mounted"})
        /\ probe \in PerChannel({"none", "begun", "absent", "mounted"})
  BY DEF RecorderTypes
<1>3. <<formats, reads, sets, faults>> \in
        (0 .. MaxFormats) \X (0 .. MaxReads) \X (0 .. MaxSets) \X (0 .. MaxFaults)
      <=> /\ formats \in 0 .. MaxFormats /\ reads \in 0 .. MaxReads
          /\ sets \in 0 .. MaxSets /\ faults \in 0 .. MaxFaults
  OBVIOUS
<1> QED
  BY <1>1, <1>2, <1>3, Zenon DEF TypeOK, ThreadTypes, Locals, Requests, Persons, Works

(* The recorders are one or two.                                           *)
LEMMA FirstChannel ==
    0 \in Channels /\ Channels \subseteq {0, 1} /\ \A c \in Channels : c \in Nat
BY ChannelsAssumption DEF Channels

(* The bounds are bounds.                                                  *)
LEMMA Limits ==
    MaxFormats \in Nat /\ MaxReads \in Nat /\ MaxSets \in Nat /\ MaxFaults \in Nat
BY LimitsAssumption

(* A job is known by whose it is, and stays it when it expires.            *)
LEMMA JobFacts ==
    /\ \A k \in Clients \cup {"format"} : Job(k) \in Jobs /\ Job(k) # None
    /\ \A k \in Clients : Job(k) # Job("format")
BY Names DEF Job, Jobs

(* A client's deadline, and the drain's.                                   *)
LEMMA LateFacts ==
    ASSUME NEW j \in Jobs
    PROVE /\ \A k \in Clients : /\ Late(j, k) \in Jobs /\ (Late(j, k) = None <=> j = None)
                                /\ Late(j, k) = Job("format") <=> j = Job("format")
          /\ Late(j, "format") \in Jobs /\ Late(j, "format") # Job("format")
<1>1. CASE j = None
  <2>1. \A k \in Clients \cup {"format"} : Late(j, k) = None
    BY <1>1, JobFacts DEF Late
  <2> QED
    BY <1>1, <2>1, JobFacts DEF Jobs
<1>2. CASE j # None
  <2> DEFINE R == [by : Clients \cup {"format"}, live : BOOLEAN]
  <2>1. j \in R /\ \A r \in R : r \in Jobs /\ r # None
    BY <1>2, NoneAssumption DEF Jobs
  <2>2. \A k \in Clients \cup {"format"} :
          Late(j, k) \in R /\ (Late(j, k) = j \/ (j = Job(k) /\ ~Late(j, k).live))
    BY <2>1 DEF Late
  <2>3. \A r \in R : ~r.live => r # Job("format")
    BY DEF Job
  <2>4. Late(j, "format") # Job("format")
    <3>1. j = Job("format") => Late(j, "format") = [j EXCEPT !.live = FALSE]
      BY DEF Late
    <3>2. j # Job("format") => Late(j, "format") = j
      BY DEF Late
    <3>3. ~[j EXCEPT !.live = FALSE].live /\ [j EXCEPT !.live = FALSE] \in R
      BY <2>1
    <3> QED
      BY <2>3, <3>1, <3>2, <3>3
  <2> HIDE DEF R
  <2>5. ASSUME NEW k \in Clients
        PROVE /\ Late(j, k) \in Jobs /\ Late(j, k) # None
              /\ Late(j, k) = Job("format") <=> j = Job("format")
    <3>1. CASE Late(j, k) = j
      BY <1>2, <3>1
    <3>2. CASE j = Job(k) /\ ~Late(j, k).live
      BY <2>1, <2>2, <2>3, <3>2, JobFacts
    <3> QED
      BY <2>2, <3>1, <3>2
  <2> QED
    BY <1>2, <2>1, <2>2, <2>4, <2>5
<1> QED
  BY <1>1, <1>2

(* The recorder the thread is at, and the one after it.                    *)
LEMMA NextChannel ==
    ASSUME NEW f \in Locals
    PROVE /\ f.ch \in Channels /\ f.ch \in Nat /\ f.ch + 1 \in Nat
          /\ f.ch + 1 < NChannels => f.ch + 1 \in Channels
<1>1. f.ch \in Channels
  BY DEF Locals
<1>2. f.ch \in Nat
  BY <1>1, FirstChannel
<1>3. NChannels \in Nat
  BY ChannelsAssumption
<1> QED
  BY <1>1, <1>2, <1>3 DEF Channels

(***************************************************************************)
(* The loops of the format thread.                                         *)
(***************************************************************************)

(* A turn of a loop: the thread is at recorder d.                          *)
Turn(f, pc, d) == [f EXCEPT !.pc = pc, !.ch = d]

(* A loop over some recorders comes to the first of them that is left.     *)
LEMMA LoopCases ==
    ASSUME NEW f, NEW pc, NEW S, S \subseteq Channels, NEW from \in Nat, NEW after
    PROVE \/ /\ \A c \in S : c < from
             /\ Loop(f, pc, S, from, after) = after
          \/ \E d \in S : /\ d >= from /\ \A c \in S : c >= from => d <= c
                          /\ Loop(f, pc, S, from, after) = Turn(f, pc, d)
<1> DEFINE rest == {c \in S : c >= from}
<1>1. S \subseteq {0, 1} /\ \A c \in S : c \in Nat
  BY FirstChannel
<1>2. CASE rest = {}
  <2>1. Loop(f, pc, S, from, after) = after
    BY <1>2 DEF Loop
  <2>2. \A c \in S : c < from
    BY <1>1, <1>2
  <2> QED
    BY <2>1, <2>2
<1>3. CASE rest # {}
  <2>1. PICK least \in rest : \A d \in rest : least <= d
    <3>1. CASE 0 \in rest
      BY <3>1, <1>1
    <3>2. CASE 0 \notin rest
      <4>1. rest \subseteq {1}
        BY <3>2, <1>1
      <4>2. 1 \in rest /\ \A d \in rest : d = 1
        BY <4>1, <1>3
      <4> HIDE DEF rest
      <4> QED
        BY <4>2
    <3> QED
      BY <3>1, <3>2
  <2> DEFINE d == CHOOSE c \in rest : \A e \in rest : c <= e
  <2>2. d \in rest /\ \A e \in rest : d <= e
    BY <2>1
  <2>3. Loop(f, pc, S, from, after) = Turn(f, pc, d)
    BY <1>3 DEF Loop, Turn
  <2> HIDE DEF d
  <2>4. d \in S /\ d >= from /\ \A c \in S : c >= from => d <= c
    BY <2>2
  <2> QED
    BY <2>3, <2>4
<1> QED
  BY <1>2, <1>3

(* What the three loops of run_storage_format come to.                     *)
LEMMA StoppingCases ==
    ASSUME NEW f \in Locals, NEW from \in Nat
    PROVE \/ /\ \A c \in f.prior : c < from
             /\ Stopping(f, from) = [f EXCEPT !.pc = "barrier", !.ch = 0]
          \/ \E d \in f.prior : /\ d >= from
                                /\ Stopping(f, from) = [f EXCEPT !.pc = "stop", !.ch = d]
<1>1. f.prior \subseteq Channels
  BY DEF Locals
<1> DEFINE after == [f EXCEPT !.pc = "barrier", !.ch = 0]
<1>2. \/ /\ \A c \in f.prior : c < from
         /\ Loop(f, "stop", f.prior, from, after) = after
      \/ \E d \in f.prior :
           /\ d >= from /\ \A c \in f.prior : c >= from => d <= c
           /\ Loop(f, "stop", f.prior, from, after) = Turn(f, "stop", d)
  BY <1>1, LoopCases
<1> QED
  BY <1>2, Zenon DEF Stopping, Turn

(* Restore comes to the first recorder it has not started, or to the end.  *)
LEMMA RestoreCases ==
    ASSUME NEW f \in Locals, NEW from \in Nat
    PROVE \/ /\ \A c \in f.stopped : c < from
             /\ Restore(f, from) =
                  [f EXCEPT !.pc = "release", !.result = IF f.bad THEN "partial" ELSE f.result]
          \/ \E d \in f.stopped :
               /\ d >= from /\ \A c \in f.stopped : c >= from => d <= c
               /\ Restore(f, from) = [f EXCEPT !.pc = "restore", !.ch = d]
<1>1. f.stopped \subseteq Channels
  BY DEF Locals
<1>2. Release(f, IF f.bad THEN "partial" ELSE f.result) =
        [f EXCEPT !.pc = "release", !.result = IF f.bad THEN "partial" ELSE f.result]
  BY DEF Release
<1> DEFINE after == Release(f, IF f.bad THEN "partial" ELSE f.result)
<1>3. \/ /\ \A c \in f.stopped : c < from
         /\ Loop(f, "restore", f.stopped, from, after) = after
      \/ \E d \in f.stopped :
           /\ d >= from /\ \A c \in f.stopped : c >= from => d <= c
           /\ Loop(f, "restore", f.stopped, from, after) = Turn(f, "restore", d)
  BY <1>1, LoopCases
<1>4. Restore(f, from) = Loop(f, "restore", f.stopped, from, after)
  BY DEF Restore
<1> QED
  BY <1>2, <1>3, <1>4, Zenon DEF Turn

(* Resume comes to the first that is not resumed, or to Restore or the end.*)
LEMMA ResumeCases ==
    ASSUME NEW f \in Locals, NEW from \in Nat
    PROVE \/ /\ \A c \in f.held : c < from
             /\ f.bad
             /\ Resume(f, from) = [f EXCEPT !.pc = "release", !.result = "partial"]
          \/ /\ \A c \in f.held : c < from
             /\ ~f.bad
             /\ Resume(f, from) = Restore(f, 0)
          \/ \E d \in f.held :
               /\ d >= from /\ \A c \in f.held : c >= from => d <= c
               /\ Resume(f, from) = [f EXCEPT !.pc = "resume", !.ch = d]
<1>1. f.held \subseteq Channels
  BY DEF Locals
<1>2. Release(f, "partial") = [f EXCEPT !.pc = "release", !.result = "partial"]
  BY DEF Release
<1> DEFINE after == IF f.bad THEN Release(f, "partial") ELSE Restore(f, 0)
<1>3. \/ /\ \A c \in f.held : c < from
         /\ Loop(f, "resume", f.held, from, after) = after
      \/ \E d \in f.held :
           /\ d >= from /\ \A c \in f.held : c >= from => d <= c
           /\ Loop(f, "resume", f.held, from, after) = Turn(f, "resume", d)
  BY <1>1, LoopCases
<1>4. Resume(f, from) = Loop(f, "resume", f.held, from, after)
  BY DEF Resume
<1>5. \/ f.bad /\ after = [f EXCEPT !.pc = "release", !.result = "partial"]
      \/ ~f.bad /\ after = Restore(f, 0)
  BY <1>2
<1> QED
  BY <1>3, <1>4, <1>5, Zenon DEF Turn

(***************************************************************************)
(* Where the loops leave the thread, and what is then known of a recorder. *)
(***************************************************************************)

(* What a format has not come to is as it was: while it stops recorders,   *)
LEMMA StoppingOrdered ==
    ASSUME NEW f \in Locals, NEW from \in Nat,
           f.stopped \subseteq f.prior, f.held = {}, ~f.bad, f.result = "failed"
    PROVE LET g == Stopping(f, from) IN
          g \in Locals /\ g.pc \in {"stop", "barrier"} /\ Ordered(g)
<1>1. CASE Stopping(f, from) = [f EXCEPT !.pc = "barrier", !.ch = 0]
  BY <1>1, FirstChannel
     DEF Locals, Ordered, Points, Locked, Holding, Alone, Stops, Resuming, Starting
<1>2. ASSUME NEW d \in f.prior, Stopping(f, from) = [f EXCEPT !.pc = "stop", !.ch = d]
      PROVE LET g == Stopping(f, from) IN
            g \in Locals /\ g.pc \in {"stop", "barrier"} /\ Ordered(g)
  BY <1>2
     DEF Locals, Ordered, Points, Locked, Holding, Alone, Stops, Resuming, Starting
<1> QED
  BY <1>1, <1>2, StoppingCases

(* while it starts them again,                                             *)
LEMMA RestoreOrdered ==
    ASSUME NEW f \in Locals, NEW from \in Nat, f.stopped \subseteq f.prior
    PROVE LET g == Restore(f, from) IN
          g \in Locals /\ g.pc \in {"restore", "release"} /\ Ordered(g)
<1>1. CASE Restore(f, from) =
             [f EXCEPT !.pc = "release", !.result = IF f.bad THEN "partial" ELSE f.result]
  BY <1>1 DEF Locals, Ordered, Points, Locked, Holding, Alone, Stops, Resuming, Starting
<1>2. ASSUME NEW d \in f.stopped, Restore(f, from) = [f EXCEPT !.pc = "restore", !.ch = d]
      PROVE LET g == Restore(f, from) IN
            g \in Locals /\ g.pc \in {"restore", "release"} /\ Ordered(g)
  BY <1>2 DEF Locals, Ordered, Points, Locked, Holding, Alone, Stops, Resuming, Starting
<1> QED
  BY <1>1, <1>2, RestoreCases

(* and while it resumes their maintenance.                                 *)
LEMMA ResumeOrdered ==
    ASSUME NEW f \in Locals, NEW from \in Nat, f.stopped \subseteq f.prior
    PROVE LET g == Resume(f, from) IN
          g \in Locals /\ g.pc \in {"resume", "restore", "release"} /\ Ordered(g)
<1>1. CASE Resume(f, from) = [f EXCEPT !.pc = "release", !.result = "partial"]
  BY <1>1 DEF Locals, Ordered, Points, Locked, Holding, Alone, Stops, Resuming, Starting
<1>2. ASSUME NEW d \in f.held, Resume(f, from) = [f EXCEPT !.pc = "resume", !.ch = d]
      PROVE LET g == Resume(f, from) IN
            g \in Locals /\ g.pc \in {"resume", "restore", "release"} /\ Ordered(g)
  BY <1>2 DEF Locals, Ordered, Points, Locked, Holding, Alone, Stops, Resuming, Starting
<1>3. CASE Resume(f, from) = Restore(f, 0)
  BY <1>3, RestoreOrdered
<1> QED
  BY <1>1, <1>2, <1>3, ResumeCases

(* The thread goes on to stop recorders: those it has stopped so far owe   *)
(* nothing yet, the others still record or have failed.                    *)
LEMMA StoppingKnows ==
    ASSUME NEW f \in Locals, NEW from \in Nat, NEW c \in Channels,
           c \in f.prior => ~boot_recording_pending'[c],
           paused'[c] => warned',
           c \in f.prior /\ c \notin f.stopped => recording'[c] \/ managed_error'[c]
    PROVE Known(Stopping(f, from), c)'
<1>1. CASE Stopping(f, from) = [f EXCEPT !.pc = "barrier", !.ch = 0]
  BY <1>1, FirstChannel DEF Known, PastBarrier, PastPause, MayBePaused, Owed, Locals,
     Points, Locked, Holding, Alone, Stops, Resuming, Starting
<1>2. ASSUME NEW d \in f.prior, Stopping(f, from) = [f EXCEPT !.pc = "stop", !.ch = d]
      PROVE Known(Stopping(f, from), c)'
  BY <1>2 DEF Known, PastBarrier, PastPause, MayBePaused, Owed, Locals,
     Points, Locked, Holding, Alone, Stops, Resuming, Starting
<1> QED
  BY <1>1, <1>2, StoppingCases

(* It goes on to restore them: those before the next are paid.             *)
LEMMA RestoreKnows ==
    ASSUME NEW f \in Locals, NEW from \in Nat, NEW c \in Channels,
           c \in f.prior => ~boot_recording_pending'[c],
           paused'[c] => warned' \/ f.bad,
           c \in f.prior /\ (c \notin f.stopped \/ (~f.bad /\ c < from)) =>
             recording'[c] \/ managed_error'[c]
    PROVE Known(Restore(f, from), c)'
<1>1. ASSUME \A d \in f.stopped : d < from,
             Restore(f, from) =
               [f EXCEPT !.pc = "release", !.result = IF f.bad THEN "partial" ELSE f.result]
      PROVE Known(Restore(f, from), c)'
  BY <1>1 DEF Known, PastBarrier, PastPause, MayBePaused, Owed, Locals,
     Points, Locked, Holding, Alone, Stops, Resuming, Starting
<1>2. ASSUME NEW d \in f.stopped, \A e \in f.stopped : e >= from => d <= e,
             Restore(f, from) = [f EXCEPT !.pc = "restore", !.ch = d]
      PROVE Known(Restore(f, from), c)'
  <2>1. d \in Nat /\ c \in Nat
    BY FirstChannel DEF Locals
  <2>2. c \in f.stopped /\ c < d => c < from
    BY <1>2, <2>1
  <2> QED
    BY <1>2, <2>1, <2>2 DEF Known, PastBarrier, PastPause, MayBePaused, Owed, Locals,
       Points, Locked, Holding, Alone, Stops, Resuming, Starting
<1> QED
  BY <1>1, <1>2, RestoreCases

(* It goes on to resume their maintenance: those before the next are.      *)
LEMMA ResumeKnows ==
    ASSUME NEW f \in Locals, NEW from \in Nat, NEW c \in Channels,
           c \in f.prior => ~boot_recording_pending'[c],
           paused'[c] => warned' \/ f.bad \/ (c \in f.held /\ c >= from),
           c \in f.prior /\ c \notin f.stopped => recording'[c] \/ managed_error'[c]
    PROVE Known(Resume(f, from), c)'
<1>1. ASSUME f.bad, Resume(f, from) = [f EXCEPT !.pc = "release", !.result = "partial"]
      PROVE Known(Resume(f, from), c)'
  BY <1>1 DEF Known, PastBarrier, PastPause, MayBePaused, Owed, Locals,
     Points, Locked, Holding, Alone, Stops, Resuming, Starting
<1>2. ASSUME NEW d \in f.held, \A e \in f.held : e >= from => d <= e,
             Resume(f, from) = [f EXCEPT !.pc = "resume", !.ch = d]
      PROVE Known(Resume(f, from), c)'
  BY <1>2 DEF Known, PastBarrier, PastPause, MayBePaused, Owed, Locals,
     Points, Locked, Holding, Alone, Stops, Resuming, Starting
<1>3. ASSUME \A d \in f.held : d < from, ~f.bad, Resume(f, from) = Restore(f, 0)
      PROVE Known(Resume(f, from), c)'
  <2>1. c \in Nat
    BY FirstChannel
  <2>2. ~(c < 0) /\ ~(c \in f.held /\ c >= from)
    BY <1>3, <2>1
  <2>3. Known(Restore(f, 0), c)'
    BY <1>3, <2>2, RestoreKnows
  <2> QED
    BY <1>3, <2>3
<1> QED
  BY <1>1, <1>2, <1>3, ResumeCases

(* Before it has seen any recorder a format knows nothing of them.         *)
LEMMA EarlyKnows ==
    ASSUME NEW f \in Locals, NEW c \in Channels,
           f.prior = {}, f.pc \in {"recv", "lock", "pause", "pausing", "drain", "drained",
                                   "observe", "release"},
           paused'[c] => warned'
    PROVE Known(f, c)'
BY DEF Known, PastBarrier, PastPause, MayBePaused, Owed, Locals,
   Points, Locked, Holding, Alone, Stops, Resuming, Starting

(* Until the first is paused, none is, but for what an earlier one left.   *)
LEMMA NoneIsPaused ==
    ASSUME NEW f \in Locals, NEW c \in Channels, Ordered(f), Known(f, c),
           f.pc \in {"observe", "barrier"} \cup Stops
                      \cup (Points \ (Alone \cup {"release", "open"}))
    PROVE paused[c] => warned
<1>1. f.held = {}
  BY DEF Ordered
<1>2. ~MayBePaused(f, c)
  BY <1>1 DEF MayBePaused, Points, Locked, Holding, Alone, Stops, Resuming, Starting
<1> QED
  BY <1>2 DEF Known

(***************************************************************************)
(* What a recorder may do by itself.                                       *)
(***************************************************************************)

(* Nothing takes from the format thread what it knows.                     *)
Gentle(c) ==
    /\ boot_recording_pending'[c] => boot_recording_pending[c]
    /\ paused'[c] = paused[c]
    /\ recording[c] \/ managed_error[c] => recording'[c] \/ managed_error'[c]
    /\ ~recording[c] /\ segment[c] = "none" /\ closing[c] = "none"
         /\ ~boot_recording_pending[c] =>
           ~recording'[c] /\ segment'[c] = "none" /\ closing'[c] = "none"
    /\ paused[c] /\ ~Scanning(c) => ~Scanning(c)'

(* A step that is gentle with a recorder takes nothing from what is known. *)
LEMMA GentleKnows ==
    ASSUME NEW f \in Locals, NEW c \in Channels, Ordered(f), RecorderHolds(c),
           Known(f, c), Gentle(c), warned' = warned
    PROVE Known(f, c)'
<1>1. c \notin Autostart \ f.stopped => c \notin Autostart \/ c \in f.prior
  BY DEF Ordered
<1>2. c \notin Autostart \ f.stopped => ~boot_recording_pending[c]
  BY <1>1 DEF RecorderHolds, Known
<1> QED
  BY <1>2 DEF Known, Gentle, PastBarrier, PastPause, MayBePaused, Owed

(* A step that leaves the recorders alone is gentle with each of them.     *)
LEMMA StillGentle ==
    ASSUME NEW c \in Channels, UNCHANGED rmr
    PROVE Gentle(c)
BY DEF Gentle, Scanning, rmr, recorder, maintenance

(* And with the card as it was, what holds of each goes on to hold.        *)
LEMMA StillHolds ==
    ASSUME RecorderTypes, RecordersInv, UNCHANGED rmr, mounted' = mounted
    PROVE RecorderTypes' /\ \A c \in Channels : RecorderHolds(c)'
BY DEF RecorderTypes, RecordersInv, RecorderHolds, PerChannel, rmr, recorder, maintenance

(* A step of one recorder's loop, or of its maintenance thread, is gentle  *)
(* with every recorder and keeps what holds of each.                       *)
OfItself(d) == Record(d) \/ Scan(d) \/ observation_expires(d)

(* A recording is set: only that recorder's is, and one that is stopped is *)
(* stopped.                                                                *)
LEMMA SetRecordingKeeps ==
    ASSUME NEW d \in Channels, NEW on \in BOOLEAN, RecorderTypes, RecordersInv,
           mounted' = mounted, SetRecording(d, on)
    PROVE /\ RecorderTypes' /\ \A c \in Channels : RecorderHolds(c)'
          /\ \A c \in Channels \ {d} : Gentle(c)
          /\ boot_recording_pending'[d] => boot_recording_pending[d]
          /\ paused' = paused
          /\ on /\ (recording[d] \/ managed_error[d]) => recording'[d] \/ managed_error'[d]
<1>1. RecorderTypes'
  BY DEF SetRecording, Stop, Start, RecorderTypes, PerChannel, maintenance
<1>2. ASSUME NEW c \in Channels PROVE RecorderHolds(c)'
  <2>1. RecorderHolds(c)
    BY DEF RecordersInv
  <2>2. CASE ~on
    BY <2>1, <2>2 DEF SetRecording, Stop, RecorderTypes, PerChannel, maintenance, RecorderHolds
  <2>3. CASE on /\ Accepts(d)
    BY <2>1, <2>3 DEF SetRecording, Start, Accepts, RecorderTypes, PerChannel, maintenance,
       RecorderHolds
  <2>4. CASE on /\ ~Accepts(d)
    BY <2>1, <2>4 DEF SetRecording, RecorderTypes, PerChannel, maintenance, RecorderHolds
  <2> QED
    BY <2>2, <2>3, <2>4
<1>3. ASSUME NEW c \in Channels \ {d} PROVE Gentle(c)
  BY DEF SetRecording, Stop, Start, RecorderTypes, PerChannel, maintenance, Gentle, Scanning
<1>4. boot_recording_pending'[d] => boot_recording_pending[d]
  BY DEF SetRecording, RecorderTypes, PerChannel
<1>5. paused' = paused
  BY DEF SetRecording, maintenance
<1>6. on /\ (recording[d] \/ managed_error[d]) => recording'[d] \/ managed_error'[d]
  BY DEF SetRecording, Start, RecorderTypes, PerChannel
<1> QED
  BY <1>1, <1>2, <1>3, <1>4, <1>5, <1>6

(* A maintenance thread is paused or resumed: a recording that ends with   *)
(* it has failed, and says so.                                             *)
LEMMA SetPausedKeeps ==
    ASSUME NEW d \in Channels, NEW on \in BOOLEAN, RecorderTypes, RecordersInv,
           mounted' = mounted, SetPaused(d, on)
    PROVE /\ RecorderTypes' /\ \A c \in Channels : RecorderHolds(c)'
          /\ \A c \in Channels \ {d} : Gentle(c)
          /\ UNCHANGED <<boot_recording_pending, probe, cleaning>> /\ paused'[d] = on
          /\ recording[d] \/ managed_error[d] => recording'[d] \/ managed_error'[d]
          /\ ~recording[d] /\ segment[d] = "none" /\ closing[d] = "none" =>
               ~recording'[d] /\ segment'[d] = "none" /\ closing'[d] = "none"
<1>1. CASE paused[d] = on
  <2>1. RecorderTypes'
    BY <1>1 DEF SetPaused, RecorderTypes, PerChannel
  <2>2. ASSUME NEW c \in Channels PROVE RecorderHolds(c)'
    BY <1>1 DEF RecordersInv, RecorderHolds, SetPaused, RecorderTypes, PerChannel
  <2>3. ASSUME NEW c \in Channels \ {d} PROVE Gentle(c)
    BY <1>1 DEF Gentle, Scanning, SetPaused, RecorderTypes, PerChannel
  <2> QED
    BY <1>1, <2>1, <2>2, <2>3 DEF SetPaused, RecorderTypes, PerChannel
<1>2. CASE paused[d] # on
  <2>1. RecorderTypes'
    <3>1. /\ paused' \in PerChannel(BOOLEAN) /\ current' \in PerChannel(BOOLEAN)
          /\ observed' \in PerChannel({"none", "absent", "mounted"})
      BY <1>2 DEF SetPaused, RecorderTypes, PerChannel
    <3>2. /\ recording' \in PerChannel(BOOLEAN)
          /\ segment' \in PerChannel({"none", "open", "written"})
      BY <1>2 DEF SetPaused, Stop, RecorderTypes, PerChannel
    <3>3. managed_error' \in PerChannel(BOOLEAN)
      BY <1>2 DEF SetPaused, Stop, RecorderTypes, PerChannel
    <3>4. closing' \in PerChannel({"none", "flushing", "unconfirmed"})
      BY <1>2 DEF SetPaused, Stop, RecorderTypes, PerChannel
    <3> QED
      BY <3>1, <3>2, <3>3, <3>4 DEF SetPaused, RecorderTypes
  <2>2. ASSUME NEW c \in Channels PROVE RecorderHolds(c)'
    <3>1. RecorderHolds(c)
      BY DEF RecordersInv
    <3> QED
      BY <1>2, <3>1 DEF RecorderHolds, SetPaused, Stop, RecorderTypes, PerChannel
  <2>3. ASSUME NEW c \in Channels \ {d} PROVE Gentle(c)
    BY <1>2 DEF Gentle, Scanning, SetPaused, Stop, RecorderTypes, PerChannel
  <2> QED
    BY <1>2, <2>1, <2>2, <2>3 DEF SetPaused, Stop, RecorderTypes, PerChannel
<1> QED
  BY <1>1, <1>2

(* A step of a recorder's own loop, or of its maintenance thread, keeps    *)
(* what holds of every recorder and is gentle with it.                     *)
LEMMA OfItselfKeeps ==
    ASSUME NEW d \in Channels, RecorderTypes, RecordersInv, mounted' = mounted,
           mounted \in BOOLEAN, OfItself(d)
    PROVE RecorderTypes' /\ \A c \in Channels : RecorderHolds(c)' /\ Gentle(c)
<1>1. CASE boot_recording(d)
  <2>1. ~paused[d]
    BY <1>1 DEF boot_recording, Available, RecordersInv, RecorderHolds
  <2>2. SetRecording(d, TRUE)
    BY <1>1 DEF boot_recording
  <2>3. RecorderTypes' /\ (\A c \in Channels : RecorderHolds(c)')
        /\ \A c \in Channels \ {d} : Gentle(c)
    BY <2>2, SetRecordingKeeps
  <2>4. Gentle(d)
    BY <1>1, <2>2, SetRecordingKeeps DEF Gentle, boot_recording, SetRecording, maintenance, Scanning
  <2> QED
    BY <2>3, <2>4
<1>2. CASE recording_fails(d)
  <2>1. RecorderTypes'
    BY <1>2 DEF recording_fails, Stop, OnlyRecorder, maintenance, RecorderTypes, PerChannel
  <2>2. ASSUME NEW c \in Channels PROVE RecorderHolds(c)'
    <3>1. RecorderHolds(c)
      BY DEF RecordersInv
    <3> QED
      BY <1>2, <3>1 DEF recording_fails, Stop, OnlyRecorder, maintenance,
         RecorderTypes, PerChannel, RecorderHolds
  <2>3. ASSUME NEW c \in Channels PROVE Gentle(c)
    BY <1>2 DEF recording_fails, Stop, OnlyRecorder, maintenance,
       RecorderTypes, PerChannel, Gentle, Scanning
  <2> QED
    BY <2>1, <2>2, <2>3
<1>3. CASE start_segment(d)
  <2>1. RecorderTypes'
    BY <1>3 DEF start_segment, OnlyRecorder, maintenance, RecorderTypes, PerChannel
  <2>2. ASSUME NEW c \in Channels PROVE RecorderHolds(c)'
    <3>1. RecorderHolds(c)
      BY DEF RecordersInv
    <3> QED
      BY <1>3, <3>1 DEF start_segment, OnlyRecorder, maintenance,
         RecorderTypes, PerChannel, RecorderHolds
  <2>3. ASSUME NEW c \in Channels PROVE Gentle(c)
    BY <1>3 DEF start_segment, OnlyRecorder, maintenance,
       RecorderTypes, PerChannel, Gentle, Scanning
  <2> QED
    BY <2>1, <2>2, <2>3
<1>4. CASE write_segment(d)
  <2>1. RecorderTypes'
    BY <1>4 DEF write_segment, OnlyRecorder, maintenance, RecorderTypes, PerChannel
  <2>2. ASSUME NEW c \in Channels PROVE RecorderHolds(c)'
    <3>1. RecorderHolds(c)
      BY DEF RecordersInv
    <3> QED
      BY <1>4, <3>1 DEF write_segment, OnlyRecorder, maintenance,
         RecorderTypes, PerChannel, RecorderHolds
  <2>3. ASSUME NEW c \in Channels PROVE Gentle(c)
    BY <1>4 DEF write_segment, OnlyRecorder, maintenance,
       RecorderTypes, PerChannel, Gentle, Scanning
  <2> QED
    BY <2>1, <2>2, <2>3
<1>5. CASE rotate_segment(d)
  <2>1. RecorderTypes'
    BY <1>5 DEF rotate_segment, OnlyRecorder, maintenance, RecorderTypes, PerChannel
  <2>2. ASSUME NEW c \in Channels PROVE RecorderHolds(c)'
    <3>1. RecorderHolds(c)
      BY DEF RecordersInv
    <3> QED
      BY <1>5, <3>1 DEF rotate_segment, OnlyRecorder, maintenance,
         RecorderTypes, PerChannel, RecorderHolds
  <2>3. ASSUME NEW c \in Channels PROVE Gentle(c)
    BY <1>5 DEF rotate_segment, OnlyRecorder, maintenance,
       RecorderTypes, PerChannel, Gentle, Scanning
  <2> QED
    BY <2>1, <2>2, <2>3
<1>6. CASE \E closed \in BOOLEAN : writer_ends(d, closed)
  <2>1. RecorderTypes'
    BY <1>6 DEF writer_ends, OnlyRecorder, maintenance, RecorderTypes, PerChannel
  <2>2. ASSUME NEW c \in Channels PROVE RecorderHolds(c)'
    <3>1. RecorderHolds(c)
      BY DEF RecordersInv
    <3> QED
      BY <1>6, <3>1 DEF writer_ends, OnlyRecorder, maintenance,
         RecorderTypes, PerChannel, RecorderHolds
  <2>3. ASSUME NEW c \in Channels PROVE Gentle(c)
    BY <1>6 DEF writer_ends, OnlyRecorder, maintenance,
       RecorderTypes, PerChannel, Gentle, Scanning
  <2> QED
    BY <2>1, <2>2, <2>3
<1>7. CASE probe_begin(d)
  <2>1. RecorderTypes'
    BY <1>7 DEF probe_begin, MayBegin, OnlyScan, recorder, RecorderTypes, PerChannel
  <2>2. ASSUME NEW c \in Channels PROVE RecorderHolds(c)'
    <3>1. RecorderHolds(c)
      BY DEF RecordersInv
    <3> QED
      BY <1>7, <3>1 DEF probe_begin, MayBegin, OnlyScan, recorder,
         RecorderTypes, PerChannel, RecorderHolds
  <2>3. ASSUME NEW c \in Channels PROVE Gentle(c)
    BY <1>7 DEF probe_begin, MayBegin, OnlyScan, recorder,
       RecorderTypes, PerChannel, Gentle, Scanning
  <2> QED
    BY <2>1, <2>2, <2>3
<1>8. CASE probe_card(d)
  <2>1. RecorderTypes'
    BY <1>8 DEF probe_card, OnlyScan, recorder, RecorderTypes, PerChannel
  <2>2. ASSUME NEW c \in Channels PROVE RecorderHolds(c)'
    <3>1. RecorderHolds(c)
      BY DEF RecordersInv
    <3> QED
      BY <1>8, <3>1 DEF probe_card, OnlyScan, recorder,
         RecorderTypes, PerChannel, RecorderHolds
  <2>3. ASSUME NEW c \in Channels PROVE Gentle(c)
    BY <1>8 DEF probe_card, OnlyScan, recorder,
       RecorderTypes, PerChannel, Gentle, Scanning
  <2> QED
    BY <2>1, <2>2, <2>3
<1>9. CASE probe_end(d)
  <2>1. RecorderTypes'
    BY <1>9 DEF probe_end, OnlyScan, recorder, RecorderTypes, PerChannel
  <2>2. ASSUME NEW c \in Channels PROVE RecorderHolds(c)'
    <3>1. RecorderHolds(c)
      BY DEF RecordersInv
    <3> QED
      BY <1>9, <3>1 DEF probe_end, OnlyScan, recorder,
         RecorderTypes, PerChannel, RecorderHolds
  <2>3. ASSUME NEW c \in Channels PROVE Gentle(c)
    BY <1>9 DEF probe_end, OnlyScan, recorder,
       RecorderTypes, PerChannel, Gentle, Scanning
  <2> QED
    BY <2>1, <2>2, <2>3
<1>10. CASE clean_begin(d)
  <2>1. RecorderTypes'
    BY <1>10 DEF clean_begin, OnlyScan, recorder, RecorderTypes, PerChannel
  <2>2. ASSUME NEW c \in Channels PROVE RecorderHolds(c)'
    <3>1. RecorderHolds(c)
      BY DEF RecordersInv
    <3> QED
      BY <1>10, <3>1 DEF clean_begin, OnlyScan, recorder,
         RecorderTypes, PerChannel, RecorderHolds
  <2>3. ASSUME NEW c \in Channels PROVE Gentle(c)
    BY <1>10 DEF clean_begin, OnlyScan, recorder,
       RecorderTypes, PerChannel, Gentle, Scanning
  <2> QED
    BY <2>1, <2>2, <2>3
<1>11. CASE clean_end(d)
  <2>1. RecorderTypes'
    BY <1>11 DEF clean_end, OnlyScan, recorder, RecorderTypes, PerChannel
  <2>2. ASSUME NEW c \in Channels PROVE RecorderHolds(c)'
    <3>1. RecorderHolds(c)
      BY DEF RecordersInv
    <3> QED
      BY <1>11, <3>1 DEF clean_end, OnlyScan, recorder,
         RecorderTypes, PerChannel, RecorderHolds
  <2>3. ASSUME NEW c \in Channels PROVE Gentle(c)
    BY <1>11 DEF clean_end, OnlyScan, recorder,
       RecorderTypes, PerChannel, Gentle, Scanning
  <2> QED
    BY <2>1, <2>2, <2>3
<1>12. CASE observation_expires(d)
  <2>1. RecorderTypes'
    BY <1>12 DEF observation_expires, OnlyScan, recorder, RecorderTypes, PerChannel
  <2>2. ASSUME NEW c \in Channels PROVE RecorderHolds(c)'
    <3>1. RecorderHolds(c)
      BY DEF RecordersInv
    <3> QED
      BY <1>12, <3>1 DEF observation_expires, OnlyScan, recorder,
         RecorderTypes, PerChannel, RecorderHolds
  <2>3. ASSUME NEW c \in Channels PROVE Gentle(c)
    BY <1>12 DEF observation_expires, OnlyScan, recorder,
       RecorderTypes, PerChannel, Gentle, Scanning
  <2> QED
    BY <2>1, <2>2, <2>3
<1> QED
  BY <1>1, <1>2, <1>3, <1>4, <1>5, <1>6, <1>7, <1>8, <1>9, <1>10, <1>11, <1>12 DEF OfItself, Record, Scan

(***************************************************************************)
(* The steps of the reader, its clients and the timelapse: the recorders   *)
(* are as they were, and most leave the format thread where it is.         *)
(***************************************************************************)
Fresh == Points \ (Alone \cup {"release", "open"})

(* The recorders and the format thread alone: only the threads' part is due.*)
LEMMA StillInv ==
    ASSUME FormatInv, ThreadTypes', ThreadInv', UNCHANGED <<rmr, mounted, warned, format>>
    PROVE FormatInv'
<1>1. RecorderTypes' /\ \A c \in Channels : RecorderHolds(c)'
  BY StillHolds DEF FormatInv
<1>2. ASSUME NEW c \in Channels PROVE Known(format, c)'
  <2>1. PICK f \in Locals : f = format
    BY DEF FormatInv, ThreadTypes
  <2>2. Gentle(c) /\ RecorderHolds(c) /\ Known(f, c) /\ Ordered(f)
    BY <2>1, StillGentle DEF FormatInv, RecordersInv, ThreadInv
  <2>3. Known(f, c)'
    BY <2>2, GentleKnows
  <2> QED
    BY <2>1, <2>3
<1> QED
  BY <1>1, <1>2 DEF FormatInv, RecordersInv

(* Steps of the recorders leave the threads alone.                         *)
LEMMA OfItselfLeaves ==
    ASSUME NEW d \in Channels, OfItself(d)
    PROVE UNCHANGED <<reader, timelapse, storage, control, person, mutation, faults>>
BY DEF OfItself, Record, Scan, boot_recording, recording_fails, start_segment,
   write_segment, rotate_segment, writer_ends, probe_begin, probe_card, probe_end,
   clean_begin, clean_end, observation_expires, OnlyRecorder, OnlyScan

(* So a step of a recorder keeps the invariant.                            *)
LEMMA OfItselfIsSafe ==
    ASSUME NEW d \in Channels, FormatInv, OfItself(d)
    PROVE FormatInv'
<1>1. UNCHANGED <<reader, timelapse, storage, control, person, mutation, faults>>
  BY OfItselfLeaves
<1> HIDE DEF OfItself
<1>2. ThreadTypes'
  BY <1>1 DEF FormatInv, ThreadTypes, reader, timelapse, storage, control, person
<1>3. ThreadInv'
  BY <1>1 DEF FormatInv, ThreadInv, LatchIsOne, LockIsTheirs, PauseIsHeld, DrainIsLast,
     WorkerIsAsked, Working, At, reader, timelapse, storage, control, person
<1>4. RecorderTypes' /\ \A c \in Channels : RecorderHolds(c)' /\ Gentle(c)
  BY <1>1, OfItselfKeeps DEF FormatInv, ThreadTypes, storage
<1>5. ASSUME NEW c \in Channels PROVE Known(format, c)'
  <2>1. PICK f \in Locals : f = format
    BY DEF FormatInv, ThreadTypes
  <2>2. RecorderHolds(c) /\ Known(f, c) /\ Ordered(f)
    BY <2>1 DEF FormatInv, RecordersInv, ThreadInv
  <2>3. Known(f, c)'
    BY <1>1, <1>4, <2>2, GentleKnows DEF control
  <2> QED
    BY <1>1, <2>1, <2>3 DEF control
<1> QED
  BY <1>2, <1>3, <1>4, <1>5 DEF FormatInv, RecordersInv

(* A step that leaves the format thread, the worker and the card alone     *)
(* leaves as it was what they say of one another.                          *)
LEMMA AsideKeeps ==
    ASSUME ThreadInv, UNCHANGED <<format, worker>>
    PROVE WorkerIsAsked' /\ Ordered(format)'
BY DEF ThreadInv, WorkerIsAsked, Working, At

(* A request for the reader takes the lock at most, and only a free one.   *)
LEMMA RecordingFilesKeeps ==
    ASSUME NEW k \in Clients, NEW kind \in {"read", "delete"}, FormatInv, recording_files(k, kind)
    PROVE FormatInv'
<1>. ThreadTypes /\ ThreadInv
  BY DEF FormatInv
<1>1. UNCHANGED <<rmr, mounted, warned, format, worker>>
  BY DEF recording_files, storage, control
<1>2. ThreadTypes'
  BY Names, Limits DEF ThreadTypes, recording_files, Jobs, Requests,
     reader, timelapse, storage, control, person
<1>3. LatchIsOne'
  BY DEF ThreadTypes, Requests, ThreadInv, LatchIsOne, At, recording_files,
     reader, timelapse, storage, control, person
<1>4. LockIsTheirs'
  BY Names DEF ThreadInv, LockIsTheirs, At, recording_files,
     reader, timelapse, storage, control, person
<1>5. PauseIsHeld'
  BY DEF ThreadTypes, ThreadInv, PauseIsHeld, recording_files,
     reader, timelapse, storage, control, person
<1>6. DrainIsLast'
  BY Names DEF ThreadTypes, Jobs, ThreadInv, LatchIsOne, DrainIsLast, At, Job, recording_files,
     reader, timelapse, storage, control, person
<1> QED
  BY <1>1, <1>2, <1>3, <1>4, <1>5, <1>6, AsideKeeps, StillInv DEF ThreadInv

(* A request to format begins as a request for the reader.                 *)
LEMMA QueueStorageFormatKeeps ==
    ASSUME NEW k \in Clients, FormatInv, queue_storage_format(k)
    PROVE FormatInv'
<1>. ThreadTypes /\ ThreadInv
  BY DEF FormatInv
<1>1. UNCHANGED <<rmr, mounted, warned, format, worker>>
  BY DEF queue_storage_format, storage, control
<1>2. ThreadTypes'
  BY Names, Limits DEF ThreadTypes, queue_storage_format, Jobs, Requests,
     reader, timelapse, storage, control, person
<1>3. LatchIsOne'
  BY DEF ThreadTypes, Requests, ThreadInv, LatchIsOne, At, queue_storage_format,
     reader, timelapse, storage, control, person
<1>4. LockIsTheirs'
  BY Names DEF ThreadInv, LockIsTheirs, At, queue_storage_format,
     reader, timelapse, storage, control, person
<1>5. PauseIsHeld'
  BY DEF ThreadTypes, ThreadInv, PauseIsHeld, queue_storage_format,
     reader, timelapse, storage, control, person
<1>6. DrainIsLast'
  BY Names DEF ThreadTypes, Jobs, ThreadInv, LatchIsOne, DrainIsLast, At, Job, queue_storage_format,
     reader, timelapse, storage, control, person
<1> QED
  BY <1>1, <1>2, <1>3, <1>4, <1>5, <1>6, AsideKeeps, StillInv DEF ThreadInv

(* A client submits while no format is on: the drain is not in the queue.  *)
LEMMA SubmitKeeps ==
    ASSUME NEW k \in Clients, FormatInv, submit(k)
    PROVE FormatInv'
<1>. ThreadTypes /\ ThreadInv
  BY DEF FormatInv
<1>1. UNCHANGED <<rmr, mounted, warned, format, worker>>
  BY DEF submit, storage, control
<1>2. ThreadTypes'
  BY Names DEF ThreadTypes, submit, Request, Job, Jobs, Requests,
     reader, timelapse, storage, control, person
<1>3. LatchIsOne'
  BY DEF ThreadTypes, Requests, ThreadInv, LatchIsOne, At, submit, Request, Job,
     reader, timelapse, storage, control, person
<1>4. LockIsTheirs'
  BY Names DEF ThreadInv, LockIsTheirs, At, submit, Request, Job,
     reader, timelapse, storage, control, person
<1>5. PauseIsHeld'
  BY DEF ThreadTypes, ThreadInv, PauseIsHeld, submit, Request, Job,
     reader, timelapse, storage, control, person
<1>6. DrainIsLast'
  BY JobFacts DEF ThreadInv, LatchIsOne, DrainIsLast, At, submit, Alone, Stops, Resuming, Starting,
     reader, timelapse, storage, control, person
<1> QED
  BY <1>1, <1>2, <1>3, <1>4, <1>5, <1>6, AsideKeeps, StillInv DEF ThreadInv

(* A refused client gives back its own lock only.                          *)
LEMMA SubmitRefusedKeeps ==
    ASSUME NEW k \in Clients, FormatInv, submit_refused(k)
    PROVE FormatInv'
<1>. ThreadTypes /\ ThreadInv
  BY DEF FormatInv
<1>1. UNCHANGED <<rmr, mounted, warned, format, worker>>
  BY DEF submit_refused, storage, control
<1>2. ThreadTypes'
  BY Names DEF ThreadTypes, submit_refused, Request, Unlock, Jobs, Requests,
     reader, timelapse, storage, control, person
<1>3. LatchIsOne'
  BY DEF ThreadTypes, Requests, ThreadInv, LatchIsOne, At, submit_refused, Request, Unlock,
     reader, timelapse, storage, control, person
<1>4. LockIsTheirs'
  BY Names DEF ThreadInv, LockIsTheirs, At, submit_refused, Request, Unlock,
     reader, timelapse, storage, control, person
<1>5. PauseIsHeld'
  BY DEF ThreadTypes, ThreadInv, PauseIsHeld, submit_refused, Request, Unlock,
     reader, timelapse, storage, control, person
<1>6. DrainIsLast'
  BY Names DEF ThreadTypes, Jobs, ThreadInv, LatchIsOne, DrainIsLast, At, Job, submit_refused, Request, Unlock,
     reader, timelapse, storage, control, person
<1> QED
  BY <1>1, <1>2, <1>3, <1>4, <1>5, <1>6, AsideKeeps, StillInv DEF ThreadInv

(* A client that gives up expires its own job, never the drain.            *)
LEMMA SubmitTimesOutKeeps ==
    ASSUME NEW k \in Clients, FormatInv, submit_times_out(k)
    PROVE FormatInv'
<1>. ThreadTypes /\ ThreadInv
  BY DEF FormatInv
<1>1. UNCHANGED <<rmr, mounted, warned, format, worker>>
  BY DEF submit_times_out, storage, control
<1>2. ThreadTypes'
  <2>1. job' \in Jobs /\ reading' \in Jobs
    BY LateFacts DEF ThreadTypes, submit_times_out
  <2>2. client' \in [Clients -> Requests]
    BY DEF ThreadTypes, submit_times_out, Request, Requests
  <2> QED
    BY <2>1, <2>2 DEF ThreadTypes, submit_times_out, Unlock, timelapse, storage, control, person
<1>3. LatchIsOne'
  BY DEF ThreadTypes, Requests, ThreadInv, LatchIsOne, At, submit_times_out, Request, Unlock, Late, Job,
     reader, timelapse, storage, control, person
<1>4. LockIsTheirs'
  BY Names DEF ThreadInv, LockIsTheirs, At, submit_times_out, Request, Unlock, Late, Job,
     reader, timelapse, storage, control, person
<1>5. PauseIsHeld'
  BY DEF ThreadTypes, ThreadInv, PauseIsHeld, submit_times_out, Request, Unlock, Late, Job,
     reader, timelapse, storage, control, person
<1>6. DrainIsLast'
  <2>1. job' = Late(job, k) /\ reading' = Late(reading, k) /\ format' = format
    BY DEF submit_times_out, control
  <2>4. job \in Jobs /\ reading \in Jobs
    BY DEF ThreadTypes
  <2>2. /\ job' = None <=> job = None
        /\ job' = Job("format") <=> job = Job("format")
    <3>1. PICK j \in Jobs : j = job
      BY <2>4
    <3>2. (Late(j, k) = None <=> j = None) /\ (Late(j, k) = Job("format") <=> j = Job("format"))
      BY LateFacts
    <3> QED
      BY <2>1, <3>1, <3>2
  <2>3. /\ reading' = None <=> reading = None
        /\ reading' = Job("format") <=> reading = Job("format")
    <3>1. PICK j \in Jobs : j = reading
      BY <2>4
    <3>2. (Late(j, k) = None <=> j = None) /\ (Late(j, k) = Job("format") <=> j = Job("format"))
      BY LateFacts
    <3> QED
      BY <2>1, <3>1, <3>2
  <2> QED
    BY <2>1, <2>2, <2>3 DEF ThreadInv, DrainIsLast, At
<1> QED
  BY <1>1, <1>2, <1>3, <1>4, <1>5, <1>6, AsideKeeps, StillInv DEF ThreadInv

(* A job that the reader receives is in the queue no longer.               *)
LEMMA ReceiveJobKeeps ==
    ASSUME FormatInv, receive_job
    PROVE FormatInv'
<1>. ThreadTypes /\ ThreadInv
  BY DEF FormatInv
<1>1. UNCHANGED <<rmr, mounted, warned, format, worker>>
  BY DEF receive_job, storage, control
<1>2. ThreadTypes'
  BY Names DEF ThreadTypes, receive_job, Jobs, Requests,
     reader, timelapse, storage, control, person
<1>3. LatchIsOne'
  BY DEF ThreadTypes, Requests, ThreadInv, LatchIsOne, At, receive_job,
     reader, timelapse, storage, control, person
<1>4. LockIsTheirs'
  BY Names DEF ThreadInv, LockIsTheirs, At, receive_job,
     reader, timelapse, storage, control, person
<1>5. PauseIsHeld'
  BY DEF ThreadTypes, ThreadInv, PauseIsHeld, receive_job,
     reader, timelapse, storage, control, person
<1>6. DrainIsLast'
  <2>1. job # None /\ reading = None /\ job' = None /\ format' = format
    BY DEF receive_job, control
  <2>2. job = Job("format") => reading' = Job("format")
    BY DEF receive_job, Job
  <2>3. job # Job("format") => reading' # Job("format")
    BY JobFacts DEF receive_job
  <2>4. None # Job("format")
    BY JobFacts
  <2> QED
    BY <2>1, <2>2, <2>3, <2>4 DEF ThreadInv, DrainIsLast, At
<1> QED
  BY <1>1, <1>2, <1>3, <1>4, <1>5, <1>6, AsideKeeps, StillInv DEF ThreadInv

(* The latch is taken by one client, when no format is anywhere.           *)
LEMMA ActivateFormatKeeps ==
    ASSUME NEW k \in Clients, FormatInv, activate_format(k)
    PROVE FormatInv'
<1>. ThreadTypes /\ ThreadInv
  BY DEF FormatInv
<1>1. UNCHANGED <<rmr, mounted, warned, format, worker>>
  BY DEF activate_format, storage, control
<1>2. ThreadTypes'
  <2>1. client' \in [Clients -> Requests]
    BY DEF ThreadTypes, activate_format, Request, Requests
  <2>2. format_active' \in BOOLEAN
    BY DEF ThreadTypes, activate_format
  <2> QED
    BY <2>1, <2>2 DEF ThreadTypes, activate_format, timelapse, storage, person
<1>3. LatchIsOne'
  BY DEF ThreadTypes, Requests, ThreadInv, LatchIsOne, At, activate_format, Request,
     reader, timelapse, storage, control, person
<1>4. LockIsTheirs'
  BY Names DEF ThreadInv, LockIsTheirs, At, activate_format, Request,
     reader, timelapse, storage, control, person
<1>5. PauseIsHeld'
  BY DEF ThreadTypes, ThreadInv, PauseIsHeld, activate_format, Request,
     reader, timelapse, storage, control, person
<1>6. DrainIsLast'
  BY Names DEF ThreadTypes, Jobs, ThreadInv, LatchIsOne, DrainIsLast, At, Job, activate_format, Request,
     reader, timelapse, storage, control, person
<1> QED
  BY <1>1, <1>2, <1>3, <1>4, <1>5, <1>6, AsideKeeps, StillInv DEF ThreadInv

(* The one that took it puts the format in the queue.                      *)
LEMMA SendFormatKeeps ==
    ASSUME NEW k \in Clients, FormatInv, send_format(k)
    PROVE FormatInv'
<1>. ThreadTypes /\ ThreadInv
  BY DEF FormatInv
<1>1. UNCHANGED <<rmr, mounted, warned, format, worker>>
  BY DEF send_format, storage, control
<1>2. ThreadTypes'
  BY Names DEF ThreadTypes, send_format, Request, Jobs, Requests,
     reader, timelapse, storage, control, person
<1>3. LatchIsOne'
  BY DEF ThreadTypes, Requests, ThreadInv, LatchIsOne, At, send_format, Request,
     reader, timelapse, storage, control, person
<1>4. LockIsTheirs'
  BY Names DEF ThreadInv, LockIsTheirs, At, send_format, Request,
     reader, timelapse, storage, control, person
<1>5. PauseIsHeld'
  BY DEF ThreadTypes, ThreadInv, PauseIsHeld, send_format, Request,
     reader, timelapse, storage, control, person
<1>6. DrainIsLast'
  BY Names DEF ThreadTypes, Jobs, ThreadInv, LatchIsOne, DrainIsLast, At, Job, send_format, Request,
     reader, timelapse, storage, control, person
<1> QED
  BY <1>1, <1>2, <1>3, <1>4, <1>5, <1>6, AsideKeeps, StillInv DEF ThreadInv

(* The timelapse begins nothing while a pause is held.                     *)
LEMMA TimelapseWorksKeeps ==
    ASSUME FormatInv, timelapse_works
    PROVE FormatInv'
<1>. ThreadTypes /\ ThreadInv
  BY DEF FormatInv
<1>1. UNCHANGED <<rmr, mounted, warned, format, worker>>
  BY DEF timelapse_works, storage, control
<1>2. ThreadTypes'
  <2>1. writing' \in BOOLEAN /\ UNCHANGED pause
    BY DEF timelapse_works, Timelapse!Begin, Timelapse!End
  <2> QED
    BY <2>1 DEF ThreadTypes, timelapse_works, reader, storage, control, person
<1>3. LatchIsOne'
  BY DEF ThreadTypes, Requests, ThreadInv, LatchIsOne, At, timelapse_works, Timelapse!Begin, Timelapse!End,
     reader, timelapse, storage, control, person
<1>4. LockIsTheirs'
  BY Names DEF ThreadInv, LockIsTheirs, At, timelapse_works, Timelapse!Begin, Timelapse!End,
     reader, timelapse, storage, control, person
<1>5. PauseIsHeld'
  BY DEF ThreadTypes, ThreadInv, PauseIsHeld, timelapse_works, Timelapse!Begin, Timelapse!End,
     reader, timelapse, storage, control, person
<1>6. DrainIsLast'
  BY Names DEF ThreadTypes, Jobs, ThreadInv, LatchIsOne, DrainIsLast, At, Job, timelapse_works, Timelapse!Begin, Timelapse!End,
     reader, timelapse, storage, control, person
<1> QED
  BY <1>1, <1>2, <1>3, <1>4, <1>5, <1>6, AsideKeeps, StillInv DEF ThreadInv

(***************************************************************************)
(* The format thread until it is alone with the card.                      *)
(***************************************************************************)

(* Its locals are those of a format that has just begun.                   *)
LEMMA FreshFacts ==
    ASSUME FormatInv, format.pc \in Fresh
    PROVE /\ format \in Locals /\ format.prior = {} /\ format.stopped = {}
          /\ format.held = {} /\ ~format.bad /\ format.result = "failed"
          /\ \A c \in Channels : paused[c] => warned
<1>1. format \in Locals /\ Ordered(format) /\ \A c \in Channels : Known(format, c)
  BY DEF FormatInv, ThreadTypes, ThreadInv, RecordersInv
<1>2. format.prior = {} /\ format.held = {} /\ format.stopped \subseteq format.prior
  BY <1>1 DEF Ordered, Fresh
<1>3. ~format.bad /\ format.result = "failed"
  BY <1>1 DEF Ordered, Fresh, Points, Locked, Holding, Alone, Stops, Resuming, Starting
<1>4. \A c \in Channels : paused[c] => warned
  BY <1>1, NoneIsPaused DEF Fresh
<1> QED
  BY <1>1, <1>2, <1>3, <1>4

(* So it may go on to any such point, to its first observation, or give up.*)
LEMMA FreshMoves ==
    ASSUME FormatInv, format.pc \in Fresh, NEW pc \in Fresh \cup {"observe", "release"},
           format'.pc = pc, format' \in Locals, format'.prior = {}, format'.stopped = {},
           format'.held = {}, ~format'.bad, format'.result = "failed",
           UNCHANGED <<rmr, mounted, warned>>, ThreadTypes', LatchIsOne', LockIsTheirs',
           PauseIsHeld', DrainIsLast', WorkerIsAsked'
    PROVE FormatInv'
<1>1. PICK g \in Locals : g = format'
  OBVIOUS
<1>2. Ordered(g)
  BY <1>1 DEF Ordered, Fresh, Points, Locked, Holding, Alone, Stops, Resuming, Starting
<1>3. RecorderTypes' /\ \A c \in Channels : RecorderHolds(c)'
  BY StillHolds DEF FormatInv
<1>4. ASSUME NEW c \in Channels PROVE Known(g, c)'
  <2>1. paused'[c] => warned'
    BY FreshFacts DEF rmr, maintenance
  <2>2. g.pc \in {"recv", "lock", "pause", "pausing", "drain", "drained",
                  "observe", "release"}
    BY <1>1 DEF Fresh, Points, Locked, Holding, Alone, Stops, Resuming, Starting
  <2> QED
    BY <1>1, <2>1, <2>2, EarlyKnows
<1> QED
  BY <1>1, <1>2, <1>3, <1>4 DEF FormatInv, ThreadInv, RecordersInv

(* The thread takes the format from the queue, with fresh locals.          *)
LEMMA ReceiveFormatKeeps ==
    ASSUME FormatInv, receive_format
    PROVE FormatInv'
<1>. ThreadTypes /\ ThreadInv
  BY DEF FormatInv
<1>1. format.pc \in Fresh /\ UNCHANGED <<rmr, mounted, warned, worker>>
  BY DEF receive_format, NoFormat, At, storage,
     Fresh, Points, Locked, Holding, Alone, Stops, Resuming, Starting
<1>2. /\ format \in Locals /\ format.prior = {} /\ format.stopped = {}
      /\ format.held = {} /\ ~format.bad /\ format.result = "failed"
  BY <1>1, FreshFacts
<1>3. /\ format' \in Locals /\ format'.pc \in Fresh \cup {"observe", "release"}
      /\ format'.prior = {} /\ format'.stopped = {}
      /\ format'.held = {} /\ ~format'.bad /\ format'.result = "failed"
  BY <1>2, FirstChannel DEF receive_format, NoFormat, At, Locals,
     Fresh, Points, Locked, Holding, Alone, Stops, Resuming, Starting
<1>4. ThreadTypes'
  <2>1. format_queue' \in BOOLEAN
    BY DEF receive_format
  <2> QED
    BY <1>3, <2>1 DEF ThreadTypes, receive_format, reader, timelapse, storage, person
<1>5. LatchIsOne'
  BY <1>2 DEF ThreadTypes, Requests, ThreadInv, LatchIsOne, At, receive_format, NoFormat,
     reader, timelapse, storage, control, person, Locals
<1>6. LockIsTheirs'
  BY <1>2, Names DEF ThreadInv, LockIsTheirs, At, receive_format, NoFormat,
     reader, timelapse, storage, control, person, Locals, Fresh, Points, Locked, Holding, Alone, Stops, Resuming, Starting
<1>7. PauseIsHeld'
  BY <1>2 DEF ThreadTypes, ThreadInv, PauseIsHeld, At, receive_format, NoFormat,
     reader, timelapse, storage, control, person, Locals, Fresh, Points, Locked, Holding, Alone, Stops, Resuming, Starting
<1>8. DrainIsLast'
  BY <1>2, Names DEF ThreadTypes, Jobs, ThreadInv, LatchIsOne, DrainIsLast, At, Job, receive_format, NoFormat,
     reader, timelapse, storage, control, person, Locals, Fresh, Points, Locked, Holding, Alone, Stops, Resuming, Starting
<1>9. WorkerIsAsked'
  BY <1>1 DEF ThreadInv, WorkerIsAsked, Working, Fresh, Points, Locked, Holding, Alone, Stops, Resuming, Starting
<1> QED
  BY <1>1, <1>3, <1>4, <1>5, <1>6, <1>7, <1>8, <1>9, FreshMoves

(* It takes the lock if nobody has it, or gives up.                        *)
LEMMA LockMutationKeeps ==
    ASSUME FormatInv, lock_mutation
    PROVE FormatInv'
<1>. ThreadTypes /\ ThreadInv
  BY DEF FormatInv
<1>1. format.pc \in Fresh /\ UNCHANGED <<rmr, mounted, warned, worker>>
  BY DEF lock_mutation, Goto, OnlyFormat, At, storage,
     Fresh, Points, Locked, Holding, Alone, Stops, Resuming, Starting
<1>2. /\ format \in Locals /\ format.prior = {} /\ format.stopped = {}
      /\ format.held = {} /\ ~format.bad /\ format.result = "failed"
  BY <1>1, FreshFacts
<1>3. /\ format' \in Locals /\ format'.pc \in Fresh \cup {"observe", "release"}
      /\ format'.prior = {} /\ format'.stopped = {}
      /\ format'.held = {} /\ ~format'.bad /\ format'.result = "failed"
  BY <1>2, FirstChannel DEF lock_mutation, Goto, OnlyFormat, At, Locals,
     Fresh, Points, Locked, Holding, Alone, Stops, Resuming, Starting
<1>4. ThreadTypes'
  BY <1>3, Names DEF ThreadTypes, lock_mutation, Goto, OnlyFormat, Jobs, Requests,
     reader, timelapse, storage, control, person
<1>5. LatchIsOne'
  BY <1>2 DEF ThreadTypes, Requests, ThreadInv, LatchIsOne, At, lock_mutation, Goto, OnlyFormat,
     reader, timelapse, storage, control, person, Locals
<1>6. LockIsTheirs'
  BY <1>2, Names DEF ThreadInv, LockIsTheirs, At, lock_mutation, Goto, OnlyFormat,
     reader, timelapse, storage, control, person, Locals, Fresh, Points, Locked, Holding, Alone, Stops, Resuming, Starting
<1>7. PauseIsHeld'
  BY <1>2 DEF ThreadTypes, ThreadInv, PauseIsHeld, At, lock_mutation, Goto, OnlyFormat,
     reader, timelapse, storage, control, person, Locals, Fresh, Points, Locked, Holding, Alone, Stops, Resuming, Starting
<1>8. DrainIsLast'
  BY <1>2, Names DEF ThreadTypes, Jobs, ThreadInv, LatchIsOne, DrainIsLast, At, Job, lock_mutation, Goto, OnlyFormat,
     reader, timelapse, storage, control, person, Locals, Fresh, Points, Locked, Holding, Alone, Stops, Resuming, Starting
<1>9. WorkerIsAsked'
  BY <1>1 DEF ThreadInv, WorkerIsAsked, Working, Fresh, Points, Locked, Holding, Alone, Stops, Resuming, Starting
<1> QED
  BY <1>1, <1>3, <1>4, <1>5, <1>6, <1>7, <1>8, <1>9, FreshMoves

(* It asks the timelapse for its pause, and has it when it is granted.     *)
LEMMA PauseStorageKeeps ==
    ASSUME FormatInv, pause_storage
    PROVE FormatInv'
<1>. ThreadTypes /\ ThreadInv
  BY DEF FormatInv
<1>1. format.pc \in Fresh /\ UNCHANGED <<rmr, mounted, warned, worker>>
  BY DEF pause_storage, Goto, OnlyFormat, Timelapse!Ask, Timelapse!Grant,
     Timelapse!Withdraw, At, storage,
     Fresh, Points, Locked, Holding, Alone, Stops, Resuming, Starting
<1>2. /\ format \in Locals /\ format.prior = {} /\ format.stopped = {}
      /\ format.held = {} /\ ~format.bad /\ format.result = "failed"
  BY <1>1, FreshFacts
<1>3. /\ format' \in Locals /\ format'.pc \in Fresh \cup {"observe", "release"}
      /\ format'.prior = {} /\ format'.stopped = {}
      /\ format'.held = {} /\ ~format'.bad /\ format'.result = "failed"
  BY <1>2, FirstChannel DEF pause_storage, Goto, OnlyFormat, Timelapse!Ask, Timelapse!Grant,
     Timelapse!Withdraw, At, Locals,
     Fresh, Points, Locked, Holding, Alone, Stops, Resuming, Starting
<1>4. ThreadTypes'
  BY <1>3, Names DEF ThreadTypes, pause_storage, Goto, OnlyFormat, Timelapse!Ask, Timelapse!Grant,
     Timelapse!Withdraw, Jobs, Requests,
     reader, timelapse, storage, control, person
<1>5. LatchIsOne'
  BY <1>2 DEF ThreadTypes, Requests, ThreadInv, LatchIsOne, At, pause_storage, Goto, OnlyFormat, Timelapse!Ask, Timelapse!Grant,
     Timelapse!Withdraw,
     reader, timelapse, storage, control, person, Locals
<1>6. LockIsTheirs'
  BY <1>2, Names DEF ThreadInv, LockIsTheirs, At, pause_storage, Goto, OnlyFormat, Timelapse!Ask, Timelapse!Grant,
     Timelapse!Withdraw,
     reader, timelapse, storage, control, person, Locals, Fresh, Points, Locked, Holding, Alone, Stops, Resuming, Starting
<1>7. PauseIsHeld'
  BY <1>2 DEF ThreadTypes, ThreadInv, PauseIsHeld, At, pause_storage, Goto, OnlyFormat, Timelapse!Ask, Timelapse!Grant,
     Timelapse!Withdraw,
     reader, timelapse, storage, control, person, Locals, Fresh, Points, Locked, Holding, Alone, Stops, Resuming, Starting
<1>8. DrainIsLast'
  BY <1>2, Names DEF ThreadTypes, Jobs, ThreadInv, LatchIsOne, DrainIsLast, At, Job, pause_storage, Goto, OnlyFormat, Timelapse!Ask, Timelapse!Grant,
     Timelapse!Withdraw,
     reader, timelapse, storage, control, person, Locals, Fresh, Points, Locked, Holding, Alone, Stops, Resuming, Starting
<1>9. WorkerIsAsked'
  BY <1>1 DEF ThreadInv, WorkerIsAsked, Working, Fresh, Points, Locked, Holding, Alone, Stops, Resuming, Starting
<1> QED
  BY <1>1, <1>3, <1>4, <1>5, <1>6, <1>7, <1>8, <1>9, FreshMoves

(* It submits the drain, the only job of its own.                          *)
LEMMA DrainKeeps ==
    ASSUME FormatInv, drain
    PROVE FormatInv'
<1>. ThreadTypes /\ ThreadInv
  BY DEF FormatInv
<1>1. format.pc \in Fresh /\ UNCHANGED <<rmr, mounted, warned, worker>>
  BY DEF drain, Goto, OnlyFormat, Job, At, storage,
     Fresh, Points, Locked, Holding, Alone, Stops, Resuming, Starting
<1>2. /\ format \in Locals /\ format.prior = {} /\ format.stopped = {}
      /\ format.held = {} /\ ~format.bad /\ format.result = "failed"
  BY <1>1, FreshFacts
<1>3. /\ format' \in Locals /\ format'.pc \in Fresh \cup {"observe", "release"}
      /\ format'.prior = {} /\ format'.stopped = {}
      /\ format'.held = {} /\ ~format'.bad /\ format'.result = "failed"
  BY <1>2, FirstChannel DEF drain, Goto, OnlyFormat, Job, At, Locals,
     Fresh, Points, Locked, Holding, Alone, Stops, Resuming, Starting
<1>4. ThreadTypes'
  <2>1. job' \in Jobs
    BY JobFacts DEF ThreadTypes, drain
  <2> QED
    BY <1>3, <2>1 DEF ThreadTypes, drain, OnlyFormat, timelapse, storage, person
<1>5. LatchIsOne'
  BY <1>2 DEF ThreadTypes, Requests, ThreadInv, LatchIsOne, At, drain, Goto, OnlyFormat, Job,
     reader, timelapse, storage, control, person, Locals
<1>6. LockIsTheirs'
  BY <1>2, Names DEF ThreadInv, LockIsTheirs, At, drain, Goto, OnlyFormat, Job,
     reader, timelapse, storage, control, person, Locals, Fresh, Points, Locked, Holding, Alone, Stops, Resuming, Starting
<1>7. PauseIsHeld'
  BY <1>2 DEF ThreadTypes, ThreadInv, PauseIsHeld, At, drain, Goto, OnlyFormat, Job,
     reader, timelapse, storage, control, person, Locals, Fresh, Points, Locked, Holding, Alone, Stops, Resuming, Starting
<1>8. DrainIsLast'
  BY <1>2, Names DEF ThreadTypes, Jobs, ThreadInv, LatchIsOne, DrainIsLast, At, Job, drain, Goto, OnlyFormat, Job,
     reader, timelapse, storage, control, person, Locals, Fresh, Points, Locked, Holding, Alone, Stops, Resuming, Starting
<1>9. WorkerIsAsked'
  BY <1>1 DEF ThreadInv, WorkerIsAsked, Working, Fresh, Points, Locked, Holding, Alone, Stops, Resuming, Starting
<1> QED
  BY <1>1, <1>3, <1>4, <1>5, <1>6, <1>7, <1>8, <1>9, FreshMoves

(* It gives up when the drain is not answered, and expires it.             *)
LEMMA DrainTimesOutKeeps ==
    ASSUME FormatInv, drain_times_out
    PROVE FormatInv'
<1>. ThreadTypes /\ ThreadInv
  BY DEF FormatInv
<1>1. format.pc \in Fresh /\ UNCHANGED <<rmr, mounted, warned, worker>>
  BY DEF drain_times_out, Goto, Late, Job, At, storage,
     Fresh, Points, Locked, Holding, Alone, Stops, Resuming, Starting
<1>2. /\ format \in Locals /\ format.prior = {} /\ format.stopped = {}
      /\ format.held = {} /\ ~format.bad /\ format.result = "failed"
  BY <1>1, FreshFacts
<1>3. /\ format' \in Locals /\ format'.pc \in Fresh \cup {"observe", "release"}
      /\ format'.prior = {} /\ format'.stopped = {}
      /\ format'.held = {} /\ ~format'.bad /\ format'.result = "failed"
  BY <1>2, FirstChannel DEF drain_times_out, Goto, Late, Job, At, Locals,
     Fresh, Points, Locked, Holding, Alone, Stops, Resuming, Starting
<1>4. ThreadTypes'
  <2>1. job' \in Jobs /\ reading' \in Jobs
    BY LateFacts DEF ThreadTypes, drain_times_out
  <2> QED
    BY <1>3, <2>1 DEF ThreadTypes, drain_times_out, timelapse, storage, person
<1>5. LatchIsOne'
  BY <1>2 DEF ThreadTypes, Requests, ThreadInv, LatchIsOne, At, drain_times_out, Goto, Late, Job,
     reader, timelapse, storage, control, person, Locals
<1>6. LockIsTheirs'
  BY <1>2, Names DEF ThreadInv, LockIsTheirs, At, drain_times_out, Goto, Late, Job,
     reader, timelapse, storage, control, person, Locals, Fresh, Points, Locked, Holding, Alone, Stops, Resuming, Starting
<1>7. PauseIsHeld'
  BY <1>2 DEF ThreadTypes, ThreadInv, PauseIsHeld, At, drain_times_out, Goto, Late, Job,
     reader, timelapse, storage, control, person, Locals, Fresh, Points, Locked, Holding, Alone, Stops, Resuming, Starting
<1>8. DrainIsLast'
  BY <1>2, Names DEF ThreadTypes, Jobs, ThreadInv, LatchIsOne, DrainIsLast, At, Job, drain_times_out, Goto, Late, Job,
     reader, timelapse, storage, control, person, Locals, Fresh, Points, Locked, Holding, Alone, Stops, Resuming, Starting
<1>9. WorkerIsAsked'
  BY <1>1 DEF ThreadInv, WorkerIsAsked, Working, Fresh, Points, Locked, Holding, Alone, Stops, Resuming, Starting
<1> QED
  BY <1>1, <1>3, <1>4, <1>5, <1>6, <1>7, <1>8, <1>9, FreshMoves

(* The answer of the drain is the last: the reader is empty behind it.     *)
LEMMA AnswerJobKeeps ==
    ASSUME FormatInv, answer_job
    PROVE FormatInv'
<1>. ThreadTypes /\ ThreadInv
  BY DEF FormatInv
<1>1. UNCHANGED <<rmr, mounted, warned, worker>>
  BY DEF answer_job, storage
<1>2. CASE reading.live /\ reading.by = "format"
  <2>1. reading = Job("format") /\ At("drained") /\ job = None
    BY <1>2, Names DEF answer_job, ThreadTypes, Jobs, Job, ThreadInv, DrainIsLast, At
  <2>2. format.pc \in Fresh
    BY <2>1 DEF At, Fresh, Points, Locked, Holding, Alone, Stops, Resuming, Starting
  <2>3. /\ format \in Locals /\ format.prior = {} /\ format.stopped = {}
        /\ format.held = {} /\ ~format.bad /\ format.result = "failed"
    BY <2>2, FreshFacts
  <2>4. format' = [format EXCEPT !.pc = "observe", !.ch = 0]
    BY <1>2 DEF answer_job
  <2>5. /\ format' \in Locals /\ format'.pc = "observe"
        /\ format'.prior = {} /\ format'.stopped = {}
        /\ format'.held = {} /\ ~format'.bad /\ format'.result = "failed"
    BY <2>3, <2>4, FirstChannel
       DEF Locals, Points, Locked, Holding, Alone, Stops, Resuming, Starting
  <2>6. UNCHANGED <<client, mutation, job, reads, format_active, format_queue, formats, user,
                    sets, writing, pause, faults>> /\ reading' = None
    BY <1>2, Names DEF answer_job, timelapse, person
  <2>7. ThreadTypes'
    BY <1>1, <2>5, <2>6 DEF ThreadTypes, Jobs
  <2>8. LatchIsOne' /\ LockIsTheirs' /\ PauseIsHeld'
    BY <2>1, <2>5, <2>6 DEF ThreadInv, LatchIsOne, LockIsTheirs, PauseIsHeld, At,
       Locked, Holding, Alone
  <2>9. DrainIsLast'
    BY <2>1, <2>5, <2>6, Names DEF DrainIsLast, At, Job
  <2>10. WorkerIsAsked'
    BY <1>1, <2>1 DEF ThreadInv, WorkerIsAsked, Working, At
  <2> QED
    BY <1>1, <2>2, <2>5, <2>7, <2>8, <2>9, <2>10, FreshMoves
<1>3. CASE ~(reading.live /\ reading.by = "format")
  <2>1. reading # Job("format") /\ reading # None /\ UNCHANGED format
    BY <1>3 DEF answer_job, Job
  <2>2. ThreadTypes'
    BY <2>1 DEF ThreadTypes, answer_job, Request, Unlock, Jobs, Requests,
       reader, timelapse, storage, control, person
  <2>3. LatchIsOne'
    BY <2>1 DEF ThreadTypes, Requests, ThreadInv, LatchIsOne, At, answer_job, Request
  <2>4. LockIsTheirs'
    BY <2>1, Names DEF ThreadInv, LockIsTheirs, At, answer_job, Unlock, person
  <2>5. PauseIsHeld'
    BY <2>1 DEF ThreadInv, PauseIsHeld, answer_job, timelapse
  <2>6. DrainIsLast'
    BY <2>1, Names DEF ThreadInv, DrainIsLast, At, Job, answer_job
  <2> QED
    BY <1>1, <2>1, <2>2, <2>3, <2>4, <2>5, <2>6, AsideKeeps, StillInv DEF ThreadInv
<1> QED
  BY <1>2, <1>3

(***************************************************************************)
(* The format thread alone with the card.                                  *)
(***************************************************************************)

(* It goes from one command to the next, to its end or to nowhere.         *)
LEMMA AloneMoves ==
    ASSUME FormatInv, NEW f \in Locals, f = format, f.pc \in Alone,
           NEW g \in Locals, g = format', g.pc \in Alone \cup {"release"}, Ordered(g),
           worker' \in Works, Working' => g.pc \in {"answer", "uncertain"},
           UNCHANGED <<format_active, format_queue, warned, formats, reader, timelapse,
                       person, mounted, mutation>>,
           faults' \in 0 .. MaxFaults,
           RecorderTypes', \A c \in Channels : RecorderHolds(c)' /\ Known(g, c)'
    PROVE FormatInv'
<1>. ThreadTypes /\ ThreadInv
  BY DEF FormatInv
<1>1. ThreadTypes'
  BY DEF ThreadTypes, reader, timelapse, person
<1>2. LatchIsOne'
  BY DEF ThreadInv, LatchIsOne, At, reader, Alone, Stops, Resuming, Starting
<1>3. LockIsTheirs'
  BY DEF ThreadInv, LockIsTheirs, At, person, Locked, Holding
<1>4. PauseIsHeld'
  BY DEF ThreadInv, PauseIsHeld, timelapse, Holding, Alone, Stops, Resuming, Starting
<1>5. DrainIsLast'
  BY Names DEF ThreadInv, DrainIsLast, At, Job, reader, Alone, Stops, Resuming, Starting
<1>6. WorkerIsAsked'
  BY DEF WorkerIsAsked
<1> QED
  BY <1>1, <1>2, <1>3, <1>4, <1>5, <1>6 DEF FormatInv, ThreadInv, RecordersInv

(* A command or an observation: the worker has not been asked.             *)
LEMMA CommandMoves ==
    ASSUME FormatInv, NEW f \in Locals, f = format,
           f.pc \in Alone \ {"answer", "uncertain"},
           NEW g \in Locals, g = format', g.pc \in Alone \cup {"release"}, Ordered(g),
           OnlyFormat, UNCHANGED <<job, timelapse, mutation>>, UNCHANGED faults \/ Fault,
           RecorderTypes', \A c \in Channels : RecorderHolds(c)' /\ Known(g, c)'
    PROVE FormatInv'
<1>1. ThreadTypes /\ ThreadInv
  BY DEF FormatInv
<1>2. faults' \in 0 .. MaxFaults
  BY <1>1, Limits DEF ThreadTypes, Fault
<1>3. worker' \in Works /\ ~Working'
  BY <1>1 DEF ThreadTypes, ThreadInv, WorkerIsAsked, Working, OnlyFormat, storage
<1>4. UNCHANGED <<format_active, format_queue, warned, formats, reader, timelapse,
                  person, mounted, mutation>>
  BY DEF OnlyFormat, reader, storage
<1> QED
  BY <1>2, <1>3, <1>4, AloneMoves

(* What a step that leaves the recorders alone, or is gentle with one,     *)
(* still knows.                                                            *)
LEMMA AloneFacts ==
    ASSUME FormatInv, NEW f \in Locals, f = format
    PROVE /\ RecorderTypes /\ RecordersInv /\ Ordered(f) /\ f.stopped \subseteq f.prior
          /\ \A c \in Channels : RecorderHolds(c) /\ Known(f, c)
          /\ \A c \in Channels : Gentle(c) /\ warned' = warned => Known(f, c)'
          /\ UNCHANGED rmr /\ mounted' = mounted /\ warned' = warned =>
               RecorderTypes' /\ \A c \in Channels : RecorderHolds(c)' /\ Known(f, c)'
<1>1. RecorderTypes /\ RecordersInv /\ Ordered(f)
      /\ \A c \in Channels : RecorderHolds(c) /\ Known(f, c)
  BY DEF FormatInv, ThreadInv, RecordersInv
<1>2. \A c \in Channels : Gentle(c) /\ warned' = warned => Known(f, c)'
  BY <1>1, GentleKnows
<1>3. UNCHANGED rmr => \A c \in Channels : Gentle(c)
  BY StillGentle
<1>4. UNCHANGED rmr /\ mounted' = mounted =>
        RecorderTypes' /\ \A c \in Channels : RecorderHolds(c)'
  BY <1>1, StillHolds
<1> QED
  BY <1>1, <1>2, <1>3, <1>4 DEF Ordered

(* It gives up, or is through: whatever it has stopped or paused is put    *)
(* back.                                                                   *)
LEMMA GivesUp ==
    ASSUME NEW f \in Locals, NEW h \in Locals,
           f.pc \in Alone \ (Resuming \cup Starting \cup {"uncertain"}),
           h.prior = f.prior, f.stopped \subseteq h.stopped, h.stopped \subseteq h.prior,
           f.held \subseteq h.held
    PROVE LET g == Resume(h, 0) IN
          /\ g \in Locals /\ g.pc \in Alone \cup {"release"} /\ Ordered(g)
          /\ g.pc \notin {"answer", "uncertain"}
          /\ \A c \in Channels : Known(f, c)' => Known(g, c)'
<1>1. LET g == Resume(h, 0) IN
      /\ g \in Locals /\ g.pc \in {"resume", "restore", "release"} /\ Ordered(g)
  BY ResumeOrdered
<1>2. ASSUME NEW c \in Channels, Known(f, c)' PROVE Known(Resume(h, 0), c)'
  <2>1. c \in h.prior => ~boot_recording_pending'[c]
    BY <1>2 DEF Known
  <2>2. paused'[c] => warned' \/ (c \in h.held /\ c >= 0)
    <3>1. MayBePaused(f, c) => c \in f.held
      BY DEF MayBePaused, Points, Locked, Holding, Alone, Stops, Resuming, Starting
    <3> QED
      BY <1>2, <3>1, FirstChannel DEF Known
  <2>3. c \in h.prior /\ c \notin h.stopped => recording'[c] \/ managed_error'[c]
    <3>1. c \in f.prior /\ c \notin f.stopped => Owed(f, c)
      BY DEF Owed, Locked, Holding
    <3> QED
      BY <1>2, <3>1 DEF Known
  <2> QED
    BY <2>1, <2>2, <2>3, ResumeKnows
<1> QED
  BY <1>1, <1>2 DEF Alone, Resuming, Starting

(* One recorder could not be restored: the next is.                        *)
LEMMA NotRestoredKeeps ==
    ASSUME NEW f \in Locals, f.pc \in Starting, f.stopped \subseteq f.prior
    PROVE LET g == Restore([f EXCEPT !.bad = TRUE], f.ch + 1) IN
          /\ g \in Locals /\ g.pc \in Alone \cup {"release"} /\ Ordered(g)
          /\ \A c \in Channels : Known(f, c)' => Known(g, c)'
<1>1. PICK h \in Locals : h = [f EXCEPT !.bad = TRUE]
  BY DEF Locals
<1>2. f.ch + 1 \in Nat
  <2>1. f.ch \in Channels
    BY DEF Locals
  <2>2. f.ch \in Nat
    BY <2>1, FirstChannel
  <2> QED
    BY <2>2
<1>3. h.prior = f.prior /\ h.stopped = f.stopped /\ h.bad
  BY <1>1 DEF Locals
<1>4. LET g == Restore(h, f.ch + 1) IN
      g \in Locals /\ g.pc \in {"restore", "release"} /\ Ordered(g)
  BY <1>2, <1>3, RestoreOrdered
<1>5. ASSUME NEW c \in Channels, Known(f, c)' PROVE Known(Restore(h, f.ch + 1), c)'
  <2>1. c \in h.prior => ~boot_recording_pending'[c]
    BY <1>3, <1>5 DEF Known
  <2>2. c \in h.prior /\ c \notin h.stopped => recording'[c] \/ managed_error'[c]
    BY <1>3, <1>5 DEF Known, Owed, Locked, Holding, Alone
  <2> QED
    BY <1>2, <1>3, <2>1, <2>2, RestoreKnows
<1> QED
  BY <1>1, <1>4, <1>5 DEF Alone, Starting

(* One was restored, or needed not be.                                     *)
LEMMA RestoredKeeps ==
    ASSUME NEW f \in Locals, f.pc \in Starting, f.stopped \subseteq f.prior,
           recording'[f.ch]
    PROVE LET g == Restore(f, f.ch + 1) IN
          /\ g \in Locals /\ g.pc \in Alone \cup {"release"} /\ Ordered(g)
          /\ \A c \in Channels : Known(f, c)' => Known(g, c)'
<1>1. f.ch + 1 \in Nat /\ f.ch \in Nat
  <2>1. f.ch \in Channels
    BY DEF Locals
  <2>2. f.ch \in Nat
    BY <2>1, FirstChannel
  <2> QED
    BY <2>2
<1>2. LET g == Restore(f, f.ch + 1) IN
      g \in Locals /\ g.pc \in {"restore", "release"} /\ Ordered(g)
  BY <1>1, RestoreOrdered
<1>3. ASSUME NEW c \in Channels, Known(f, c)' PROVE Known(Restore(f, f.ch + 1), c)'
  <2>1. c \in f.prior => ~boot_recording_pending'[c]
    BY <1>3 DEF Known
  <2>2. paused'[c] => warned' \/ f.bad
    <3>1. MayBePaused(f, c) => f.bad
      BY DEF MayBePaused, Points, Locked, Holding, Alone, Stops, Resuming, Starting
    <3> QED
      BY <1>3, <3>1 DEF Known
  <2>3. c \in f.prior /\ (c \notin f.stopped \/ (~f.bad /\ c < f.ch + 1)) =>
          recording'[c] \/ managed_error'[c]
    <3>1. c \in f.prior /\ (c \notin f.stopped \/ (~f.bad /\ c < f.ch)) => Owed(f, c)
      BY DEF Owed, Locked, Holding, Alone
    <3>2. c < f.ch + 1 => c < f.ch \/ c = f.ch
      BY <1>1, FirstChannel
    <3> QED
      BY <1>3, <3>1, <3>2 DEF Known
  <2> QED
    BY <1>1, <2>1, <2>2, <2>3, RestoreKnows
<1> QED
  BY <1>2, <1>3 DEF Alone, Starting

(* It goes on with the loop that stops the recorders.                      *)
LEMMA StoppingKeeps ==
    ASSUME NEW f \in Locals, NEW h \in Locals, NEW from \in Nat, Ordered(f),
           f.pc \in {"observe"} \cup Stops,
           f.prior \subseteq h.prior, f.stopped \subseteq h.stopped,
           h.stopped \subseteq h.prior, h.held = {}, ~h.bad, h.result = "failed",
           \A c \in h.prior \ f.prior : ~boot_recording_pending'[c] /\ recording'[c]
    PROVE LET g == Stopping(h, from) IN
          /\ g \in Locals /\ g.pc \in Alone \cup {"release"} /\ Ordered(g)
          /\ \A c \in Channels : Known(f, c)' => Known(g, c)'
<1>1. LET g == Stopping(h, from) IN
      g \in Locals /\ g.pc \in {"stop", "barrier"} /\ Ordered(g)
  BY StoppingOrdered
<1>2. f.held = {}
  BY DEF Ordered
<1>3. ASSUME NEW c \in Channels, Known(f, c)' PROVE Known(Stopping(h, from), c)'
  <2>1. c \in h.prior => ~boot_recording_pending'[c]
    BY <1>3 DEF Known
  <2>2. paused'[c] => warned'
    <3>1. ~MayBePaused(f, c)
      BY <1>2 DEF MayBePaused, Points, Locked, Holding, Alone, Stops, Resuming, Starting
    <3> QED
      BY <1>3, <3>1 DEF Known
  <2>3. c \in h.prior /\ c \notin h.stopped => recording'[c] \/ managed_error'[c]
    BY <1>3 DEF Known, Owed, Locked, Holding, Alone
  <2> QED
    BY <2>1, <2>2, <2>3, StoppingKnows
<1> QED
  BY <1>1, <1>3 DEF Alone, Stops

(* The recorders' intent: a recorder that is shown to record does, and has *)
(* nothing pending.                                                        *)
LEMMA ObservePriorKeeps ==
    ASSUME FormatInv, observe_prior
    PROVE FormatInv'
<1>1. PICK f \in Locals : f = format
  BY DEF FormatInv, ThreadTypes
<1>2. f.pc = "observe" /\ OnlyFormat /\ UNCHANGED <<job, timelapse, rmr, mutation, warned, mounted>>
      /\ (UNCHANGED faults \/ Fault)
  BY <1>1 DEF observe_prior, Observe, At, OnlyFormat, storage
<1>3. /\ RecorderTypes' /\ \A c \in Channels : RecorderHolds(c)' /\ Known(f, c)'
      /\ Ordered(f) /\ \A c \in Channels : RecorderHolds(c)
  BY <1>1, <1>2, AloneFacts
<1>4. f.stopped = {} /\ f.held = {} /\ ~f.bad /\ f.result = "failed" /\ f.ch \in Channels
  BY <1>2, <1>3 DEF Ordered, Locals, Points, Locked, Holding, Alone, Stops, Resuming, Starting
<1>5. CASE format' = [f EXCEPT !.pc = "release", !.result = "failed"]
  <2>1. PICK g \in Locals : g = [f EXCEPT !.pc = "release", !.result = "failed"]
    BY DEF Locals, Points
  <2>2. g.pc = "release" /\ g.prior = f.prior /\ g.stopped = {} /\ g.held = {} /\ g.result = "failed"
    BY <1>4, <2>1 DEF Locals
  <2>3. Ordered(g)
    BY <2>2 DEF Ordered, Points, Locked, Holding, Alone, Stops, Resuming, Starting
  <2>4. ASSUME NEW c \in Channels PROVE Known(g, c)'
    <3>1. Known(f, c)'
      BY <1>3
    <3>2. ~MayBePaused(f, c)
      BY <1>2, <1>4 DEF MayBePaused, Points, Locked, Holding, Alone, Stops, Resuming, Starting
    <3>3. Owed(g, c) => Owed(f, c)
      BY <1>2, <1>4, <2>2 DEF Owed, Locked, Holding, Alone
    <3> QED
      BY <2>2, <3>1, <3>2, <3>3 DEF Known, PastBarrier, PastPause
  <2> QED
    BY <1>1, <1>2, <1>3, <1>5, <2>1, <2>2, <2>3, <2>4, CommandMoves DEF Alone
<1>6. CASE Shown(f.ch) # "null"
           /\ LET seen == [f EXCEPT !.prior = IF Shown(f.ch) = "true" THEN @ \cup {f.ch} ELSE @]
              IN format' = EachChannel(seen, Stopping(seen, 0))
  <2>1. PICK h \in Locals :
          h = [f EXCEPT !.prior = IF Shown(f.ch) = "true" THEN @ \cup {f.ch} ELSE @]
    BY <1>4 DEF Locals
  <2>2. /\ h.pc = "observe" /\ h.ch = f.ch /\ h.stopped = {} /\ h.held = {}
        /\ ~h.bad /\ h.result = "failed"
        /\ h.prior = IF Shown(f.ch) = "true" THEN f.prior \cup {f.ch} ELSE f.prior
    BY <1>2, <1>4, <2>1 DEF Locals
  <2>3. \A c \in h.prior \ f.prior : ~boot_recording_pending'[c] /\ recording'[c]
    <3>1. Shown(f.ch) = "true" => recording[f.ch] /\ ~boot_recording_pending[f.ch]
      BY <1>3, <1>4 DEF Shown, Active, RecorderHolds
    <3> QED
      BY <1>2, <2>2, <3>1 DEF rmr, recorder
  <2>4. CASE f.ch + 1 < NChannels
    <3>1. f.ch + 1 \in Channels
      BY <1>4, <2>4, ChannelsAssumption DEF Channels
    <3>2. PICK g \in Locals : g = [h EXCEPT !.ch = @ + 1]
      BY <2>2, <3>1 DEF Locals
    <3>3. /\ g.pc = "observe" /\ g.prior = h.prior /\ g.stopped = {} /\ g.held = {}
          /\ ~g.bad /\ g.result = "failed" /\ format' = g
      BY <1>6, <2>1, <2>2, <2>4, <3>2 DEF EachChannel, Locals
    <3>4. Ordered(g)
      BY <3>3 DEF Ordered, Points, Locked, Holding, Alone, Stops, Resuming, Starting
    <3>5. ASSUME NEW c \in Channels PROVE Known(g, c)'
      <4>1. Known(f, c)'
        BY <1>3
      <4>2. ~MayBePaused(f, c)
        BY <1>2, <1>4 DEF MayBePaused, Points, Locked, Holding, Alone, Stops, Resuming, Starting
      <4>3. Owed(g, c) => Owed(f, c) \/ c \in h.prior \ f.prior
        BY <1>2, <1>4, <3>3 DEF Owed, Locked, Holding, Alone
      <4> QED
        BY <2>3, <3>3, <4>1, <4>2, <4>3 DEF Known, PastBarrier, PastPause
    <3> QED
      BY <1>1, <1>2, <1>3, <3>3, <3>4, <3>5, CommandMoves DEF Alone
  <2>5. CASE ~(f.ch + 1 < NChannels)
    <3>1. PICK g : g = Stopping(h, 0)
      OBVIOUS
    <3>2. format' = g
      BY <1>6, <2>1, <2>2, <2>5, <3>1 DEF EachChannel
    <3>3. /\ g \in Locals /\ g.pc \in Alone \cup {"release"} /\ Ordered(g)
          /\ \A c \in Channels : Known(f, c)' => Known(g, c)'
      <4>1. f.prior \subseteq h.prior /\ f.stopped \subseteq h.stopped /\ h.stopped \subseteq h.prior
        BY <1>4, <2>2
      <4> QED
        BY <1>2, <1>3, <2>2, <2>3, <3>1, <4>1, StoppingKeeps
    <3> QED
      BY <1>1, <1>2, <1>3, <3>2, <3>3, CommandMoves DEF Alone
  <2> QED
    BY <2>4, <2>5
<1>7. Goto("release") => format' = [f EXCEPT !.pc = "release", !.result = "failed"]
  BY <1>1, <1>4 DEF Goto, Locals
<1> QED
  BY <1>1, <1>5, <1>6, <1>7 DEF observe_prior, Observe, Release

(* A recorder is seen closed, or is to be stopped.                         *)
LEMMA StopObserveKeeps ==
    ASSUME FormatInv, stop_observe
    PROVE FormatInv'
<1>1. PICK f \in Locals : f = format
  BY DEF FormatInv, ThreadTypes
<1>2. f.pc = "stop" /\ OnlyFormat /\ UNCHANGED <<job, timelapse, rmr, mutation, warned, mounted>>
      /\ (UNCHANGED faults \/ Fault)
  BY <1>1 DEF stop_observe, Observe, At, OnlyFormat, storage
<1>3. /\ RecorderTypes' /\ \A c \in Channels : RecorderHolds(c)' /\ Known(f, c)'
      /\ Ordered(f)
  BY <1>1, <1>2, AloneFacts
<1>4. /\ f.stopped \subseteq f.prior /\ f.held = {} /\ ~f.bad /\ f.result = "failed"
      /\ f.ch \in Channels /\ f.ch \in f.prior /\ f.ch + 1 \in Nat
  BY <1>2, <1>3, NextChannel DEF Ordered, Points, Locked, Holding, Alone, Stops, Resuming, Starting
<1>5. PICK h \in Locals : h = [f EXCEPT !.stopped = @ \cup {f.ch}]
  BY <1>4 DEF Locals
<1>6. /\ h.pc = "stop" /\ h.ch = f.ch /\ h.prior = f.prior /\ h.stopped = f.stopped \cup {f.ch}
      /\ h.held = {} /\ ~h.bad /\ h.result = "failed" /\ [h EXCEPT !.result = "failed"] = h
  BY <1>2, <1>4, <1>5 DEF Locals
<1>7. CASE format' = Stopping(h, f.ch + 1)
  <2>1. PICK g : g = Stopping(h, f.ch + 1)
    OBVIOUS
  <2>2. /\ g \in Locals /\ g.pc \in Alone \cup {"release"} /\ Ordered(g)
        /\ \A c \in Channels : Known(f, c)' => Known(g, c)'
    <3>1. f.pc \in {"observe"} \cup Stops /\ f.prior \subseteq h.prior /\ h.prior \ f.prior = {}
          /\ f.stopped \subseteq h.stopped /\ h.stopped \subseteq h.prior
      BY <1>2, <1>4, <1>6 DEF Stops
    <3> QED
      BY <1>3, <1>4, <1>6, <2>1, <3>1, StoppingKeeps
  <2> QED
    BY <1>1, <1>2, <1>3, <1>7, <2>1, <2>2, CommandMoves DEF Alone, Stops
<1>8. CASE format' = [h EXCEPT !.pc = "stop_send"]
  <2>1. PICK g \in Locals : g = [h EXCEPT !.pc = "stop_send"]
    BY DEF Locals, Points, Locked, Holding, Alone, Stops, Resuming, Starting
  <2>2. /\ g.pc = "stop_send" /\ g.ch = f.ch /\ g.prior = f.prior
        /\ g.stopped = f.stopped \cup {f.ch}
        /\ g.held = {} /\ ~g.bad /\ g.result = "failed"
    BY <1>6, <2>1 DEF Locals
  <2>3. Ordered(g)
    BY <1>4, <2>2 DEF Ordered, Points, Locked, Holding, Alone, Stops, Resuming, Starting
  <2>4. ASSUME NEW c \in Channels PROVE Known(g, c)'
    <3>1. Known(f, c)'
      BY <1>3
    <3>2. ~MayBePaused(f, c)
      BY <1>2, <1>4 DEF MayBePaused, Points, Locked, Holding, Alone, Stops, Resuming, Starting
    <3>3. Owed(g, c) => Owed(f, c)
      BY <1>2, <2>2 DEF Owed, Points, Locked, Holding, Alone, Stops, Resuming, Starting
    <3> QED
      BY <2>2, <3>1, <3>2, <3>3 DEF Known, PastBarrier, PastPause
  <2> QED
    BY <1>1, <1>2, <1>3, <1>8, <2>1, <2>2, <2>3, <2>4, CommandMoves DEF Alone, Stops
<1>9. CASE format' = Resume([h EXCEPT !.result = "failed"], 0)
  <2>1. PICK g : g = Resume(h, 0)
    OBVIOUS
  <2>2. /\ g \in Locals /\ g.pc \in Alone \cup {"release"} /\ Ordered(g)
        /\ \A c \in Channels : Known(f, c)' => Known(g, c)'
    <3>1. f.pc \in Alone \ (Resuming \cup Starting \cup {"uncertain"})
          /\ f.stopped \subseteq h.stopped /\ h.stopped \subseteq h.prior /\ f.held \subseteq h.held
      BY <1>2, <1>4, <1>6 DEF Alone, Stops, Resuming, Starting
    <3> QED
      BY <1>6, <2>1, <3>1, GivesUp
  <2> QED
    BY <1>1, <1>2, <1>3, <1>6, <1>9, <2>1, <2>2, CommandMoves DEF Alone, Stops
<1> QED
  BY <1>1, <1>5, <1>7, <1>8, <1>9 DEF stop_observe, Observe

(* A recorder is told to stop: what it owed it owes no longer.             *)
LEMMA SetRecordingKnows ==
    ASSUME NEW f \in Locals, NEW on \in BOOLEAN, FormatInv, f = format,
           mounted' = mounted, warned' = warned, SetRecording(f.ch, on),
           f.pc \in Alone \ {"barrier", "maintain", "quiesce", "dispatch", "answer", "uncertain"},
           on \/ (f.pc = "stop_send" /\ f.ch \in f.stopped)
    PROVE RecorderTypes' /\ \A c \in Channels : RecorderHolds(c)' /\ Known(f, c)'
<1>1. f.ch \in Channels /\ RecorderTypes /\ RecordersInv
  BY AloneFacts DEF Locals
<1>2. RecorderTypes' /\ \A c \in Channels : RecorderHolds(c)'
  BY <1>1, SetRecordingKeeps
<1>3. ASSUME NEW c \in Channels \ {f.ch} PROVE Known(f, c)'
  BY <1>1, <1>3, SetRecordingKeeps, AloneFacts
<1>4. Known(f, f.ch)'
  <2>1. Known(f, f.ch)
    BY <1>1, AloneFacts
  <2>2. /\ boot_recording_pending'[f.ch] => boot_recording_pending[f.ch]
        /\ paused' = paused
        /\ on /\ (recording[f.ch] \/ managed_error[f.ch]) =>
             recording'[f.ch] \/ managed_error'[f.ch]
    BY <1>1, SetRecordingKeeps
  <2>3. ~PastBarrier(f, f.ch) /\ ~PastPause(f, f.ch)
    BY DEF PastBarrier, PastPause
  <2>4. f.pc = "stop_send" /\ f.ch \in f.stopped => ~Owed(f, f.ch)
    BY DEF Owed, Starting
  <2> QED
    BY <2>1, <2>2, <2>3, <2>4 DEF Known
<1> QED
  BY <1>2, <1>3, <1>4

(* A recorder is told to stop: what the format stopped it owes nothing yet.*)
LEMMA StopSendKeeps ==
    ASSUME FormatInv, stop_send
    PROVE FormatInv'
<1>1. PICK f \in Locals : f = format
  BY DEF FormatInv, ThreadTypes
<1>2. f.pc = "stop_send" /\ OnlyFormat /\ UNCHANGED <<job, timelapse, mutation, warned, mounted>>
      /\ (UNCHANGED faults \/ Fault) /\ (SetRecording(f.ch, FALSE) \/ UNCHANGED rmr)
  BY <1>1 DEF stop_send, Command, At, OnlyFormat, storage
<1>3. RecorderTypes' /\ \A c \in Channels : RecorderHolds(c)' /\ Known(f, c)'
  <2>1. f.ch \in f.stopped
    BY <1>1, <1>2, AloneFacts DEF Ordered
  <2>2. CASE SetRecording(f.ch, FALSE)
    BY <1>1, <1>2, <2>1, <2>2, SetRecordingKnows DEF Alone, Stops
  <2>3. CASE UNCHANGED rmr
    BY <1>1, <1>2, <2>3, AloneFacts
  <2> QED
    BY <1>2, <2>2, <2>3
<1>4. Ordered(f) /\ f.stopped \subseteq f.prior
  BY <1>1, AloneFacts
<1>5. CASE Goto("stop_confirm")
  <2>1. PICK g \in Locals : g = [f EXCEPT !.pc = "stop_confirm"]
    BY DEF Locals, Points, Locked, Holding, Alone, Stops, Resuming, Starting
  <2>2. /\ g.pc = "stop_confirm" /\ g.ch = f.ch /\ g.prior = f.prior /\ g.stopped = f.stopped
        /\ g.held = f.held /\ g.bad = f.bad /\ g.result = f.result /\ format' = g
    BY <1>1, <1>5, <2>1 DEF Locals, Goto
  <2>3. Ordered(g)
    BY <1>2, <1>4, <2>2 DEF Ordered, Points, Locked, Holding, Alone, Stops, Resuming, Starting
  <2>4. ASSUME NEW c \in Channels PROVE Known(g, c)'
    BY <1>2, <1>3, <2>2 DEF Known, PastBarrier, PastPause, MayBePaused, Owed, Points, Locked, Holding, Alone, Stops, Resuming, Starting
  <2> QED
    BY <1>1, <1>2, <1>3, <2>2, <2>3, <2>4, CommandMoves DEF Alone, Stops
<1>6. CASE Fails
  <2>1. PICK h \in Locals : h = [f EXCEPT !.result = "failed"]
    BY DEF Locals
  <2>2. h.prior = f.prior /\ h.stopped = f.stopped /\ h.held = f.held
    BY <2>1 DEF Locals
  <2>3. PICK g : g = Resume(h, 0)
    OBVIOUS
  <2>4. /\ g \in Locals /\ g.pc \in Alone \cup {"release"} /\ Ordered(g)
        /\ \A c \in Channels : Known(f, c)' => Known(g, c)'
    <3>1. f.pc \in Alone \ (Resuming \cup Starting \cup {"uncertain"})
      BY <1>2 DEF Alone, Stops, Resuming, Starting
    <3> QED
      BY <1>4, <2>2, <2>3, <3>1, GivesUp
  <2>5. format' = g
    BY <1>1, <1>6, <2>1, <2>3 DEF Fails
  <2> QED
    BY <1>1, <1>2, <1>3, <2>4, <2>5, CommandMoves DEF Alone, Stops
<1> QED
  BY <1>5, <1>6 DEF stop_send, Command

(* It is seen closed, or the format gives up.                              *)
LEMMA StopConfirmKeeps ==
    ASSUME FormatInv, stop_confirm
    PROVE FormatInv'
<1>1. PICK f \in Locals : f = format
  BY DEF FormatInv, ThreadTypes
<1>2. f.pc = "stop_confirm" /\ OnlyFormat /\ UNCHANGED faults
      /\ UNCHANGED <<job, timelapse, rmr, mutation, warned, mounted>>
  BY <1>1 DEF stop_confirm, At, OnlyFormat, storage
<1>3. RecorderTypes' /\ \A c \in Channels : RecorderHolds(c)' /\ Known(f, c)'
  BY <1>1, <1>2, AloneFacts
<1>4. Ordered(f) /\ f.stopped \subseteq f.prior
  BY <1>1, AloneFacts
<1>5. CASE format' = Stopping(f, f.ch + 1)
  <2>1. PICK g : g = Stopping(f, f.ch + 1)
    OBVIOUS
  <2>2. /\ g \in Locals /\ g.pc \in Alone \cup {"release"} /\ Ordered(g)
        /\ \A c \in Channels : Known(f, c)' => Known(g, c)'
    <3>1. f.pc \in {"observe"} \cup Stops /\ f.ch + 1 \in Nat /\ f.held = {} /\ ~f.bad
          /\ f.result = "failed"
      BY <1>2, <1>4, NextChannel DEF Ordered, Points, Locked, Holding, Alone, Stops, Resuming, Starting
    <3> QED
      BY <1>4, <2>1, <3>1, StoppingKeeps
  <2> QED
    BY <1>1, <1>2, <1>3, <1>5, <2>1, <2>2, CommandMoves DEF Alone, Stops
<1>6. CASE Fails
  <2>1. PICK h \in Locals : h = [f EXCEPT !.result = "failed"]
    BY DEF Locals
  <2>2. h.prior = f.prior /\ h.stopped = f.stopped /\ h.held = f.held
    BY <2>1 DEF Locals
  <2>3. PICK g : g = Resume(h, 0)
    OBVIOUS
  <2>4. /\ g \in Locals /\ g.pc \in Alone \cup {"release"} /\ Ordered(g)
        /\ \A c \in Channels : Known(f, c)' => Known(g, c)'
    <3>1. f.pc \in Alone \ (Resuming \cup Starting \cup {"uncertain"})
      BY <1>2 DEF Alone, Stops, Resuming, Starting
    <3> QED
      BY <1>4, <2>2, <2>3, <3>1, GivesUp
  <2>5. format' = g
    BY <1>1, <1>6, <2>1, <2>3 DEF Fails
  <2> QED
    BY <1>1, <1>2, <1>3, <2>4, <2>5, CommandMoves DEF Alone, Stops
<1> QED
  BY <1>1, <1>5, <1>6 DEF stop_confirm

(* The barrier: every recorder before the one observed is closed.          *)
LEMMA BarrierKeeps ==
    ASSUME FormatInv, barrier
    PROVE FormatInv'
<1>1. PICK f \in Locals : f = format
  BY DEF FormatInv, ThreadTypes
<1>2. f.pc = "barrier" /\ OnlyFormat /\ UNCHANGED <<job, timelapse, rmr, mutation, warned, mounted>>
      /\ (UNCHANGED faults \/ Fault)
  BY <1>1 DEF barrier, Observe, At, OnlyFormat, storage
<1>3. RecorderTypes' /\ \A c \in Channels : RecorderHolds(c)' /\ Known(f, c)'
  BY <1>1, <1>2, AloneFacts
<1>4. Ordered(f) /\ f.stopped \subseteq f.prior /\ f.ch \in Channels
  BY <1>1, AloneFacts DEF Locals
<1>5. ASSUME Shown(f.ch) = "false",
             format' = EachChannel(f, [f EXCEPT !.pc = "maintain", !.ch = 0])
      PROVE FormatInv'
  <2>1. ~recording'[f.ch] /\ segment'[f.ch] = "none" /\ closing'[f.ch] = "none"
    BY <1>2, <1>5 DEF Shown, Active, FileClosed, rmr, recorder
  <2>2. PICK g \in Locals : g = format'
    <3>1. CASE f.ch + 1 < NChannels
      BY <1>4, <1>5, <3>1, ChannelsAssumption DEF EachChannel, Locals, Channels
    <3>2. CASE ~(f.ch + 1 < NChannels)
      BY <1>5, <3>2, FirstChannel DEF EachChannel, Locals, Points, Locked, Holding, Alone, Stops, Resuming, Starting
    <3> QED
      BY <3>1, <3>2
  <2>3. /\ g.prior = f.prior /\ g.stopped = f.stopped /\ g.held = f.held /\ g.bad = f.bad
        /\ g.result = f.result
        /\ \/ g.pc = "barrier" /\ g.ch = f.ch + 1
           \/ g.pc = "maintain" /\ g.ch = 0 /\ \A c \in Channels : c <= f.ch
    <3>1. CASE f.ch + 1 < NChannels
      BY <1>2, <1>5, <2>2, <3>1 DEF EachChannel, Locals
    <3>2. CASE ~(f.ch + 1 < NChannels)
      BY <1>4, <1>5, <2>2, <3>2, ChannelsAssumption DEF EachChannel, Locals, Channels
    <3> QED
      BY <3>1, <3>2
  <2>4. Ordered(g)
    BY <1>2, <1>4, <2>3 DEF Ordered, Points, Locked, Holding, Alone, Stops, Resuming, Starting
  <2>5. ASSUME NEW c \in Channels PROVE Known(g, c)'
    <3>1. Known(f, c)'
      BY <1>3
    <3>2. PastBarrier(g, c) => PastBarrier(f, c) \/ c = f.ch
      BY <1>2, <1>4, <2>3, FirstChannel DEF PastBarrier
    <3>3. ~PastPause(g, c)
      BY <2>3, FirstChannel DEF PastPause
    <3>4. MayBePaused(f, c) => MayBePaused(g, c)
      BY <1>2, <2>3 DEF MayBePaused, Points, Locked, Holding, Alone, Stops, Resuming, Starting
    <3>5. Owed(g, c) => Owed(f, c)
      BY <1>2, <2>3 DEF Owed, Points, Locked, Holding, Alone, Stops, Resuming, Starting
    <3> QED
      BY <2>1, <2>3, <3>1, <3>2, <3>3, <3>4, <3>5 DEF Known
  <2> QED
    BY <1>1, <1>2, <1>3, <2>2, <2>3, <2>4, <2>5, CommandMoves DEF Alone
<1>6. CASE Fails
  <2>1. PICK h \in Locals : h = [f EXCEPT !.result = "failed"]
    BY DEF Locals
  <2>2. h.prior = f.prior /\ h.stopped = f.stopped /\ h.held = f.held
    BY <2>1 DEF Locals
  <2>3. PICK g : g = Resume(h, 0)
    OBVIOUS
  <2>4. /\ g \in Locals /\ g.pc \in Alone \cup {"release"} /\ Ordered(g)
        /\ \A c \in Channels : Known(f, c)' => Known(g, c)'
    <3>1. f.pc \in Alone \ (Resuming \cup Starting \cup {"uncertain"})
      BY <1>2 DEF Alone, Stops, Resuming, Starting
    <3> QED
      BY <1>4, <2>2, <2>3, <3>1, GivesUp
  <2>5. format' = g
    BY <1>1, <1>6, <2>1, <2>3 DEF Fails
  <2> QED
    BY <1>1, <1>2, <1>3, <2>4, <2>5, CommandMoves DEF Alone, Stops
<1> QED
  BY <1>1, <1>5, <1>6 DEF barrier, Observe

(* A maintenance thread is paused, in effect or not: it is among those to  *)
(* resume from then on.                                                    *)
LEMMA MaintainKeeps ==
    ASSUME FormatInv, maintain
    PROVE FormatInv'
<1>1. PICK f \in Locals : f = format
  BY DEF FormatInv, ThreadTypes
<1>2. f.pc = "maintain" /\ OnlyFormat /\ UNCHANGED <<job, timelapse, mutation, warned, mounted>>
      /\ (UNCHANGED faults \/ Fault) /\ (SetPaused(f.ch, TRUE) \/ UNCHANGED rmr)
  BY <1>1 DEF maintain, Command, At, OnlyFormat, storage
<1>3. /\ Ordered(f) /\ f.stopped \subseteq f.prior /\ f.ch \in Channels
      /\ ~f.bad /\ f.result = "failed" /\ RecorderTypes /\ RecordersInv
  BY <1>1, <1>2, AloneFacts DEF Locals, Ordered, Points, Locked, Holding, Alone, Stops, Resuming, Starting
<1>4. PICK h \in Locals : h = [f EXCEPT !.held = @ \cup {f.ch}]
  BY <1>3 DEF Locals
<1>5. /\ h.pc = "maintain" /\ h.ch = f.ch /\ h.prior = f.prior /\ h.stopped = f.stopped
      /\ h.held = f.held \cup {f.ch} /\ ~h.bad /\ h.result = "failed"
      /\ [h EXCEPT !.result = "failed"] = h
  BY <1>2, <1>3, <1>4 DEF Locals
<1>6. RecorderTypes' /\ \A c \in Channels : RecorderHolds(c)' /\ Known(h, c)'
  <2>1. CASE SetPaused(f.ch, TRUE)
    <3>1. /\ RecorderTypes' /\ \A c \in Channels : RecorderHolds(c)'
          /\ \A c \in Channels \ {f.ch} : Gentle(c)
          /\ boot_recording_pending' = boot_recording_pending
          /\ recording[f.ch] \/ managed_error[f.ch] => recording'[f.ch] \/ managed_error'[f.ch]
          /\ ~recording[f.ch] /\ segment[f.ch] = "none" /\ closing[f.ch] = "none" =>
               ~recording'[f.ch] /\ segment'[f.ch] = "none" /\ closing'[f.ch] = "none"
      BY <1>2, <1>3, <2>1, SetPausedKeeps
    <3>2. ASSUME NEW c \in Channels \ {f.ch} PROVE Known(h, c)'
      <4>1. Known(f, c)'
        BY <1>1, <1>2, <3>1, AloneFacts
      <4> QED
        BY <1>2, <1>5, <4>1 DEF Known, PastBarrier, PastPause, MayBePaused, Owed, Points, Locked, Holding, Alone, Stops, Resuming, Starting
    <3>3. Known(h, f.ch)'
      <4>1. Known(f, f.ch)
        BY <1>1, <1>3, AloneFacts
      <4>2. PastBarrier(f, f.ch) /\ PastBarrier(h, f.ch) /\ ~PastPause(h, f.ch)
        BY <1>2, <1>3, <1>5, FirstChannel DEF PastBarrier, PastPause
      <4>3. MayBePaused(h, f.ch) /\ (Owed(h, f.ch) => Owed(f, f.ch))
        BY <1>2, <1>5 DEF MayBePaused, Owed, Points, Locked, Holding, Alone, Stops, Resuming, Starting
      <4> QED
        BY <1>5, <3>1, <4>1, <4>2, <4>3 DEF Known
    <3> QED
      BY <3>1, <3>2, <3>3
  <2>2. CASE UNCHANGED rmr
    <3>1. RecorderTypes' /\ \A c \in Channels : RecorderHolds(c)' /\ Known(f, c)'
      BY <1>1, <1>2, <2>2, AloneFacts
    <3>2. ASSUME NEW c \in Channels PROVE Known(h, c)'
      BY <1>2, <1>5, <3>1 DEF Known, PastBarrier, PastPause, MayBePaused, Owed, Points, Locked, Holding, Alone, Stops, Resuming, Starting
    <3> QED
      BY <3>1, <3>2
  <2> QED
    BY <1>2, <2>1, <2>2
<1>7. CASE format' = [h EXCEPT !.pc = "quiesce"]
  <2>1. PICK g \in Locals : g = [h EXCEPT !.pc = "quiesce"]
    BY DEF Locals, Points, Locked, Holding, Alone, Stops, Resuming, Starting
  <2>2. /\ g.pc = "quiesce" /\ g.ch = h.ch /\ g.prior = h.prior /\ g.stopped = h.stopped
        /\ g.held = h.held /\ g.bad = h.bad /\ g.result = h.result
    BY <2>1 DEF Locals
  <2>3. Ordered(g)
    BY <1>3, <1>5, <2>2 DEF Ordered, Points, Locked, Holding, Alone, Stops, Resuming, Starting
  <2>4. ASSUME NEW c \in Channels PROVE Known(g, c)'
    BY <1>5, <1>6, <2>2 DEF Known, PastBarrier, PastPause, MayBePaused, Owed, Points, Locked, Holding, Alone, Stops, Resuming, Starting
  <2> QED
    BY <1>1, <1>2, <1>6, <1>7, <2>1, <2>2, <2>3, <2>4, CommandMoves DEF Alone
<1>8. CASE format' = Resume([h EXCEPT !.result = "failed"], 0)
  <2>1. PICK g : g = Resume(h, 0)
    OBVIOUS
  <2>2. /\ g \in Locals /\ g.pc \in Alone \cup {"release"} /\ Ordered(g)
        /\ \A c \in Channels : Known(h, c)' => Known(g, c)'
    <3>1. h.pc \in Alone \ (Resuming \cup Starting \cup {"uncertain"})
      BY <1>5 DEF Alone, Resuming, Starting
    <3> QED
      BY <1>3, <1>5, <2>1, <3>1, GivesUp
  <2> QED
    BY <1>1, <1>2, <1>5, <1>6, <1>8, <2>1, <2>2, CommandMoves DEF Alone
<1> QED
  BY <1>1, <1>4, <1>7, <1>8 DEF maintain, Command

(* A paused scan that has ended does not begin again.                      *)
LEMMA QuiesceKeeps ==
    ASSUME FormatInv, quiesce
    PROVE FormatInv'
<1>1. PICK f \in Locals : f = format
  BY DEF FormatInv, ThreadTypes
<1>2. f.pc = "quiesce" /\ OnlyFormat /\ UNCHANGED faults
      /\ UNCHANGED <<job, timelapse, rmr, mutation, warned, mounted>>
  BY <1>1 DEF quiesce, At, OnlyFormat, storage
<1>3. RecorderTypes' /\ \A c \in Channels : RecorderHolds(c)' /\ Known(f, c)'
  BY <1>1, <1>2, AloneFacts
<1>4. Ordered(f) /\ f.stopped \subseteq f.prior /\ f.ch \in Channels
  BY <1>1, AloneFacts DEF Locals
<1>5. ASSUME Quiescent(f.ch),
             format' = EachChannel([f EXCEPT !.pc = "maintain"], [f EXCEPT !.pc = "dispatch"])
      PROVE FormatInv'
  <2>1. paused'[f.ch] /\ ~Scanning(f.ch)'
    BY <1>2, <1>5 DEF Quiescent, Scanning, rmr, maintenance
  <2>2. PICK g \in Locals : g = format'
    <3>1. CASE f.ch + 1 < NChannels
      BY <1>5, <3>1, NextChannel DEF EachChannel, Locals, Points, Locked, Holding, Alone, Stops, Resuming, Starting
    <3>2. CASE ~(f.ch + 1 < NChannels)
      BY <1>5, <3>2 DEF EachChannel, Locals, Points, Locked, Holding, Alone, Stops, Resuming, Starting
    <3> QED
      BY <3>1, <3>2
  <2>3. /\ g.prior = f.prior /\ g.stopped = f.stopped /\ g.held = f.held /\ g.bad = f.bad
        /\ g.result = f.result
        /\ \/ g.pc = "maintain" /\ g.ch = f.ch + 1
           \/ g.pc = "dispatch" /\ \A c \in Channels : c <= f.ch
    <3>1. CASE f.ch + 1 < NChannels
      BY <1>2, <1>5, <2>2, <3>1 DEF EachChannel, Locals
    <3>2. CASE ~(f.ch + 1 < NChannels)
      BY <1>4, <1>5, <2>2, <3>2, ChannelsAssumption DEF EachChannel, Locals, Channels
    <3> QED
      BY <3>1, <3>2
  <2>4. Ordered(g)
    BY <1>2, <1>4, <2>3 DEF Ordered, Points, Locked, Holding, Alone, Stops, Resuming, Starting
  <2>5. ASSUME NEW c \in Channels PROVE Known(g, c)'
    <3>1. Known(f, c)'
      BY <1>3
    <3>2. PastBarrier(f, c)
      BY <1>2 DEF PastBarrier
    <3>3. PastPause(g, c) => PastPause(f, c) \/ c = f.ch
      BY <1>2, <1>4, <2>3, FirstChannel DEF PastPause
    <3>4. MayBePaused(f, c) => MayBePaused(g, c)
      BY <1>2, <2>3 DEF MayBePaused, Points, Locked, Holding, Alone, Stops, Resuming, Starting
    <3>5. Owed(g, c) => Owed(f, c)
      BY <1>2, <2>3 DEF Owed, Points, Locked, Holding, Alone, Stops, Resuming, Starting
    <3> QED
      BY <2>1, <2>3, <3>1, <3>2, <3>3, <3>4, <3>5 DEF Known
  <2> QED
    BY <1>1, <1>2, <1>3, <2>2, <2>3, <2>4, <2>5, CommandMoves DEF Alone
<1>6. CASE Fails
  <2>1. PICK h \in Locals : h = [f EXCEPT !.result = "failed"]
    BY DEF Locals
  <2>2. h.prior = f.prior /\ h.stopped = f.stopped /\ h.held = f.held
    BY <2>1 DEF Locals
  <2>3. PICK g : g = Resume(h, 0)
    OBVIOUS
  <2>4. /\ g \in Locals /\ g.pc \in Alone \cup {"release"} /\ Ordered(g)
        /\ \A c \in Channels : Known(f, c)' => Known(g, c)'
    <3>1. f.pc \in Alone \ (Resuming \cup Starting \cup {"uncertain"})
      BY <1>2 DEF Alone, Stops, Resuming, Starting
    <3> QED
      BY <1>4, <2>2, <2>3, <3>1, GivesUp
  <2>5. format' = g
    BY <1>1, <1>6, <2>1, <2>3 DEF Fails
  <2> QED
    BY <1>1, <1>2, <1>3, <2>4, <2>5, CommandMoves DEF Alone, Stops
<1> QED
  BY <1>1, <1>5, <1>6 DEF quiesce

(* The worker is asked, or its answer taken: whatever the outcome, nobody  *)
(* has come back to the card.                                              *)
LEMMA WorkerMoves ==
    ASSUME FormatInv, NEW f \in Locals, f = format, f.pc \in {"dispatch", "answer"},
           worker' \in Works, UNCHANGED <<format_active, format_queue, warned, formats, mounted,
                       reader, timelapse, rmr, person, mutation, faults>>,
           \/ Fails /\ ~Working'
           \/ Succeeds /\ ~Working'
           \/ Goto("answer") /\ f.pc = "dispatch"
           \/ format' = Uncertain
    PROVE FormatInv'
<1>1. /\ RecorderTypes' /\ \A c \in Channels : RecorderHolds(c)' /\ Known(f, c)'
      /\ Ordered(f) /\ f.stopped \subseteq f.prior
  BY AloneFacts
<1>2. faults' \in 0 .. MaxFaults
  BY DEF FormatInv, ThreadTypes
<1>3. ASSUME NEW result \in {"ok", "failed"}, ~Working',
             format' = Resume([f EXCEPT !.result = result], 0)
      PROVE FormatInv'
  <2>1. PICK h \in Locals : h = [f EXCEPT !.result = result]
    BY DEF Locals
  <2>2. h.prior = f.prior /\ h.stopped = f.stopped /\ h.held = f.held
    BY <2>1 DEF Locals
  <2>3. PICK g : g = Resume(h, 0)
    OBVIOUS
  <2>4. /\ g \in Locals /\ g.pc \in Alone \cup {"release"} /\ Ordered(g)
        /\ \A c \in Channels : Known(f, c)' => Known(g, c)'
    <3>1. f.pc \in Alone \ (Resuming \cup Starting \cup {"uncertain"})
      BY DEF Alone, Stops, Resuming, Starting
    <3> QED
      BY <1>1, <2>2, <2>3, <3>1, GivesUp
  <2> QED
    BY <1>1, <1>2, <1>3, <2>1, <2>3, <2>4, AloneMoves DEF Alone
<1>4. ASSUME NEW pc \in {"answer", "uncertain"}, NEW g \in Locals, g = format', g.pc = pc,
             pc = "answer" => f.pc = "dispatch" /\ g.bad = f.bad /\ g.result = f.result,
             g.prior = f.prior, g.stopped = f.stopped, g.held = f.held
      PROVE FormatInv'
  <2>1. Ordered(g)
    BY <1>1, <1>4 DEF Ordered, Points, Locked, Holding, Alone, Stops, Resuming, Starting
  <2>2. ASSUME NEW c \in Channels PROVE Known(g, c)'
    BY <1>1, <1>4 DEF Known, PastBarrier, PastPause, MayBePaused, Owed, Points, Locked, Holding, Alone, Stops, Resuming, Starting
  <2> QED
    BY <1>1, <1>2, <1>4, <2>1, <2>2, AloneMoves DEF Alone
<1>5. CASE (Fails \/ Succeeds) /\ ~Working'
  BY <1>3, <1>5 DEF Fails, Succeeds
<1>6. CASE Goto("answer") /\ f.pc = "dispatch"
  <2>1. /\ format' \in Locals /\ format'.pc = "answer" /\ format'.bad = f.bad
        /\ format'.result = f.result /\ format'.prior = f.prior /\ format'.stopped = f.stopped
        /\ format'.held = f.held
    BY <1>6 DEF Goto, Locals, Points, Locked, Holding, Alone, Stops, Resuming, Starting
  <2> QED
    BY <1>4, <1>6, <2>1
<1>7. CASE format' = Uncertain
  <2>1. /\ format' \in Locals /\ format'.pc = "uncertain" /\ format'.prior = f.prior
        /\ format'.stopped = f.stopped /\ format'.held = f.held
    BY <1>7 DEF Uncertain, Locals, Points, Locked, Holding, Alone, Stops, Resuming, Starting
  <2> QED
    BY <1>4, <2>1
<1> QED
  BY <1>5, <1>6, <1>7

(* The storage worker is asked when all recorders are paused and quiet.    *)
LEMMA DispatchKeeps ==
    ASSUME FormatInv, dispatch
    PROVE FormatInv'
<1>1. PICK f \in Locals : f = format
  BY DEF FormatInv, ThreadTypes
<1>2. f.pc = "dispatch" /\ ~Working /\ worker \in Works
  BY <1>1 DEF FormatInv, ThreadTypes, ThreadInv, WorkerIsAsked, dispatch, At
<1>3. worker' \in Works
  BY <1>2 DEF dispatch, Works
<1>4. \/ Fails /\ ~Working'
      \/ Goto("answer") /\ f.pc = "dispatch"
      \/ format' = Uncertain
  BY <1>2 DEF dispatch, Working
<1> QED
  BY <1>1, <1>2, <1>3, <1>4, WorkerMoves DEF dispatch

(* Its answer, or the lack of one.                                         *)
LEMMA AnswerKeeps ==
    ASSUME FormatInv, answer
    PROVE FormatInv'
<1>1. PICK f \in Locals : f = format
  BY DEF FormatInv, ThreadTypes
<1>2. f.pc = "answer" /\ worker \in Works
  BY <1>1 DEF FormatInv, ThreadTypes, answer, At
<1>3. worker' \in Works
  BY <1>2 DEF answer, Works
<1>4. \/ Fails /\ ~Working'
      \/ Succeeds /\ ~Working'
      \/ format' = Uncertain
  BY DEF answer, Working
<1> QED
  BY <1>1, <1>2, <1>3, <1>4, WorkerMoves DEF answer

(* A recorder could not be resumed, or was: the next is.                   *)
LEMMA ResumingKeeps ==
    ASSUME NEW f \in Locals, NEW h \in Locals, f.pc \in Resuming, f.stopped \subseteq f.prior,
           h.prior = f.prior, h.stopped = f.stopped, h.held = f.held, h.ch = f.ch,
           h.bad \/ (h.bad = f.bad /\ f.pc = "resumed")
    PROVE LET g == Resume(h, f.ch + 1) IN
          /\ g \in Locals /\ g.pc \in Alone \cup {"release"} /\ Ordered(g)
          /\ \A c \in Channels : Known(f, c)' => Known(g, c)'
<1>1. f.ch + 1 \in Nat /\ f.ch \in Nat
  BY NextChannel
<1>2. LET g == Resume(h, f.ch + 1) IN
      g \in Locals /\ g.pc \in {"resume", "restore", "release"} /\ Ordered(g)
  BY <1>1, ResumeOrdered
<1>3. ASSUME NEW c \in Channels, Known(f, c)' PROVE Known(Resume(h, f.ch + 1), c)'
  <2>1. c \in h.prior => ~boot_recording_pending'[c]
    BY <1>3 DEF Known
  <2>2. paused'[c] => warned' \/ h.bad \/ (c \in h.held /\ c >= f.ch + 1)
    <3>1. ~h.bad /\ MayBePaused(f, c) => c \in h.held /\ c > f.ch
      BY DEF MayBePaused, Points, Locked, Holding, Alone, Stops, Resuming, Starting
    <3>2. c > f.ch => c >= f.ch + 1
      BY <1>1, FirstChannel
    <3> QED
      BY <1>3, <3>1, <3>2 DEF Known
  <2>3. c \in h.prior /\ c \notin h.stopped => recording'[c] \/ managed_error'[c]
    BY <1>3 DEF Known, Owed, Locked, Holding, Alone
  <2> QED
    BY <1>1, <2>1, <2>2, <2>3, ResumeKnows
<1> QED
  BY <1>2, <1>3 DEF Alone, Resuming, Starting

(* A recorder's maintenance is resumed, or may not have been.              *)
LEMMA ResumeKeeps ==
    ASSUME FormatInv, resume
    PROVE FormatInv'
<1>1. PICK f \in Locals : f = format
  BY DEF FormatInv, ThreadTypes
<1>2. f.pc = "resume" /\ OnlyFormat /\ UNCHANGED <<job, timelapse, mutation, warned, mounted>>
      /\ (UNCHANGED faults \/ Fault) /\ (SetPaused(f.ch, FALSE) \/ UNCHANGED rmr)
  BY <1>1 DEF resume, Command, At, OnlyFormat, storage
<1>3. RecorderTypes' /\ \A c \in Channels : RecorderHolds(c)' /\ Known(f, c)'
  <2>1. CASE SetPaused(f.ch, FALSE)
    <3>1. f.ch \in Channels /\ RecorderTypes /\ RecordersInv
      BY <1>1, AloneFacts DEF Locals
    <3>2. /\ RecorderTypes' /\ \A c \in Channels : RecorderHolds(c)'
          /\ \A c \in Channels \ {f.ch} : Gentle(c)
          /\ boot_recording_pending' = boot_recording_pending /\ paused'[f.ch] = FALSE
          /\ recording[f.ch] \/ managed_error[f.ch] => recording'[f.ch] \/ managed_error'[f.ch]
      BY <1>2, <2>1, <3>1, SetPausedKeeps
    <3>3. ASSUME NEW c \in Channels \ {f.ch} PROVE Known(f, c)'
      BY <1>1, <1>2, <3>2, AloneFacts
    <3>4. Known(f, f.ch)'
      <4>1. Known(f, f.ch)
        BY <1>1, <3>1, AloneFacts
      <4>2. ~PastBarrier(f, f.ch) /\ ~PastPause(f, f.ch)
        BY <1>2 DEF PastBarrier, PastPause
      <4> QED
        BY <3>2, <4>1, <4>2 DEF Known
    <3> QED
      BY <3>2, <3>3, <3>4
  <2>2. CASE UNCHANGED rmr
    BY <1>1, <1>2, <2>2, AloneFacts
  <2> QED
    BY <1>2, <2>1, <2>2
<1>4. Ordered(f) /\ f.stopped \subseteq f.prior /\ f.ch \in Channels
  BY <1>1, AloneFacts DEF Locals
<1>5. CASE SetPaused(f.ch, FALSE) /\ Goto("resumed")
  <2>1. PICK g \in Locals : g = [f EXCEPT !.pc = "resumed"]
    BY DEF Locals, Points, Locked, Holding, Alone, Stops, Resuming, Starting
  <2>2. /\ g.pc = "resumed" /\ g.ch = f.ch /\ g.prior = f.prior /\ g.stopped = f.stopped
        /\ g.held = f.held /\ g.bad = f.bad /\ g.result = f.result /\ format' = g
    BY <1>1, <1>5, <2>1 DEF Locals, Goto
  <2>3. Ordered(g)
    BY <1>4, <2>2 DEF Ordered, Points, Locked, Holding, Alone, Stops, Resuming, Starting
  <2>4. paused'[f.ch] = FALSE
    BY <1>1, <1>2, <1>4, <1>5, AloneFacts, SetPausedKeeps
  <2>5. ASSUME NEW c \in Channels PROVE Known(g, c)'
    <3>1. Known(f, c)'
      BY <1>3
    <3>2. MayBePaused(f, c) => MayBePaused(g, c) \/ c = f.ch
      <4>1. f.ch \in Nat /\ c \in Nat
        BY FirstChannel, NextChannel
      <4> QED
        BY <1>2, <2>2, <4>1 DEF MayBePaused, Points, Locked, Holding, Alone, Stops, Resuming, Starting
    <3>3. Owed(g, c) => Owed(f, c)
      BY <1>2, <2>2 DEF Owed, Points, Locked, Holding, Alone, Stops, Resuming, Starting
    <3> QED
      BY <2>2, <2>4, <3>1, <3>2, <3>3 DEF Known, PastBarrier, PastPause
  <2> QED
    BY <1>1, <1>2, <1>3, <2>2, <2>3, <2>5, CommandMoves DEF Alone, Resuming
<1>6. CASE NotResumed
  <2>1. PICK h \in Locals : h = [f EXCEPT !.bad = TRUE]
    BY DEF Locals
  <2>2. h.prior = f.prior /\ h.stopped = f.stopped /\ h.held = f.held /\ h.ch = f.ch /\ h.bad
    BY <2>1 DEF Locals
  <2>3. PICK g : g = Resume(h, f.ch + 1)
    OBVIOUS
  <2>4. /\ g \in Locals /\ g.pc \in Alone \cup {"release"} /\ Ordered(g)
        /\ \A c \in Channels : Known(f, c)' => Known(g, c)'
    BY <1>2, <1>4, <2>2, <2>3, ResumingKeeps DEF Resuming
  <2>5. format' = g
    BY <1>1, <1>6, <2>1, <2>3 DEF NotResumed
  <2> QED
    BY <1>1, <1>2, <1>3, <2>4, <2>5, CommandMoves DEF Alone, Resuming
<1> QED
  BY <1>1, <1>5, <1>6 DEF resume, Command

(* It is observed before the next.                                         *)
LEMMA ResumeObserveKeeps ==
    ASSUME FormatInv, resume_observe
    PROVE FormatInv'
<1>1. PICK f \in Locals : f = format
  BY DEF FormatInv, ThreadTypes
<1>2. f.pc = "resumed" /\ OnlyFormat /\ UNCHANGED <<job, timelapse, rmr, mutation, warned, mounted>>
      /\ (UNCHANGED faults \/ Fault)
  BY <1>1 DEF resume_observe, Observe, At, OnlyFormat, storage
<1>3. RecorderTypes' /\ \A c \in Channels : RecorderHolds(c)' /\ Known(f, c)'
  BY <1>1, <1>2, AloneFacts
<1>4. Ordered(f) /\ f.stopped \subseteq f.prior /\ f.ch \in Channels
  BY <1>1, AloneFacts DEF Locals
<1>5. CASE format' = Resume(f, f.ch + 1)
  <2>1. PICK g : g = Resume(f, f.ch + 1)
    OBVIOUS
  <2>2. /\ g \in Locals /\ g.pc \in Alone \cup {"release"} /\ Ordered(g)
        /\ \A c \in Channels : Known(f, c)' => Known(g, c)'
    BY <1>2, <1>4, <2>1, ResumingKeeps DEF Resuming
  <2> QED
    BY <1>1, <1>2, <1>3, <1>5, <2>1, <2>2, CommandMoves DEF Alone, Resuming
<1>6. CASE NotResumed
  <2>1. PICK h \in Locals : h = [f EXCEPT !.bad = TRUE]
    BY DEF Locals
  <2>2. h.prior = f.prior /\ h.stopped = f.stopped /\ h.held = f.held /\ h.ch = f.ch /\ h.bad
    BY <2>1 DEF Locals
  <2>3. PICK g : g = Resume(h, f.ch + 1)
    OBVIOUS
  <2>4. /\ g \in Locals /\ g.pc \in Alone \cup {"release"} /\ Ordered(g)
        /\ \A c \in Channels : Known(f, c)' => Known(g, c)'
    BY <1>2, <1>4, <2>2, <2>3, ResumingKeeps DEF Resuming
  <2>5. format' = g
    BY <1>1, <1>6, <2>1, <2>3 DEF NotResumed
  <2> QED
    BY <1>1, <1>2, <1>3, <2>4, <2>5, CommandMoves DEF Alone, Resuming
<1> QED
  BY <1>1, <1>5, <1>6 DEF resume_observe, Observe

(* A recorder is started once it sees the card.                            *)
LEMMA RestoreWaitKeeps ==
    ASSUME FormatInv, restore_wait
    PROVE FormatInv'
<1>1. PICK f \in Locals : f = format
  BY DEF FormatInv, ThreadTypes
<1>2. f.pc = "restore" /\ OnlyFormat /\ UNCHANGED <<job, timelapse, rmr, mutation, warned, mounted>>
      /\ (UNCHANGED faults \/ Fault)
  BY <1>1 DEF restore_wait, At, OnlyFormat, storage
<1>3. RecorderTypes' /\ \A c \in Channels : RecorderHolds(c)' /\ Known(f, c)'
  BY <1>1, <1>2, AloneFacts
<1>4. Ordered(f) /\ f.stopped \subseteq f.prior /\ f.ch \in Channels
  BY <1>1, AloneFacts DEF Locals
<1>5. CASE Goto("start")
  <2>1. PICK g \in Locals : g = [f EXCEPT !.pc = "start"]
    BY DEF Locals, Points, Locked, Holding, Alone, Stops, Resuming, Starting
  <2>2. /\ g.pc = "start" /\ g.ch = f.ch /\ g.prior = f.prior /\ g.stopped = f.stopped
        /\ g.held = f.held /\ g.bad = f.bad /\ g.result = f.result /\ format' = g
    BY <1>1, <1>5, <2>1 DEF Locals, Goto
  <2>3. Ordered(g)
    BY <1>4, <2>2 DEF Ordered, Points, Locked, Holding, Alone, Stops, Resuming, Starting
  <2>4. ASSUME NEW c \in Channels PROVE Known(g, c)'
    BY <1>2, <1>3, <2>2 DEF Known, PastBarrier, PastPause, MayBePaused, Owed, Points, Locked, Holding, Alone, Stops, Resuming, Starting
  <2> QED
    BY <1>1, <1>2, <1>3, <2>2, <2>3, <2>4, CommandMoves DEF Alone, Starting
<1>6. CASE NotRestored
  <2>1. PICK g : g = Restore([f EXCEPT !.bad = TRUE], f.ch + 1)
    OBVIOUS
  <2>2. /\ g \in Locals /\ g.pc \in Alone \cup {"release"} /\ Ordered(g)
        /\ \A c \in Channels : Known(f, c)' => Known(g, c)'
    BY <1>2, <1>4, <2>1, NotRestoredKeeps DEF Starting
  <2>3. format' = g
    BY <1>1, <1>6, <2>1 DEF NotRestored
  <2> QED
    BY <1>1, <1>2, <1>3, <2>2, <2>3, CommandMoves DEF Alone, Starting
<1> QED
  BY <1>5, <1>6 DEF restore_wait

(* One that records already needs no start.                                *)
LEMMA StartObserveKeeps ==
    ASSUME FormatInv, start_observe
    PROVE FormatInv'
<1>1. PICK f \in Locals : f = format
  BY DEF FormatInv, ThreadTypes
<1>2. f.pc = "start" /\ OnlyFormat /\ UNCHANGED <<job, timelapse, rmr, mutation, warned, mounted>>
      /\ (UNCHANGED faults \/ Fault)
  BY <1>1 DEF start_observe, Observe, At, OnlyFormat, storage
<1>3. RecorderTypes' /\ \A c \in Channels : RecorderHolds(c)' /\ Known(f, c)'
  BY <1>1, <1>2, AloneFacts
<1>4. Ordered(f) /\ f.stopped \subseteq f.prior /\ f.ch \in Channels
  BY <1>1, AloneFacts DEF Locals
<1>5. CASE Goto("start_send")
  <2>1. PICK g \in Locals : g = [f EXCEPT !.pc = "start_send"]
    BY DEF Locals, Points, Locked, Holding, Alone, Stops, Resuming, Starting
  <2>2. /\ g.pc = "start_send" /\ g.ch = f.ch /\ g.prior = f.prior /\ g.stopped = f.stopped
        /\ g.held = f.held /\ g.bad = f.bad /\ g.result = f.result /\ format' = g
    BY <1>1, <1>5, <2>1 DEF Locals, Goto
  <2>3. Ordered(g)
    BY <1>4, <2>2 DEF Ordered, Points, Locked, Holding, Alone, Stops, Resuming, Starting
  <2>4. ASSUME NEW c \in Channels PROVE Known(g, c)'
    BY <1>2, <1>3, <2>2 DEF Known, PastBarrier, PastPause, MayBePaused, Owed, Points, Locked, Holding, Alone, Stops, Resuming, Starting
  <2> QED
    BY <1>1, <1>2, <1>3, <2>2, <2>3, <2>4, CommandMoves DEF Alone, Starting
<1>6. CASE NotRestored
  <2>1. PICK g : g = Restore([f EXCEPT !.bad = TRUE], f.ch + 1)
    OBVIOUS
  <2>2. /\ g \in Locals /\ g.pc \in Alone \cup {"release"} /\ Ordered(g)
        /\ \A c \in Channels : Known(f, c)' => Known(g, c)'
    BY <1>2, <1>4, <2>1, NotRestoredKeeps DEF Starting
  <2>3. format' = g
    BY <1>1, <1>6, <2>1 DEF NotRestored
  <2> QED
    BY <1>1, <1>2, <1>3, <2>2, <2>3, CommandMoves DEF Alone, Starting
<1>7. ASSUME Confirmed(f.ch, TRUE), format' = Restore(f, f.ch + 1)
      PROVE FormatInv'
  <2>1. recording'[f.ch]
    BY <1>2, <1>7 DEF Confirmed, rmr, recorder
  <2>2. PICK g : g = Restore(f, f.ch + 1)
    OBVIOUS
  <2>3. /\ g \in Locals /\ g.pc \in Alone \cup {"release"} /\ Ordered(g)
        /\ \A c \in Channels : Known(f, c)' => Known(g, c)'
    BY <1>2, <1>4, <2>1, <2>2, RestoredKeeps DEF Starting
  <2> QED
    BY <1>1, <1>2, <1>3, <1>7, <2>2, <2>3, CommandMoves DEF Alone, Starting
<1> QED
  BY <1>1, <1>5, <1>6, <1>7 DEF start_observe, Observe

(* A start it accepted, or did not.                                        *)
LEMMA StartSendKeeps ==
    ASSUME FormatInv, start_send
    PROVE FormatInv'
<1>1. PICK f \in Locals : f = format
  BY DEF FormatInv, ThreadTypes
<1>2. f.pc = "start_send" /\ OnlyFormat /\ UNCHANGED <<job, timelapse, mutation, warned, mounted>>
      /\ (UNCHANGED faults \/ Fault) /\ (SetRecording(f.ch, TRUE) \/ UNCHANGED rmr)
  BY <1>1 DEF start_send, Command, At, OnlyFormat, storage
<1>3. RecorderTypes' /\ \A c \in Channels : RecorderHolds(c)' /\ Known(f, c)'
  <2>1. CASE SetRecording(f.ch, TRUE)
    BY <1>1, <1>2, <2>1, SetRecordingKnows DEF Alone, Starting
  <2>2. CASE UNCHANGED rmr
    BY <1>1, <1>2, <2>2, AloneFacts
  <2> QED
    BY <1>2, <2>1, <2>2
<1>4. Ordered(f) /\ f.stopped \subseteq f.prior /\ f.ch \in Channels
  BY <1>1, AloneFacts DEF Locals
<1>5. CASE Goto("start_confirm")
  <2>1. PICK g \in Locals : g = [f EXCEPT !.pc = "start_confirm"]
    BY DEF Locals, Points, Locked, Holding, Alone, Stops, Resuming, Starting
  <2>2. /\ g.pc = "start_confirm" /\ g.ch = f.ch /\ g.prior = f.prior /\ g.stopped = f.stopped
        /\ g.held = f.held /\ g.bad = f.bad /\ g.result = f.result /\ format' = g
    BY <1>1, <1>5, <2>1 DEF Locals, Goto
  <2>3. Ordered(g)
    BY <1>4, <2>2 DEF Ordered, Points, Locked, Holding, Alone, Stops, Resuming, Starting
  <2>4. ASSUME NEW c \in Channels PROVE Known(g, c)'
    BY <1>2, <1>3, <2>2 DEF Known, PastBarrier, PastPause, MayBePaused, Owed, Points, Locked, Holding, Alone, Stops, Resuming, Starting
  <2> QED
    BY <1>1, <1>2, <1>3, <2>2, <2>3, <2>4, CommandMoves DEF Alone, Starting
<1>6. CASE NotRestored
  <2>1. PICK g : g = Restore([f EXCEPT !.bad = TRUE], f.ch + 1)
    OBVIOUS
  <2>2. /\ g \in Locals /\ g.pc \in Alone \cup {"release"} /\ Ordered(g)
        /\ \A c \in Channels : Known(f, c)' => Known(g, c)'
    BY <1>2, <1>4, <2>1, NotRestoredKeeps DEF Starting
  <2>3. format' = g
    BY <1>1, <1>6, <2>1 DEF NotRestored
  <2> QED
    BY <1>1, <1>2, <1>3, <2>2, <2>3, CommandMoves DEF Alone, Starting
<1> QED
  BY <1>5, <1>6 DEF start_send, Command

(* It is seen recording, or the format ends in "partial".                  *)
LEMMA StartConfirmKeeps ==
    ASSUME FormatInv, start_confirm
    PROVE FormatInv'
<1>1. PICK f \in Locals : f = format
  BY DEF FormatInv, ThreadTypes
<1>2. f.pc = "start_confirm" /\ OnlyFormat /\ UNCHANGED <<job, timelapse, rmr, mutation, warned, mounted>>
      /\ (UNCHANGED faults \/ Fault)
  BY <1>1 DEF start_confirm, At, OnlyFormat, storage
<1>3. RecorderTypes' /\ \A c \in Channels : RecorderHolds(c)' /\ Known(f, c)'
  BY <1>1, <1>2, AloneFacts
<1>4. Ordered(f) /\ f.stopped \subseteq f.prior /\ f.ch \in Channels
  BY <1>1, AloneFacts DEF Locals
<1>5. ASSUME Confirmed(f.ch, TRUE), format' = Restore(f, f.ch + 1)
      PROVE FormatInv'
  <2>1. recording'[f.ch]
    BY <1>2, <1>5 DEF Confirmed, rmr, recorder
  <2>2. PICK g : g = Restore(f, f.ch + 1)
    OBVIOUS
  <2>3. /\ g \in Locals /\ g.pc \in Alone \cup {"release"} /\ Ordered(g)
        /\ \A c \in Channels : Known(f, c)' => Known(g, c)'
    BY <1>2, <1>4, <2>1, <2>2, RestoredKeeps DEF Starting
  <2> QED
    BY <1>1, <1>2, <1>3, <1>5, <2>2, <2>3, CommandMoves DEF Alone, Starting
<1>6. CASE NotRestored
  <2>1. PICK g : g = Restore([f EXCEPT !.bad = TRUE], f.ch + 1)
    OBVIOUS
  <2>2. /\ g \in Locals /\ g.pc \in Alone \cup {"release"} /\ Ordered(g)
        /\ \A c \in Channels : Known(f, c)' => Known(g, c)'
    BY <1>2, <1>4, <2>1, NotRestoredKeeps DEF Starting
  <2>3. format' = g
    BY <1>1, <1>6, <2>1 DEF NotRestored
  <2> QED
    BY <1>1, <1>2, <1>3, <2>2, <2>3, CommandMoves DEF Alone, Starting
<1> QED
  BY <1>1, <1>5, <1>6 DEF start_confirm

(* The pause and the lock are dropped; what is left paused is so by the    *)
(* result.                                                                 *)
LEMMA ReleaseKeeps ==
    ASSUME FormatInv, release
    PROVE FormatInv'
<1>. ThreadTypes /\ ThreadInv
  BY DEF FormatInv
<1>1. PICK f \in Locals : f = format
  BY DEF ThreadTypes
<1>2. /\ f.pc = "release" /\ OnlyFormat /\ UNCHANGED <<job, rmr, faults, warned, mounted, worker>>
      /\ UNCHANGED <<format_active, format_queue, formats, client, reads, reading, user, sets, writing>>
      /\ (pause' = pause \/ pause' = "none")
      /\ (mutation' = IF mutation = "format" THEN None ELSE mutation)
  BY <1>1 DEF release, At, OnlyFormat, storage, person, Unlock, timelapse, Timelapse!Withdraw
<1>3. PICK g \in Locals : g = [f EXCEPT !.pc = "open"]
  BY DEF Locals, Points, Locked, Holding, Alone, Stops, Resuming, Starting
<1>4. /\ g.pc = "open" /\ g.prior = f.prior /\ g.stopped = f.stopped /\ g.held = f.held
      /\ g.result = f.result /\ format' = g
  BY <1>1, <1>3 DEF Locals, release, Goto
<1>5. RecorderTypes' /\ \A c \in Channels : RecorderHolds(c)' /\ Known(f, c)'
  BY <1>1, <1>2, AloneFacts
<1>6. Ordered(f)
  BY <1>1, AloneFacts
<1>7. ThreadTypes'
  BY <1>2, <1>4 DEF ThreadTypes
<1>8. ThreadInv'
  <2>1. LatchIsOne'
    BY <1>1, <1>2, <1>4 DEF ThreadInv, LatchIsOne, At
  <2>2. LockIsTheirs'
    BY <1>1, <1>2, <1>4, Names DEF ThreadInv, LockIsTheirs, At, Points, Locked, Holding, Alone, Stops, Resuming, Starting
  <2>3. PauseIsHeld'
    BY <1>2, <1>4 DEF ThreadInv, PauseIsHeld, Points, Locked, Holding, Alone, Stops, Resuming, Starting
  <2>4. DrainIsLast'
    BY <1>1, <1>2, <1>4 DEF ThreadInv, DrainIsLast, At, Job, Points, Locked, Holding, Alone, Stops, Resuming, Starting
  <2>5. WorkerIsAsked'
    BY <1>1, <1>2 DEF ThreadInv, WorkerIsAsked, Working
  <2>6. Ordered(g)
    BY <1>4, <1>6 DEF Ordered, Points, Locked, Holding, Alone, Stops, Resuming, Starting
  <2> QED
    BY <1>4, <2>1, <2>2, <2>3, <2>4, <2>5, <2>6 DEF ThreadInv
<1>9. ASSUME NEW c \in Channels PROVE Known(g, c)'
  BY <1>2, <1>4, <1>5 DEF Known, PastBarrier, PastPause, MayBePaused, Owed, Points, Locked, Holding, Alone, Stops, Resuming, Starting
<1> QED
  BY <1>4, <1>5, <1>7, <1>8, <1>9 DEF FormatInv, RecordersInv

(* The latch is let go when nothing of the format is left.                 *)
LEMMA ReopenKeeps ==
    ASSUME FormatInv, reopen
    PROVE FormatInv'
<1>. ThreadTypes /\ ThreadInv
  BY DEF FormatInv
<1>1. PICK f \in Locals : f = format
  BY DEF ThreadTypes
<1>2. /\ f.pc = "open" /\ format_active' = FALSE /\ format' = NoFormat
      /\ warned' = (warned \/ f.result = "partial")
      /\ UNCHANGED <<format_queue, formats, job, reading, client, reads, writing, pause, rmr,
                     worker, mounted, user, sets, mutation, faults>>
  BY <1>1 DEF reopen, At, reader, timelapse, storage, person
<1>3. /\ NoFormat \in Locals /\ NoFormat.pc = "recv" /\ NoFormat.prior = {}
      /\ Ordered(NoFormat)
  BY FirstChannel DEF NoFormat, Locals, Ordered, Points, Locked, Holding, Alone, Stops, Resuming, Starting
<1>4. RecorderTypes' /\ \A c \in Channels : RecorderHolds(c)'
  BY <1>2, StillHolds DEF FormatInv
<1>5. ThreadTypes'
  BY <1>2, <1>3 DEF ThreadTypes
<1>6. ThreadInv'
  <2>1. LatchIsOne'
    BY <1>1, <1>2, <1>3 DEF ThreadInv, LatchIsOne, At, ThreadTypes
  <2>2. LockIsTheirs'
    BY <1>1, <1>2, <1>3 DEF ThreadInv, LockIsTheirs, At, Points, Locked, Holding, Alone, Stops, Resuming, Starting
  <2>3. PauseIsHeld'
    BY <1>2, <1>3 DEF ThreadInv, PauseIsHeld, Points, Locked, Holding, Alone, Stops, Resuming, Starting
  <2>4. DrainIsLast'
    BY <1>1, <1>2, <1>3 DEF ThreadInv, DrainIsLast, At, Job, Points, Locked, Holding, Alone, Stops, Resuming, Starting
  <2>5. WorkerIsAsked'
    BY <1>1, <1>2 DEF ThreadInv, WorkerIsAsked, Working
  <2> QED
    BY <1>2, <1>3, <2>1, <2>2, <2>3, <2>4, <2>5 DEF ThreadInv
<1>7. ASSUME NEW c \in Channels PROVE Known(NoFormat, c)'
  <2>1. Known(f, c)
    BY <1>1, AloneFacts
  <2>2. MayBePaused(f, c) => f.result = "partial"
    BY <1>2 DEF MayBePaused, Points, Locked, Holding, Alone, Stops, Resuming, Starting
  <2>3. paused'[c] => warned'
    BY <1>2, <2>1, <2>2 DEF Known, rmr, maintenance
  <2> QED
    BY <1>3, <2>3, EarlyKnows
<1> QED
  BY <1>2, <1>4, <1>5, <1>6, <1>7 DEF FormatInv, RecordersInv

(***************************************************************************)
(* The storage worker, the user and the reboot.                            *)
(***************************************************************************)

(* While the worker has the card no recorder remembers anything of it.     *)
LEMMA StorageWorkerKeeps ==
    ASSUME FormatInv, StorageWorker
    PROVE FormatInv'
<1>. ThreadTypes /\ ThreadInv
  BY DEF FormatInv
<1>1. Working /\ worker' \in Works /\ mounted' \in BOOLEAN /\ OnlyWorker
  BY DEF StorageWorker, validate, umount, revalidate, mkfs, mount, answer_unheard, Reject,
     Working, Works, ThreadTypes
<1>2. PICK f \in Locals : f = format
  BY DEF ThreadTypes
<1>3. f.pc \in {"answer", "uncertain"}
  BY <1>1, <1>2 DEF ThreadInv, WorkerIsAsked
<1>4. ASSUME NEW c \in Channels PROVE RecorderHolds(c)'
  <2>1. RecorderHolds(c) /\ Known(f, c)
    BY <1>2, AloneFacts
  <2>2. observed[c] = "none" /\ probe[c] = "none"
    BY <1>3, <2>1 DEF Known, PastPause, Scanning, RecorderHolds
  <2> QED
    BY <1>1, <2>1, <2>2 DEF RecorderHolds, OnlyWorker, rmr, recorder, maintenance
<1>5. ASSUME NEW c \in Channels PROVE Known(f, c)'
  BY <1>1, <1>2, StillGentle, AloneFacts DEF OnlyWorker, control
<1>6. RecorderTypes'
  BY <1>1 DEF FormatInv, RecorderTypes, OnlyWorker, rmr, recorder, maintenance
<1>7. ThreadTypes'
  BY <1>1 DEF ThreadTypes, OnlyWorker, reader, timelapse, control, person
<1>8. ThreadInv'
  <2>1. WorkerIsAsked'
    BY <1>1, <1>2, <1>3 DEF WorkerIsAsked, OnlyWorker, control
  <2> QED
    BY <1>1, <2>1 DEF ThreadInv, LatchIsOne, LockIsTheirs, PauseIsHeld, DrainIsLast, At,
       OnlyWorker, reader, timelapse, control, person
<1> QED
  BY <1>1, <1>2, <1>4, <1>5, <1>6, <1>7, <1>8 DEF FormatInv, RecordersInv, OnlyWorker, control

(* The user's step under the lock: the format thread is not in its middle. *)
LEMMA UserKeeps ==
    ASSUME FormatInv, User
    PROVE FormatInv'
<1>. ThreadTypes /\ ThreadInv
  BY DEF FormatInv
<1>1. UNCHANGED <<format, worker, warned, mounted>>
  BY DEF User, set_recording, set_recording_before, set_recording_send, set_recording_ends,
     OnlyUser, control, storage
<1>2. user' \in Persons /\ mutation' \in {None, "format", "user"} \cup Clients
      /\ sets' \in 0 .. MaxSets
  <2>5. NoSet \in Persons /\ [user EXCEPT !.pc = "send"] \in Persons
        /\ [user EXCEPT !.pc = "confirm"] \in Persons
    BY FirstChannel DEF NoSet, ThreadTypes, Persons
  <2>1. ASSUME NEW c \in Channels, NEW on \in BOOLEAN, set_recording(c, on)
        PROVE /\ user' \in Persons /\ mutation' = "user" /\ sets' \in 0 .. MaxSets
    BY <2>1, Limits DEF ThreadTypes, Persons, set_recording
  <2>2. CASE set_recording_before
    <3>1. (user' = NoSet \/ user' = [user EXCEPT !.pc = "send"])
          /\ (mutation' = None \/ UNCHANGED mutation) /\ UNCHANGED sets
      BY <2>2 DEF set_recording_before, Gives, Ends, Unlock
    <3> QED
      BY <2>5, <3>1 DEF ThreadTypes
  <2>3. CASE set_recording_send
    <3>1. user' = NoSet \/ user' = [user EXCEPT !.pc = "confirm"]
      BY <2>3 DEF set_recording_send, Gives, Ends
    <3>2. (mutation' = None \/ UNCHANGED mutation) /\ UNCHANGED sets
      BY <2>3 DEF set_recording_send, Ends, Unlock
    <3> QED
      BY <2>5, <3>1, <3>2 DEF ThreadTypes
  <2>4. CASE set_recording_ends
    BY <2>4, FirstChannel DEF ThreadTypes, Persons, set_recording_ends, Ends, NoSet, Unlock
  <2> QED
    BY <2>1, <2>2, <2>3, <2>4 DEF User
<1>3. ThreadTypes'
  BY <1>2 DEF ThreadTypes, User, set_recording, set_recording_before,
     set_recording_send, set_recording_ends, OnlyUser, reader, timelapse, storage, control
<1>4. LatchIsOne' /\ PauseIsHeld' /\ DrainIsLast'
  BY <1>1 DEF ThreadInv, LatchIsOne, PauseIsHeld, DrainIsLast, At, User, set_recording,
     set_recording_before, set_recording_send, set_recording_ends, OnlyUser,
     reader, timelapse, control
<1>5. format.pc \notin Locked /\ (At("release") => format.prior = {})
  BY Names DEF ThreadInv, LockIsTheirs, User, set_recording, set_recording_before,
     set_recording_send, set_recording_ends
<1>6. LockIsTheirs'
  BY <1>1, <1>5, Names DEF ThreadInv, LockIsTheirs, At, User, set_recording,
     set_recording_before, set_recording_send, set_recording_ends, Gives, Ends, NoSet, Unlock,
     ThreadTypes, Persons
<1>7. ThreadInv'
  BY <1>1, <1>4, <1>6, AsideKeeps DEF ThreadInv
<1>8. CASE UNCHANGED rmr
  BY <1>1, <1>3, <1>7, <1>8, StillInv
<1>9. CASE SetRecording(user.ch, user.on)
  <2>1. PICK f \in Locals : f = format
    BY DEF ThreadTypes
  <2>2. user.ch \in Channels /\ user.on \in BOOLEAN /\ RecorderTypes /\ RecordersInv
    BY DEF ThreadTypes, Persons, FormatInv
  <2>3. /\ RecorderTypes' /\ \A c \in Channels : RecorderHolds(c)'
        /\ \A c \in Channels \ {user.ch} : Gentle(c)
        /\ boot_recording_pending'[user.ch] => boot_recording_pending[user.ch]
        /\ paused' = paused
    BY <1>1, <1>9, <2>2, SetRecordingKeeps
  <2>4. ASSUME NEW c \in Channels PROVE Known(f, c)'
    <3>1. CASE c # user.ch
      BY <1>1, <2>1, <2>3, <3>1, AloneFacts
    <3>2. CASE c = user.ch
      <4>1. Known(f, c)
        BY <2>1, AloneFacts
      <4>2. ~PastBarrier(f, c) /\ ~PastPause(f, c) /\ ~Owed(f, c)
        BY <1>5, <2>1 DEF PastBarrier, PastPause, Owed, At, Locked, Holding, Alone, Starting
      <4> QED
        BY <1>1, <2>3, <3>2, <4>1, <4>2 DEF Known
    <3> QED
      BY <3>1, <3>2
  <2> QED
    BY <1>1, <1>3, <1>7, <2>1, <2>3, <2>4 DEF FormatInv, RecordersInv
<1> QED
  BY <1>8, <1>9 DEF User, set_recording, set_recording_before, set_recording_send,
     set_recording_ends

(* After a boot there is nothing to know.                                  *)
LEMMA BootKnows ==
    ASSUME NEW c \in Channels, format' = NoFormat, ~paused'[c]
    PROVE Known(format, c)'
<1>1. /\ NoFormat \in Locals /\ NoFormat.pc = "recv" /\ NoFormat.prior = {}
  BY FirstChannel DEF NoFormat, Locals, Points, Locked, Holding, Alone, Stops, Resuming, Starting
<1> QED
  BY <1>1, EarlyKnows

(* A reboot brings the threads back to where they begin.                   *)
LEMMA RebootKeeps ==
    ASSUME FormatInv, reboot
    PROVE FormatInv'
<1>1. RecorderTypes'
  BY DEF reboot, Every, RecorderTypes, PerChannel
<1>2. ThreadTypes'
  BY FirstChannel DEF FormatInv, ThreadTypes, reboot, Jobs, NoRequest, Requests, NoFormat,
     Locals, NoSet, Persons, Works, Timelapse!Restart, Points, Locked, Holding, Alone, Stops, Resuming, Starting
<1>3. ThreadInv'
  BY Names DEF ThreadInv, LatchIsOne, LockIsTheirs, PauseIsHeld, DrainIsLast, Job,
     WorkerIsAsked, Working, Ordered, reboot, NoFormat, NoRequest, NoSet, At,
     Timelapse!Restart, Points, Locked, Holding, Alone, Stops, Resuming, Starting
<1>4. ASSUME NEW c \in Channels PROVE RecorderHolds(c)' /\ Known(format, c)'
  <2>1. RecorderHolds(c)'
    BY DEF reboot, Every, RecorderHolds
  <2>2. format' = NoFormat /\ ~paused'[c]
    BY DEF reboot, Every
  <2> QED
    BY <2>1, <2>2, BootKnows
<1> QED
  BY <1>1, <1>2, <1>3, <1>4 DEF FormatInv, RecordersInv

(* The camera boots with nothing under way.                                *)
LEMMA InitHolds ==
    ASSUME Init
    PROVE FormatInv
<1>1. RecorderTypes
  BY DEF Init, Every, RecorderTypes, PerChannel
<1>2. ThreadTypes
  <2>1. format \in Locals
    BY FirstChannel DEF Init, NoFormat, Locals, Points
  <2>2. client \in [Clients -> Requests] /\ user \in Persons
    BY FirstChannel DEF Init, NoRequest, Requests, NoSet, Persons
  <2>3. formats \in 0 .. MaxFormats /\ reads \in 0 .. MaxReads
        /\ sets \in 0 .. MaxSets /\ faults \in 0 .. MaxFaults
    BY Limits DEF Init
  <2> QED
    BY <2>1, <2>2, <2>3 DEF ThreadTypes, Init, Jobs, Works, Timelapse!Init
<1>3. ThreadInv
  BY Names DEF ThreadInv, LatchIsOne, LockIsTheirs, PauseIsHeld, DrainIsLast, Job,
     WorkerIsAsked, Working, Ordered, Init, NoFormat, NoRequest, NoSet, At,
     Timelapse!Init, Points, Locked, Holding, Alone, Stops, Resuming, Starting
<1>4. ASSUME NEW c \in Channels PROVE RecorderHolds(c) /\ Known(format, c)
  <2>1. RecorderHolds(c)
    BY DEF Init, Every, RecorderHolds
  <2>2. Known(format, c)
    BY DEF Init, Every, NoFormat, Known, PastBarrier, PastPause, MayBePaused, Owed, Points, Locked, Holding, Alone, Stops, Resuming, Starting
  <2> QED
    BY <2>1, <2>2
<1> QED
  BY <1>1, <1>2, <1>3, <1>4 DEF FormatInv, RecordersInv

(***************************************************************************)
(* The theorems.                                                           *)
(***************************************************************************)

(* Every step keeps the invariant: one step per action of Next.            *)
LEMMA StepKeeps ==
    ASSUME FormatInv, [Next]_vars
    PROVE FormatInv'
<1>1. CASE UNCHANGED vars
  <2>1. ThreadTypes' /\ ThreadInv'
    BY <1>1 DEF FormatInv, ThreadTypes, ThreadInv, LatchIsOne, LockIsTheirs, PauseIsHeld,
       DrainIsLast, WorkerIsAsked, Working, At, vars, reader, timelapse, storage, control, person
  <2> QED
    BY <1>1, <2>1, StillInv DEF vars, storage, control
<1>2. ASSUME NEW k \in Clients, Serve(k) PROVE FormatInv'
  BY <1>2, RecordingFilesKeeps, QueueStorageFormatKeeps, SubmitKeeps, SubmitRefusedKeeps,
     SubmitTimesOutKeeps, ActivateFormatKeeps, SendFormatKeeps DEF Serve
<1>3. CASE Read
  BY <1>3, ReceiveJobKeeps, AnswerJobKeeps DEF Read
<1>4. ASSUME NEW c \in Channels, Scan(c) \/ Record(c) \/ observation_expires(c)
      PROVE FormatInv'
  BY <1>4, OfItselfIsSafe DEF OfItself
<1>5. CASE StorageWorker
  BY <1>5, StorageWorkerKeeps
<1>6. CASE Format
  BY <1>6, ReceiveFormatKeeps, LockMutationKeeps, PauseStorageKeeps, DrainKeeps,
     DrainTimesOutKeeps, ObservePriorKeeps, StopObserveKeeps, StopSendKeeps, StopConfirmKeeps,
     BarrierKeeps, MaintainKeeps, QuiesceKeeps, DispatchKeeps, AnswerKeeps, ResumeKeeps,
     ResumeObserveKeeps, RestoreWaitKeeps, StartObserveKeeps, StartSendKeeps,
     StartConfirmKeeps, ReleaseKeeps, ReopenKeeps DEF Format
<1>7. CASE User
  BY <1>7, UserKeeps
<1>8. CASE timelapse_works
  BY <1>8, TimelapseWorksKeeps
<1>9. CASE reboot
  BY <1>9, RebootKeeps
<1> QED
  BY <1>1, <1>2, <1>3, <1>4, <1>5, <1>6, <1>7, <1>8, <1>9 DEF Next

(* While the storage worker has the card, or may have it, everybody else   *)
(* is off it; afterwards the recorders are as they were.                   *)
LEMMA InvIsSafe ==
    ASSUME FormatInv
    PROVE FormatIsSafe
<1>. ThreadTypes /\ ThreadInv /\ RecorderTypes
  BY DEF FormatInv
<1>1. PICK f \in Locals : f = format
  BY DEF ThreadTypes
<1>2. \A c \in Channels : RecorderHolds(c) /\ Known(f, c)
  BY <1>1, AloneFacts
<1>3. TypeOK
  BY TypesAre
<1>4. ObservationsHold
  BY <1>2 DEF ObservationsHold, RecorderHolds
<1>5. ASSUME Working \/ Unknown PROVE f.pc \in {"answer", "uncertain"}
  BY <1>1, <1>5 DEF ThreadInv, WorkerIsAsked, Unknown, At
<1>6. CardIsLeftAlone
  <2>1. SUFFICES ASSUME Working \/ Unknown PROVE
          /\ ~Reading /\ ~writing /\ pause = "held"
          /\ format_active /\ mutation = "format"
          /\ \A c \in Channels : paused[c] /\ ~Scanning(c)
    BY DEF CardIsLeftAlone
  <2>2. f.pc \in {"answer", "uncertain"}
    BY <1>5, <2>1
  <2>3. reading = None /\ pause = "held" /\ ~writing /\ mutation = "format" /\ format_active
    BY <1>1, <2>2 DEF ThreadInv, DrainIsLast, PauseIsHeld, LockIsTheirs, LatchIsOne, At,
       Locked, Holding, Alone
  <2>4. \A c \in Channels : paused[c] /\ ~Scanning(c)
    BY <1>2, <2>2 DEF Known, PastPause
  <2> QED
    BY <2>3, <2>4 DEF Reading
<1>7. FilesAreClosed
  <2>1. SUFFICES ASSUME Working \/ Unknown, NEW c \in Channels, FileOpen(c)
                 PROVE c \in Autostart \ f.stopped
    BY <1>1 DEF FilesAreClosed
  <2>2. PastBarrier(f, c)
    BY <1>5, <2>1 DEF PastBarrier
  <2> QED
    BY <1>2, <2>1, <2>2 DEF Known, FileOpen
<1>8. NoRecorderIsLeftPaused
  <2>1. SUFFICES ASSUME ~format_active, ~warned, NEW c \in Channels PROVE ~paused[c]
    BY DEF NoRecorderIsLeftPaused
  <2>2. f.pc = "recv" /\ Ordered(f)
    BY <1>1, <2>1 DEF ThreadInv, LatchIsOne, At
  <2>3. ~MayBePaused(f, c)
    BY <2>2 DEF MayBePaused, Points, Locked, Holding, Alone, Stops, Resuming, Starting
  <2> QED
    BY <1>2, <2>1, <2>3 DEF Known
<1>9. RecordersAreRestored
  <2>1. SUFFICES ASSUME f.pc = "release", f.result \in {"ok", "failed"}, NEW c \in f.prior
                 PROVE recording[c] \/ managed_error[c]
    BY <1>1 DEF RecordersAreRestored, At
  <2>2. Owed(f, c) /\ c \in Channels
    BY <2>1 DEF Owed, Locals
  <2> QED
    BY <1>2, <2>2 DEF Known
<1> QED
  BY <1>3, <1>4, <1>6, <1>7, <1>8, <1>9
     DEF FormatIsSafe, CardIsFree, RecordersComeBack

(* The invariant: one format at a time, alone with the lock, the pause and *)
(* an empty reader, and what it knows of each recorder.                    *)
THEOREM FormatInvariance == Spec => []FormatInv
<1>1. Init => FormatInv
  BY InitHolds
<1>2. FormatInv /\ [Next]_vars => FormatInv'
  BY StepKeeps
<1> QED
  BY <1>1, <1>2, PTL DEF Spec

(* From the moment the storage worker is asked to format the card until it *)
(* has answered nobody else touches it, no recorder takes an old mount for *)
(* the card, and each recorder is resumed and restored, whatever fails.    *)
THEOREM FormatStaysSafe == Spec => []FormatIsSafe
<1>1. FormatInv => FormatIsSafe
  BY InvIsSafe
<1> QED
  BY <1>1, FormatInvariance, PTL

(* What a format leaves behind, by itself: until one has ended with the    *)
(* request for a reboot no recorder is left paused, and one that recorded  *)
(* before records again or says why not.                                   *)
THEOREM RecordersAreLeftWell == Spec => []RecordersComeBack
<1>1. FormatIsSafe => RecordersComeBack
  BY DEF FormatIsSafe
<1> QED
  BY <1>1, FormatStaysSafe, PTL
=============================================================================
