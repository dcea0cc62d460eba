----------------------------- MODULE ThreadProofs -----------------------------
(***************************************************************************)
(* Proofs about the daemon's event threads.  The gate of the control       *)
(* server keeps its permits, for any number of workers, permits,           *)
(* connections and places in the queue; motion is announced on as many     *)
(* results as are asked for and the level shown is the one announced, for  *)
(* any configurations; and motion ends no recording but its own.           *)
(***************************************************************************)
EXTENDS DaemonThreads, FiniteSetTheorems, TLAPS

(***************************************************************************)
(* The gate.                                                               *)
(***************************************************************************)

Holders == {w \in Workers : holds[w] = 1}
Woken   == {w \in Workers : At(w, "woken")}
Waiting == {w \in Workers : At(w, "waiting")}

(* Who holds a permit is exactly who is at work on the backend.            *)
HeldAtWork ==
    \A w \in Workers : holds[w] = IF worker[w].pc \in {"operate", "drop"} THEN 1 ELSE 0

(* What makes NoPermitIsLost inductive: the permits in use and those that  *)
(* are on their way to somebody woken are all there are while any waits.   *)
PermitsAreDue ==
    Waiting # {} => active + Cardinality(Woken) >= MaxPermits

ServerInv ==
    /\ ServerTypeOK
    /\ HeldAtWork
    /\ active = Cardinality(Holders)
    /\ PermitsAreDue

-----------------------------------------------------------------------------
(* Sets of workers are finite, so that one more or one less is counted.    *)
LEMMA Counted ==
    ASSUME NEW S, S \subseteq Workers
    PROVE  /\ IsFiniteSet(S) /\ Cardinality(S) \in Nat
           /\ S = {} <=> Cardinality(S) = 0
           /\ \A w \in Workers \ S : Cardinality(S \union {w}) = Cardinality(S) + 1
           /\ \A w \in S : Cardinality(S \ {w}) = Cardinality(S) - 1
<1>1. IsFiniteSet(S)
  BY ServerAssumption, FS_Subset
<1> QED
  BY <1>1, FS_CardinalityType, FS_EmptySet, FS_AddElement, FS_RemoveElement

(* The strengthening implies what the runs check.                          *)
LEMMA InvImpliesKept == ServerInv => PermitsAreKept
<1> SUFFICES ASSUME ServerInv PROVE PermitsAreKept
  OBVIOUS
<1>1. PermitsAreHeld
  BY DEF ServerInv, HeldAtWork, PermitsAreHeld, Holders, At
<1>2. NoPermitIsLost
  <2> SUFFICES ASSUME active < MaxPermits, Waiting # {} PROVE Woken # {}
    BY DEF NoPermitIsLost, Waiting, Woken
  <2>1. active \in Nat /\ MaxPermits \in Nat
    BY ServerAssumption DEF ServerInv, ServerTypeOK
  <2>2. Woken \subseteq Workers
    BY DEF Woken
  <2> QED
    BY <2>1, <2>2, Counted DEF ServerInv, PermitsAreDue
<1> QED
  BY <1>1, <1>2 DEF PermitsAreKept, ServerInv

(* Nobody holds or waits for a permit when the server starts.              *)
LEMMA InitEstablishes == ServerInit => ServerInv
<1> SUFFICES ASSUME ServerInit PROVE ServerInv
  OBVIOUS
<1>1. ServerTypeOK
  BY ServerAssumption DEF ServerInit, ServerTypeOK, Idle, NoConnection, Asks
<1>2. HeldAtWork
  BY DEF ServerInit, HeldAtWork, Idle
<1>3. Holders = {} /\ Waiting = {}
  BY DEF ServerInit, Holders, Waiting, Idle, At
<1> QED
  BY <1>1, <1>2, <1>3, FS_EmptySet DEF ServerInv, PermitsAreDue, ServerInit

-----------------------------------------------------------------------------
(* Steps that do not touch the gate: the workers keep their permits, and    *)
(* one of them at most moves between places that have none.                 *)
Elsewhere == {"receive", "read", "acquire", "answer", "exit"}

(* Such steps keep the invariant of the server.                            *)
LEMMA GateIsUntouched ==
    ASSUME ServerInv, UNCHANGED <<holds, active>>, ServerTypeOK',
           NEW w \in Workers, worker[w].pc \in Elsewhere, worker'[w].pc \in Elsewhere,
           \A v \in Workers \ {w} : worker'[v].pc = worker[v].pc
    PROVE  ServerInv'
<1>1. HeldAtWork'
  BY DEF ServerInv, HeldAtWork, Elsewhere
<1>2. Woken' = Woken /\ Waiting' = Waiting /\ Holders' = Holders
  BY DEF Woken, Waiting, Holders, At, Elsewhere
<1> QED
  BY <1>1, <1>2 DEF ServerInv, PermitsAreDue

(* A permit is taken by one that was let in at once, or after being woken. *)
LEMMA TakesKeeps ==
    ASSUME ServerInv, NEW w \in Workers, worker[w].pc \in {"acquire", "woken"}, Takes(w),
           UNCHANGED <<accepting, connection, channel>>
    PROVE  ServerInv'
<1>1. holds[w] = 0 /\ w \notin Holders
  BY DEF ServerInv, HeldAtWork, Holders
<1>2. holds' = [holds EXCEPT ![w] = 1]
  BY <1>1 DEF Takes
<1>3. ServerTypeOK'
  BY SMTT(30), <1>2, ServerAssumption DEF ServerInv, ServerTypeOK, Takes, Goes
<1>4. HeldAtWork'
  BY <1>2 DEF ServerInv, ServerTypeOK, HeldAtWork, Takes, Goes
<1>5. Holders' = Holders \union {w} /\ Holders \subseteq Workers
  BY <1>2 DEF ServerInv, ServerTypeOK, Holders
<1>6. active' = Cardinality(Holders')
  BY <1>1, <1>5, Counted DEF ServerInv, Takes
<1>7. PermitsAreDue'
  <2>1. Woken' = Woken \ {w} /\ Waiting' = Waiting /\ Woken \subseteq Workers
    BY DEF ServerInv, ServerTypeOK, Takes, Goes, Woken, Waiting, At
  <2>2. Cardinality(Woken) \in Nat /\ Cardinality(Woken') >= Cardinality(Woken) - 1
    <3>1. CASE w \in Woken
      BY <2>1, <3>1, Counted
    <3>2. CASE w \notin Woken
      <4>1. Woken' = Woken
        BY <2>1, <3>2
      <4>2. Cardinality(Woken) \in Nat
        BY <2>1, Counted
      <4> QED
        BY <4>1, <4>2
    <3> QED
      BY <3>1, <3>2
  <2>3. Cardinality(Woken') \in Nat /\ active \in Nat /\ MaxPermits \in Nat
    <3>1. Woken' \subseteq Workers
      BY <2>1
    <3> QED
      BY <3>1, Counted, ServerAssumption DEF ServerInv, ServerTypeOK
  <2>4. active' = active + 1
    BY DEF Takes
  <2> QED
    BY <2>1, <2>2, <2>3, <2>4 DEF ServerInv, PermitsAreDue
<1> QED
  BY <1>3, <1>4, <1>6, <1>7 DEF ServerInv

(* One that finds no permit waits or gives up: none is free to be lost.    *)
LEMMA FullKeeps ==
    ASSUME ServerInv, NEW w \in Workers, worker[w].pc \in {"acquire", "woken"},
           Waits(w) \/ GivesUp(w), UNCHANGED <<accepting, connection, channel>>
    PROVE  ServerInv'
<1>1. ServerTypeOK' /\ HeldAtWork'
  BY SMTT(30) DEF ServerInv, ServerTypeOK, HeldAtWork, Waits, GivesUp, Goes
<1>2. Holders' = Holders /\ active' = active /\ active >= MaxPermits
  BY DEF Waits, GivesUp, Holders
<1>3. PermitsAreDue'
  <2>1. Woken' \subseteq Workers
    BY DEF Woken
  <2>2. Cardinality(Woken') \in Nat
    BY <2>1, Counted
  <2> QED
    BY <1>2, <2>2, ServerAssumption DEF ServerInv, ServerTypeOK, PermitsAreDue
<1> QED
  BY <1>1, <1>2, <1>3 DEF ServerInv

(* A waiter that times out leaves the others what they are due.            *)
LEMMA TimesOutKeeps ==
    ASSUME ServerInv, NEW w \in Workers, times_out(w)
    PROVE  ServerInv'
<1>1. ServerTypeOK' /\ HeldAtWork'
  BY SMTT(30) DEF ServerInv, ServerTypeOK, HeldAtWork, times_out, At, Goes
<1>2. Holders' = Holders /\ Woken' = Woken /\ Waiting' \subseteq Waiting
  BY DEF ServerInv, ServerTypeOK, Holders, Woken, Waiting, times_out, At, Goes
<1> QED
  BY <1>1, <1>2 DEF ServerInv, PermitsAreDue, times_out

(* A permit that is given back is passed on if anybody waits for one.      *)
LEMMA GivesBackKeeps ==
    ASSUME ServerInv, NEW w \in Workers, At(w, "drop"), NEW next,
           next \in [pc : Elsewhere, connection : {NoConnection} \union Connections, asks : Asks],
           GivesBack(w, next), UNCHANGED <<accepting, connection, channel>>
    PROVE  ServerInv'
<1> DEFINE dropped == [worker EXCEPT ![w] = next]
<1>1. holds[w] = 1 /\ w \in Holders
  BY DEF ServerInv, HeldAtWork, Holders, At
<1>2. holds' = [holds EXCEPT ![w] = 0]
  BY <1>1 DEF GivesBack
<1>3. Holders' = Holders \ {w} /\ Holders \subseteq Workers
  BY <1>2 DEF ServerInv, ServerTypeOK, Holders
<1>4. active' = Cardinality(Holders') /\ active' = active - 1 /\ active > 0
  <2>1. Cardinality(Holders) \in Nat /\ Cardinality(Holders) # 0
    BY <1>1, <1>3, Counted
  <2>2. Cardinality(Holders') = Cardinality(Holders) - 1
    BY <1>1, <1>3, Counted
  <2> QED
    BY <2>1, <2>2 DEF ServerInv, GivesBack
<1>5. active' \in 0..MaxPermits
  BY <1>4, ServerAssumption DEF ServerInv, ServerTypeOK
<1>6. holds' \in [Workers -> 0..1]
  BY <1>2 DEF ServerInv, ServerTypeOK
<1>7. \/ Waiting = {} /\ worker' = dropped
      \/ \E v \in Waiting : worker' = [dropped EXCEPT ![v].pc = "woken"]
  BY DEF GivesBack, Waiting
<1>8. CASE Waiting = {} /\ worker' = dropped
  <2>1. ServerTypeOK'
    BY <1>5, <1>6, <1>8 DEF ServerInv, ServerTypeOK, Elsewhere
  <2>2. HeldAtWork'
    BY <1>2, <1>8 DEF ServerInv, ServerTypeOK, HeldAtWork, Elsewhere
  <2>3. Waiting' = {}
    BY <1>8 DEF ServerInv, ServerTypeOK, Waiting, At, Elsewhere
  <2> QED
    BY <1>4, <2>1, <2>2, <2>3 DEF ServerInv, PermitsAreDue
<1>9. CASE \E v \in Waiting : worker' = [dropped EXCEPT ![v].pc = "woken"]
  <2>1. PICK v \in Waiting : worker' = [dropped EXCEPT ![v].pc = "woken"]
    BY <1>9
  <2>2. v \in Workers /\ v # w /\ worker[v].pc = "waiting"
    BY <2>1 DEF Waiting, At
  <2>3. worker' = [u \in Workers |-> IF u = w THEN next
                                     ELSE IF u = v THEN [worker[v] EXCEPT !.pc = "woken"]
                                     ELSE worker[u]]
    <3>1. dropped = [u \in Workers |-> IF u = w THEN next ELSE worker[u]]
      BY DEF ServerInv, ServerTypeOK
    <3>2. worker' = [u \in Workers |-> IF u = v THEN [dropped[v] EXCEPT !.pc = "woken"]
                                       ELSE dropped[u]]
      BY <2>1, <3>1
    <3>3. dropped[v] = worker[v]
      BY <2>2, <3>1
    <3> HIDE DEF dropped
    <3> QED
      BY <2>2, <3>1, <3>2, <3>3, Zenon
  <2>4. ServerTypeOK'
    BY <1>5, <1>6, <2>2, <2>3 DEF ServerInv, ServerTypeOK, Elsewhere
  <2>5. HeldAtWork'
    BY <1>2, <2>2, <2>3 DEF ServerInv, ServerTypeOK, HeldAtWork, Elsewhere
  <2>6. Woken' = Woken \union {v} /\ v \notin Woken /\ Woken \subseteq Workers
    BY <2>2, <2>3 DEF ServerInv, ServerTypeOK, Woken, At, Elsewhere
  <2>7. Cardinality(Woken') = Cardinality(Woken) + 1 /\ Cardinality(Woken) \in Nat
    BY <2>2, <2>6, Counted
  <2>8. active \in Nat /\ MaxPermits \in Nat
    BY ServerAssumption DEF ServerInv, ServerTypeOK
  <2>9. active' + Cardinality(Woken') >= MaxPermits
    BY <1>4, <2>1, <2>7, <2>8 DEF ServerInv, PermitsAreDue
  <2> QED
    BY <1>4, <2>4, <2>5, <2>9 DEF ServerInv, PermitsAreDue
<1> QED
  BY <1>7, <1>8, <1>9

-----------------------------------------------------------------------------
(* Every step keeps the strengthening.                                     *)
LEMMA StepKeeps == ServerInv /\ [ServerNext]_serverVars => ServerInv'
<1> SUFFICES ASSUME ServerInv, [ServerNext]_serverVars PROVE ServerInv'
  OBVIOUS
<1>1. CASE UNCHANGED serverVars
  BY <1>1 DEF serverVars, ServerInv, ServerTypeOK, HeldAtWork, PermitsAreDue, Holders, Woken,
              Waiting, At
<1>2. ASSUME NEW c \in Connections, accept(c) PROVE ServerInv'
  <2>1. ServerTypeOK'
    <3>1. channel' \in Seq(Connections) /\ Len(channel') <= QueueCapacity
      <4>1. CASE Len(channel) < QueueCapacity
        <5>1. channel' = Append(channel, c)
          BY <1>2, <4>1 DEF accept
        <5> QED
          BY <4>1, <5>1, ServerAssumption DEF ServerInv, ServerTypeOK
      <4>2. CASE ~(Len(channel) < QueueCapacity)
        BY <1>2, <4>2 DEF ServerInv, ServerTypeOK, accept
      <4> QED
        BY <4>1, <4>2
    <3> QED
      BY <1>2, <3>1 DEF ServerInv, ServerTypeOK, accept
  <2> QED
    BY <1>2, <2>1 DEF ServerInv, HeldAtWork, PermitsAreDue, Holders, Woken, Waiting, At, accept
<1>3. CASE shutdown \/ accept_fails \/ join
  <2>1. ServerTypeOK'
    BY <1>3 DEF ServerInv, ServerTypeOK, shutdown, accept_fails, join
  <2> QED
    BY <1>3, <2>1 DEF ServerInv, HeldAtWork, PermitsAreDue, Holders, Woken, Waiting, At,
                      shutdown, accept_fails, join
<1>4. ASSUME NEW w \in Workers, Serves(w) PROVE ServerInv'
  <2>1. CASE receive(w)
    <3>1. ServerTypeOK'
      <4>1. Head(channel) \in Connections /\ channel' \in Seq(Connections)
        BY <2>1 DEF ServerInv, ServerTypeOK, receive
      <4>2. Len(channel') <= QueueCapacity
        BY <2>1, ServerAssumption DEF ServerInv, ServerTypeOK, receive
      <4> QED
        BY <2>1, <4>1, <4>2 DEF ServerInv, ServerTypeOK, receive, Asks
    <3> QED
      BY <2>1, <3>1, GateIsUntouched
      DEF ServerInv, ServerTypeOK, receive, At, Idle, Elsewhere
  <2>2. CASE disconnected(w)
    <3>1. ServerTypeOK'
      BY <2>2 DEF ServerInv, ServerTypeOK, disconnected, At, Goes
    <3> QED
      BY <2>2, <3>1, GateIsUntouched
      DEF ServerInv, ServerTypeOK, disconnected, At, Goes, Elsewhere
  <2>3. CASE read_request(w)
    <3>1. ServerTypeOK'
      BY <2>3 DEF ServerInv, ServerTypeOK, read_request, At
    <3> QED
      BY <2>3, <3>1, GateIsUntouched
      DEF ServerInv, ServerTypeOK, read_request, At, Elsewhere
  <2>4. CASE acquire(w)
    BY <2>4, TakesKeeps, FullKeeps DEF acquire, At
  <2>5. CASE times_out(w)
    BY <2>5, TimesOutKeeps
  <2>6. CASE look_again(w)
    BY <2>6, TakesKeeps, FullKeeps DEF look_again, At
  <2>7. CASE operate(w)
    <3>1. ServerTypeOK' /\ HeldAtWork'
      BY ZenonT(60), <2>7 DEF ServerInv, ServerTypeOK, HeldAtWork, operate, At, Goes
    <3>2. Holders' = Holders /\ Woken' = Woken /\ Waiting' = Waiting
      BY <2>7 DEF ServerInv, ServerTypeOK, Holders, Woken, Waiting, operate, At, Goes
    <3> QED
      BY <2>7, <3>1, <3>2 DEF ServerInv, PermitsAreDue, operate
  <2>8. CASE drop(w)
    <3>1. \E next \in {Idle} \union Second(w) : GivesBack(w, next)
      BY <2>8 DEF drop
    <3>2. {Idle} \union Second(w)
             \subseteq [pc : Elsewhere, connection : {NoConnection} \union Connections,
                        asks : Asks]
      BY DEF ServerInv, ServerTypeOK, Second, Idle, Elsewhere, Asks
    <3> QED
      BY <2>8, <3>1, <3>2, GivesBackKeeps DEF drop
  <2>9. CASE answer(w)
    <3>1. ServerTypeOK'
      BY <2>9 DEF ServerInv, ServerTypeOK, answer, At, Idle, Asks
    <3> QED
      BY <2>9, <3>1, GateIsUntouched
      DEF ServerInv, ServerTypeOK, answer, At, Idle, Elsewhere
  <2> QED
    BY <1>4, <2>1, <2>2, <2>3, <2>4, <2>5, <2>6, <2>7, <2>8, <2>9 DEF Serves
<1> QED
  BY <1>1, <1>2, <1>3, <1>4 DEF ServerNext

(* BackendGate and its workers (server.rs): the counter is the number of    *)
(* permits in use, who waits for one has none, and a permit that comes free *)
(* while somebody sleeps has woken somebody.                                *)
THEOREM GateKeepsPermits == ServerSpec => []PermitsAreKept
<1>1. ServerInit => ServerInv
  BY InitEstablishes
<1>2. ServerInv /\ [ServerNext]_serverVars => ServerInv'
  BY StepKeeps
<1>3. ServerInv => PermitsAreKept
  BY InvImpliesKept
<1> QED
  BY <1>1, <1>2, <1>3, PTL DEF ServerSpec

(***************************************************************************)
(* The poller.                                                             *)
(***************************************************************************)

Machines == [config : Configs, active : BOOLEAN, session : {"none", "old", "current"},
             debounce : 0..MaxDebounce, qualifying : (0..MaxHold) \cup {None},
             cooldown : 0..MaxCooldown]
Pollers == [pc : {"load", "adopt", "poll", "reload", "readopt"}, read : Configs,
            known : BOOLEAN, resetting : BOOLEAN, awaiting : BOOLEAN,
            monitoring : BOOLEAN, since : 0..MaxInit]
Detectors == [active : BOOLEAN, receiving : BOOLEAN, raw : BOOLEAN,
              result : {"none", "other", "same", "newer"},
              config : Configs, saved : Configs, enabled : BOOLEAN]
Logs == [announced : BOOLEAN, excused : BOOLEAN, raws : 0..MaxDebounce + 1]

(* The level shown and the machine's level are the one announced, unless    *)
(* a machine was thrown away during motion.                                *)
LevelIsAnnounced ==
    ~motionLog.excused => /\ runtime.active <=> motionLog.announced
                          /\ machine.active <=> motionLog.announced

(* Nothing is counted before there is a result to count from.              *)
CountIsFresh ==
    /\ rvd.result = "newer" /\ rvd.raw => motionLog.raws >= 1
    /\ ~poller.known => machine.debounce = 0
    /\ poller.pc \in {"load", "adopt"} /\ ~poller.resetting => ~poller.known

(* What makes ActiveIsEarned hold: the machine has counted no more results  *)
(* than the producer has produced, the one that waits to be read aside.    *)
Unread == IF rvd.result = "newer" /\ rvd.raw THEN 1 ELSE 0
CountIsEarned ==
    poller.pc = "poll" /\ poller.known /\ rvd.result \in {"same", "newer"}
        => motionLog.raws >= machine.debounce + Unread

MotionInv == MotionTypeOK /\ LevelIsAnnounced /\ CountIsFresh /\ CountIsEarned

-----------------------------------------------------------------------------
(* The bounds of the counters are bounds of every configuration.           *)
LEMMA LongestIsLongest ==
    ASSUME NEW field \in {"debounce", "cooldown", "init", "hold"}
    PROVE  /\ Longest(field) \in Nat
           /\ \A c \in Configs : c[field] \in Nat /\ c[field] <= Longest(field)
<1>1. \A c \in Configs : c[field] \in Nat
  BY MotionConfigs
<1>2. PICK c \in Configs : \A d \in Configs : d[field] <= c[field]
  BY MotionConfigs
<1>3. /\ Longest(field) \in {d[field] : d \in Configs}
      /\ \A d \in Configs : d[field] <= Longest(field)
  BY <1>2 DEF Longest
<1> QED
  BY <1>1, <1>3

(* What the proofs use of the configurations.                              *)
LEMMA Bounded ==
    /\ MaxDebounce \in Nat /\ MaxCooldown \in Nat /\ MaxInit \in Nat /\ MaxHold \in Nat
    /\ \A c \in Configs : /\ c.debounce \in Nat /\ c.debounce <= MaxDebounce
                          /\ c.cooldown \in Nat /\ c.cooldown <= MaxCooldown
                          /\ c.init \in Nat /\ c.hold \in Nat
<1>1. MaxDebounce \in Nat /\ \A c \in Configs : c.debounce \in Nat /\ c.debounce <= MaxDebounce
  BY LongestIsLongest DEF MaxDebounce
<1>2. MaxCooldown \in Nat /\ \A c \in Configs : c.cooldown \in Nat /\ c.cooldown <= MaxCooldown
  BY LongestIsLongest DEF MaxCooldown
<1>3. MaxInit \in Nat /\ \A c \in Configs : c.init \in Nat
  BY LongestIsLongest DEF MaxInit
<1>4. MaxHold \in Nat /\ \A c \in Configs : c.hold \in Nat
  BY LongestIsLongest DEF MaxHold
<1> QED
  BY <1>1, <1>2, <1>3, <1>4

(* A counter that is held at its bound stays within it.                    *)
LEMMA HeldAtBound ==
    ASSUME NEW max \in Nat, NEW n \in Nat
    PROVE  UpTo(n, max) \in 0..max /\ UpTo(n, max) <= n
BY DEF UpTo

(* A poll passes: only the clocks of the machine move.                     *)
LEMMA ElapseKeeps ==
    ASSUME NEW m \in Machines
    PROVE  /\ Elapse(m) \in Machines
           /\ Elapse(m).active = m.active /\ Elapse(m).debounce = m.debounce
           /\ Elapse(m).config = m.config
<1> DEFINE cool == IF m.cooldown > 0 THEN m.cooldown - 1 ELSE 0
           qual == IF m.qualifying = None THEN m.qualifying ELSE UpTo(m.qualifying + 1, MaxHold)
<1>1. cool \in 0..MaxCooldown
  BY Bounded DEF Machines
<1>2. qual \in (0..MaxHold) \cup {None}
  BY Bounded, HeldAtBound DEF Machines
<1>3. Elapse(m) = [m EXCEPT !.cooldown = cool, !.qualifying = qual]
  BY DEF Elapse
<1> HIDE DEF cool, qual
<1> QED
  BY <1>1, <1>2, <1>3 DEF Machines

(* A poll passes for the poller itself.                                    *)
LEMMA WaitKeeps ==
    ASSUME NEW p \in Pollers, NEW pc \in {"load", "poll"}
    PROVE  /\ WaitThen(pc, p) \in Pollers
           /\ WaitThen(pc, p).pc = pc /\ WaitThen(pc, p).known = p.known
           /\ WaitThen(pc, p).resetting = p.resetting
<1>1. MaxInit \in Nat /\ p.since + 1 \in Nat
  BY Bounded DEF Pollers
<1>2. UpTo(p.since + 1, MaxInit) \in 0..MaxInit
  BY <1>1, HeldAtBound
<1> QED
  BY <1>2 DEF WaitThen, Pollers

(* The first observation of a session starts the count again.              *)
LEMMA SessionKeeps ==
    ASSUME NEW m \in Machines
    PROVE  /\ InSession(m) \in Machines
           /\ InSession(m).active = m.active /\ InSession(m).config = m.config
           /\ InSession(m).debounce \in {0, m.debounce}
<1>1. 0 \in 0..MaxDebounce
  BY Bounded
<1>2. CASE m.session = "current"
  BY <1>2 DEF InSession
<1>3. CASE m.session # "current"
  BY <1>1, <1>3 DEF InSession, Machines
<1> QED
  BY <1>2, <1>3

(* Any observation but one of motion starts the count again.               *)
LEMMA ForgetsItsCount ==
    ASSUME NEW m \in Machines, NEW seen \in {"stopped", "clear"}, NEW age \in Nat
    PROVE  Apply(m, seen, age).debounce = 0
<1>1. 0 \in 0..MaxDebounce /\ InSession(m) \in Machines
  BY Bounded, SessionKeeps
<1>2. \A n \in Machines : apply_stopped(n).debounce = 0 /\ apply_clear(n).debounce = 0
  BY <1>1 DEF apply_stopped, apply_clear, Machines
<1> QED
  BY <1>1, <1>2 DEF Apply

(* What the machine does with an observation: it counts a result of motion  *)
(* once, forgets its count with any other, and becomes active only when the *)
(* configuration's count is reached.                                       *)
LEMMA ApplyKeeps ==
    ASSUME NEW m \in Machines, NEW seen \in {"stopped", "detected", "clear"},
           NEW age \in Nat
    PROVE  /\ Apply(m, seen, age) \in Machines
           /\ Apply(m, seen, age).debounce <= m.debounce + 1
           /\ ~m.active /\ Apply(m, seen, age).active
                => seen = "detected" /\ m.debounce + 1 >= m.config.debounce
<1> DEFINE n == InSession(m)
<1>1. /\ n \in Machines /\ n.active = m.active /\ n.config = m.config
      /\ n.debounce \in {0, m.debounce} /\ m.debounce \in Nat
  BY SessionKeeps, Bounded DEF Machines
<1>2. n.config.cooldown \in 0..MaxCooldown /\ n.config \in Configs
  BY <1>1, Bounded DEF Machines
<1>0. 0 \in 0..MaxDebounce /\ 0 \in (0..MaxHold) \cup {None}
  BY Bounded
<1> HIDE DEF n
<1>3. CASE seen = "stopped"
  <2>1. Apply(m, seen, age) = apply_stopped(n)
    BY <1>3 DEF Apply, n
  <2>2. apply_stopped(n) \in Machines /\ apply_stopped(n).debounce = 0 /\ ~apply_stopped(n).active
    BY <1>1, <1>2, <1>0 DEF apply_stopped, Machines
  <2> QED
    BY <1>1, <1>3, <2>1, <2>2
<1>4. CASE seen = "clear"
  <2>1. Apply(m, seen, age) = apply_clear(n)
    BY <1>4 DEF Apply, n
  <2>2. apply_clear(n) \in Machines /\ apply_clear(n).debounce = 0
        /\ (apply_clear(n).active => n.active)
    BY <1>1, <1>2, <1>0 DEF apply_clear, Machines
  <2> QED
    BY <1>1, <1>4, <2>1, <2>2
<1>5. CASE seen = "detected"
  <2> DEFINE counted == [n EXCEPT !.debounce = UpTo(@ + 1, MaxDebounce)]
  <2>1. Apply(m, seen, age) = apply_detected(n, age)
    BY <1>5 DEF Apply, n
  <2>2. counted \in Machines /\ counted.debounce <= n.debounce + 1
        /\ counted.active = n.active /\ counted.config = n.config
        /\ counted.debounce \in Nat
    BY <1>1, Bounded, HeldAtBound DEF Machines
  <2>3. apply_detected(n, age) \in
            {n, counted, [counted EXCEPT !.active = TRUE, !.qualifying = 0]}
    BY DEF apply_detected
  <2>4. [counted EXCEPT !.active = TRUE, !.qualifying = 0] \in Machines
        /\ [counted EXCEPT !.active = TRUE, !.qualifying = 0].debounce = counted.debounce
    BY <2>2, <1>0 DEF Machines
  <2>5. ~n.active /\ apply_detected(n, age).active => counted.debounce >= n.config.debounce
    <3> SUFFICES ASSUME ~n.active, apply_detected(n, age).active,
                        ~(counted.debounce >= n.config.debounce)
                 PROVE  FALSE
      OBVIOUS
    <3>1. counted.debounce < n.config.debounce
      BY <1>2, <2>2, Bounded
    <3>2. apply_detected(n, age) \in {n, counted}
      BY <3>1 DEF apply_detected
    <3> QED
      BY <2>2, <3>2
  <2>6. m.config.debounce \in Nat /\ n.debounce \in Nat
    BY <1>1, <1>2, Bounded
  <2>7. apply_detected(n, age).debounce <= n.debounce + 1
    <3>1. n.debounce <= n.debounce + 1
      BY <2>6
    <3> HIDE DEF counted
    <3> QED
      BY <2>2, <2>3, <2>4, <3>1
  <2>8. apply_detected(n, age) \in Machines
    BY <1>1, <2>2, <2>3, <2>4
  <2>9. ~m.active /\ apply_detected(n, age).active => m.debounce + 1 >= m.config.debounce
    BY <1>1, <2>2, <2>5, <2>6
  <2>10. apply_detected(n, age).debounce \in Nat
    BY <2>8, Bounded DEF Machines
  <2> HIDE DEF counted
  <2> QED
    BY <1>1, <1>5, <2>1, <2>6, <2>7, <2>8, <2>9, <2>10
<1> QED
  BY <1>3, <1>4, <1>5

-----------------------------------------------------------------------------
Levels  == [available : BOOLEAN, monitoring : BOOLEAN, active : BOOLEAN]
Changes == [pc : {"idle", "lifecycle", "readback", "save"}, enabled : BOOLEAN, config : Configs]
Bounds  == [restarts : 0..MaxRestarts, updates : 0..MaxUpdates,
            failures : 0..MaxMotionFailures]

(* The type invariant, by its named sets.                                  *)
LEMMA MotionTypes ==
    /\ MotionTypeOK <=> /\ rvd \in Detectors /\ machine \in Machines /\ poller \in Pollers
                        /\ runtime \in Levels /\ update \in Changes
                        /\ motionLog \in Logs /\ motionLeft \in Bounds
    /\ MotionTypeOK' <=> /\ rvd' \in Detectors /\ machine' \in Machines /\ poller' \in Pollers
                         /\ runtime' \in Levels /\ update' \in Changes
                         /\ motionLog' \in Logs /\ motionLeft' \in Bounds
BY DEF MotionTypeOK, Detectors, Machines, Pollers, Levels, Changes, Logs, Bounds

(* What is left of the bounds stays within them.                           *)
LEMMA CostsKeep ==
    ASSUME motionLeft \in Bounds,
           Free \/ \E resource \in {"restarts", "updates", "failures"} : Costs(resource)
    PROVE  motionLeft' \in Bounds
<1>1. CASE Free
  BY <1>1 DEF Free
<1>2. CASE Costs("restarts")
  BY <1>2, MotionConfigs DEF Costs, Bounds
<1>3. CASE Costs("updates")
  BY <1>3, MotionConfigs DEF Costs, Bounds
<1>4. CASE Costs("failures")
  BY <1>4, MotionConfigs DEF Costs, Bounds
<1> QED
  BY <1>1, <1>2, <1>3, <1>4

(* The detector is switched: on means without a result.                    *)
LEMMA SwitchedKeeps ==
    ASSUME NEW r \in Detectors, NEW on \in BOOLEAN
    PROVE  /\ Switched(r, on) \in Detectors
           /\ on => Switched(r, on).result = "none"
           /\ ~on => Switched(r, on).result = r.result /\ Switched(r, on).raw = r.raw
BY DEF Switched, Detectors

(* The poller starts with nothing counted and nothing announced.           *)
LEMMA MotionInitEstablishes == MotionInit => MotionInv
<1> SUFFICES ASSUME MotionInit PROVE MotionInv
  OBVIOUS
<1> PICK c \in Configs, on \in BOOLEAN :
        /\ rvd = [active |-> on, receiving |-> on, result |-> "none", raw |-> FALSE,
                  config |-> c, saved |-> c, enabled |-> on]
        /\ machine = Fresh(CHOOSE d \in Configs : TRUE)
        /\ poller = [pc |-> "load", read |-> c, known |-> FALSE, resetting |-> FALSE,
                     awaiting |-> TRUE, monitoring |-> FALSE, since |-> 0]
        /\ runtime = [available |-> FALSE, monitoring |-> FALSE, active |-> FALSE]
        /\ update = [pc |-> "idle", enabled |-> on, config |-> c]
        /\ motionLog = [announced |-> FALSE, excused |-> FALSE, raws |-> 0]
        /\ motionLeft = [restarts |-> MaxRestarts, updates |-> MaxUpdates,
                         failures |-> MaxMotionFailures]
  BY DEF MotionInit
<1>1. (CHOOSE d \in Configs : TRUE) \in Configs
  OBVIOUS
<1>2. /\ 0 \in 0..MaxDebounce /\ 0 \in 0..MaxCooldown /\ 0 \in 0..MaxInit
      /\ 0 \in 0..(MaxDebounce + 1)
  BY Bounded
<1>3. machine \in Machines /\ ~machine.active /\ machine.debounce = 0
  BY <1>1, <1>2 DEF Fresh, Machines
<1>4. rvd \in Detectors /\ poller \in Pollers /\ runtime \in Levels /\ update \in Changes
  BY <1>2 DEF Detectors, Pollers, Levels, Changes
<1>5. motionLog \in Logs /\ motionLeft \in Bounds
  BY <1>2, MotionConfigs DEF Logs, Bounds
<1>6. MotionTypeOK
  BY <1>3, <1>4, <1>5, MotionTypes
<1>7. LevelIsAnnounced /\ CountIsFresh /\ CountIsEarned
  BY <1>3 DEF LevelIsAnnounced, CountIsFresh, CountIsEarned
<1> QED
  BY <1>6, <1>7 DEF MotionInv

(* RVD produces a result: one more that the poller may count.              *)
LEMMA NewResultKeeps ==
    ASSUME MotionInv, NEW raw \in BOOLEAN, NewResult(raw)
    PROVE  MotionInv'
<1> DEFINE more == UpTo(motionLog.raws + 1, MaxDebounce + 1)
<1>1. /\ rvd \in Detectors /\ machine \in Machines /\ motionLog \in Logs
      /\ motionLog.raws \in 0..(MaxDebounce + 1) /\ machine.debounce \in 0..MaxDebounce
      /\ MaxDebounce \in Nat
  BY MotionTypes, Bounded DEF MotionInv, Logs, Machines
<1>2. more \in 0..(MaxDebounce + 1) /\ more >= 1 /\ more >= motionLog.raws
      /\ (more = motionLog.raws + 1 \/ more = MaxDebounce + 1)
  BY <1>1 DEF UpTo
<1> HIDE DEF more
<1>3. motionLog' = IF raw THEN [motionLog EXCEPT !.raws = more] ELSE motionLog
  BY DEF NewResult, more
<1>4. /\ motionLog' \in Logs /\ motionLog'.announced = motionLog.announced
      /\ motionLog'.excused = motionLog.excused
      /\ motionLog'.raws = IF raw THEN more ELSE motionLog.raws
  BY <1>1, <1>2, <1>3 DEF Logs
<1>5. /\ rvd' \in Detectors /\ rvd'.raw = raw
      /\ rvd'.result = IF rvd.result \in {"none", "other"} THEN "other" ELSE "newer"
  BY <1>1 DEF NewResult, Detectors
<1>6. UNCHANGED <<machine, poller, runtime, update, motionLeft>>
  BY DEF NewResult
<1>7. MotionTypeOK'
  BY <1>4, <1>5, <1>6, MotionTypes DEF MotionInv
<1>8. LevelIsAnnounced'
  BY <1>4, <1>6 DEF MotionInv, LevelIsAnnounced
<1>9. rvd'.result = "newer" => rvd.result \in {"same", "newer"}
  BY <1>1, <1>5 DEF Detectors
<1>10. rvd.result \in {"newer", "same"} /\ poller.pc = "poll" /\ poller.known
         => motionLog.raws >= machine.debounce
  <2>1. Unread \in {0, 1}
    BY DEF Unread
  <2> QED
    BY <1>1, <2>1 DEF MotionInv, CountIsEarned
<1>11. ~raw => motionLog'.raws = motionLog.raws
  BY <1>4
<1>12. CountIsFresh'
  <2>1. rvd'.result = "newer" /\ rvd'.raw => motionLog'.raws >= 1
    BY <1>2, <1>4, <1>5
  <2> QED
    BY <2>1, <1>6 DEF MotionInv, CountIsFresh
<1>13. CountIsEarned'
  <2> SUFFICES ASSUME poller.pc = "poll", poller.known, rvd'.result \in {"same", "newer"}
               PROVE  motionLog'.raws >= machine.debounce + Unread'
    BY <1>6 DEF CountIsEarned
  <2>1. rvd'.result = "newer" /\ rvd.result \in {"same", "newer"}
    BY <1>5, <1>9
  <2>2. motionLog.raws >= machine.debounce
    BY <2>1, <1>10
  <2>3. Unread' = IF raw THEN 1 ELSE 0
    BY <2>1, <1>5 DEF Unread
  <2> QED
    BY <2>2, <2>3, <1>1, <1>2, <1>4
<1> QED
  BY <1>7, <1>8, <1>12, <1>13 DEF MotionInv

(* The poller's side is left alone and the detector has no new result: a    *)
(* restart leaves none, the other changes leave it as it is.               *)
LEMMA DetectorKeeps ==
    ASSUME MotionInv, rvd' \in Detectors, motionLeft' \in Bounds, update' \in Changes,
           UNCHANGED <<machine, poller, runtime>>,
           \/ rvd'.result = "none" /\ motionLog' = [motionLog EXCEPT !.raws = 0]
           \/ /\ rvd'.result = rvd.result /\ rvd'.raw = rvd.raw
              /\ motionLog' = motionLog
    PROVE  MotionInv'
<1>1. motionLog \in Logs /\ 0 \in 0..(MaxDebounce + 1)
  BY MotionTypes, Bounded DEF MotionInv
<1>2. /\ motionLog' \in Logs /\ motionLog'.announced = motionLog.announced
      /\ motionLog'.excused = motionLog.excused
  BY <1>1 DEF Logs
<1>3. MotionTypeOK'
  BY <1>2, MotionTypes DEF MotionInv
<1>4. LevelIsAnnounced'
  BY <1>2 DEF MotionInv, LevelIsAnnounced
<1>5. CountIsFresh' /\ CountIsEarned'
  BY DEF MotionInv, CountIsFresh, CountIsEarned, Unread
<1> QED
  BY <1>3, <1>4, <1>5 DEF MotionInv

(* A configuration is read: nothing but the poller's place moves.          *)
LEMMA ReadKeeps ==
    ASSUME MotionInv, load_config \/ reload_config
    PROVE  MotionInv'
<1>1. rvd \in Detectors /\ poller \in Pollers /\ rvd.config \in Configs
  BY MotionTypes DEF MotionInv, Detectors
<1>2. UNCHANGED <<rvd, machine, runtime, update, motionLog, motionLeft>>
  BY DEF load_config, reload_config
<1>3. /\ poller' \in Pollers /\ poller'.known = poller.known
      /\ poller'.resetting = poller.resetting
      /\ \/ poller'.pc = "adopt" /\ poller.pc = "load"
         \/ poller'.pc = "readopt"
  <2>1. Read /\ poller.pc \in {"load", "reload"}
    BY DEF load_config, reload_config
  <2>2. poller' = [poller EXCEPT !.read = rvd.config,
                                 !.pc = IF poller.pc = "load" THEN "adopt" ELSE "readopt"]
    BY <2>1 DEF Read
  <2>3. CASE poller.pc = "load"
    BY <1>1, <2>2, <2>3 DEF Pollers
  <2>4. CASE poller.pc = "reload"
    BY <1>1, <2>2, <2>4 DEF Pollers
  <2> QED
    BY <2>1, <2>3, <2>4
<1>4. MotionTypeOK'
  BY <1>2, <1>3, MotionTypes DEF MotionInv
<1>5. LevelIsAnnounced' /\ CountIsFresh' /\ CountIsEarned'
  BY <1>2, <1>3 DEF MotionInv, LevelIsAnnounced, CountIsFresh, CountIsEarned, Unread
<1> QED
  BY <1>4, <1>5 DEF MotionInv

(* A poll that fails, or that brings nothing: a poll later.                *)
LEMMA FailureKeeps ==
    ASSUME MotionInv, load_fails \/ poll_nothing \/ reload_fails
    PROVE  MotionInv'
<1>1. /\ machine \in Machines /\ poller \in Pollers /\ runtime \in Levels
      /\ motionLeft \in Bounds
  BY MotionTypes DEF MotionInv
<1>2. /\ UNCHANGED <<rvd, update, motionLog>> /\ machine' = Elapse(machine)
      /\ runtime' = [runtime EXCEPT !.available = FALSE]
  BY DEF load_fails, poll_nothing, reload_fails
<1>3. motionLeft' \in Bounds
  BY <1>1, CostsKeep DEF load_fails, poll_nothing, reload_fails
<1>4. /\ machine' \in Machines /\ machine'.active = machine.active
      /\ machine'.debounce = machine.debounce
  BY <1>1, <1>2, ElapseKeeps
<1>5. runtime' \in Levels /\ runtime'.active = runtime.active
  BY <1>1, <1>2 DEF Levels
<1>6. /\ poller' \in Pollers /\ poller'.known = poller.known
      /\ \/ poller'.pc = poller.pc /\ poller'.resetting = poller.resetting
         \/ poller'.pc = "load" /\ poller'.resetting
  <2>1. CASE load_fails
    BY <1>1, <2>1, WaitKeeps DEF load_fails
  <2>2. CASE poll_nothing
    BY <1>1, <2>2, WaitKeeps DEF poll_nothing
  <2>3. CASE reload_fails
    <3> DEFINE p == [poller EXCEPT !.resetting = TRUE]
    <3>1. p \in Pollers /\ p.resetting /\ p.known = poller.known
      BY <1>1 DEF Pollers
    <3>2. poller' = WaitThen("load", p)
      BY <2>3 DEF reload_fails
    <3> HIDE DEF p
    <3> QED
      BY <3>1, <3>2, WaitKeeps
  <2> QED
    BY <2>1, <2>2, <2>3
<1>7. MotionTypeOK'
  BY <1>2, <1>3, <1>4, <1>5, <1>6, MotionTypes DEF MotionInv
<1>8. LevelIsAnnounced'
  BY <1>2, <1>4, <1>5 DEF MotionInv, LevelIsAnnounced
<1>9. CountIsFresh' /\ CountIsEarned'
  BY <1>2, <1>4, <1>6 DEF MotionInv, CountIsFresh, CountIsEarned, Unread
<1> QED
  BY <1>7, <1>8, <1>9 DEF MotionInv

(* A new machine has counted nothing and is not active.                    *)
LEMMA FreshKeeps ==
    ASSUME NEW c \in Configs
    PROVE  Fresh(c) \in Machines /\ ~Fresh(c).active /\ Fresh(c).debounce = 0
<1>1. 0 \in 0..MaxDebounce /\ 0 \in 0..MaxCooldown
  BY Bounded
<1> QED
  BY <1>1 DEF Fresh, Machines

(* A machine that is thrown away takes the announcement's meaning with it.  *)
LEMMA AdoptedKeeps ==
    ASSUME motionLog \in Logs, NEW reset \in BOOLEAN
    PROVE  /\ Adopted(motionLog, reset) \in Logs
           /\ Adopted(motionLog, reset).announced = motionLog.announced
           /\ Adopted(motionLog, reset).raws = motionLog.raws
           /\ Adopted(motionLog, reset).excused <=>
                motionLog.excused \/ (reset /\ motionLog.announced)
BY DEF Adopted, Logs

(* The configuration is adopted, by a machine that is kept or by a new one. *)
LEMMA AdoptKeeps ==
    ASSUME MotionInv, adopt_config
    PROVE  MotionInv'
<1>1. /\ machine \in Machines /\ poller \in Pollers /\ motionLog \in Logs
      /\ poller.read \in Configs /\ poller.resetting \in BOOLEAN
      /\ motionLog.raws \in Nat /\ rvd \in Detectors
  BY MotionTypes, Bounded DEF MotionInv, Pollers, Logs
<1>2. /\ UNCHANGED <<rvd, runtime, update, motionLeft>>
      /\ motionLog' = Adopted(motionLog, poller.resetting)
  BY DEF adopt_config
<1>3. /\ machine' \in Machines
      /\ poller.resetting => ~machine'.active /\ machine'.debounce = 0
      /\ ~poller.resetting => /\ machine'.active = machine.active
                              /\ machine'.debounce = machine.debounce
  <2>1. CASE poller.resetting
    BY <1>1, <2>1, FreshKeeps DEF adopt_config
  <2>2. CASE ~poller.resetting
    BY <1>1, <2>2 DEF adopt_config, Machines
  <2> QED
    BY <2>1, <2>2
<1>4. poller' \in Pollers /\ poller'.pc = "poll" /\ poller'.known = poller.known
  <2>1. 0 \in 0..MaxInit
    BY Bounded
  <2> QED
    BY <1>1, <2>1 DEF adopt_config, Pollers
<1>5. MotionTypeOK'
  BY <1>1, <1>2, <1>3, <1>4, MotionTypes, AdoptedKeeps DEF MotionInv
<1>6. LevelIsAnnounced'
  <2>1. /\ motionLog'.announced = motionLog.announced
        /\ motionLog'.excused <=> motionLog.excused \/ (poller.resetting /\ motionLog.announced)
    BY <1>1, <1>2, AdoptedKeeps
  <2> QED
    BY <2>1, <1>2, <1>3 DEF MotionInv, LevelIsAnnounced
<1>7. motionLog'.raws = motionLog.raws
  BY <1>1, <1>2, AdoptedKeeps
<1>8. CountIsFresh'
  BY <1>2, <1>3, <1>4, <1>7 DEF MotionInv, CountIsFresh
<1>9. CountIsEarned'
  <2> SUFFICES ASSUME poller'.known, rvd.result \in {"same", "newer"}
               PROVE  motionLog.raws >= machine'.debounce + Unread
    BY <1>2, <1>4, <1>7 DEF CountIsEarned, Unread
  <2>1. poller.resetting
    BY <1>4 DEF MotionInv, CountIsFresh, adopt_config
  <2>2. Unread \in Nat /\ motionLog.raws >= Unread
    BY <1>1 DEF MotionInv, CountIsFresh, Unread
  <2> QED
    BY <1>3, <2>1, <2>2
<1> QED
  BY <1>5, <1>6, <1>8, <1>9 DEF MotionInv

(* A producer that was restarted is met with a new machine.                *)
LEMMA ResetKeeps ==
    ASSUME MotionInv, reset_for_producer
    PROVE  MotionInv'
<1>1. /\ poller \in Pollers /\ motionLog \in Logs /\ rvd \in Detectors
      /\ poller.read \in Configs /\ poller.monitoring \in BOOLEAN /\ motionLog.raws \in Nat
  BY MotionTypes, Bounded DEF MotionInv, Pollers, Logs
<1>2. /\ UNCHANGED <<rvd, update, motionLeft>> /\ motionLog' = Adopted(motionLog, TRUE)
      /\ machine' = Elapse(Fresh(poller.read))
      /\ runtime' = [available |-> FALSE, monitoring |-> poller.monitoring, active |-> FALSE]
  BY DEF reset_for_producer
<1>3. machine' \in Machines /\ ~machine'.active /\ machine'.debounce = 0
  BY <1>1, <1>2, FreshKeeps, ElapseKeeps
<1>4. runtime' \in Levels /\ ~runtime'.active
  BY <1>1, <1>2 DEF Levels
<1>5. poller' \in Pollers /\ poller'.pc = "poll"
  <2> DEFINE p == [poller EXCEPT !.since = 0]
  <2>1. p \in Pollers
    BY <1>1, Bounded DEF Pollers
  <2>2. poller' = WaitThen("poll", p)
    BY DEF reset_for_producer
  <2> HIDE DEF p
  <2> QED
    BY <2>1, <2>2, WaitKeeps
<1>6. /\ motionLog' \in Logs /\ motionLog'.raws = motionLog.raws
      /\ motionLog'.announced = motionLog.announced
      /\ motionLog'.excused <=> motionLog.excused \/ motionLog.announced
  BY <1>1, <1>2, AdoptedKeeps
<1>7. MotionTypeOK'
  BY <1>2, <1>3, <1>4, <1>5, <1>6, MotionTypes DEF MotionInv
<1>8. LevelIsAnnounced'
  BY <1>3, <1>4, <1>6 DEF LevelIsAnnounced
<1>9. CountIsFresh'
  BY <1>2, <1>3, <1>5, <1>6 DEF MotionInv, CountIsFresh
<1>10. CountIsEarned'
  <2>1. Unread' = Unread /\ Unread \in Nat /\ motionLog.raws >= Unread
    BY <1>1, <1>2 DEF MotionInv, CountIsFresh, Unread
  <2> QED
    BY <1>3, <1>6, <2>1 DEF CountIsEarned
<1> QED
  BY <1>7, <1>8, <1>9, <1>10 DEF MotionInv

(* A poll takes in the identity of the result it reads: it is not new any   *)
(* more.                                                                   *)
LEMMA TakenKeeps ==
    ASSUME rvd \in Detectors, NEW known \in BOOLEAN
    PROVE  /\ Taken(known) \in Detectors
           /\ Taken(known).result = IF rvd.result = "none" THEN "none"
                                    ELSE IF known THEN "same" ELSE "other"
BY DEF Taken, Detectors

(* A producer that was restarted is noticed by its identity.               *)
LEMMA OtherProducerKeeps ==
    ASSUME MotionInv, poll_other_producer
    PROVE  MotionInv'
<1>1. /\ poller \in Pollers /\ motionLog \in Logs /\ rvd \in Detectors
      /\ rvd.active \in BOOLEAN /\ 0 \in 0..(MaxDebounce + 1)
  BY MotionTypes, Bounded DEF MotionInv, Detectors
<1>2. /\ UNCHANGED <<machine, runtime, update, motionLeft>> /\ rvd' = Taken(TRUE)
      /\ motionLog' = [motionLog EXCEPT !.raws = 0]
  BY DEF poll_other_producer, Coherent, Free
<1>3. poller' \in Pollers /\ poller'.pc = "reload" /\ poller'.known = poller.known
  BY <1>1 DEF poll_other_producer, Pollers
<1>4. rvd' \in Detectors /\ rvd'.result # "newer"
  BY <1>1, <1>2, TakenKeeps
<1>5. /\ motionLog' \in Logs /\ motionLog'.announced = motionLog.announced
      /\ motionLog'.excused = motionLog.excused
  BY <1>1, <1>2 DEF Logs
<1>6. MotionTypeOK'
  BY <1>2, <1>3, <1>4, <1>5, MotionTypes DEF MotionInv
<1>7. LevelIsAnnounced' /\ CountIsFresh' /\ CountIsEarned'
  BY <1>2, <1>3, <1>4, <1>5
     DEF MotionInv, LevelIsAnnounced, CountIsFresh, CountIsEarned
<1> QED
  BY <1>6, <1>7 DEF MotionInv

(* A poll that finds no new result counts nothing.                         *)
LEMMA NoSampleKeeps ==
    ASSUME MotionInv, poll_no_sample
    PROVE  MotionInv'
<1>1. /\ machine \in Machines /\ poller \in Pollers /\ motionLog \in Logs
      /\ rvd \in Detectors /\ runtime \in Levels /\ machine.debounce \in Nat
      /\ motionLog.raws \in Nat
  BY MotionTypes, Bounded DEF MotionInv, Logs, Machines
<1>2. /\ UNCHANGED <<update, motionLeft>> /\ rvd' = Taken(TRUE) /\ machine' = Elapse(machine)
      /\ motionLog' = IF poller.known THEN motionLog ELSE [motionLog EXCEPT !.raws = 0]
      /\ poller.pc = "poll" /\ ~ProducerChanged /\ ~NewSample
  BY DEF poll_no_sample, Coherent, Free
<1>3. /\ poller' \in Pollers /\ poller'.pc = "poll" /\ poller'.resetting = poller.resetting
      /\ poller'.known <=> poller.known \/ rvd.result # "none"
  <2> DEFINE p == [poller EXCEPT !.known = poller.known \/ rvd.result # "none"]
  <2>1. /\ p \in Pollers /\ p.resetting = poller.resetting
        /\ p.known <=> poller.known \/ rvd.result # "none"
    BY <1>1 DEF Pollers
  <2>2. poller' = WaitThen("poll", p)
    BY DEF poll_no_sample
  <2> HIDE DEF p
  <2> QED
    BY <2>1, <2>2, WaitKeeps
<1>4. rvd' \in Detectors /\ rvd'.result = IF rvd.result = "none" THEN "none" ELSE "same"
  BY <1>1, <1>2, TakenKeeps
<1>5. /\ machine' \in Machines /\ machine'.active = machine.active
      /\ machine'.debounce = machine.debounce
  BY <1>1, <1>2, ElapseKeeps
<1>6. runtime' \in Levels /\ runtime'.active = runtime.active
  BY <1>1 DEF poll_no_sample, Levels, Pollers
<1>7. /\ motionLog' \in Logs /\ motionLog'.announced = motionLog.announced
      /\ motionLog'.excused = motionLog.excused
      /\ motionLog'.raws = IF poller.known THEN motionLog.raws ELSE 0
  <2>1. 0 \in 0..(MaxDebounce + 1)
    BY Bounded
  <2> QED
    BY <1>1, <1>2, <2>1 DEF Logs
<1>8. MotionTypeOK'
  BY <1>2, <1>3, <1>4, <1>5, <1>6, <1>7, MotionTypes DEF MotionInv
<1>9. LevelIsAnnounced'
  BY <1>5, <1>6, <1>7 DEF MotionInv, LevelIsAnnounced
<1>10. CountIsFresh'
  BY <1>3, <1>4, <1>5 DEF MotionInv, CountIsFresh
<1>11. CountIsEarned'
  <2> SUFFICES ASSUME poller'.known, rvd'.result \in {"same", "newer"}
               PROVE  motionLog'.raws >= machine'.debounce + Unread'
    BY DEF CountIsEarned
  <2>1. rvd.result # "none" /\ Unread' = 0
    BY <1>4 DEF Unread
  <2>2. CASE poller.known
    <3>1. rvd.result = "same"
      BY <1>1, <1>2, <2>1, <2>2 DEF ProducerChanged, NewSample, Detectors
    <3>2. motionLog.raws >= machine.debounce + Unread /\ Unread = 0
      BY <1>2, <2>2, <3>1 DEF MotionInv, CountIsEarned, Unread
    <3> QED
      BY <1>1, <1>5, <1>7, <2>1, <2>2, <3>2
  <2>3. CASE ~poller.known
    BY <1>5, <1>7, <2>1, <2>3 DEF MotionInv, CountIsFresh
  <2> QED
    BY <2>2, <2>3
<1> QED
  BY <1>8, <1>9, <1>10, <1>11 DEF MotionInv

(* What an observation publishes is what the machine says after it.        *)
LEMMA PublishedKeeps ==
    ASSUME NEW log \in Logs, NEW before \in BOOLEAN, NEW after \in BOOLEAN
    PROVE  /\ Published(log, before, after) \in Logs
           /\ Published(log, before, after).raws = log.raws
           /\ before = after => Published(log, before, after) = log
           /\ before # after => /\ Published(log, before, after).announced = after
                                /\ ~Published(log, before, after).excused
BY DEF Published, Logs

(* A poll that brings an observation: a result that the poller has not seen *)
(* or the end of the monitoring.  What is counted has been produced, and    *)
(* what becomes active has been counted.                                   *)
LEMMA SampleKeeps ==
    ASSUME MotionInv, poll_sample
    PROVE  /\ MotionInv'
           /\ ~motionLog.announced /\ motionLog'.announced
                => motionLog.raws >= machine.config.debounce /\ motionLog.raws > 0
<1> DEFINE observation == IF ~rvd.active THEN "stopped" ELSE IF rvd.raw THEN "detected" ELSE "clear"
           starts  == rvd.active /\ ~poller.monitoring
           since   == IF starts THEN 0 ELSE poller.since
           before  == IF starts /\ machine.session = "current"
                      THEN [machine EXCEPT !.session = "old"] ELSE machine
           after   == Apply(before, observation, since)
           known   == rvd.result # "none"
           log     == IF observation = "detected" THEN motionLog
                      ELSE [motionLog EXCEPT !.raws = 0]
<1>1. /\ machine \in Machines /\ poller \in Pollers /\ motionLog \in Logs
      /\ rvd \in Detectors /\ machine.debounce \in Nat /\ motionLog.raws \in Nat
      /\ poller.since \in Nat /\ poller.since \in 0..MaxInit /\ 0 \in 0..MaxInit
      /\ 0 \in 0..(MaxDebounce + 1) /\ machine.config.debounce \in Nat
  <2>1. machine \in Machines /\ poller \in Pollers /\ motionLog \in Logs /\ rvd \in Detectors
    BY MotionTypes DEF MotionInv
  <2>2. machine.config.debounce \in Nat /\ machine.debounce \in Nat
    BY <2>1, Bounded DEF Machines
  <2>3. poller.since \in Nat /\ poller.since \in 0..MaxInit /\ 0 \in 0..MaxInit
    BY <2>1, Bounded DEF Pollers
  <2>4. motionLog.raws \in Nat /\ 0 \in 0..(MaxDebounce + 1)
    BY <2>1, Bounded DEF Logs
  <2> QED
    BY <2>1, <2>2, <2>3, <2>4
<1>2. /\ UNCHANGED <<update, motionLeft>> /\ poller.pc = "poll"
      /\ ~ProducerChanged /\ (rvd.active => NewSample)
      /\ machine' = Elapse(after) /\ rvd' = Taken(known)
      /\ poller' = WaitThen("poll", [poller EXCEPT !.known = known, !.awaiting = FALSE,
                                        !.monitoring = rvd.active, !.since = since])
      /\ runtime' = [available |-> TRUE, monitoring |-> rvd.active, active |-> after.active]
      /\ motionLog' = Published(log, machine.active, after.active)
  BY DEF poll_sample, Coherent, Free
<1>3. /\ observation \in {"stopped", "detected", "clear"} /\ since \in Nat
      /\ since \in 0..MaxInit /\ known \in BOOLEAN /\ rvd.active \in BOOLEAN
  BY <1>1 DEF Detectors
<1>4. /\ before \in Machines /\ before.active = machine.active
      /\ before.debounce = machine.debounce /\ before.config = machine.config
  BY <1>1 DEF Machines
<1>5. observation = "detected" =>
        /\ rvd.active /\ rvd.raw /\ known /\ NewSample
        /\ motionLog.raws >= machine.debounce + 1
  <2> SUFFICES ASSUME observation = "detected"
               PROVE  /\ rvd.active /\ rvd.raw /\ known /\ NewSample
                      /\ motionLog.raws >= machine.debounce + 1
    OBVIOUS
  <2>1. rvd.active /\ rvd.raw
    BY <1>1 DEF Detectors
  <2>2. NewSample /\ known
    BY <1>2, <2>1 DEF NewSample
  <2>3. Unread = 1
    BY <2>1, <2>2 DEF NewSample, Unread
  <2> QED
    BY <1>2, <2>1, <2>2, <2>3 DEF MotionInv, CountIsEarned, NewSample
<1>6. (rvd.result = "newer" \/ rvd.result = "same" \/ rvd.result = "other") <=> known
  BY <1>1 DEF Detectors
<1>7. /\ log \in Logs /\ log.announced = motionLog.announced /\ log.excused = motionLog.excused
      /\ log.raws = IF observation = "detected" THEN motionLog.raws ELSE 0
  BY <1>1 DEF Logs
<1>8. rvd.active => known
  BY <1>2 DEF NewSample
<1> HIDE DEF observation, since, before, log, known
<1>9. /\ after \in Machines
      /\ observation # "detected" => after.debounce = 0
      /\ after.debounce <= machine.debounce + 1
      /\ ~machine.active /\ after.active
           => observation = "detected" /\ machine.debounce + 1 >= machine.config.debounce
  <2>1. before \in Machines
    BY <1>4
  <2>2. /\ after \in Machines
        /\ observation # "detected" => after.debounce = 0
        /\ after.debounce <= before.debounce + 1
        /\ ~before.active /\ after.active
             => observation = "detected" /\ before.debounce + 1 >= before.config.debounce
    <3>1. observation \in {"stopped", "detected", "clear"} /\ since \in Nat
      BY <1>3
    <3>2. after \in Machines
      BY <2>1, <3>1, ApplyKeeps
    <3>3. after.debounce \in Int /\ before.debounce \in Int /\ before.config.debounce \in Int
      BY <2>1, <3>2, Bounded DEF Machines
    <3>4. observation # "detected" => after.debounce = 0
      <4> SUFFICES ASSUME observation # "detected" PROVE after.debounce = 0
        OBVIOUS
      <4>1. observation \in {"stopped", "clear"}
        BY <3>1
      <4> QED
        BY <2>1, <3>1, <4>1, ForgetsItsCount
    <3>5. after.debounce <= before.debounce + 1
      BY <2>1, <3>1, <3>3, ApplyKeeps
    <3>6. ~before.active /\ after.active
             => observation = "detected" /\ before.debounce + 1 >= before.config.debounce
      BY <2>1, <3>1, <3>3, ApplyKeeps
    <3> QED
      BY <3>2, <3>4, <3>5, <3>6
  <2> HIDE DEF after
  <2> QED
    BY <1>4, <2>2
<1>10. after.active \in BOOLEAN /\ after.debounce \in Nat /\ machine.active \in BOOLEAN
  BY <1>1, <1>9, Bounded DEF Machines
<1> HIDE DEF after
<1>11. /\ machine' \in Machines /\ machine'.active = after.active
       /\ machine'.debounce = after.debounce
  BY <1>2, <1>9, ElapseKeeps
<1>12. rvd' \in Detectors /\ rvd'.result = IF known THEN "same" ELSE "none"
  <2>1. rvd' \in Detectors
    BY <1>1, <1>2, <1>3, TakenKeeps
  <2>2. rvd'.result = IF rvd.result = "none" THEN "none" ELSE IF known THEN "same" ELSE "other"
    BY <1>1, <1>2, <1>3, TakenKeeps
  <2> QED
    BY <2>1, <2>2 DEF known
<1>13. poller' \in Pollers /\ poller'.pc = "poll" /\ poller'.known = known
       /\ poller'.resetting = poller.resetting
  <2> DEFINE p == [poller EXCEPT !.known = known, !.awaiting = FALSE,
                                 !.monitoring = rvd.active, !.since = since]
  <2>1. p \in Pollers /\ p.known = known /\ p.resetting = poller.resetting
    BY <1>1, <1>3 DEF Pollers
  <2>2. poller' = WaitThen("poll", p)
    BY <1>2
  <2> HIDE DEF p
  <2> QED
    BY <2>1, <2>2, WaitKeeps
<1>14. runtime' \in Levels /\ runtime'.active = after.active
  BY <1>2, <1>3, <1>10 DEF Levels
<1>15. /\ motionLog' \in Logs /\ motionLog'.raws = log.raws
       /\ machine.active = after.active => motionLog' = log
       /\ machine.active # after.active => motionLog'.announced = after.active
  BY <1>2, <1>7, <1>10, PublishedKeeps
<1>16. MotionTypeOK'
  BY <1>2, <1>11, <1>12, <1>13, <1>14, <1>15, MotionTypes DEF MotionInv
<1>17. LevelIsAnnounced'
  <2>1. CASE machine.active = after.active
    BY <1>7, <1>11, <1>14, <1>15, <2>1 DEF MotionInv, LevelIsAnnounced
  <2>2. CASE machine.active # after.active
    BY <1>11, <1>14, <1>15, <2>2 DEF LevelIsAnnounced
  <2> QED
    BY <2>1, <2>2
<1>18. ~known => after.debounce = 0
  BY <1>3, <1>5, <1>9
<1>19. CountIsFresh'
  BY <1>11, <1>12, <1>13, <1>18 DEF CountIsFresh
<1>20. CountIsEarned'
  <2>1. Unread' = 0
    BY <1>12 DEF Unread
  <2>2. motionLog'.raws >= after.debounce
    <3>1. CASE observation = "detected"
      <4>1. motionLog'.raws = motionLog.raws
        BY <1>7, <1>15, <3>1
      <4>2. motionLog.raws >= machine.debounce + 1 /\ after.debounce <= machine.debounce + 1
        BY <1>5, <1>9, <3>1
      <4> QED
        BY <1>1, <1>10, <4>1, <4>2
    <3>2. CASE observation # "detected"
      BY <1>7, <1>9, <1>15, <3>2
    <3> QED
      BY <3>1, <3>2
  <2> QED
    BY <1>10, <1>11, <2>1, <2>2 DEF CountIsEarned
<1>21. ~motionLog.announced /\ motionLog'.announced
         => motionLog.raws >= machine.config.debounce /\ motionLog.raws > 0
  <2> SUFFICES ASSUME ~motionLog.announced, motionLog'.announced
               PROVE  motionLog.raws >= machine.config.debounce /\ motionLog.raws > 0
    OBVIOUS
  <2>1. machine.active # after.active
    BY <1>7, <1>15 DEF Logs
  <2>2. after.active /\ ~machine.active
    BY <1>10, <1>15, <2>1
  <2>3. observation = "detected" /\ machine.debounce + 1 >= machine.config.debounce
    BY <1>9, <2>2
  <2>4. motionLog.raws >= machine.debounce + 1
    BY <1>5, <2>3
  <2> QED
    BY <1>1, <2>3, <2>4
<1> QED
  BY <1>16, <1>17, <1>19, <1>20, <1>21 DEF MotionInv

(* A command of the user switches the detector or leaves it as it is.      *)
LEMMA CommandKeeps ==
    ASSUME MotionInv, NEW on \in BOOLEAN, Command(on), update' \in Changes,
           motionLeft' \in Bounds, UNCHANGED <<machine, poller, runtime>>
    PROVE  MotionInv'
<1>1. rvd \in Detectors /\ rvd.active \in BOOLEAN
  BY MotionTypes DEF MotionInv, Detectors
<1>2. CASE rvd.active = on
  BY <1>1, <1>2, DetectorKeeps DEF Command
<1>3. CASE rvd.active # on
  <2>1. rvd' = Switched(rvd, on) /\ rvd' \in Detectors
    BY <1>1, <1>3, SwitchedKeeps DEF Command
  <2>2. CASE on
    BY <1>1, <1>3, <2>1, <2>2, SwitchedKeeps, DetectorKeeps DEF Command
  <2>3. CASE ~on
    BY <1>1, <1>3, <2>1, <2>3, SwitchedKeeps, DetectorKeeps DEF Command
  <2> QED
    BY <2>2, <2>3
<1> QED
  BY <1>2, <1>3

(* An update changes what RVD is configured with, and the configuration of  *)
(* a machine that keeps its count.                                         *)
LEMMA UpdateKeeps ==
    ASSUME MotionInv, MotionUpdate
    PROVE  MotionInv'
<1>1. /\ rvd \in Detectors /\ machine \in Machines /\ poller \in Pollers
      /\ runtime \in Levels /\ update \in Changes /\ motionLog \in Logs
      /\ motionLeft \in Bounds /\ update.config \in Configs /\ update.enabled \in BOOLEAN
  BY MotionTypes DEF MotionInv, Changes
<1>2. Refused => update' \in Changes
  BY <1>1 DEF Refused, Changes
<1>3. CASE update_lifecycle
  <2>1. /\ rvd' \in Detectors /\ rvd'.result = rvd.result /\ rvd'.raw = rvd.raw
    BY <1>1, <1>3 DEF update_lifecycle, Detectors
  <2>2. update' \in Changes
    BY <1>1, <1>2, <1>3 DEF update_lifecycle, Changes
  <2>3. motionLeft' \in Bounds
    BY <1>1, <1>3, CostsKeep DEF update_lifecycle
  <2> QED
    BY <1>3, <2>1, <2>2, <2>3, DetectorKeeps DEF update_lifecycle
<1>4. CASE update_readback
  <2>1. UNCHANGED <<rvd, poller, runtime, motionLog, motionLeft>>
    BY <1>4 DEF update_readback
  <2>2. update' \in Changes
    BY <1>1, <1>2, <1>4 DEF update_readback, Changes
  <2>3. /\ machine' \in Machines /\ machine'.active = machine.active
        /\ machine'.debounce = machine.debounce
    BY <1>1, <1>4 DEF update_readback, Machines
  <2>4. MotionTypeOK'
    BY <1>1, <2>1, <2>2, <2>3, MotionTypes
  <2>5. LevelIsAnnounced' /\ CountIsFresh' /\ CountIsEarned'
    BY <2>1, <2>3 DEF MotionInv, LevelIsAnnounced, CountIsFresh, CountIsEarned, Unread
  <2> QED
    BY <2>4, <2>5 DEF MotionInv
<1>5. CASE update_save
  <2>1. /\ rvd' \in Detectors /\ rvd'.result = rvd.result /\ rvd'.raw = rvd.raw
    BY <1>1, <1>5 DEF update_save, Detectors
  <2>2. update' \in Changes
    BY <1>2, <1>5 DEF update_save
  <2>3. motionLeft' \in Bounds
    BY <1>1, <1>5, CostsKeep DEF update_save
  <2> QED
    BY <1>5, <2>1, <2>2, <2>3, DetectorKeeps DEF update_save
<1> QED
  BY <1>3, <1>4, <1>5 DEF MotionUpdate

(* What starts and stops the detector does not touch the poller's side.    *)
LEMMA DetectorStepKeeps ==
    ASSUME MotionInv,
           \/ RvdRestarts \/ DetectorPauses \/ DetectorResumes
           \/ \E on \in BOOLEAN : live_motion(on) \/ \E c \in Configs : update_enable(on, c)
    PROVE  MotionInv'
<1>1. /\ rvd \in Detectors /\ update \in Changes /\ motionLeft \in Bounds
      /\ rvd.enabled \in BOOLEAN /\ rvd.saved \in Configs
  BY MotionTypes DEF MotionInv, Detectors
<1>2. CASE RvdRestarts
  <2>1. Switched(rvd, rvd.enabled) \in Detectors
    BY <1>1, SwitchedKeeps
  <2>2. rvd' \in Detectors /\ rvd'.result = "none"
    BY <1>1, <1>2, <2>1 DEF RvdRestarts, Detectors
  <2>3. motionLeft' \in Bounds
    BY <1>1, <1>2, CostsKeep DEF RvdRestarts
  <2> QED
    BY <1>1, <1>2, <2>2, <2>3, DetectorKeeps DEF RvdRestarts
<1>3. CASE DetectorPauses
  <2>1. rvd' \in Detectors /\ rvd'.result = rvd.result /\ rvd'.raw = rvd.raw
    BY <1>1, <1>3 DEF DetectorPauses, Detectors
  <2>2. motionLeft' \in Bounds
    BY <1>1, <1>3, CostsKeep DEF DetectorPauses
  <2> QED
    BY <1>1, <1>3, <2>1, <2>2, DetectorKeeps DEF DetectorPauses
<1>4. CASE DetectorResumes
  <2>1. rvd' \in Detectors /\ rvd'.result = "none"
    BY <1>1, <1>4, SwitchedKeeps DEF DetectorResumes
  <2> QED
    BY <1>1, <1>4, <2>1, DetectorKeeps DEF DetectorResumes
<1>5. ASSUME NEW on \in BOOLEAN, live_motion(on)
      PROVE  MotionInv'
  <2>1. motionLeft' \in Bounds
    BY <1>1, <1>5, CostsKeep DEF live_motion
  <2> QED
    BY <1>1, <1>5, <2>1, CommandKeeps DEF live_motion
<1>6. ASSUME NEW on \in BOOLEAN, NEW c \in Configs, update_enable(on, c)
      PROVE  MotionInv'
  <2>1. motionLeft' \in Bounds
    BY <1>1, <1>6, CostsKeep DEF update_enable
  <2>2. update' \in Changes
    BY <1>6 DEF update_enable, Changes
  <2> QED
    BY <1>6, <2>1, <2>2, CommandKeeps DEF update_enable
<1> QED
  BY <1>2, <1>3, <1>4, <1>5, <1>6

(* What may become active in a step is what has been counted: only the      *)
(* poll of a result announces motion.                                      *)
Earns == ~motionLog.announced /\ motionLog'.announced
           => motionLog.raws >= machine.config.debounce /\ motionLog.raws > 0

(* Every step of the poller and of what is around it keeps the invariant.   *)
LEMMA MotionStepKeeps ==
    ASSUME MotionInv, [MotionNext]_motionVars
    PROVE  MotionInv' /\ Earns
<1>1. motionLog \in Logs /\ poller.resetting \in BOOLEAN
  BY MotionTypes DEF MotionInv, Pollers
<1>2. CASE UNCHANGED motionVars
  <2>1. MotionTypeOK'
    BY <1>2, MotionTypes DEF MotionInv, motionVars
  <2>2. LevelIsAnnounced' /\ CountIsFresh' /\ CountIsEarned' /\ Earns
    BY <1>2 DEF motionVars, MotionInv, LevelIsAnnounced, CountIsFresh, CountIsEarned, Unread, Earns
  <2> QED
    BY <2>1, <2>2 DEF MotionInv
<1>3. CASE poll_sample
  BY <1>3, SampleKeeps DEF Earns
<1>4. CASE MotionPoll /\ ~poll_sample
  <2>1. CASE load_config \/ reload_config
    BY <2>1, ReadKeeps DEF load_config, reload_config, Earns
  <2>2. CASE load_fails \/ poll_nothing \/ reload_fails
    BY <2>2, FailureKeeps DEF load_fails, poll_nothing, reload_fails, Earns
  <2>3. CASE adopt_config
    BY <1>1, <2>3, AdoptKeeps, AdoptedKeeps DEF adopt_config, Earns
  <2>4. CASE reset_for_producer
    BY <1>1, <2>4, ResetKeeps, AdoptedKeeps DEF reset_for_producer, Earns
  <2>5. CASE poll_other_producer
    BY <1>1, <2>5, OtherProducerKeeps DEF poll_other_producer, Earns, Logs
  <2>6. CASE poll_no_sample
    BY <1>1, <2>6, NoSampleKeeps DEF poll_no_sample, Earns, Logs
  <2> QED
    BY <1>4, <2>1, <2>2, <2>3, <2>4, <2>5, <2>6 DEF MotionPoll
<1>5. CASE MotionUpdate
  BY <1>5, UpdateKeeps DEF MotionUpdate, update_lifecycle, update_readback, update_save, Earns
<1>6. CASE \E on \in BOOLEAN : live_motion(on) \/ \E c \in Configs : update_enable(on, c)
  BY <1>1, <1>6, DetectorStepKeeps DEF live_motion, update_enable, Command, Earns, Logs
<1>7. CASE \E raw \in BOOLEAN : NewResult(raw)
  BY <1>1, <1>7, NewResultKeeps DEF NewResult, Earns, Logs
<1>8. CASE RvdRestarts \/ DetectorPauses \/ DetectorResumes
  BY <1>1, <1>8, DetectorStepKeeps DEF RvdRestarts, DetectorPauses, DetectorResumes, Earns, Logs
<1> QED
  BY <1>2, <1>3, <1>4, <1>5, <1>6, <1>7, <1>8 DEF MotionNext

(* motion_lifecycle.rs and motion_state.rs: in every behaviour the poller   *)
(* has counted no result that the producer has not produced, and the level  *)
(* shown and the machine's are the one announced.                          *)
THEOREM MotionInvariance == MotionSpec => []MotionInv
<1>1. MotionInit => MotionInv
  BY MotionInitEstablishes
<1>2. MotionInv /\ [MotionNext]_motionVars => MotionInv'
  BY MotionStepKeeps
<1> QED
  BY <1>1, <1>2, PTL DEF MotionSpec

(* Motion is announced on as many results as the configuration asks for,    *)
(* whatever the configurations, the restarts of RVD and the updates of the  *)
(* user in between.                                                        *)
THEOREM MotionIsEarned == MotionSpec => ActiveIsEarned
<1>1. MotionInv /\ [MotionNext]_motionVars
        => [~motionLog.announced /\ motionLog'.announced
              => motionLog.raws >= machine.config.debounce /\ motionLog.raws > 0]_motionVars
  BY MotionStepKeeps DEF Earns
<1> QED
  BY <1>1, MotionInvariance, PTL DEF MotionSpec, ActiveIsEarned

(***************************************************************************)
(* The thread that acts on the events.                                     *)
(***************************************************************************)

InMotion == {"look", "command", "confirm", "stop_look", "stop_command", "stop_confirm"}
Stopping == {"stop", "stop_look", "stop_command", "stop_confirm"}

Actings == [pc : {"wait", "look", "command", "confirm", "due", "stop",
                  "stop_look", "stop_command", "stop_confirm"},
            owned : BOOLEAN, due : BOOLEAN, generation : 0..MaxViewer, spoke : BOOLEAN]
Viewers == [pc : {"idle", "look", "command", "confirm"}, starts : BOOLEAN]
Budgets == [alerts : 0..MaxAlerts, requests : 0..MaxViewer,
            formats : 0..MaxFormats, failures : 0..MaxActionFailures]

(* Whoever is at work on the recorder has the mutation lock.               *)
LockIsHeld ==
    /\ viewer.pc # "idle" <=> holder = "user"
    /\ acting.pc \in InMotion <=> holder = "motion"
    /\ formatting => holder = "format"

(* The user's generation has moved since motion took the lock by the time   *)
(* the user has it, and not while motion has it.                           *)
GenerationsAgree ==
    /\ acting.generation <= userGeneration
    /\ holder = "user" => acting.generation < userGeneration
    /\ holder = "motion" => acting.generation = userGeneration
    /\ userGeneration + actionLeft.requests <= MaxViewer

(* What makes MotionEndsItsOwn hold: what motion believes to be its own     *)
(* while the user has not asked for anything is, or there is no recording   *)
(* and none to put back after a format.                                    *)
OwnedIsClaimed ==
    /\ acting.pc = "command" => writer = "closed"
    /\ acting.due \/ acting.pc \in Stopping => acting.owned
    /\ (acting.owned \/ acting.pc = "confirm") /\ acting.generation = userGeneration
         => claim = "motion" \/ (writer = "closed" /\ ~formatting)

ActionInv == ActionTypeOK /\ LockIsHeld /\ GenerationsAgree /\ OwnedIsClaimed

-----------------------------------------------------------------------------
(* The type invariant, by its named sets.                                  *)
LEMMA ActionTypes ==
    /\ ActionTypeOK <=>
         /\ alerts \in 0..AlertCapacity /\ acting \in Actings
         /\ holder \in {"none", "motion", "user", "format"}
         /\ userGeneration \in 0..MaxViewer
         /\ writer \in {"closed", "opening", "recording", "closing"}
         /\ viewer \in Viewers /\ formatting \in BOOLEAN
         /\ claim \in {"none", "motion", "user"} /\ actionLeft \in Budgets
    /\ ActionTypeOK' <=>
         /\ alerts' \in 0..AlertCapacity /\ acting' \in Actings
         /\ holder' \in {"none", "motion", "user", "format"}
         /\ userGeneration' \in 0..MaxViewer
         /\ writer' \in {"closed", "opening", "recording", "closing"}
         /\ viewer' \in Viewers /\ formatting' \in BOOLEAN
         /\ claim' \in {"none", "motion", "user"} /\ actionLeft' \in Budgets
BY DEF ActionTypeOK, Actings, Viewers, Budgets

(* The recorder's writer stays what a writer can be.                       *)
LEMMA IntendsKeeps ==
    ASSUME writer \in {"closed", "opening", "recording", "closing"}, NEW on \in BOOLEAN,
           Intends(on)
    PROVE  /\ writer' \in {"closed", "opening", "recording", "closing"}
           /\ ~on /\ writer = "closed" => writer' = "closed"
BY DEF Intends

(* What is left of the bounds stays within them.                           *)
LEMMA SpendsKeeps ==
    ASSUME actionLeft \in Budgets,
           Unspent \/ \E resource \in {"alerts", "formats", "failures"} : Spends(resource)
    PROVE  actionLeft' \in Budgets /\ actionLeft'.requests = actionLeft.requests
<1>1. CASE Unspent
  BY <1>1 DEF Unspent
<1>2. CASE Spends("alerts")
  BY <1>2, AlertCapacityAssumption DEF Spends, Budgets
<1>3. CASE Spends("formats")
  BY <1>3, AlertCapacityAssumption DEF Spends, Budgets
<1>4. CASE Spends("failures")
  BY <1>4, AlertCapacityAssumption DEF Spends, Budgets
<1> QED
  BY <1>1, <1>2, <1>3, <1>4

(* Nothing is owned before the first event.                                *)
LEMMA ActionInitEstablishes == ActionInit => ActionInv
<1> SUFFICES ASSUME ActionInit PROVE ActionInv
  OBVIOUS
<1>1. 0 \in 0..MaxViewer /\ 0 \in 0..AlertCapacity
  BY AlertCapacityAssumption
<1>2. acting \in Actings /\ viewer \in Viewers
  BY <1>1 DEF ActionInit, Actings, Viewers
<1>3. actionLeft \in Budgets /\ actionLeft.requests = MaxViewer
  BY AlertCapacityAssumption DEF ActionInit, Budgets
<1>4. ActionTypeOK
  BY <1>1, <1>2, <1>3, ActionTypes DEF ActionInit
<1>5. LockIsHeld /\ OwnedIsClaimed
  BY DEF ActionInit, LockIsHeld, OwnedIsClaimed, InMotion, Stopping
<1>6. GenerationsAgree
  BY <1>3, AlertCapacityAssumption DEF ActionInit, GenerationsAgree
<1> QED
  BY <1>4, <1>5, <1>6 DEF ActionInv

-----------------------------------------------------------------------------
(* Steps that are not the user's leave the generation where it is, so that  *)
(* what is left of the types and of the generations follows from the step.  *)
LEMMA GenerationsStay ==
    ASSUME ActionInv, userGeneration' = userGeneration, acting'.generation = acting.generation,
           actionLeft'.requests = actionLeft.requests,
           holder' = "user" => holder = "user",
           holder' = "motion" => acting'.generation = userGeneration
    PROVE  GenerationsAgree'
BY DEF ActionInv, GenerationsAgree

(* The recorder's own steps: a writer opens only what was opening.         *)
LEMMA WriterKeeps ==
    ASSUME ActionInv, WriterOpens \/ WriterCloses \/ WriterFails
    PROVE  ActionInv'
<1>1. actionLeft' \in Budgets /\ actionLeft'.requests = actionLeft.requests
  BY SpendsKeeps, ActionTypes DEF ActionInv, WriterOpens, WriterCloses, WriterFails, Unspent
<1>2. /\ UNCHANGED <<alerts, acting, holder, userGeneration, viewer, formatting, claim>>
      /\ writer' \in {"closed", "recording", "closing"} /\ writer # "closed"
  BY DEF WriterOpens, WriterCloses, WriterFails
<1>3. ActionTypeOK'
  BY <1>1, <1>2, ActionTypes DEF ActionInv
<1>4. LockIsHeld' /\ OwnedIsClaimed'
  BY <1>2 DEF ActionInv, LockIsHeld, OwnedIsClaimed
<1>5. GenerationsAgree'
  BY <1>1, <1>2, GenerationsStay DEF ActionInv, GenerationsAgree
<1> QED
  BY <1>3, <1>4, <1>5 DEF ActionInv

(* Events arrive, time passes.                                             *)
LEMMA TimeKeeps ==
    ASSUME ActionInv, try_send_motion \/ stop_at_passes \/ speaker_limit_passes
    PROVE  ActionInv'
<1>1. /\ alerts \in 0..AlertCapacity /\ acting \in Actings /\ actionLeft \in Budgets
  BY ActionTypes DEF ActionInv
<1>2. UNCHANGED <<holder, userGeneration, writer, viewer, formatting, claim>>
  BY DEF try_send_motion, stop_at_passes, speaker_limit_passes
<1>3. actionLeft' \in Budgets /\ actionLeft'.requests = actionLeft.requests
  BY <1>1, SpendsKeeps DEF try_send_motion, stop_at_passes, speaker_limit_passes, Unspent
<1>4. alerts' \in 0..AlertCapacity
  BY <1>1, AlertCapacityAssumption DEF try_send_motion, stop_at_passes, speaker_limit_passes
<1>5. /\ acting' \in Actings /\ acting'.pc = acting.pc /\ acting'.owned = acting.owned
      /\ acting'.generation = acting.generation
      /\ acting'.due => acting.due \/ acting.owned
  BY <1>1 DEF try_send_motion, stop_at_passes, speaker_limit_passes, Actings
<1>6. ActionTypeOK'
  BY <1>2, <1>3, <1>4, <1>5, ActionTypes DEF ActionInv
<1>7. LockIsHeld' /\ OwnedIsClaimed'
  BY <1>2, <1>5 DEF ActionInv, LockIsHeld, OwnedIsClaimed
<1>8. GenerationsAgree'
  BY <1>2, <1>3, <1>5, GenerationsStay DEF ActionInv, GenerationsAgree
<1> QED
  BY <1>6, <1>7, <1>8 DEF ActionInv

(* The format has the lock from the stop to the start, and starts only what *)
(* it has stopped.                                                         *)
LEMMA FormatKeeps ==
    ASSUME ActionInv, format_stops \/ format_restores
    PROVE  ActionInv'
<1>1. /\ actionLeft \in Budgets /\ formatting \in BOOLEAN
      /\ writer \in {"closed", "opening", "recording", "closing"}
  BY ActionTypes DEF ActionInv
<1>2. /\ UNCHANGED <<alerts, acting, userGeneration, viewer, claim>>
      /\ \/ holder = "none" /\ holder' = "format"
         \/ holder = "format" /\ holder' = "none"
  BY DEF format_stops, format_restores, Unlocks
<1>3. actionLeft' \in Budgets /\ actionLeft'.requests = actionLeft.requests
  BY <1>1, SpendsKeeps DEF format_stops, format_restores
<1>4. /\ writer' \in {"closed", "opening", "recording", "closing"} /\ formatting' \in BOOLEAN
      /\ formatting' => holder' = "format"
      /\ writer = "closed" /\ ~formatting => writer' = "closed" /\ ~formatting'
  BY <1>1, IntendsKeeps DEF format_stops, format_restores
<1>5. ActionTypeOK'
  BY <1>2, <1>3, <1>4, ActionTypes DEF ActionInv
<1>6. LockIsHeld'
  BY <1>2, <1>4 DEF ActionInv, LockIsHeld
<1>7. OwnedIsClaimed'
  BY <1>2, <1>4 DEF ActionInv, LockIsHeld, OwnedIsClaimed, InMotion
<1>8. GenerationsAgree'
  BY <1>2, <1>3, GenerationsStay DEF ActionInv, GenerationsAgree
<1> QED
  BY <1>5, <1>6, <1>7, <1>8 DEF ActionInv

-----------------------------------------------------------------------------
(* A step of the thread: it takes or leaves the lock with its place, and    *)
(* looks at the user's generation only when it takes the lock.             *)
LEMMA WorkerKeeps ==
    ASSUME ActionInv, UNCHANGED <<userGeneration, viewer, formatting>>,
           alerts' \in 0..AlertCapacity, acting' \in Actings,
           writer' \in {"closed", "opening", "recording", "closing"},
           claim' \in {"none", "motion", "user"},
           actionLeft' \in Budgets, actionLeft'.requests = actionLeft.requests,
           \/ holder' = holder
           \/ holder = "none" /\ holder' = "motion"
           \/ holder = "motion" /\ holder' = "none",
           acting'.pc \in InMotion <=> holder' = "motion",
           \/ acting'.generation = acting.generation
           \/ acting'.generation = userGeneration /\ holder' = "motion",
           holder' = "motion" => acting'.generation = userGeneration,
           OwnedIsClaimed'
    PROVE  ActionInv'
<1>1. holder' \in {"none", "motion", "user", "format"}
  BY ActionTypes DEF ActionInv
<1>2. ActionTypeOK'
  BY <1>1, ActionTypes DEF ActionInv
<1>3. LockIsHeld'
  BY DEF ActionInv, LockIsHeld
<1>4. GenerationsAgree'
  <2>1. userGeneration \in Nat /\ MaxViewer \in Nat /\ actionLeft.requests \in Nat
    BY ActionTypes, AlertCapacityAssumption DEF ActionInv, Budgets
  <2> QED
    BY <2>1 DEF ActionInv, GenerationsAgree
<1> QED
  BY <1>2, <1>3, <1>4 DEF ActionInv

(* The thread goes on with what it keeps.                                  *)
LEMMA GoKeeps ==
    ASSUME NEW a \in Actings, NEW pc \in {"wait", "look", "command", "confirm", "due", "stop",
                                          "stop_look", "stop_command", "stop_confirm"},
           Go(pc, a)
    PROVE  /\ acting' \in Actings /\ acting'.pc = pc /\ acting'.owned = a.owned
           /\ acting'.due = a.due /\ acting'.generation = a.generation
BY DEF Go, Actings

(* What it believes of its recording when it owns it, tries again, or       *)
(* gives it up.                                                            *)
LEMMA BeliefsKeep ==
    ASSUME acting \in Actings
    PROVE  /\ Owns(acting) \in Actings /\ Owns(acting).owned /\ ~Owns(acting).due
           /\ Owns(acting).generation = acting.generation
           /\ Again \in Actings /\ Again.owned = acting.owned /\ ~Again.due
           /\ Again.generation = acting.generation
           /\ Disowned \in Actings /\ ~Disowned.owned /\ ~Disowned.due
           /\ Disowned.generation = acting.generation
BY DEF Owns, Again, Disowned, Actings

(* What every step of the thread starts from.                              *)
LEMMA WorkerStarts ==
    ASSUME ActionInv
    PROVE  /\ acting \in Actings /\ alerts \in 0..AlertCapacity /\ actionLeft \in Budgets
           /\ writer \in {"closed", "opening", "recording", "closing"}
           /\ claim \in {"none", "motion", "user"} /\ userGeneration \in 0..MaxViewer
           /\ acting.pc \in InMotion <=> holder = "motion"
           /\ formatting => holder = "format"
           /\ holder = "motion" => acting.generation = userGeneration
           /\ acting.pc = "command" => writer = "closed"
           /\ acting.due \/ acting.pc \in Stopping => acting.owned
           /\ (acting.owned \/ acting.pc = "confirm") /\ acting.generation = userGeneration
                => claim = "motion" \/ (writer = "closed" /\ ~formatting)
BY ActionTypes DEF ActionInv, LockIsHeld, GenerationsAgree, OwnedIsClaimed

(* An event is received: the generation is looked at under the lock.       *)
LEMMA ReceiveKeeps ==
    ASSUME ActionInv, receive_event \/ receive_nothing
    PROVE  ActionInv'
<1>1. /\ UNCHANGED <<userGeneration, viewer, formatting, writer, claim>> /\ acting.pc = "wait"
  BY DEF receive_event, receive_nothing, Worker
<1>2. alerts' \in 0..AlertCapacity
  <2>1. alerts' = alerts \/ (alerts > 0 /\ alerts' = alerts - 1)
    BY DEF receive_event, receive_nothing
  <2>2. alerts \in 0..AlertCapacity /\ AlertCapacity \in Nat
    BY WorkerStarts, AlertCapacityAssumption
  <2> QED
    BY ONLY <2>1, <2>2
<1>3. actionLeft' \in Budgets /\ actionLeft'.requests = actionLeft.requests
  BY WorkerStarts, SpendsKeeps DEF receive_event, receive_nothing, Unspent
<1>4. holder # "motion"
  BY <1>1, WorkerStarts DEF InMotion
<1>5. /\ acting' \in Actings
      /\ \/ /\ acting'.pc = "due" /\ holder' = holder
            /\ acting'.owned = acting.owned /\ acting'.generation = acting.generation
            /\ acting'.due => acting.due
         \/ /\ acting'.pc = "look" /\ holder = "none" /\ holder' = "motion"
            /\ ~acting'.owned /\ ~acting'.due /\ acting'.generation = userGeneration
  <2>1. CASE Go("due", acting) /\ UNCHANGED holder
    BY <2>1, WorkerStarts, GoKeeps
  <2>2. ASSUME NEW speaks \in BOOLEAN, NEW records \in BOOLEAN,
               LET heard == [acting EXCEPT !.spoke = @ \/ speaks]
               IN  IF ~records THEN Go("due", heard) /\ UNCHANGED holder
                   ELSE IF acting.owned
                   THEN Go("due", [heard EXCEPT !.due = FALSE]) /\ UNCHANGED holder
                   ELSE IF holder # "none" THEN Go("due", heard) /\ UNCHANGED holder
                   ELSE /\ Go("look", [heard EXCEPT !.generation = userGeneration])
                        /\ holder' = "motion"
        PROVE  /\ acting' \in Actings
               /\ \/ /\ acting'.pc = "due" /\ holder' = holder
                     /\ acting'.owned = acting.owned /\ acting'.generation = acting.generation
                     /\ acting'.due => acting.due
                  \/ /\ acting'.pc = "look" /\ holder = "none" /\ holder' = "motion"
                     /\ ~acting'.owned /\ ~acting'.due /\ acting'.generation = userGeneration
    <3> DEFINE heard == [acting EXCEPT !.spoke = acting.spoke \/ speaks]
               again == [heard EXCEPT !.due = FALSE]
               asked == [heard EXCEPT !.generation = userGeneration]
    <3>1. /\ heard \in Actings /\ heard.owned = acting.owned /\ heard.due = acting.due
          /\ heard.generation = acting.generation
      BY WorkerStarts DEF Actings
    <3>2. /\ again \in Actings /\ again.owned = acting.owned /\ ~again.due
          /\ again.generation = acting.generation
      BY <3>1 DEF Actings
    <3>3. /\ asked \in Actings /\ asked.owned = acting.owned /\ asked.due = acting.due
          /\ asked.generation = userGeneration
      BY <3>1, WorkerStarts DEF Actings
    <3>4. \/ Go("due", heard) /\ UNCHANGED holder
          \/ Go("due", again) /\ UNCHANGED holder
          \/ /\ ~acting.owned /\ holder = "none" /\ holder' = "motion"
             /\ Go("look", asked)
      BY <2>2
    <3> HIDE DEF heard, again, asked
    <3>5. CASE Go("due", heard) /\ UNCHANGED holder
      BY <3>1, <3>5, GoKeeps
    <3>6. CASE Go("due", again) /\ UNCHANGED holder
      BY <3>2, <3>6, GoKeeps
    <3>7. CASE ~acting.owned /\ holder = "none" /\ holder' = "motion" /\ Go("look", asked)
      BY <3>3, <3>7, GoKeeps, WorkerStarts
    <3> QED
      BY <3>4, <3>5, <3>6, <3>7
  <2> QED
    BY <2>1, <2>2 DEF receive_event, receive_nothing
<1>6. acting'.pc \in InMotion <=> holder' = "motion"
  BY <1>4, <1>5 DEF InMotion
<1>7. OwnedIsClaimed'
  BY <1>1, <1>5, WorkerStarts DEF OwnedIsClaimed, Stopping
<1>8. /\ writer' \in {"closed", "opening", "recording", "closing"}
      /\ claim' \in {"none", "motion", "user"}
  BY <1>1, WorkerStarts
<1> QED
  BY <1>1, <1>2, <1>3, <1>4, <1>5, <1>6, <1>7, <1>8, WorkerKeeps

(* The start, under the lock: what is commanded is claimed.                *)
LEMMA StartKeeps ==
    ASSUME ActionInv, start_look \/ start_command \/ start_confirm
    PROVE  ActionInv'
<1>1. /\ UNCHANGED <<userGeneration, viewer, formatting, alerts>> /\ holder = "motion"
      /\ ~formatting
  BY WorkerStarts DEF start_look, start_command, start_confirm, Worker, InMotion
<1>2. actionLeft' \in Budgets /\ actionLeft'.requests = actionLeft.requests
  BY WorkerStarts, SpendsKeeps DEF start_look, start_command, start_confirm, Unspent
<1>3. CASE start_look
  <2>1. /\ acting.pc = "look" /\ UNCHANGED <<writer, claim>>
        /\ \/ writer = "closed" /\ Go("command", acting) /\ UNCHANGED holder
           \/ Go("due", acting) /\ holder' = "none"
    BY <1>3 DEF start_look, Worker, Unlocks
  <2>2. /\ acting' \in Actings /\ acting'.owned = acting.owned /\ acting'.due = acting.due
        /\ acting'.generation = acting.generation
        /\ \/ writer = "closed" /\ acting'.pc = "command" /\ holder' = holder
           \/ acting'.pc = "due" /\ holder' = "none"
    BY <2>1, WorkerStarts, GoKeeps
  <2>3. OwnedIsClaimed'
    BY <1>1, <2>1, <2>2, WorkerStarts DEF OwnedIsClaimed, Stopping
  <2>4. acting'.pc \in InMotion <=> holder' = "motion"
    BY <1>1, <2>2 DEF InMotion
  <2>5. /\ alerts' \in 0..AlertCapacity /\ claim' \in {"none", "motion", "user"}
        /\ writer' \in {"closed", "opening", "recording", "closing"}
        /\ acting.generation = userGeneration
    BY <1>1, <2>1, WorkerStarts
  <2> QED
    BY <1>1, <1>2, <2>2, <2>3, <2>4, <2>5, WorkerKeeps
<1>4. CASE start_command
  <2>1. /\ acting.pc = "command" /\ writer = "closed"
        /\ \/ Go("confirm", acting) /\ UNCHANGED holder /\ claim' = "motion"
           \/ Go("due", Owns(acting)) /\ holder' = "none"
        /\ (Intends(TRUE) /\ claim' = "motion") \/ UNCHANGED <<writer, claim>>
    BY <1>4, WorkerStarts DEF start_command, Worker, Unlocks
  <2>2. /\ acting' \in Actings /\ acting'.generation = acting.generation
        /\ \/ /\ acting'.pc = "confirm" /\ holder' = holder /\ claim' = "motion"
              /\ acting'.owned = acting.owned /\ acting'.due = acting.due
           \/ acting'.pc = "due" /\ holder' = "none" /\ acting'.owned /\ ~acting'.due
    <3>1. CASE Go("confirm", acting) /\ UNCHANGED holder /\ claim' = "motion"
      BY <3>1, WorkerStarts, GoKeeps
    <3>2. CASE Go("due", Owns(acting)) /\ holder' = "none"
      BY <3>2, WorkerStarts, GoKeeps, BeliefsKeep
    <3> QED
      BY <2>1, <3>1, <3>2
  <2>3. /\ writer' \in {"closed", "opening", "recording", "closing"}
        /\ claim' = "motion" \/ writer' = "closed"
        /\ claim' \in {"none", "motion", "user"} /\ alerts' \in 0..AlertCapacity
        /\ acting.generation = userGeneration
    BY <1>1, <2>1, IntendsKeeps, WorkerStarts
  <2>4. OwnedIsClaimed'
    BY <1>1, <2>2, <2>3, WorkerStarts DEF OwnedIsClaimed, Stopping
  <2>5. acting'.pc \in InMotion <=> holder' = "motion"
    BY <1>1, <2>2 DEF InMotion
  <2> QED
    BY <1>1, <1>2, <2>2, <2>3, <2>4, <2>5, WorkerKeeps
<1>5. CASE start_confirm
  <2>1. /\ acting.pc = "confirm" /\ UNCHANGED <<writer, claim>>
        /\ Go("due", Owns(acting)) /\ holder' = "none"
    BY <1>5 DEF start_confirm, Worker, Unlocks
  <2>2. /\ acting' \in Actings /\ acting'.generation = acting.generation
        /\ acting'.pc = "due" /\ acting'.owned /\ ~acting'.due
    BY <2>1, WorkerStarts, GoKeeps, BeliefsKeep
  <2>3. OwnedIsClaimed'
    BY <1>1, <2>1, <2>2, WorkerStarts DEF OwnedIsClaimed, Stopping
  <2>4. acting'.pc \in InMotion <=> holder' = "motion"
    BY <2>1, <2>2 DEF InMotion
  <2>5. /\ alerts' \in 0..AlertCapacity /\ claim' \in {"none", "motion", "user"}
        /\ writer' \in {"closed", "opening", "recording", "closing"}
        /\ acting.generation = userGeneration
    BY <1>1, <2>1, WorkerStarts
  <2> QED
    BY <1>1, <1>2, <2>1, <2>2, <2>3, <2>4, <2>5, WorkerKeeps
<1> QED
  BY <1>3, <1>4, <1>5

(* The decision to stop, without the lock and then under it.               *)
LEMMA DueKeeps ==
    ASSUME ActionInv, check_due \/ stop_lock
    PROVE  ActionInv'
<1>1. /\ UNCHANGED <<userGeneration, viewer, formatting, alerts, writer, claim, actionLeft>>
      /\ acting.pc \in {"due", "stop"} /\ holder # "motion"
  BY WorkerStarts DEF check_due, stop_lock, Worker, InMotion
<1>2. \/ Go("wait", acting) /\ UNCHANGED holder
      \/ Go("wait", Disowned) /\ UNCHANGED holder
      \/ Go("wait", Again) /\ UNCHANGED holder
      \/ Go("stop", acting) /\ acting.due /\ UNCHANGED holder
      \/ /\ Go("stop_look", acting) /\ holder = "none" /\ holder' = "motion"
         /\ acting.pc = "stop" /\ acting.generation = userGeneration
  BY DEF check_due, stop_lock, Worker
<1>3. acting.pc = "stop" \/ acting.due => acting.owned
  BY WorkerStarts DEF Stopping
<1>4. /\ acting' \in Actings /\ acting'.generation = acting.generation
      /\ acting'.owned => acting.owned
      /\ acting'.due => acting.due
      /\ \/ /\ acting'.pc = "wait" /\ holder' = holder
            /\ ~acting'.due \/ acting'.owned = acting.owned
         \/ acting'.pc = "stop" /\ holder' = holder /\ acting'.owned
         \/ /\ acting'.pc = "stop_look" /\ holder = "none" /\ holder' = "motion"
            /\ acting'.owned /\ acting.generation = userGeneration
  <2>1. CASE Go("wait", acting) /\ UNCHANGED holder
    BY <2>1, WorkerStarts, GoKeeps
  <2>2. CASE Go("wait", Disowned) /\ UNCHANGED holder
    BY <2>2, WorkerStarts, GoKeeps, BeliefsKeep
  <2>3. CASE Go("wait", Again) /\ UNCHANGED holder
    BY <2>3, WorkerStarts, GoKeeps, BeliefsKeep
  <2>4. CASE Go("stop", acting) /\ acting.due /\ UNCHANGED holder
    BY <1>3, <2>4, WorkerStarts, GoKeeps
  <2>5. CASE /\ Go("stop_look", acting) /\ holder = "none" /\ holder' = "motion"
             /\ acting.pc = "stop" /\ acting.generation = userGeneration
    BY <1>3, <2>5, WorkerStarts, GoKeeps
  <2> QED
    BY <1>2, <2>1, <2>2, <2>3, <2>4, <2>5
<1>5. acting'.pc \in InMotion <=> holder' = "motion"
  BY <1>1, <1>4 DEF InMotion
<1>6. OwnedIsClaimed'
  BY <1>1, <1>3, <1>4, WorkerStarts DEF OwnedIsClaimed, Stopping
<1>7. /\ alerts' \in 0..AlertCapacity /\ claim' \in {"none", "motion", "user"}
      /\ writer' \in {"closed", "opening", "recording", "closing"}
      /\ actionLeft' \in Budgets /\ actionLeft'.requests = actionLeft.requests
  BY <1>1, WorkerStarts
<1>8. holder' = "motion" => acting'.generation = userGeneration
  BY <1>1, <1>4
<1> QED
  BY <1>1, <1>4, <1>5, <1>6, <1>7, <1>8, WorkerKeeps

(* The stop, under the lock: the recording that is stopped is motion's.    *)
LEMMA StopKeeps ==
    ASSUME ActionInv, stop_look \/ stop_command \/ stop_confirm
    PROVE  ActionInv' /\ (writer' # writer => claim = "motion")
<1>1. /\ UNCHANGED <<userGeneration, viewer, formatting, alerts, claim>>
      /\ acting.pc \in {"stop_look", "stop_command", "stop_confirm"}
      /\ holder = "motion" /\ ~formatting
  BY WorkerStarts DEF stop_look, stop_command, stop_confirm, Worker, InMotion
<1>2. /\ acting.owned /\ acting.generation = userGeneration
      /\ claim = "motion" \/ writer = "closed"
  BY <1>1, WorkerStarts DEF Stopping
<1>3. actionLeft' \in Budgets /\ actionLeft'.requests = actionLeft.requests
  BY WorkerStarts, SpendsKeeps DEF stop_look, stop_command, stop_confirm, Unspent
<1>4. Intends(FALSE) \/ UNCHANGED writer
  BY DEF stop_look, stop_command, stop_confirm
<1>5. /\ writer' \in {"closed", "opening", "recording", "closing"}
      /\ writer = "closed" => writer' = "closed"
  BY <1>4, WorkerStarts, IntendsKeeps
<1>6. \/ Go("wait", Disowned) /\ holder' = "none"
      \/ Go("wait", Again) /\ holder' = "none"
      \/ Go("stop_command", acting) /\ holder' = holder
      \/ Go("stop_confirm", acting) /\ holder' = holder
  BY DEF stop_look, stop_command, stop_confirm, Unlocks
<1>7. /\ acting' \in Actings /\ acting'.generation = acting.generation
      /\ \/ /\ acting'.pc = "wait" /\ holder' = "none" /\ ~acting'.due
         \/ /\ acting'.pc \in {"stop_command", "stop_confirm"} /\ holder' = holder
            /\ acting'.owned
  <2>1. CASE Go("wait", Disowned) /\ holder' = "none"
    BY <2>1, WorkerStarts, GoKeeps, BeliefsKeep
  <2>2. CASE Go("wait", Again) /\ holder' = "none"
    BY <2>2, WorkerStarts, GoKeeps, BeliefsKeep
  <2>3. CASE Go("stop_command", acting) /\ holder' = holder
    BY <1>2, <2>3, WorkerStarts, GoKeeps
  <2>4. CASE Go("stop_confirm", acting) /\ holder' = holder
    BY <1>2, <2>4, WorkerStarts, GoKeeps
  <2> QED
    BY <1>6, <2>1, <2>2, <2>3, <2>4
<1>8. acting'.pc \in InMotion <=> holder' = "motion"
  BY <1>1, <1>7 DEF InMotion
<1>9. OwnedIsClaimed'
  BY <1>1, <1>2, <1>5, <1>7 DEF OwnedIsClaimed, Stopping
<1>10. alerts' \in 0..AlertCapacity /\ claim' \in {"none", "motion", "user"}
  BY <1>1, WorkerStarts
<1>11. ActionInv'
  BY <1>1, <1>2, <1>3, <1>5, <1>7, <1>8, <1>9, <1>10, WorkerKeeps
<1> QED
  BY <1>2, <1>5, <1>11

(* The user's request: the generation has moved, so that nothing motion     *)
(* believes to be its own is until it looks again.                         *)
LEMMA ViewerKeeps ==
    ASSUME ActionInv, ActionViewer \/ \E start \in BOOLEAN : viewer_asks(start)
    PROVE  ActionInv'
<1>1. /\ viewer \in Viewers /\ viewer.starts \in BOOLEAN /\ actionLeft \in Budgets
      /\ userGeneration \in 0..MaxViewer /\ acting.generation \in 0..MaxViewer
      /\ actionLeft.requests \in 0..MaxViewer /\ MaxViewer \in Nat
  BY ActionTypes, AlertCapacityAssumption DEF ActionInv, Viewers, Actings, Budgets
<1>2. CASE ActionViewer
  <2>1. /\ UNCHANGED <<alerts, acting, formatting, userGeneration>>
        /\ viewer.pc \in {"look", "command", "confirm"}
    BY <1>2 DEF ActionViewer, viewer_look, viewer_command, viewer_confirm, Viewer
  <2>2. holder = "user" /\ acting.generation < userGeneration /\ acting.pc \notin InMotion
    BY <2>1 DEF ActionInv, LockIsHeld, GenerationsAgree
  <2>3. actionLeft' \in Budgets /\ actionLeft'.requests = actionLeft.requests
    BY <1>1, <1>2, SpendsKeeps
       DEF ActionViewer, viewer_look, viewer_command, viewer_confirm, Unspent
  <2>4. /\ viewer' \in Viewers
        /\ \/ viewer'.pc = "idle" /\ holder' = "none"
           \/ viewer'.pc \in {"command", "confirm"} /\ holder' = "user"
    BY <1>1, <1>2, <2>2
       DEF ActionViewer, viewer_look, viewer_command, viewer_confirm, Viewer, Answered,
           Unlocks, Viewers
  <2>5. /\ writer' \in {"closed", "opening", "recording", "closing"}
        /\ claim' \in {"none", "motion", "user"}
    BY <1>1, <1>2, WorkerStarts, IntendsKeeps
       DEF ActionViewer, viewer_look, viewer_command, viewer_confirm, Granted
  <2>6. holder' \in {"none", "user"}
    BY <2>4
  <2>7. ActionTypeOK'
    BY <2>1, <2>3, <2>4, <2>5, <2>6, ActionTypes DEF ActionInv
  <2>8. LockIsHeld'
    BY <2>1, <2>2, <2>4 DEF ActionInv, LockIsHeld
  <2>9. GenerationsAgree'
    BY <2>1, <2>2, <2>3, <2>6 DEF ActionInv, GenerationsAgree
  <2>10. OwnedIsClaimed'
    BY <1>1, <2>1, <2>2 DEF ActionInv, OwnedIsClaimed, InMotion
  <2> QED
    BY <2>7, <2>8, <2>9, <2>10 DEF ActionInv
<1>3. ASSUME NEW start \in BOOLEAN, viewer_asks(start)
      PROVE  ActionInv'
  <2>1. /\ UNCHANGED <<alerts, acting, formatting, writer>>
        /\ holder = "none" /\ holder' = "user" /\ userGeneration' = userGeneration + 1
        /\ claim' = "none" /\ viewer' = [pc |-> "look", starts |-> start]
        /\ actionLeft.requests > 0
        /\ actionLeft' = [actionLeft EXCEPT !.requests = @ - 1]
    BY <1>3 DEF viewer_asks, Viewer, Spends
  <2>2. actionLeft' \in Budgets /\ actionLeft'.requests = actionLeft.requests - 1
    BY <1>1, <2>1 DEF Budgets
  <2>3. userGeneration + actionLeft.requests <= MaxViewer /\ acting.generation <= userGeneration
    BY DEF ActionInv, GenerationsAgree
  <2>4. userGeneration' \in 0..MaxViewer
    BY <1>1, <2>1, <2>3
  <2>5. viewer' \in Viewers /\ viewer'.pc = "look" /\ acting.pc \notin InMotion
    BY <2>1 DEF ActionInv, LockIsHeld, Viewers
  <2>6. ActionTypeOK'
    BY <2>1, <2>2, <2>4, <2>5, ActionTypes DEF ActionInv
  <2>7. LockIsHeld'
    BY <2>1, <2>5 DEF ActionInv, LockIsHeld
  <2>8. GenerationsAgree'
    BY <1>1, <2>1, <2>2, <2>3 DEF GenerationsAgree
  <2>9. OwnedIsClaimed'
    BY <1>1, <2>1, <2>3, <2>5 DEF ActionInv, OwnedIsClaimed, InMotion
  <2> QED
    BY <2>6, <2>7, <2>8, <2>9 DEF ActionInv
<1> QED
  BY <1>2, <1>3

(* Every step keeps the invariant, and the stop stops what is motion's.    *)
LEMMA ActionStepKeeps ==
    ASSUME ActionInv, [ActionNext]_actionVars
    PROVE  ActionInv' /\ (stop_command /\ writer' # writer => claim = "motion")
<1>1. CASE UNCHANGED actionVars
  <2>1. ActionTypeOK'
    BY <1>1, ActionTypes DEF ActionInv, actionVars
  <2>2. LockIsHeld' /\ GenerationsAgree' /\ OwnedIsClaimed'
    BY <1>1 DEF ActionInv, actionVars, LockIsHeld, GenerationsAgree, OwnedIsClaimed
  <2> QED
    BY <1>1, <2>1, <2>2 DEF ActionInv, actionVars
<1>2. stop_command => (writer' # writer => claim = "motion")
  BY StopKeeps
<1>3. ActionWorker => ActionInv'
  BY ReceiveKeeps, StartKeeps, DueKeeps, StopKeeps DEF ActionWorker
<1>4. ActionViewer \/ (\E start \in BOOLEAN : viewer_asks(start)) => ActionInv'
  BY ViewerKeeps
<1>5. ActionNext => ActionInv'
  BY <1>3, <1>4, TimeKeeps, FormatKeeps, WriterKeeps DEF ActionNext
<1> QED
  BY <1>1, <1>2, <1>5

(* motion_actions.rs: in every behaviour the lock says who is at work, and  *)
(* what the thread believes to be its own recording is, unless the user's   *)
(* generation has moved.                                                   *)
THEOREM ActionInvariance == ActionSpec => []ActionInv
<1>1. ActionInit => ActionInv
  BY ActionInitEstablishes
<1>2. ActionInv /\ [ActionNext]_actionVars => ActionInv'
  BY ActionStepKeeps
<1> QED
  BY <1>1, <1>2, PTL DEF ActionSpec

(* Motion stops no recording that it has not started, for any capacity of   *)
(* the queue and any number of events, requests, formats and failures.     *)
THEOREM MotionStopsItsOwn == ActionSpec => MotionEndsItsOwn
<1>1. ActionInv /\ [ActionNext]_actionVars
        => [stop_command /\ writer' # writer => claim = "motion"]_actionVars
  BY ActionStepKeeps
<1> QED
  BY <1>1, ActionInvariance, PTL DEF ActionSpec, MotionEndsItsOwn

(***************************************************************************)
(* The threads beside each other.                                          *)
(***************************************************************************)

(* The level shown is the one announced, and both threads keep their types. *)
THEOREM ThreadsStayConsistent == MotionSpec /\ ActionSpec => []ThreadsAreConsistent
<1>1. MotionInv /\ ActionInv => ThreadsAreConsistent
  BY DEF MotionInv, LevelIsAnnounced, EventsMatchTheLevel, ActionInv, ThreadsAreConsistent
<1> QED
  BY <1>1, MotionInvariance, ActionInvariance, PTL
=============================================================================
