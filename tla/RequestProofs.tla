----------------------------- MODULE RequestProofs -----------------------------
(***************************************************************************)
(* Proofs about what requests do to the senders of notifications and to    *)
(* the credentials, for any number of requests, events and failures.       *)
(***************************************************************************)
EXTENDS Senders, Credentials, FiniteSetTheorems, TLAPS

(***************************************************************************)
(* The senders.                                                            *)
(***************************************************************************)

Services   == [kind : SenderKinds, available : BOOLEAN, running : BOOLEAN]
Lives      == [value : Config, generation : 0..MaxChanges + 1]
Offers     == [pc : {"idle", "counted", "send"}, event : Event]
Deliveries == [pc : {"receive", "taken", "check", "post", "status", "shoot",
                     "status again", "admit", "upload"},
               event : Event, config : Config, mask : 0..MaxMasks]
Posts      == [pc : {"idle", "save", "apply", "change", "assign", "enable", "answer"},
               config : Config, answer : {"none", "applied", "refused", "partial"}]
Gets       == [pc : {"idle", "live"}, saved : Config, met : BOOLEAN, matches : BOOLEAN]
Masks      == [on : BOOLEAN, generation : 0..MaxMasks, pc : {"idle", "command"}, to : BOOLEAN]
SenderLogs == [begun : 0..MaxChanges, acknowledged : 0..MaxChanges,
               late : BOOLEAN, shown : BOOLEAN]
Leftovers  == [offers : 0..MaxOffers, changes : 0..MaxChanges, masks : 0..MaxMasks,
               failures : 0..MaxSenderFailures, looks : 0..MaxLooks]

Bit(b) == IF b THEN 1 ELSE 0

(* The changes that have begun are as many as the generation says, up to    *)
(* the generation the daemon started with: the difference never changes.   *)
Due  == request.pc = "change" /\ live.value # request.config
Lead == senderLog.begun - generation - Bit(Due)

GenerationsAreCounted ==
    /\ Lead \in {-1, 0}
    /\ generation = live.generation + Bit(request.pc = "assign")
    /\ senderLog.begun + senderLeft.changes + Bit(request.pc \in {"save", "apply"}) <= MaxChanges
    /\ senderLog.acknowledged - live.generation <= Lead

(* An event's generation is not above what had begun when it was queued.   *)
IsAhead(event) == event.begun - event.generation >= Lead
EventsAreAhead ==
    /\ \A i \in 1..Len(events) : IsAhead(events[i])
    /\ IsAhead(offer.event) /\ IsAhead(delivery.event)

(* What a request has saved and made live by the time it gets on.          *)
RequestIsLive ==
    /\ request.pc # "idle" => request.answer = "none"
    /\ request.pc \in {"apply", "change", "assign", "enable", "answer"} => saved = request.config
    /\ request.pc \in {"change", "assign", "enable", "answer"} => Usable(request.config)
    /\ request.pc \in {"enable", "answer"} => live.value = request.config
    /\ request.pc = "answer" => enabled = request.config.enabled

(* A privacy command that began before the event was looked at turns it on  *)
(* if anything, so that a picture taken since is found out by the mask.    *)
MaskIsCounted ==
    /\ delivery.mask <= mask.generation
    /\ mask.generation + senderLeft.masks <= MaxMasks
    /\ delivery.mask = mask.generation /\ delivery.pc \in {"shoot", "status again", "admit"} =>
         (mask.pc = "command" => ~mask.on)
    /\ delivery.mask = mask.generation /\ delivery.pc \in {"status again", "admit"} =>
         (senderLog.shown => mask.on)

(* A GET that has not met the file and the live settings in agreement will  *)
(* not find what it read to be live.                                       *)
LooksAreTrue ==
    reading.pc = "live" /\ ~reading.met => live.value # reading.saved /\ live.value # saved

SenderInv ==
    /\ SenderTypeOK /\ SenderIsAsShown
    /\ GenerationsAreCounted /\ EventsAreAhead /\ RequestIsLive
    /\ MaskIsCounted /\ LooksAreTrue

-----------------------------------------------------------------------------
(* The type invariant, by its named sets.                                  *)
LEMMA SenderTypes ==
    /\ SenderTypeOK <=>
         /\ sender \in Services /\ live \in Lives /\ generation \in 0..MaxChanges + 1
         /\ enabled \in BOOLEAN /\ queued \in 0..SenderCapacity + 2
         /\ events \in Seq(Event) /\ Len(events) <= SenderCapacity
         /\ offer \in Offers /\ delivery \in Deliveries /\ saved \in Config
         /\ request \in Posts /\ reading \in Gets /\ mask \in Masks
         /\ lock \in {"none", "request", "privacy"}
         /\ senderLog \in SenderLogs /\ senderLeft \in Leftovers
    /\ SenderTypeOK' <=>
         /\ sender' \in Services /\ live' \in Lives /\ generation' \in 0..MaxChanges + 1
         /\ enabled' \in BOOLEAN /\ queued' \in 0..SenderCapacity + 2
         /\ events' \in Seq(Event) /\ Len(events') <= SenderCapacity
         /\ offer' \in Offers /\ delivery' \in Deliveries /\ saved' \in Config
         /\ request' \in Posts /\ reading' \in Gets /\ mask' \in Masks
         /\ lock' \in {"none", "request", "privacy"}
         /\ senderLog' \in SenderLogs /\ senderLeft' \in Leftovers
BY DEF SenderTypeOK, Services, Lives, Offers, Deliveries, Posts, Gets, Masks,
       SenderLogs, Leftovers

(* The bounds are numbers.                                                 *)
LEMMA SenderBounds ==
    /\ MaxOffers \in Nat /\ MaxChanges \in Nat /\ MaxMasks \in Nat
    /\ MaxSenderFailures \in Nat /\ MaxLooks \in Nat
    /\ SenderCapacity \in Nat /\ SenderCapacity > 0
BY SenderAssumption

(* A bound is spent one at a time, and nothing else with it.               *)
LEMMA UsesKeeps ==
    ASSUME senderLeft \in Leftovers,
           NEW resource \in {"offers", "changes", "masks", "failures", "looks"}, Uses(resource)
    PROVE  /\ senderLeft' \in Leftovers
           /\ resource # "changes" => senderLeft'.changes = senderLeft.changes
           /\ resource # "masks" => senderLeft'.masks = senderLeft.masks
           /\ resource = "changes" => senderLeft'.changes = senderLeft.changes - 1
           /\ resource = "masks" => senderLeft'.masks = senderLeft.masks - 1
<1>1. senderLeft[resource] > 0 /\ senderLeft' = [senderLeft EXCEPT ![resource] = @ - 1]
  BY DEF Uses
<1>2. CASE resource = "offers"
  BY <1>1, <1>2, SenderBounds DEF Leftovers
<1>3. CASE resource = "changes"
  BY <1>1, <1>3, SenderBounds DEF Leftovers
<1>4. CASE resource = "masks"
  BY <1>1, <1>4, SenderBounds DEF Leftovers
<1>5. CASE resource = "failures"
  BY <1>1, <1>5, SenderBounds DEF Leftovers
<1>6. CASE resource = "looks"
  BY <1>1, <1>6, SenderBounds DEF Leftovers
<1> QED
  BY <1>2, <1>3, <1>4, <1>5, <1>6

(* The settings a daemon starts without, and the events that are none.     *)
LEMMA Defaults == DefaultConfig \in Config /\ ~DefaultConfig.enabled /\ NoEvent \in Event
<1>1. 0 \in 0..MaxChanges + 1 /\ 0 \in 0..MaxChanges
  BY SenderBounds
<1> QED
  BY <1>1 DEF DefaultConfig, Config, Destinations, Secrets, NoEvent, Event

(* A request merged into the file leaves what a file may hold.             *)
LEMMA MergedKeeps ==
    ASSUME saved \in Config, NEW patch \in Patch
    PROVE  Merged(patch) \in Config
<1>1. normalize_secret_update(patch.address, saved.address) \in Destinations
  BY DEF normalize_secret_update, Patch, Config
<1>2. normalize_secret_update(patch.secret, saved.secret) \in Secrets
  BY DEF normalize_secret_update, Patch, Config
<1>3. (IF patch.enabled = "keep" THEN saved.enabled ELSE patch.enabled = "yes") \in BOOLEAN
  BY DEF Config
<1> QED
  BY <1>1, <1>2, <1>3 DEF Merged, Config

-----------------------------------------------------------------------------
(* What start_motion_* applies can be used, and counts as nothing begun.   *)
LEMMA SenderInitEstablishes == SenderInit => SenderInv
<1> SUFFICES ASSUME SenderInit PROVE SenderInv
  OBVIOUS
<1> DEFINE value == IF validate_domain(saved) /\ Usable(saved) THEN saved ELSE DefaultConfig
<1>1. Starts
  BY DEF SenderInit, start_motion_webhook, start_motion_ntfy, start_motion_gotify,
         start_motion_telegram, start_motion_email, start_motion_ftp
<1>2. saved \in Config
  BY SenderAssumption DEF SenderInit
<1>3. value \in Config /\ Usable(value)
  BY <1>2, Defaults DEF Usable
<1>4. /\ live = [value |-> value, generation |-> IF value = DefaultConfig THEN 0 ELSE 1]
      /\ generation = live.generation /\ enabled = live.value.enabled
  BY <1>1 DEF Starts
<1> HIDE DEF value
<1>5. generation \in {0, 1} /\ live.value = value /\ live \in Lives
  BY <1>3, <1>4, SenderBounds DEF Lives
<1>6. /\ sender \in Services /\ reading \in Gets /\ ~reading.met /\ ~reading.matches
      /\ reading.pc = "idle"
  BY Defaults DEF SenderInit, Services, Gets
<1>7. /\ offer \in Offers /\ offer.pc = "idle" /\ offer.event = NoEvent
      /\ delivery \in Deliveries /\ delivery.pc = "receive" /\ delivery.event = NoEvent
      /\ delivery.mask = 0
  BY Defaults, SenderBounds DEF SenderInit, Offers, Deliveries
<1>8. /\ request \in Posts /\ request.pc = "idle" /\ request.answer = "none"
  BY Defaults DEF SenderInit, Posts
<1>9. /\ mask \in Masks /\ mask.generation = 0
      /\ senderLog \in SenderLogs /\ senderLog.begun = 0 /\ senderLog.acknowledged = 0
  <2>1. /\ mask \in [on : BOOLEAN, generation : {0}, pc : {"idle"}, to : {FALSE}]
        /\ senderLog = [begun |-> 0, acknowledged |-> 0, late |-> FALSE, shown |-> FALSE]
    BY DEF SenderInit
  <2>2. 0 \in 0..MaxMasks /\ 0 \in 0..MaxChanges
    BY SenderBounds
  <2>3. mask \in Masks /\ mask.generation = 0
    BY <2>1, <2>2 DEF Masks
  <2> QED
    BY <2>1, <2>2, <2>3 DEF SenderLogs
<1>10. senderLeft \in Leftovers
  BY SenderAssumption DEF SenderInit, Leftovers
<1>11. /\ queued = 0 /\ events = <<>> /\ lock = "none"
  BY DEF SenderInit
<1>12. SenderTypeOK
  <2>1. enabled \in BOOLEAN
    BY <1>3, <1>4, <1>5 DEF Config
  <2>2. generation \in 0..MaxChanges + 1 /\ queued \in 0..SenderCapacity + 2
    BY <1>5, <1>11, SenderBounds
  <2>3. events \in Seq(Event) /\ Len(events) <= SenderCapacity
    BY <1>11, SenderBounds
  <2> QED
    BY <1>2, <1>5, <1>6, <1>7, <1>8, <1>9, <1>10, <1>11, <2>1, <2>2, <2>3, SenderTypes
<1>13. SenderIsAsShown
  BY <1>3, <1>5, <1>6, <1>7, <1>8, <1>11
     DEF SenderIsAsShown, AppliedMeansLive, QueueIsCounted, EnabledIsComplete, MatchesAreTrue,
         Usable
<1>14. Lead = 0 - generation
  BY <1>5, <1>8, <1>9 DEF Lead, Bit, Due
<1>15. GenerationsAreCounted
  <2>1. senderLeft.changes \in 0..MaxChanges
    BY <1>10 DEF Leftovers
  <2> QED
    BY <1>4, <1>5, <1>8, <1>9, <1>14, <2>1, SenderBounds DEF GenerationsAreCounted, Bit
<1>16. EventsAreAhead
  BY <1>5, <1>7, <1>11, <1>14 DEF EventsAreAhead, IsAhead, NoEvent
<1>17. MaskIsCounted
  <2>1. senderLeft.masks \in 0..MaxMasks
    BY <1>10 DEF Leftovers
  <2> QED
    BY <1>7, <1>9, <2>1, SenderBounds DEF MaskIsCounted
<1>18. RequestIsLive /\ LooksAreTrue
  BY <1>6, <1>8 DEF RequestIsLive, LooksAreTrue
<1> QED
  BY <1>12, <1>13, <1>15, <1>16, <1>17, <1>18 DEF SenderInv

-----------------------------------------------------------------------------
(* Steps beside a request leave all of it where it is.                     *)
BesideARequest == UNCHANGED <<sender, live, generation, enabled, saved, request>>

(* Such steps keep what is known of the requests.                          *)
LEMMA BesideKeeps ==
    ASSUME SenderInv, BesideARequest,
           senderLog'.begun = senderLog.begun,
           senderLog'.acknowledged = senderLog.acknowledged,
           senderLeft'.changes = senderLeft.changes
    PROVE  /\ GenerationsAreCounted' /\ Lead' = Lead /\ RequestIsLive'
           /\ AppliedMeansLive' /\ EnabledIsComplete'
           /\ UNCHANGED reading => MatchesAreTrue' /\ LooksAreTrue'
<1>1. Lead' = Lead
  BY DEF Lead, Due, Bit, BesideARequest
<1>2. GenerationsAreCounted'
  BY <1>1 DEF SenderInv, GenerationsAreCounted, BesideARequest, Bit
<1>3. RequestIsLive'
  BY DEF SenderInv, RequestIsLive, BesideARequest, Usable, validate_domain
<1>4. AppliedMeansLive' /\ EnabledIsComplete'
  BY DEF SenderInv, SenderIsAsShown, AppliedMeansLive, EnabledIsComplete, BesideARequest,
         validate_domain
<1>5. UNCHANGED reading => MatchesAreTrue' /\ LooksAreTrue'
  BY DEF SenderInv, SenderIsAsShown, MatchesAreTrue, LooksAreTrue, BesideARequest
<1> QED
  BY <1>1, <1>2, <1>3, <1>4, <1>5

(* A GET compares what it has read with what is live.                      *)
LEMMA LookKeeps ==
    ASSUME SenderInv, SenderLook
    PROVE  SenderInv'
<1>1. /\ senderLeft \in Leftovers /\ reading \in Gets /\ saved \in Config /\ live \in Lives
  BY SenderTypes DEF SenderInv
<1>2. UNCHANGED <<sender, live, generation, enabled, queued, events, offer, delivery,
                  saved, request, mask, lock, senderLog>>
  BY DEF SenderLook, look_begins, public_config, UnlockedLook
<1>3. /\ senderLeft' \in Leftovers /\ senderLeft'.changes = senderLeft.changes
      /\ senderLeft'.masks = senderLeft.masks
  BY <1>1, UsesKeeps DEF SenderLook, look_begins, public_config, Unused
<1>4. reading' \in Gets /\ MatchesAreTrue' /\ LooksAreTrue'
  <2>1. CASE look_begins
    <3>1. reading' = [pc |-> "live", saved |-> saved, met |-> saved = live.value,
                      matches |-> FALSE]
      BY <2>1 DEF look_begins
    <3> QED
      BY <1>1, <1>2, <3>1 DEF Gets, MatchesAreTrue, LooksAreTrue
  <2>2. CASE public_config
    <3>1. /\ reading.pc = "live"
          /\ reading' = [reading EXCEPT !.pc = "idle", !.matches = reading.saved = live.value]
      BY <2>2 DEF public_config
    <3>2. /\ reading' \in Gets /\ reading'.pc = "idle" /\ reading'.met = reading.met
          /\ reading'.matches = (reading.saved = live.value)
      BY <1>1, <3>1 DEF Gets
    <3> QED
      BY <3>1, <3>2 DEF SenderInv, MatchesAreTrue, LooksAreTrue
  <2> QED
    BY <2>1, <2>2 DEF SenderLook
<1>5. SenderTypeOK'
  BY <1>2, <1>3, <1>4, SenderTypes DEF SenderInv
<1>6. /\ GenerationsAreCounted' /\ Lead' = Lead /\ RequestIsLive'
      /\ AppliedMeansLive' /\ EnabledIsComplete'
  BY <1>2, <1>3, BesideKeeps DEF BesideARequest
<1>7. EventsAreAhead'
  BY <1>2, <1>6 DEF SenderInv, EventsAreAhead, IsAhead
<1>8. MaskIsCounted' /\ QueueIsCounted'
  BY <1>2, <1>3 DEF SenderInv, SenderIsAsShown, MaskIsCounted, QueueIsCounted
<1> QED
  BY <1>4, <1>5, <1>6, <1>7, <1>8 DEF SenderInv, SenderIsAsShown

(* The queue is as long as the depth says, and an event that enters it is   *)
(* ahead: the generation is read before it is sent.                        *)
LEMMA OfferKeeps ==
    ASSUME SenderInv, TrySend
    PROVE  SenderInv'
<1>1. /\ senderLeft \in Leftovers /\ offer \in Offers /\ events \in Seq(Event)
      /\ Len(events) <= SenderCapacity /\ queued \in 0..SenderCapacity + 2
      /\ generation \in 0..MaxChanges + 1 /\ senderLog \in SenderLogs
      /\ offer.event \in Event /\ delivery \in Deliveries
  BY SenderTypes DEF SenderInv, Offers
<1>2. UNCHANGED <<sender, live, generation, enabled, delivery, saved, request, reading,
                  mask, lock, senderLog>>
  BY DEF TrySend, offer_counted, offer_generation, offer_send, Offer
<1>3. /\ senderLeft' \in Leftovers /\ senderLeft'.changes = senderLeft.changes
      /\ senderLeft'.masks = senderLeft.masks
  BY <1>1, UsesKeeps DEF TrySend, offer_counted, offer_generation, offer_send, Unused
<1>4. /\ GenerationsAreCounted' /\ Lead' = Lead /\ RequestIsLive'
      /\ AppliedMeansLive' /\ EnabledIsComplete' /\ MatchesAreTrue' /\ LooksAreTrue'
  BY <1>2, <1>3, BesideKeeps DEF BesideARequest
<1>5. MaskIsCounted'
  BY <1>2, <1>3 DEF SenderInv, MaskIsCounted
<1>6. Lead \in Int /\ IsAhead(offer.event) /\ IsAhead(delivery.event)
      /\ \A i \in 1..Len(events) : IsAhead(events[i])
  BY DEF SenderInv, GenerationsAreCounted, EventsAreAhead
<1> DEFINE inside == IF delivery.pc = "taken" THEN 1 ELSE 0
<1>7. /\ inside \in {0, 1} /\ Len(events) \in Nat /\ queued \in Nat
      /\ queued = Len(events) + (IF offer.pc = "idle" THEN 0 ELSE 1) + inside
  <2>1. Len(events) \in Nat /\ queued \in Nat
    BY <1>1, SenderBounds
  <2> QED
    BY <2>1 DEF SenderInv, SenderIsAsShown, QueueIsCounted
<1>8. /\ events' \in Seq(Event) /\ Len(events') <= SenderCapacity /\ offer' \in Offers
      /\ queued' = Len(events') + (IF offer'.pc = "idle" THEN 0 ELSE 1) + inside
      /\ \A i \in 1..Len(events') : IsAhead(events'[i])
      /\ IsAhead(offer'.event)
  <2>1. CASE offer_counted
    <3>1. /\ offer.pc = "idle" /\ UNCHANGED events
          /\ \/ queued' = queued + 1 /\ offer' = [offer EXCEPT !.pc = "counted"]
             \/ UNCHANGED <<queued, offer>>
      BY <2>1 DEF offer_counted, Offer
    <3>2. CASE queued' = queued + 1 /\ offer' = [offer EXCEPT !.pc = "counted"]
      <4>1. offer' \in Offers /\ offer'.pc = "counted" /\ offer'.event = offer.event
        BY <1>1, <3>2 DEF Offers
      <4> HIDE DEF inside
      <4> QED
        BY <1>1, <1>6, <1>7, <3>1, <3>2, <4>1
    <3>3. CASE UNCHANGED <<queued, offer>>
      BY <1>1, <1>6, <1>7, <3>1, <3>3
    <3> QED
      BY <3>1, <3>2, <3>3
  <2>2. CASE offer_generation
    <3> DEFINE event == [generation |-> generation, begun |-> senderLog.begun,
                         config |-> Newest]
    <3>1. /\ offer.pc = "counted" /\ UNCHANGED <<queued, events>>
          /\ offer' = [pc |-> "send", event |-> event]
      BY <2>2 DEF offer_generation, Offer
    <3>2. event \in Event /\ event.generation = generation /\ event.begun = senderLog.begun
      <4>1. Newest \in Config
        BY SenderTypes DEF SenderInv, Newest, Posts, Lives
      <4> QED
        BY <1>1, <4>1 DEF Event, SenderLogs
    <3>3. Bit(Due) \in {0, 1} /\ senderLog.begun \in Int /\ generation \in Int
      BY <1>1, SenderBounds DEF Bit, SenderLogs
    <3>4. IsAhead(event)
      BY <3>2, <3>3 DEF IsAhead, Lead
    <3> HIDE DEF event
    <3>5. offer' \in Offers /\ offer'.pc = "send" /\ offer'.event = event
      BY <3>1, <3>2 DEF Offers
    <3> HIDE DEF inside
    <3> QED
      BY <1>1, <1>6, <1>7, <3>1, <3>4, <3>5
  <2>3. CASE offer_send
    <3>1. /\ offer.pc = "send" /\ offer' = [pc |-> "idle", event |-> NoEvent]
          /\ \/ /\ Len(events) < SenderCapacity /\ events' = Append(events, offer.event)
                /\ queued' = queued
             \/ queued' = queued - 1 /\ events' = events
      BY <2>3 DEF offer_send, Offer
    <3>2. offer' \in Offers /\ offer'.pc = "idle" /\ offer'.event = NoEvent
      BY <3>1, Defaults DEF Offers
    <3>3. IsAhead(NoEvent)
      BY DEF IsAhead, NoEvent, SenderInv, GenerationsAreCounted
    <3>4. CASE /\ Len(events) < SenderCapacity /\ events' = Append(events, offer.event)
               /\ queued' = queued
      <4>1. /\ events' \in Seq(Event) /\ Len(events') = Len(events) + 1
            /\ \A i \in 1..Len(events) : events'[i] = events[i]
            /\ events'[Len(events) + 1] = offer.event
        BY <1>1, <3>4
      <4>2. \A i \in 1..Len(events') : IsAhead(events'[i])
        <5> SUFFICES ASSUME NEW i \in 1..Len(events') PROVE IsAhead(events'[i])
          OBVIOUS
        <5>1. i \in 1..Len(events) \/ i = Len(events) + 1
          BY <1>7, <4>1
        <5>2. CASE i \in 1..Len(events)
          BY <1>6, <4>1, <5>2
        <5>3. CASE i = Len(events) + 1
          BY <1>6, <4>1, <5>3
        <5> QED
          BY <5>1, <5>2, <5>3
      <4>3. Len(events') <= SenderCapacity
        BY <1>7, <3>4, <4>1, SenderBounds
      <4> HIDE DEF inside
      <4> QED
        BY <1>7, <3>1, <3>2, <3>3, <3>4, <4>1, <4>2, <4>3
    <3>5. CASE queued' = queued - 1 /\ events' = events
      <4> HIDE DEF inside
      <4> QED
        BY <1>1, <1>6, <1>7, <3>1, <3>2, <3>3, <3>5
    <3> QED
      BY <3>1, <3>4, <3>5
  <2> QED
    BY <2>1, <2>2, <2>3 DEF TrySend
<1>9. queued' \in 0..SenderCapacity + 2
  <2>1. Len(events') \in Nat
    BY <1>8
  <2> HIDE DEF inside
  <2> QED
    BY <1>7, <1>8, <2>1, SenderBounds
<1>10. SenderTypeOK'
  BY <1>2, <1>3, <1>8, <1>9, SenderTypes DEF SenderInv
<1>11. QueueIsCounted'
  BY <1>2, <1>8 DEF QueueIsCounted
<1>12. EventsAreAhead'
  BY <1>2, <1>4, <1>6, <1>8 DEF EventsAreAhead, IsAhead
<1> QED
  BY <1>4, <1>5, <1>10, <1>11, <1>12 DEF SenderInv, SenderIsAsShown

-----------------------------------------------------------------------------
(* The thread is done with an event, or goes on with it.                   *)
LEMMA DoneKeeps ==
    ASSUME delivery \in Deliveries, Done
    PROVE  /\ delivery' \in Deliveries /\ delivery'.pc = "receive"
           /\ delivery'.mask = 0 /\ delivery'.event = NoEvent
<1>1. 0 \in 0..MaxMasks
  BY SenderBounds
<1> QED
  BY <1>1, Defaults DEF Done, Deliveries

(* It goes on with the event it has.                                       *)
LEMMA TurnsKeeps ==
    ASSUME delivery \in Deliveries,
           NEW pc \in {"receive", "taken", "check", "post", "status", "shoot",
                       "status again", "admit", "upload"},
           Turns(pc)
    PROVE  /\ delivery' \in Deliveries /\ delivery'.pc = pc
           /\ delivery'.mask = delivery.mask /\ delivery'.event = delivery.event
BY DEF Turns, Deliveries

(* What every step of the thread leaves to be shown: its own place, what it *)
(* knows of the mask, and what the picture may show.                       *)
MaskIsKnown ==
    /\ delivery.mask <= mask.generation
    /\ delivery.mask = mask.generation /\ delivery.pc \in {"shoot", "status again", "admit"} =>
         (mask.pc = "command" => ~mask.on)
    /\ delivery.mask = mask.generation /\ delivery.pc \in {"status again", "admit"} =>
         (senderLog.shown => mask.on)

(* A step of the thread that leaves that known keeps the invariant.        *)
LEMMA WorkerKeeps ==
    ASSUME SenderInv, UNCHANGED Others, UNCHANGED <<queued, events>>,
           delivery' \in Deliveries, delivery.pc # "taken", delivery'.pc # "taken",
           delivery'.event \in {delivery.event, NoEvent},
           senderLog' \in SenderLogs, senderLog'.begun = senderLog.begun,
           senderLog'.acknowledged = senderLog.acknowledged,
           senderLeft' \in Leftovers, senderLeft'.changes = senderLeft.changes,
           senderLeft'.masks = senderLeft.masks,
           MaskIsKnown'
    PROVE  SenderInv'
<1>1. UNCHANGED <<sender, live, generation, enabled, offer, saved, request, reading, mask, lock>>
  BY DEF Others
<1>2. SenderTypeOK'
  BY <1>1, SenderTypes DEF SenderInv
<1>3. /\ GenerationsAreCounted' /\ Lead' = Lead /\ RequestIsLive'
      /\ AppliedMeansLive' /\ EnabledIsComplete' /\ MatchesAreTrue' /\ LooksAreTrue'
  BY <1>1, BesideKeeps DEF BesideARequest
<1>4. QueueIsCounted'
  BY <1>1 DEF SenderInv, SenderIsAsShown, QueueIsCounted
<1>5. EventsAreAhead'
  <2>1. Lead \in {-1, 0}
    BY DEF SenderInv, GenerationsAreCounted
  <2>2. NoEvent.begun - NoEvent.generation >= Lead
    BY <2>1 DEF NoEvent
  <2> QED
    BY <1>1, <1>3, <2>2 DEF SenderInv, EventsAreAhead, IsAhead
<1>6. MaskIsCounted'
  BY <1>1 DEF SenderInv, MaskIsCounted, MaskIsKnown
<1> QED
  BY <1>2, <1>3, <1>4, <1>5, <1>6 DEF SenderInv, SenderIsAsShown

(* An event leaves the queue, and is counted out of it in the next step.   *)
LEMMA TakingKeeps ==
    ASSUME SenderInv, receive \/ taken
    PROVE  SenderInv'
<1>1. /\ delivery \in Deliveries /\ events \in Seq(Event) /\ Len(events) \in Nat
      /\ Len(events) <= SenderCapacity /\ queued \in Nat /\ queued \in 0..SenderCapacity + 2
  BY SenderTypes, SenderBounds DEF SenderInv
<1>2. /\ UNCHANGED <<sender, live, generation, enabled, offer, saved, request, reading, mask, lock>>
      /\ UNCHANGED <<senderLog, senderLeft>>
  BY DEF receive, taken, Others
<1>3. /\ GenerationsAreCounted' /\ Lead' = Lead /\ RequestIsLive'
      /\ AppliedMeansLive' /\ EnabledIsComplete' /\ MatchesAreTrue' /\ LooksAreTrue'
  BY <1>2, BesideKeeps DEF BesideARequest
<1> DEFINE outside == IF offer.pc = "idle" THEN 0 ELSE 1
<1>4. /\ outside \in {0, 1} /\ outside' = outside
      /\ queued = Len(events) + outside + (IF delivery.pc = "taken" THEN 1 ELSE 0)
  BY <1>2 DEF SenderInv, SenderIsAsShown, QueueIsCounted
<1>5. /\ \A i \in 1..Len(events) : events[i].begun - events[i].generation >= Lead
      /\ delivery.event.begun - delivery.event.generation >= Lead
      /\ offer.event.begun - offer.event.generation >= Lead
      /\ delivery.mask <= mask.generation
  BY DEF SenderInv, EventsAreAhead, IsAhead, MaskIsCounted
<1>6. CASE receive
  <2>1. /\ delivery.pc = "receive" /\ events # <<>> /\ events' = Tail(events)
        /\ delivery' = [delivery EXCEPT !.pc = "taken", !.event = Head(events)]
        /\ UNCHANGED queued
    BY <1>6 DEF receive, Deliver
  <2>2. /\ Head(events) = events[1] /\ Head(events) \in Event /\ 1 \in 1..Len(events)
        /\ Tail(events) \in Seq(Event) /\ Len(Tail(events)) = Len(events) - 1
        /\ \A i \in 1..Len(Tail(events)) : Tail(events)[i] = events[i + 1]
    BY <1>1, <2>1
  <2>3. /\ delivery' \in Deliveries /\ delivery'.pc = "taken"
        /\ delivery'.event = events[1] /\ delivery'.mask = delivery.mask
    BY <1>1, <2>1, <2>2 DEF Deliveries
  <2>4. /\ events' \in Seq(Event) /\ Len(events') = Len(events) - 1
        /\ Len(events') <= SenderCapacity
    BY <1>1, <2>1, <2>2, SenderBounds
  <2>5. SenderTypeOK'
    BY <1>1, <1>2, <2>1, <2>3, <2>4, SenderTypes DEF SenderInv
  <2>6. queued' = Len(events') + outside + 1
    <3> HIDE DEF outside
    <3> QED
      BY <1>1, <1>4, <2>1, <2>4
  <2>7. QueueIsCounted'
    BY <1>2, <2>3, <2>6 DEF QueueIsCounted
  <2>8. \A i \in 1..Len(events') : events'[i].begun - events'[i].generation >= Lead
    <3> SUFFICES ASSUME NEW i \in 1..Len(events')
                 PROVE  events'[i].begun - events'[i].generation >= Lead
      OBVIOUS
    <3>1. events'[i] = events[i + 1] /\ i + 1 \in 1..Len(events)
      BY <1>1, <2>1, <2>2, <2>4
    <3> QED
      BY <1>5, <3>1
  <2>9. EventsAreAhead'
    BY <1>2, <1>3, <1>5, <2>2, <2>3, <2>8 DEF EventsAreAhead, IsAhead
  <2>10. MaskIsCounted'
    BY <1>2, <2>3 DEF SenderInv, MaskIsCounted
  <2> QED
    BY <1>3, <2>5, <2>7, <2>9, <2>10 DEF SenderInv, SenderIsAsShown
<1>7. CASE taken
  <2>1. /\ delivery.pc = "taken" /\ Turns("check") /\ UNCHANGED events
        /\ queued' = queued - 1
    BY <1>7 DEF taken, Deliver
  <2>2. /\ delivery' \in Deliveries /\ delivery'.pc = "check"
        /\ delivery'.mask = delivery.mask /\ delivery'.event = delivery.event
    BY <1>1, <2>1, TurnsKeeps
  <2>3. queued' = Len(events) + outside /\ queued' \in 0..SenderCapacity + 2
    <3> HIDE DEF outside
    <3> QED
      BY <1>1, <1>4, <2>1, SenderBounds
  <2>4. SenderTypeOK'
    BY <1>1, <1>2, <2>1, <2>2, <2>3, SenderTypes DEF SenderInv
  <2>5. QueueIsCounted'
    BY <1>2, <2>1, <2>2, <2>3 DEF QueueIsCounted
  <2>6. EventsAreAhead' /\ MaskIsCounted'
    BY <1>2, <1>3, <1>5, <2>1, <2>2 DEF SenderInv, EventsAreAhead, IsAhead, MaskIsCounted
  <2> QED
    BY <1>3, <2>4, <2>5, <2>6 DEF SenderInv, SenderIsAsShown
<1> QED
  BY <1>6, <1>7

(* The rest of the thread: what is looked at, taken and sent.              *)
LEMMA DeliveryKeeps ==
    ASSUME SenderInv, check \/ post \/ FtpWorker
    PROVE  SenderInv'
<1>1. /\ delivery \in Deliveries /\ senderLog \in SenderLogs /\ senderLeft \in Leftovers
      /\ live \in Lives /\ mask \in Masks /\ mask.on \in BOOLEAN
      /\ mask.generation \in 0..MaxMasks /\ mask.generation \in Nat
      /\ live.value \in Config
  BY SenderTypes, SenderBounds DEF SenderInv, Masks, Lives
<1>2. UNCHANGED Others /\ UNCHANGED <<queued, events>>
  BY DEF check, post, FtpWorker, ftp_status, ftp_shoot, ftp_admit, ftp_upload
<1>3. UNCHANGED mask
  BY <1>2 DEF Others
<1>4. /\ senderLeft' \in Leftovers /\ senderLeft'.changes = senderLeft.changes
      /\ senderLeft'.masks = senderLeft.masks
  BY <1>1, UsesKeeps
     DEF check, post, FtpWorker, ftp_status, ftp_shoot, ftp_admit, ftp_upload, Unused
<1>5. /\ delivery.mask <= mask.generation
      /\ delivery.mask = mask.generation /\ delivery.pc \in {"shoot", "status again", "admit"} =>
           (mask.pc = "command" => ~mask.on)
      /\ delivery.mask = mask.generation /\ delivery.pc \in {"status again", "admit"} =>
           (senderLog.shown => mask.on)
  BY DEF SenderInv, MaskIsCounted
<1>6. ASSUME Done, UNCHANGED senderLog, delivery.pc # "taken"
      PROVE  SenderInv'
  <2>1. /\ delivery' \in Deliveries /\ delivery'.pc = "receive"
        /\ delivery'.mask = 0 /\ delivery'.event = NoEvent
    BY <1>1, <1>6, DoneKeeps
  <2>2. MaskIsKnown'
    BY <1>1, <1>3, <2>1 DEF MaskIsKnown
  <2> QED
    BY <1>1, <1>2, <1>4, <1>6, <2>1, <2>2, WorkerKeeps
<1>7. CASE check
  <2>1. CASE Done
    BY <1>6, <1>7, <2>1 DEF check, Deliver
  <2>2. CASE ~Done
    <3>1. /\ delivery.pc = "check" /\ UNCHANGED senderLog
          /\ delivery' = [delivery EXCEPT !.pc = IF sender.kind = "ftp" THEN "status" ELSE "post",
                                          !.config = live.value, !.mask = mask.generation]
      BY <1>7, <2>2 DEF check, Deliver
    <3>2. /\ delivery' \in Deliveries /\ delivery'.pc \in {"status", "post"}
          /\ delivery'.mask = mask.generation /\ delivery'.event = delivery.event
      BY <1>1, <3>1 DEF Deliveries
    <3>3. MaskIsKnown'
      <4>1. mask.generation <= mask.generation
        BY <1>1
      <4>2. delivery'.pc \notin {"shoot", "status again", "admit"}
        BY <3>2
      <4> QED
        BY <1>3, <3>2, <4>1, <4>2 DEF MaskIsKnown
    <3> QED
      BY <1>1, <1>2, <1>4, <3>1, <3>2, <3>3, WorkerKeeps
  <2> QED
    BY <2>1, <2>2
<1>8. CASE post \/ ftp_upload
  <2>1. CASE ftp_upload
    BY <1>6, <2>1 DEF ftp_upload, Deliver
  <2>2. CASE post
    <3>1. /\ delivery.pc = "post" /\ Done
          /\ senderLog' = [senderLog EXCEPT !.late = senderLog.late \/ Outdated]
      BY <2>2 DEF post, Deliver
    <3>2. /\ delivery' \in Deliveries /\ delivery'.pc = "receive"
          /\ delivery'.mask = 0 /\ delivery'.event = NoEvent
      BY <1>1, <3>1, DoneKeeps
    <3>3. /\ senderLog' \in SenderLogs /\ senderLog'.begun = senderLog.begun
          /\ senderLog'.acknowledged = senderLog.acknowledged
      BY <1>1, <3>1 DEF SenderLogs, Outdated
    <3>4. MaskIsKnown'
      BY <1>1, <1>3, <3>2 DEF MaskIsKnown
    <3> QED
      BY <1>1, <1>2, <1>4, <3>1, <3>2, <3>3, <3>4, WorkerKeeps
  <2> QED
    BY <1>8, <2>1, <2>2
<1>9. CASE ftp_status("status", "shoot")
  <2>1. CASE Done
    BY <1>6, <1>9, <2>1 DEF ftp_status, Deliver
  <2>2. CASE ~Done
    <3>1. /\ delivery.pc = "status" /\ ~mask.on /\ Turns("shoot") /\ UNCHANGED senderLog
      BY <1>9, <2>2 DEF ftp_status, Deliver
    <3>2. /\ delivery' \in Deliveries /\ delivery'.pc = "shoot"
          /\ delivery'.mask = delivery.mask /\ delivery'.event = delivery.event
      BY <1>1, <3>1, TurnsKeeps
    <3>3. MaskIsKnown'
      BY <1>3, <1>5, <3>1, <3>2 DEF MaskIsKnown
    <3> QED
      BY <1>1, <1>2, <1>4, <3>1, <3>2, <3>3, WorkerKeeps
  <2> QED
    BY <2>1, <2>2
<1>10. CASE ftp_shoot
  <2>1. CASE Done /\ UNCHANGED senderLog
    BY <1>6, <1>10, <2>1 DEF ftp_shoot, Deliver
  <2>2. CASE ~(Done /\ UNCHANGED senderLog)
    <3>1. /\ delivery.pc = "shoot" /\ Turns("status again")
          /\ senderLog' = [senderLog EXCEPT !.shown = mask.on]
      BY <1>10, <2>2 DEF ftp_shoot, Deliver
    <3>2. /\ delivery' \in Deliveries /\ delivery'.pc = "status again"
          /\ delivery'.mask = delivery.mask /\ delivery'.event = delivery.event
      BY <1>1, <3>1, TurnsKeeps
    <3>3. /\ senderLog' \in SenderLogs /\ senderLog'.begun = senderLog.begun
          /\ senderLog'.acknowledged = senderLog.acknowledged /\ senderLog'.shown = mask.on
      BY <1>1, <3>1 DEF SenderLogs
    <3>4. MaskIsKnown'
      BY <1>3, <1>5, <3>1, <3>2, <3>3 DEF MaskIsKnown
    <3> QED
      BY <1>1, <1>2, <1>4, <3>1, <3>2, <3>3, <3>4, WorkerKeeps
  <2> QED
    BY <2>1, <2>2
<1>11. CASE ftp_status("status again", "admit") \/ ftp_admit
  <2>1. CASE Done
    BY <1>6, <1>11, <2>1 DEF ftp_status, ftp_admit, Deliver
  <2>2. CASE ~Done
    <3>1. /\ delivery.pc \in {"status again", "admit"} /\ UNCHANGED senderLog
          /\ \/ delivery.pc = "status again" /\ Turns("admit")
             \/ Turns("upload")
      BY <1>11, <2>2 DEF ftp_status, ftp_admit, Deliver
    <3>2. /\ delivery' \in Deliveries /\ delivery'.pc \in {"admit", "upload"}
          /\ delivery'.mask = delivery.mask /\ delivery'.event = delivery.event
      BY <1>1, <3>1, TurnsKeeps
    <3>3. MaskIsKnown'
      BY <1>3, <1>5, <3>1, <3>2 DEF MaskIsKnown
    <3> QED
      BY <1>1, <1>2, <1>4, <3>1, <3>2, <3>3, WorkerKeeps
  <2> QED
    BY <2>1, <2>2
<1> QED
  BY <1>7, <1>8, <1>9, <1>10, <1>11 DEF FtpWorker

-----------------------------------------------------------------------------
(* A privacy command has a generation of its own before the camera is told, *)
(* so that what is in hand cannot be older than the last one that ended.   *)
LEMMA PrivacyKeeps ==
    ASSUME SenderInv, privacy_ends \/ \E on \in BOOLEAN : privacy_begins(on)
    PROVE  SenderInv'
<1>1. /\ mask \in Masks /\ senderLog \in SenderLogs /\ senderLeft \in Leftovers
      /\ mask.generation \in Nat /\ senderLeft.masks \in Nat /\ delivery \in Deliveries
      /\ delivery.mask \in Nat /\ mask.on \in BOOLEAN /\ mask.to \in BOOLEAN
      /\ MaxMasks \in Nat
  <2>1. /\ mask \in Masks /\ senderLog \in SenderLogs /\ senderLeft \in Leftovers
        /\ delivery \in Deliveries
    BY SenderTypes DEF SenderInv
  <2>2. mask.generation \in Nat /\ mask.on \in BOOLEAN /\ mask.to \in BOOLEAN
    BY <2>1, SenderBounds DEF Masks
  <2>3. senderLeft.masks \in Nat
    BY <2>1, SenderBounds DEF Leftovers
  <2>4. delivery.mask \in Nat
    <3>1. delivery.mask \in 0..MaxMasks
      BY <2>1 DEF Deliveries
    <3> QED
      BY <3>1, SenderBounds
  <2> QED
    BY <2>1, <2>2, <2>3, <2>4, SenderBounds
<1>2. UNCHANGED <<sender, live, generation, enabled, queued, events, offer, delivery,
                  saved, request, reading>>
  BY DEF privacy_ends, privacy_begins
<1>3. /\ delivery.mask <= mask.generation
      /\ mask.generation + senderLeft.masks <= MaxMasks
      /\ delivery.mask = mask.generation /\ delivery.pc \in {"shoot", "status again", "admit"} =>
           (mask.pc = "command" => ~mask.on)
      /\ delivery.mask = mask.generation /\ delivery.pc \in {"status again", "admit"} =>
           (senderLog.shown => mask.on)
  BY DEF SenderInv, MaskIsCounted
<1>4. /\ mask' \in Masks /\ senderLog' \in SenderLogs /\ senderLeft' \in Leftovers
      /\ senderLeft'.changes = senderLeft.changes
      /\ senderLog'.begun = senderLog.begun
      /\ senderLog'.acknowledged = senderLog.acknowledged
      /\ lock' \in {"none", "request", "privacy"}
      /\ MaskIsCounted'
  <2>1. ASSUME NEW on \in BOOLEAN, privacy_begins(on)
        PROVE  /\ mask' \in Masks /\ senderLog' = senderLog /\ senderLeft' \in Leftovers
               /\ senderLeft'.changes = senderLeft.changes
               /\ lock' \in {"none", "request", "privacy"}
               /\ MaskIsCounted'
    <3>1. /\ senderLog' = senderLog /\ lock' = "privacy" /\ Uses("masks")
          /\ mask' = [mask EXCEPT !.pc = "command", !.to = on, !.generation = @ + 1]
          /\ senderLeft.masks > 0
      BY <2>1 DEF privacy_begins, Uses
    <3>2. /\ senderLeft' \in Leftovers /\ senderLeft'.changes = senderLeft.changes
          /\ senderLeft'.masks = senderLeft.masks - 1
      BY <1>1, <3>1, UsesKeeps
    <3> DEFINE next == mask.generation + 1
    <3>3. next \in 0..MaxMasks
      <4>1. /\ mask.generation \in Nat /\ senderLeft.masks \in Nat /\ MaxMasks \in Nat
            /\ senderLeft.masks > 0 /\ mask.generation + senderLeft.masks <= MaxMasks
        BY <1>1, <1>3, <3>1
      <4> QED
        BY ONLY <4>1
    <3>4. mask' \in Masks /\ mask'.generation = next
      <4>1. mask' = [mask EXCEPT !.pc = "command", !.to = on, !.generation = next]
        BY <3>1
      <4> HIDE DEF next
      <4> QED
        BY <1>1, <2>1, <3>3, <4>1 DEF Masks
    <3>5. /\ delivery'.mask <= mask'.generation /\ delivery'.mask # mask'.generation
          /\ mask'.generation + senderLeft'.masks <= MaxMasks
      <4>1. /\ mask.generation \in Nat /\ senderLeft.masks \in Nat /\ MaxMasks \in Nat
            /\ delivery.mask \in Nat /\ delivery.mask <= mask.generation
            /\ mask.generation + senderLeft.masks <= MaxMasks
        BY <1>1, <1>3
      <4>2. /\ delivery'.mask = delivery.mask /\ mask'.generation = mask.generation + 1
            /\ senderLeft'.masks = senderLeft.masks - 1
        BY <1>2, <3>2, <3>4
      <4> QED
        BY ONLY <4>1, <4>2
    <3> QED
      BY <3>1, <3>2, <3>4, <3>5 DEF MaskIsCounted
  <2>2. CASE privacy_ends
    <3>1. /\ mask.pc = "command" /\ lock' = "none"
          /\ \/ mask' = [mask EXCEPT !.pc = "idle", !.on = mask.to, !.to = FALSE] /\ Unused
             \/ mask' = [mask EXCEPT !.pc = "idle", !.to = FALSE] /\ Uses("failures")
          /\ senderLog' = [senderLog EXCEPT !.shown = senderLog.shown \/ mask'.on]
      BY <2>2 DEF privacy_ends
    <3>2. /\ senderLeft' \in Leftovers /\ senderLeft'.changes = senderLeft.changes
          /\ senderLeft'.masks = senderLeft.masks
      BY <1>1, <3>1, UsesKeeps DEF Unused
    <3>3. /\ mask' \in Masks /\ mask'.pc = "idle" /\ mask'.generation = mask.generation
          /\ mask'.on \in BOOLEAN
          /\ mask'.on = mask.on \/ mask'.on = mask.to
      BY <1>1, <3>1 DEF Masks
    <3>4. /\ senderLog' \in SenderLogs /\ senderLog'.begun = senderLog.begun
          /\ senderLog'.acknowledged = senderLog.acknowledged
          /\ senderLog'.shown = (senderLog.shown \/ mask'.on)
      BY <1>1, <3>1, <3>3 DEF SenderLogs
    <3>5. delivery.mask = mask.generation /\ delivery.pc \in {"status again", "admit"} =>
            (senderLog'.shown => mask'.on)
      BY <1>3, <3>1, <3>4
    <3>6. MaskIsCounted'
      BY <1>2, <1>3, <3>2, <3>3, <3>5 DEF MaskIsCounted
    <3> QED
      BY <3>1, <3>2, <3>3, <3>4, <3>6
  <2> QED
    BY <1>1, <2>1, <2>2
<1>5. SenderTypeOK'
  BY <1>2, <1>4, SenderTypes DEF SenderInv
<1>6. /\ GenerationsAreCounted' /\ Lead' = Lead /\ RequestIsLive'
      /\ AppliedMeansLive' /\ EnabledIsComplete' /\ MatchesAreTrue' /\ LooksAreTrue'
  BY <1>2, <1>4, BesideKeeps DEF BesideARequest
<1>7. EventsAreAhead' /\ QueueIsCounted'
  BY <1>2, <1>6 DEF SenderInv, SenderIsAsShown, EventsAreAhead, IsAhead, QueueIsCounted
<1> QED
  BY <1>4, <1>5, <1>6, <1>7 DEF SenderInv, SenderIsAsShown

-----------------------------------------------------------------------------
(* A step of a request leaves the queue, the thread and the mask alone; if  *)
(* it moves the generation, then only with a change that has begun.        *)
LEMMA RequestKeeps ==
    ASSUME SenderInv,
           UNCHANGED <<sender, queued, events, offer, delivery, mask>>,
           live' \in Lives, generation' \in 0..MaxChanges + 1, enabled' \in BOOLEAN,
           saved' \in Config, request' \in Posts, reading' \in Gets,
           lock' \in {"none", "request", "privacy"},
           senderLog' \in SenderLogs, senderLog'.shown = senderLog.shown,
           senderLeft' \in Leftovers, senderLeft'.masks = senderLeft.masks,
           Lead' = Lead, GenerationsAreCounted', RequestIsLive',
           AppliedMeansLive', EnabledIsComplete', MatchesAreTrue', LooksAreTrue'
    PROVE  SenderInv'
<1>1. SenderTypeOK'
  BY SenderTypes DEF SenderInv
<1>2. EventsAreAhead' /\ QueueIsCounted' /\ MaskIsCounted'
  BY DEF SenderInv, SenderIsAsShown, EventsAreAhead, IsAhead, QueueIsCounted, MaskIsCounted
<1> QED
  BY <1>1, <1>2 DEF SenderInv, SenderIsAsShown

(* What a GET has met is not forgotten, and what it has not met is not so.  *)
LEMMA MetKeeps ==
    ASSUME SenderInv, Met, saved' \in Config, live' \in Lives,
           live' = live \/ saved' = live'.value
    PROVE  reading' \in Gets /\ MatchesAreTrue' /\ LooksAreTrue'
<1>1. reading \in Gets /\ reading.met \in BOOLEAN
  BY SenderTypes DEF SenderInv, Gets
<1>2. /\ reading' \in Gets /\ reading'.pc = reading.pc /\ reading'.saved = reading.saved
      /\ reading'.matches = reading.matches
      /\ reading'.met = (reading.met \/ (reading.pc # "idle" /\ saved' = live'.value))
  BY <1>1 DEF Met, Gets
<1>3. MatchesAreTrue'
  BY <1>2 DEF SenderInv, SenderIsAsShown, MatchesAreTrue
<1>4. LooksAreTrue'
  BY <1>2 DEF SenderInv, LooksAreTrue
<1> QED
  BY <1>2, <1>3, <1>4

(* What every step of a request starts from.                               *)
LEMMA RequestStarts ==
    ASSUME SenderInv
    PROVE  /\ live \in Lives /\ generation \in 0..MaxChanges + 1 /\ generation \in Nat
           /\ enabled \in BOOLEAN /\ saved \in Config /\ request \in Posts
           /\ reading \in Gets /\ lock \in {"none", "request", "privacy"}
           /\ senderLog \in SenderLogs /\ senderLog.begun \in Nat
           /\ senderLeft \in Leftovers /\ senderLeft.changes \in Nat /\ MaxChanges \in Nat
           /\ request.config \in Config /\ live.value \in Config
           /\ live.generation \in Nat /\ senderLog.acknowledged \in Nat
           /\ Lead \in {-1, 0} /\ GenerationsAreCounted /\ RequestIsLive
           /\ AppliedMeansLive /\ EnabledIsComplete /\ MatchesAreTrue /\ LooksAreTrue
<1>1. /\ live \in Lives /\ generation \in 0..MaxChanges + 1 /\ enabled \in BOOLEAN
      /\ saved \in Config /\ request \in Posts /\ reading \in Gets
      /\ lock \in {"none", "request", "privacy"} /\ senderLog \in SenderLogs
      /\ senderLeft \in Leftovers /\ MaxChanges \in Nat
  BY SenderTypes, SenderBounds DEF SenderInv
<1>2. generation \in Nat
  BY <1>1
<1>3. senderLog.begun \in Nat /\ senderLog.acknowledged \in Nat
  BY <1>1 DEF SenderLogs
<1>4. senderLeft.changes \in Nat
  BY <1>1 DEF Leftovers
<1>5. request.config \in Config /\ live.value \in Config /\ live.generation \in Nat
  BY <1>1 DEF Posts, Lives
<1> QED
  BY <1>1, <1>2, <1>3, <1>4, <1>5 DEF SenderInv, SenderIsAsShown, GenerationsAreCounted

(* The request moves on, or answers.                                       *)
LEMMA StepsKeep ==
    ASSUME request \in Posts
    PROVE  /\ \A pc \in {"save", "apply", "change", "assign", "enable", "answer"} :
                Step(pc) => /\ request' \in Posts /\ request'.pc = pc
                            /\ request'.config = request.config
                            /\ request'.answer = request.answer
           /\ \A answer \in {"applied", "refused", "partial"} :
                Reply(answer) => /\ request' \in Posts /\ request'.pc = "idle"
                                 /\ request'.answer = answer
                                 /\ request'.config = request.config /\ lock' = "none"
BY DEF Step, Reply, Posts

(* A request merges its settings into what the file holds.                 *)
LEMMA BeginKeeps ==
    ASSUME SenderInv, NEW patch \in Patch, request_begins(patch)
    PROVE  SenderInv'
<1>1. /\ request.pc = "idle" /\ Uses("changes") /\ lock' = "request"
      /\ request' = [pc |-> "save", config |-> Merged(patch), answer |-> "none"]
      /\ UNCHANGED <<sender, queued, events, offer, delivery, mask>>
      /\ UNCHANGED <<live, generation, enabled, saved, reading, senderLog>>
  BY DEF request_begins, Request
<1>2. request' \in Posts /\ request'.pc = "save" /\ request'.answer = "none"
  BY <1>1, RequestStarts, MergedKeeps DEF Posts
<1>3. /\ senderLeft' \in Leftovers /\ senderLeft'.masks = senderLeft.masks
      /\ senderLeft'.changes = senderLeft.changes - 1
  BY <1>1, RequestStarts, UsesKeeps
<1>4. Lead' = Lead
  BY <1>1, <1>2 DEF Lead, Due, Bit
<1>5. GenerationsAreCounted'
  <2>1. /\ senderLog.begun + senderLeft.changes + 0 <= MaxChanges
        /\ generation = live.generation + 0
        /\ senderLog.acknowledged - live.generation <= Lead
    BY <1>1, RequestStarts DEF GenerationsAreCounted, Bit
  <2>2. /\ senderLog'.begun + senderLeft'.changes + 1 <= MaxChanges
        /\ generation' = live'.generation + 0
    <3>1. /\ senderLog.begun \in Nat /\ senderLeft.changes \in Nat /\ MaxChanges \in Nat
          /\ generation \in Nat /\ live.generation \in Nat
      BY RequestStarts
    <3>2. /\ senderLog'.begun = senderLog.begun /\ generation' = generation
          /\ live'.generation = live.generation
      BY <1>1
    <3> QED
      BY ONLY <1>3, <2>1, <3>1, <3>2
  <2> QED
    BY <1>1, <1>2, <1>4, <2>1, <2>2, RequestStarts DEF GenerationsAreCounted, Bit
<1>6. RequestIsLive' /\ AppliedMeansLive'
  BY <1>2 DEF RequestIsLive, AppliedMeansLive
<1>7. EnabledIsComplete' /\ MatchesAreTrue' /\ LooksAreTrue'
  BY <1>1, RequestStarts DEF EnabledIsComplete, MatchesAreTrue, LooksAreTrue, validate_domain
<1> QED
  BY <1>1, <1>2, <1>3, <1>4, <1>5, <1>6, <1>7, RequestStarts, RequestKeeps

(* The file is replaced, or not, and a GET is told.                        *)
LEMMA SaveKeeps ==
    ASSUME SenderInv, update_validated_config_domain
    PROVE  SenderInv'
<1>1. /\ request.pc = "save" /\ Met
      /\ UNCHANGED <<sender, queued, events, offer, delivery, mask>>
      /\ UNCHANGED <<live, generation, enabled, senderLog>>
      /\ saved' \in {saved, request.config}
      /\ \/ Step("apply") /\ UNCHANGED lock
         \/ Reply("refused")
  BY DEF update_validated_config_domain, Request
<1>2. /\ senderLeft' \in Leftovers /\ senderLeft'.masks = senderLeft.masks
      /\ senderLeft'.changes = senderLeft.changes
  BY RequestStarts, UsesKeeps DEF update_validated_config_domain, Unused
<1>3. saved' \in Config
  BY <1>1, RequestStarts
<1>4. reading' \in Gets /\ MatchesAreTrue' /\ LooksAreTrue'
  BY <1>1, <1>3, RequestStarts, MetKeeps
<1>5. /\ request' \in Posts /\ lock' \in {"none", "request", "privacy"}
      /\ request'.pc \in {"apply", "idle"}
      /\ request'.pc = "apply" => request'.answer = "none"
      /\ request'.answer # "applied"
  BY <1>1, RequestStarts, StepsKeep DEF RequestIsLive
<1>6. Lead' = Lead
  BY <1>1, <1>5 DEF Lead, Due, Bit
<1>7. GenerationsAreCounted'
  <2>1. /\ senderLog.begun + senderLeft.changes + 1 <= MaxChanges
        /\ generation = live.generation + 0
        /\ senderLog.acknowledged - live.generation <= Lead
    BY <1>1, RequestStarts DEF GenerationsAreCounted, Bit
  <2>2. /\ senderLog.begun + senderLeft.changes + Bit(request'.pc \in {"save", "apply"})
             <= MaxChanges
    BY <2>1, RequestStarts DEF Bit
  <2> QED
    BY <1>1, <1>2, <1>5, <1>6, <2>1, <2>2, RequestStarts DEF GenerationsAreCounted, Bit
<1>8. RequestIsLive' /\ AppliedMeansLive'
  <2>1. request'.pc = "apply" => saved' = request'.config
    BY <1>1, RequestStarts, StepsKeep DEF update_validated_config_domain
  <2> QED
    BY <1>5, <2>1 DEF RequestIsLive, AppliedMeansLive
<1>9. EnabledIsComplete'
  BY <1>1, RequestStarts DEF EnabledIsComplete, validate_domain
<1> QED
  BY <1>1, <1>2, <1>3, <1>4, <1>5, <1>6, <1>7, <1>8, <1>9, RequestStarts, RequestKeeps

(* What cannot be used is refused before anything changes; what can begins. *)
LEMMA ApplyKeeps ==
    ASSUME SenderInv, request_applies
    PROVE  SenderInv'
<1>1. /\ request.pc = "apply"
      /\ UNCHANGED <<sender, queued, events, offer, delivery, mask>>
      /\ UNCHANGED <<live, generation, saved, reading, senderLeft>>
  BY DEF request_applies, Request
<1>2. /\ senderLog.begun + senderLeft.changes + 1 <= MaxChanges
      /\ generation = live.generation
      /\ senderLog.acknowledged - live.generation <= Lead
      /\ Lead = senderLog.begun - generation /\ request.answer = "none"
  BY <1>1, RequestStarts DEF GenerationsAreCounted, Bit, Lead, Due, RequestIsLive
<1>3. MatchesAreTrue' /\ LooksAreTrue' /\ EnabledIsComplete'
  BY <1>1, RequestStarts DEF MatchesAreTrue, LooksAreTrue, EnabledIsComplete, validate_domain
<1>4. CASE ~Usable(request.config)
  <2>1. Reply("partial") /\ UNCHANGED <<enabled, senderLog>>
    BY <1>4 DEF request_applies
  <2>2. /\ request' \in Posts /\ request'.pc = "idle" /\ request'.answer = "partial"
        /\ lock' = "none"
    BY <2>1, RequestStarts, StepsKeep
  <2>3. Lead' = Lead
    BY <1>1, <1>2, <2>1, <2>2, RequestStarts DEF Lead, Due, Bit
  <2>4. GenerationsAreCounted'
    BY <1>1, <1>2, <2>1, <2>2, <2>3, RequestStarts DEF GenerationsAreCounted, Bit
  <2>5. RequestIsLive' /\ AppliedMeansLive'
    BY <2>2 DEF RequestIsLive, AppliedMeansLive
  <2> QED
    BY <1>1, <1>3, <2>1, <2>2, <2>3, <2>4, <2>5, RequestStarts, RequestKeeps
<1>5. CASE Usable(request.config)
  <2>1. /\ enabled' = FALSE /\ Step("change") /\ UNCHANGED lock
        /\ senderLog' = IF request.config = live.value THEN senderLog
                        ELSE [senderLog EXCEPT !.begun = @ + 1]
    BY <1>5 DEF request_applies
  <2>2. /\ request' \in Posts /\ request'.pc = "change" /\ request'.config = request.config
        /\ request'.answer = "none"
    BY <1>2, <2>1, RequestStarts, StepsKeep
  <2> DEFINE more == Bit(live.value # request.config)
  <2>3. more \in {0, 1} /\ senderLog.begun + more \in 0..MaxChanges
    BY <1>2, RequestStarts DEF Bit
  <2>4. /\ senderLog' \in SenderLogs /\ senderLog'.begun = senderLog.begun + more
        /\ senderLog'.acknowledged = senderLog.acknowledged
        /\ senderLog'.shown = senderLog.shown
    <3>1. CASE request.config = live.value
      <4>1. senderLog' = senderLog /\ more = 0
        BY <2>1, <3>1 DEF Bit
      <4> HIDE DEF more
      <4> QED
        BY <4>1, RequestStarts
    <3>2. CASE request.config # live.value
      <4>1. senderLog' = [senderLog EXCEPT !.begun = senderLog.begun + more]
        BY <2>1, <3>2 DEF Bit
      <4> HIDE DEF more
      <4> QED
        BY <2>3, <4>1, RequestStarts DEF SenderLogs
    <3> QED
      BY <3>1, <3>2
  <2>5. Due' <=> live.value # request.config
    BY <1>1, <2>2 DEF Due
  <2>6. Lead' = senderLog'.begun - generation' - more
    BY <2>5 DEF Lead, Bit
  <2> HIDE DEF more
  <2>7. Lead' = Lead
    BY <1>1, <1>2, <2>3, <2>4, <2>6, RequestStarts
  <2>8. GenerationsAreCounted'
    <3>1. /\ senderLog'.begun + senderLeft'.changes + 0 <= MaxChanges
          /\ generation' = live'.generation + 0
      <4>1. /\ senderLog.begun \in Nat /\ senderLeft.changes \in Nat /\ MaxChanges \in Nat
            /\ live.generation \in Nat
        BY RequestStarts
      <4>2. senderLeft'.changes = senderLeft.changes /\ live'.generation = live.generation
            /\ generation' = generation
        BY <1>1
      <4> QED
        BY ONLY <1>2, <2>3, <2>4, <4>1, <4>2
    <3> QED
      BY <1>1, <1>2, <2>2, <2>4, <2>7, <3>1, RequestStarts DEF GenerationsAreCounted, Bit
  <2>9. saved = request.config
    BY <1>1, RequestStarts DEF RequestIsLive
  <2>10. RequestIsLive' /\ AppliedMeansLive'
    BY <1>1, <1>5, <2>2, <2>9 DEF RequestIsLive, AppliedMeansLive, Usable, validate_domain
  <2>11. enabled' \in BOOLEAN
    BY <2>1
  <2> QED
    BY <1>1, <1>3, <2>1, <2>2, <2>4, <2>7, <2>8, <2>10, <2>11, RequestStarts, RequestKeeps
<1> QED
  BY <1>4, <1>5

(* A change that has begun takes a generation of its own.                  *)
LEMMA ChangeKeeps ==
    ASSUME SenderInv, request_changes
    PROVE  SenderInv'
<1>1. /\ request.pc = "change"
      /\ UNCHANGED <<sender, queued, events, offer, delivery, mask>>
      /\ UNCHANGED <<live, enabled, saved, reading, lock, senderLog, senderLeft>>
  BY DEF request_changes, Request
<1>2. /\ senderLog.begun + senderLeft.changes <= MaxChanges
      /\ generation = live.generation /\ request.answer = "none"
      /\ senderLog.acknowledged - live.generation <= Lead
      /\ saved = request.config /\ Usable(request.config)
  BY <1>1, RequestStarts DEF GenerationsAreCounted, Bit, RequestIsLive
<1>3. MatchesAreTrue' /\ LooksAreTrue' /\ EnabledIsComplete'
  BY <1>1, RequestStarts DEF MatchesAreTrue, LooksAreTrue, EnabledIsComplete, validate_domain
<1>4. Due <=> live.value # request.config
  BY <1>1 DEF Due
<1>5. /\ senderLog.begun \in Nat /\ senderLeft.changes \in Nat /\ generation \in Nat
      /\ MaxChanges \in Nat /\ Lead \in {-1, 0} /\ live.generation \in Nat
      /\ senderLog.acknowledged \in Nat
  BY RequestStarts
<1>6. CASE live.value = request.config
  <2>1. Step("enable") /\ UNCHANGED generation
    BY <1>6 DEF request_changes
  <2>2. /\ request' \in Posts /\ request'.pc = "enable" /\ request'.config = request.config
        /\ request'.answer = "none"
    BY <1>2, <2>1, RequestStarts, StepsKeep
  <2>3. Lead' = Lead
    BY <1>1, <1>4, <1>6, <2>1, <2>2 DEF Lead, Due, Bit
  <2>4. GenerationsAreCounted'
    BY <1>1, <1>2, <1>5, <2>1, <2>2, <2>3, RequestStarts DEF GenerationsAreCounted, Bit
  <2>5. RequestIsLive' /\ AppliedMeansLive'
    BY <1>1, <1>2, <1>6, <2>2 DEF RequestIsLive, AppliedMeansLive, Usable, validate_domain
  <2> QED
    BY <1>1, <1>3, <2>1, <2>2, <2>3, <2>4, <2>5, RequestStarts, RequestKeeps
<1>7. CASE live.value # request.config
  <2>1. Step("assign") /\ generation' = generation + 1
    BY <1>7 DEF request_changes
  <2>2. /\ request' \in Posts /\ request'.pc = "assign" /\ request'.config = request.config
        /\ request'.answer = "none"
    BY <1>2, <2>1, RequestStarts, StepsKeep
  <2>3. Lead = senderLog.begun - generation - 1
    BY <1>4, <1>7 DEF Lead, Bit
  <2>4. Lead' = senderLog'.begun - generation' - 0
    BY <2>2 DEF Lead, Due, Bit
  <2>5. Lead' = Lead
    BY <1>1, <1>5, <2>1, <2>3, <2>4
  <2>6. generation' \in 0..MaxChanges + 1
    BY ONLY <1>2, <1>5, <2>1, <2>3
  <2>7. GenerationsAreCounted'
    BY <1>1, <1>2, <1>5, <2>1, <2>2, <2>5, RequestStarts DEF GenerationsAreCounted, Bit
  <2>8. RequestIsLive' /\ AppliedMeansLive'
    BY <1>1, <1>2, <2>2 DEF RequestIsLive, AppliedMeansLive, Usable, validate_domain
  <2> QED
    BY <1>1, <1>3, <2>1, <2>2, <2>5, <2>6, <2>7, <2>8, RequestStarts, RequestKeeps
<1> QED
  BY <1>6, <1>7

(* The settings and their generation become live together.                 *)
LEMMA AssignKeeps ==
    ASSUME SenderInv, request_assigns
    PROVE  SenderInv'
<1>1. /\ request.pc = "assign" /\ Step("enable") /\ Met
      /\ UNCHANGED <<sender, queued, events, offer, delivery, mask>>
      /\ UNCHANGED <<generation, enabled, saved, lock, senderLog, senderLeft>>
      /\ live' = [value |-> request.config, generation |-> generation]
  BY DEF request_assigns, Request
<1>2. /\ senderLog.begun + senderLeft.changes <= MaxChanges
      /\ generation = live.generation + 1 /\ request.answer = "none"
      /\ senderLog.acknowledged - live.generation <= Lead
      /\ saved = request.config /\ Usable(request.config)
  BY <1>1, RequestStarts DEF GenerationsAreCounted, Bit, RequestIsLive
<1>3. /\ request' \in Posts /\ request'.pc = "enable" /\ request'.config = request.config
      /\ request'.answer = "none"
  BY <1>1, <1>2, RequestStarts, StepsKeep
<1>4. live' \in Lives /\ live'.value = request.config /\ live'.generation = generation
  BY <1>1, RequestStarts DEF Lives
<1>5. reading' \in Gets /\ MatchesAreTrue' /\ LooksAreTrue'
  <2>1. saved' \in Config /\ saved' = live'.value
    BY <1>1, <1>2, <1>4, RequestStarts
  <2> QED
    BY <1>1, <1>4, <2>1, MetKeeps
<1>6. Lead' = Lead
  BY <1>1, <1>3 DEF Lead, Due, Bit
<1>7. GenerationsAreCounted'
  <2>1. senderLog'.acknowledged - live'.generation <= Lead'
    <3>1. /\ senderLog.acknowledged \in Nat /\ live.generation \in Nat /\ generation \in Nat
          /\ Lead \in Int
      BY RequestStarts
    <3>2. senderLog'.acknowledged = senderLog.acknowledged
      BY <1>1
    <3> QED
      BY ONLY <1>2, <1>4, <1>6, <3>1, <3>2
  <2> QED
    BY <1>1, <1>2, <1>3, <1>4, <1>6, <2>1, RequestStarts DEF GenerationsAreCounted, Bit
<1>8. RequestIsLive' /\ AppliedMeansLive'
  BY <1>1, <1>2, <1>3, <1>4 DEF RequestIsLive, AppliedMeansLive, Usable, validate_domain
<1>9. EnabledIsComplete'
  BY <1>1, <1>2, <1>4 DEF EnabledIsComplete, Usable, validate_domain
<1> QED
  BY <1>1, <1>3, <1>4, <1>5, <1>6, <1>7, <1>8, <1>9, RequestStarts, RequestKeeps

(* The poller may offer events again.                                      *)
LEMMA EnableKeeps ==
    ASSUME SenderInv, request_enables
    PROVE  SenderInv'
<1>1. /\ request.pc = "enable" /\ Step("answer") /\ enabled' = request.config.enabled
      /\ UNCHANGED <<sender, queued, events, offer, delivery, mask>>
      /\ UNCHANGED <<live, generation, saved, reading, lock, senderLog, senderLeft>>
  BY DEF request_enables, Request
<1>2. /\ senderLog.begun + senderLeft.changes <= MaxChanges
      /\ generation = live.generation /\ request.answer = "none"
      /\ senderLog.acknowledged - live.generation <= Lead
      /\ saved = request.config /\ Usable(request.config) /\ live.value = request.config
  BY <1>1, RequestStarts DEF GenerationsAreCounted, Bit, RequestIsLive
<1>3. /\ request' \in Posts /\ request'.pc = "answer" /\ request'.config = request.config
      /\ request'.answer = "none"
  BY <1>1, <1>2, RequestStarts, StepsKeep
<1>4. Lead' = Lead
  BY <1>1, <1>3 DEF Lead, Due, Bit
<1>5. GenerationsAreCounted'
  BY <1>1, <1>2, <1>3, <1>4, RequestStarts DEF GenerationsAreCounted, Bit
<1>6. enabled' \in BOOLEAN
  BY <1>1, RequestStarts DEF Config
<1>7. RequestIsLive' /\ AppliedMeansLive'
  BY <1>1, <1>2, <1>3 DEF RequestIsLive, AppliedMeansLive, Usable, validate_domain
<1>8. MatchesAreTrue' /\ LooksAreTrue' /\ EnabledIsComplete'
  BY <1>1, RequestStarts DEF MatchesAreTrue, LooksAreTrue, EnabledIsComplete, validate_domain
<1> QED
  BY <1>1, <1>3, <1>4, <1>5, <1>6, <1>7, <1>8, RequestStarts, RequestKeeps

(* What is acknowledged is all that has begun, and it is live.             *)
LEMMA AnswerKeeps ==
    ASSUME SenderInv, request_answers
    PROVE  SenderInv'
<1>1. /\ request.pc = "answer"
      /\ UNCHANGED <<sender, queued, events, offer, delivery, mask>>
      /\ UNCHANGED <<live, generation, enabled, saved, reading, senderLeft>>
  BY DEF request_answers, Request
<1>2. /\ senderLog.begun + senderLeft.changes <= MaxChanges
      /\ generation = live.generation /\ request.answer = "none"
      /\ senderLog.acknowledged - live.generation <= Lead
      /\ saved = request.config /\ live.value = request.config
      /\ enabled = request.config.enabled
      /\ Lead = senderLog.begun - generation - 0
  BY <1>1, RequestStarts DEF GenerationsAreCounted, Bit, RequestIsLive, Lead, Due
<1>3. /\ request' \in Posts /\ request'.pc = "idle" /\ request'.config = request.config
      /\ lock' = "none"
      /\ request'.answer = "applied" => (request.config.enabled => sender.running)
      /\ senderLog' = senderLog \/ Acknowledges
  BY <1>1, <1>2, RequestStarts, StepsKeep DEF request_answers
<1>4. /\ senderLog' \in SenderLogs /\ senderLog'.begun = senderLog.begun
      /\ senderLog'.shown = senderLog.shown
      /\ senderLog'.acknowledged \in {senderLog.acknowledged, senderLog.begun}
  BY <1>3, RequestStarts DEF SenderLogs, Acknowledges
<1>5. Lead' = senderLog'.begun - generation' - 0
  BY <1>3 DEF Lead, Due, Bit
<1>6. Lead' = Lead
  BY <1>1, <1>2, <1>4, <1>5
<1>7. GenerationsAreCounted'
  <2>1. senderLog'.acknowledged - live'.generation <= Lead'
    BY <1>1, <1>2, <1>4, <1>6, RequestStarts
  <2> QED
    BY <1>1, <1>2, <1>3, <1>4, <1>6, <2>1, RequestStarts DEF GenerationsAreCounted, Bit
<1>8. RequestIsLive'
  BY <1>3 DEF RequestIsLive
<1>9. AppliedMeansLive'
  BY <1>1, <1>2, <1>3 DEF AppliedMeansLive
<1>10. MatchesAreTrue' /\ LooksAreTrue' /\ EnabledIsComplete'
  BY <1>1, RequestStarts DEF MatchesAreTrue, LooksAreTrue, EnabledIsComplete, validate_domain
<1> QED
  BY <1>1, <1>3, <1>4, <1>6, <1>7, <1>8, <1>9, <1>10, RequestStarts, RequestKeeps

-----------------------------------------------------------------------------
(* Whatever the service, a step is one of these.                           *)
LEMMA SenderNextSplits ==
    ASSUME SenderNext
    PROVE  \/ SenderRequest \/ Applies \/ SenderLook \/ TrySend \/ PlainWorker \/ FtpWorker
           \/ \E patch \in Patch : request_begins(patch)
           \/ privacy_ends \/ \E on \in BOOLEAN : privacy_begins(on)
<1>1. SenderPatches \subseteq Patch
  BY SenderAssumption
<1>2. receive \/ taken \/ check => PlainWorker
  BY DEF PlainWorker
<1> QED
  BY <1>1, <1>2 DEF SenderNext,
     webhook_request, webhook_apply, webhook_config, webhook_offer, webhook_worker,
     ntfy_request, ntfy_apply, ntfy_config, ntfy_offer, ntfy_worker,
     gotify_request, gotify_apply, gotify_config, gotify_offer, gotify_worker,
     telegram_request, telegram_apply, telegram_config, telegram_offer, telegram_worker,
     email_request, email_apply, email_config, email_offer, email_worker,
     ftp_request, ftp_apply, ftp_config, ftp_offer, ftp_worker

(* A step of a sender, of what configures it or of privacy.                *)
LEMMA SenderStepKeeps ==
    ASSUME SenderInv, SenderNext
    PROVE  SenderInv'
<1>1. CASE SenderRequest
  BY <1>1, SaveKeeps, AnswerKeeps DEF SenderRequest
<1>2. CASE Applies
  BY <1>2, ApplyKeeps, ChangeKeeps, AssignKeeps, EnableKeeps DEF Applies
<1>3. CASE SenderLook
  BY <1>3, LookKeeps
<1>4. CASE TrySend
  BY <1>4, OfferKeeps
<1>5. CASE PlainWorker \/ FtpWorker
  BY <1>5, TakingKeeps, DeliveryKeeps DEF PlainWorker
<1>6. CASE \E patch \in Patch : request_begins(patch)
  BY <1>6, BeginKeeps
<1>7. CASE privacy_ends \/ \E on \in BOOLEAN : privacy_begins(on)
  BY <1>7, PrivacyKeeps
<1> QED
  BY <1>1, <1>2, <1>3, <1>4, <1>5, <1>6, <1>7, SenderNextSplits

(* What the invariant says holds whenever nothing moves.                   *)
LEMMA SenderRestKeeps == SenderInv /\ UNCHANGED senderVars => SenderInv'
<1> SUFFICES ASSUME SenderInv, UNCHANGED senderVars PROVE SenderInv'
  OBVIOUS
<1>1. /\ UNCHANGED <<sender, live, generation, enabled, queued, events, offer, delivery>>
      /\ UNCHANGED <<saved, request, reading, mask, lock, senderLog, senderLeft>>
  BY DEF senderVars
<1>2. /\ GenerationsAreCounted' /\ Lead' = Lead /\ RequestIsLive'
      /\ AppliedMeansLive' /\ EnabledIsComplete' /\ MatchesAreTrue' /\ LooksAreTrue'
  BY <1>1, BesideKeeps DEF BesideARequest
<1> QED
  BY <1>1, <1>2, RequestStarts, RequestKeeps, SenderTypes DEF SenderInv

(* The invariant the statements below rest on: types, generations that     *)
(* count what has begun, events that are not older than they say, a        *)
(* request that has made live what it saved, a mask that is counted.       *)
THEOREM SenderInvariance == SenderSpec => []SenderInv
<1>1. SenderInv /\ [SenderNext]_senderVars => SenderInv'
  BY SenderStepKeeps, SenderRestKeeps
<1> QED
  BY <1>1, SenderInitEstablishes, PTL DEF SenderSpec

(* What the interface says of a sender is so: of all six, for any number   *)
(* of requests, events and failures and any length of the queue.           *)
THEOREM SenderStaysAsShown == SenderSpec => []SenderIsAsShown
<1>1. SenderInv => SenderIsAsShown
  BY DEF SenderInv
<1> QED
  BY <1>1, SenderInvariance, PTL

-----------------------------------------------------------------------------
(* An event on its way stands for settings that were or are to be live, and *)
(* for no newer ones than its generation says.                             *)
OnItsWay ==
    {events[i] : i \in 1..Len(events)}
      \union (IF offer.pc = "send" THEN {offer.event} ELSE {})
      \union (IF delivery.pc # "receive" THEN {delivery.event} ELSE {})
KeepsItsSettings(event) ==
    /\ event.generation <= generation
    /\ event.generation = live.generation => event.config = live.value
    /\ request.pc = "assign" /\ event.generation = generation => event.config = request.config

SendPoints == {"post", "status", "shoot", "status again", "admit", "upload"}
EventsKeepTheirSettings ==
    /\ \A event \in OnItsWay : KeepsItsSettings(event)
    /\ delivery.pc \in SendPoints => delivery.config = delivery.event.config

(* Once an older event has been posted, the one in hand is not older.      *)
LateIsOver == senderLog.late /\ delivery.pc = "post" => ~Outdated

SendingInv == EventsKeepTheirSettings /\ LateIsOver

(* What an event is.                                                       *)
LEMMA EventsAreNumbered ==
    ASSUME SenderInv
    PROVE  /\ \A event \in OnItsWay : event \in Event
           /\ \A event \in Event : event.generation \in Nat /\ event.begun \in Nat
           /\ delivery \in Deliveries /\ delivery.event \in Event
           /\ offer \in Offers /\ offer.event \in Event
           /\ events \in Seq(Event) /\ Len(events) \in Nat
<1>1. /\ delivery \in Deliveries /\ offer \in Offers /\ events \in Seq(Event)
  BY SenderTypes DEF SenderInv
<1>2. /\ delivery.event \in Event /\ offer.event \in Event
      /\ \A i \in 1..Len(events) : events[i] \in Event
  <2>1. delivery.event \in Event
    BY <1>1 DEF Deliveries
  <2>2. offer.event \in Event
    BY <1>1 DEF Offers
  <2>3. \A i \in 1..Len(events) : events[i] \in Event
    BY ONLY <1>1
  <2> QED
    BY <2>1, <2>2, <2>3
<1>3. \A event \in Event : event.generation \in Nat /\ event.begun \in Nat
  BY SenderBounds DEF Event
<1> QED
  BY <1>1, <1>2, <1>3 DEF OnItsWay

(* An event of the live generation was queued after all that is            *)
(* acknowledged had begun.                                                 *)
LEMMA LiveIsNotOld ==
    ASSUME SenderInv, live.generation = delivery.event.generation
    PROVE  ~Outdated
<1>1. /\ delivery.event.begun - delivery.event.generation >= Lead
      /\ senderLog.acknowledged - live.generation <= Lead
  BY DEF SenderInv, EventsAreAhead, IsAhead, GenerationsAreCounted
<1>2. /\ delivery.event.begun \in Int /\ live.generation \in Int
      /\ senderLog.acknowledged \in Int /\ Lead \in Int
  BY EventsAreNumbered, RequestStarts
<1>3. delivery.event.begun >= senderLog.acknowledged
  BY ONLY <1>1, <1>2, live.generation = delivery.event.generation
<1> QED
  BY <1>2, <1>3 DEF Outdated

(* What is on its way stays so, or a new event joins it: it stands for the  *)
(* newest settings.                                                        *)
LEMMA JoinersAreNew ==
    ASSUME SenderInv, SendingInv, SenderNext
    PROVE  \/ OnItsWay' \subseteq OnItsWay
           \/ /\ offer_generation
              /\ OnItsWay' \subseteq OnItsWay \union
                     {[generation |-> generation, begun |-> senderLog.begun, config |-> Newest]}
<1>1. /\ delivery \in Deliveries /\ offer \in Offers
      /\ events \in Seq(Event) /\ Len(events) \in Nat
  BY EventsAreNumbered
<1>2. ASSUME UNCHANGED <<events, offer>>,
             \/ UNCHANGED delivery
             \/ delivery'.pc = "receive"
             \/ delivery.pc # "receive" /\ delivery'.event = delivery.event
      PROVE  OnItsWay' \subseteq OnItsWay
  BY <1>2 DEF OnItsWay
<1>3. CASE SenderRequest \/ Applies
  <2>1. UNCHANGED <<events, offer, delivery>>
    BY <1>3 DEF SenderRequest, Applies, update_validated_config_domain, request_answers,
       request_applies, request_changes, request_assigns, request_enables, Request
  <2> QED
    BY <1>2, <2>1
<1>4. CASE SenderLook \/ privacy_ends \/ (\E on \in BOOLEAN : privacy_begins(on))
           \/ \E patch \in Patch : request_begins(patch)
  <2>1. UNCHANGED <<events, offer, delivery>>
    BY <1>4 DEF SenderLook, look_begins, public_config, UnlockedLook, privacy_ends,
       privacy_begins, request_begins, Request
  <2> QED
    BY <1>2, <2>1
<1>5. CASE offer_counted
  <2>1. UNCHANGED <<events, delivery>> /\ offer.pc = "idle" /\ offer'.pc # "send"
    BY <1>1, <1>5 DEF offer_counted, Offer, Offers
  <2> QED
    BY <2>1 DEF OnItsWay
<1>6. CASE offer_generation
  <2>1. UNCHANGED <<events, delivery>>
    BY <1>6 DEF offer_generation, Offer
  <2>2. offer'.event = [generation |-> generation, begun |-> senderLog.begun, config |-> Newest]
    BY <1>6 DEF offer_generation
  <2> QED
    BY <1>6, <2>1, <2>2 DEF OnItsWay
<1>7. CASE offer_send
  <2>1. /\ UNCHANGED delivery /\ offer.pc = "send" /\ offer'.pc # "send"
        /\ events' = Append(events, offer.event) \/ events' = events
    BY <1>7 DEF offer_send, Offer
  <2>2. \A i \in 1..Len(events') : events'[i] = offer.event \/
            (i \in 1..Len(events) /\ events'[i] = events[i])
    BY <1>1, <2>1, EventsAreNumbered
  <2> QED
    BY <2>1, <2>2 DEF OnItsWay
<1>8. CASE receive
  <2>1. /\ events # <<>> /\ events' = Tail(events) /\ UNCHANGED offer
        /\ delivery' = [delivery EXCEPT !.pc = "taken", !.event = Head(events)]
    BY <1>8 DEF receive, Deliver, Others
  <2>2. /\ delivery'.event = events[1] /\ 1 \in 1..Len(events)
        /\ \A i \in 1..Len(events') : i + 1 \in 1..Len(events) /\ events'[i] = events[i + 1]
    <3>1. /\ Head(events) = events[1] /\ 1 \in 1..Len(events)
          /\ \A i \in 1..Len(events') : i + 1 \in 1..Len(events) /\ events'[i] = events[i + 1]
      BY <1>1, <2>1
    <3>2. delivery'.event = Head(events)
      BY <1>1, <2>1 DEF Deliveries
    <3> QED
      BY <3>1, <3>2
  <2> QED
    BY <2>1, <2>2 DEF OnItsWay
<1>9. CASE taken \/ check \/ post \/ FtpWorker
  <2>1. UNCHANGED <<events, offer>> /\ delivery.pc # "receive"
    BY <1>9 DEF taken, check, post, FtpWorker, ftp_status, ftp_shoot, ftp_admit, ftp_upload,
       Deliver, Others
  <2>2. delivery'.pc = "receive" \/ delivery'.event = delivery.event
    BY <1>1, <1>9 DEF taken, check, post, FtpWorker, ftp_status, ftp_shoot, ftp_admit,
       ftp_upload, Done, Turns, Deliveries
  <2> QED
    BY <1>2, <2>1, <2>2
<1> QED
  BY <1>3, <1>4, <1>5, <1>6, <1>7, <1>8, <1>9, SenderNextSplits
     DEF TrySend, PlainWorker

(* The settings an event stands for do not change under it: a generation    *)
(* is moved on before new settings take its place, and never comes back.   *)
LEMMA SettingsAreKept ==
    ASSUME SenderInv, SenderNext, NEW event \in Event, KeepsItsSettings(event)
    PROVE  KeepsItsSettings(event)'
<1>1. /\ event.generation \in Nat /\ generation \in Nat /\ live.generation \in Nat
      /\ generation = live.generation + Bit(request.pc = "assign") /\ request \in Posts
  BY EventsAreNumbered, RequestStarts DEF GenerationsAreCounted
<1>2. ASSUME UNCHANGED <<live, generation>>,
             UNCHANGED request \/ request'.pc # "assign"
      PROVE  KeepsItsSettings(event)'
  BY <1>2 DEF KeepsItsSettings
<1>3. CASE request_changes
  <2>1. CASE Step("enable") /\ UNCHANGED generation
    <3>1. UNCHANGED live /\ request'.pc = "enable"
      BY <1>1, <1>3, <2>1, StepsKeep DEF request_changes
    <3> QED
      BY <1>2, <2>1, <3>1
  <2>2. CASE generation' = generation + 1
    <3>1. UNCHANGED live /\ event.generation # generation'
          /\ event.generation <= generation'
      BY <1>1, <1>3, <2>2 DEF request_changes, KeepsItsSettings
    <3> QED
      BY <3>1 DEF KeepsItsSettings
  <2> QED
    BY <1>3, <2>1, <2>2 DEF request_changes
<1>4. CASE request_assigns
  <2>1. /\ request.pc = "assign" /\ Step("enable") /\ UNCHANGED generation
        /\ live' = [value |-> request.config, generation |-> generation]
    BY <1>4 DEF request_assigns, Request
  <2>2. request'.pc = "enable"
    BY <1>1, <2>1, StepsKeep
  <2> QED
    BY <2>1, <2>2 DEF KeepsItsSettings
<1>5. CASE SenderRequest \/ request_applies \/ request_enables
  <2>1. UNCHANGED <<live, generation>>
    BY <1>5 DEF SenderRequest, update_validated_config_domain, request_answers,
       request_applies, request_enables
  <2>2. \/ Step("apply") \/ Step("change") \/ Step("answer")
        \/ Reply("applied") \/ Reply("refused") \/ Reply("partial")
    BY <1>5 DEF SenderRequest, update_validated_config_domain, request_answers,
       request_applies, request_enables
  <2>3. request'.pc # "assign"
    BY <1>1, <2>2, StepsKeep
  <2> QED
    BY <1>2, <2>1, <2>3
<1>6. CASE \E patch \in Patch : request_begins(patch)
  BY <1>2, <1>6 DEF request_begins
<1>7. CASE SenderLook \/ TrySend \/ PlainWorker \/ FtpWorker
           \/ privacy_ends \/ \E on \in BOOLEAN : privacy_begins(on)
  <2>1. UNCHANGED <<live, generation, request>>
    BY <1>7 DEF SenderLook, look_begins, public_config, UnlockedLook, TrySend, offer_counted,
       offer_generation, offer_send, Offer, PlainWorker, receive, taken, check, post,
       FtpWorker, ftp_status, ftp_shoot, ftp_admit, ftp_upload, Others,
       privacy_ends, privacy_begins
  <2> QED
    BY <1>2, <2>1
<1> QED
  BY <1>3, <1>4, <1>5, <1>6, <1>7, SenderNextSplits DEF Applies

(* The thread clones the settings its event stands for, and keeps both     *)
(* until it is done.                                                       *)
LEMMA CheckedIsKept ==
    ASSUME SenderInv, SendingInv, SenderNext, delivery'.pc \in SendPoints
    PROVE  delivery'.config = delivery'.event.config
<1>1. delivery \in Deliveries
  BY EventsAreNumbered
<1>2. CASE UNCHANGED delivery
  BY <1>2 DEF SendingInv, EventsKeepTheirSettings
<1>3. CASE check
  <2>1. ~Done
    BY <1>1 DEF Done, Deliveries, SendPoints
  <2>2. /\ delivery.pc = "check" /\ live.generation = delivery.event.generation
        /\ delivery' = [delivery EXCEPT !.pc = IF sender.kind = "ftp" THEN "status" ELSE "post",
                                        !.config = live.value, !.mask = mask.generation]
    BY <1>3, <2>1 DEF check, Deliver
  <2>3. delivery'.config = live.value /\ delivery'.event = delivery.event
    BY <1>1, <2>2 DEF Deliveries
  <2>4. KeepsItsSettings(delivery.event)
    BY <2>2 DEF SendingInv, EventsKeepTheirSettings, OnItsWay
  <2> QED
    BY <2>2, <2>3, <2>4 DEF KeepsItsSettings
<1>4. CASE receive \/ taken \/ post \/ ftp_upload
  BY <1>1, <1>4 DEF receive, taken, post, ftp_upload, Done, Turns, Deliveries, SendPoints
<1>5. CASE FtpWorker /\ ~ftp_upload
  <2>1. ~Done
    BY <1>1 DEF Done, Deliveries, SendPoints
  <2>2. /\ delivery.pc \in SendPoints
        /\ \E pc \in SendPoints : Turns(pc)
    BY <1>5, <2>1 DEF FtpWorker, ftp_status, ftp_shoot, ftp_admit, Deliver, SendPoints
  <2>3. delivery'.config = delivery.config /\ delivery'.event = delivery.event
    BY <1>1, <2>2 DEF Turns, Deliveries
  <2> QED
    BY <2>2, <2>3 DEF SendingInv, EventsKeepTheirSettings
<1>6. \/ UNCHANGED delivery \/ check \/ receive \/ taken \/ post \/ FtpWorker
  <2>1. SenderRequest \/ Applies \/ SenderLook \/ TrySend => UNCHANGED delivery
    BY DEF SenderRequest, Applies, update_validated_config_domain, request_answers,
       request_applies, request_changes, request_assigns, request_enables, Request,
       SenderLook, look_begins, public_config, UnlockedLook,
       TrySend, offer_counted, offer_generation, offer_send, Offer
  <2>2. privacy_ends \/ (\E on \in BOOLEAN : privacy_begins(on))
          \/ (\E patch \in Patch : request_begins(patch)) => UNCHANGED delivery
    BY DEF privacy_ends, privacy_begins, request_begins, Request
  <2> QED
    BY <2>1, <2>2, SenderNextSplits DEF PlainWorker
<1> QED
  BY <1>2, <1>3, <1>4, <1>5, <1>6

(* After an older event has been posted, only the acknowledgement of a new  *)
(* change can make the one in hand older.                                  *)
LEMMA LateStaysOver ==
    ASSUME SenderInv, SendingInv, SenderNext
    PROVE  LateIsOver'
<1>1. delivery \in Deliveries /\ senderLog \in SenderLogs
  BY EventsAreNumbered, RequestStarts
<1>2. ASSUME delivery'.pc # "post" PROVE LateIsOver'
  BY <1>2 DEF LateIsOver
<1>3. ASSUME UNCHANGED delivery, senderLog'.late = senderLog.late,
             senderLog'.acknowledged = senderLog.acknowledged
      PROVE  LateIsOver'
  BY <1>3 DEF SendingInv, LateIsOver, Outdated
<1>4. CASE check
  <2>1. CASE Done
    BY <1>1, <1>2, <2>1 DEF Done, Deliveries
  <2>2. CASE ~Done
    <3>1. /\ live.generation = delivery.event.generation /\ UNCHANGED senderLog
          /\ delivery' = [delivery EXCEPT !.pc = IF sender.kind = "ftp" THEN "status" ELSE "post",
                                          !.config = live.value, !.mask = mask.generation]
      BY <1>4, <2>2 DEF check
    <3>2. delivery'.event = delivery.event
      BY <1>1, <3>1 DEF Deliveries
    <3> QED
      BY <3>1, <3>2, LiveIsNotOld DEF LateIsOver, Outdated
  <2> QED
    BY <2>1, <2>2
<1>5. CASE receive \/ taken \/ post \/ FtpWorker
  <2>1. delivery'.pc # "post"
    BY <1>1, <1>5 DEF receive, taken, post, FtpWorker, ftp_status, ftp_shoot, ftp_admit,
       ftp_upload, Done, Turns, Deliveries
  <2> QED
    BY <1>2, <2>1
<1>6. CASE request_answers
  <2>1. UNCHANGED delivery /\ (senderLog' = senderLog \/ Acknowledges)
    BY <1>6 DEF request_answers, Request
  <2>2. CASE Acknowledges
    <3>1. /\ senderLog'.acknowledged = senderLog.begun
          /\ senderLog'.late = (senderLog.late /\ senderLog.acknowledged = senderLog.begun)
      BY <1>1, <2>2 DEF Acknowledges, SenderLogs
    <3> QED
      BY <2>1, <3>1 DEF SendingInv, LateIsOver, Outdated
  <2> QED
    BY <1>3, <2>1, <2>2
<1>7. CASE request_applies
  <2>1. UNCHANGED delivery /\ (senderLog' = senderLog \/
                               senderLog' = [senderLog EXCEPT !.begun = senderLog.begun + 1])
    BY <1>7 DEF request_applies, Request
  <2>2. senderLog'.late = senderLog.late /\ senderLog'.acknowledged = senderLog.acknowledged
    BY <1>1, <2>1 DEF SenderLogs
  <2> QED
    BY <1>3, <2>1, <2>2
<1>8. CASE privacy_ends
  <2>1. /\ UNCHANGED delivery
        /\ senderLog' = [senderLog EXCEPT !.shown = senderLog.shown \/ mask'.on]
    BY <1>8 DEF privacy_ends
  <2>2. senderLog'.late = senderLog.late /\ senderLog'.acknowledged = senderLog.acknowledged
    BY <1>1, <2>1 DEF SenderLogs
  <2> QED
    BY <1>3, <2>1, <2>2
<1>9. CASE update_validated_config_domain \/ request_changes \/ request_assigns
           \/ request_enables \/ (\E patch \in Patch : request_begins(patch))
  <2>1. UNCHANGED <<delivery, senderLog>>
    BY <1>9 DEF update_validated_config_domain, request_changes, request_assigns,
       request_enables, request_begins, Request
  <2> QED
    BY <1>3, <2>1
<1>10. CASE SenderLook \/ TrySend \/ \E on \in BOOLEAN : privacy_begins(on)
  <2>1. UNCHANGED <<delivery, senderLog>>
    BY <1>10 DEF SenderLook, look_begins, public_config, UnlockedLook, TrySend, offer_counted,
       offer_generation, offer_send, Offer, privacy_begins
  <2> QED
    BY <1>3, <2>1
<1> QED
  BY <1>4, <1>5, <1>6, <1>7, <1>8, <1>9, <1>10, SenderNextSplits
     DEF SenderRequest, Applies, PlainWorker

(* Every step keeps what is known of the events on their way.              *)
LEMMA SendingStepKeeps ==
    ASSUME SenderInv, SendingInv, SenderNext
    PROVE  SendingInv'
<1>1. \A event \in OnItsWay : KeepsItsSettings(event) /\ event \in Event
  BY EventsAreNumbered DEF SendingInv, EventsKeepTheirSettings
<1>2. \A event \in OnItsWay' : KeepsItsSettings(event)'
  <2> SUFFICES ASSUME NEW event \in OnItsWay' PROVE KeepsItsSettings(event)'
    OBVIOUS
  <2>1. CASE event \in OnItsWay
    BY <1>1, <2>1, SettingsAreKept
  <2>2. CASE event \notin OnItsWay
    <3>1. /\ offer_generation
          /\ event = [generation |-> generation, begun |-> senderLog.begun, config |-> Newest]
      BY <2>2, JoinersAreNew
    <3>2. UNCHANGED <<live, generation, request>>
      BY <3>1 DEF offer_generation, Offer
    <3>3. /\ event.generation = generation /\ event.config = Newest
          /\ generation \in Nat /\ live.generation \in Nat
          /\ generation = live.generation + Bit(request.pc = "assign")
      BY <3>1, RequestStarts DEF GenerationsAreCounted
    <3> QED
      BY <3>2, <3>3 DEF KeepsItsSettings, Newest, Bit
  <2> QED
    BY <2>1, <2>2
<1> QED
  BY <1>2, CheckedIsKept, LateStaysOver DEF SendingInv, EventsKeepTheirSettings

(* Of the events on their way nothing is known but what is on its way.     *)
LEMMA SendingRestKeeps == SendingInv /\ UNCHANGED senderVars => SendingInv'
BY DEF SendingInv, EventsKeepTheirSettings, OnItsWay, KeepsItsSettings, LateIsOver, Outdated,
   senderVars

(* An event on its way carries the settings its generation stands for, and  *)
(* what has been checked goes with these.                                  *)
THEOREM SendingInvariance == SenderSpec => []SendingInv
<1>1. SenderInit => SendingInv
  <2> SUFFICES ASSUME SenderInit PROVE SendingInv
    OBVIOUS
  <2>1. events = <<>> /\ offer.pc = "idle" /\ delivery.pc = "receive"
    BY DEF SenderInit
  <2>2. OnItsWay = {}
    BY <2>1 DEF OnItsWay
  <2> QED
    BY <2>1, <2>2 DEF SendingInv, EventsKeepTheirSettings, LateIsOver, SendPoints
<1>2. SenderInv /\ SendingInv /\ [SenderNext]_senderVars => SendingInv'
  BY SendingStepKeeps, SendingRestKeeps
<1> QED
  BY <1>1, <1>2, SenderInvariance, PTL DEF SenderSpec

(* What is sent goes where it was queued for; after a change has been       *)
(* acknowledged no older event is sent but the one that was in hand; and no *)
(* picture is that shows what is masked.                                   *)
THEOREM NothingStaleGoesOut == SenderSpec => NothingStaleIsSent
<1>1. ASSUME SenderInv, ftp_admit, delivery'.pc = "upload"
      PROVE  /\ delivery.pc = "admit" /\ live.generation = delivery.event.generation
             /\ ~senderLog.shown
  <2>1. ~Done
    <3>1. delivery \in Deliveries
      BY <1>1, SenderTypes DEF SenderInv
    <3> QED
      BY <1>1, <3>1 DEF Done, Deliveries
  <2> QED
    BY <1>1, <2>1 DEF ftp_admit, Deliver, SenderInv, MaskIsCounted
<1>2. ASSUME SenderInv, SendingInv, Sends
      PROVE  /\ delivery.config = delivery.event.config
             /\ Outdated => post /\ ~senderLog.late
  <2>1. CASE post
    <3>1. delivery.pc = "post"
      BY <2>1 DEF post, Deliver
    <3> QED
      BY <1>2, <2>1, <3>1 DEF SendingInv, EventsKeepTheirSettings, LateIsOver, SendPoints
  <2>2. CASE ftp_admit /\ delivery'.pc = "upload"
    BY <1>1, <1>2, <2>2, LiveIsNotOld DEF SendingInv, EventsKeepTheirSettings, SendPoints
  <2> QED
    BY <1>2, <2>1, <2>2 DEF Sends
<1>3. SenderInv /\ SendingInv =>
        [EventsGoAsQueued /\ OldEventsAreDiscarded /\ PicturesArePrivate]_senderVars
  BY <1>1, <1>2 DEF EventsGoAsQueued, OldEventsAreDiscarded, PicturesArePrivate
<1> QED
  BY <1>3, SenderInvariance, SendingInvariance, PTL DEF NothingStaleIsSent

(***************************************************************************)
(* The credentials.                                                        *)
(***************************************************************************)

Attempt    == [source : Addresses, at : Times]
Limiters   == [window_started : Times \union {-1}, global_attempts : 0..GlobalLimit,
               source_attempts : [Addresses -> 0..SourceLimit]]
Verifiers  == [pc : {"idle", "verify", "insert"}, hash : Files]
ChangePoints == {"idle", "lock", "password", "onvif", "readback", "undo", "restore", "answer"}
Handlings  == [pc : ChangePoints, wanted : Files, shadow : Files, onvif : Files,
               updated : {"none", "ok", "error", "partial"}]
CredLogs   == [admitted : Seq(Attempt),
               answer : {"none", "refused", "ok", "failed", "partial"},
               wanted : Files, before : Passwords \X Files, remained : SUBSET Logins]

SessionsAreKept ==
    /\ DOMAIN sessions \subseteq Logins /\ Cardinality(DOMAIN sessions) <= SessionLimit
    /\ \A id \in DOMAIN sessions : sessions[id] \in Session

(* Who is past the lock has it, and what the files hold follows from how    *)
(* far they are: what they must put back is what the change before left.   *)
MustWait(h) == h.pc \in {"idle", "lock"}
LockIsTheirs == \A c \in Changers : updates = c <=> ~MustWait(change[c])
PhaseAgrees(h) ==
    /\ h.pc # "idle" => h.wanted \in Passwords
    /\ h.pc = "password" => <<shadow, onvif>> = credLog.before
    /\ h.pc \in {"onvif", "readback", "undo", "restore"} => h.shadow = credLog.before[1]
    /\ h.pc \in {"onvif", "readback"} => shadow = h.wanted
    /\ h.pc = "onvif" => onvif = credLog.before[2]
    /\ h.pc \in {"readback", "undo"} => h.onvif = credLog.before[2]
    /\ h.pc = "restore" => /\ h.updated \in {"error", "partial"}
                           /\ h.updated = "error" => onvif = credLog.before[2]
    /\ h.pc = "answer" => /\ h.updated = "ok" => shadow = h.wanted /\ onvif = h.wanted
                          /\ h.updated = "error" => <<shadow, onvif>> = credLog.before
PhasesAgree == \A c \in Changers : PhaseAgrees(change[c])
FilesAreTogether ==
    updates = Torn =>
        /\ credLog.answer = "ok"     => shadow = credLog.wanted /\ onvif = credLog.wanted
        /\ credLog.answer = "failed" => <<shadow, onvif>> = credLog.before
PasswordsInv == LockIsTheirs /\ PhasesAgree /\ FilesAreTogether

(* The number of a session to come is not one a session has had.           *)
ToCome == credLeft.logins + Bit(login.pc # "idle")
SessionsAreNumbered ==
    /\ \A id \in DOMAIN sessions \union credLog.remained : id > ToCome
    /\ ToCome <= CredentialBounds.logins
    /\ clock + credLeft.ticks <= CredentialBounds.ticks
SessionsEnd ==
    credLog.answer \in {"ok", "partial"} => DOMAIN sessions \intersect credLog.remained = {}
SessionsInv == SessionsAreNumbered /\ SessionsEnd

(* The attempts in a group that were admitted from one time to another.    *)
Within(log, G, lo, hi) == {i \in 1..Len(log) : log[i].source \in G /\ log[i].at \in lo..hi}

(* A window counts its own attempts, and of those before it no more than    *)
(* the limit are less than a window's time before it.                      *)
Limited(log, began, G, count, limit) ==
    /\ Cardinality(Within(log, G, began, began + Window - 1)) <= count
    /\ \A t \in Times : t > began - Window =>
                          Cardinality(Within(log, G, t, began - 1)) <= limit
    /\ \A t \in Times : Cardinality(Within(log, G, t, t + Window - 1)) <= 2 * limit
InWindow(log, began, now) ==
    \A i \in 1..Len(log) : log[i].at <= now /\ log[i].at < began + Window /\ began # -1
AttemptsInv ==
    /\ limiter.window_started <= clock
    /\ InWindow(credLog.admitted, limiter.window_started, clock)
    /\ Limited(credLog.admitted, limiter.window_started, Addresses,
               limiter.global_attempts, GlobalLimit)
    /\ \A source \in Addresses :
         Limited(credLog.admitted, limiter.window_started, {source},
                 limiter.source_attempts[source], SourceLimit)

CredInv == CredentialTypeOK /\ credLog \in CredLogs /\ PasswordsInv /\ SessionsInv /\ AttemptsInv

-----------------------------------------------------------------------------
(* The type invariant, by its named sets.                                  *)
LEMMA CredTypes ==
    /\ CredentialTypeOK <=>
         /\ shadow \in Passwords /\ onvif \in Files /\ apiKey \in BOOLEAN
         /\ SessionsAreKept /\ limiter \in Limiters /\ clock \in Times
         /\ login \in Verifiers /\ change \in [Changers -> Handlings]
         /\ updates \in Changers \union {Torn}
         /\ credLog.answer \in {"none", "refused", "ok", "failed", "partial"}
         /\ credLeft \in CredentialBudget
    /\ CredentialTypeOK' <=>
         /\ shadow' \in Passwords /\ onvif' \in Files /\ apiKey' \in BOOLEAN
         /\ SessionsAreKept' /\ limiter' \in Limiters /\ clock' \in Times
         /\ login' \in Verifiers /\ change' \in [Changers -> Handlings]
         /\ updates' \in Changers \union {Torn}
         /\ credLog'.answer \in {"none", "refused", "ok", "failed", "partial"}
         /\ credLeft' \in CredentialBudget
BY DEF CredentialTypeOK, SessionsAreKept, Limiters, Verifiers, Handlings, ChangePoints

(* What the constants are, for the provers.                                *)
LEMMA CredBounds ==
    /\ Torn \notin Passwords /\ Torn \notin Changers
    /\ SessionLimit \in Nat /\ SessionLimit > 0 /\ SourceLimit \in Nat /\ SourceLimit > 0
    /\ GlobalLimit \in Nat /\ GlobalLimit > 0 /\ Window \in Nat /\ Window > 0
    /\ CredentialBounds.logins \in Nat /\ CredentialBounds.changes \in Nat
    /\ CredentialBounds.failures \in Nat /\ CredentialBounds.ticks \in Nat
    /\ Times \subseteq Nat /\ Logins \subseteq Nat /\ 0 \in Times
<1>1. /\ CredentialBounds.logins \in Nat /\ CredentialBounds.changes \in Nat
      /\ CredentialBounds.failures \in Nat /\ CredentialBounds.ticks \in Nat
  BY CredentialAssumption
<1>2. Times \subseteq Nat /\ Logins \subseteq Nat /\ 0 \in Times
  BY <1>1 DEF Times, Logins
<1>3. {SessionLimit, SourceLimit, GlobalLimit, Window, IdleAge} \subseteq Nat \ {0}
  BY CredentialAssumption
<1>4. Torn \notin Passwords /\ Torn \notin Changers
  BY CredentialAssumption
<1> QED
  BY <1>1, <1>2, <1>3, <1>4

(* A bound is drawn one at a time, and nothing else with it.               *)
LEMMA DrawsKeeps ==
    ASSUME credLeft \in CredentialBudget,
           NEW resource \in {"logins", "changes", "failures", "ticks"}, Draws(resource)
    PROVE  /\ credLeft' \in CredentialBudget
           /\ resource # "logins" => credLeft'.logins = credLeft.logins
           /\ resource # "ticks" => credLeft'.ticks = credLeft.ticks
           /\ resource = "logins" => credLeft'.logins = credLeft.logins - 1 /\ credLeft.logins > 0
           /\ resource = "ticks" => credLeft'.ticks = credLeft.ticks - 1 /\ credLeft.ticks > 0
<1>1. credLeft[resource] > 0 /\ credLeft' = [credLeft EXCEPT ![resource] = @ - 1]
  BY DEF Draws
<1>2. CASE resource = "logins"
  BY <1>1, <1>2, CredBounds DEF CredentialBudget
<1>3. CASE resource = "changes"
  BY <1>1, <1>3, CredBounds DEF CredentialBudget
<1>4. CASE resource = "failures"
  BY <1>1, <1>4, CredBounds DEF CredentialBudget
<1>5. CASE resource = "ticks"
  BY <1>1, <1>5, CredBounds DEF CredentialBudget
<1> QED
  BY <1>2, <1>3, <1>4, <1>5

-----------------------------------------------------------------------------
(* Attempts are finitely many, and more of them are not fewer.             *)
LEMMA WithinIsFinite ==
    ASSUME NEW log \in Seq(Attempt), NEW G, NEW lo, NEW hi
    PROVE  /\ IsFiniteSet(Within(log, G, lo, hi))
           /\ Cardinality(Within(log, G, lo, hi)) \in Nat
<1>1. IsFiniteSet(1..Len(log))
  BY FS_Interval
<1>2. Within(log, G, lo, hi) \subseteq 1..Len(log)
  BY DEF Within
<1>3. IsFiniteSet(Within(log, G, lo, hi))
  BY <1>1, <1>2, FS_Subset
<1> QED
  BY <1>3, FS_CardinalityType

(* The same for the attempts of two stretches of time.                     *)
LEMMA WithinGrows ==
    ASSUME NEW log \in Seq(Attempt), NEW G, NEW lo, NEW hi, NEW lo2, NEW hi2,
           Within(log, G, lo, hi) \subseteq Within(log, G, lo2, hi2)
    PROVE  Cardinality(Within(log, G, lo, hi)) <= Cardinality(Within(log, G, lo2, hi2))
BY WithinIsFinite, FS_Subset

(* An attempt more is counted if it is in the group and in the time.       *)
LEMMA WithinAppends ==
    ASSUME NEW log \in Seq(Attempt), NEW e \in Attempt, NEW G, NEW lo, NEW hi
    PROVE  /\ Append(log, e) \in Seq(Attempt)
           /\ e.source \in G /\ e.at \in lo..hi =>
                Cardinality(Within(Append(log, e), G, lo, hi)) =
                Cardinality(Within(log, G, lo, hi)) + 1
           /\ ~(e.source \in G /\ e.at \in lo..hi) =>
                Within(Append(log, e), G, lo, hi) = Within(log, G, lo, hi)
<1> DEFINE more == Append(log, e)
           last == Len(log) + 1
<1>1. /\ more \in Seq(Attempt) /\ Len(log) \in Nat /\ Len(more) = last
      /\ more[last] = e /\ \A i \in 1..Len(log) : more[i] = log[i]
  OBVIOUS
<1>2. 1..last = 1..Len(log) \union {last} /\ last \notin 1..Len(log)
  BY <1>1
<1> HIDE DEF more, last
<1>3. ASSUME e.source \in G, e.at \in lo..hi
      PROVE  Cardinality(Within(more, G, lo, hi)) = Cardinality(Within(log, G, lo, hi)) + 1
  <2>1. Within(more, G, lo, hi) = Within(log, G, lo, hi) \union {last}
    BY <1>1, <1>2, <1>3 DEF Within
  <2>2. last \notin Within(log, G, lo, hi)
    BY <1>2 DEF Within
  <2> QED
    BY <2>1, <2>2, WithinIsFinite, FS_AddElement
<1>4. ASSUME ~(e.source \in G /\ e.at \in lo..hi)
      PROVE  Within(more, G, lo, hi) = Within(log, G, lo, hi)
  BY <1>1, <1>2, <1>4 DEF Within
<1> QED
  BY <1>1, <1>3, <1>4 DEF more

(* A new window has counted nothing, and what is less than a window's time  *)
(* before it was all counted by the last one.                              *)
LEMMA WindowTurns ==
    ASSUME NEW log \in Seq(Attempt), NEW began \in Times \union {-1}, NEW now \in Times,
           NEW G, NEW limit \in Nat, NEW count \in 0..limit,
           began = -1 \/ now - began >= Window,
           InWindow(log, began, now), Limited(log, began, G, count, limit)
    PROVE  InWindow(log, now, now) /\ Limited(log, now, G, 0, limit)
<1>1. /\ now \in Nat /\ Window \in Nat /\ Window > 0 /\ began \in Int /\ count <= limit
      /\ Times \subseteq Nat
  BY CredBounds
<1>2. \A i \in 1..Len(log) : /\ log[i].at \in Nat /\ log[i].at <= now
                             /\ log[i].at < began + Window /\ began # -1
  <2>1. \A i \in 1..Len(log) : log[i] \in Attempt
    OBVIOUS
  <2> QED
    BY <1>1, <2>1 DEF InWindow, Attempt
<1>3. InWindow(log, now, now)
  BY <1>1, <1>2 DEF InWindow
<1>4. Cardinality(Within(log, G, now, now + Window - 1)) <= 0
  <2>1. \A i \in 1..Len(log) : log[i].at < now
    BY <1>1, <1>2
  <2>2. Within(log, G, now, now + Window - 1) = {}
    BY <1>1, <1>2, <2>1 DEF Within
  <2>3. Cardinality(Within(log, G, now, now + Window - 1)) = 0
    BY <2>2, FS_EmptySet, Zenon
  <2> QED
    BY <2>3
<1>5. ASSUME NEW t \in Times, t > now - Window
      PROVE  Cardinality(Within(log, G, t, now - 1)) <= limit
  <2> DEFINE here == Within(log, G, t, now - 1)
             there == Within(log, G, began, began + Window - 1)
  <2>1. here \subseteq there
    <3> SUFFICES ASSUME NEW i \in here PROVE i \in there
      OBVIOUS
    <3>1. i \in 1..Len(log) /\ log[i].source \in G /\ log[i].at >= t /\ log[i].at \in Nat
      BY <1>2 DEF Within
    <3>2. log[i].at < began + Window /\ began # -1
      BY <1>2, <3>1
    <3>3. log[i].at \in began..began + Window - 1
      <4>1. t \in Nat
        BY <1>1
      <4>2. now - began >= Window
        BY <3>2
      <4>3. ASSUME NEW a \in Nat, a >= t, a < began + Window
            PROVE  a \in began..began + Window - 1
        BY ONLY <1>1, <1>5, <4>1, <4>2, <4>3
      <4> QED
        BY ONLY <3>1, <3>2, <4>3
    <3> QED
      BY <3>1, <3>3 DEF Within
  <2>2. Cardinality(here) <= Cardinality(there)
    BY <2>1, WithinGrows
  <2>3. Cardinality(there) <= count
    BY DEF Limited
  <2>4. Cardinality(here) \in Nat /\ Cardinality(there) \in Nat
    BY WithinIsFinite
  <2> HIDE DEF here, there
  <2>5. Cardinality(here) <= limit
    BY <1>1, <2>2, <2>3, <2>4
  <2> QED
    BY <2>5 DEF here
<1> QED
  BY <1>3, <1>4, <1>5 DEF Limited

(* An attempt in the window is one more of it, and at most a limit of those *)
(* before the window are near enough to it to be looked at together.       *)
LEMMA WindowAdmits ==
    ASSUME NEW log \in Seq(Attempt), NEW began \in Times, NEW now \in Times,
           NEW G, NEW limit \in Nat, NEW count \in 0..limit, count < limit,
           NEW e \in Attempt, e.at = now, e.source \in G,
           began <= now, now - began < Window, InWindow(log, began, now),
           Limited(log, began, G, count, limit)
    PROVE  Limited(Append(log, e), began, G, count + 1, limit)
<1> DEFINE more == Append(log, e)
<1>1. /\ now \in Nat /\ Window \in Nat /\ Window > 0 /\ began \in Nat /\ Times \subseteq Nat
      /\ count \in Nat
  BY CredBounds
<1>2. more \in Seq(Attempt)
  OBVIOUS
<1>3. Cardinality(Within(more, G, began, began + Window - 1)) <= count + 1
  <2>1. now \in began..began + Window - 1
    BY <1>1
  <2>2. Cardinality(Within(more, G, began, began + Window - 1)) =
        Cardinality(Within(log, G, began, began + Window - 1)) + 1
    BY <2>1, WithinAppends
  <2>3. Cardinality(Within(log, G, began, began + Window - 1)) \in Nat
    BY WithinIsFinite
  <2>4. Cardinality(Within(log, G, began, began + Window - 1)) <= count
    BY DEF Limited
  <2> QED
    BY <1>1, <2>2, <2>3, <2>4
<1>4. ASSUME NEW t \in Times, t > began - Window
      PROVE  Cardinality(Within(more, G, t, began - 1)) <= limit
  <2>1. now \notin t..began - 1
    BY <1>1
  <2>2. Within(more, G, t, began - 1) = Within(log, G, t, began - 1)
    BY <2>1, WithinAppends
  <2> QED
    BY <1>4, <2>2 DEF Limited
<1>5. ASSUME NEW t \in Times
      PROVE  Cardinality(Within(more, G, t, t + Window - 1)) <= 2 * limit
  <2>1. CASE now \notin t..t + Window - 1
    <3>1. Within(more, G, t, t + Window - 1) = Within(log, G, t, t + Window - 1)
      BY <2>1, WithinAppends
    <3> QED
      BY <3>1 DEF Limited
  <2>2. CASE now \in t..t + Window - 1
    <3> DEFINE here == Within(more, G, t, t + Window - 1)
               old  == Within(more, G, t, began - 1)
               new  == Within(more, G, began, began + Window - 1)
    <3>1. here \subseteq old \union new
      <4> SUFFICES ASSUME NEW i \in here, i \notin old PROVE i \in new
        OBVIOUS
      <4>1. i \in 1..Len(more) /\ more[i].source \in G /\ more[i].at \in t..t + Window - 1
        BY DEF Within
      <4>2. more[i].at \in Nat
        <5>1. more[i] \in Attempt
          BY <1>2, <4>1
        <5> QED
          BY <1>1, <5>1 DEF Attempt
      <4>3. more[i].at >= began
        <5>1. more[i].at \notin t..began - 1
          BY <4>1 DEF Within
        <5>2. t \in Nat
          BY <1>1
        <5> QED
          BY <1>1, <4>1, <4>2, <5>1, <5>2
      <4>4. more[i].at <= began + Window - 1
        <5>1. more[i].at <= now
          <6>1. \A j \in 1..Len(log) : log[j].at <= now /\ more[j] = log[j]
            BY DEF InWindow
          <6>2. Len(more) = Len(log) + 1 /\ more[Len(log) + 1] = e /\ Len(log) \in Nat
            OBVIOUS
          <6>3. i \in 1..Len(log) \/ i = Len(log) + 1
            BY <4>1, <6>2
          <6> QED
            BY <1>1, <6>1, <6>2, <6>3
        <5>2. \A at \in Nat : at <= now => at <= began + Window - 1
          BY <1>1
        <5> QED
          BY <4>2, <5>1, <5>2
      <4> QED
        BY <1>1, <4>1, <4>2, <4>3, <4>4 DEF Within
    <3>2. /\ IsFiniteSet(old) /\ IsFiniteSet(new) /\ Cardinality(old) \in Nat
          /\ Cardinality(new) \in Nat /\ IsFiniteSet(here) /\ Cardinality(here) \in Nat
      BY <1>2, WithinIsFinite
    <3>3. Cardinality(old) <= limit
      <4>1. t > began - Window
        BY <1>1, <2>2
      <4> QED
        BY <1>4, <4>1
    <3>4. Cardinality(new) <= limit
      BY <1>1, <1>3, <3>2
    <3> HIDE DEF here, old, new
    <3>5. /\ IsFiniteSet(old \union new)
          /\ Cardinality(old \union new) =
             Cardinality(old) + Cardinality(new) - Cardinality(old \intersect new)
      BY <3>2, FS_Union
    <3>6. Cardinality(old \intersect new) \in Nat
      <4>1. IsFiniteSet(old \intersect new)
        BY <3>2, FS_Intersection
      <4> QED
        BY <4>1, FS_CardinalityType
    <3>7. Cardinality(here) <= Cardinality(old \union new)
      BY <3>1, <3>5, FS_Subset
    <3>8. Cardinality(here) <= 2 * limit
      BY <3>2, <3>3, <3>4, <3>5, <3>6, <3>7
    <3> QED
      BY <3>8 DEF here
  <2> QED
    BY <2>1, <2>2
<1> QED
  BY <1>3, <1>4, <1>5 DEF Limited

(* An attempt of another source counts for nothing here.                   *)
LEMMA WindowIgnores ==
    ASSUME NEW log \in Seq(Attempt), NEW began, NEW G, NEW limit, NEW count,
           NEW e \in Attempt, e.source \notin G, Limited(log, began, G, count, limit)
    PROVE  Limited(Append(log, e), began, G, count, limit)
<1>1. \A lo, hi : Within(Append(log, e), G, lo, hi) = Within(log, G, lo, hi)
  BY WithinAppends
<1> QED
  BY <1>1 DEF Limited

-----------------------------------------------------------------------------
(* What every step starts from.                                            *)
LEMMA CredStarts ==
    ASSUME CredInv
    PROVE  /\ shadow \in Passwords /\ onvif \in Files /\ apiKey \in BOOLEAN
           /\ SessionsAreKept /\ limiter \in Limiters /\ clock \in Times /\ clock \in Nat
           /\ login \in Verifiers /\ change \in [Changers -> Handlings]
           /\ updates \in Changers \union {Torn} /\ credLeft \in CredentialBudget
           /\ credLeft.logins \in Nat /\ credLeft.ticks \in Nat
           /\ credLog \in CredLogs /\ credLog.admitted \in Seq(Attempt)
           /\ PasswordsInv /\ SessionsInv /\ AttemptsInv
<1>1. /\ shadow \in Passwords /\ onvif \in Files /\ apiKey \in BOOLEAN
      /\ SessionsAreKept /\ limiter \in Limiters /\ clock \in Times
      /\ login \in Verifiers /\ change \in [Changers -> Handlings]
      /\ updates \in Changers \union {Torn} /\ credLeft \in CredentialBudget
  BY CredTypes DEF CredInv
<1>2. credLeft.logins \in Nat /\ credLeft.ticks \in Nat
  BY <1>1, CredBounds DEF CredentialBudget
<1>3. clock \in Nat
  BY <1>1, CredBounds
<1>4. credLog \in CredLogs /\ credLog.admitted \in Seq(Attempt)
  BY DEF CredInv, CredLogs
<1> QED
  BY <1>1, <1>2, <1>3, <1>4 DEF CredInv

(* Nobody's handler moves.                                                 *)
LEMMA PasswordsRest ==
    ASSUME PasswordsInv, UNCHANGED <<shadow, onvif, change, updates>>,
           credLog'.answer = credLog.answer, credLog'.wanted = credLog.wanted,
           credLog'.before = credLog.before
    PROVE  PasswordsInv'
<1>1. LockIsTheirs' /\ FilesAreTogether'
  BY DEF PasswordsInv, LockIsTheirs, FilesAreTogether
<1>2. PhasesAgree'
  BY DEF PasswordsInv, PhasesAgree, PhaseAgrees
<1> QED
  BY <1>1, <1>2 DEF PasswordsInv

(* Sessions end, or are used once more.                                    *)
LEMMA SessionsShrink ==
    ASSUME CredInv, DOMAIN sessions' \subseteq DOMAIN sessions,
           \A id \in DOMAIN sessions' : sessions'[id] \in Session,
           login'.pc = login.pc, credLeft'.logins = credLeft.logins,
           clock' + credLeft'.ticks <= CredentialBounds.ticks,
           credLog'.remained = credLog.remained, credLog'.answer = credLog.answer
    PROVE  SessionsAreKept' /\ SessionsInv'
<1>1. /\ DOMAIN sessions \subseteq Logins /\ Cardinality(DOMAIN sessions) <= SessionLimit
  BY CredStarts DEF SessionsAreKept
<1>2. IsFiniteSet(DOMAIN sessions)
  <2>1. \A n \in Nat : IsFiniteSet(1..n)
    BY FS_Interval
  <2>2. IsFiniteSet(1..CredentialBounds.logins)
    BY <2>1, CredBounds
  <2> QED
    BY <1>1, <2>2, FS_Subset DEF Logins
<1>3. /\ IsFiniteSet(DOMAIN sessions')
      /\ Cardinality(DOMAIN sessions') <= Cardinality(DOMAIN sessions)
  BY <1>2, FS_Subset
<1>4. Cardinality(DOMAIN sessions') \in Nat /\ Cardinality(DOMAIN sessions) \in Nat
  BY <1>2, <1>3, FS_CardinalityType
<1>5. SessionsAreKept'
  BY <1>1, <1>3, <1>4, CredBounds DEF SessionsAreKept
<1>6. ToCome' = ToCome
  BY DEF ToCome
<1>7. SessionsAreNumbered' /\ SessionsEnd'
  BY <1>6, CredStarts DEF SessionsInv, SessionsAreNumbered, SessionsEnd
<1> QED
  BY <1>5, <1>7 DEF SessionsInv

(* A request that has a session.                                           *)
LEMMA ValidShrinks ==
    ASSUME CredInv, NEW id \in DOMAIN sessions, valid_session(id) \/ sessions' = Without(id)
    PROVE  /\ DOMAIN sessions' \subseteq DOMAIN sessions
           /\ \A other \in DOMAIN sessions' : sessions'[other] \in Session
<1>1. \A other \in DOMAIN sessions : sessions[other] \in Session
  BY CredStarts DEF SessionsAreKept
<1>2. CASE sessions' = Without(id)
  BY <1>1, <1>2 DEF Without
<1>3. CASE sessions' = [sessions EXCEPT ![id].last_access = clock]
  <2>1. DOMAIN sessions' = DOMAIN sessions
    BY <1>3
  <2>2. sessions'[id] = [sessions[id] EXCEPT !.last_access = clock]
    BY <1>3
  <2>3. sessions'[id] \in Session
    BY <1>1, <2>2, CredStarts DEF Session
  <2>4. \A other \in DOMAIN sessions : other # id => sessions'[other] = sessions[other]
    BY <1>3
  <2> QED
    BY <1>1, <2>1, <2>3, <2>4
<1> QED
  BY <1>2, <1>3 DEF valid_session

(* No attempt, and time that only goes on.                                 *)
LEMMA AttemptsRest ==
    ASSUME CredInv, UNCHANGED limiter, credLog'.admitted = credLog.admitted,
           clock' \in {clock, clock + 1}
    PROVE  AttemptsInv'
<1>1. \A i \in 1..Len(credLog.admitted) : credLog.admitted[i].at \in Nat
  <2>1. \A i \in 1..Len(credLog.admitted) : credLog.admitted[i] \in Attempt
    BY CredStarts
  <2> QED
    BY <2>1, CredBounds DEF Attempt
<1>2. InWindow(credLog.admitted, limiter.window_started, clock')
  BY <1>1, CredStarts DEF AttemptsInv, InWindow
<1>3. limiter.window_started <= clock'
  <2>1. limiter.window_started \in Times \union {-1}
    BY CredStarts DEF Limiters
  <2>2. limiter.window_started \in Int
    <3>1. \A n \in Times \union {-1} : n \in Int
      BY CredBounds
    <3> QED
      BY <2>1, <3>1, Zenon
  <2>3. limiter.window_started <= clock /\ clock \in Nat
    BY CredStarts DEF AttemptsInv
  <2>4. clock' \in {clock, clock + 1}
    OBVIOUS
  <2> QED
    BY ONLY <2>2, <2>3, <2>4
<1> QED
  BY <1>2, <1>3, CredStarts DEF AttemptsInv

-----------------------------------------------------------------------------
(* The window a login is counted in, which may have begun with it.         *)
LEMMA CountedKeeps ==
    ASSUME CredInv
    PROVE  /\ Counted \in Limiters /\ Counted.window_started \in Times
           /\ Counted.window_started <= clock /\ clock - Counted.window_started < Window
           /\ InWindow(credLog.admitted, Counted.window_started, clock)
           /\ Limited(credLog.admitted, Counted.window_started, Addresses,
                      Counted.global_attempts, GlobalLimit)
           /\ \A source \in Addresses :
                Limited(credLog.admitted, Counted.window_started, {source},
                        Counted.source_attempts[source], SourceLimit)
<1> DEFINE log == credLog.admitted
           began == limiter.window_started
<1>1. /\ log \in Seq(Attempt) /\ began \in Times \union {-1} /\ clock \in Times
      /\ limiter.global_attempts \in 0..GlobalLimit
      /\ \A source \in Addresses : limiter.source_attempts[source] \in 0..SourceLimit
      /\ limiter \in Limiters
  BY CredStarts DEF Limiters
<1>2. /\ began <= clock /\ InWindow(log, began, clock)
      /\ Limited(log, began, Addresses, limiter.global_attempts, GlobalLimit)
      /\ \A source \in Addresses :
           Limited(log, began, {source}, limiter.source_attempts[source], SourceLimit)
  BY CredStarts DEF AttemptsInv
<1>3. CASE WindowPassed
  <2> DEFINE fresh == [window_started |-> clock, global_attempts |-> 0,
                       source_attempts |-> [source \in Addresses |-> 0]]
  <2>1. Counted = fresh
    BY <1>3 DEF Counted
  <2>2. /\ fresh \in Limiters /\ fresh.window_started = clock /\ fresh.global_attempts = 0
        /\ \A source \in Addresses : fresh.source_attempts[source] = 0
    BY <1>1, CredBounds DEF Limiters
  <2> HIDE DEF fresh
  <2>3. began = -1 \/ clock - began >= Window
    BY <1>3 DEF WindowPassed
  <2> HIDE DEF log, began
  <2>4. InWindow(log, clock, clock) /\ Limited(log, clock, Addresses, 0, GlobalLimit)
    BY <1>1, <1>2, <2>3, CredBounds, WindowTurns
  <2>5. \A source \in Addresses : Limited(log, clock, {source}, 0, SourceLimit)
    BY <1>1, <1>2, <2>3, CredBounds, WindowTurns
  <2>6. clock <= clock /\ clock - clock < Window
    BY <1>1, CredBounds
  <2> QED
    BY <1>1, <2>1, <2>2, <2>4, <2>5, <2>6 DEF log
<1>4. CASE ~WindowPassed
  <2>1. Counted = limiter
    BY <1>4 DEF Counted
  <2>2. began # -1 /\ ~(clock - began >= Window)
    BY <1>4 DEF WindowPassed
  <2>3. began \in Times /\ clock - began < Window
    <3>1. began \in Times \union {-1} /\ clock \in Nat /\ Times \subseteq Nat /\ Window \in Nat
      BY <1>1, CredBounds
    <3> HIDE DEF began
    <3> QED
      BY ONLY <2>2, <3>1
  <2> QED
    BY <1>1, <1>2, <2>1, <2>3
<1> QED
  BY <1>3, <1>4

(* A login is admitted, and counted, or it is not.                         *)
LEMMA AdmitKeeps ==
    ASSUME CredInv, NEW source \in Addresses, admit_login(source)
    PROVE  CredInv'
<1> DEFINE log == credLog.admitted
           began == Counted.window_started
           e == [source |-> source, at |-> clock]
<1>1. /\ UNCHANGED <<sessions, shadow, onvif, apiKey, clock, change, updates>>
      /\ login.pc = "idle" /\ Draws("logins")
  BY DEF admit_login, LoginOnly, Stored
<1>2. /\ credLeft' \in CredentialBudget /\ credLeft'.logins = credLeft.logins - 1
      /\ credLeft'.ticks = credLeft.ticks
  BY <1>1, CredStarts, DrawsKeeps
<1>3. CASE Counted.global_attempts < GlobalLimit /\ Counted.source_attempts[source] < SourceLimit
  <2>1. /\ limiter' = [Counted EXCEPT !.global_attempts = @ + 1,
                                      !.source_attempts[source] = @ + 1]
        /\ login' = [login EXCEPT !.pc = "verify"]
        /\ credLog' = [credLog EXCEPT !.admitted = Append(log, e)]
    BY <1>3 DEF admit_login
  <2>2. e \in Attempt /\ e.at = clock /\ e.source = source
    BY CredStarts DEF Attempt
  <2> HIDE DEF e
  <2>3. login' \in Verifiers /\ login'.pc # "idle"
    BY <2>1, CredStarts DEF Verifiers
  <2>4. Append(log, e) \in Seq(Attempt)
    BY <2>2, CredStarts
  <2>5. /\ credLog' \in CredLogs /\ credLog'.admitted = Append(log, e)
        /\ credLog'.answer = credLog.answer /\ credLog'.wanted = credLog.wanted
        /\ credLog'.before = credLog.before /\ credLog'.remained = credLog.remained
    BY <2>1, <2>4, CredStarts DEF CredLogs
  <2>6. /\ Counted \in Limiters /\ Counted.global_attempts \in 0..GlobalLimit
        /\ Counted.source_attempts \in [Addresses -> 0..SourceLimit]
        /\ Counted.source_attempts[source] \in 0..SourceLimit
    BY CountedKeeps DEF Limiters
  <2>7. /\ Counted.global_attempts + 1 \in 0..GlobalLimit
        /\ Counted.source_attempts[source] + 1 \in 0..SourceLimit
    BY <1>3, <2>6, CredBounds
  <2>8. /\ limiter' \in Limiters /\ limiter'.window_started = began
        /\ limiter'.global_attempts = Counted.global_attempts + 1
        /\ limiter'.source_attempts[source] = Counted.source_attempts[source] + 1
        /\ \A other \in Addresses : other # source =>
             limiter'.source_attempts[other] = Counted.source_attempts[other]
    BY <2>1, <2>6, <2>7, CountedKeeps DEF Limiters
  <2>9. InWindow(Append(log, e), began, clock)
    <3>1. /\ Len(Append(log, e)) = Len(log) + 1 /\ Append(log, e)[Len(log) + 1] = e
          /\ \A i \in 1..Len(log) : Append(log, e)[i] = log[i]
          /\ Len(log) \in Nat
      BY CredStarts
    <3>2. clock < began + Window /\ began # -1 /\ clock <= clock
      <4>1. began \in Nat /\ clock \in Nat
        BY CountedKeeps, CredStarts, CredBounds
      <4>2. clock - began < Window /\ Window \in Nat
        BY CountedKeeps, CredBounds
      <4> QED
        BY ONLY <4>1, <4>2
    <3>3. InWindow(log, began, clock)
      BY CountedKeeps
    <3> HIDE DEF log, began
    <3>4. ASSUME NEW i \in 1..Len(Append(log, e))
          PROVE  Append(log, e)[i].at <= clock /\ Append(log, e)[i].at < began + Window
      <4>1. i \in 1..Len(log) \/ i = Len(log) + 1
        BY <3>1
      <4> QED
        BY <2>2, <3>1, <3>2, <3>3, <4>1 DEF InWindow
    <3> QED
      BY <3>2, <3>4 DEF InWindow
  <2>10. Limited(Append(log, e), began, Addresses, Counted.global_attempts + 1, GlobalLimit)
    BY <1>3, <2>2, <2>6, CountedKeeps, CredStarts, CredBounds, WindowAdmits
  <2>11. Limited(Append(log, e), began, {source},
                 Counted.source_attempts[source] + 1, SourceLimit)
    BY <1>3, <2>2, <2>6, CountedKeeps, CredStarts, CredBounds, WindowAdmits
  <2>12. \A other \in Addresses : other # source =>
           Limited(Append(log, e), began, {other}, Counted.source_attempts[other], SourceLimit)
    BY <2>2, CountedKeeps, CredStarts, WindowIgnores
  <2>13. AttemptsInv'
    <3>1. limiter'.window_started <= clock' /\ clock' = clock
      BY <1>1, <2>8, CountedKeeps
    <3>2. ASSUME NEW other \in Addresses
          PROVE  Limited(Append(log, e), began, {other},
                         limiter'.source_attempts[other], SourceLimit)
      BY <2>8, <2>11, <2>12
    <3> QED
      BY <2>5, <2>8, <2>9, <2>10, <3>1, <3>2 DEF AttemptsInv
  <2>14. PasswordsInv'
    BY <1>1, <2>5, CredStarts, PasswordsRest
  <2>15. SessionsAreKept'
    BY <1>1, CredStarts DEF SessionsAreKept
  <2>16. SessionsInv'
    <3>1. ToCome' = ToCome
      BY <1>1, <1>2, <2>3, CredStarts DEF ToCome, Bit
    <3> QED
      BY <1>1, <1>2, <2>5, <3>1, CredStarts DEF SessionsInv, SessionsAreNumbered, SessionsEnd
  <2>17. CredentialTypeOK'
    <3>1. credLog'.answer \in {"none", "refused", "ok", "failed", "partial"}
      BY <2>5 DEF CredLogs
    <3> QED
      BY <1>1, <1>2, <2>3, <2>8, <2>15, <3>1, CredStarts, CredTypes
  <2> QED
    BY <2>5, <2>13, <2>14, <2>16, <2>17 DEF CredInv
<1>4. CASE ~(/\ Counted.global_attempts < GlobalLimit
             /\ Counted.source_attempts[source] < SourceLimit)
  <2>1. limiter' = Counted /\ UNCHANGED <<login, credLog>>
    BY <1>4 DEF admit_login
  <2>2. AttemptsInv'
    BY <1>1, <2>1, CountedKeeps DEF AttemptsInv
  <2>3. PasswordsInv'
    BY <1>1, <2>1, CredStarts, PasswordsRest
  <2>4. SessionsAreKept'
    BY <1>1, CredStarts DEF SessionsAreKept
  <2>5. SessionsInv'
    <3>1. ToCome' = ToCome - 1 /\ ToCome \in Nat
      <4>1. ToCome = credLeft.logins + 0 /\ ToCome' = credLeft'.logins + 0
        BY <1>1, <2>1 DEF ToCome, Bit
      <4> QED
        BY <1>2, <4>1, CredStarts
    <3>2. DOMAIN sessions \union credLog.remained \subseteq Nat
      BY CredStarts, CredBounds DEF SessionsAreKept, CredLogs
    <3>3. \A id \in Nat : id > ToCome => id > ToCome'
      BY <3>1
    <3>4. ToCome' <= CredentialBounds.logins
      BY <3>1, CredStarts, CredBounds DEF SessionsInv, SessionsAreNumbered
    <3> QED
      BY <1>1, <1>2, <2>1, <3>2, <3>3, <3>4, CredStarts
         DEF SessionsInv, SessionsAreNumbered, SessionsEnd
  <2>6. CredentialTypeOK'
    <3>1. credLog'.answer \in {"none", "refused", "ok", "failed", "partial"}
      BY <2>1, CredStarts DEF CredLogs
    <3> QED
      BY <1>1, <1>2, <2>1, <2>4, <3>1, CountedKeeps, CredStarts, CredTypes
  <2> QED
    BY <2>1, <2>2, <2>3, <2>5, <2>6, CredStarts DEF CredInv
<1> QED
  BY <1>3, <1>4

(* The password is compared with what the file held when it was read.      *)
LEMMA VerifyKeeps ==
    ASSUME CredInv, login_verifies
    PROVE  CredInv'
<1>1. /\ login.pc = "verify"
      /\ login' \in {[pc |-> "insert", hash |-> shadow], [pc |-> "idle", hash |-> Torn]}
      /\ UNCHANGED <<sessions, limiter, credLog, credLeft>>
      /\ UNCHANGED <<shadow, onvif, apiKey, clock, change, updates>>
  BY DEF login_verifies, LoginOnly, Stored
<1>2. login' \in Verifiers
  BY <1>1, CredStarts DEF Verifiers, Files
<1>3. SessionsAreKept' /\ AttemptsInv' /\ PasswordsInv'
  <2>1. SessionsAreKept'
    BY <1>1, CredStarts DEF SessionsAreKept
  <2>2. AttemptsInv'
    BY <1>1, AttemptsRest
  <2>3. PasswordsInv'
    BY <1>1, CredStarts, PasswordsRest
  <2> QED
    BY <2>1, <2>2, <2>3
<1>4. SessionsInv'
  <2>1. ToCome' \in {ToCome, ToCome - 1} /\ ToCome \in Nat
    <3>1. ToCome = credLeft.logins + 1
      BY <1>1 DEF ToCome, Bit
    <3>2. ToCome' \in {credLeft.logins + 1, credLeft.logins + 0}
      BY <1>1 DEF ToCome, Bit
    <3> QED
      BY <3>1, <3>2, CredStarts
  <2>2. DOMAIN sessions \union credLog.remained \subseteq Nat
    BY CredStarts, CredBounds DEF SessionsAreKept, CredLogs
  <2>3. \A id \in Nat : id > ToCome => id > ToCome'
    BY <2>1
  <2>4. ToCome' <= CredentialBounds.logins
    BY <2>1, CredStarts, CredBounds DEF SessionsInv, SessionsAreNumbered
  <2> QED
    BY <1>1, <2>2, <2>3, <2>4, CredStarts DEF SessionsInv, SessionsAreNumbered, SessionsEnd
<1>5. CredentialTypeOK'
  <2>1. credLog'.answer \in {"none", "refused", "ok", "failed", "partial"}
    BY <1>1, CredStarts DEF CredLogs
  <2> QED
    BY <1>1, <1>2, <1>3, <2>1, CredStarts, CredTypes
<1> QED
  BY <1>1, <1>3, <1>4, <1>5, CredStarts DEF CredInv

(* A new session has a number of its own, and room is made for it.         *)
LEMMA InsertKeeps ==
    ASSUME CredInv, login_inserts
    PROVE  CredInv'
<1>1. /\ login.pc = "insert" /\ login' = [pc |-> "idle", hash |-> Torn]
      /\ UNCHANGED <<limiter, credLog, credLeft>>
      /\ UNCHANGED <<shadow, onvif, apiKey, clock, change, updates>>
  BY DEF login_inserts, LoginOnly, Stored
<1>2. PICK kept \in SUBSET DOMAIN sessions :
         /\ sessions' = Inserted(kept)
         /\ \/ kept = DOMAIN sessions /\ ~(Cardinality(DOMAIN sessions) >= SessionLimit)
            \/ \E oldest \in DOMAIN sessions : kept = DOMAIN sessions \ {oldest}
  BY DEF login_inserts, Oldest
<1>3. /\ DOMAIN sessions \subseteq Logins /\ Cardinality(DOMAIN sessions) <= SessionLimit
      /\ \A id \in DOMAIN sessions : sessions[id] \in Session
      /\ Logins = 1..CredentialBounds.logins
  BY CredStarts DEF SessionsAreKept, Logins
<1>4. ToCome = New /\ New \in Logins /\ ToCome' = New - 1 /\ New \in Nat
  <2>1. ToCome = credLeft.logins + 1 /\ ToCome' = credLeft.logins + 0
    BY <1>1 DEF ToCome, Bit
  <2>2. ToCome <= CredentialBounds.logins
    BY CredStarts DEF SessionsInv, SessionsAreNumbered
  <2> QED
    BY <1>3, <2>1, <2>2, CredStarts, CredBounds DEF New
<1>5. New \notin DOMAIN sessions /\ New \notin credLog.remained
  BY <1>4, CredStarts DEF SessionsInv, SessionsAreNumbered
<1>6. /\ DOMAIN sessions' = kept \union {New}
      /\ \A id \in DOMAIN sessions' : sessions'[id] \in Session
  <2>1. DOMAIN sessions' = kept \union {New}
    BY <1>2 DEF Inserted
  <2>2. [created |-> clock, last_access |-> clock] \in Session
    BY CredStarts DEF Session
  <2> QED
    BY <1>2, <1>3, <2>1, <2>2 DEF Inserted
<1>7. Cardinality(DOMAIN sessions') <= SessionLimit
  <2>1. IsFiniteSet(DOMAIN sessions)
    <3>1. \A n \in Nat : IsFiniteSet(1..n)
      BY FS_Interval
    <3>2. IsFiniteSet(1..CredentialBounds.logins)
      BY <3>1, CredBounds
    <3> QED
      BY <1>3, <3>2, FS_Subset
  <2>2. /\ IsFiniteSet(kept) /\ Cardinality(kept) \in Nat
        /\ Cardinality(DOMAIN sessions) \in Nat
    BY <2>1, FS_Subset, FS_CardinalityType
  <2>3. Cardinality(kept) < SessionLimit
    <3>1. CASE kept = DOMAIN sessions /\ ~(Cardinality(DOMAIN sessions) >= SessionLimit)
      BY <2>2, <3>1, CredBounds
    <3>2. ASSUME NEW oldest \in DOMAIN sessions, kept = DOMAIN sessions \ {oldest}
          PROVE  Cardinality(kept) < SessionLimit
      <4>1. Cardinality(kept) = Cardinality(DOMAIN sessions) - 1
        BY <2>1, <3>2, FS_RemoveElement
      <4> QED
        BY <1>3, <2>2, <4>1, CredBounds
    <3> QED
      BY <1>2, <3>1, <3>2
  <2>4. Cardinality(kept \union {New}) = Cardinality(kept) + 1
    BY <1>5, <2>2, FS_AddElement
  <2> QED
    BY <1>6, <2>2, <2>3, <2>4, CredBounds
<1>8. SessionsAreKept'
  BY <1>3, <1>4, <1>6, <1>7 DEF SessionsAreKept
<1>9. SessionsInv'
  <2>1. \A id \in DOMAIN sessions' \union credLog.remained : id > New - 1
    <3>1. \A id \in DOMAIN sessions \union credLog.remained : id > New /\ id \in Nat
      BY <1>3, <1>4, CredStarts, CredBounds DEF SessionsInv, SessionsAreNumbered, CredLogs
    <3>2. New > New - 1 /\ \A id \in Nat : id > New => id > New - 1
      BY <1>4
    <3> QED
      BY <1>6, <3>1, <3>2
  <2>2. New - 1 <= CredentialBounds.logins
    BY <1>3, <1>4, CredBounds
  <2>3. SessionsAreNumbered'
    BY <1>1, <1>4, <2>1, <2>2, CredStarts DEF SessionsInv, SessionsAreNumbered
  <2>4. SessionsEnd'
    BY <1>1, <1>5, <1>6, CredStarts DEF SessionsInv, SessionsEnd
  <2> QED
    BY <2>3, <2>4 DEF SessionsInv
<1>10. AttemptsInv' /\ PasswordsInv'
  BY <1>1, CredStarts, AttemptsRest, PasswordsRest
<1>11. CredentialTypeOK'
  <2>1. login' \in Verifiers
    BY <1>1 DEF Verifiers, Files
  <2>2. credLog'.answer \in {"none", "refused", "ok", "failed", "partial"}
    BY <1>1, CredStarts DEF CredLogs
  <2> QED
    BY <1>1, <1>8, <2>1, <2>2, CredStarts, CredTypes
<1> QED
  BY <1>1, <1>9, <1>10, <1>11, CredStarts DEF CredInv

(* Requests with a session, their end, the API key and the clock.          *)
LEMMA SessionKeeps ==
    ASSUME CredInv,
           \/ \E id \in DOMAIN sessions : authorize(id) \/ logout(id)
           \/ \E exists \in BOOLEAN : api_key(exists)
           \/ tick
    PROVE  CredInv'
<1>1. /\ UNCHANGED <<shadow, onvif, limiter, login, change, updates, credLog>>
      /\ \/ sessions' = sessions
         \/ \E id \in DOMAIN sessions : valid_session(id) \/ sessions' = Without(id)
      /\ apiKey' \in BOOLEAN
      /\ \/ clock' = clock /\ credLeft' = credLeft
         \/ clock' = clock /\ \E bound \in {"changes", "failures"} : Draws(bound)
         \/ clock' = clock + 1 /\ Draws("ticks")
  <2>1. CASE \E id \in DOMAIN sessions : authorize(id) \/ logout(id)
    BY <2>1, CredStarts DEF authorize, logout, LoginOnly, Stored
  <2>2. ASSUME NEW exists \in BOOLEAN, api_key(exists)
        PROVE  /\ UNCHANGED <<shadow, onvif, limiter, clock, login, change, updates, credLog>>
               /\ \E id \in DOMAIN sessions : valid_session(id)
               /\ apiKey' \in BOOLEAN
               /\ \E bound \in {"changes", "failures"} : Draws(bound)
    BY <2>2, CredStarts DEF api_key
  <2>3. CASE tick
    BY <2>3, CredStarts DEF tick, Stored
  <2> QED
    BY <2>1, <2>2, <2>3
<1>2. /\ DOMAIN sessions' \subseteq DOMAIN sessions
      /\ \A id \in DOMAIN sessions' : sessions'[id] \in Session
  <2>1. CASE sessions' = sessions
    BY <2>1, CredStarts DEF SessionsAreKept
  <2>2. CASE \E id \in DOMAIN sessions : valid_session(id) \/ sessions' = Without(id)
    BY <2>2, ValidShrinks
  <2> QED
    BY <1>1, <2>1, <2>2
<1>3. /\ credLeft' \in CredentialBudget /\ credLeft'.logins = credLeft.logins
      /\ clock' + credLeft'.ticks <= CredentialBounds.ticks /\ clock' \in Times
  <2>1. clock + credLeft.ticks <= CredentialBounds.ticks
    BY CredStarts DEF SessionsInv, SessionsAreNumbered
  <2>2. CASE clock' = clock /\ credLeft' = credLeft
    BY <2>1, <2>2, CredStarts
  <2>3. CASE clock' = clock /\ \E bound \in {"changes", "failures"} : Draws(bound)
    <3>1. /\ credLeft' \in CredentialBudget /\ credLeft'.logins = credLeft.logins
          /\ credLeft'.ticks = credLeft.ticks
      BY <2>3, CredStarts, DrawsKeeps
    <3> QED
      BY <2>1, <2>3, <3>1, CredStarts
  <2>4. CASE clock' = clock + 1 /\ Draws("ticks")
    <3>1. /\ credLeft' \in CredentialBudget /\ credLeft'.logins = credLeft.logins
          /\ credLeft'.ticks = credLeft.ticks - 1 /\ credLeft.ticks > 0
      BY <2>4, CredStarts, DrawsKeeps
    <3>2. clock + 1 \in Times /\ clock + 1 + (credLeft.ticks - 1) <= CredentialBounds.ticks
      <4>1. clock \in Nat /\ credLeft.ticks \in Nat /\ CredentialBounds.ticks \in Nat
        BY CredStarts, CredBounds
      <4>2. clock + 1 \in 0..CredentialBounds.ticks
        BY ONLY <2>1, <3>1, <4>1
      <4> QED
        BY <2>1, <4>1, <4>2 DEF Times
    <3> QED
      BY <2>4, <3>1, <3>2
  <2> QED
    BY <1>1, <2>2, <2>3, <2>4
<1>4. SessionsAreKept' /\ SessionsInv'
  BY <1>1, <1>2, <1>3, SessionsShrink
<1>5. AttemptsInv' /\ PasswordsInv'
  BY <1>1, CredStarts, AttemptsRest, PasswordsRest
<1>6. CredentialTypeOK'
  <2>1. credLog'.answer \in {"none", "refused", "ok", "failed", "partial"}
    BY <1>1, CredStarts DEF CredLogs
  <2> QED
    BY <1>1, <1>3, <1>4, <2>1, CredStarts, CredTypes
<1> QED
  BY <1>1, <1>4, <1>5, <1>6, CredStarts DEF CredInv

-----------------------------------------------------------------------------
(* A handler waits, or no longer does, while another may have the lock.    *)
LEMMA WaiterMoves ==
    ASSUME CredInv, NEW c \in Changers, NEW h \in Handlings, MustWait(change[c]), MustWait(h),
           h.pc # "idle" => h.wanted \in Passwords,
           change' = [change EXCEPT ![c] = h], UNCHANGED <<shadow, onvif, updates, credLog>>
    PROVE  change' \in [Changers -> Handlings] /\ PasswordsInv'
<1>1. /\ change' \in [Changers -> Handlings] /\ change'[c] = h
      /\ \A d \in Changers : d # c => change'[d] = change[d]
  BY CredStarts
<1>2. LockIsTheirs' /\ FilesAreTogether'
  BY <1>1, CredStarts DEF PasswordsInv, LockIsTheirs, FilesAreTogether
<1>3. PhasesAgree'
  <2> SUFFICES ASSUME NEW d \in Changers PROVE PhaseAgrees(change[d])'
    BY DEF PhasesAgree
  <2>1. CASE d = c
    BY <1>1, <2>1 DEF PhaseAgrees, MustWait
  <2>2. CASE d # c
    <3>1. change'[d] = change[d] /\ PhaseAgrees(change[d])
      BY <1>1, <2>2, CredStarts DEF PasswordsInv, PhasesAgree
    <3> QED
      BY <3>1 DEF PhaseAgrees
  <2> QED
    BY <2>1, <2>2
<1> QED
  BY <1>1, <1>2, <1>3 DEF PasswordsInv

(* Whoever has the lock, or takes it, moves alone.                         *)
LEMMA HolderMoves ==
    ASSUME CredInv, NEW c \in Changers, NEW h \in Handlings,
           updates \in {c, Torn}, updates' = (IF MustWait(h) THEN Torn ELSE c),
           change' = [change EXCEPT ![c] = h], PhaseAgrees(h)', FilesAreTogether'
    PROVE  change' \in [Changers -> Handlings] /\ PasswordsInv'
<1>1. /\ change' \in [Changers -> Handlings] /\ change'[c] = h
      /\ \A d \in Changers : d # c => change'[d] = change[d]
  BY CredStarts
<1>2. \A d \in Changers : d # c => MustWait(change[d])
  BY CredStarts, CredBounds DEF PasswordsInv, LockIsTheirs
<1>3. LockIsTheirs'
  BY <1>1, <1>2, CredBounds DEF LockIsTheirs
<1>4. PhasesAgree'
  <2> SUFFICES ASSUME NEW d \in Changers PROVE PhaseAgrees(change[d])'
    BY DEF PhasesAgree
  <2>1. CASE d = c
    BY <1>1, <2>1
  <2>2. CASE d # c
    <3>1. change'[d] = change[d] /\ PhaseAgrees(change[d]) /\ MustWait(change[d])
      BY <1>1, <1>2, <2>2, CredStarts DEF PasswordsInv, PhasesAgree
    <3> QED
      BY <3>1 DEF PhaseAgrees, MustWait
  <2> QED
    BY <2>1, <2>2
<1> QED
  BY <1>1, <1>3, <1>4 DEF PasswordsInv

(* What is left when the handlers' own invariant is known.                 *)
LEMMA ChangeCloses ==
    ASSUME CredInv, ChangeOnly, shadow' \in Passwords, onvif' \in Files,
           credLeft' \in CredentialBudget, SessionsAreKept', SessionsInv',
           credLog' \in CredLogs, credLog'.admitted = credLog.admitted,
           change' \in [Changers -> Handlings], updates' \in Changers \union {Torn},
           PasswordsInv'
    PROVE  CredInv'
<1>1. UNCHANGED <<apiKey, limiter, clock, login>>
  BY DEF ChangeOnly
<1>2. AttemptsInv'
  BY <1>1, AttemptsRest
<1>3. CredentialTypeOK'
  <2>1. credLog'.answer \in {"none", "refused", "ok", "failed", "partial"}
    BY DEF CredLogs
  <2> QED
    BY <1>1, <2>1, CredStarts, CredTypes
<1> QED
  BY <1>2, <1>3 DEF CredInv

(* Sessions when a handler moves on, and what a failure draws.             *)
LEMMA ChangeRests ==
    ASSUME CredInv, UNCHANGED <<sessions, login, clock>>,
           UNCHANGED credLeft \/ (\E bound \in {"changes", "failures"} : Draws(bound)),
           credLog'.remained = credLog.remained, credLog'.answer = credLog.answer
    PROVE  credLeft' \in CredentialBudget /\ SessionsAreKept' /\ SessionsInv'
<1>1. /\ credLeft' \in CredentialBudget /\ credLeft'.logins = credLeft.logins
      /\ credLeft'.ticks = credLeft.ticks
  BY CredStarts, DrawsKeeps
<1>2. SessionsAreKept'
  BY CredStarts DEF SessionsAreKept
<1>3. clock' + credLeft'.ticks <= CredentialBounds.ticks
  BY <1>1, CredStarts DEF SessionsInv, SessionsAreNumbered
<1>4. \A id \in DOMAIN sessions' : sessions'[id] \in Session
  BY CredStarts DEF SessionsAreKept
<1> QED
  BY <1>1, <1>2, <1>3, <1>4, SessionsShrink

-----------------------------------------------------------------------------
(* A request to change the password, and its wait for the lock.            *)
LEMMA ChangeBegins ==
    ASSUME CredInv, NEW c \in Changers, NEW id \in DOMAIN sessions, change_begins(c, id)
    PROVE  CredInv'
<1>1. /\ change[c].pc = "idle" /\ ChangeOnly /\ Draws("changes") /\ valid_session(id)
      /\ UNCHANGED <<shadow, onvif, updates, credLog>>
  BY DEF change_begins, Changes
<1>2. PICK wanted \in Passwords :
        change' = [change EXCEPT ![c] = [NoChange EXCEPT !.pc = "lock", !.wanted = wanted]]
  BY DEF change_begins
<1> DEFINE h == [NoChange EXCEPT !.pc = "lock", !.wanted = wanted]
<1>3. h \in Handlings /\ h.pc = "lock" /\ h.wanted \in Passwords
  BY DEF NoChange, Handlings, ChangePoints, Files
<1> HIDE DEF h
<1>4. change' \in [Changers -> Handlings] /\ PasswordsInv'
  BY <1>1, <1>2, <1>3, WaiterMoves DEF h, MustWait
<1>5. /\ credLeft' \in CredentialBudget /\ credLeft'.logins = credLeft.logins
      /\ credLeft'.ticks = credLeft.ticks
  BY <1>1, CredStarts, DrawsKeeps
<1>6. SessionsAreKept' /\ SessionsInv'
  <2>1. clock' + credLeft'.ticks <= CredentialBounds.ticks
    BY <1>1, <1>5, CredStarts DEF ChangeOnly, SessionsInv, SessionsAreNumbered
  <2>2. /\ DOMAIN sessions' \subseteq DOMAIN sessions
        /\ \A other \in DOMAIN sessions' : sessions'[other] \in Session
    BY <1>1, ValidShrinks
  <2> QED
    BY <1>1, <1>5, <2>1, <2>2, SessionsShrink DEF ChangeOnly
<1> QED
  BY <1>1, <1>4, <1>5, <1>6, CredStarts, ChangeCloses

(* The lock is taken, and what the files hold now is what they did before.  *)
LEMMA ChangeLocks ==
    ASSUME CredInv, NEW c \in Changers, change_locks(c)
    PROVE  CredInv'
<1>1. /\ change[c].pc = "lock" /\ ChangeOnly /\ updates = Torn /\ updates' = c
      /\ change' = [change EXCEPT ![c] = [change[c] EXCEPT !.pc = "password"]]
      /\ credLog' = [credLog EXCEPT !.before = <<shadow, onvif>>]
      /\ UNCHANGED <<shadow, onvif, sessions, credLeft>>
  BY DEF change_locks, Changes, Moves
<1>2. /\ credLog' \in CredLogs /\ credLog'.admitted = credLog.admitted
      /\ credLog'.remained = credLog.remained /\ credLog'.answer = credLog.answer
      /\ credLog'.before = <<shadow, onvif>>
  BY <1>1, CredStarts DEF CredLogs
<1>3. PICK h \in Handlings : /\ h = [change[c] EXCEPT !.pc = "password"]
                            /\ h.pc = "password" /\ h.wanted \in Passwords
  <2>1. change[c] \in Handlings
    BY CredStarts
  <2>2. change[c].wanted \in Passwords
    BY <1>1, CredStarts DEF PasswordsInv, PhasesAgree, PhaseAgrees
  <2> DEFINE k == [change[c] EXCEPT !.pc = "password"]
  <2>3. k \in Handlings /\ k.pc = "password" /\ k.wanted \in Passwords
    BY <2>1, <2>2 DEF Handlings, ChangePoints
  <2> QED
    BY <2>3, Zenon
<1>4. PhaseAgrees(h)' /\ FilesAreTogether'
  BY <1>1, <1>2, <1>3, CredBounds DEF PhaseAgrees, FilesAreTogether
<1>5. change' \in [Changers -> Handlings] /\ PasswordsInv'
  BY <1>1, <1>3, <1>4, HolderMoves DEF MustWait
<1>6. credLeft' \in CredentialBudget /\ SessionsAreKept' /\ SessionsInv'
  BY <1>1, <1>2, ChangeRests DEF ChangeOnly
<1> QED
  BY <1>1, <1>2, <1>5, <1>6, CredStarts, ChangeCloses

(* The handler that has the lock, with what it knows.                      *)
LEMMA HolderKnows ==
    ASSUME CredInv, NEW c \in Changers, ~MustWait(change[c])
    PROVE  /\ updates = c /\ change[c] \in Handlings /\ PhaseAgrees(change[c])
           /\ change[c].wanted \in Passwords
           /\ credLog.before[1] \in Passwords
           /\ credLog.before \in Passwords \X Files
           /\ change[c].pc \in {"onvif", "readback", "undo", "restore"} =>
                change[c].shadow \in Passwords
<1>1. updates = c /\ change[c] \in Handlings /\ PhaseAgrees(change[c])
  BY CredStarts DEF PasswordsInv, LockIsTheirs, PhasesAgree
<1>2. change[c].wanted \in Passwords
  BY <1>1 DEF PhaseAgrees, MustWait
<1>3. credLog.before \in Passwords \X Files
  BY CredStarts DEF CredLogs
<1>4. credLog.before[1] \in Passwords
  BY <1>3
<1>5. change[c].pc \in {"onvif", "readback", "undo", "restore"} =>
        change[c].shadow \in Passwords
  BY <1>1, <1>3 DEF PhaseAgrees
<1> QED
  BY <1>1, <1>2, <1>3, <1>4, <1>5

(* A step of the handler that has the lock and keeps it.                   *)
LEMMA HolderGoesOn ==
    ASSUME CredInv, NEW c \in Changers, ~MustWait(change[c]), NEW h \in Handlings, ~MustWait(h),
           change' = [change EXCEPT ![c] = h], ChangeOnly, GoesOn,
           shadow' \in Passwords, onvif' \in Files,
           UNCHANGED credLeft \/ Draws("failures"), PhaseAgrees(h)'
    PROVE  CredInv'
<1>1. UNCHANGED <<sessions, updates, credLog>> /\ updates = c
  BY HolderKnows DEF GoesOn
<1>2. FilesAreTogether'
  BY <1>1, CredBounds DEF FilesAreTogether
<1>3. change' \in [Changers -> Handlings] /\ PasswordsInv'
  BY <1>1, <1>2, HolderMoves
<1>4. credLeft' \in CredentialBudget /\ SessionsAreKept' /\ SessionsInv'
  BY <1>1, ChangeRests DEF ChangeOnly
<1> QED
  BY <1>1, <1>3, <1>4, CredStarts, ChangeCloses

(* The handler answers: if it says so, the sessions of then end.           *)
LEMMA HolderAnswers ==
    ASSUME CredInv, NEW c \in Changers, ~MustWait(change[c]),
           NEW answer \in {"ok", "failed", "partial"}, Answers(c, answer), ChangeOnly,
           UNCHANGED <<shadow, onvif>>, UNCHANGED credLeft \/ Draws("failures"),
           answer = "ok" => shadow = change[c].wanted /\ onvif = change[c].wanted,
           answer = "failed" => <<shadow, onvif>> = credLog.before
    PROVE  CredInv'
<1>1. /\ updates' = Torn /\ change' = [change EXCEPT ![c] = NoChange]
      /\ sessions' = (IF answer \in {"ok", "partial"} THEN << >> ELSE sessions)
      /\ credLog' = [credLog EXCEPT !.answer = answer, !.wanted = change[c].wanted,
                                     !.remained = DOMAIN sessions]
      /\ updates = c
  BY HolderKnows DEF Answers
<1>2. /\ NoChange \in Handlings /\ NoChange.pc = "idle"
  BY DEF NoChange, Handlings, ChangePoints, Files
<1>3. /\ credLog' \in CredLogs /\ credLog'.admitted = credLog.admitted
      /\ credLog'.remained = DOMAIN sessions /\ credLog'.answer = answer
      /\ credLog'.before = credLog.before /\ credLog'.wanted = change[c].wanted
  <2>1. DOMAIN sessions \in SUBSET Logins
    BY CredStarts DEF SessionsAreKept
  <2>2. change[c].wanted \in Files
    BY HolderKnows DEF Files
  <2> QED
    BY <1>1, <2>1, <2>2, CredStarts DEF CredLogs
<1>4. PhaseAgrees(NoChange)' /\ FilesAreTogether'
  BY <1>2, <1>3 DEF PhaseAgrees, FilesAreTogether
<1>5. change' \in [Changers -> Handlings] /\ PasswordsInv'
  BY <1>1, <1>2, <1>4, HolderMoves DEF MustWait
<1>6. credLeft' \in CredentialBudget /\ SessionsAreKept' /\ SessionsInv'
  <2>1. /\ credLeft' \in CredentialBudget /\ credLeft'.logins = credLeft.logins
        /\ credLeft'.ticks = credLeft.ticks
    BY CredStarts, DrawsKeeps
  <2>2. DOMAIN sessions' \subseteq DOMAIN sessions /\
        (answer \in {"ok", "partial"} => DOMAIN sessions' = {})
    <3>1. DOMAIN << >> = {}
      OBVIOUS
    <3> QED
      BY <1>1, <3>1
  <2>3. SessionsAreKept'
    <3>1. CASE answer \in {"ok", "partial"}
      <4>1. DOMAIN sessions' = {} /\ Cardinality({}) = 0
        BY <2>2, <3>1, FS_EmptySet
      <4> QED
        BY <4>1, CredBounds DEF SessionsAreKept
    <3>2. CASE answer \notin {"ok", "partial"}
      <4>1. sessions' = sessions
        BY <1>1, <3>2
      <4> QED
        BY <4>1, CredStarts DEF SessionsAreKept
    <3> QED
      BY <3>1, <3>2
  <2>4. ToCome' = ToCome
    BY <2>1 DEF ToCome, ChangeOnly
  <2>5. SessionsAreNumbered'
    BY <1>3, <2>1, <2>2, <2>4, CredStarts DEF SessionsInv, SessionsAreNumbered, ChangeOnly
  <2>6. SessionsEnd'
    BY <1>3, <2>2 DEF SessionsEnd
  <2> QED
    BY <2>1, <2>3, <2>5, <2>6 DEF SessionsInv
<1> QED
  BY <1>1, <1>3, <1>5, <1>6, CredStarts, ChangeCloses

-----------------------------------------------------------------------------
(* The shadow file is replaced, and what it held is known.                 *)
LEMMA PasswordKeeps ==
    ASSUME CredInv, NEW c \in Changers, change_password(c)
    PROVE  CredInv'
<1>1. change[c].pc = "password" /\ ChangeOnly /\ UNCHANGED onvif /\ ~MustWait(change[c])
  BY DEF change_password, Changes, MustWait
<1>2. /\ change[c] \in Handlings /\ change[c].wanted \in Passwords
      /\ <<shadow, onvif>> = credLog.before
  BY <1>1, HolderKnows DEF PhaseAgrees
<1>3. CASE /\ shadow' = change[c].wanted /\ GoesOn /\ UNCHANGED credLeft
           /\ change' = [change EXCEPT ![c].pc = "onvif", ![c].shadow = shadow]
  <2>1. PICK h \in Handlings :
             /\ change' = [change EXCEPT ![c] = h] /\ h.pc = "onvif"
             /\ h.shadow = shadow /\ h.wanted = change[c].wanted
    <3> DEFINE k == [change[c] EXCEPT !.pc = "onvif", !.shadow = shadow]
    <3>1. change' = [change EXCEPT ![c] = k]
      BY <1>3, CredStarts
    <3>2. k \in Handlings /\ k.pc = "onvif" /\ k.shadow = shadow /\ k.wanted = change[c].wanted
      BY <1>2, CredStarts DEF Handlings, ChangePoints, Files
    <3> HIDE DEF k
    <3> QED
      BY <3>1, <3>2
  <2>2. shadow = credLog.before[1] /\ onvif = credLog.before[2]
    BY <1>2
  <2>3. PhaseAgrees(h)'
    BY <1>1, <1>2, <1>3, <2>1, <2>2 DEF PhaseAgrees, GoesOn
  <2> QED
    BY <1>1, <1>2, <1>3, <2>1, <2>3, CredStarts, HolderGoesOn DEF MustWait
<1>4. CASE UNCHANGED shadow /\ Draws("failures") /\ Answers(c, "failed")
  BY <1>1, <1>2, <1>4, HolderAnswers
<1> QED
  BY <1>3, <1>4 DEF change_password

(* ONVIF's file is written, or cannot be read.                             *)
LEMMA OnvifKeeps ==
    ASSUME CredInv, NEW c \in Changers, update_onvif(c)
    PROVE  CredInv'
<1>1. /\ change[c].pc = "onvif" /\ ChangeOnly /\ UNCHANGED shadow /\ GoesOn
      /\ ~MustWait(change[c]) /\ UNCHANGED credLog
  BY DEF update_onvif, Changes, MustWait, GoesOn
<1>2. /\ change[c] \in Handlings /\ change[c].wanted \in Passwords
      /\ shadow = change[c].wanted /\ onvif = credLog.before[2]
      /\ change[c].shadow = credLog.before[1] /\ change \in [Changers -> Handlings]
  BY <1>1, HolderKnows, CredStarts DEF PhaseAgrees
<1>3. CASE onvif = Torn /\ Updated(c, "restore", "error") /\ UNCHANGED <<onvif, credLeft>>
  <2>1. PICK h \in Handlings :
             /\ change' = [change EXCEPT ![c] = h] /\ h.pc = "restore"
             /\ h.shadow = change[c].shadow /\ h.updated = "error" /\ h.wanted = change[c].wanted
    <3> DEFINE k == [change[c] EXCEPT !.pc = "restore", !.updated = "error"]
    <3>1. change' = [change EXCEPT ![c] = k]
      BY <1>2, <1>3 DEF Updated
    <3>2. /\ k \in Handlings /\ k.pc = "restore" /\ k.shadow = change[c].shadow
          /\ k.updated = "error" /\ k.wanted = change[c].wanted
      BY <1>2 DEF Handlings, ChangePoints
    <3> HIDE DEF k
    <3> QED
      BY <3>1, <3>2
  <2>2. PhaseAgrees(h)'
    BY <1>1, <1>2, <1>3, <2>1 DEF PhaseAgrees
  <2> QED
    BY <1>1, <1>3, <2>1, <2>2, CredStarts, HolderGoesOn DEF MustWait
<1>4. CASE /\ onvif' \in Files /\ (UNCHANGED credLeft \/ Draws("failures"))
           /\ \E pc \in {"readback", "undo"} :
                change' = [change EXCEPT ![c].pc = pc, ![c].onvif = onvif]
  <2>1. PICK pc \in {"readback", "undo"} :
             change' = [change EXCEPT ![c].pc = pc, ![c].onvif = onvif]
    BY <1>4
  <2>2. PICK h \in Handlings :
             /\ change' = [change EXCEPT ![c] = h] /\ h.pc = pc /\ h.onvif = onvif
             /\ h.shadow = change[c].shadow /\ h.wanted = change[c].wanted
    <3> DEFINE k == [change[c] EXCEPT !.pc = pc, !.onvif = onvif]
    <3>1. change' = [change EXCEPT ![c] = k]
      BY <1>2, <2>1
    <3>2. /\ k \in Handlings /\ k.pc = pc /\ k.onvif = onvif
          /\ k.shadow = change[c].shadow /\ k.wanted = change[c].wanted
      BY <1>2, CredStarts DEF Handlings, ChangePoints
    <3> HIDE DEF k
    <3> QED
      BY <3>1, <3>2
  <2>3. PhaseAgrees(h)'
    BY <1>1, <1>2, <2>2 DEF PhaseAgrees
  <2> QED
    BY <1>1, <1>4, <2>2, <2>3, CredStarts, HolderGoesOn DEF MustWait
<1> QED
  <2>1. CASE /\ onvif # Torn /\ onvif' = change[c].wanted /\ UNCHANGED credLeft
             /\ change' = [change EXCEPT ![c].pc = "readback", ![c].onvif = onvif]
    <3>1. onvif' \in Files
      BY <1>2, <2>1 DEF Files
    <3> QED
      BY <1>4, <2>1, <3>1
  <2>2. CASE /\ onvif # Torn /\ Draws("failures") /\ WritesOnvif(c, change[c].wanted)
             /\ change' \in {[change EXCEPT ![c].pc = pc, ![c].onvif = onvif] :
                               pc \in {"readback", "undo"}}
    <3>1. onvif' \in Files
      BY <1>2, <2>2, CredStarts DEF Files, WritesOnvif
    <3> QED
      BY <1>4, <2>2, <3>1
  <2> QED
    BY <1>3, <2>1, <2>2 DEF update_onvif

(* What ONVIF's file holds is compared with what was asked for.            *)
LEMMA ReadBackKeeps ==
    ASSUME CredInv, NEW c \in Changers, read_back_onvif(c)
    PROVE  CredInv'
<1>1. /\ change[c].pc = "readback" /\ ChangeOnly /\ UNCHANGED <<shadow, onvif>> /\ GoesOn
      /\ ~MustWait(change[c]) /\ UNCHANGED credLog
      /\ UNCHANGED credLeft \/ Draws("failures")
  BY DEF read_back_onvif, Changes, MustWait, GoesOn
<1>2. /\ change[c] \in Handlings /\ change \in [Changers -> Handlings]
      /\ change[c].wanted \in Passwords /\ shadow = change[c].wanted
      /\ change[c].shadow = credLog.before[1] /\ change[c].onvif = credLog.before[2]
  BY <1>1, HolderKnows, CredStarts DEF PhaseAgrees
<1>3. CASE onvif = change[c].wanted /\ Updated(c, "answer", "ok")
  <2>1. PICK h \in Handlings :
             /\ change' = [change EXCEPT ![c] = h] /\ h.pc = "answer"
             /\ h.updated = "ok" /\ h.wanted = change[c].wanted
    <3> DEFINE k == [change[c] EXCEPT !.pc = "answer", !.updated = "ok"]
    <3>1. change' = [change EXCEPT ![c] = k]
      BY <1>2, <1>3 DEF Updated
    <3>2. k \in Handlings /\ k.pc = "answer" /\ k.updated = "ok" /\ k.wanted = change[c].wanted
      BY <1>2 DEF Handlings, ChangePoints
    <3> HIDE DEF k
    <3> QED
      BY <3>1, <3>2
  <2>2. PhaseAgrees(h)'
    BY <1>1, <1>2, <1>3, <2>1 DEF PhaseAgrees
  <2> QED
    BY <1>1, <2>1, <2>2, CredStarts, HolderGoesOn DEF MustWait
<1>4. CASE Moves(c, "undo")
  <2>1. PICK h \in Handlings :
             /\ change' = [change EXCEPT ![c] = h] /\ h.pc = "undo"
             /\ h.shadow = change[c].shadow /\ h.onvif = change[c].onvif
             /\ h.wanted = change[c].wanted
    <3> DEFINE k == [change[c] EXCEPT !.pc = "undo"]
    <3>1. change' = [change EXCEPT ![c] = k]
      BY <1>4 DEF Moves
    <3>2. /\ k \in Handlings /\ k.pc = "undo" /\ k.shadow = change[c].shadow
          /\ k.onvif = change[c].onvif /\ k.wanted = change[c].wanted
      BY <1>2 DEF Handlings, ChangePoints
    <3> HIDE DEF k
    <3> QED
      BY <3>1, <3>2
  <2>2. PhaseAgrees(h)'
    BY <1>1, <1>2, <2>1 DEF PhaseAgrees
  <2> QED
    BY <1>1, <2>1, <2>2, CredStarts, HolderGoesOn DEF MustWait
<1> QED
  BY <1>3, <1>4 DEF read_back_onvif

(* What ONVIF's file held is written back, or that is not known to be so.   *)
LEMMA UndoKeeps ==
    ASSUME CredInv, NEW c \in Changers, undo_onvif(c)
    PROVE  CredInv'
<1>1. /\ change[c].pc = "undo" /\ ChangeOnly /\ UNCHANGED shadow /\ GoesOn
      /\ ~MustWait(change[c]) /\ UNCHANGED credLog
      /\ UNCHANGED credLeft \/ Draws("failures")
  BY DEF undo_onvif, Changes, MustWait, GoesOn
<1>2. /\ change[c] \in Handlings /\ change \in [Changers -> Handlings]
      /\ change[c].wanted \in Passwords /\ change[c].onvif \in Files
      /\ change[c].shadow = credLog.before[1] /\ change[c].onvif = credLog.before[2]
  BY <1>1, HolderKnows, CredStarts DEF PhaseAgrees, Handlings
<1>3. PICK updated \in {"error", "partial"} :
           /\ Updated(c, "restore", updated) /\ onvif' \in Files
           /\ updated = "error" => onvif' = change[c].onvif
  BY <1>2, CredStarts DEF undo_onvif, WritesOnvif, Files
<1>4. PICK h \in Handlings :
           /\ change' = [change EXCEPT ![c] = h] /\ h.pc = "restore"
           /\ h.shadow = change[c].shadow /\ h.updated = updated
           /\ h.wanted = change[c].wanted
  <2> DEFINE k == [change[c] EXCEPT !.pc = "restore", !.updated = updated]
  <2>1. change' = [change EXCEPT ![c] = k]
    BY <1>2, <1>3 DEF Updated
  <2>2. /\ k \in Handlings /\ k.pc = "restore" /\ k.shadow = change[c].shadow
        /\ k.updated = updated /\ k.wanted = change[c].wanted
    BY <1>2, <1>3 DEF Handlings, ChangePoints
  <2> HIDE DEF k
  <2> QED
    BY <2>1, <2>2
<1>5. PhaseAgrees(h)'
  BY <1>1, <1>2, <1>3, <1>4 DEF PhaseAgrees
<1> QED
  BY <1>1, <1>3, <1>4, <1>5, CredStarts, HolderGoesOn DEF MustWait

(* What the shadow file held is put back, or that is not known to be so.    *)
LEMMA RestoreKeeps ==
    ASSUME CredInv, NEW c \in Changers, restore_password(c)
    PROVE  CredInv'
<1>1. /\ change[c].pc = "restore" /\ ChangeOnly /\ UNCHANGED onvif /\ GoesOn
      /\ ~MustWait(change[c]) /\ UNCHANGED credLog
      /\ UNCHANGED credLeft \/ Draws("failures")
  BY DEF restore_password, Changes, MustWait, GoesOn
<1>2. /\ change[c] \in Handlings /\ change \in [Changers -> Handlings]
      /\ change[c].wanted \in Passwords /\ change[c].shadow \in Passwords
      /\ change[c].shadow = credLog.before[1] /\ change[c].updated \in {"error", "partial"}
      /\ change[c].updated = "error" => onvif = credLog.before[2]
      /\ credLog.before \in Passwords \X Files
  BY <1>1, HolderKnows, CredStarts DEF PhaseAgrees
<1>3. CASE shadow' = change[c].shadow /\ Moves(c, "answer")
  <2>1. PICK h \in Handlings :
             /\ change' = [change EXCEPT ![c] = h] /\ h.pc = "answer"
             /\ h.updated = change[c].updated /\ h.wanted = change[c].wanted
    <3> DEFINE k == [change[c] EXCEPT !.pc = "answer"]
    <3>1. change' = [change EXCEPT ![c] = k]
      BY <1>3 DEF Moves
    <3>2. /\ k \in Handlings /\ k.pc = "answer" /\ k.updated = change[c].updated
          /\ k.wanted = change[c].wanted
      BY <1>2 DEF Handlings, ChangePoints
    <3> HIDE DEF k
    <3> QED
      BY <3>1, <3>2
  <2>2. credLog.before = <<credLog.before[1], credLog.before[2]>>
    BY <1>2
  <2>3. PhaseAgrees(h)'
    BY <1>1, <1>2, <1>3, <2>1, <2>2 DEF PhaseAgrees
  <2>4. shadow' \in Passwords /\ onvif' \in Files
    BY <1>1, <1>2, <1>3, CredStarts
  <2> QED
    BY <1>1, <2>1, <2>3, <2>4, HolderGoesOn DEF MustWait
<1>4. CASE shadow' \in {shadow, change[c].shadow} /\ Updated(c, "answer", "partial")
  <2>1. PICK h \in Handlings :
             /\ change' = [change EXCEPT ![c] = h] /\ h.pc = "answer"
             /\ h.updated = "partial" /\ h.wanted = change[c].wanted
    <3> DEFINE k == [change[c] EXCEPT !.pc = "answer", !.updated = "partial"]
    <3>1. change' = [change EXCEPT ![c] = k]
      BY <1>2, <1>4 DEF Updated
    <3>2. /\ k \in Handlings /\ k.pc = "answer" /\ k.updated = "partial"
          /\ k.wanted = change[c].wanted
      BY <1>2 DEF Handlings, ChangePoints
    <3> HIDE DEF k
    <3> QED
      BY <3>1, <3>2
  <2>2. PhaseAgrees(h)'
    BY <1>2, <2>1 DEF PhaseAgrees
  <2>3. shadow' \in Passwords /\ onvif' \in Files
    BY <1>1, <1>2, <1>4, CredStarts
  <2> QED
    BY <1>1, <2>1, <2>2, <2>3, HolderGoesOn DEF MustWait
<1> QED
  BY <1>3, <1>4 DEF restore_password

(* The answer is what the two files came to.                               *)
LEMMA ChangeAnswers ==
    ASSUME CredInv, NEW c \in Changers, answer_change(c)
    PROVE  CredInv'
<1>1. /\ change[c].pc = "answer" /\ ChangeOnly /\ UNCHANGED <<shadow, onvif, credLeft>>
      /\ ~MustWait(change[c])
  BY DEF answer_change, Changes, MustWait
<1>2. /\ change[c].updated = "ok" => shadow = change[c].wanted /\ onvif = change[c].wanted
      /\ change[c].updated = "error" => <<shadow, onvif>> = credLog.before
  BY <1>1, HolderKnows DEF PhaseAgrees
<1>3. CASE change[c].updated = "ok"
  <2>1. Answers(c, "ok")
    BY <1>3 DEF answer_change
  <2> QED
    BY <1>1, <1>2, <1>3, <2>1, HolderAnswers
<1>4. CASE change[c].updated = "error"
  <2>1. Answers(c, "failed")
    BY <1>4 DEF answer_change
  <2> QED
    BY <1>1, <1>2, <1>4, <2>1, HolderAnswers
<1>5. CASE change[c].updated \notin {"ok", "error"}
  <2>1. Answers(c, "partial")
    BY <1>5 DEF answer_change
  <2> QED
    BY <1>1, <2>1, HolderAnswers
<1> QED
  BY <1>3, <1>4, <1>5

-----------------------------------------------------------------------------
(* The daemon starts with nobody's login and nobody's change.              *)
LEMMA CredInitEstablishes == CredentialInit => CredInv
<1> SUFFICES ASSUME CredentialInit PROVE CredInv
  OBVIOUS
<1>1. /\ shadow \in Passwords /\ onvif \in Passwords /\ apiKey = FALSE
      /\ sessions = << >> /\ clock = 0
      /\ limiter = [window_started |-> -1, global_attempts |-> 0,
                    source_attempts |-> [source \in Addresses |-> 0]]
      /\ login = [pc |-> "idle", hash |-> Torn]
      /\ change = [c \in Changers |-> NoChange] /\ updates = Torn
      /\ credLog = [admitted |-> <<>>, answer |-> "none", wanted |-> Torn,
                    before |-> <<shadow, onvif>>, remained |-> {}]
      /\ credLeft \in CredentialBudget
  BY CredentialAssumption DEF CredentialInit
<1>2. /\ credLog \in CredLogs /\ credLog.admitted = <<>> /\ credLog.answer = "none"
      /\ credLog.remained = {}
  BY <1>1 DEF CredLogs, Files
<1>3. /\ NoChange \in Handlings /\ NoChange.pc = "idle"
  BY DEF NoChange, Handlings, ChangePoints, Files
<1>4. PasswordsInv
  BY <1>1, <1>2, <1>3, CredBounds
     DEF PasswordsInv, LockIsTheirs, PhasesAgree, PhaseAgrees, FilesAreTogether, MustWait
<1>5. DOMAIN sessions = {}
  BY <1>1
<1>6. SessionsAreKept
  <2>1. Cardinality({}) = 0
    BY FS_EmptySet
  <2> QED
    BY <1>5, <2>1, CredBounds DEF SessionsAreKept
<1>7. SessionsInv
  <2>1. ToCome = credLeft.logins + 0
    BY <1>1 DEF ToCome, Bit
  <2>2. /\ credLeft.logins \in 0..CredentialBounds.logins
        /\ credLeft.ticks \in 0..CredentialBounds.ticks
    BY <1>1 DEF CredentialBudget
  <2> QED
    BY <1>1, <1>2, <1>5, <2>1, <2>2, CredBounds DEF SessionsInv, SessionsAreNumbered, SessionsEnd
<1>8. /\ limiter \in Limiters /\ limiter.window_started = -1 /\ limiter.global_attempts = 0
      /\ \A source \in Addresses : limiter.source_attempts[source] = 0
  BY <1>1, CredBounds DEF Limiters
<1>9. AttemptsInv
  <2>1. \A G, lo, hi : Cardinality(Within(<<>>, G, lo, hi)) = 0
    <3>1. Cardinality({}) = 0
      BY FS_EmptySet
    <3>2. \A G, lo, hi : Within(<<>>, G, lo, hi) = {}
      BY DEF Within
    <3> QED
      BY <3>1, <3>2
  <2>2. \A began, G : \A limit \in Nat : Limited(<<>>, began, G, 0, limit)
    BY <2>1 DEF Limited
  <2>3. InWindow(<<>>, -1, 0)
    BY DEF InWindow
  <2> QED
    BY <1>1, <1>2, <1>8, <2>2, <2>3, CredBounds DEF AttemptsInv
<1>10. CredentialTypeOK
  <2>1. 0 \in Times /\ change \in [Changers -> Handlings]
    BY <1>1, <1>3, CredBounds
  <2>2. login \in Verifiers /\ onvif \in Files
    BY <1>1 DEF Verifiers, Files
  <2> QED
    BY <1>1, <1>2, <1>6, <1>8, <2>1, <2>2, CredTypes
<1> QED
  BY <1>2, <1>4, <1>7, <1>9, <1>10 DEF CredInv

(* A step of a login, a session, the clock or a change of the password.    *)
LEMMA CredStepKeeps ==
    ASSUME CredInv, CredentialNext
    PROVE  CredInv'
<1>1. CASE \E source \in Addresses : admit_login(source)
  BY <1>1, AdmitKeeps
<1>2. CASE login_verifies \/ login_inserts
  BY <1>2, VerifyKeeps, InsertKeeps
<1>3. CASE \/ \E id \in DOMAIN sessions : authorize(id) \/ logout(id)
           \/ \E exists \in BOOLEAN : api_key(exists)
           \/ tick
  BY <1>3, SessionKeeps
<1>4. ASSUME NEW c \in Changers, Change(c) PROVE CredInv'
  BY <1>4, ChangeBegins, ChangeLocks, PasswordKeeps, OnvifKeeps, ReadBackKeeps, UndoKeeps,
     RestoreKeeps, ChangeAnswers DEF Change
<1> QED
  BY <1>1, <1>2, <1>3, <1>4 DEF CredentialNext

(* What the invariant says holds whenever nothing moves.                   *)
LEMMA CredRestKeeps == CredInv /\ UNCHANGED credentialVars => CredInv'
<1> SUFFICES ASSUME CredInv, UNCHANGED credentialVars PROVE CredInv'
  OBVIOUS
<1>1. /\ UNCHANGED <<shadow, onvif, apiKey, sessions, limiter, clock, login, change>>
      /\ UNCHANGED <<updates, credLog, credLeft>>
  BY DEF credentialVars
<1>2. credLeft' \in CredentialBudget /\ SessionsAreKept' /\ SessionsInv'
  BY <1>1, ChangeRests
<1>3. PasswordsInv'
  BY <1>1, CredStarts, PasswordsRest
<1> QED
  BY <1>1, <1>2, <1>3, CredStarts, ChangeCloses DEF ChangeOnly

(* The invariant the statements below rest on: types, a lock that is held   *)
(* from end to end and files that are as far as its holder is, sessions    *)
(* whose numbers are their own, and windows that have counted.             *)
THEOREM CredentialInvariance == CredentialSpec => []CredInv
<1>1. CredInv /\ [CredentialNext]_credentialVars => CredInv'
  BY CredStepKeeps, CredRestKeeps
<1> QED
  BY <1>1, CredInitEstablishes, PTL DEF CredentialSpec

(* A change of the password that is accepted is in both files, one that    *)
(* failed is in neither, and one that is half done has ended the sessions:  *)
(* for any number of handlers, passwords and failures.                     *)
THEOREM CredentialsStayTogether == CredentialSpec => []CredentialsAreTogether
<1>1. CredInv => CredentialsAreTogether
  BY DEF CredInv, PasswordsInv, FilesAreTogether, SessionsInv, SessionsEnd,
         CredentialsAreTogether
<1> QED
  BY <1>1, CredentialInvariance, PTL

(* Twice the limit is all that is admitted in a window's time, wherever it  *)
(* begins: for any limits, any window and any number of sources.           *)
THEOREM AttemptsStayLimited == CredentialSpec => []AttemptsAreLimited
<1>1. ASSUME CredInv PROVE AttemptsAreLimited
  <2> SUFFICES ASSUME NEW start \in Times
               PROVE  LET within == {i \in DOMAIN credLog.admitted :
                                       credLog.admitted[i].at \in start..start + Window - 1}
                      IN  /\ Cardinality(within) <= 2 * GlobalLimit
                          /\ \A source \in Addresses :
                               Cardinality({i \in within : credLog.admitted[i].source = source})
                                 <= 2 * SourceLimit
    BY DEF AttemptsAreLimited
  <2> DEFINE log == credLog.admitted
             within == {i \in DOMAIN log : log[i].at \in start..start + Window - 1}
  <2>1. log \in Seq(Attempt) /\ DOMAIN log = 1..Len(log)
    BY <1>1, CredStarts
  <2>2. \A i \in 1..Len(log) : log[i].source \in Addresses
    <3>1. \A i \in 1..Len(log) : log[i] \in Attempt
      BY <2>1
    <3> QED
      BY <3>1 DEF Attempt
  <2>3. within = Within(log, Addresses, start, start + Window - 1)
    BY <2>1, <2>2 DEF Within
  <2>4. \A source \in Addresses :
          {i \in within : log[i].source = source}
            = Within(log, {source}, start, start + Window - 1)
    BY <2>1 DEF Within
  <2>5. /\ Cardinality(Within(log, Addresses, start, start + Window - 1)) <= 2 * GlobalLimit
        /\ \A source \in Addresses :
             Cardinality(Within(log, {source}, start, start + Window - 1)) <= 2 * SourceLimit
    BY <1>1, CredStarts DEF AttemptsInv, Limited
  <2> QED
    BY <2>3, <2>4, <2>5
<1> QED
  BY <1>1, CredentialInvariance, PTL
=============================================================================
