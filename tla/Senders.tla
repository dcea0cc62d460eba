------------------------------- MODULE Senders -------------------------------
(***************************************************************************)
(* What a sender of motion notifications does with an event: the services  *)
(* of motion_webhook.rs, motion_ntfy.rs, motion_gotify.rs,                 *)
(* motion_telegram.rs, motion_email.rs and motion_ftp.rs.  They have one   *)
(* shape: a bounded queue whose events carry the generation of the         *)
(* settings they were queued under, a thread that compares it, a request   *)
(* that merges settings into the file (camera/config/domains.rs) and makes *)
(* them live, and one that compares the two.  A behaviour of this module   *)
(* is that of one of them, `sender`.  The FTP sender also takes a picture, *)
(* which privacy must not be in.                                           *)
(***************************************************************************)
EXTENDS Integers, Sequences

CONSTANTS
    SenderKinds,       \* which of the six services
    SenderConfigs,     \* what the file may hold when the daemon starts
    SenderPatches,     \* what a request may ask
    SenderCapacity,    \* QUEUE_CAPACITY
    MaxOffers,         \* bound: events of motion
    MaxChanges,        \* bound: requests that save settings
    MaxMasks,          \* bound: privacy commands
    MaxSenderFailures, \* bound: what fails
    MaxLooks,          \* bound: requests that read settings
    SenderBudgets      \* what of these bounds one behaviour may use

Senders == {"webhook", "ntfy", "gotify", "telegram", "email", "ftp"}

(* The address is where it goes: the URL, the endpoint, the bot's token, or  *)
(* host and user; the secret is the token, the chat or the password.  Only   *)
(* "plain" is not https.  A request may keep what is there.                  *)
Unset == ""
Destinations == {Unset, "plain", "https", "other"}
Secrets   == {Unset, "set"}
Config == [enabled : BOOLEAN, address : Destinations, secret : Secrets]
DefaultConfig == [enabled |-> FALSE, address |-> Unset, secret |-> Unset]
Patch == [enabled : {"yes", "no", "keep"}, address : Destinations \union {"keep"},
          secret : Secrets \union {"keep"}]

ASSUME SenderAssumption ==
    /\ SenderKinds \subseteq Senders
    /\ SenderConfigs \subseteq Config /\ SenderPatches \subseteq Patch
    /\ SenderCapacity \in Nat \ {0}
    /\ {MaxOffers, MaxChanges, MaxMasks, MaxSenderFailures, MaxLooks} \subseteq Nat
    /\ SenderBudgets \subseteq [offers : 0..MaxOffers, changes : 0..MaxChanges,
                                masks : 0..MaxMasks, failures : 0..MaxSenderFailures,
                                looks : 0..MaxLooks]

VARIABLES
    sender,      \* which service this is
    live,        \* LiveConfig
    generation,  \* Service.generation
    enabled,     \* runtime.enabled
    queued,      \* runtime.queued
    events,      \* the channel
    offer,       \* try_send_motion, between its steps
    delivery,    \* the locals of worker_loop, or of process_event
    saved,       \* the settings' file
    request,     \* the handler of a POST
    reading,     \* the handler of a GET
    mask,        \* privacy: what the camera does, its generation and command
    lock,        \* who has the mutation lock
    senderLog,   \* for the properties: changes begun and acknowledged, whether
                 \* an older event has been sent since, and whether the picture
                 \* in hand may show what is masked
    senderLeft   \* what is left of the bounds
senderVars == <<sender, live, generation, enabled, queued, events, offer, delivery,
                saved, request, reading, mask, lock, senderLog, senderLeft>>

(* For the properties, an event keeps the settings its generation stands    *)
(* for and how many changes had begun when it was queued.                  *)
Event == [generation : 0..MaxChanges + 1, begun : 0..MaxChanges, config : Config]
SenderTypeOK ==
    /\ sender \in [kind : SenderKinds, available : BOOLEAN, running : BOOLEAN]
    /\ live \in [value : Config, generation : 0..MaxChanges + 1]
    /\ generation \in 0..MaxChanges + 1
    /\ enabled \in BOOLEAN
    /\ queued \in 0..SenderCapacity + 2
    /\ events \in Seq(Event) /\ Len(events) <= SenderCapacity
    /\ offer \in [pc : {"idle", "counted", "send"}, event : Event]
    /\ delivery \in [pc : {"receive", "taken", "check", "post", "status", "shoot",
                           "status again", "admit", "upload"},
                     event : Event, config : Config, mask : 0..MaxMasks]
    /\ saved \in Config
    /\ request \in [pc : {"idle", "save", "apply", "change", "assign", "enable", "answer"},
                    config : Config, answer : {"none", "applied", "refused", "partial"}]
    /\ reading \in [pc : {"idle", "live"}, saved : Config, met : BOOLEAN, matches : BOOLEAN]
    /\ mask \in [on : BOOLEAN, generation : 0..MaxMasks, pc : {"idle", "command"}, to : BOOLEAN]
    /\ lock \in {"none", "request", "privacy"}
    /\ senderLog \in [begun : 0..MaxChanges, acknowledged : 0..MaxChanges,
                      late : BOOLEAN, shown : BOOLEAN]
    /\ senderLeft \in [offers : 0..MaxOffers, changes : 0..MaxChanges,
                       masks : 0..MaxMasks, failures : 0..MaxSenderFailures,
                       looks : 0..MaxLooks]

-----------------------------------------------------------------------------
(* What the file may hold of each service: what is enabled has all that its *)
(* server asks for, and a token is sent over https only.                    *)

https(config) == config.secret # Unset => config.address \in {"https", "other"}
Complete(config) == config.enabled => config.address # Unset /\ config.secret # Unset
validate_motion_webhook(config)  == config.enabled => config.address # Unset
validate_motion_ntfy(config)     == (config.enabled => config.address # Unset) /\ https(config)
validate_motion_gotify(config)   == Complete(config) /\ https(config)
validate_motion_telegram(config) == Complete(config)
validate_motion_email(config)    == Complete(config)
validate_motion_ftp(config)      == Complete(config)
validate_domain(config) ==
    [webhook |-> validate_motion_webhook(config), ntfy |-> validate_motion_ntfy(config),
     gotify |-> validate_motion_gotify(config), telegram |-> validate_motion_telegram(config),
     email |-> validate_motion_email(config), ftp |-> validate_motion_ftp(config)][sender.kind]

(* A webhook has no secret; a URL can be replaced but not unset, other      *)
(* fields with a command of their own or by an empty text.                  *)
PossiblePatch(patch) ==
    /\ sender.kind = "webhook" => patch.secret = "keep"
    /\ sender.kind \in {"webhook", "ntfy"} => patch.address # Unset
normalize_secret_update(asked, current) == IF asked = "keep" THEN current ELSE asked
Merged(patch) ==
    [enabled |-> IF patch.enabled = "keep" THEN saved.enabled ELSE patch.enabled = "yes",
     address |-> normalize_secret_update(patch.address, saved.address),
     secret  |-> normalize_secret_update(patch.secret, saved.secret)]

(* What can be made live, besides: the library that transfers is there.     *)
Usable(config) == config.enabled => sender.available /\ validate_domain(config)
NoEvent == [generation |-> 0, begun |-> 0, config |-> DefaultConfig]

(* start_motion_*: what the file holds is applied, or else the default,    *)
(* and the thread is started if it can be.                                 *)
Is(kind) == sender.kind = kind
Starts ==
    /\ live = LET value == IF validate_domain(saved) /\ Usable(saved) THEN saved ELSE DefaultConfig
              IN  [value |-> value, generation |-> IF value = DefaultConfig THEN 0 ELSE 1]
    /\ generation = live.generation /\ enabled = live.value.enabled
start_motion_webhook  == Is("webhook")  /\ Starts
start_motion_ntfy     == Is("ntfy")     /\ Starts
start_motion_gotify   == Is("gotify")   /\ Starts
start_motion_telegram == Is("telegram") /\ Starts
start_motion_email    == Is("email")    /\ Starts
start_motion_ftp      == Is("ftp")      /\ Starts

SenderInit ==
    /\ sender \in [kind : SenderKinds, available : BOOLEAN, running : BOOLEAN]
    /\ saved \in {config \in SenderConfigs : Is("webhook") => config.secret = Unset}
    /\ \/ start_motion_webhook \/ start_motion_ntfy \/ start_motion_gotify
       \/ start_motion_telegram \/ start_motion_email \/ start_motion_ftp
    /\ reading = [pc |-> "idle", saved |-> DefaultConfig, met |-> FALSE, matches |-> FALSE]
    /\ queued = 0 /\ events = <<>>
    /\ offer = [pc |-> "idle", event |-> NoEvent]
    /\ delivery = [pc |-> "receive", event |-> NoEvent, config |-> DefaultConfig, mask |-> 0]
    /\ request = [pc |-> "idle", config |-> DefaultConfig, answer |-> "none"]
    /\ mask \in [on : BOOLEAN, generation : {0}, pc : {"idle"}, to : {FALSE}]
    /\ lock = "none"
    /\ senderLog = [begun |-> 0, acknowledged |-> 0, late |-> FALSE, shown |-> FALSE]
    /\ senderLeft \in SenderBudgets

Uses(resource) ==
    /\ senderLeft[resource] > 0
    /\ senderLeft' = [senderLeft EXCEPT ![resource] = @ - 1]
Unused == UNCHANGED senderLeft

-----------------------------------------------------------------------------
(* try_send_motion, called by the poller, which has one event at a time.   *)

Offer(pc) == offer.pc = pc /\ UNCHANGED <<sender, live, generation, enabled, delivery,
                                          saved, request, reading, mask, lock, senderLog>>

offer_counted ==
    /\ Offer("idle") /\ Uses("offers")
    /\ IF enabled THEN queued' = queued + 1 /\ offer' = [offer EXCEPT !.pc = "counted"]
                  ELSE UNCHANGED <<queued, offer>>
    /\ UNCHANGED events

(* The settings of the newest generation: live, or about to be.            *)
Newest == IF request.pc = "assign" THEN request.config ELSE live.value

offer_generation ==
    /\ Offer("counted") /\ Unused
    /\ offer' = [pc |-> "send", event |-> [generation |-> generation,
                                          begun |-> senderLog.begun, config |-> Newest]]
    /\ UNCHANGED <<queued, events>>

offer_send ==
    /\ Offer("send") /\ Unused
    /\ IF Len(events) < SenderCapacity
       THEN events' = Append(events, offer.event) /\ UNCHANGED queued
       ELSE queued' = queued - 1 /\ UNCHANGED events
    /\ offer' = [pc |-> "idle", event |-> NoEvent]

TrySend == offer_counted \/ offer_generation \/ offer_send

-----------------------------------------------------------------------------
(* worker_loop: an event of other settings than the live ones is dropped.  *)

Deliver(pc) == delivery.pc = pc /\ sender.running
Others == <<sender, live, generation, enabled, offer, saved, request, reading, mask, lock>>
Done == delivery' = [delivery EXCEPT !.pc = "receive", !.event = NoEvent,
                                     !.config = DefaultConfig, !.mask = 0]
Turns(pc) == delivery' = [delivery EXCEPT !.pc = pc]

receive ==
    /\ Deliver("receive") /\ events # <<>>
    /\ delivery' = [delivery EXCEPT !.pc = "taken", !.event = Head(events)]
    /\ events' = Tail(events)
    /\ UNCHANGED <<Others, queued, senderLog, senderLeft>>

taken ==
    /\ Deliver("taken") /\ Turns("check") /\ queued' = queued - 1
    /\ UNCHANGED <<Others, events, senderLog, senderLeft>>

(* The settings are cloned under their own lock, which apply holds while   *)
(* it changes them.                                                        *)
ConfigFree == request.pc # "assign"

CheckEnabled ==   \* variant: the generation is not compared
    /\ Deliver("check") /\ ConfigFree
    /\ IF live.value.enabled
       THEN delivery' = [delivery EXCEPT !.pc = IF sender.kind = "ftp" THEN "status" ELSE "post",
                                         !.config = live.value, !.mask = mask.generation]
       ELSE Done
    /\ UNCHANGED <<Others, queued, events, senderLog, senderLeft>>

check ==
    /\ Deliver("check") /\ ConfigFree
    /\ IF live.generation = delivery.event.generation /\ live.value.enabled
       THEN delivery' = [delivery EXCEPT !.pc = IF sender.kind = "ftp" THEN "status" ELSE "post",
                                         !.config = live.value, !.mask = mask.generation]
       ELSE Done
    /\ UNCHANGED <<Others, queued, events, senderLog, senderLeft>>

(* Sent with the settings cloned in the check: nothing is looked at again.  *)
(* The server has it, refuses it or is not reached: it is tried once.      *)
Outdated == delivery.event.begun < senderLog.acknowledged
post ==
    /\ Deliver("post") /\ Done
    /\ senderLog' = [senderLog EXCEPT !.late = @ \/ Outdated]
    /\ UNCHANGED <<Others, queued, events, senderLeft>>

PlainWorker == receive \/ taken \/ check \/ post

-----------------------------------------------------------------------------
(* process_event of the FTP sender: a picture, looked at for privacy on    *)
(* both sides and once more under the mutation lock before it is sent.     *)

SameGeneration == generation = delivery.event.generation

ftp_status(pc, then) ==
    /\ Deliver(pc)
    /\ \/ ~mask.on /\ (pc = "status" => SameGeneration) /\ Turns(then) /\ Unused
       \/ (mask.on \/ (pc = "status" /\ ~SameGeneration)) /\ Done /\ Unused
       \/ Done /\ Uses("failures")
    /\ UNCHANGED <<Others, queued, events, senderLog>>

ftp_shoot ==
    /\ Deliver("shoot")
    /\ \/ /\ Turns("status again") /\ Unused
          /\ senderLog' = [senderLog EXCEPT !.shown = mask.on]
       \/ Done /\ Uses("failures") /\ UNCHANGED senderLog
    /\ UNCHANGED <<Others, queued, events>>

ftp_admit ==
    /\ Deliver("admit")
    /\ IF /\ lock = "none" /\ live.generation = delivery.event.generation
          /\ live.value.enabled /\ saved = delivery.config
          /\ mask.generation = delivery.mask /\ ~mask.on
       THEN Turns("upload") ELSE Done
    /\ UNCHANGED <<Others, queued, events, senderLog, senderLeft>>

(* The transfer stops when either generation has moved on.                 *)
ftp_upload ==
    /\ Deliver("upload") /\ Done
    /\ UNCHANGED <<Others, queued, events, senderLog, senderLeft>>

FtpWorker ==
    \/ ftp_status("status", "shoot") \/ ftp_shoot
    \/ ftp_status("status again", "admit") \/ ftp_admit \/ ftp_upload

-----------------------------------------------------------------------------
(* A POST of settings, under the mutation lock: merged into the file, made *)
(* live, and acknowledged when a thread is there for them.                 *)

Request(pc) == request.pc = pc /\ UNCHANGED <<sender, queued, events, offer, delivery, mask>>
Step(pc) == request' = [request EXCEPT !.pc = pc]
Reply(answer) ==
    /\ request' = [request EXCEPT !.pc = "idle", !.answer = answer]
    /\ lock' = "none"
(* Whether the file and the live settings have agreed since a GET began.   *)
Met == reading' = [reading EXCEPT !.met = @ \/ (reading.pc # "idle" /\ saved' = live'.value)]

request_begins(patch) ==
    /\ Request("idle") /\ lock = "none" /\ Uses("changes")
    /\ PossiblePatch(patch)
    /\ lock' = "request"
    /\ request' = [pc |-> "save", config |-> Merged(patch), answer |-> "none"]
    /\ UNCHANGED <<live, generation, enabled, saved, reading, senderLog>>

(* What the file holds and what it would hold are both looked at before it *)
(* is replaced.  A save that fails has changed nothing; one whose file     *)
(* cannot be read back has.                                                *)
update_validated_config_domain ==
    /\ Request("save")
    /\ \/ /\ validate_domain(saved) /\ validate_domain(request.config)
          /\ saved' = request.config /\ Step("apply") /\ UNCHANGED lock /\ Unused
       \/ /\ ~(validate_domain(saved) /\ validate_domain(request.config))
          /\ UNCHANGED saved /\ Reply("refused") /\ Unused
       \/ /\ validate_domain(saved) /\ validate_domain(request.config)
          /\ saved' \in {saved, request.config} /\ Reply("refused") /\ Uses("failures")
    /\ UNCHANGED <<live, generation, enabled, senderLog>> /\ Met

(* Service::apply: what cannot be used is refused before anything changes. *)
request_applies ==
    /\ Request("apply")
    /\ IF Usable(request.config)
       THEN /\ enabled' = FALSE /\ Step("change") /\ UNCHANGED lock
            /\ senderLog' = IF request.config = live.value THEN senderLog
                            ELSE [senderLog EXCEPT !.begun = @ + 1]
       ELSE Reply("partial") /\ UNCHANGED <<enabled, senderLog>>
    /\ UNCHANGED <<live, generation, saved, reading, senderLeft>>

request_changes ==
    /\ Request("change")
    /\ IF live.value = request.config THEN Step("enable") /\ UNCHANGED generation
       ELSE Step("assign") /\ generation' = generation + 1
    /\ UNCHANGED <<live, enabled, saved, reading, lock, senderLog, senderLeft>>

request_assigns ==
    /\ Request("assign") /\ Step("enable")
    /\ live' = [value |-> request.config, generation |-> generation]
    /\ UNCHANGED <<generation, enabled, saved, lock, senderLog, senderLeft>> /\ Met

request_enables ==
    /\ Request("enable") /\ Step("answer")
    /\ enabled' = request.config.enabled
    /\ UNCHANGED <<live, generation, saved, reading, lock, senderLog, senderLeft>>

Acknowledges ==
    senderLog' = [senderLog EXCEPT !.acknowledged = senderLog.begun,
                                   !.late = @ /\ senderLog.acknowledged = senderLog.begun]

AnswerAnyway ==   \* variant: the thread is not looked for
    /\ Request("answer")
    /\ Reply("applied") /\ Acknowledges
    /\ UNCHANGED <<live, generation, enabled, saved, reading, senderLeft>>

request_answers ==
    /\ Request("answer")
    /\ IF request.config.enabled /\ ~sender.running
       THEN Reply("partial") /\ UNCHANGED senderLog
       ELSE Reply("applied") /\ Acknowledges
    /\ UNCHANGED <<live, generation, enabled, saved, reading, senderLeft>>

SenderRequest == update_validated_config_domain \/ request_answers
Applies == request_applies \/ request_changes \/ request_assigns \/ request_enables

(* A GET takes no lock: the file is read, then the live settings, and the   *)
(* answer says whether they are the same.                                   *)
UnlockedLook == UNCHANGED <<sender, live, generation, enabled, queued, events, offer, delivery,
                    saved, request, mask, lock, senderLog>>
look_begins ==
    /\ reading.pc = "idle" /\ validate_domain(saved) /\ Uses("looks") /\ UnlockedLook
    /\ reading' = [pc |-> "live", saved |-> saved, met |-> saved = live.value, matches |-> FALSE]

public_config ==
    /\ reading.pc = "live" /\ ConfigFree /\ Unused /\ UnlockedLook
    /\ reading' = [reading EXCEPT !.pc = "idle", !.matches = reading.saved = live.value]
SenderLook == look_begins \/ public_config

-----------------------------------------------------------------------------
(* set_privacy: the generation moves before the camera is told.            *)

privacy_begins(on) ==
    /\ mask.pc = "idle" /\ lock = "none" /\ Uses("masks")
    /\ lock' = "privacy"
    /\ mask' = [mask EXCEPT !.pc = "command", !.to = on, !.generation = @ + 1]
    /\ UNCHANGED <<sender, live, generation, enabled, queued, events, offer, delivery,
                   saved, request, reading, senderLog>>

privacy_ends ==
    /\ mask.pc = "command" /\ lock' = "none"
    /\ \/ mask' = [mask EXCEPT !.pc = "idle", !.on = mask.to, !.to = FALSE] /\ Unused
       \/ mask' = [mask EXCEPT !.pc = "idle", !.to = FALSE] /\ Uses("failures")
    /\ senderLog' = [senderLog EXCEPT !.shown = @ \/ mask'.on]
    /\ UNCHANGED <<sender, live, generation, enabled, queued, events, offer, delivery,
                   saved, request, reading>>

-----------------------------------------------------------------------------
(* The six services.                                                       *)

webhook_request  == Is("webhook") /\ SenderRequest
webhook_apply    == Is("webhook") /\ Applies
webhook_config   == Is("webhook") /\ SenderLook
webhook_offer    == Is("webhook") /\ TrySend
webhook_worker   == Is("webhook") /\ PlainWorker
ntfy_request     == Is("ntfy") /\ SenderRequest
ntfy_apply       == Is("ntfy") /\ Applies
ntfy_config      == Is("ntfy") /\ SenderLook
ntfy_offer       == Is("ntfy") /\ TrySend
ntfy_worker      == Is("ntfy") /\ PlainWorker
gotify_request   == Is("gotify") /\ SenderRequest
gotify_apply     == Is("gotify") /\ Applies
gotify_config    == Is("gotify") /\ SenderLook
gotify_offer     == Is("gotify") /\ TrySend
gotify_worker    == Is("gotify") /\ PlainWorker
telegram_request == Is("telegram") /\ SenderRequest
telegram_apply   == Is("telegram") /\ Applies
telegram_config  == Is("telegram") /\ SenderLook
telegram_offer   == Is("telegram") /\ TrySend
telegram_worker  == Is("telegram") /\ PlainWorker
email_request    == Is("email") /\ SenderRequest
email_apply      == Is("email") /\ Applies
email_config     == Is("email") /\ SenderLook
email_offer      == Is("email") /\ TrySend
email_worker     == Is("email") /\ PlainWorker
ftp_request      == Is("ftp") /\ SenderRequest
ftp_apply        == Is("ftp") /\ Applies
ftp_config       == Is("ftp") /\ SenderLook
ftp_offer        == Is("ftp") /\ TrySend
ftp_worker       == Is("ftp") /\ (receive \/ taken \/ check \/ FtpWorker)

SenderNext ==
    \/ webhook_request \/ webhook_apply \/ webhook_config \/ webhook_offer \/ webhook_worker
    \/ ntfy_request \/ ntfy_apply \/ ntfy_config \/ ntfy_offer \/ ntfy_worker
    \/ gotify_request \/ gotify_apply \/ gotify_config \/ gotify_offer \/ gotify_worker
    \/ telegram_request \/ telegram_apply \/ telegram_config \/ telegram_offer \/ telegram_worker
    \/ email_request \/ email_apply \/ email_config \/ email_offer \/ email_worker
    \/ ftp_request \/ ftp_apply \/ ftp_config \/ ftp_offer \/ ftp_worker
    \/ \E patch \in SenderPatches : request_begins(patch)
    \/ Is("ftp") /\ (privacy_ends \/ \E on \in BOOLEAN : privacy_begins(on))
SenderSpec == SenderInit /\ [][SenderNext]_senderVars

-----------------------------------------------------------------------------
(* What leaves the camera: a request is posted, or a transfer admitted.    *)
Sends == post \/ (ftp_admit /\ delivery'.pc = "upload")

(* An event goes where it was queued for: never to a destination, or with a *)
(* secret, of newer settings, whenever these became live on its way.       *)
EventsGoAsQueued == Sends => delivery.config = delivery.event.config

(* "Changing a destination discards events queued for the previous          *)
(* configuration.  A request already accepted by its worker may still       *)
(* finish" (docs/features.md:89-90): after a change is acknowledged, at most *)
(* one older event is posted, the one that was in hand.  A transfer, which  *)
(* is admitted under the lock the request held, does not even begin.       *)
OldEventsAreDiscarded == Sends /\ Outdated => post /\ ~senderLog.late

(* No picture is sent that was shot under privacy, or that was in hand     *)
(* when privacy went on, however briefly.                                  *)
PicturesArePrivate == ftp_admit /\ delivery'.pc = "upload" => ~senderLog.shown

(* What leaves the camera leaves as it was meant to when it was queued, and *)
(* is not what has been called off since but for the request in hand.      *)
NothingStaleIsSent ==
    [][EventsGoAsQueued /\ OldEventsAreDiscarded /\ PicturesArePrivate]_senderVars

(* Once settings are acknowledged, the file, the live settings and the     *)
(* flag the poller looks at agree, and somebody delivers what is queued.   *)
AppliedMeansLive ==
    request.pc = "idle" /\ request.answer = "applied" =>
        /\ saved = live.value /\ enabled = live.value.enabled
        /\ live.generation = generation
        /\ enabled => sender.running

(* The depth the interface shows is the number of events in the queue and  *)
(* of those that are on their way in or out.                               *)
QueueIsCounted ==
    queued = Len(events) + (IF offer.pc = "idle" THEN 0 ELSE 1)
                         + (IF delivery.pc = "taken" THEN 1 ELSE 0)

(* Whatever requests have been merged into one another, what is enabled has *)
(* all it needs to be delivered.                                           *)
EnabledIsComplete == live.value.enabled => sender.available /\ validate_domain(live.value)

(* The interface calls the live settings the saved ones only if they were  *)
(* while it looked.                                                        *)
MatchesAreTrue == reading.matches => reading.met

(* What the interface says of a sender is so.                              *)
SenderIsAsShown == AppliedMeansLive /\ QueueIsCounted /\ EnabledIsComplete /\ MatchesAreTrue
=============================================================================
