------------------------------ MODULE MCRequests ------------------------------
(* Small instances of what requests do for TLC, one of them per behaviour:  *)
(* a handler of settings, a sender of notifications with the request that   *)
(* configures it, or the credentials.  They share no state, so the others   *)
(* rest where their first state leaves them.                                *)
EXTENDS DaemonRequests, TLC

VARIABLE suite   \* what this behaviour is about

AllSettings == DOMAIN Handlers
OneSetting  == [failures |-> 1, restarts |-> 1, reads |-> 0]
OneReading  == [failures |-> 0, restarts |-> 1, reads |-> 1]
SettingTrials == {OneSetting, OneReading}

S(on, address, secret) == [enabled |-> on, address |-> address, secret |-> secret]
SomeConfigs ==
    {S(FALSE, "", ""), S(TRUE, "https", ""), S(TRUE, "https", "set"), S(TRUE, "", "")}
SomePatches ==
    {S("yes", "other", "keep"), S("yes", "plain", "set"), S("no", "keep", "keep"),
     S("keep", "keep", ""), S("keep", "", "keep")}
Trial(offers, changes, masks, looks) ==
    [offers |-> offers, changes |-> changes, masks |-> masks, failures |-> 1, looks |-> looks]
SenderTrials == {Trial(2, 2, 0, 0), Trial(1, 1, 2, 0), Trial(0, 2, 0, 1)}

Bound(logins, changes, failures, ticks) ==
    [logins |-> logins, changes |-> changes, failures |-> failures, ticks |-> ticks]
CredentialMost   == Bound(3, 2, 2, 3)
CredentialTrials == {Bound(2, 2, 2, 0), Bound(3, 1, 0, 2), Bound(3, 0, 0, 3)}
SameChangers     == Permutations(Changers)

SettingsRest ==
    /\ handler = Handlers["buffers"] /\ SettingsInit
    /\ world = [place \in Places |-> [part \in handler.parts |-> 0]]
    /\ update.wanted = [part \in handler.parts |-> 0] /\ settingLeft = OneSetting
SendersRest ==
    /\ SenderInit
    /\ sender = [kind |-> "webhook", available |-> TRUE, running |-> TRUE]
    /\ saved = S(FALSE, "", "") /\ senderLeft.masks = 0 /\ ~mask.on
CredentialsRest ==
    /\ CredentialInit /\ shadow = onvif
    /\ shadow = CHOOSE password \in Passwords : TRUE
    /\ credLeft = Bound(2, 2, 2, 0)

(* Values that do not exclude each other are interchangeable, so that the   *)
(* file may begin with the same one of each part.  A GET is about one part, *)
(* and the request beside it is about the same one where it has the choice. *)
SettingsStart ==
    /\ SettingsInit
    /\ handler.excludes = {} => \A part \in handler.parts : world.disk[part] = 0
    /\ settingLeft.reads > 0 /\ ~handler.alike =>
          \A part \in handler.parts \ (handler.required \union {query.part}) :
              update.wanted[part] = NoValue

RequestsInit ==
    \/ suite = "settings"    /\ SettingsStart /\ SendersRest /\ CredentialsRest
    \/ suite = "senders"     /\ SettingsRest  /\ SenderInit  /\ CredentialsRest
    \/ suite = "credentials" /\ SettingsRest  /\ SendersRest /\ CredentialInit

RequestsNext ==
    /\ UNCHANGED suite
    /\ \/ suite = "settings"    /\ SettingsNext   /\ UNCHANGED <<senderVars, credentialVars>>
       \/ suite = "senders"     /\ SenderNext     /\ UNCHANGED <<settingVars, credentialVars>>
       \/ suite = "credentials" /\ CredentialNext /\ UNCHANGED <<settingVars, senderVars>>

RequestsSpec ==
    RequestsInit /\ [][RequestsNext]_<<suite, settingVars, senderVars, credentialVars>>
=============================================================================
