----------------------------- MODULE Credentials -----------------------------
(***************************************************************************)
(* Who may use the control daemon: sessions, the limit on logins, the API  *)
(* key, and the password, which is written in two places one after the     *)
(* other, the shadow file for the interface and the configuration of ONVIF, *)
(* each with a rollback that may fail itself.  web_auth.rs, the credential *)
(* routes of router.rs, update_management_credential of                    *)
(* camera/config/access.rs.                                                *)
(***************************************************************************)
EXTENDS Integers, FiniteSets, Sequences

CONSTANTS
    Passwords,       \* values of a password
    Torn,            \* a file that is not whole
    Changers,        \* the workers that may hold a POST of the password
    Addresses,       \* where logins come from
    SessionLimit,    \* 16
    SourceLimit, GlobalLimit,   \* LOGIN_SOURCE_LIMIT, LOGIN_GLOBAL_LIMIT
    Window,          \* LOGIN_WINDOW
    RecentAge, IdleAge, MaxAge, \* SESSION_RECENT/IDLE/MAX_SECONDS
    CredentialBounds,           \* bound: logins, changes, failures, ticks
    CredentialBudgets           \* what of these bounds one behaviour may use

CredentialBudget == [logins : 0..CredentialBounds.logins, changes : 0..CredentialBounds.changes,
                     failures : 0..CredentialBounds.failures, ticks : 0..CredentialBounds.ticks]
ASSUME CredentialAssumption ==
    /\ Torn \notin Passwords \union Changers
    /\ {SessionLimit, SourceLimit, GlobalLimit, Window, IdleAge} \subseteq Nat \ {0}
    /\ {RecentAge, MaxAge} \subseteq Nat /\ RecentAge <= MaxAge
    /\ CredentialBounds \in [logins : Nat, changes : Nat, failures : Nat, ticks : Nat]
    /\ CredentialBudgets \subseteq CredentialBudget

VARIABLES
    shadow,     \* the password of root in the shadow file
    onvif,      \* the password in ONVIF's configuration
    apiKey,     \* whether there is an API key
    sessions,   \* WebAuth.sessions: by number of the login, created and last_access
    limiter,    \* LoginRateLimiter
    clock,      \* session_clock
    login,      \* the handler of a login, between its steps
    change,     \* the handlers of a POST of the password
    updates,    \* credential_updates: who holds it
    credLog,    \* for the properties: the admitted logins, the last change's
                \* end and the sessions it left
    credLeft    \* what is left of the bounds
credentialVars == <<shadow, onvif, apiKey, sessions, limiter, clock, login, change,
                    updates, credLog, credLeft>>

Times == 0..CredentialBounds.ticks
Logins == 1..CredentialBounds.logins
Session == [created : Times, last_access : Times]
Files == Passwords \union {Torn}
NoChange == [pc |-> "idle", wanted |-> Torn, shadow |-> Torn, onvif |-> Torn, updated |-> "none"]

CredentialTypeOK ==
    /\ shadow \in Passwords /\ onvif \in Files /\ apiKey \in BOOLEAN
    /\ DOMAIN sessions \subseteq Logins /\ Cardinality(DOMAIN sessions) <= SessionLimit
    /\ \A id \in DOMAIN sessions : sessions[id] \in Session
    /\ limiter \in [window_started : Times \union {-1}, global_attempts : 0..GlobalLimit,
                    source_attempts : [Addresses -> 0..SourceLimit]]
    /\ clock \in Times
    /\ login \in [pc : {"idle", "verify", "insert"}, hash : Files]
    /\ change \in [Changers -> [pc : {"idle", "lock", "password", "onvif", "readback", "undo",
                                      "restore", "answer"},
                                wanted : Files, shadow : Files, onvif : Files,
                                updated : {"none", "ok", "error", "partial"}]]
    /\ updates \in Changers \union {Torn}
    /\ credLog.answer \in {"none", "refused", "ok", "failed", "partial"}
    /\ credLeft \in CredentialBudget

CredentialInit ==
    /\ shadow \in Passwords /\ onvif \in Passwords /\ apiKey = FALSE
    /\ sessions = << >> /\ clock = 0
    /\ limiter = [window_started |-> -1, global_attempts |-> 0,
                  source_attempts |-> [source \in Addresses |-> 0]]
    /\ login = [pc |-> "idle", hash |-> Torn]
    /\ change = [c \in Changers |-> NoChange] /\ updates = Torn
    /\ credLog = [admitted |-> <<>>, answer |-> "none", wanted |-> Torn,
                  before |-> <<shadow, onvif>>, remained |-> {}]
    /\ credLeft \in CredentialBudgets

Draws(resource) ==
    /\ credLeft[resource] > 0
    /\ credLeft' = [credLeft EXCEPT ![resource] = @ - 1]

(* The handlers; what they do not mention stays.                           *)
Stored     == <<shadow, onvif, apiKey>>
LoginOnly  == UNCHANGED <<Stored, clock, change, updates>>
ChangeOnly == UNCHANGED <<apiKey, limiter, clock, login>>

-----------------------------------------------------------------------------
(* LoginRateLimiter::admit: a window starts with the first login after the *)
(* last one has passed.                                                    *)

NewWindowPerInstant == limiter.window_started < clock   \* variant: any older window is over
WindowPassed == limiter.window_started = -1 \/ clock - limiter.window_started >= Window

Counted == IF WindowPassed
           THEN [window_started |-> clock, global_attempts |-> 0,
                 source_attempts |-> [source \in Addresses |-> 0]]
           ELSE limiter

admit_login(source) ==
    /\ login.pc = "idle" /\ Draws("logins")
    /\ LET admitted == Counted.global_attempts < GlobalLimit
                       /\ Counted.source_attempts[source] < SourceLimit
       IN  IF admitted
           THEN /\ limiter' = [Counted EXCEPT !.global_attempts = @ + 1,
                                              !.source_attempts[source] = @ + 1]
                /\ login' = [login EXCEPT !.pc = "verify"]
                /\ credLog' = [credLog EXCEPT !.admitted =
                                   Append(@, [source |-> source, at |-> clock])]
           ELSE limiter' = Counted /\ UNCHANGED <<login, credLog>>
    /\ UNCHANGED sessions /\ LoginOnly

(* login: the hash is read once, and compared with what was typed.         *)
login_verifies ==
    /\ login.pc = "verify"
    /\ login' \in {[pc |-> "insert", hash |-> shadow], [pc |-> "idle", hash |-> Torn]}
    /\ UNCHANGED <<sessions, limiter, credLog, credLeft>> /\ LoginOnly

(* The session that was used least recently makes room.                    *)
LastUse(id) == <<sessions[id].last_access, sessions[id].created>>
Before(a, b) == a[1] < b[1] \/ (a[1] = b[1] /\ a[2] <= b[2])
Oldest == {id \in DOMAIN sessions : \A other \in DOMAIN sessions : Before(LastUse(id), LastUse(other))}

New == credLeft.logins + 1   \* an id no session has had
Inserted(kept) ==
    [id \in kept \union {New} |->
        IF id = New THEN [created |-> clock, last_access |-> clock] ELSE sessions[id]]

login_inserts ==
    /\ login.pc = "insert" /\ login' = [pc |-> "idle", hash |-> Torn]
    /\ IF Cardinality(DOMAIN sessions) >= SessionLimit
       THEN \E oldest \in Oldest : sessions' = Inserted(DOMAIN sessions \ {oldest})
       ELSE sessions' = Inserted(DOMAIN sessions)
    /\ UNCHANGED <<limiter, credLog, credLeft>> /\ LoginOnly

-----------------------------------------------------------------------------
(* A request with a session: one that is too old, or was not used for too  *)
(* long, is removed, and any other has been used now.                      *)

Without(id) == [other \in DOMAIN sessions \ {id} |-> sessions[other]]
Expired(id) == \/ clock - sessions[id].last_access > IdleAge
               \/ clock - sessions[id].created > MaxAge
Recent(id)  == clock - sessions[id].created <= RecentAge

valid_session(id) ==
    sessions' = IF Expired(id) THEN Without(id)
                ELSE [sessions EXCEPT ![id].last_access = clock]

authorize(id) ==
    /\ valid_session(id)
    /\ UNCHANGED <<limiter, login, credLog, credLeft>> /\ LoginOnly

logout(id) ==
    /\ sessions' = Without(id)
    /\ UNCHANGED <<limiter, login, credLog, credLeft>> /\ LoginOnly

(* Time matters to logins and to sessions.                                 *)
tick ==
    /\ Draws("ticks") /\ clock' = clock + 1
    /\ UNCHANGED <<Stored, sessions, limiter, login, change, updates, credLog>>

-----------------------------------------------------------------------------
(* The API key, under the same lock as the password: written atomically,   *)
(* but a removal that fails may have removed it.                           *)

api_key(exists) ==
    /\ updates = Torn /\ \E id \in DOMAIN sessions : ~Expired(id) /\ Recent(id) /\ valid_session(id)
    /\ \/ apiKey' = exists /\ Draws("changes")
       \/ apiKey' \in {apiKey, apiKey /\ exists} /\ Draws("failures")
    /\ UNCHANGED <<shadow, onvif, limiter, clock, login, change, updates, credLog>>

-----------------------------------------------------------------------------
(* POST /api/v1/auth/password.                                             *)

Changes(c, pc) == change[c].pc = pc /\ ChangeOnly
Moves(c, pc) == change' = [change EXCEPT ![c].pc = pc]
Updated(c, pc, updated) == change' = [change EXCEPT ![c].pc = pc, ![c].updated = updated]

(* request_authorized: from a login that is not old.                       *)
change_begins(c, id) ==
    /\ Changes(c, "idle") /\ ~Expired(id) /\ Recent(id) /\ Draws("changes")
    /\ valid_session(id)
    /\ \E wanted \in Passwords :
         change' = [change EXCEPT ![c] = [NoChange EXCEPT !.pc = "lock", !.wanted = wanted]]
    /\ UNCHANGED <<shadow, onvif, updates, credLog>>

change_locks(c) ==
    /\ Changes(c, "lock") /\ updates = Torn /\ updates' = c /\ Moves(c, "password")
    /\ credLog' = [credLog EXCEPT !.before = <<shadow, onvif>>]
    /\ UNCHANGED <<shadow, onvif, sessions, credLeft>>

(* The end of the handler.                                                 *)
Answers(c, answer) ==
    /\ updates' = Torn /\ change' = [change EXCEPT ![c] = NoChange]
    /\ sessions' = IF answer \in {"ok", "partial"} THEN << >> ELSE sessions
    /\ credLog' = [credLog EXCEPT !.answer = answer, !.wanted = change[c].wanted,
                                   !.remained = DOMAIN sessions]
GoesOn == UNCHANGED <<sessions, updates, credLog>>

(* change_password replaces the shadow file or leaves it alone.            *)
change_password(c) ==
    /\ Changes(c, "password") /\ UNCHANGED onvif
    /\ \/ /\ shadow' = change[c].wanted /\ GoesOn /\ UNCHANGED credLeft
          /\ change' = [change EXCEPT ![c].pc = "onvif", ![c].shadow = shadow]
       \/ UNCHANGED shadow /\ Draws("failures") /\ Answers(c, "failed")

(* update_management_credential writes ONVIF's file in place: a failure may *)
(* leave any of it, and a write that seems right may have left the old.    *)
WritesOnvif(c, value) == onvif' \in {onvif, value, Torn}

update_onvif(c) ==
    /\ Changes(c, "onvif") /\ UNCHANGED shadow /\ GoesOn
    /\ \/ /\ onvif = Torn /\ Updated(c, "restore", "error") /\ UNCHANGED <<onvif, credLeft>>
       \/ /\ onvif # Torn /\ onvif' = change[c].wanted /\ UNCHANGED credLeft
          /\ change' = [change EXCEPT ![c].pc = "readback", ![c].onvif = onvif]
       \/ /\ onvif # Torn /\ Draws("failures") /\ WritesOnvif(c, change[c].wanted)
          /\ change' \in {[change EXCEPT ![c].pc = pc, ![c].onvif = onvif] :
                             pc \in {"readback", "undo"}}

read_back_onvif(c) ==
    /\ Changes(c, "readback") /\ UNCHANGED <<shadow, onvif>> /\ GoesOn
    /\ \/ onvif = change[c].wanted /\ Updated(c, "answer", "ok") /\ UNCHANGED credLeft
       \/ onvif # change[c].wanted /\ Moves(c, "undo") /\ UNCHANGED credLeft
       \/ Draws("failures") /\ Moves(c, "undo")

TrustsTheUndo(c) ==   \* variant: what was written back is not read back
    /\ Changes(c, "undo") /\ UNCHANGED shadow /\ GoesOn
    /\ \/ onvif' = change[c].onvif /\ Updated(c, "restore", "error") /\ UNCHANGED credLeft
       \/ Draws("failures") /\ WritesOnvif(c, change[c].onvif) /\ Updated(c, "restore", "error")

(* What ONVIF had is written back, and read back.                          *)
undo_onvif(c) ==
    /\ Changes(c, "undo") /\ UNCHANGED shadow /\ GoesOn
    /\ \/ onvif' = change[c].onvif /\ Updated(c, "restore", "error") /\ UNCHANGED credLeft
       \/ Draws("failures") /\ WritesOnvif(c, change[c].onvif) /\ Updated(c, "restore", "partial")

(* restore_password, which may not be read back, or not have written.      *)
restore_password(c) ==
    /\ Changes(c, "restore") /\ UNCHANGED onvif /\ GoesOn
    /\ \/ shadow' = change[c].shadow /\ Moves(c, "answer") /\ UNCHANGED credLeft
       \/ /\ Draws("failures") /\ shadow' \in {shadow, change[c].shadow}
          /\ Updated(c, "answer", "partial")

answer_change(c) ==
    /\ Changes(c, "answer") /\ UNCHANGED <<shadow, onvif, credLeft>>
    /\ Answers(c, CASE change[c].updated = "ok"    -> "ok"
                     [] change[c].updated = "error" -> "failed"
                     [] OTHER -> "partial")

Change(c) ==
    \/ \E id \in DOMAIN sessions : change_begins(c, id)
    \/ change_locks(c) \/ change_password(c) \/ update_onvif(c) \/ read_back_onvif(c)
    \/ undo_onvif(c) \/ restore_password(c) \/ answer_change(c)

CredentialNext ==
    \/ \E source \in Addresses : admit_login(source)
    \/ login_verifies \/ login_inserts
    \/ \E id \in DOMAIN sessions : authorize(id) \/ logout(id)
    \/ \E exists \in BOOLEAN : api_key(exists)
    \/ tick
    \/ \E c \in Changers : Change(c)
CredentialSpec == CredentialInit /\ [][CredentialNext]_credentialVars

-----------------------------------------------------------------------------
(* Nobody holds the lock: an accepted password is that of the interface and *)
(* of ONVIF, after a plain failure both are what they were, and after an    *)
(* acceptance or a half failure none of the sessions of then is left.       *)
CredentialsAreTogether ==
    updates = Torn =>
        /\ credLog.answer = "ok"     => shadow = credLog.wanted /\ onvif = credLog.wanted
        /\ credLog.answer = "failed" => <<shadow, onvif>> = credLog.before
        /\ credLog.answer \in {"ok", "partial"} => DOMAIN sessions \intersect credLog.remained = {}

(* No source is admitted to more than twice its limit of logins in less     *)
(* than a window's time, wherever the windows begin, nor all of them.       *)
AttemptsAreLimited ==
    \A start \in Times :
        LET within == {i \in DOMAIN credLog.admitted :
                          credLog.admitted[i].at \in start..start + Window - 1}
        IN  /\ Cardinality(within) <= 2 * GlobalLimit
            /\ \A source \in Addresses :
                 Cardinality({i \in within : credLog.admitted[i].source = source}) <= 2 * SourceLimit
=============================================================================
