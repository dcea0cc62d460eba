------------------------------ MODULE Settings ------------------------------
(***************************************************************************)
(* Requests that change saved settings of the camera's daemons, one        *)
(* request per behaviour: the mutation lock keeps the others away.  What   *)
(* each handler sends is written in StreamSettings and CameraSettings;     *)
(* this module says what the commands do when they may fail half way, be   *)
(* answered without effect or lose their answer, while the daemon may be   *)
(* restarted between any two of them and somebody else reads the settings. *)
(***************************************************************************)
EXTENDS CameraSettings

CONSTANTS
    NoValue,             \* a field that is absent
    SettingNames,        \* which handlers, a subset of DOMAIN Handlers
    SettingFailures,     \* bound: commands that fail or deceive
    SettingRestarts,     \* bound: restarts of a daemon
    SettingReads,        \* bound: GETs
    SettingBudgets       \* what of these bounds one behaviour may use

Values == {0, 1}
Budgeted == [failures : 0..SettingFailures, restarts : 0..SettingRestarts,
             reads : 0..SettingReads]

ASSUME SettingAssumption ==
    /\ NoValue \notin Values
    /\ {SettingFailures, SettingRestarts, SettingReads} \subseteq Nat
    /\ SettingNames \subseteq DOMAIN Handlers
    /\ SettingBudgets \subseteq Budgeted

VARIABLES
    handler,     \* which this behaviour is about: its parts, commands and report
    world,       \* the value of each part in each place
    update,      \* the handler of a POST: its next command and its locals
    query,      \* the handler of a GET, of one part
    settingLog,  \* for the properties: the world before the request and as it
                 \* would be without it, and the parts whose daemon was
                 \* restarted since the request last saw what is active
    moments,     \* for the properties: whether the places a GET compares were
                 \* the same, at the moments of it
    settingLeft  \* what is left of the bounds
settingVars == <<handler, world, update, query, settingLog, moments, settingLeft>>

Script == handler.before \o handler.after
Optional == Values \union {NoValue}
Absent == [part \in handler.parts |-> NoValue]

SettingsTypeOK ==
    /\ world \in [Places -> [handler.parts -> Values]]
    /\ update \in [pc : 1..Len(Script) + 1, wanted : [handler.parts -> Optional],
                   sent : [handler.parts -> Optional],
                   kept : [Places -> [handler.parts -> Optional]],
                   answer : {"none", "refused", "partial", "accepted"}, pending : BOOLEAN]
    /\ query \in [pc : 0..Len(handler.report.looks), part : handler.asked,
                   read : [Places -> Optional],
                   answer : {"none", "same", "different", "unknown"}]
    /\ settingLog \in [before : [Places -> [handler.parts -> Values]],
                       without : [Places -> [handler.parts -> Values]],
                       restarted : SUBSET handler.parts]
    /\ moments \subseteq BOOLEAN
    /\ settingLeft \in Budgeted

Excluded(values) ==
    \E pair \in handler.excludes : \A part \in DOMAIN pair : values[part] = pair[part]

(* A camera that runs with settings which are not all saved: an earlier    *)
(* request may have been left half done.                                   *)
PossibleWorld(w) ==
    /\ \A place \in Places : ~Excluded(w[place])
    /\ \A part \in handler.parts :
         /\ Live \subseteq handler.kind[part] => w.config[part] = w.active[part]
         /\ handler.kind[part] = Volatile => w.config[part] = w.disk[part]
         /\ part \notin handler.asked /\ handler.kind[part] # Restart =>
               w.active[part] = w.config[part]
    /\ handler.alike => \A p, q \in handler.parts : w.disk[p] = w.disk[q]

PossibleRequest(wanted) ==
    /\ wanted # Absent
    /\ \A part \in handler.parts \ handler.asked : wanted[part] = NoValue
    /\ \A part \in handler.required : wanted[part] # NoValue
    /\ handler.alike => \A p, q \in handler.parts : wanted[p] = wanted[q]

SettingsInit ==
    /\ \E name \in SettingNames : handler = Handlers[name]
    /\ world \in [Places -> [handler.parts -> Values]] /\ PossibleWorld(world)
    /\ \E wanted \in [handler.parts -> Optional] :
         /\ PossibleRequest(wanted)
         /\ update = [pc |-> 1, wanted |-> wanted, sent |-> wanted,
                      kept |-> [place \in Places |-> Absent], answer |-> "none",
                      pending |-> FALSE]
    /\ settingLeft \in SettingBudgets
    /\ query \in [pc : {0}, answer : {"none"}, read : {[place \in Places |-> NoValue]},
                   part : IF settingLeft.reads > 0 THEN handler.asked
                          ELSE {CHOOSE part \in handler.asked : TRUE}]
    /\ settingLog = [before |-> world, without |-> world, restarted |-> {}] /\ moments = {}

Spends(resource) ==
    /\ settingLeft[resource] > 0
    /\ settingLeft' = [settingLeft EXCEPT ![resource] = @ - 1]

-----------------------------------------------------------------------------
(* The handler of a POST.                                                  *)

command == Script[update.pc]
Parts(c) == IF c.always THEN c.parts ELSE {p \in c.parts : update.sent[p] # NoValue}
Running(do) == update.answer = "none" /\ update.pc <= Len(Script) /\ command.do = do

(* Whether a reply says what it must.                                      *)
Differ(values, parts) == \E part \in parts : values[part] # update.sent[part]
Satisfies(c, now) ==
    \A place \in DOMAIN c.must :
        CASE c.must[place] = "wanted"    -> ~Differ(now[place], Parts(c))
          [] c.must[place] = "unchanged" ->
                \A part \in Parts(c) : now[place][part] = update.kept[place][part]
          [] c.must[place] = "waits" ->
                Differ(now[place], Parts(c)) <=> Differ(update.kept[place], Parts(c))
          [] OTHER -> TRUE

(* What goes with a part whose value changes, because it was to its        *)
(* measure.                                                                *)
Follow(values, changed) ==
    LET Leaders(q) == {p \in handler.parts : /\ <<q, p>> \in handler.follows
                                             /\ changed[p] # values[p]
                                             /\ values[q] = values[p]}
    IN  [q \in handler.parts |->
            IF Leaders(q) # {} THEN changed[CHOOSE p \in Leaders(q) : TRUE] ELSE changed[q]]

(* What is in the settings' places once some of them have been set.        *)
With(places, parts) ==
    LET Changed(values) == [part \in handler.parts |->
                              IF part \in parts THEN update.sent[part] ELSE values[part]]
    IN  [place \in Places |->
            IF place \in places THEN Follow(world[place], Changed(world[place]))
            ELSE world[place]]

(* What the handler answers of the restart: whether what was active when   *)
(* it began differs from what was asked.                                   *)
AskedParts == {part \in handler.asked : update.sent[part] # NoValue}
Pending == Differ(update.kept.active, AskedParts)

(* A failure, before anything was done or after.                           *)
Failed ==
    {[update EXCEPT !.answer = answer] :
        answer \in IF update.pc <= Len(handler.before) THEN {"refused"}
                   ELSE IF handler.plain THEN {"refused", "partial"} ELSE {"partial"}}
Continued ==
    IF update.pc < Len(Script) THEN [update EXCEPT !.pc = @ + 1]
    ELSE [update EXCEPT !.pc = @ + 1, !.answer = "accepted",
                        !.pending = handler.tellsPending /\ Pending]
Outcome(right) == update' \in IF right THEN {Continued} ELSE Failed
HasSeen ==
    settingLog' = [settingLog EXCEPT !.restarted =
                       IF "active" \in DOMAIN command.must THEN @ \ Parts(command) ELSE @]

KeptToo(c) ==
    [place \in Places |-> [part \in handler.parts |->
        IF place \in DOMAIN c.must /\ part \in Parts(c) THEN world[place][part]
        ELSE update.kept[place][part]]]

Looks ==
    /\ Running("look") /\ UNCHANGED <<world, settingLeft>>
    /\ IF Satisfies(command, world)
       THEN update' = [Continued EXCEPT !.kept = IF update.pc <= Len(handler.before)
                                                 THEN KeptToo(command) ELSE @]
       ELSE update' \in Failed
    /\ HasSeen

(* A daemon that guards what excludes each other refuses, and has done     *)
(* nothing.                                                                *)
Guards ==
    LET all == With(command.places, Parts(command))
    IN  handler.guarded /\ \E place \in Places : Excluded(all[place])
(* The daemon tells whether anything went with what was set; that has to   *)
(* be so just when the handler expects it.                                 *)
FollowsAsExpected(w) ==
    \A pair \in handler.follows :
        w.config[pair[1]] # world.config[pair[1]]
            <=> update.sent[pair[1]] # update.kept.disk[pair[1]]
SetTo(places) ==
    LET w == With(places, Parts(command))
    IN  IF Guards THEN UNCHANGED world /\ Outcome(FALSE)
        ELSE world' = w /\ Outcome(Satisfies(command, w) /\ FollowsAsExpected(w))

Sets == Running("set") /\ UNCHANGED settingLeft /\ SetTo(command.places) /\ HasSeen

(* The command is answered, but one place or the other has not changed.    *)
SetsDeceived ==
    /\ Running("set") /\ Spends("failures") /\ HasSeen
    /\ \E places \in SUBSET command.places : places # command.places /\ SetTo(places)

(* The daemon saves all it has in memory.                                  *)
Saves ==
    /\ Running("save") /\ UNCHANGED settingLeft
    /\ world' = [world EXCEPT !.disk = world.config]
    /\ Outcome(TRUE) /\ HasSeen

SavesDeceived ==
    /\ Running("save") /\ Spends("failures") /\ UNCHANGED world
    /\ Outcome(TRUE) /\ HasSeen

Commits ==
    /\ Running("commit") /\ UNCHANGED settingLeft
    /\ world' = With(command.places, Parts(command))
    /\ Outcome(TRUE) /\ HasSeen

(* Any command may fail or lose its answer, with some of its effects.      *)
CommandFails ==
    /\ \E do \in {"look", "set", "save", "commit"} : Running(do)
    /\ Spends("failures")
    /\ CASE command.do = "look" -> UNCHANGED world
         [] command.do = "save" -> world' \in {world, [world EXCEPT !.disk = world.config]}
         [] OTHER -> \E places \in IF Guards THEN {{}} ELSE SUBSET command.places :
                        world' = With(places, Parts(command))
    /\ update' \in Failed /\ HasSeen

(* Values that exclude each other are refused, once what is not asked for  *)
(* has been taken from where the handler takes it.                         *)
MergedWith(place) ==
    LET plain == [part \in handler.parts |->
                    IF update.wanted[part] # NoValue THEN update.wanted[part]
                    ELSE update.kept[place][part]]
    IN  Follow(update.kept[place], plain)

Admits ==
    /\ \E do \in {"merge", "compare"} : Running(do)
    /\ LET all == MergedWith(CHOOSE place \in command.places : TRUE)
           sent == IF command.do = "merge" THEN all ELSE update.sent
       IN  update' \in IF Excluded(all) THEN Failed ELSE {[Continued EXCEPT !.sent = sent]}
    /\ UNCHANGED <<world, settingLog, settingLeft>>

Update == Looks \/ Sets \/ SetsDeceived \/ Saves \/ SavesDeceived \/ Commits
          \/ CommandFails \/ Admits

-----------------------------------------------------------------------------
(* The handler of a GET reads its places one after the other and compares  *)
(* what it has read; it says so only when it has read them all.            *)

Compared(values) == \A p, q \in handler.report.compares : values[p] = values[q]
InPart(w) == [place \in Places |-> w[place][query.part]]
InStep(w) ==
    LET now == InPart(w)
    IN  now.disk = IF Restart = handler.kind[query.part] /\ ~handler.report.tellsPending
                   THEN now.config ELSE now.active

ReportReads ==
    /\ query.answer = "none" /\ query.pc < Len(handler.report.looks)
    /\ IF query.pc = 0 THEN Spends("reads") ELSE UNCHANGED settingLeft
    /\ LET places == handler.report.looks[query.pc + 1]
           now    == InPart(world)
           again  == \A place \in places : query.read[place] \in {NoValue, now[place]}
           read   == [place \in Places |-> IF place \in places THEN now[place]
                                           ELSE query.read[place]]
           answer == IF ~again THEN "unknown"
                     ELSE IF query.pc + 1 < Len(handler.report.looks) THEN "none"
                     ELSE IF Compared(read) THEN "same"
                     ELSE IF handler.report.tellsPending THEN "different" ELSE "unknown"
       IN  query' = [query EXCEPT !.pc = @ + 1, !.read = read, !.answer = answer]
    /\ UNCHANGED <<world, update, settingLog>>

ReportFails ==
    /\ query.answer = "none" /\ query.pc \in 1..Len(handler.report.looks) - 1
    /\ query' = [query EXCEPT !.answer = "unknown", !.read = [place \in Places |-> NoValue]]
    /\ UNCHANGED <<world, update, settingLog, settingLeft>>

-----------------------------------------------------------------------------
(* A daemon that starts has what its file says in memory and makes it      *)
(* active.  Where several processes have the settings, they start one by   *)
(* one.                                                                    *)

Loaded(w, places, parts) ==
    [place \in Places |-> [part \in handler.parts |->
        IF place \in places /\ part \in parts THEN w.disk[part] ELSE w[place][part]]]

Processes ==
    CASE handler.owners = "one"  -> {<<Live, handler.parts>>}
      [] handler.owners = "two"  -> {<<{place}, handler.parts>> : place \in Live}
      [] handler.owners = "each" -> {<<Live, {part}>> : part \in handler.parts}

DaemonRestarts ==
    /\ Spends("restarts")
    /\ \E process \in Processes :
         /\ world' = Loaded(world, process[1], process[2])
         /\ settingLog' =
               [settingLog EXCEPT !.restarted = @ \union process[2],
                                  !.without = Loaded(@, process[1], process[2])]
    /\ UNCHANGED <<update, query>>

SettingsNext ==
    /\ UNCHANGED handler
    /\ \/ Update /\ UNCHANGED query
       \/ ReportReads \/ ReportFails
       \/ DaemonRestarts
    /\ moments' = IF query'.pc = 0 \/ query.answer # "none" THEN moments
                  ELSE IF query'.answer = "unknown" THEN {}
                  ELSE moments \union {InStep(world), InStep(world)'}
SettingsSpec == SettingsInit /\ [][SettingsNext]_settingVars

-----------------------------------------------------------------------------
(* What is accepted is true, and stays true whatever is restarted: the file *)
(* has it, so has the daemon, and the camera does it, at once or, for what  *)
(* waits for a restart, then.  Only what is not saved ends with a restart.  *)
(* What goes with it is in the file.                                        *)
AcceptedIsTrue ==
    update.answer = "accepted" =>
        \A part \in {p \in handler.parts : update.sent[p] # NoValue} :
            IF handler.kind[part] = Volatile
            THEN world.active[part] = update.sent[part] \/ part \in settingLog.restarted
            ELSE \A place \in {"disk"} \union (IF part \in handler.asked
                                              THEN handler.kind[part] ELSE {}) :
                    world[place][part] = update.sent[part]

(* A plain error means that nothing has changed: the camera, the daemons   *)
(* and their files are as they would be without the request.  The commands *)
(* that switch something live say so of themselves only in part.           *)
RefusalsChangeNothing ==
    update.answer = "refused" /\ ~handler.plain => world = settingLog.without

(* A restart is announced if and only if the camera does not do yet what   *)
(* was accepted.                                                           *)
PendingIsTrue ==
    /\ update.answer = "accepted" /\ handler.tellsPending
    /\ AskedParts \intersect settingLog.restarted = {}
    => (update.pending <=> Differ(world.active, AskedParts))

(* What an accepted request does not name is saved as it was before, or as *)
(* the daemon had it then.                                                 *)
TheRestIsKept ==
    update.answer = "accepted" =>
        \A part \in handler.parts \ {pair[1] : pair \in handler.follows} :
            update.wanted[part] = NoValue =>
                world.disk[part] \in {settingLog.before[place][part] : place \in {"config", "disk"}}

(* The answer of a POST, whatever it is, says what has become of it.       *)
AnswersAreTrue == AcceptedIsTrue /\ RefusalsChangeNothing /\ PendingIsTrue /\ TheRestIsKept

(* A GET that says the settings are saved, or wait for a restart, was right *)
(* at some moment while it was answered, although it reads the camera and   *)
(* the file one after the other while a request changes both.               *)
ReportsAreTrue ==
    /\ query.answer = "same" => TRUE \in moments
    /\ query.answer = "different" => FALSE \in moments

(* Values that exclude each other are never together, in the camera, in a  *)
(* daemon or in a file, although requests name only one of them and the    *)
(* other changes under them when the daemon restarts.                      *)
NeverTogether == \A place \in Places : ~Excluded(world[place])
=============================================================================
