------------------------- MODULE SettingsInvariant -------------------------
(***************************************************************************)
(* Why the handlers of saved settings answer what is true: what each of    *)
(* them is made of, as far as the answers depend on it, and the invariant  *)
(* that the machine of Settings keeps for handlers so made.                *)
(***************************************************************************)
EXTENDS Settings

Followers(h) == {pair[1] : pair \in h.follows}
Tells(c, place, what) == place \in DOMAIN c.must /\ c.must[place] = what
Finds(c, place) == c.do = "look" /\ Tells(c, place, "wanted")

(* Commands and their places in a handler.                                 *)
Musts == UNION {[places -> {"any", "wanted", "unchanged", "waits"}] : places \in SUBSET Places}
Commands(parts) ==
    [do : {"look", "set", "save", "commit", "merge", "compare"}, parts : SUBSET parts,
     places : SUBSET Places, must : Musts, always : BOOLEAN]

WellFormed(h) ==
    /\ h.before \in Seq(Commands(h.parts)) /\ h.after \in Seq(Commands(h.parts))
    /\ h.asked \in SUBSET h.parts
    /\ h.kind \in [h.parts -> {Live, Restart, Volatile, Checked}]
    /\ h.follows \subseteq (h.parts \ h.asked) \X h.asked
    /\ h.owners \in {"one", "two", "each"}

(* What comes before anything changes only looks and compares.  Who merges *)
(* does so last, from what it has always looked at.                        *)
Asks(h) ==
    \A i \in 1..Len(h.before) :
        LET c == h.before[i] IN
        /\ c.do \in {"look", "merge", "compare"}
        /\ c.do # "look" => c.places \in {{"active"}, {"disk"}}
        /\ c.do = "merge" =>
             /\ i = Len(h.before) /\ h.parts = h.asked \union Followers(h)
             /\ c.places = {"active"} => \A p \in h.parts : Live \subseteq h.kind[p]
             /\ \A p \in h.parts : \E j \in 1..i - 1 :
                  /\ h.before[j].do = "look" /\ h.before[j].always
                  /\ p \in h.before[j].parts /\ c.places \subseteq DOMAIN h.before[j].must

(* What is set is asked for; no set writes the file.                       *)
Does(h) ==
    \A i \in 1..Len(h.after) :
        LET c == h.after[i] IN
        /\ c.do \in {"look", "set", "save", "commit"}
        /\ c.do \in {"set", "commit"} => ~c.always /\ c.parts \subseteq h.asked
        /\ c.do = "set" => c.places \subseteq Live

(* What waits for a restart is not made active.                            *)
OnlyPrepares(h) ==
    \A i \in 1..Len(h.after) :
        h.after[i].do # "commit" /\ (h.after[i].do = "set" => h.after[i].places = Restart)

(* A report reads what it compares; one that tells of restarts is about    *)
(* what waits for them.                                                    *)
Measure(h, part) ==
    IF h.kind[part] = Restart /\ ~h.report.tellsPending THEN "config" ELSE "active"
Reports(h) ==
    LET r == h.report IN
    /\ r.looks \in Seq(SUBSET Places) /\ r.compares \subseteq Places
    /\ r.looks # <<>> =>
         /\ \A part \in h.asked : {Measure(h, part), "disk"} \subseteq r.compares
         /\ \A place \in r.compares : \E i \in 1..Len(r.looks) : place \in r.looks[i]
         /\ r.tellsPending => r.compares = {"active", "disk"} /\ OnlyPrepares(h)

(* What excludes each other: the daemon refuses it, or all parts are sent  *)
(* together after the handler has compared them.                           *)
Excludes(h) ==
    h.excludes # {} =>
        /\ h.owners = "one"
        /\ \A pair \in h.excludes : DOMAIN pair \subseteq h.parts
        /\ \A i \in 1..Len(h.after) : h.after[i].do # "commit"
        /\ \/ h.guarded /\ h.follows = {}
           \/ /\ Len(h.before) > 0 /\ h.before[Len(h.before)].do = "merge"
              /\ \A i \in 1..Len(h.after) : h.after[i].do = "set" => h.after[i].parts = h.asked
              /\ \/ h.follows = {}
                 \/ /\ h.follows = {<<"roi", "sub">>} /\ h.asked = {"main", "sub"}
                    /\ h.excludes = {[main |-> 1, sub |-> 1], [sub |-> 0, roi |-> 1]}

(* The last look at what is active finds it unchanged.                     *)
Announces(h) ==
    h.tellsPending /\ h.after # <<>> =>
        /\ OnlyPrepares(h)
        /\ \A p \in h.asked : \E j \in 1..Len(h.after) :
             /\ h.after[j].do = "look" /\ p \in h.after[j].parts
             /\ Tells(h.after[j], "active", "unchanged")
             /\ \A k \in j + 1..Len(h.after) :
                  p \in h.after[k].parts /\ "active" \in DOMAIN h.after[k].must =>
                      h.after[k].do = "look" /\ Tells(h.after[k], "active", "unchanged")

(* How a handler makes sure.  It sets first (up to n), saves once (m),     *)
(* finds what it asked for in the file after that and, if it is live, in   *)
(* the camera.                                                             *)
LooksFrom(h, n, p, place) ==
    \E i \in n + 1..Len(h.after) :
        p \in h.after[i].parts /\ Finds(h.after[i], place)
SavesAt(h, n, m) ==
    /\ n \in 0..Len(h.after) /\ m \in n + 1..Len(h.after) /\ h.after[m].do = "save"
    /\ \A i \in 1..n : h.after[i].do \in {"set", "look"}
    /\ \A i \in n + 1..Len(h.after) : i # m => h.after[i].do = "look"
    /\ \A p \in h.asked : \E i \in 1..n :
          h.after[i].do = "set" /\ p \in h.after[i].parts /\ "config" \in h.after[i].places
    /\ \A p \in h.asked \union Followers(h) : LooksFrom(h, m, p, "disk")
    /\ \A p \in h.parts : h.kind[p] \in {Live, Restart}
    /\ \A p \in h.asked : h.kind[p] = Live => h.owners = "one" /\ LooksFrom(h, n, p, "active")

(* It writes the file first, and has each process load it.                 *)
LoadsFrom(h, n) ==
    /\ n \in 1..Len(h.after) /\ h.follows = {} /\ h.before # <<>>
    /\ h.after[1].do = "commit" /\ h.after[1].parts = h.asked /\ h.after[1].places = File
    /\ \A i \in 2..Len(h.after) : h.after[i].do = IF i <= n THEN "set" ELSE "look"
    /\ \A p \in h.parts : h.kind[p] = Live
    /\ \A p \in h.asked, place \in Live : LooksFrom(h, n, p, place)

(* One command does it all; what is not saved is looked at last.           *)
CommitsAll(h) ==
    /\ Len(h.after) = 1 /\ h.follows = {}
    /\ h.after[1].do = "commit" /\ h.after[1].parts = h.asked /\ h.after[1].places = Places
SwitchesOnly(h) ==
    /\ h.after # <<>> /\ h.follows = {} /\ \A p \in h.parts : h.kind[p] = Volatile
    /\ Finds(h.after[Len(h.after)], "active") /\ h.asked \subseteq h.after[Len(h.after)].parts
Assures(h) ==
    \/ \E n, m \in 0..Len(h.after) : SavesAt(h, n, m)
    \/ \E n \in 0..Len(h.after) : LoadsFrom(h, n)
    \/ CommitsAll(h)
    \/ SwitchesOnly(h)
    \/ h.before = <<>> /\ h.after = <<>>

Sound(h) ==
    /\ WellFormed(h) /\ Asks(h) /\ Does(h)
    /\ Reports(h) /\ Excludes(h) /\ Announces(h) /\ Assures(h)

-----------------------------------------------------------------------------
Asked  == Len(handler.before)
Ran(i) == update.pc > Asked + i     \* of the commands of `after`
Open   == update.answer \in {"none", "accepted"}
Merges == \E i \in 1..Asked : handler.before[i].do = "merge"

(* Where the handler is, and what it sends.                                *)
FlowInv ==
    /\ handler \in {Handlers[name] : name \in SettingNames}
    /\ update.answer = "accepted" => update.pc = Len(Script) + 1 /\ Len(handler.after) > 0
    /\ \A p \in handler.parts : update.wanted[p] # NoValue =>
          p \in handler.asked /\ update.sent[p] = update.wanted[p]
    /\ ~Merges \/ update.pc <= Asked => update.sent = update.wanted
    /\ Merges /\ update.pc > Asked =>
          ~Excluded(update.sent) /\ \A p \in handler.parts : update.sent[p] # NoValue
    /\ \A i \in 1..Asked : \A p \in handler.before[i].parts, place \in DOMAIN handler.before[i].must :
          i < update.pc /\ handler.before[i].do = "look" /\ handler.before[i].always
              => update.kept[place][p] # NoValue

(* What the request does not name is nothing new.                          *)
RestInv ==
    \A p \in handler.parts \ Followers(handler) : update.wanted[p] = NoValue =>
        LET Old == {settingLog.before.disk[p], settingLog.before.config[p]} IN
        /\ world.disk[p] \in Old /\ world.config[p] \in Old
        /\ {update.sent[p], update.kept.disk[p]} \subseteq Old \union {NoValue}
        /\ Live \subseteq handler.kind[p] =>
             world.active[p] \in Old /\ update.kept.active[p] \in Old \union {NoValue}

NothingYet ==
    \/ update.answer = "none" /\ update.pc <= Asked
    \/ update.answer = "refused" /\ ~handler.plain
    => world = settingLog.without

(* What the last looks at the camera have found awaits a restart still.    *)
PendingInv ==
    handler.tellsPending /\ Open =>
        \A j \in 1..Len(handler.after) :
            LET c == handler.after[j] IN
            /\ Ran(j) /\ c.do = "look" /\ Tells(c, "active", "unchanged")
            => \A p \in Parts(c) :
                  \/ p \in settingLog.restarted
                  \/ world.active[p] = update.kept.active[p]
                  \/ \E k \in j + 1..Len(handler.after) :
                       /\ p \in handler.after[k].parts /\ "active" \in DOMAIN handler.after[k].must
                       /\ ~(handler.after[k].do = "look" /\ Tells(handler.after[k], "active", "unchanged"))
PendingTold ==
    update.answer = "accepted" /\ handler.tellsPending =>
        (update.pending <=> Differ(update.kept.active, AskedParts))

(* What is set is in memory, or the file's old value is back, or the one   *)
(* fault is spent; what is saved is in both; what is looked for is found.  *)
Taken(p)     == world.config[p] \in {update.sent[p], world.disk[p]}
SavedInv ==
    Open => \A n, m \in 0..Len(handler.after) : SavesAt(handler, n, m) =>
        /\ \A i \in 1..n : \A p \in Parts(handler.after[i]) :
             /\ Ran(i) /\ handler.after[i].do = "set" /\ "config" \in handler.after[i].places
             => Taken(p) \/ settingLeft.failures = 0
        /\ Ran(m) => \A p \in AskedParts : Taken(p)
        /\ \A i \in m + 1..Len(handler.after) : \A p \in Parts(handler.after[i]) :
             Ran(i) /\ Finds(handler.after[i], "disk") => world.disk[p] = update.sent[p]
        /\ \A i \in n + 1..Len(handler.after) : \A p \in Parts(handler.after[i]) \intersect handler.asked :
             /\ Ran(i) /\ Finds(handler.after[i], "active") /\ handler.kind[p] = Live
             => \/ world.active[p] = update.sent[p]
                \/ world.active[p] = world.disk[p] /\ world.config[p] = world.disk[p]
LoadedInv ==
    Open => \A n \in 0..Len(handler.after) : LoadsFrom(handler, n) =>
        /\ Ran(1) => \A p \in AskedParts : world.disk[p] = update.sent[p]
        /\ \A i \in n + 1..Len(handler.after) : \A p \in Parts(handler.after[i]), place \in Live :
             Ran(i) /\ Finds(handler.after[i], place) => world[place][p] = update.sent[p]
CommittedInv ==
    Open /\ CommitsAll(handler) /\ Ran(1) =>
        \A p \in AskedParts, place \in Places : world[place][p] = update.sent[p]
SwitchedInv ==
    Open /\ SwitchesOnly(handler) /\ Ran(Len(handler.after)) =>
        \A p \in AskedParts : world.active[p] = update.sent[p] \/ p \in settingLog.restarted

(* While a GET has never seen the places it compares alike, neither has    *)
(* changed since it read it; the same for one that tells of a restart      *)
(* while they have always been alike.                                      *)
ReadInv ==
    LET part == query.part
        key  == Measure(handler, part)
        AsRead == \A place \in {key, "disk"} :
                     query.read[place] \in {NoValue, world[place][part]}
    IN  /\ query.pc = 0 => query.read = [place \in Places |-> NoValue] /\ query.answer = "none"
        /\ query.answer = "none" =>
             /\ query.pc > 0 => query.pc < Len(handler.report.looks)
             /\ \A i \in 1..query.pc : \A place \in handler.report.looks[i] :
                   query.read[place] # NoValue
             /\ query.pc > 0 /\ TRUE \notin moments =>
                   AsRead /\ world[key][part] # world.disk[part]
             /\ query.pc > 0 /\ FALSE \notin moments /\ handler.report.tellsPending =>
                   AsRead /\ world[key][part] = world.disk[part]

(* All but SavedInv hold however many commands deceive; SavedInv needs     *)
(* that at most one does.                                                  *)
SettingsInv ==
    /\ SettingsTypeOK /\ FlowInv /\ RestInv /\ NothingYet /\ PendingInv /\ PendingTold
    /\ NeverTogether /\ ReadInv /\ ReportsAreTrue
    /\ LoadedInv /\ CommittedInv /\ SwitchedInv
=============================================================================
