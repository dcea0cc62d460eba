--------------------------- MODULE SettingsProofs ---------------------------
(***************************************************************************)
(* Proofs about the handlers of saved settings, for every value of the     *)
(* constants.  First the machine of Settings: what its commands do, and    *)
(* that each part of SettingsInv and SavedInv is kept by a handler that is *)
(* Sound.  Then the handlers: each of those that api_request names is      *)
(* Sound.  Last the theorems, one of them about the daemon's requests      *)
(* together.                                                               *)
(***************************************************************************)
EXTENDS DaemonRequests, SettingsInvariant, RequestProofs, SequenceTheorems

Made == WellFormed(handler) /\ Asks(handler) /\ Does(handler)

(* The script of a handler is what it asks, then what it does.             *)
LEMMA ScriptIs ==
    ASSUME WellFormed(handler)
    PROVE  /\ Asked \in Nat /\ Len(handler.after) \in Nat
           /\ Len(Script) = Asked + Len(handler.after)
           /\ Script \in Seq(Commands(handler.parts))
           /\ \A i \in 1..Asked : Script[i] = handler.before[i]
           /\ \A i \in 1..Len(handler.after) : Script[Asked + i] = handler.after[i]
           /\ \A i \in 1..Len(Script) : Script[i] \in Commands(handler.parts)
           /\ \A i \in 1..Len(Script) : i > Asked =>
                 i - Asked \in 1..Len(handler.after) /\ Script[i] = handler.after[i - Asked]
  <1> DEFINE S == Commands(handler.parts)
  <1>1. handler.before \in Seq(S) /\ handler.after \in Seq(S)
    BY DEF WellFormed
  <1> HIDE DEF S
  <1>2. Asked \in Nat /\ Len(handler.after) \in Nat
    BY <1>1, LenProperties DEF Asked
  <1>3. /\ Script \in Seq(S)
        /\ Len(Script) = Asked + Len(handler.after)
        /\ \A i \in 1..Asked + Len(handler.after) :
              Script[i] = IF i <= Asked THEN handler.before[i] ELSE handler.after[i - Asked]
    BY <1>1, ConcatProperties DEF Script, Asked
  <1>4. ASSUME NEW i \in 1..Len(Script) PROVE Script[i] \in S
    BY <1>3, ElementOfSeq
  <1>5. ASSUME NEW i \in 1..Len(handler.after) PROVE Script[Asked + i] = handler.after[i]
    <2>1. Asked + i \in 1..Asked + Len(handler.after) /\ ~(Asked + i <= Asked) /\ (Asked + i) - Asked = i
      BY <1>2
    <2> QED BY <2>1, <1>3
  <1>6. \A i \in 1..Len(Script) : i > Asked =>
           i - Asked \in 1..Len(handler.after) /\ Script[i] = handler.after[i - Asked]
    <2> SUFFICES ASSUME NEW i \in 1..Len(Script), i > Asked
                 PROVE  i - Asked \in 1..Len(handler.after) /\ Script[i] = handler.after[i - Asked]
      OBVIOUS
    <2>1. i \in 1..Asked + Len(handler.after)
      BY <1>3
    <2>2. ~(i <= Asked) /\ i - Asked \in 1..Len(handler.after)
      BY <1>2, <2>1
    <2> QED BY <2>1, <2>2, <1>3
  <1>7. ASSUME NEW i \in 1..Asked PROVE Script[i] = handler.before[i]
    <2>1. i \in 1..Asked + Len(handler.after) /\ i <= Asked
      BY <1>2
    <2> QED BY <2>1, <1>3
  <1> QED BY <1>2, <1>3, <1>4, <1>5, <1>6, <1>7 DEF S

(* What the next command is.                                               *)
LEMMA CommandIs ==
    ASSUME Made, SettingsTypeOK, Update
    PROVE  /\ update.answer = "none" /\ update.pc \in 1..Len(Script) /\ update.pc \in Nat
           /\ command = Script[update.pc]
           /\ command.parts \subseteq handler.parts /\ command.places \subseteq Places
           /\ command.always \in BOOLEAN
           /\ command.do \in {"look", "merge", "compare", "set", "save", "commit"}
           /\ command.do \in {"merge", "compare"} =>
                update.pc <= Asked /\ command.places \in {{"active"}, {"disk"}}
           /\ command.do \in {"set", "save", "commit"} => update.pc > Asked
           /\ update.pc <= Asked =>
                /\ command = handler.before[update.pc]
                /\ command.do \in {"look", "merge", "compare"}
                /\ command.do # "look" => command.places \in {{"active"}, {"disk"}}
           /\ update.pc > Asked =>
                /\ command = handler.after[update.pc - Asked]
                /\ update.pc - Asked \in 1..Len(handler.after)
                /\ command.do \in {"look", "set", "save", "commit"}
                /\ command.do \in {"set", "commit"} =>
                      ~command.always /\ command.parts \subseteq handler.asked
                /\ command.do = "set" => command.places \subseteq Live
  <1>1. update.answer = "none" /\ update.pc <= Len(Script)
    BY DEF Update, Looks, Sets, SetsDeceived, Saves, SavesDeceived, Commits, CommandFails,
           Admits, Running
  <1>2. update.pc \in 1..Len(Script) + 1
    BY DEF SettingsTypeOK
  <1>3. Asked \in Nat /\ Len(handler.after) \in Nat /\ Len(Script) \in Nat
    BY ScriptIs DEF Made
  <1>4. update.pc \in 1..Len(Script) /\ update.pc \in Nat
    BY <1>1, <1>2, <1>3
  <1>5. Script[update.pc] \in Commands(handler.parts)
    BY <1>4, ScriptIs DEF Made
  <1>6. command = Script[update.pc]
    BY DEF command
  <1>7. CASE update.pc <= Asked
    <2>1. update.pc \in 1..Asked
      BY <1>3, <1>4, <1>7
    <2>2. command = handler.before[update.pc]
      BY <2>1, <1>6, ScriptIs DEF Made
    <2>3. /\ handler.before[update.pc].do \in {"look", "merge", "compare"}
          /\ handler.before[update.pc].do # "look" =>
                handler.before[update.pc].places \in {{"active"}, {"disk"}}
      BY <2>1 DEF Made, Asks, Asked
    <2> QED BY <2>2, <2>3, <1>1, <1>3, <1>4, <1>5, <1>6, <1>7 DEF Commands
  <1>8. CASE update.pc > Asked
    <2> DEFINE i == update.pc - Asked
    <2>2. i \in 1..Len(handler.after) /\ command = handler.after[i]
      BY <1>4, <1>6, <1>8, ScriptIs DEF Made
    <2>3. /\ handler.after[i].do \in {"look", "set", "save", "commit"}
          /\ handler.after[i].do \in {"set", "commit"} =>
                ~handler.after[i].always /\ handler.after[i].parts \subseteq handler.asked
          /\ handler.after[i].do = "set" => handler.after[i].places \subseteq Live
      BY <2>2 DEF Made, Does
    <2> HIDE DEF i
    <2>4. ~(update.pc <= Asked)
      BY <1>8, <1>3, <1>4
    <2> QED BY <2>2, <2>3, <2>4, <1>1, <1>3, <1>4, <1>5, <1>6, <1>8 DEF Commands, i
  <1> QED BY <1>3, <1>4, <1>7, <1>8

(* What is in the places once some parts have been set: nothing else has   *)
(* changed but what follows.                                               *)
LEMMA WithIs ==
    ASSUME WellFormed(handler), SettingsTypeOK,
           NEW places \in SUBSET Places, NEW parts \in SUBSET handler.asked,
           \A p \in parts : update.sent[p] # NoValue
    PROVE  /\ With(places, parts) \in [Places -> [handler.parts -> Values]]
           /\ \A place \in Places \ places : With(places, parts)[place] = world[place]
           /\ \A place \in places, p \in handler.parts \ Followers(handler) :
                With(places, parts)[place][p] =
                    IF p \in parts THEN update.sent[p] ELSE world[place][p]
  <1> DEFINE Changed(place) == [part \in handler.parts |->
                 IF part \in parts THEN update.sent[part] ELSE world[place][part]]
  <1>0. With(places, parts) =
          [place \in Places |-> IF place \in places THEN Follow(world[place], Changed(place))
                                ELSE world[place]]
    BY DEF With
  <1>1. ASSUME NEW place \in Places
        PROVE  Changed(place) \in [handler.parts -> Values] /\ world[place] \in [handler.parts -> Values]
    BY DEF SettingsTypeOK, Optional, WellFormed
  <1>2. ASSUME NEW v \in [handler.parts -> Values], NEW c \in [handler.parts -> Values]
        PROVE  /\ Follow(v, c) \in [handler.parts -> Values]
               /\ \A p \in handler.parts \ Followers(handler) : Follow(v, c)[p] = c[p]
    <2> DEFINE Leaders(q) == {p \in handler.parts : /\ <<q, p>> \in handler.follows
                                             /\ c[p] # v[p]
                                             /\ v[q] = v[p]}
    <2>1. Follow(v, c) = [q \in handler.parts |->
            IF Leaders(q) # {} THEN c[CHOOSE p \in Leaders(q) : TRUE] ELSE c[q]]
      BY DEF Follow
    <2>2. ASSUME NEW q \in handler.parts, Leaders(q) # {}
          PROVE  (CHOOSE p \in Leaders(q) : TRUE) \in handler.parts /\ q \in Followers(handler)
      <3>1. (CHOOSE p \in Leaders(q) : TRUE) \in Leaders(q)
        BY <2>2
      <3> QED BY <3>1, <2>2 DEF Followers
    <2> HIDE DEF Leaders
    <2> QED BY <2>1, <2>2
  <1> HIDE DEF Changed
  <1>3. With(places, parts) \in [Places -> [handler.parts -> Values]]
    BY <1>0, <1>1, <1>2
  <1>4. \A place \in Places \ places : With(places, parts)[place] = world[place]
    BY <1>0
  <1>5. ASSUME NEW place \in places, NEW p \in handler.parts \ Followers(handler)
        PROVE  With(places, parts)[place][p] = IF p \in parts THEN update.sent[p] ELSE world[place][p]
    <2>1. With(places, parts)[place] = Follow(world[place], Changed(place))
      BY <1>0
    <2>2. Follow(world[place], Changed(place))[p] = Changed(place)[p]
      BY <1>1, <1>2
    <2> QED BY <2>1, <2>2 DEF Changed
  <1> QED BY <1>3, <1>4, <1>5

(* Apart from what follows, a set puts what was asked into its places.     *)
LEMMA WithAt ==
    ASSUME NEW places, NEW parts, NEW place \in Places, place \in places,
           NEW p \in handler.parts, p \notin Followers(handler)
    PROVE  With(places, parts)[place][p] = IF p \in parts THEN update.sent[p] ELSE world[place][p]
  <1> DEFINE v == world[place]
             c == [part \in handler.parts |-> IF part \in parts THEN update.sent[part] ELSE v[part]]
             Leaders(q) == {r \in handler.parts : /\ <<q, r>> \in handler.follows
                                             /\ c[r] # v[r]
                                             /\ v[q] = v[r]}
  <1>1. With(places, parts)[place] = Follow(v, c)
    BY DEF With
  <1>2. c[p] = IF p \in parts THEN update.sent[p] ELSE world[place][p]
    OBVIOUS
  <1> HIDE DEF v, c
  <1>3. Leaders(p) = {}
    BY DEF Followers
  <1>4. Follow(v, c) = [q \in handler.parts |->
            IF Leaders(q) # {} THEN c[CHOOSE r \in Leaders(q) : TRUE] ELSE c[q]]
    BY DEF Follow
  <1> QED BY <1>1, <1>2, <1>3, <1>4

(* What a command does to the places.                                      *)
Sent(places) == With(places, Parts(command))
Effect ==
    \/ world' = world
    \/ /\ command.do = "commit" \/ (command.do = "set" /\ ~Guards)
       /\ \E places \in SUBSET command.places : world' = Sent(places)
    \/ command.do = "save" /\ world' = [world EXCEPT !.disk = world.config]

(* The handler gives up, or goes on to its next command; then the command  *)
(* did what it should or used up a fault.                                  *)
Updates ==
    [pc : 1..Len(Script) + 1, wanted : [handler.parts -> Optional],
     sent : [handler.parts -> Optional], kept : [Places -> [handler.parts -> Optional]],
     answer : {"none", "refused", "partial", "accepted"}, pending : BOOLEAN]
Same(field) == update'[field] = update[field]
Fails ==
    /\ Same("pc") /\ Same("wanted") /\ Same("sent") /\ Same("kept") /\ Same("pending")
    /\ update'.answer \in {"refused", "partial"}
    /\ update'.answer = "refused" => update.pc <= Asked \/ handler.plain
Spent == settingLeft.failures > 0 /\ settingLeft' = [settingLeft EXCEPT !.failures = @ - 1]
SentMerged == MergedWith(CHOOSE place \in command.places : TRUE)
Proceeds ==
    /\ update'.pc = update.pc + 1 /\ Same("wanted")
    /\ update'.kept = IF command.do = "look" /\ update.pc <= Asked THEN KeptToo(command) ELSE update.kept
    /\ update'.sent = IF command.do = "merge" THEN SentMerged ELSE update.sent
    /\ update'.answer = IF update.pc < Len(Script) THEN "none" ELSE "accepted"
    /\ update.pc >= Len(Script) => update'.pending = (handler.tellsPending /\ Pending)
Succeeds ==
    /\ command.do = "look" => Satisfies(command, world) /\ world' = world
    /\ command.do \in {"merge", "compare"} => ~Excluded(SentMerged) /\ world' = world
    /\ command.do = "set" =>
         \/ world' = Sent(command.places) /\ Satisfies(command, world') /\ UNCHANGED settingLeft
         \/ /\ Spent /\ Satisfies(command, world')
            /\ \E places \in SUBSET command.places : world' = Sent(places)
    /\ command.do = "save" =>
         \/ world' = [world EXCEPT !.disk = world.config]
         \/ world' = world /\ Spent
    /\ command.do = "commit" => world' = Sent(command.places)
Notes ==
    IF command.do \in {"merge", "compare"} THEN UNCHANGED settingLog ELSE HasSeen

(* Both ways out of a command.                                             *)
LEMMA ContinuedIs ==
    ASSUME Made, SettingsTypeOK, Update
    PROVE  /\ Continued \in Updates /\ update \in Updates
           /\ Continued.pc = update.pc + 1 /\ Continued.wanted = update.wanted
           /\ Continued.sent = update.sent /\ Continued.kept = update.kept
           /\ Continued.answer = IF update.pc < Len(Script) THEN "none" ELSE "accepted"
           /\ update.pc >= Len(Script) => Continued.pending = (handler.tellsPending /\ Pending)
  <1>1. update \in Updates
    BY DEF SettingsTypeOK, Updates
  <1>2. update.pc \in 1..Len(Script) /\ update.pc \in Nat /\ update.answer = "none" /\ Len(Script) \in Nat
    BY CommandIs, ScriptIs DEF Made
  <1>3. CASE update.pc < Len(Script)
    <2>1. Continued = [update EXCEPT !.pc = @ + 1]
      BY <1>3 DEF Continued
    <2>2. update.pc + 1 \in 1..Len(Script) + 1 /\ ~(update.pc >= Len(Script))
      BY <1>2, <1>3
    <2> QED BY <1>1, <1>2, <1>3, <2>1, <2>2 DEF Updates
  <1>4. CASE ~(update.pc < Len(Script))
    <2>1. Continued = [update EXCEPT !.pc = @ + 1, !.answer = "accepted",
                                    !.pending = handler.tellsPending /\ Pending]
      BY <1>4 DEF Continued
    <2>2. update.pc + 1 \in 1..Len(Script) + 1
      BY <1>2, <1>4
    <2>3. \A b \in BOOLEAN : [update EXCEPT !.pc = @ + 1, !.answer = "accepted", !.pending = b] \in Updates
      BY <1>1, <2>2 DEF Updates
    <2>4. Continued \in Updates
      BY <2>1, <2>3
    <2> QED BY <1>1, <1>2, <1>4, <2>1, <2>2, <2>4 DEF Updates
  <1> QED BY <1>1, <1>3, <1>4, <1>2

(* A handler that fails answers so, and nothing else of it changes.        *)
LEMMA FailedIs ==
    ASSUME Made, SettingsTypeOK, Update, update' \in Failed
    PROVE  update' \in Updates /\ Fails
  <1>1. PICK answer \in {"refused", "partial"} :
          /\ update' = [update EXCEPT !.answer = answer]
          /\ answer = "refused" => update.pc <= Len(handler.before) \/ handler.plain
    BY DEF Failed
  <1>2. update \in Updates
    BY DEF SettingsTypeOK, Updates
  <1> QED BY <1>1, <1>2 DEF Updates, Fails, Same, Asked

(* What is kept and merged has the shape of what is sent.                  *)
LEMMA KeptIs ==
    ASSUME SettingsTypeOK, NEW c
    PROVE  /\ KeptToo(c) \in [Places -> [handler.parts -> Optional]]
           /\ \A place \in Places, p \in handler.parts :
                KeptToo(c)[place][p] = IF place \in DOMAIN c.must /\ p \in Parts(c)
                                       THEN world[place][p] ELSE update.kept[place][p]
  BY DEF KeptToo, SettingsTypeOK, Optional

(* What a handler keeps is what it has just seen or what it had kept.      *)
LEMMA KeepsEither ==
    ASSUME NEW c, NEW place \in Places, NEW p \in handler.parts
    PROVE  KeptToo(c)[place][p] \in {world[place][p], update.kept[place][p]}
  BY DEF KeptToo

Plain(place) == [part \in handler.parts |->
                    IF update.wanted[part] # NoValue THEN update.wanted[part]
                    ELSE update.kept[place][part]]

(* What is sent of parts that exclude each other: what was asked, or else  *)
(* what was kept; only what follows may differ.                            *)
LEMMA MergedIs ==
    ASSUME WellFormed(handler), SettingsTypeOK, NEW place \in Places
    PROVE  /\ MergedWith(place) \in [handler.parts -> Optional]
           /\ \A p \in handler.parts \ Followers(handler) : MergedWith(place)[p] = Plain(place)[p]
           /\ (\A p \in handler.parts : Plain(place)[p] # NoValue) =>
                 \A p \in handler.parts : MergedWith(place)[p] # NoValue
  <1> DEFINE v == update.kept[place]
             c == Plain(place)
             Leaders(q) == {p \in handler.parts : /\ <<q, p>> \in handler.follows
                                             /\ c[p] # v[p]
                                             /\ v[q] = v[p]}
  <1>1. MergedWith(place) = [q \in handler.parts |->
            IF Leaders(q) # {} THEN c[CHOOSE p \in Leaders(q) : TRUE] ELSE c[q]]
    BY DEF MergedWith, Follow, Plain
  <1>2. c \in [handler.parts -> Optional]
    BY DEF Plain, SettingsTypeOK
  <1>3. ASSUME NEW q \in handler.parts, Leaders(q) # {}
        PROVE  (CHOOSE p \in Leaders(q) : TRUE) \in handler.parts /\ q \in Followers(handler)
    <2>1. (CHOOSE p \in Leaders(q) : TRUE) \in Leaders(q)
      BY <1>3
    <2> QED BY <2>1, <1>3 DEF Followers
  <1> HIDE DEF Leaders, c
  <1>4. MergedWith(place) \in [handler.parts -> Optional]
    BY <1>1, <1>2, <1>3
  <1>5. \A p \in handler.parts \ Followers(handler) : MergedWith(place)[p] = c[p]
    BY <1>1, <1>3
  <1>6. (\A p \in handler.parts : c[p] # NoValue) =>
           \A p \in handler.parts : MergedWith(place)[p] # NoValue
    BY <1>1, <1>3
  <1> QED BY <1>4, <1>5, <1>6 DEF c

(* A set or a commit is about parts the request has a value for.           *)
LEMMA PartsAre ==
    ASSUME WellFormed(handler), SettingsTypeOK, NEW c, c.parts \subseteq handler.parts, c.always \in BOOLEAN
    PROVE  /\ Parts(c) \subseteq c.parts
           /\ ~c.always => \A p \in Parts(c) : update.sent[p] # NoValue
           /\ \A p \in c.parts : c.always \/ update.sent[p] # NoValue => p \in Parts(c)
  BY DEF Parts

(* Every step of the handler of a POST.                                    *)
LEMMA UpdateIs ==
    ASSUME Made, SettingsTypeOK, Update
    PROVE  /\ Effect /\ Notes /\ (Fails \/ (Proceeds /\ Succeeds))
           /\ UNCHANGED settingLeft \/ Spent
           /\ update' \in Updates
  <1>0. command.do \in {"look", "merge", "compare", "set", "save", "commit"}
    BY CommandIs
  <1>1. CASE Looks
    <2>1. command.do = "look" /\ world' = world /\ UNCHANGED settingLeft /\ HasSeen
      BY <1>1 DEF Looks, Running
    <2>2. CASE Satisfies(command, world)
      <3> DEFINE kept == IF update.pc <= Asked THEN KeptToo(command) ELSE update.kept
      <3>1. update' = [Continued EXCEPT !.kept = kept]
        BY <1>1, <2>2, ContinuedIs DEF Looks, Asked
      <3>2. kept \in [Places -> [handler.parts -> Optional]]
        BY KeptIs DEF SettingsTypeOK
      <3> HIDE DEF kept
      <3>3. update' \in Updates
        BY <3>1, <3>2, ContinuedIs DEF Updates
      <3>4. Proceeds
        BY <3>1, <2>1, ContinuedIs DEF Updates, Proceeds, Same, kept
      <3>5. Succeeds
        BY <2>1, <2>2 DEF Succeeds
      <3> QED BY <2>1, <3>3, <3>4, <3>5 DEF Effect, Notes
    <2>3. CASE ~Satisfies(command, world)
      BY <1>1, <2>1, <2>3, FailedIs DEF Looks, Effect, Notes
    <2> QED BY <2>2, <2>3
  <1>2. ASSUME NEW right \in BOOLEAN, Outcome(right), command.do \in {"set", "save", "commit"}
        PROVE  /\ update' \in Updates
               /\ IF right THEN Proceeds ELSE Fails
    <2>1. CASE right
      <3>1. update' = Continued
        BY <1>2, <2>1 DEF Outcome
      <3> QED BY <3>1, <2>1, <1>2, ContinuedIs DEF Proceeds, Same
    <2>2. CASE ~right
      <3>1. update' \in Failed
        BY <1>2, <2>2 DEF Outcome
      <3> QED BY <3>1, <2>2, FailedIs
    <2> QED BY <2>1, <2>2
  <1>3. ASSUME NEW places \in SUBSET command.places, SetTo(places), command.do = "set"
        PROVE  /\ update' \in Updates /\ Effect
               /\ Fails \/ (Proceeds /\ world' = Sent(places) /\ Satisfies(command, world'))
    <2>1. CASE Guards
      <3>1. world' = world /\ Outcome(FALSE)
        BY <1>3, <2>1 DEF SetTo
      <3>2. update' \in Updates /\ Fails
        BY <3>1, <1>2, <1>3
      <3> QED BY <3>1, <3>2 DEF Effect
    <2>2. CASE ~Guards
      <3> DEFINE right == Satisfies(command, Sent(places)) /\ FollowsAsExpected(Sent(places))
      <3>1. world' = Sent(places) /\ Outcome(right)
        BY <1>3, <2>2 DEF SetTo, Sent
      <3>2. right \in BOOLEAN
        OBVIOUS
      <3> HIDE DEF right
      <3>3. update' \in Updates /\ IF right THEN Proceeds ELSE Fails
        BY <3>1, <3>2, <1>2, <1>3
      <3> QED BY <3>1, <3>3, <2>2, <1>3 DEF Effect, right
    <2> QED BY <2>1, <2>2
  <1>4. CASE Sets
    <2>1. command.do = "set" /\ SetTo(command.places) /\ UNCHANGED settingLeft /\ HasSeen
      BY <1>4 DEF Sets, Running
    <2> QED BY <2>1, <1>3 DEF Succeeds, Notes
  <1>5. CASE SetsDeceived
    <2>1. /\ command.do = "set" /\ Spent /\ HasSeen
          /\ \E places \in SUBSET command.places : SetTo(places)
      BY <1>5 DEF SetsDeceived, Running, Spends, Spent
    <2> QED BY <2>1, <1>3 DEF Succeeds, Notes
  <1>6. CASE Saves
    <2>1. /\ command.do = "save" /\ UNCHANGED settingLeft /\ HasSeen /\ Outcome(TRUE)
          /\ world' = [world EXCEPT !.disk = world.config]
      BY <1>6 DEF Saves, Running
    <2> QED BY <2>1, <1>2 DEF Succeeds, Notes, Effect
  <1>7. CASE SavesDeceived
    <2>1. command.do = "save" /\ Spent /\ HasSeen /\ Outcome(TRUE) /\ world' = world
      BY <1>7 DEF SavesDeceived, Running, Spends, Spent
    <2> QED BY <2>1, <1>2 DEF Succeeds, Notes, Effect
  <1>8. CASE Commits
    <2>1. /\ command.do = "commit" /\ UNCHANGED settingLeft /\ HasSeen /\ Outcome(TRUE)
          /\ world' = Sent(command.places)
      BY <1>8 DEF Commits, Running, Sent
    <2> QED BY <2>1, <1>2 DEF Succeeds, Notes, Effect
  <1>9. CASE CommandFails
    <2>1. command.do \in {"look", "set", "save", "commit"} /\ Spent /\ HasSeen /\ update' \in Failed
      BY <1>9 DEF CommandFails, Running, Spends, Spent
    <2>2. CASE command.do = "set" /\ Guards
      <3>1. world' = With({}, Parts(command))
        BY <1>9, <2>2 DEF CommandFails
      <3>2. With({}, Parts(command)) = world
        BY DEF With, SettingsTypeOK
      <3> QED BY <3>1, <3>2, <2>1, FailedIs DEF Notes, Effect
    <2>3. CASE ~(command.do = "set" /\ Guards)
      <3>1. Effect
        BY <1>9, <2>1, <2>3 DEF CommandFails, Effect, Sent
      <3> QED BY <3>1, <2>1, FailedIs DEF Notes
    <2> QED BY <2>2, <2>3
  <1>10. CASE Admits
    <2>1. /\ command.do \in {"merge", "compare"} /\ world' = world
          /\ UNCHANGED settingLog /\ UNCHANGED settingLeft
      BY <1>10 DEF Admits, Running
    <2>2. CASE Excluded(SentMerged)
      <3>1. update' \in Failed
        BY <1>10, <2>2 DEF Admits, SentMerged
      <3> QED BY <2>1, <3>1, FailedIs DEF Effect, Notes
    <2>3. CASE ~Excluded(SentMerged)
      <3> DEFINE sent == IF command.do = "merge" THEN SentMerged ELSE update.sent
      <3>1. update' = [Continued EXCEPT !.sent = sent]
        BY <1>10, <2>3 DEF Admits, SentMerged
      <3>2. (CHOOSE place \in command.places : TRUE) \in Places
        <4>1. command.places \in {{"active"}, {"disk"}}
          BY <2>1, CommandIs
        <4> QED BY <4>1 DEF Places
      <3>3. sent \in [handler.parts -> Optional]
        BY <3>2, MergedIs DEF SentMerged, SettingsTypeOK, Made
      <3> HIDE DEF sent
      <3>4. update' \in Updates
        BY <3>1, <3>3, ContinuedIs DEF Updates
      <3>5. Proceeds
        BY <3>1, <2>1, ContinuedIs DEF Updates, Proceeds, Same, sent
      <3> QED BY <3>4, <3>5, <2>1, <2>3 DEF Succeeds, Effect, Notes
    <2> QED BY <2>2, <2>3
  <1> QED
    BY <1>1, <1>4, <1>5, <1>6, <1>7, <1>8, <1>9, <1>10 DEF Update

(* The properties of handlers that the steps rest on are part of Sound.    *)
LEMMA SoundIsMade == Sound(handler) => Made
  BY DEF Sound, Made

(* A process that starts has its part of the file.                         *)
LEMMA LoadedIs ==
    ASSUME WellFormed(handler), NEW w \in [Places -> [handler.parts -> Values]],
           NEW places \in SUBSET Places, NEW parts \in SUBSET handler.parts
    PROVE  /\ Loaded(w, places, parts) \in [Places -> [handler.parts -> Values]]
           /\ \A place \in Places, p \in handler.parts :
                Loaded(w, places, parts)[place][p] =
                    IF place \in places /\ p \in parts THEN w.disk[p] ELSE w[place][p]
  BY DEF Loaded, Places

(* One place of one part, after a process has started.                     *)
LEMMA LoadedAt ==
    ASSUME NEW w, NEW places, NEW parts, NEW place \in Places, NEW p \in handler.parts
    PROVE  Loaded(w, places, parts)[place][p] =
                    IF place \in places /\ p \in parts THEN w.disk[p] ELSE w[place][p]
  BY DEF Loaded

(* What a restart changes: the parts of one process, in its places.        *)
LEMMA RestartIs ==
    ASSUME Sound(handler), SettingsTypeOK, DaemonRestarts
    PROVE  /\ UNCHANGED <<update, query>>
           /\ world' \in [Places -> [handler.parts -> Values]]
           /\ settingLog' \in [before : [Places -> [handler.parts -> Values]],
                               without : [Places -> [handler.parts -> Values]],
                               restarted : SUBSET handler.parts]
           /\ settingLog'.before = settingLog.before
           /\ settingLog.restarted \subseteq settingLog'.restarted
           /\ settingLog.without = world => settingLog'.without = world'
           /\ settingLeft' = [settingLeft EXCEPT !.restarts = @ - 1] /\ settingLeft.restarts > 0
           /\ \E places \in SUBSET Live, parts \in SUBSET handler.parts :
                /\ settingLog'.restarted = settingLog.restarted \union parts
                /\ handler.owners = "one" => places = Live /\ parts = handler.parts
                /\ handler.owners = "each" => places = Live
                /\ \A place \in Places, p \in handler.parts :
                     world'[place][p] = IF place \in places /\ p \in parts THEN world.disk[p]
                                        ELSE world[place][p]
  <1>1. PICK process \in Processes :
          /\ world' = Loaded(world, process[1], process[2])
          /\ settingLog' = [settingLog EXCEPT !.restarted = @ \union process[2],
                                  !.without = Loaded(@, process[1], process[2])]
    BY DEF DaemonRestarts
  <1>2. /\ process[1] \subseteq Live /\ process[2] \subseteq handler.parts
        /\ handler.owners = "one" => process[1] = Live /\ process[2] = handler.parts
        /\ handler.owners = "each" => process[1] = Live
    <2>1. handler.owners \in {"one", "two", "each"}
      BY DEF Sound, WellFormed
    <2>2. CASE handler.owners = "one"
      BY <2>2 DEF Processes
    <2>3. CASE handler.owners = "two"
      BY <2>3 DEF Processes
    <2>4. CASE handler.owners = "each"
      BY <2>4 DEF Processes
    <2> QED BY <2>1, <2>2, <2>3, <2>4
  <1> DEFINE places == process[1]
             parts == process[2]
  <1>3. places \in SUBSET Places /\ parts \in SUBSET handler.parts /\ places \in SUBSET Live
    BY <1>2 DEF Live, Places
  <1>4. WellFormed(handler) /\ world \in [Places -> [handler.parts -> Values]]
        /\ settingLog \in [before : [Places -> [handler.parts -> Values]],
                           without : [Places -> [handler.parts -> Values]],
                           restarted : SUBSET handler.parts]
    BY DEF Sound, SettingsTypeOK
  <1>a. world' = Loaded(world, places, parts)
    BY <1>1
  <1>b. settingLog' = [settingLog EXCEPT !.restarted = @ \union parts,
                                  !.without = Loaded(@, places, parts)]
    BY <1>1
  <1>c. /\ handler.owners = "one" => places = Live /\ parts = handler.parts
        /\ handler.owners = "each" => places = Live
    BY <1>2
  <1> HIDE DEF places, parts
  <1>5. world' \in [Places -> [handler.parts -> Values]]
        /\ Loaded(settingLog.without, places, parts) \in [Places -> [handler.parts -> Values]]
    BY <1>a, <1>3, <1>4, LoadedIs
  <1>6. \A place \in Places, p \in handler.parts :
                     world'[place][p] = IF place \in places /\ p \in parts THEN world.disk[p]
                                        ELSE world[place][p]
    BY <1>a, LoadedAt
  <1>7. /\ UNCHANGED <<update, query>>
        /\ settingLeft' = [settingLeft EXCEPT !.restarts = @ - 1] /\ settingLeft.restarts > 0
    BY DEF DaemonRestarts, Spends
  <1>8. /\ settingLog' \in [before : [Places -> [handler.parts -> Values]],
                               without : [Places -> [handler.parts -> Values]],
                               restarted : SUBSET handler.parts]
        /\ settingLog'.before = settingLog.before
        /\ settingLog'.restarted = settingLog.restarted \union parts
        /\ settingLog'.without = Loaded(settingLog.without, places, parts)
    BY <1>b, <1>3, <1>4, <1>5
  <1>9. settingLog.without = world => settingLog'.without = world'
    BY <1>a, <1>8
  <1> QED BY <1>3, <1>5, <1>6, <1>7, <1>8, <1>9, <1>c

(* What a command of the handler of a POST leaves in the places.           *)
LEMMA EffectIs ==
    ASSUME Sound(handler), SettingsTypeOK, Update
    PROVE  /\ world' \in [Places -> [handler.parts -> Values]]
           /\ update.pc <= Asked => world' = world
           /\ \/ world' = world
              \/ /\ command.do \in {"set", "commit"} /\ update.pc > Asked
                 /\ \E places \in SUBSET command.places :
                      /\ world' = Sent(places)
                      /\ \A place \in Places \ places : world'[place] = world[place]
                      /\ \A place \in places, p \in handler.parts \ Followers(handler) :
                           world'[place][p] = IF p \in Parts(command) THEN update.sent[p]
                                              ELSE world[place][p]
              \/ /\ command.do = "save" /\ update.pc > Asked
                 /\ world'.disk = world.config
                 /\ \A place \in Live : world'[place] = world[place]
  <1> USE SoundIsMade
  <1>1. Effect
    BY UpdateIs
  <1>2. world \in [Places -> [handler.parts -> Values]] /\ update.pc \in Nat /\ Asked \in Nat
    BY CommandIs, ScriptIs DEF SettingsTypeOK, Made
  <1>3. ASSUME command.do \in {"set", "commit"}, NEW places \in SUBSET command.places, world' = Sent(places)
        PROVE  /\ world' \in [Places -> [handler.parts -> Values]]
               /\ \A place \in Places \ places : world'[place] = world[place]
               /\ \A place \in places, p \in handler.parts \ Followers(handler) :
                           world'[place][p] = IF p \in Parts(command) THEN update.sent[p]
                                              ELSE world[place][p]
               /\ update.pc > Asked
    <2>1. update.pc > Asked /\ ~command.always /\ command.parts \subseteq handler.asked
      BY <1>3, CommandIs
    <2>2. /\ Parts(command) \in SUBSET handler.asked
          /\ \A p \in Parts(command) : update.sent[p] # NoValue
      BY <2>1, CommandIs, PartsAre DEF Made
    <2>3. places \in SUBSET Places /\ WellFormed(handler)
      BY CommandIs DEF Made
    <2> DEFINE parts == Parts(command)
    <2>4. world' = With(places, parts)
      BY <1>3 DEF Sent
    <2>5. parts \in SUBSET handler.asked /\ \A p \in parts : update.sent[p] # NoValue
      BY <2>2
    <2> HIDE DEF parts
    <2>6. /\ With(places, parts) \in [Places -> [handler.parts -> Values]]
          /\ \A place \in Places \ places : With(places, parts)[place] = world[place]
          /\ \A place \in places, p \in handler.parts \ Followers(handler) :
                With(places, parts)[place][p] =
                    IF p \in parts THEN update.sent[p] ELSE world[place][p]
      BY <2>3, <2>5, WithIs
    <2> QED BY <2>1, <2>4, <2>6 DEF parts
  <1>4. ASSUME command.do = "save", world' = [world EXCEPT !.disk = world.config]
        PROVE  /\ world' \in [Places -> [handler.parts -> Values]] /\ update.pc > Asked
               /\ world'.disk = world.config
               /\ \A place \in Live : world'[place] = world[place]
    <2>1. update.pc > Asked
      BY <1>4, CommandIs
    <2> QED BY <1>2, <1>4, <2>1 DEF Places, Live
  <1>5. CASE world' = world
    BY <1>2, <1>5
  <1>6. CASE /\ command.do \in {"set", "commit"}
             /\ \E places \in SUBSET command.places : world' = Sent(places)
    <2>1. PICK places \in SUBSET command.places : world' = Sent(places)
      BY <1>6
    <2>2. ~(update.pc <= Asked) \/ world' = world
      BY <1>2, <1>3, <1>6, <2>1
    <2> QED BY <1>3, <1>6, <2>1, <2>2
  <1>7. CASE command.do = "save" /\ world' = [world EXCEPT !.disk = world.config]
    <2>1. ~(update.pc <= Asked)
      BY <1>2, <1>4, <1>7
    <2> QED BY <1>4, <1>7, <2>1
  <1> QED BY <1>1, <1>5, <1>6, <1>7 DEF Effect
-----------------------------------------------------------------------------
(* The types.                                                              *)
LEMMA TypeStep ==
    ASSUME Sound(handler), SettingsTypeOK, SettingsNext
    PROVE  SettingsTypeOK'
  <1> USE SoundIsMade
  <1>0. handler' = handler
    BY DEF SettingsNext
  <1>1. moments' \subseteq BOOLEAN
    <2>1. InStep(world) \in BOOLEAN /\ InStep(world)' \in BOOLEAN
      BY DEF InStep
    <2> QED BY <2>1 DEF SettingsNext, SettingsTypeOK
  <1>2. CASE Update /\ UNCHANGED query
    <2>1. world' \in [Places -> [handler.parts -> Values]]
      BY <1>2, EffectIs
    <2>2. update' \in Updates
      BY <1>2, UpdateIs
    <2>3. settingLog' \in [before : [Places -> [handler.parts -> Values]],
                       without : [Places -> [handler.parts -> Values]],
                       restarted : SUBSET handler.parts]
      <3>1. Notes
        BY <1>2, UpdateIs
      <3>2. PICK gone : settingLog' = [settingLog EXCEPT !.restarted = @ \ gone]
        <4>1. \/ settingLog' = [settingLog EXCEPT !.restarted = @ \ {}]
              \/ settingLog' = [settingLog EXCEPT !.restarted = @ \ Parts(command)]
          BY <3>1 DEF Notes, HasSeen, SettingsTypeOK
        <4> QED BY <4>1
      <3> QED BY <3>2 DEF SettingsTypeOK
    <2>4. settingLeft' \in Budgeted
      <3>1. UNCHANGED settingLeft \/ Spent
        BY <1>2, UpdateIs
      <3>2. SettingFailures \in Nat
        BY SettingAssumption
      <3> QED BY <3>1, <3>2 DEF Spent, SettingsTypeOK, Budgeted
    <2> QED BY <1>0, <1>1, <1>2, <2>1, <2>2, <2>3, <2>4 DEF SettingsTypeOK, Updates, Script
  <1>3. CASE ReportReads \/ ReportFails
    <2>1. UNCHANGED <<world, update, settingLog>>
      BY <1>3 DEF ReportReads, ReportFails
    <2>2. settingLeft' \in Budgeted
      <3>1. SettingReads \in Nat
        BY SettingAssumption
      <3> QED BY <1>3, <3>1 DEF ReportReads, ReportFails, Spends, SettingsTypeOK, Budgeted
    <2>3. query' \in [pc : 0..Len(handler.report.looks), part : handler.asked,
                   read : [Places -> Optional],
                   answer : {"none", "same", "different", "unknown"}]
      <3>1. CASE ReportFails
        BY <3>1 DEF ReportFails, SettingsTypeOK, Optional
      <3>2. CASE ReportReads
        <4>1. \A place \in Places : InPart(world)[place] \in Optional
          BY DEF InPart, SettingsTypeOK, Optional, Sound, WellFormed
        <4>2. PICK read \in [Places -> Optional], answer \in {"none", "same", "different", "unknown"} :
                query' = [query EXCEPT !.pc = @ + 1, !.read = read, !.answer = answer]
          BY <3>2, <4>1 DEF ReportReads, SettingsTypeOK
        <4>3. query.pc + 1 \in 0..Len(handler.report.looks)
          <5>1. Len(handler.report.looks) \in Nat
            <6>1. handler.report.looks \in Seq(SUBSET Places)
              BY DEF Sound, Reports
            <6> QED BY <6>1, LenProperties
          <5> QED BY <3>2, <5>1 DEF ReportReads, SettingsTypeOK
        <4> QED BY <4>2, <4>3 DEF SettingsTypeOK
      <3> QED BY <1>3, <3>1, <3>2
    <2> QED BY <1>0, <1>1, <2>1, <2>2, <2>3 DEF SettingsTypeOK, Script
  <1>4. CASE DaemonRestarts
    <2>1. settingLeft' \in Budgeted
      <3>1. settingLeft' = [settingLeft EXCEPT !.restarts = @ - 1] /\ settingLeft.restarts > 0
        BY <1>4, RestartIs
      <3>2. SettingRestarts \in Nat
        BY SettingAssumption
      <3>3. settingLeft.restarts - 1 \in 0..SettingRestarts
        BY <3>1, <3>2 DEF SettingsTypeOK, Budgeted
      <3> QED BY <3>1, <3>3 DEF SettingsTypeOK, Budgeted
    <2> QED BY <1>0, <1>1, <1>4, <2>1, RestartIs DEF SettingsTypeOK, Script
  <1> QED BY <1>2, <1>3, <1>4 DEF SettingsNext

(* What each command finds when it has gone well, and what is left of it.  *)
LEMMA StepIs ==
    ASSUME Sound(handler), SettingsTypeOK, Update, handler' = handler
    PROVE  /\ update.answer = "none" /\ Asked' = Asked /\ Script' = Script
           /\ update'.wanted = update.wanted
           /\ Len(handler.after) > 0 /\ Asked \in Nat /\ Len(handler.after) \in Nat
           /\ update.pc \in 1..Asked + Len(handler.after) /\ Len(Script) = Asked + Len(handler.after)
           /\ update.pc > Asked => update'.sent = update.sent /\ update'.kept = update.kept
           /\ Open' => Proceeds /\ Succeeds
           /\ \/ update'.pc = update.pc /\ Fails
              \/ update'.pc = update.pc + 1 /\ Proceeds /\ Succeeds
  <1> USE SoundIsMade
  <1>1. Asked \in Nat /\ Len(handler.after) \in Nat /\ Len(Script) = Asked + Len(handler.after)
    BY ScriptIs DEF Made
  <1>2. update.answer = "none" /\ update.pc \in 1..Len(Script)
    BY CommandIs
  <1>3. Len(handler.after) > 0
    <2>1. handler.before \in Seq(Commands(handler.parts)) /\ handler.after \in Seq(Commands(handler.parts))
      BY DEF Sound, WellFormed
    <2>2. CASE handler.before = <<>> /\ handler.after = <<>>
      BY <2>2, <1>1, <1>2 DEF Asked
    <2>3. CASE \E n, m \in 0..Len(handler.after) : SavesAt(handler, n, m)
      BY <2>3, <1>1 DEF SavesAt
    <2>4. CASE \E n \in 0..Len(handler.after) : LoadsFrom(handler, n)
      BY <2>4, <1>1 DEF LoadsFrom
    <2>5. CASE CommitsAll(handler)
      BY <2>5 DEF CommitsAll
    <2>6. CASE SwitchesOnly(handler)
      BY <2>6, <2>1, <1>1, EmptySeq DEF SwitchesOnly
    <2> QED BY <2>2, <2>3, <2>4, <2>5, <2>6 DEF Sound, Assures
  <1>4. Fails \/ (Proceeds /\ Succeeds)
    BY UpdateIs
  <1>5. update.pc > Asked => command.do \notin {"merge", "compare"} /\ ~(update.pc <= Asked)
    BY CommandIs, <1>1, <1>2
  <1>6. update.pc > Asked => update'.sent = update.sent /\ update'.kept = update.kept
    BY <1>4, <1>5 DEF Fails, Proceeds, Same
  <1>7. Open' => ~Fails
    BY DEF Open, Fails
  <1>8. Fails \/ Proceeds => update'.wanted = update.wanted
    BY DEF Fails, Proceeds, Same
  <1> QED BY <1>1, <1>2, <1>3, <1>4, <1>6, <1>7, <1>8 DEF Fails, Proceeds, Same, Asked, Script

(* What was done of `after` was done before, or is the command of this     *)
(* step.                                                                   *)
LEMMA DoneIs ==
    ASSUME Sound(handler), SettingsTypeOK, Update, handler' = handler, Open',
           NEW i \in 1..Len(handler.after), Ran(i)'
    PROVE  /\ update.pc > Asked /\ update.pc - Asked \in 1..Len(handler.after)
           /\ command = handler.after[update.pc - Asked]
           /\ update'.sent = update.sent /\ update'.kept = update.kept
           /\ Open /\ Proceeds /\ Succeeds
           /\ i <= update.pc - Asked
           /\ i < update.pc - Asked => Ran(i)
  <1> USE SoundIsMade
  <1>1. update.pc + 1 > Asked + i /\ Proceeds /\ Succeeds
    BY StepIs DEF Ran, Proceeds
  <1>2. update.pc > Asked
    BY <1>1, StepIs
  <1>3. update.pc - Asked \in 1..Len(handler.after) /\ command = handler.after[update.pc - Asked]
    BY <1>2, CommandIs
  <1> QED BY <1>1, <1>2, <1>3, StepIs DEF Ran, Open
(* What is sent is asked for, or goes with it.                             *)
LEMMA SentIsAsked ==
    ASSUME Sound(handler), SettingsTypeOK, FlowInv,
           NEW p \in handler.parts, update.sent[p] # NoValue
    PROVE  p \in handler.asked \union Followers(handler)
  <1>1. CASE Merges
    BY <1>1 DEF Merges, Sound, Asks, Asked
  <1>2. CASE ~Merges
    BY <1>2 DEF FlowInv
  <1> QED BY <1>1, <1>2

(* Who merges has seen all of what is merged, and does it last.            *)
LEMMA MergesLast ==
    ASSUME Sound(handler), SettingsTypeOK, FlowInv, Update, command.do = "merge"
    PROVE  /\ Merges /\ update.pc = Asked
           /\ \E place \in {"active", "disk"} :
                /\ SentMerged = MergedWith(place)
                /\ \A p \in handler.parts : update.kept[place][p] # NoValue
                /\ place = "active" => \A p \in handler.parts : Live \subseteq handler.kind[p]
           /\ SentMerged \in [handler.parts -> Optional]
           /\ \A p \in handler.parts : SentMerged[p] # NoValue
  <1> USE SoundIsMade
  <1>1. /\ update.pc <= Asked /\ command = handler.before[update.pc] /\ update.pc \in Nat
        /\ Asked \in Nat /\ update.pc \in 1..Asked
        /\ command.places \in {{"active"}, {"disk"}}
    BY CommandIs, StepIs, ScriptIs DEF Made
  <1>2. /\ update.pc = Asked
        /\ command.places = {"active"} => \A p \in handler.parts : Live \subseteq handler.kind[p]
        /\ \A p \in handler.parts : \E j \in 1..update.pc - 1 :
                  /\ handler.before[j].do = "look" /\ handler.before[j].always
                  /\ p \in handler.before[j].parts /\ command.places \subseteq DOMAIN handler.before[j].must
    BY <1>1 DEF Sound, Asks, Asked
  <1>3. PICK place \in {"active", "disk"} : command.places = {place}
    BY <1>1
  <1>4. SentMerged = MergedWith(place)
    <2>1. (CHOOSE q \in command.places : TRUE) = place
      BY <1>3
    <2> QED BY <2>1 DEF SentMerged
  <1>5. ASSUME NEW p \in handler.parts PROVE update.kept[place][p] # NoValue
    <2>1. PICK j \in 1..update.pc - 1 :
                  /\ handler.before[j].do = "look" /\ handler.before[j].always
                  /\ p \in handler.before[j].parts /\ place \in DOMAIN handler.before[j].must
      BY <1>2, <1>3
    <2>2. j \in 1..Asked /\ j < update.pc
      BY <1>1, <2>1
    <2> QED BY <2>1, <2>2 DEF FlowInv
  <1>6. place \in Places
    BY DEF Places
  <1>7. \A p \in handler.parts : Plain(place)[p] # NoValue
    BY <1>5 DEF Plain
  <1>8. MergedWith(place) \in [handler.parts -> Optional] /\ \A p \in handler.parts : MergedWith(place)[p] # NoValue
    BY <1>6, <1>7, MergedIs DEF Made
  <1>9. place = "active" => \A p \in handler.parts : Live \subseteq handler.kind[p]
    BY <1>2, <1>3
  <1> QED BY <1>1, <1>2, <1>4, <1>5, <1>8, <1>9 DEF Merges

(* Where the handler is, and what it sends.                                *)
LEMMA FlowStep ==
    ASSUME Sound(handler), SettingsTypeOK, FlowInv, Update, handler' = handler
    PROVE  FlowInv'
  <1> USE SoundIsMade
  <1> DEFINE pc == update.pc
  <1>0. NoValue \notin Values
    BY SettingAssumption
  <1>1. /\ Asked' = Asked /\ Script' = Script /\ Asked \in Nat /\ pc \in Nat
        /\ Merges' = Merges /\ update'.wanted = update.wanted
        /\ Len(Script) \in Nat /\ pc <= Len(Script) /\ Len(handler.after) > 0
    <2>1. Merges' = Merges
      BY DEF Merges, Asked
    <2> QED BY <2>1, StepIs
  <1>2. Merges /\ pc = Asked => command.do = "merge"
    <2> SUFFICES ASSUME Merges, pc = Asked PROVE command.do = "merge"
      OBVIOUS
    <2>1. command = handler.before[pc]
      BY <1>1, CommandIs
    <2> QED BY <2>1 DEF Merges, Sound, Asks, Asked
  <1>3. CASE Fails /\ update'.pc = pc
    <2>1. update'.sent = update.sent /\ update'.kept = update.kept /\ update'.answer # "accepted"
      BY <1>3 DEF Fails, Same
    <2> QED BY <1>1, <1>3, <2>1 DEF FlowInv, Excluded
  <1>4. CASE Proceeds /\ Succeeds /\ update'.pc = pc + 1
    <2>1. update'.answer = "accepted" => update'.pc = Len(Script) + 1
      BY <1>4, <1>1 DEF Proceeds
    <2>2. CASE command.do = "merge"
      <3>1. /\ Merges /\ pc = Asked /\ update'.sent = SentMerged /\ update'.kept = update.kept
            /\ ~Excluded(SentMerged)
        BY <1>4, <2>2, MergesLast DEF Proceeds, Succeeds
      <3>2. \A p \in handler.parts : SentMerged[p] # NoValue
        BY <2>2, MergesLast
      <3>3. ASSUME NEW p \in handler.parts, update.wanted[p] # NoValue
            PROVE  p \in handler.asked /\ SentMerged[p] = update.wanted[p]
        <4>1. p \in handler.asked
          BY <3>3 DEF FlowInv
        <4>2. p \in handler.parts \ Followers(handler)
          BY <4>1 DEF Followers, Sound, WellFormed
        <4>3. PICK place \in {"active", "disk"} : SentMerged = MergedWith(place)
          BY <2>2, MergesLast
        <4>4. place \in Places
          BY DEF Places
        <4>5. SentMerged[p] = Plain(place)[p]
          BY <4>2, <4>3, <4>4, MergedIs DEF Sound
        <4> QED BY <4>1, <4>5, <3>3 DEF Plain
      <3>4. ASSUME NEW i \in 1..Asked, i < pc + 1, handler.before[i].do = "look" PROVE i < pc
        <4>1. i # pc
          BY <3>4, <2>2, <3>1, CommandIs, <1>1
        <4> QED BY <4>1, <3>4, <1>1
      <3> QED BY <1>1, <1>4, <2>1, <3>1, <3>2, <3>3, <3>4 DEF FlowInv, Excluded
    <2>3. CASE command.do # "merge"
      <3>1. update'.sent = update.sent
        BY <1>4, <2>3 DEF Proceeds
      <3>2. ~(Merges /\ pc = Asked)
        BY <1>2, <2>3
      <3>3. ASSUME NEW i \in 1..Asked, NEW p \in handler.before[i].parts,
                   NEW place \in DOMAIN handler.before[i].must,
                   i < pc + 1, handler.before[i].do = "look", handler.before[i].always
            PROVE  update'.kept[place][p] # NoValue
        <4>0. handler.before[i] \in Commands(handler.parts)
          BY <1>1, ScriptIs, ElementOfSeq DEF Made, WellFormed, Asked
        <4>1. p \in handler.parts /\ place \in Places
          BY <4>0 DEF Commands, Musts
        <4>2. CASE i = pc
          <5>1. command = handler.before[i] /\ pc <= Asked
            BY <4>2, CommandIs, <1>1
          <5>2. update'.kept = KeptToo(command)
            BY <5>1, <1>4, <3>3 DEF Proceeds
          <5>3. p \in Parts(command)
            BY <5>1, <3>3 DEF Parts
          <5>4. update'.kept[place][p] = world[place][p]
            BY <5>1, <5>2, <5>3, <4>1, KeptIs
          <5> QED BY <5>4, <4>1, <1>0 DEF SettingsTypeOK
        <4>3. CASE i # pc
          <5>1. i < pc
            BY <4>3, <3>3, <1>1
          <5>2. update.kept[place][p] # NoValue
            BY <5>1, <3>3 DEF FlowInv
          <5>3. update'.kept = update.kept \/ update'.kept = KeptToo(command)
            BY <1>4 DEF Proceeds
          <5>4. KeptToo(command)[place][p] \in {world[place][p], update.kept[place][p]}
            BY <4>1, KeepsEither
          <5> QED BY <5>2, <5>3, <5>4, <4>1, <1>0 DEF SettingsTypeOK
        <4> QED BY <4>2, <4>3
      <3> QED BY <1>1, <1>4, <2>1, <3>1, <3>2, <3>3 DEF FlowInv, Excluded
    <2> QED BY <2>2, <2>3
  <1> QED BY <1>3, <1>4, StepIs

(* What the request does not name is nothing new.                          *)
LEMMA RestStep ==
    ASSUME Sound(handler), SettingsTypeOK, FlowInv, RestInv, handler' = handler,
           Update \/ DaemonRestarts
    PROVE  RestInv'
  <1> USE SoundIsMade
  <1> SUFFICES ASSUME NEW p \in handler.parts \ Followers(handler), update'.wanted[p] = NoValue
               PROVE  LET Old == {settingLog'.before.disk[p], settingLog'.before.config[p]} IN
                      /\ world'.disk[p] \in Old /\ world'.config[p] \in Old
                      /\ {update'.sent[p], update'.kept.disk[p]} \subseteq Old \union {NoValue}
                      /\ Live \subseteq handler.kind[p] =>
                           world'.active[p] \in Old /\ update'.kept.active[p] \in Old \union {NoValue}
    BY DEF RestInv
  <1> DEFINE Old == {settingLog.before.disk[p], settingLog.before.config[p]}
             isLive == Live \subseteq handler.kind[p]
  <1>1. CASE DaemonRestarts
    <2>1. update' = update /\ settingLog'.before = settingLog.before
      BY <1>1, RestartIs
    <2>2. \A place \in Places : world'[place][p] \in {world[place][p], world.disk[p]}
      BY <1>1, RestartIs
    <2>3. world'.disk[p] = world.disk[p]
      BY <1>1, RestartIs DEF Live, Places
    <2> QED BY <2>1, <2>2, <2>3 DEF RestInv, Places
  <1>2. CASE Update
    <2>1. update.wanted[p] = NoValue
      BY <1>2, StepIs
    <2>2. /\ world.disk[p] \in Old /\ world.config[p] \in Old
          /\ {update.sent[p], update.kept.disk[p]} \subseteq Old \union {NoValue}
          /\ isLive => world.active[p] \in Old /\ update.kept.active[p] \in Old \union {NoValue}
      BY <2>1 DEF RestInv
    <2>3. settingLog'.before = settingLog.before
      <3>1. Notes
        BY <1>2, UpdateIs
      <3> QED BY <3>1 DEF Notes, HasSeen, SettingsTypeOK
    <2> HIDE DEF Old, isLive
    <2>4. world'.disk[p] \in Old /\ world'.config[p] \in Old /\ (isLive => world'.active[p] \in Old)
      <3>1. CASE world' = world
        BY <3>1, <2>2
      <3>2. CASE command.do = "save" /\ world'.disk = world.config /\ \A place \in Live : world'[place] = world[place]
        BY <3>2, <2>2 DEF Live
      <3>3. CASE /\ command.do \in {"set", "commit"}
                 /\ \E places \in SUBSET command.places :
                      /\ \A place \in Places \ places : world'[place] = world[place]
                      /\ \A place \in places, q \in handler.parts \ Followers(handler) :
                           world'[place][q] = IF q \in Parts(command) THEN update.sent[q]
                                              ELSE world[place][q]
        <4>1. ~command.always
          BY <1>2, <3>3, CommandIs
        <4>2. p \in Parts(command) => update.sent[p] \in Old
          BY <4>1, <2>2 DEF Parts
        <4>3. PICK places \in SUBSET command.places :
                      /\ \A place \in Places \ places : world'[place] = world[place]
                      /\ \A place \in places : 
                           world'[place][p] = IF p \in Parts(command) THEN update.sent[p]
                                              ELSE world[place][p]
          BY <3>3
        <4>4. ASSUME NEW place \in Places
              PROVE  world'[place][p] = world[place][p] \/ world'[place][p] \in Old
          BY <4>2, <4>3
        <4> QED BY <4>4, <2>2 DEF Places
      <3> QED BY <1>2, <3>1, <3>2, <3>3, EffectIs
    <2>5. update'.kept.disk[p] \in Old \union {NoValue} /\ (isLive => update'.kept.active[p] \in Old \union {NoValue})
      <3>1. update'.kept = update.kept \/ update'.kept = KeptToo(command)
        BY <1>2, StepIs DEF Fails, Proceeds, Same
      <3>2. \A place \in Places : KeptToo(command)[place][p] \in {world[place][p], update.kept[place][p]}
        BY KeepsEither
      <3> QED BY <3>1, <3>2, <2>2 DEF Places
    <2>6. update'.sent[p] \in Old \union {NoValue}
      <3>1. CASE update'.sent = update.sent
        BY <3>1, <2>2
      <3>2. CASE command.do = "merge" /\ update'.sent = SentMerged
        <4>1. PICK place \in {"active", "disk"} :
                /\ SentMerged = MergedWith(place)
                /\ place = "active" => Live \subseteq handler.kind[p]
          BY <1>2, <3>2, MergesLast
        <4>2. place \in Places
          BY DEF Places
        <4>3. SentMerged[p] = Plain(place)[p]
          BY <4>1, <4>2, MergedIs DEF Sound
        <4>4. Plain(place)[p] = update.kept[place][p]
          BY <2>1 DEF Plain
        <4> QED BY <3>2, <4>1, <4>3, <4>4, <2>2 DEF isLive
      <3> QED BY <1>2, <3>1, <3>2, StepIs DEF Fails, Proceeds, Same
    <2> QED BY <2>3, <2>4, <2>5, <2>6 DEF Old, isLive
  <1> QED BY <1>1, <1>2

(* A refusal comes before anything has been done.                          *)
LEMMA NothingStep ==
    ASSUME Sound(handler), SettingsTypeOK, NothingYet, handler' = handler,
           Update \/ DaemonRestarts
    PROVE  NothingYet'
  <1>1. CASE DaemonRestarts
    BY <1>1, RestartIs DEF NothingYet, Asked
  <1>2. CASE Update
    <2> SUFFICES ASSUME \/ update'.answer = "none" /\ update'.pc <= Asked
                        \/ update'.answer = "refused" /\ ~handler.plain
                 PROVE  world' = settingLog'.without
      BY <1>2, StepIs DEF NothingYet
    <2>1. update.pc <= Asked
      BY <1>2, StepIs DEF Fails, Proceeds
    <2>2. world' = world
      BY <1>2, <2>1, EffectIs
    <2>3. settingLog'.without = settingLog.without
      <3>1. Notes
        BY <1>2, UpdateIs, SoundIsMade
      <3> QED BY <3>1 DEF Notes, HasSeen, SettingsTypeOK
    <2> QED BY <1>2, <2>1, <2>2, <2>3, StepIs DEF NothingYet
  <1> QED BY <1>1, <1>2
(* What a look has found.                                                  *)
LEMMA FindsIs ==
    ASSUME Succeeds, command.do = "look", NEW place, NEW p \in Parts(command)
    PROVE  /\ world' = world
           /\ Tells(command, place, "wanted") => world[place][p] = update.sent[p]
           /\ Tells(command, place, "unchanged") => world[place][p] = update.kept[place][p]
  <1>1. Satisfies(command, world) /\ world' = world
    BY DEF Succeeds
  <1>2. ASSUME Tells(command, place, "wanted") PROVE world[place][p] = update.sent[p]
    <2>1. ~Differ(world[place], Parts(command))
      BY <1>1, <1>2 DEF Satisfies, Tells
    <2> QED BY <2>1 DEF Differ
  <1>3. ASSUME Tells(command, place, "unchanged") PROVE world[place][p] = update.kept[place][p]
    BY <1>1, <1>3 DEF Satisfies, Tells
  <1> QED BY <1>1, <1>2, <1>3

(* A look that has to find the active value unchanged has done so.         *)
LEMMA FindsUnchanged ==
    ASSUME Succeeds, command.do = "look", NEW p \in Parts(command), Tells(command, "active", "unchanged")
    PROVE  world.active[p] = update.kept.active[p]
  <1>1. world["active"][p] = update.kept["active"][p]
    BY FindsIs
  <1> QED BY <1>1

(* A handler that tells of restarts changes nothing that is active.        *)
LEMMA PreparesOnly ==
    ASSUME Sound(handler), SettingsTypeOK, Update, OnlyPrepares(handler)
    PROVE  world'.active = world.active
  <1> USE SoundIsMade
  <1>1. CASE command.do \in {"set", "commit"} /\ update.pc > Asked
    <2>1. command.do = "set" /\ command.places = {"config"}
      BY <1>1, CommandIs DEF OnlyPrepares, Restart
    <2>2. "active" \in Places /\ "active" \notin command.places
      BY <2>1 DEF Places
    <2> QED BY <2>1, <2>2, EffectIs
  <1>2. CASE ~(command.do \in {"set", "commit"} /\ update.pc > Asked)
    BY <1>2, EffectIs DEF Live
  <1> QED BY <1>1, <1>2

(* A look at the camera that a later command makes void.                   *)
Loose(j, p) ==
    \E k \in j + 1..Len(handler.after) :
       /\ p \in handler.after[k].parts /\ "active" \in DOMAIN handler.after[k].must
       /\ ~(handler.after[k].do = "look" /\ Tells(handler.after[k], "active", "unchanged"))

(* What the last looks at the camera have found awaits a restart still.    *)
LEMMA PendingStep ==
    ASSUME Sound(handler), SettingsTypeOK, PendingInv, handler' = handler,
           Update \/ DaemonRestarts
    PROVE  PendingInv'
  <1> USE SoundIsMade
  <1> SUFFICES ASSUME handler.tellsPending, Open',
                      NEW j \in 1..Len(handler.after), Ran(j)',
                      handler.after[j].do = "look", Tells(handler.after[j], "active", "unchanged"),
                      NEW p \in Parts(handler.after[j])'
               PROVE  \/ p \in settingLog'.restarted
                      \/ world'.active[p] = update'.kept.active[p]
                      \/ Loose(j, p)
    BY DEF PendingInv, Loose
  <1> DEFINE c == handler.after[j]
  <1>0. p \in handler.parts
    <2>1. c \in Commands(handler.parts)
      BY ElementOfSeq DEF Sound, WellFormed
    <2> QED BY <2>1 DEF Parts, Commands
  <1>1. CASE DaemonRestarts
    <2>1. update' = update /\ Asked' = Asked
      BY <1>1, RestartIs DEF Asked
    <2>2. p \in Parts(c) /\ Ran(j) /\ Open
      BY <2>1 DEF Parts, Ran, Open
    <2>3. \/ p \in settingLog.restarted
          \/ world.active[p] = update.kept.active[p]
          \/ Loose(j, p)
      BY <2>2 DEF PendingInv, Loose
    <2>4. settingLog.restarted \subseteq settingLog'.restarted
      BY <1>1, RestartIs
    <2>5. world'.active[p] = world.active[p] \/ p \in settingLog'.restarted
      BY <1>0, <1>1, RestartIs DEF Places
    <2> QED BY <2>1, <2>3, <2>4, <2>5
  <1>2. CASE Update
    <2> DEFINE k == update.pc - Asked
    <2>1. /\ update.pc > Asked /\ k \in 1..Len(handler.after) /\ command = handler.after[k]
          /\ update'.sent = update.sent /\ update'.kept = update.kept
          /\ Open /\ Proceeds /\ Succeeds /\ j <= k
          /\ j < k => Ran(j)
      BY <1>2, DoneIs
    <2> HIDE DEF k
    <2>2. p \in Parts(c)
      BY <2>1 DEF Parts
    <2>3. world'.active = world.active
      <3>1. OnlyPrepares(handler)
        <4>1. handler.after # <<>>
          <5>1. Len(handler.after) > 0
            BY <1>2, StepIs
          <5> QED BY <5>1, EmptySeq
        <4> QED BY <4>1 DEF Sound, Announces
      <3> QED BY <1>2, <3>1, PreparesOnly
    <2>4. settingLog'.restarted = IF "active" \in DOMAIN command.must
                                  THEN settingLog.restarted \ Parts(command) ELSE settingLog.restarted
      <3>1. HasSeen
        <4>1. Notes /\ command.do \notin {"merge", "compare"}
          BY <1>2, <2>1, UpdateIs, CommandIs
        <4> QED BY <4>1 DEF Notes
      <3> QED BY <3>1 DEF HasSeen, SettingsTypeOK
    <2>5. CASE j = k
      <3>1. command.do = "look" /\ p \in Parts(command) /\ Tells(command, "active", "unchanged")
        BY <2>1, <2>2, <2>5
      <3>2. world.active[p] = update.kept.active[p]
        BY <2>1, <3>1, FindsUnchanged
      <3> QED BY <2>1, <2>3, <3>2
    <2>6. CASE j < k
      <3>1. \/ p \in settingLog.restarted
            \/ world.active[p] = update.kept.active[p]
            \/ Loose(j, p)
        BY <2>1, <2>2, <2>6 DEF PendingInv, Loose
      <3>2. CASE p \in Parts(command) /\ "active" \in DOMAIN command.must
        <4>1. CASE command.do = "look" /\ Tells(command, "active", "unchanged")
          <5>1. world.active[p] = update.kept.active[p]
            BY <2>1, <3>2, <4>1, FindsUnchanged
          <5> QED BY <2>1, <2>3, <5>1
        <4>2. CASE ~(command.do = "look" /\ Tells(command, "active", "unchanged"))
          <5>1. k \in j + 1..Len(handler.after) /\ p \in handler.after[k].parts
            BY <2>1, <2>6, <3>2 DEF Parts
          <5> QED BY <2>1, <3>2, <4>2, <5>1 DEF Loose
        <4> QED BY <4>1, <4>2
      <3>3. CASE ~(p \in Parts(command) /\ "active" \in DOMAIN command.must)
        BY <2>1, <2>3, <2>4, <3>1, <3>3
      <3> QED BY <3>2, <3>3
    <2> QED BY <2>1, <2>5, <2>6
  <1> QED BY <1>1, <1>2

(* The answer says of the restart what the handler knew when it gave it.   *)
LEMMA ToldStep ==
    ASSUME Sound(handler), SettingsTypeOK, PendingTold, handler' = handler,
           Update \/ DaemonRestarts
    PROVE  PendingTold'
  <1>1. CASE DaemonRestarts
    <2>1. update' = update
      BY <1>1, RestartIs
    <2> QED BY <2>1 DEF PendingTold, Differ, AskedParts
  <1>2. CASE Update
    <2> SUFFICES ASSUME update'.answer = "accepted", handler.tellsPending
                 PROVE  update'.pending <=> Differ(update.kept.active, AskedParts)'
      BY DEF PendingTold
    <2>1. Proceeds /\ update.pc >= Len(Script)
      BY <1>2, StepIs DEF Fails, Proceeds
    <2>2. update'.pending <=> Pending
      BY <2>1 DEF Proceeds
    <2>3. update.pc > Asked
      BY <2>1, <1>2, StepIs
    <2>4. update'.sent = update.sent /\ update'.kept = update.kept
      BY <1>2, <2>3, StepIs
    <2> QED BY <2>2, <2>4 DEF Pending, Differ, AskedParts
  <1> QED BY <1>1, <1>2
-----------------------------------------------------------------------------
(* What a set puts in one place does not depend on the others it puts it   *)
(* in.                                                                     *)
LEMMA WithAlike ==
    ASSUME NEW a, NEW b \in SUBSET a, NEW parts, NEW place \in Places
    PROVE  With(b, parts)[place] \in {With(a, parts)[place], world[place]}
  BY DEF With

(* Values that exclude each other are never together.                      *)
LEMMA TogetherStep ==
    ASSUME Sound(handler), SettingsTypeOK, FlowInv, NeverTogether, handler' = handler,
           Update \/ DaemonRestarts
    PROVE  NeverTogether'
  <1> USE SoundIsMade
  <1> SUFFICES ASSUME NEW place \in Places, NEW pair \in handler.excludes,
                      \A q \in DOMAIN pair : world'[place][q] = pair[q]
               PROVE  FALSE
    BY DEF NeverTogether, Excluded
  <1>1. /\ handler.owners = "one" /\ DOMAIN pair \subseteq handler.parts
        /\ \A i \in 1..Len(handler.after) : handler.after[i].do # "commit"
    BY DEF Sound, Excludes
  <1>2. ASSUME NEW other \in Places, \A q \in DOMAIN pair : world'[place][q] = world[other][q]
        PROVE  FALSE
    BY <1>2 DEF NeverTogether, Excluded
  <1>3. CASE DaemonRestarts
    <2>1. \A q \in handler.parts : world'[place][q] = IF place \in Live THEN world.disk[q] ELSE world[place][q]
      BY <1>1, <1>3, RestartIs
    <2> QED BY <1>1, <1>2, <2>1 DEF Places
  <1>4. CASE Update
    <2>1. CASE world' = world
      BY <2>1, <1>2
    <2>2. CASE world'.disk = world.config /\ \A other \in Live : world'[other] = world[other]
      <3>1. CASE place = "disk"
        BY <3>1, <2>2, <1>2 DEF Places
      <3>2. CASE place \in Live
        BY <3>2, <2>2, <1>2
      <3> QED BY <3>1, <3>2 DEF Places, Live
    <2>3. CASE command.do \in {"set", "commit"} /\ update.pc > Asked
      <3> DEFINE i == update.pc - Asked
      <3>1. i \in 1..Len(handler.after) /\ command = handler.after[i] /\ command.do = "set"
        BY <1>1, <1>4, <2>3, CommandIs
      <3>2. world' # world => ~Guards
        BY <1>4, <3>1, UpdateIs DEF Effect
      <3>3. PICK places \in SUBSET command.places : world' = Sent(places)
        BY <1>4, <1>2, <3>1, UpdateIs DEF Effect
      <3>4. CASE handler.guarded
        <4>1. ~Guards
          BY <3>2, <1>2
        <4>2. ~Excluded(With(command.places, Parts(command))[place])
          BY <4>1, <3>4 DEF Guards
        <4>3. world'[place] \in {With(command.places, Parts(command))[place], world[place]}
          BY <3>3, WithAlike DEF Sent
        <4>4. Excluded(world'[place])
          BY DEF Excluded
        <4> QED BY <4>2, <4>3, <4>4 DEF NeverTogether
      <3>5. CASE /\ Len(handler.before) > 0 /\ handler.before[Len(handler.before)].do = "merge"
                 /\ \A k \in 1..Len(handler.after) : handler.after[k].do = "set" => handler.after[k].parts = handler.asked
                 /\ \/ handler.follows = {}
                    \/ /\ handler.follows = {<<"roi", "sub">>} /\ handler.asked = {"main", "sub"}
                       /\ handler.excludes = {[main |-> 1, sub |-> 1], [sub |-> 0, roi |-> 1]}
        <4>1. Merges
          <5>1. Len(handler.before) \in 1..Asked
            BY <3>5, <1>4, StepIs DEF Asked
          <5> QED BY <3>5, <5>1 DEF Merges
        <4>2. ~Excluded(update.sent) /\ \A q \in handler.parts : update.sent[q] # NoValue
          BY <4>1, <2>3 DEF FlowInv
        <4>3. handler.asked \subseteq handler.parts /\ handler.parts = handler.asked \union Followers(handler)
          BY <4>1 DEF Merges, Sound, WellFormed, Asks, Asked
        <4>4. Parts(command) = handler.asked
          BY <3>1, <3>5, <4>2, <4>3 DEF Parts
        <4>5. world'[place] = With(places, handler.asked)[place]
          BY <3>3, <4>4 DEF Sent
        <4>6. place \in places
          <5>1. CASE place \notin places
            <6>1. world'[place] = world[place]
              BY <5>1, <4>5 DEF With
            <6> QED BY <6>1, <1>2
          <5> QED BY <5>1
        <4>7. CASE handler.follows = {}
          <5>1. \A q \in handler.parts : world'[place][q] = update.sent[q]
            <6>1. Followers(handler) = {}
              BY <4>7 DEF Followers
            <6>2. \A q \in handler.parts : With(places, handler.asked)[place][q] = update.sent[q]
              BY <4>3, <4>6, <6>1, WithAt
            <6> QED BY <4>5, <6>2
          <5> QED BY <1>1, <4>2, <5>1 DEF Excluded
        <4>8. CASE /\ handler.follows = {<<"roi", "sub">>} /\ handler.asked = {"main", "sub"}
                   /\ handler.excludes = {[main |-> 1, sub |-> 1], [sub |-> 0, roi |-> 1]}
          <5>1. handler.parts = {"main", "sub", "roi"}
            BY <4>3, <4>8 DEF Followers
          <5> DEFINE v == world[place]
                     c == [q \in handler.parts |-> IF q \in handler.asked THEN update.sent[q] ELSE v[q]]
                     Leaders(q) == {r \in handler.parts : /\ <<q, r>> \in handler.follows
                                             /\ c[r] # v[r]
                                             /\ v[q] = v[r]}
          <5>2. world'[place] = [q \in handler.parts |->
                    IF Leaders(q) # {} THEN c[CHOOSE r \in Leaders(q) : TRUE] ELSE c[q]]
            <6>1. With(places, handler.asked)[place] = Follow(v, c)
              BY <4>6 DEF With
            <6> HIDE DEF v, c
            <6>2. Follow(v, c) = [q \in handler.parts |->
                    IF Leaders(q) # {} THEN c[CHOOSE r \in Leaders(q) : TRUE] ELSE c[q]]
              BY DEF Follow
            <6> QED BY <4>5, <6>1, <6>2
          <5>3. /\ c["main"] = update.sent["main"] /\ c["sub"] = update.sent["sub"] /\ c["roi"] = v["roi"]
            BY <5>1, <4>8
          <5>4. Leaders("main") = {} /\ Leaders("sub") = {}
            BY <4>8
          <5>5. Leaders("roi") = IF c["sub"] # v["sub"] /\ v["roi"] = v["sub"] THEN {"sub"} ELSE {}
            BY <4>8, <5>1
          <5> HIDE DEF c, Leaders
          <5>6. world'[place]["main"] = update.sent["main"] /\ world'[place]["sub"] = update.sent["sub"]
            BY <5>1, <5>2, <5>3, <5>4
          <5>7. world'[place]["roi"] = IF update.sent["sub"] # v["sub"] /\ v["roi"] = v["sub"]
                                       THEN update.sent["sub"] ELSE v["roi"]
            <6>1. CASE c["sub"] # v["sub"] /\ v["roi"] = v["sub"]
              <7>1. Leaders("roi") = {"sub"}
                BY <6>1, <5>5
              <7>2. (CHOOSE r \in Leaders("roi") : TRUE) = "sub"
                BY <7>1
              <7> QED BY <5>1, <5>2, <5>3, <6>1, <7>1, <7>2
            <6>2. CASE ~(c["sub"] # v["sub"] /\ v["roi"] = v["sub"])
              BY <5>1, <5>2, <5>3, <5>5, <6>2
            <6> QED BY <6>1, <6>2
          <5>8. v["sub"] \in {0, 1} /\ v["roi"] \in {0, 1} /\ update.sent["sub"] \in {0, 1}
            BY <5>1, <4>2 DEF SettingsTypeOK, Optional, Values
          <5>9. CASE pair = [main |-> 1, sub |-> 1]
            <6>1. update.sent["main"] = 1 /\ update.sent["sub"] = 1
              BY <5>6, <5>9
            <6>2. \A q \in DOMAIN pair : update.sent[q] = pair[q]
              BY <5>9, <6>1
            <6> QED BY <4>2, <6>2 DEF Excluded
          <5>10. CASE pair = [sub |-> 0, roi |-> 1]
            <6>1. update.sent["sub"] = 0 /\ world'[place]["roi"] = 1
              BY <5>6, <5>10
            <6>2. v["sub"] = 0 /\ v["roi"] = 1
              BY <5>7, <5>8, <6>1
            <6>3. \A q \in DOMAIN pair : v[q] = pair[q]
              BY <5>10, <6>2
            <6> QED BY <6>3 DEF NeverTogether, Excluded
          <5> QED BY <4>8, <5>9, <5>10
        <4> QED BY <3>5, <4>7, <4>8
      <3> QED BY <3>4, <3>5 DEF Sound, Excludes
    <2> QED BY <1>4, <2>1, <2>2, <2>3, EffectIs
  <1> QED BY <1>3, <1>4
-----------------------------------------------------------------------------
(* What is asked for changes only where it is sent.                        *)
LEMMA SentAt ==
    ASSUME Sound(handler), NEW places \in SUBSET Places, world' = Sent(places),
           NEW p \in handler.asked, NEW place \in Places
    PROVE  world'[place][p] = IF place \in places /\ p \in Parts(command) THEN update.sent[p]
                              ELSE world[place][p]
  <1>1. p \in handler.parts /\ p \notin Followers(handler)
    BY DEF Sound, WellFormed, Followers
  <1>2. CASE place \in places
    BY <1>1, <1>2, WithAt DEF Sent
  <1>3. CASE place \notin places
    BY <1>3 DEF Sent, With
  <1> QED BY <1>2, <1>3

(* What a command is about is a part.                                      *)
LEMMA AfterParts ==
    ASSUME Sound(handler), NEW i \in 1..Len(handler.after), NEW p \in Parts(handler.after[i])
    PROVE  p \in handler.parts /\ p \in handler.after[i].parts
  <1>1. handler.after[i] \in Commands(handler.parts)
    BY ElementOfSeq DEF Sound, WellFormed
  <1> QED BY <1>1 DEF Parts, Commands

(* The places of a set, and what is left of it when a fault was met.       *)
LEMMA SetIs ==
    ASSUME Sound(handler), SettingsTypeOK, Update, handler' = handler, Open', command.do = "set"
    PROVE  /\ world'.disk = world.disk
           /\ \A p \in handler.asked, place \in Places :
                world'[place][p] \in {update.sent[p], world[place][p]}
           /\ Spent \/ \A p \in Parts(command), place \in command.places : world'[place][p] = update.sent[p]
  <1> USE SoundIsMade
  <1>1. Succeeds
    BY StepIs
  <1>2. command.places \subseteq Live /\ command.parts \subseteq handler.asked
    BY CommandIs
  <1>3. command.places \in SUBSET Places /\ "disk" \in Places /\ "disk" \notin command.places
    BY <1>2 DEF Live, Places
  <1>4. PICK places \in SUBSET command.places :
          world' = Sent(places) /\ (Spent \/ places = command.places)
    BY <1>1 DEF Succeeds
  <1>5. world'.disk = world.disk
    <2>1. world'["disk"] = world["disk"]
      BY <1>3, <1>4 DEF Sent, With
    <2> QED BY <2>1
  <1>6. places \in SUBSET Places
    BY <1>3, <1>4
  <1>7. \A p \in handler.asked, place \in Places :
            world'[place][p] = IF place \in places /\ p \in Parts(command) THEN update.sent[p]
                               ELSE world[place][p]
    BY <1>4, <1>6, SentAt
  <1>8. Parts(command) \subseteq handler.asked
    BY <1>2 DEF Parts
  <1>9. Spent \/ \A p \in Parts(command), place \in command.places : world'[place][p] = update.sent[p]
    BY <1>3, <1>4, <1>7, <1>8
  <1> QED BY <1>5, <1>7, <1>9

(* A save puts in the file what is in memory, or a fault was met.          *)
LEMMA SaveIs ==
    ASSUME Sound(handler), SettingsTypeOK, Update, handler' = handler, Open', command.do = "save"
    PROVE  \/ world' = world /\ Spent
           \/ /\ world'.disk = world.config /\ world'.config = world.config
              /\ world'.active = world.active
  <1>1. Succeeds
    BY StepIs
  <1> QED BY <1>1 DEF Succeeds, SettingsTypeOK, Places

(* A look changes nothing.                                                 *)
LEMMA LookIs ==
    ASSUME Sound(handler), SettingsTypeOK, Update, handler' = handler, Open', command.do = "look"
    PROVE  /\ world' = world
           /\ \A p \in Parts(command), place \in Places :
                Finds(command, place) => world[place][p] = update.sent[p]
  <1>1. Succeeds
    BY StepIs
  <1>2. world' = world
    BY <1>1 DEF Succeeds
  <1> QED BY <1>1, <1>2, FindsIs DEF Finds

(* The part of SavedInv that is about one way to make sure.                *)
SavedWith(n, m) ==
    /\ \A i \in 1..n : \A p \in Parts(handler.after[i]) :
         /\ Ran(i) /\ handler.after[i].do = "set" /\ "config" \in handler.after[i].places
         => Taken(p) \/ settingLeft.failures = 0
    /\ Ran(m) => \A p \in AskedParts : Taken(p)
    /\ \A i \in m + 1..Len(handler.after) : \A p \in Parts(handler.after[i]) :
         Ran(i) /\ Finds(handler.after[i], "disk") => world.disk[p] = update.sent[p]
    /\ \A i \in n + 1..Len(handler.after) : \A p \in Parts(handler.after[i]) \intersect handler.asked :
         /\ Ran(i) /\ Finds(handler.after[i], "active") /\ handler.kind[p] = Live
         => \/ world.active[p] = update.sent[p]
            \/ world.active[p] = world.disk[p] /\ world.config[p] = world.disk[p]

(* A step of the handler of a POST keeps it, with at most one fault.       *)
LEMMA SavedUpdate ==
    ASSUME Sound(handler), SettingsTypeOK, Update, handler' = handler, Open', SettingFailures <= 1,
           NEW n \in 0..Len(handler.after), NEW m \in 0..Len(handler.after),
           SavesAt(handler, n, m), SavedWith(n, m)
    PROVE  SavedWith(n, m)'
  <1> USE SoundIsMade
  <1> DEFINE k == update.pc - Asked
             c(i) == handler.after[i]
  <1>0. /\ Asked' = Asked /\ Asked \in Nat /\ Len(handler.after) \in Nat
        /\ n \in Nat /\ m \in n + 1..Len(handler.after) /\ m \in Nat
        /\ (m \in 1..Len(handler.after)) /\ (n < m)
        /\ \A i \in 1..n : i \in 1..Len(handler.after) /\ i < m
        /\ \A i \in n + 1..Len(handler.after) : i \in 1..Len(handler.after) /\ i \in Nat
        /\ \A i \in m + 1..Len(handler.after) : i \in 1..Len(handler.after) /\ i > m /\ i > n
    BY StepIs, SMTT(30) DEF SavesAt
  <1>1. ASSUME NEW i \in 1..Len(handler.after), Ran(i)'
        PROVE  /\ update.pc > Asked /\ k \in 1..Len(handler.after) /\ command = c(k)
               /\ update'.sent = update.sent
               /\ i <= k
               /\ i < k => Ran(i)
    BY <1>1, DoneIs
  <1>2. /\ c(m).do = "save"
        /\ \A i \in 1..n : c(i).do \in {"set", "look"}
        /\ \A i \in n + 1..Len(handler.after) : i # m => c(i).do = "look"
    BY DEF SavesAt
  <1>3. /\ settingLeft.failures \in Nat
        /\ settingLeft.failures = 0 => settingLeft'.failures = 0 /\ ~Spent
        /\ Spent => settingLeft'.failures = 0
    <2>1. SettingFailures \in Nat
      BY SettingAssumption
    <2>2. settingLeft.failures \in 0..SettingFailures
      BY DEF SettingsTypeOK, Budgeted
    <2>3. UNCHANGED settingLeft \/ Spent
      BY UpdateIs
    <2>4. settingLeft \in [failures : 0..SettingFailures, restarts : 0..SettingRestarts, reads : 0..SettingReads]
      BY DEF SettingsTypeOK, Budgeted
    <2> QED BY <2>1, <2>2, <2>3, <2>4 DEF Spent
  <1> HIDE DEF k, c
  <1>4. ASSUME NEW i \in 1..n, NEW p \in Parts(handler.after[i])', Ran(i)',
               handler.after[i].do = "set", "config" \in handler.after[i].places
        PROVE  Taken(p)' \/ settingLeft'.failures = 0
    <2>1. /\ update.pc > Asked /\ k \in 1..Len(handler.after) /\ command = c(k)
          /\ update'.sent = update.sent
          /\ i <= k
          /\ i < k => Ran(i)
      BY <1>0, <1>1, <1>4
    <2>2. p \in Parts(c(i)) /\ c(i) = handler.after[i]
      BY <2>1 DEF Parts, c
    <2>3. p \in handler.asked
      <3>1. p \in handler.after[i].parts
        BY <2>2 DEF Parts
      <3> QED BY <1>0, <1>4, <3>1 DEF Sound, Does
    <2>4. i < k => Taken(p) \/ settingLeft.failures = 0
      BY <1>4, <2>1, <2>2 DEF SavedWith
    <2>5. CASE command.do = "look"
      <3>1. world' = world
        BY <2>5, LookIs
      <3>2. i # k
        BY <1>4, <2>1, <2>2, <2>5
      <3> QED BY <1>0, <1>3, <2>1, <2>4, <3>1, <3>2 DEF Taken
    <2>6. CASE command.do = "save"
      <3>1. i # k
        BY <1>4, <2>1, <2>2, <2>6
      <3> QED BY <1>0, <1>3, <2>1, <2>4, <2>6, <3>1, SaveIs DEF Taken
    <2>7. CASE command.do = "set"
      <3>1. world'.disk = world.disk
        BY <2>7, SetIs
      <3>2. world'.config[p] \in {update.sent[p], world.config[p]}
        BY <2>3, <2>7, SetIs DEF Places
      <3>3. CASE Spent
        BY <1>3, <3>3
      <3>4. CASE ~Spent /\ i = k
        <4>1. world'["config"][p] = update.sent[p]
          BY <1>4, <2>1, <2>2, <2>7, <3>4, SetIs
        <4> QED BY <2>1, <4>1 DEF Taken
      <3>5. CASE i < k
        <4>1. Taken(p) \/ settingLeft'.failures = 0
          BY <1>3, <2>4, <3>5
        <4> QED BY <2>1, <3>1, <3>2, <4>1 DEF Taken
      <3> QED BY <1>0, <2>1, <3>3, <3>4, <3>5
    <2>8. command.do \in {"look", "save", "set"}
      <3>1. CASE k <= n
        BY <1>0, <1>2, <2>1, <3>1
      <3>2. CASE k > n
        BY <1>0, <1>2, <2>1, <3>2
      <3> QED BY <1>0, <2>1, <3>1, <3>2
    <2> QED BY <2>5, <2>6, <2>7, <2>8
  <1>5. ASSUME NEW i \in n + 1..Len(handler.after), Ran(i)'
        PROVE  /\ k \in 1..Len(handler.after) /\ command = c(k) /\ update'.sent = update.sent
               /\ i <= k /\ k \in n + 1..Len(handler.after) /\ command.do = IF k = m THEN "save" ELSE "look"
               /\ i < k => Ran(i)
    BY <1>0, <1>1, <1>2, <1>5
  <1>6. ASSUME Ran(m)', NEW p \in AskedParts' PROVE Taken(p)'
    <2>1. /\ k \in 1..Len(handler.after) /\ command = c(k) /\ update'.sent = update.sent
          /\ m <= k /\ command.do = (IF k = m THEN "save" ELSE "look")
          /\ m < k => Ran(m)
      BY <1>0, <1>5, <1>6
    <2>2. p \in AskedParts
      BY <2>1 DEF AskedParts
    <2>3. CASE k # m
      <3>1. world' = world
        BY <2>1, <2>3, LookIs
      <3>2. Taken(p)
        BY <1>0, <2>1, <2>2, <2>3 DEF SavedWith
      <3> QED BY <2>1, <3>1, <3>2 DEF Taken
    <2>4. CASE k = m
      <3>1. PICK i \in 1..n : /\ handler.after[i].do = "set" /\ p \in handler.after[i].parts
                              /\ "config" \in handler.after[i].places
        BY <2>2 DEF SavesAt, AskedParts
      <3>2. p \in Parts(handler.after[i])
        BY <2>2, <3>1 DEF Parts, AskedParts
      <3>3. Ran(i)
        <4>1. update.pc - Asked = m /\ update.pc \in Nat
          BY <2>4, StepIs DEF k
        <4> QED BY <1>0, <3>1, <4>1 DEF Ran
      <3>4. Taken(p) \/ settingLeft.failures = 0
        BY <3>1, <3>2, <3>3 DEF SavedWith
      <3>5. \/ world' = world /\ Spent
            \/ world'.disk = world.config /\ world'.config = world.config
        BY <2>1, <2>4, SaveIs
      <3> QED BY <1>3, <2>1, <3>4, <3>5 DEF Taken
    <2> QED BY <2>3, <2>4
  <1>7. ASSUME NEW i \in m + 1..Len(handler.after), NEW p \in Parts(handler.after[i])', Ran(i)',
               Finds(handler.after[i], "disk")
        PROVE  world'.disk[p] = update'.sent[p]
    <2>1. /\ i \in n + 1..Len(handler.after) /\ i > m /\ i \in Nat
      BY <1>0
    <2>2. /\ command = c(k) /\ update'.sent = update.sent /\ i <= k /\ k \in Nat
          /\ command.do = (IF k = m THEN "save" ELSE "look")
          /\ i < k => Ran(i)
      BY <1>5, <1>7, <2>1
    <2>3. k # m
      BY <1>0, <2>1, <2>2
    <2>4. p \in Parts(c(i)) /\ c(i) = handler.after[i]
      BY <2>2 DEF Parts, c
    <2>5. world' = world
      BY <2>2, <2>3, LookIs
    <2>6. CASE i = k
      <3>1. world["disk"][p] = update.sent[p]
        BY <1>7, <2>2, <2>3, <2>4, <2>6, LookIs DEF Places
      <3> QED BY <2>2, <2>5, <3>1
    <2>7. CASE i # k
      <3>1. world.disk[p] = update.sent[p]
        BY <1>7, <2>1, <2>2, <2>4, <2>7 DEF SavedWith
      <3> QED BY <2>2, <2>5, <3>1
    <2> QED BY <2>6, <2>7
  <1>8. ASSUME NEW i \in n + 1..Len(handler.after), NEW p \in Parts(handler.after[i])' \intersect handler.asked,
               Ran(i)', Finds(handler.after[i], "active"), handler.kind[p] = Live
        PROVE  \/ world'.active[p] = update'.sent[p]
               \/ world'.active[p] = world'.disk[p] /\ world'.config[p] = world'.disk[p]
    <2>2. /\ command = c(k) /\ update'.sent = update.sent /\ i <= k /\ k \in Nat /\ i \in Nat
          /\ command.do = (IF k = m THEN "save" ELSE "look")
          /\ i < k => Ran(i)
      BY <1>0, <1>5, <1>8
    <2>4. p \in Parts(c(i)) \intersect handler.asked /\ c(i) = handler.after[i]
      BY <1>8, <2>2 DEF Parts, c
    <2>6. CASE i = k
      <3>0. command.do = "look"
        BY <1>8, <2>2, <2>4, <2>6 DEF Finds
      <3>1. world["active"][p] = update.sent[p] /\ world' = world
        BY <1>8, <2>2, <2>4, <2>6, <3>0, LookIs DEF Places
      <3> QED BY <2>2, <3>1
    <2>7. CASE i # k
      <3>1. \/ world.active[p] = update.sent[p]
            \/ world.active[p] = world.disk[p] /\ world.config[p] = world.disk[p]
        BY <1>8, <2>2, <2>4, <2>7 DEF SavedWith
      <3>2. \/ world' = world
            \/ /\ world'.disk = world.config /\ world'.config = world.config
               /\ world'.active = world.active
        BY <2>2, LookIs, SaveIs
      <3> QED BY <2>2, <3>1, <3>2
    <2> QED BY <2>6, <2>7
  <1> QED BY <1>4, <1>6, <1>7, <1>8 DEF SavedWith
(* What a restart leaves as it was.                                        *)
LEMMA RestartLeaves ==
    ASSUME Sound(handler), SettingsTypeOK, DaemonRestarts, handler' = handler
    PROVE  /\ update' = update /\ Asked' = Asked /\ (Open' <=> Open)
           /\ settingLeft'.failures = settingLeft.failures
           /\ \A p \in handler.parts :
                /\ world'.disk[p] = world.disk[p]
                /\ world'.config[p] \in {world.config[p], world.disk[p]}
                /\ world'.active[p] \in {world.active[p], world.disk[p]}
                /\ world'.active[p] = world.active[p] \/ p \in settingLog'.restarted
                /\ p \in settingLog.restarted => p \in settingLog'.restarted
                /\ handler.owners = "one" =>
                     world'.active[p] = world.disk[p] /\ world'.config[p] = world.disk[p]
  <1>1. update' = update
    BY RestartIs
  <1>2. settingLeft'.failures = settingLeft.failures
    <2>1. settingLeft' = [settingLeft EXCEPT !.restarts = @ - 1]
      BY RestartIs
    <2> QED BY <2>1 DEF SettingsTypeOK, Budgeted
  <1>3. PICK places \in SUBSET Live, parts \in SUBSET handler.parts :
                /\ settingLog'.restarted = settingLog.restarted \union parts
                /\ handler.owners = "one" => places = Live /\ parts = handler.parts
                /\ \A place \in Places, p \in handler.parts :
                     world'[place][p] = IF place \in places /\ p \in parts THEN world.disk[p]
                                        ELSE world[place][p]
    BY RestartIs
  <1>4. "disk" \notin places /\ {"active", "config", "disk"} \subseteq Places /\ {"active", "config"} \subseteq Live
    BY DEF Live, Places
  <1>5. ASSUME NEW p \in handler.parts
        PROVE  /\ world'["disk"][p] = world["disk"][p]
               /\ world'["config"][p] \in {world["config"][p], world.disk[p]}
               /\ world'["active"][p] \in {world["active"][p], world.disk[p]}
               /\ world'["active"][p] = world["active"][p] \/ p \in settingLog'.restarted
               /\ p \in settingLog.restarted => p \in settingLog'.restarted
               /\ handler.owners = "one" =>
                     world'["active"][p] = world.disk[p] /\ world'["config"][p] = world.disk[p]
    BY <1>3, <1>4
  <1> QED BY <1>1, <1>2, <1>5 DEF Asked, Open

(* So does every step, for every way in which the handler makes sure.      *)
LEMMA SavedStep ==
    ASSUME Sound(handler), SettingsTypeOK, SavedInv, handler' = handler, SettingFailures <= 1,
           Update \/ DaemonRestarts
    PROVE  SavedInv'
  <1> SUFFICES ASSUME Open', NEW n \in 0..Len(handler.after), NEW m \in 0..Len(handler.after),
                      SavesAt(handler, n, m)
               PROVE  SavedWith(n, m)'
    BY DEF SavedInv, SavedWith
  <1>1. CASE Update
    <2>1. Open
      BY <1>1, StepIs DEF Open
    <2>2. SavedWith(n, m)
      BY <2>1 DEF SavedInv, SavedWith
    <2> QED BY <1>1, <2>2, SavedUpdate
  <1>2. CASE DaemonRestarts
    <2>1. update' = update /\ Asked' = Asked /\ Open /\ settingLeft'.failures = settingLeft.failures
      BY <1>2, RestartLeaves
    <2>2. SavedWith(n, m)
      BY <2>1 DEF SavedInv, SavedWith
    <2>3. /\ \A i : Ran(i)' <=> Ran(i)
          /\ \A i : Parts(handler.after[i])' = Parts(handler.after[i])
          /\ AskedParts' = AskedParts
      BY <2>1 DEF Ran, Parts, AskedParts
    <2>4. ASSUME NEW p \in handler.parts, Taken(p) PROVE Taken(p)'
      BY <1>2, <2>1, <2>4, RestartLeaves DEF Taken
    <2>5. \A i \in 1..Len(handler.after) : \A p \in Parts(handler.after[i]) : p \in handler.parts
      BY AfterParts
    <2>6. /\ \A i \in 1..n : i \in 1..Len(handler.after)
          /\ \A i \in n + 1..Len(handler.after) : i \in 1..Len(handler.after)
          /\ \A i \in m + 1..Len(handler.after) : i \in 1..Len(handler.after)
          /\ handler.asked \subseteq handler.parts
      <3>1. Len(handler.after) \in Nat
        BY ScriptIs DEF Sound
      <3> QED BY <3>1 DEF SavesAt, Sound, WellFormed
    <2>7. \A i \in 1..n : \A p \in Parts(handler.after[i]) :
             /\ Ran(i) /\ handler.after[i].do = "set" /\ "config" \in handler.after[i].places
             => Taken(p)' \/ settingLeft'.failures = 0
      BY <2>1, <2>2, <2>4, <2>5, <2>6 DEF SavedWith
    <2>8. Ran(m) => \A p \in AskedParts : Taken(p)'
      BY <2>2, <2>4, <2>6 DEF SavedWith, AskedParts
    <2>9. \A i \in m + 1..Len(handler.after) : \A p \in Parts(handler.after[i]) :
             Ran(i) /\ Finds(handler.after[i], "disk") => world'.disk[p] = update'.sent[p]
      BY <1>2, <2>1, <2>2, <2>5, <2>6, RestartLeaves DEF SavedWith
    <2>10. \A i \in n + 1..Len(handler.after) : \A p \in Parts(handler.after[i]) \intersect handler.asked :
             /\ Ran(i) /\ Finds(handler.after[i], "active") /\ handler.kind[p] = Live
             => world'.active[p] = world'.disk[p] /\ world'.config[p] = world'.disk[p]
      <3>1. \A p \in handler.asked : handler.kind[p] = Live => handler.owners = "one"
        BY DEF SavesAt
      <3> QED BY <1>2, <2>6, <3>1, RestartLeaves
    <2> QED BY <2>3, <2>7, <2>8, <2>9, <2>10 DEF SavedWith
  <1> QED BY <1>1, <1>2

(* The file is written first, then each process loads it.                  *)
LoadedWith(n) ==
    /\ Ran(1) => \A p \in AskedParts : world.disk[p] = update.sent[p]
    /\ \A i \in n + 1..Len(handler.after) : \A p \in Parts(handler.after[i]), place \in Live :
         Ran(i) /\ Finds(handler.after[i], place) => world[place][p] = update.sent[p]

(* What was written first and what each process has loaded stays.          *)
LEMMA LoadedStep ==
    ASSUME Sound(handler), SettingsTypeOK, FlowInv, LoadedInv, handler' = handler,
           Update \/ DaemonRestarts
    PROVE  LoadedInv'
  <1> USE SoundIsMade
  <1> SUFFICES ASSUME Open', NEW n \in 0..Len(handler.after), LoadsFrom(handler, n)
               PROVE  LoadedWith(n)'
    BY DEF LoadedInv, LoadedWith
  <1>0. /\ Len(handler.after) \in Nat /\ Asked \in Nat /\ n \in 1..Len(handler.after)
        /\ 1 \in 1..Len(handler.after)
        /\ \A i \in n + 1..Len(handler.after) : i \in 1..Len(handler.after) /\ i \in Nat /\ i > n /\ i > 1
        /\ handler.asked \subseteq handler.parts /\ Followers(handler) = {}
    <2>1. Len(handler.after) \in Nat /\ Asked \in Nat
      BY ScriptIs DEF Sound
    <2>2. Followers(handler) = {}
      BY DEF LoadsFrom, Followers
    <2> QED BY <2>1, <2>2 DEF LoadsFrom, Sound, WellFormed
  <1>1. CASE Update
    <2> DEFINE k == update.pc - Asked
    <2>1. Open /\ Asked' = Asked
      BY <1>1, StepIs DEF Open
    <2>2. LoadedWith(n)
      BY <2>1 DEF LoadedInv, LoadedWith
    <2>3. ASSUME NEW i \in 1..Len(handler.after), Ran(i)'
          PROVE  /\ k \in 1..Len(handler.after) /\ command = handler.after[k]
                 /\ update'.sent = update.sent
                 /\ i <= k
                 /\ i < k => Ran(i)
                 /\ k = 1 => command.do = "commit" /\ command.parts = handler.asked /\ command.places = File
                 /\ k > 1 => command.do = IF k <= n THEN "set" ELSE "look"
      BY <1>1, <2>3, DoneIs DEF LoadsFrom
    <2> HIDE DEF k
    <2>4. ASSUME Ran(1)', NEW p \in AskedParts' PROVE world'.disk[p] = update'.sent[p]
      <3>1. /\ k \in 1..Len(handler.after) /\ update'.sent = update.sent /\ command = handler.after[k]
            /\ 1 < k => Ran(1)
            /\ k = 1 => command.do = "commit" /\ command.parts = handler.asked /\ command.places = File
            /\ k > 1 => command.do = IF k <= n THEN "set" ELSE "look"
        BY <1>0, <2>3, <2>4
      <3>2. p \in AskedParts
        BY <3>1 DEF AskedParts
      <3>3. CASE k = 1
        <4>1. world' = Sent(File)
          <5>1. Succeeds
            BY <1>1, StepIs
          <5> QED BY <3>1, <3>3, <5>1 DEF Succeeds
        <4>2. p \in Parts(command)
          BY <3>1, <3>2, <3>3 DEF Parts, AskedParts
        <4>3. world'["disk"][p] = update.sent[p]
          BY <3>2, <4>1, <4>2, SentAt DEF AskedParts, File, Places
        <4> QED BY <3>1, <4>3
      <3>4. CASE k > 1
        <4>1. world.disk[p] = update.sent[p]
          BY <2>2, <3>1, <3>2, <3>4 DEF LoadedWith
        <4>2. world'.disk = world.disk
          <5>1. CASE command.do = "set"
            BY <1>1, <5>1, SetIs
          <5>2. CASE command.do = "look"
            BY <1>1, <5>2, LookIs
          <5> QED BY <3>1, <3>4, <5>1, <5>2
        <4> QED BY <3>1, <4>1, <4>2
      <3> QED BY <1>0, <3>1, <3>3, <3>4
    <2>5. ASSUME NEW i \in n + 1..Len(handler.after), NEW p \in Parts(handler.after[i])', NEW place \in Live,
                 Ran(i)', Finds(handler.after[i], place)
          PROVE  world'[place][p] = update'.sent[p]
      <3>1. /\ k \in 1..Len(handler.after) /\ update'.sent = update.sent /\ command = handler.after[k]
            /\ i <= k
            /\ i < k => Ran(i)
            /\ k > 1 => command.do = IF k <= n THEN "set" ELSE "look"
        BY <1>0, <2>3, <2>5
      <3>2. k > n /\ k > 1 /\ command.do = "look"
        BY <1>0, <3>1
      <3>3. p \in Parts(handler.after[i]) /\ place \in Places
        BY <3>1 DEF Parts, Live, Places
      <3>4. world' = world
        BY <1>1, <3>2, LookIs
      <3>5. CASE i = k
        BY <1>1, <2>5, <3>1, <3>2, <3>3, <3>4, <3>5, LookIs
      <3>6. CASE i < k
        BY <2>2, <2>5, <3>1, <3>3, <3>4, <3>6 DEF LoadedWith
      <3> QED BY <1>0, <3>1, <3>5, <3>6
    <2> QED BY <2>4, <2>5 DEF LoadedWith
  <1>2. CASE DaemonRestarts
    <2>1. update' = update /\ Asked' = Asked /\ Open
      BY <1>2, RestartLeaves
    <2>2. LoadedWith(n)
      BY <2>1 DEF LoadedInv, LoadedWith
    <2>3. /\ \A i : Ran(i)' <=> Ran(i)
          /\ \A i : Parts(handler.after[i])' = Parts(handler.after[i])
          /\ AskedParts' = AskedParts
      BY <2>1 DEF Ran, Parts, AskedParts
    <2>4. Ran(1) => \A p \in AskedParts : world'.disk[p] = update'.sent[p]
      BY <1>0, <1>2, <2>1, <2>2, RestartLeaves DEF LoadedWith, AskedParts
    <2>5. ASSUME NEW i \in n + 1..Len(handler.after), NEW p \in Parts(handler.after[i]), NEW place \in Live,
                 Ran(i), Finds(handler.after[i], place)
          PROVE  world'[place][p] = update'.sent[p]
      <3>1. world[place][p] = update.sent[p]
        BY <2>2, <2>5 DEF LoadedWith
      <3>2. p \in handler.parts
        BY <1>0, AfterParts
      <3>3. p \in AskedParts
        <4>1. world[place][p] \in Values
          BY <3>2 DEF SettingsTypeOK, Live, Places
        <4>2. update.sent[p] # NoValue
          BY <3>1, <4>1, SettingAssumption
        <4> QED BY <1>0, <3>2, <4>2, SentIsAsked DEF AskedParts
      <3>4. Ran(1)
        <4>1. update.pc \in Nat
          BY DEF SettingsTypeOK
        <4> QED BY <1>0, <2>5, <4>1 DEF Ran
      <3>5. world.disk[p] = update.sent[p]
        BY <2>2, <3>3, <3>4 DEF LoadedWith
      <3>6. CASE place = "active"
        BY <1>2, <2>1, <3>1, <3>2, <3>5, <3>6, RestartLeaves
      <3>7. CASE place = "config"
        BY <1>2, <2>1, <3>1, <3>2, <3>5, <3>7, RestartLeaves
      <3> QED BY <3>6, <3>7 DEF Live
    <2> QED BY <2>3, <2>4, <2>5 DEF LoadedWith
  <1> QED BY <1>1, <1>2

(* One command sends and saves it all.                                     *)
LEMMA CommittedStep ==
    ASSUME Sound(handler), SettingsTypeOK, CommittedInv, handler' = handler,
           Update \/ DaemonRestarts
    PROVE  CommittedInv'
  <1> USE SoundIsMade
  <1> SUFFICES ASSUME Open', CommitsAll(handler), Ran(1)', NEW p \in AskedParts', NEW place \in Places
               PROVE  world'[place][p] = update'.sent[p]
    BY DEF CommittedInv
  <1>0. p \in handler.asked /\ handler.asked \subseteq handler.parts /\ p \in handler.parts
    BY DEF AskedParts, Sound, WellFormed
  <1>1. CASE Update
    <2>1. 1 \in 1..Len(handler.after) /\ Len(handler.after) = 1
      BY DEF CommitsAll
    <2>2. /\ update.pc - Asked = 1 /\ command = handler.after[1]
          /\ update'.sent = update.sent /\ Succeeds
      BY <1>1, <2>1, DoneIs
    <2>3. command.do = "commit" /\ command.places = Places /\ command.parts = handler.asked /\ ~command.always
      BY <1>1, <2>2, CommandIs DEF CommitsAll
    <2>4. world' = Sent(Places)
      BY <2>2, <2>3 DEF Succeeds
    <2>5. p \in Parts(command)
      BY <1>0, <2>2, <2>3 DEF Parts, AskedParts
    <2> QED BY <1>0, <2>2, <2>4, <2>5, SentAt
  <1>2. CASE DaemonRestarts
    <2>1. update' = update /\ Asked' = Asked /\ Open /\ p \in AskedParts /\ Ran(1)
      BY <1>2, RestartLeaves DEF AskedParts, Ran
    <2>2. /\ world["disk"][p] = update.sent[p] /\ world[place][p] = update.sent[p]
      BY <2>1 DEF CommittedInv, Places
    <2>3. world'[place][p] \in {world[place][p], world["disk"][p]}
      <3>1. world'[place][p] \in {world[place][p], world.disk[p]}
        BY <1>0, <1>2, RestartIs
      <3> QED BY <3>1
    <2> QED BY <2>1, <2>2, <2>3
  <1> QED BY <1>1, <1>2

(* What is not saved is looked at last.                                    *)
LEMMA SwitchedStep ==
    ASSUME Sound(handler), SettingsTypeOK, SwitchedInv, handler' = handler,
           Update \/ DaemonRestarts
    PROVE  SwitchedInv'
  <1> USE SoundIsMade
  <1> SUFFICES ASSUME Open', SwitchesOnly(handler), Ran(Len(handler.after))', NEW p \in AskedParts'
               PROVE  world'["active"][p] = update'.sent[p] \/ p \in settingLog'.restarted
    BY DEF SwitchedInv
  <1>0. p \in handler.asked /\ handler.asked \subseteq handler.parts /\ p \in handler.parts
    BY DEF AskedParts, Sound, WellFormed
  <1>1. CASE Update
    <2> DEFINE n == Len(handler.after)
    <2>1. n \in 1..n
      BY <1>1, StepIs
    <2>2. /\ update.pc - Asked = n /\ command = handler.after[n]
          /\ update'.sent = update.sent
      BY <1>1, <2>1, DoneIs
    <2>3. Finds(command, "active") /\ handler.asked \subseteq command.parts /\ command.do = "look"
      BY <2>2 DEF SwitchesOnly, Finds
    <2>4. p \in Parts(command)
      BY <1>0, <2>2, <2>3 DEF Parts, AskedParts
    <2>5. world' = world /\ world["active"][p] = update.sent[p]
      BY <1>1, <2>3, <2>4, LookIs DEF Places
    <2> QED BY <2>2, <2>5
  <1>2. CASE DaemonRestarts
    <2>1. update' = update /\ Asked' = Asked /\ Open /\ p \in AskedParts /\ Ran(Len(handler.after))
      BY <1>2, RestartLeaves DEF AskedParts, Ran
    <2>2. world.active[p] = update.sent[p] \/ p \in settingLog.restarted
      BY <2>1 DEF SwitchedInv
    <2> QED BY <1>0, <1>2, <2>1, <2>2, RestartLeaves
  <1> QED BY <1>1, <1>2

(* A step leaves one side of what a report compares, or makes both alike.  *)
LEMMA OneSide ==
    ASSUME Sound(handler), SettingsTypeOK, Update \/ DaemonRestarts, handler' = handler,
           NEW p \in handler.asked, NEW place \in Live
    PROVE  \/ world'[place][p] = world[place][p]
           \/ world'["disk"][p] = world["disk"][p]
           \/ world'[place][p] = world'["disk"][p]
  <1>0. p \in handler.parts /\ place \in Places /\ "disk" \in Places
    BY DEF Sound, WellFormed, Live, Places
  <1>1. CASE DaemonRestarts
    <2>1. world'.disk[p] = world.disk[p]
      BY <1>0, <1>1, RestartLeaves
    <2> QED BY <2>1
  <1>2. CASE Update
    <2>1. CASE world' = world
      BY <2>1
    <2>2. CASE command.do = "save" /\ \A q \in Live : world'[q] = world[q]
      BY <2>2
    <2>3. ASSUME NEW places \in SUBSET command.places, world' = Sent(places)
          PROVE  \/ world'[place][p] = world[place][p]
                 \/ world'["disk"][p] = world["disk"][p]
                 \/ world'[place][p] = world'["disk"][p]
      <3>1. places \in SUBSET Places
        BY <1>2, CommandIs, SoundIsMade
      <3>2. \A q \in Places : world'[q][p] = IF q \in places /\ p \in Parts(command) THEN update.sent[p]
                                             ELSE world[q][p]
        BY <2>3, <3>1, SentAt
      <3> QED BY <1>0, <3>2
    <2> QED BY <1>2, <2>1, <2>2, <2>3, EffectIs
  <1> QED BY <1>1, <1>2

(* What a report measures, and whether it is in step with the file.        *)
LEMMA MeasureIs ==
    ASSUME Sound(handler), SettingsTypeOK
    PROVE  LET key == Measure(handler, query.part) IN
           /\ query.part \in handler.asked /\ query.part \in handler.parts
           /\ key \in Live /\ key \in Places /\ "disk" \in Places
           /\ handler.report.tellsPending => key = "active"
           /\ InStep(world) <=> world[key][query.part] = world["disk"][query.part]
           /\ \A place \in Places : world[place][query.part] \in Values
  <1>1. query.part \in handler.asked /\ query.part \in handler.parts
    BY DEF SettingsTypeOK, Sound, WellFormed
  <1>2. Measure(handler, query.part) \in Live
    BY DEF Measure, Live
  <1>3. InStep(world) <=> world[Measure(handler, query.part)][query.part] = world["disk"][query.part]
    BY DEF InStep, InPart, Measure, Places
  <1> QED BY <1>1, <1>2, <1>3 DEF Live, Places, Measure, SettingsTypeOK

(* The report while a request or a restart goes on.                        *)
LEMMA ReadStepOthers ==
    ASSUME Sound(handler), SettingsTypeOK, ReadInv, ReportsAreTrue, SettingsNext, SettingsTypeOK',
           Update \/ DaemonRestarts, query' = query
    PROVE  ReadInv' /\ ReportsAreTrue'
  <1> DEFINE part == query.part
             key == Measure(handler, part)
  <1>0. handler' = handler
    BY DEF SettingsNext
  <1>1. CASE query.pc = 0 \/ query.answer # "none"
    <2>1. moments' = moments
      BY <1>1 DEF SettingsNext
    <2>2. CASE query.pc = 0
      <3>1. query.read = [place \in Places |-> NoValue] /\ query.answer = "none"
        BY <2>2 DEF ReadInv
      <3>2. ~(query.pc > 0) /\ 1..query.pc = {}
        BY <2>2
      <3>3. ReadInv'
        BY <1>0, <2>2, <3>1, <3>2 DEF ReadInv
      <3> QED BY <2>1, <3>3 DEF ReportsAreTrue
    <2>3. CASE query.pc # 0
      <3>1. ReadInv'
        BY <1>0, <1>1, <2>3 DEF ReadInv
      <3> QED BY <2>1, <3>1 DEF ReportsAreTrue
    <2> QED BY <2>2, <2>3
  <1>2. CASE query.pc # 0 /\ query.answer = "none"
    <2>1. moments' = moments \union {InStep(world), InStep(world)'}
      BY <1>2 DEF SettingsNext
    <2>2. /\ part \in handler.asked /\ part \in handler.parts
          /\ key \in Live /\ key \in Places /\ "disk" \in Places
          /\ handler.report.tellsPending => key = "active"
          /\ InStep(world) <=> world[key][part] = world["disk"][part]
          /\ world[key][part] \in {0, 1} /\ world["disk"][part] \in {0, 1}
      BY MeasureIs DEF Values
    <2>3. /\ (InStep(world)') <=> (world'[key][part] = world'["disk"][part])
          /\ world'[key][part] \in {0, 1} /\ world'["disk"][part] \in {0, 1}
      <3>1. world' \in [Places -> [handler.parts -> Values]]
        BY <1>0 DEF SettingsTypeOK
      <3>2. (InStep(world)') <=> (world'[key][part] = world'["disk"][part])
        BY <1>0 DEF InStep, InPart, Measure, Places
      <3> QED BY <2>2, <3>1, <3>2 DEF Values
    <2>4. \/ world'[key][part] = world[key][part]
          \/ world'["disk"][part] = world["disk"][part]
          \/ world'[key][part] = world'["disk"][part]
      BY <1>0, <2>2, OneSide
    <2>5. /\ query.pc > 0 /\ query.pc < Len(handler.report.looks)
          /\ \A i \in 1..query.pc : \A place \in handler.report.looks[i] : query.read[place] # NoValue
      BY <1>2 DEF ReadInv, SettingsTypeOK
    <2>6. ASSUME TRUE \notin moments'
          PROVE  /\ \A place \in {key, "disk"} : query.read[place] \in {NoValue, world'[place][part]}
                 /\ world'[key][part] # world'["disk"][part]
      <3>1. ~InStep(world) /\ ~(InStep(world)') /\ TRUE \notin moments
        <4>1. InStep(world) \in BOOLEAN /\ (InStep(world)') \in BOOLEAN
          BY DEF InStep
        <4> QED BY <2>1, <2>6, <4>1
      <3>2. \A place \in {key, "disk"} : query.read[place] \in {NoValue, world[place][part]}
        BY <1>2, <2>5, <3>1 DEF ReadInv
      <3>3. world'[key][part] = world[key][part] /\ world'["disk"][part] = world["disk"][part]
        BY <2>2, <2>3, <2>4, <3>1
      <3> QED BY <2>3, <3>1, <3>2, <3>3
    <2>7. ASSUME FALSE \notin moments', handler.report.tellsPending
          PROVE  /\ \A place \in {key, "disk"} : query.read[place] \in {NoValue, world'[place][part]}
                 /\ world'[key][part] = world'["disk"][part]
      <3>1. InStep(world) /\ InStep(world)' /\ FALSE \notin moments
        <4>1. InStep(world) \in BOOLEAN /\ (InStep(world)') \in BOOLEAN
          BY DEF InStep
        <4> QED BY <2>1, <2>7, <4>1
      <3>2. \A place \in {key, "disk"} : query.read[place] \in {NoValue, world[place][part]}
        BY <1>2, <2>5, <2>7, <3>1 DEF ReadInv
      <3>3. world'[key][part] = world[key][part] \/ world'["disk"][part] = world["disk"][part]
        <4>1. CASE DaemonRestarts
          <5>1. world'.disk[part] = world.disk[part]
            BY <1>0, <2>2, <4>1, RestartLeaves
          <5> QED BY <5>1
        <4>2. CASE Update
          <5>1. OnlyPrepares(handler)
            <6>1. query.pc \in Nat /\ Len(<<>>) = 0
              BY DEF SettingsTypeOK
            <6>2. handler.report.looks # <<>>
              BY <2>5, <6>1
            <6> QED BY <2>7, <6>2 DEF Sound, Reports
          <5>2. world'.active = world.active
            BY <4>2, <5>1, PreparesOnly
          <5>3. world'["active"][part] = world["active"][part]
            BY <5>2
          <5> QED BY <2>2, <2>7, <5>3
        <4> QED BY <4>1, <4>2
      <3> QED BY <2>2, <2>3, <3>1, <3>2, <3>3
    <2> HIDE DEF key, part
    <2>8. ReportsAreTrue'
      BY <1>2 DEF ReportsAreTrue
    <2>9. /\ query'.pc = 0 => query'.read = [place \in Places |-> NoValue] /\ query'.answer = "none"
          /\ handler'.report.looks = handler.report.looks /\ handler'.report.tellsPending = handler.report.tellsPending
          /\ Measure(handler, query.part)' = key /\ query'.part = part
      BY <1>0, <1>2 DEF key, part, Measure
    <2> QED BY <1>0, <2>5, <2>6, <2>7, <2>8, <2>9 DEF ReadInv
  <1> QED BY <1>1, <1>2

(* A report that reads on.                                                 *)
LEMMA ReadStepReads ==
    ASSUME Sound(handler), SettingsTypeOK, ReadInv, ReportsAreTrue, SettingsNext, ReportReads
    PROVE  ReadInv' /\ ReportsAreTrue'
  <1> DEFINE part == query.part
             key == Measure(handler, part)
             looks == handler.report.looks
             places == looks[query.pc + 1]
             now    == InPart(world)
             again  == \A place \in places : query.read[place] \in {NoValue, now[place]}
             read   == [place \in Places |-> IF place \in places THEN now[place]
                                           ELSE query.read[place]]
             answer == IF ~again THEN "unknown"
                     ELSE IF query.pc + 1 < Len(looks) THEN "none"
                     ELSE IF Compared(read) THEN "same"
                     ELSE IF handler.report.tellsPending THEN "different" ELSE "unknown"
  <1>0. handler' = handler /\ world' = world
    BY DEF SettingsNext, ReportReads
  <1>1. /\ query.answer = "none" /\ query.pc < Len(looks) /\ query.pc \in Nat /\ Len(looks) \in Nat
        /\ looks # <<>> /\ looks \in Seq(SUBSET Places)
    BY DEF ReportReads, SettingsTypeOK, Sound, Reports
  <1>2. /\ query'.pc = query.pc + 1 /\ query'.read = read /\ query'.answer = answer
        /\ query'.part = part
    <2>1. query' = [query EXCEPT !.pc = @ + 1, !.read = read, !.answer = answer]
      BY DEF ReportReads
    <2> HIDE DEF read, answer
    <2> QED BY <2>1 DEF SettingsTypeOK
  <1>3. moments' = IF answer = "unknown" THEN {} ELSE moments \union {InStep(world)}
    <2>1. query'.pc # 0
      BY <1>1, <1>2
    <2>2. (InStep(world)') = InStep(world)
      BY <1>0, <1>2 DEF InStep, InPart
    <2> HIDE DEF answer
    <2> QED BY <1>1, <1>2, <2>1, <2>2 DEF SettingsNext
  <1>4. /\ part \in handler.asked /\ part \in handler.parts
        /\ key \in Live /\ key \in Places /\ "disk" \in Places
        /\ handler.report.tellsPending => key = "active"
        /\ InStep(world) <=> world[key][part] = world["disk"][part]
        /\ \A place \in Places : world[place][part] \in Values
    BY MeasureIs
  <1>5. \A place \in Places : now[place] = world[place][part] /\ now[place] # NoValue
    <2>1. NoValue \notin Values
      BY SettingAssumption
    <2> QED BY <1>4, <2>1 DEF InPart
  <1>6. ASSUME NEW i \in 1..query.pc + 1, NEW place \in looks[i] PROVE read[place] # NoValue
    <2>1. i \in 1..Len(looks)
      BY <1>1
    <2>2. place \in Places
      <3>1. looks[i] \in SUBSET Places
        BY <1>1, <2>1, ElementOfSeq
      <3> QED BY <3>1
    <2>3. CASE i = query.pc + 1
      BY <1>5, <2>2, <2>3
    <2>4. CASE i # query.pc + 1
      <3>1. i \in 1..query.pc
        BY <1>1, <2>4
      <3>2. query.read[place] # NoValue
        BY <1>1, <3>1 DEF ReadInv
      <3> QED BY <1>5, <2>2, <3>2
    <2> QED BY <2>3, <2>4
  <1> HIDE DEF now
  <1>7. ASSUME answer # "unknown", TRUE \notin moments'
        PROVE  /\ \A place \in {key, "disk"} : read[place] \in {NoValue, world[place][part]}
               /\ world[key][part] # world["disk"][part]
    <2>1. TRUE \notin moments /\ ~InStep(world)
      <3>1. InStep(world) \in BOOLEAN
        BY DEF InStep
      <3> HIDE DEF answer
      <3> QED BY <1>3, <1>7, <3>1
    <2>2. \A place \in {key, "disk"} : query.read[place] \in {NoValue, world[place][part]}
      <3>1. CASE query.pc = 0
        BY <1>4, <3>1 DEF ReadInv
      <3>2. CASE query.pc # 0
        <4>1. query.pc > 0
          BY <1>1, <3>2
        <4> HIDE DEF read, answer
        <4> QED BY <1>1, <2>1, <3>2, <4>1 DEF ReadInv
      <3> QED BY <3>1, <3>2
    <2> QED BY <1>4, <1>5, <2>1, <2>2
  <1>8. ASSUME answer # "unknown", FALSE \notin moments', handler.report.tellsPending
        PROVE  /\ \A place \in {key, "disk"} : read[place] \in {NoValue, world[place][part]}
               /\ world[key][part] = world["disk"][part]
    <2>1. FALSE \notin moments /\ InStep(world)
      <3>1. InStep(world) \in BOOLEAN
        BY DEF InStep
      <3> HIDE DEF answer
      <3> QED BY <1>3, <1>8, <3>1
    <2>2. \A place \in {key, "disk"} : query.read[place] \in {NoValue, world[place][part]}
      <3>1. CASE query.pc = 0
        BY <1>4, <3>1 DEF ReadInv
      <3>2. CASE query.pc # 0
        <4>1. query.pc > 0
          BY <1>1, <3>2
        <4> HIDE DEF read, answer
        <4> QED BY <1>1, <1>8, <2>1, <3>2, <4>1 DEF ReadInv
      <3> QED BY <3>1, <3>2
    <2> QED BY <1>4, <1>5, <2>1, <2>2
  <1>9. ReportsAreTrue'
    <2>0. ASSUME answer \in {"same", "different"}
          PROVE  \A place \in handler.report.compares : read[place] # NoValue
      <3>1. query.pc + 1 = Len(looks)
        BY <1>1, <2>0
      <3>2. \A place \in handler.report.compares : \E i \in 1..Len(looks) : place \in looks[i]
        BY <1>1 DEF Sound, Reports
      <3> HIDE DEF read
      <3> QED BY <1>6, <3>1, <3>2
    <2>a. key \in handler.report.compares /\ "disk" \in handler.report.compares
      BY <1>1, <1>4 DEF Sound, Reports
    <2>1. ASSUME answer = "same" PROVE TRUE \in moments'
      <3>1. read[key] = read["disk"]
        <4>1. Compared(read)
          BY <2>1
        <4> HIDE DEF read
        <4> QED BY <2>a, <4>1 DEF Compared
      <3>2. read[key] # NoValue /\ read["disk"] # NoValue
        BY <2>0, <2>1, <2>a
      <3> HIDE DEF read, answer
      <3> QED BY <1>7, <2>1, <3>1, <3>2
    <2>2. ASSUME answer = "different" PROVE FALSE \in moments'
      <3>1. handler.report.tellsPending /\ ~Compared(read)
        BY <2>2
      <3>2. handler.report.compares = {"active", "disk"} /\ key = "active"
        BY <1>1, <1>4, <3>1 DEF Sound, Reports
      <3>3. read[key] # read["disk"]
        <4> HIDE DEF read
        <4> QED BY <3>1, <3>2 DEF Compared
      <3>4. read[key] # NoValue /\ read["disk"] # NoValue
        BY <2>0, <2>2, <2>a
      <3> HIDE DEF read, answer
      <3> QED BY <1>8, <2>2, <3>1, <3>3, <3>4
    <2> HIDE DEF answer
    <2> QED BY <1>2, <2>1, <2>2 DEF ReportsAreTrue
  <1>10. ReadInv'
    <2>1. answer = "none" => query.pc + 1 < Len(looks)
      OBVIOUS
    <2>2. Measure(handler, query.part)' = key /\ query'.part = part /\ query'.pc # 0 /\ handler'.report.looks = looks
          /\ handler'.report.tellsPending = handler.report.tellsPending
      BY <1>0, <1>1, <1>2 DEF Measure
    <2> HIDE DEF read, answer, key, part, looks
    <2> QED BY <1>0, <1>1, <1>2, <1>6, <1>7, <1>8, <2>1, <2>2 DEF ReadInv
  <1> QED BY <1>9, <1>10

(* A report that has to give up says nothing.                              *)
LEMMA ReadStepFails ==
    ASSUME Sound(handler), SettingsTypeOK, ReadInv, ReportsAreTrue, SettingsNext, ReportFails
    PROVE  ReadInv' /\ ReportsAreTrue'
  <1>1. query'.answer = "unknown" /\ query'.pc = query.pc /\ query.pc # 0
    BY DEF ReportFails, SettingsTypeOK
  <1> QED BY <1>1 DEF ReadInv, ReportsAreTrue

(* What holds before anything is done.                                     *)
LEMMA SettingsBegin ==
    ASSUME Sound(handler), SettingsInit
    PROVE  SettingsInv /\ SavedInv
  <1> USE SoundIsMade
  <1>1. /\ Asked \in Nat /\ Len(handler.after) \in Nat /\ Len(Script) = Asked + Len(handler.after)
        /\ handler.asked \subseteq handler.parts
    BY ScriptIs DEF Made, WellFormed
  <1>2. PICK wanted \in [handler.parts -> Optional] :
         /\ PossibleRequest(wanted)
         /\ update = [pc |-> 1, wanted |-> wanted, sent |-> wanted,
                      kept |-> [place \in Places |-> Absent], answer |-> "none",
                      pending |-> FALSE]
    BY DEF SettingsInit
  <1>3. /\ update.pc = 1 /\ update.answer = "none" /\ update.sent = update.wanted /\ update.wanted = wanted
        /\ \A place \in Places, p \in handler.parts : update.kept[place][p] = NoValue
    BY <1>2 DEF Absent
  <1>4. /\ world \in [Places -> [handler.parts -> Values]] /\ PossibleWorld(world)
        /\ settingLog = [before |-> world, without |-> world, restarted |-> {}]
        /\ moments = {} /\ settingLeft \in SettingBudgets
        /\ query.pc = 0 /\ query.answer = "none" /\ query.read = [place \in Places |-> NoValue]
    BY DEF SettingsInit
  <1>5. SettingsTypeOK
    <2>1. PICK p \in handler.asked : TRUE
      <3>1. PICK p \in handler.parts : wanted[p] # NoValue
        <4>1. wanted # Absent
          BY <1>2 DEF PossibleRequest
        <4> QED BY <4>1 DEF Absent
      <3> QED BY <1>2, <3>1 DEF PossibleRequest
    <2>2. (CHOOSE part \in handler.asked : TRUE) \in handler.asked
      BY <2>1
    <2>3. Len(handler.report.looks) \in Nat
      BY LenProperties DEF Sound, Reports
    <2>4. query \in [pc : 0..Len(handler.report.looks), part : handler.asked,
                     read : [Places -> Optional],
                     answer : {"none", "same", "different", "unknown"}]
      <3>1. query \in [pc : {0}, answer : {"none"}, read : {[place \in Places |-> NoValue]},
                       part : IF settingLeft.reads > 0 THEN handler.asked
                              ELSE {CHOOSE part \in handler.asked : TRUE}]
        BY DEF SettingsInit
      <3> QED BY <2>2, <2>3, <3>1 DEF Optional
    <2>5. update \in Updates
      BY <1>1, <1>2 DEF Updates, Absent, Optional
    <2>6. settingLeft \in Budgeted
      BY <1>4, SettingAssumption
    <2> QED BY <1>4, <2>4, <2>5, <2>6 DEF SettingsTypeOK, Updates
  <1>6. \A i \in Nat : i > 0 => ~Ran(i)
    BY <1>1, <1>3 DEF Ran
  <1>7. \A i \in 1..Len(handler.after) : ~Ran(i)
    BY <1>6
  <1>8. FlowInv
    <2>1. handler \in {Handlers[name] : name \in SettingNames}
      BY DEF SettingsInit
    <2>2. Merges => update.pc <= Asked
      BY <1>1, <1>3 DEF Merges
    <2>3. \A p \in handler.parts : update.wanted[p] # NoValue => p \in handler.asked
      BY <1>2, <1>3 DEF PossibleRequest
    <2>4. \A i \in 1..Asked : ~(i < update.pc)
      BY <1>1, <1>3
    <2>5. update.pc \in Nat
      BY <1>3
    <2> QED BY <1>1, <1>3, <2>1, <2>2, <2>3, <2>4, <2>5 DEF FlowInv
  <1>9. RestInv
    <2>1. settingLog.before = world
      BY <1>4
    <2>2. \A p \in handler.parts : Live \subseteq handler.kind[p] => world.config[p] = world.active[p]
      BY <1>4 DEF PossibleWorld
    <2> QED BY <1>3, <2>1, <2>2 DEF RestInv, Places
  <1>10. NothingYet
    BY <1>4 DEF NothingYet
  <1>11. PendingInv /\ PendingTold
    BY <1>3, <1>7 DEF PendingInv, PendingTold
  <1>12. NeverTogether
    BY <1>4 DEF PossibleWorld, NeverTogether
  <1>13. ReadInv /\ ReportsAreTrue
    <2>1. 1..0 = {}
      OBVIOUS
    <2> QED BY <1>4, <2>1 DEF ReadInv, ReportsAreTrue
  <1>14. LoadedInv
    <2>1. ASSUME NEW n \in 0..Len(handler.after), LoadsFrom(handler, n)
          PROVE  /\ ~Ran(1)
                 /\ \A i \in n + 1..Len(handler.after) : ~Ran(i)
      BY <1>1, <1>6
    <2> QED BY <2>1 DEF LoadedInv
  <1>15. CommittedInv
    BY <1>6 DEF CommittedInv
  <1>16. SwitchedInv
    <2>1. SwitchesOnly(handler) => Len(handler.after) > 0
      BY <1>1, EmptySeq DEF SwitchesOnly, Sound, WellFormed
    <2> QED BY <1>1, <1>6, <2>1 DEF SwitchedInv
  <1>17. SavedInv
    <2>1. ASSUME NEW n \in 0..Len(handler.after), NEW m \in 0..Len(handler.after), SavesAt(handler, n, m)
          PROVE  /\ ~Ran(m) /\ \A i \in 1..n : ~Ran(i)
                 /\ \A i \in m + 1..Len(handler.after) : ~Ran(i)
                 /\ \A i \in n + 1..Len(handler.after) : ~Ran(i)
      <3>1. m \in Nat /\ n \in Nat /\ m > n
        BY <1>1, <2>1 DEF SavesAt
      <3> QED BY <1>1, <1>6, <3>1
    <2> QED BY <2>1 DEF SavedInv
  <1> QED BY <1>5, <1>8, <1>9, <1>10, <1>11, <1>12, <1>13, <1>14, <1>15, <1>16,
         <1>17 DEF SettingsInv

(* A report leaves the request alone.                                      *)
LEMMA OthersLeave ==
    ASSUME handler' = handler, world' = world, update' = update, settingLog' = settingLog,
           settingLeft'.failures = settingLeft.failures
    PROVE  /\ FlowInv => FlowInv'
           /\ RestInv => RestInv'
           /\ NothingYet => NothingYet'
           /\ PendingInv => PendingInv'
           /\ PendingTold => PendingTold'
           /\ NeverTogether => NeverTogether'
           /\ LoadedInv => LoadedInv'
           /\ CommittedInv => CommittedInv'
           /\ SwitchedInv => SwitchedInv'
           /\ SavedInv => SavedInv'
  <1>1. Asked' = Asked /\ (Open' <=> Open) /\ Merges' = Merges /\ Script' = Script /\ AskedParts' = AskedParts
    BY DEF Asked, Open, Merges, Script, AskedParts
  <1>2. (\A i : Ran(i)' <=> Ran(i)) /\ (\A c : Parts(c)' = Parts(c)) /\ (\A p : Taken(p)' <=> Taken(p))
    BY <1>1 DEF Ran, Parts, Taken
  <1>3. FlowInv => FlowInv'
    BY <1>1 DEF FlowInv, Excluded
  <1>4. (RestInv => RestInv') /\ (NothingYet => NothingYet')
    BY <1>1 DEF RestInv, NothingYet
  <1>5. (PendingTold => PendingTold') /\ (NeverTogether => NeverTogether')
    BY <1>1 DEF PendingTold, Differ, NeverTogether, Excluded
  <1>6. PendingInv => PendingInv'
    BY <1>1, <1>2 DEF PendingInv
  <1>7. LoadedInv => LoadedInv'
    BY <1>1, <1>2 DEF LoadedInv
  <1>8. CommittedInv => CommittedInv'
    BY <1>1, <1>2 DEF CommittedInv
  <1>9. SwitchedInv => SwitchedInv'
    BY <1>1, <1>2 DEF SwitchedInv
  <1>10. SavedInv => SavedInv'
    BY <1>1, <1>2 DEF SavedInv
  <1> QED BY <1>3, <1>4, <1>5, <1>6, <1>7, <1>8, <1>9, <1>10

(* Every step.                                                             *)
LEMMA SettingsStep ==
    ASSUME Sound(handler), SettingsInv, [SettingsNext]_settingVars
    PROVE  /\ SettingsInv'
           /\ SavedInv /\ SettingFailures <= 1 => SavedInv'
  <1>0. SettingsTypeOK /\ ReadInv /\ ReportsAreTrue
    BY DEF SettingsInv
  <1>1. CASE UNCHANGED settingVars
    <2>1. /\ handler' = handler /\ world' = world /\ update' = update /\ settingLog' = settingLog
          /\ settingLeft' = settingLeft /\ query' = query /\ moments' = moments
      BY <1>1 DEF settingVars
    <2>2. SettingsTypeOK'
      BY <1>0, <2>1 DEF SettingsTypeOK, Script
    <2>3. ReadInv' /\ ReportsAreTrue'
      BY <1>0, <2>1 DEF ReadInv, ReportsAreTrue
    <2> QED BY <2>1, <2>2, <2>3, OthersLeave DEF SettingsInv
  <1>2. CASE SettingsNext
    <2>1. handler' = handler
      BY <1>2 DEF SettingsNext
    <2>2. SettingsTypeOK'
      BY <1>0, <1>2, TypeStep
    <2>3. CASE (Update \/ DaemonRestarts) /\ query' = query
      <3>1. ReadInv' /\ ReportsAreTrue'
        BY <1>0, <1>2, <2>2, <2>3, ReadStepOthers
      <3>2. FlowInv'
        <4>1. CASE Update
          BY <2>1, <4>1, FlowStep DEF SettingsInv
        <4>2. CASE DaemonRestarts
          <5>1. update' = update
            BY <1>0, <4>2, RestartIs
          <5>2. FlowInv /\ handler' = handler
            BY <2>1 DEF SettingsInv
          <5>3. /\ Script' = Script /\ Asked' = Asked /\ Merges' = Merges
                /\ Excluded(update.sent)' = Excluded(update.sent)
            BY <5>1, <5>2 DEF Script, Asked, Merges, Excluded
          <5> QED BY <5>1, <5>2, <5>3 DEF FlowInv
        <4> QED BY <2>3, <4>1, <4>2
      <3>3. RestInv' /\ NothingYet' /\ PendingInv' /\ PendingTold' /\ NeverTogether'
        BY <2>1, <2>3, RestStep, NothingStep, PendingStep, ToldStep, TogetherStep DEF SettingsInv
      <3>4. LoadedInv' /\ CommittedInv' /\ SwitchedInv'
        BY <2>1, <2>3, LoadedStep, CommittedStep, SwitchedStep DEF SettingsInv
      <3>5. SavedInv /\ SettingFailures <= 1 => SavedInv'
        BY <1>0, <2>1, <2>3, SavedStep
      <3> QED BY <2>2, <3>1, <3>2, <3>3, <3>4, <3>5 DEF SettingsInv
    <2>4. CASE ReportReads \/ ReportFails
      <3>1. ReadInv' /\ ReportsAreTrue'
        BY <1>0, <1>2, <2>4, ReadStepReads, ReadStepFails
      <3>2. world' = world /\ update' = update /\ settingLog' = settingLog
        BY <2>4 DEF ReportReads, ReportFails
      <3>3. settingLeft'.failures = settingLeft.failures
        BY <1>0, <2>4 DEF ReportReads, ReportFails, Spends, SettingsTypeOK, Budgeted
      <3> QED BY <2>1, <2>2, <3>1, <3>2, <3>3, OthersLeave DEF SettingsInv
    <2>5. ((Update \/ DaemonRestarts) /\ query' = query) \/ ReportReads \/ ReportFails
      BY <1>2 DEF SettingsNext, DaemonRestarts
    <2> QED BY <2>3, <2>4, <2>5
  <1> QED BY <1>1, <1>2
-----------------------------------------------------------------------------
(* Once a request is accepted everything in its script is done.            *)
LEMMA AllDone ==
    ASSUME Sound(handler), FlowInv, update.answer = "accepted"
    PROVE  /\ Asked \in Nat /\ Len(handler.after) \in Nat /\ Len(handler.after) > 0 /\ Open
           /\ \A i \in 1..Len(handler.after) : Ran(i)
  <1>1. Asked \in Nat /\ Len(handler.after) \in Nat /\ Len(Script) = Asked + Len(handler.after)
    BY ScriptIs DEF Sound
  <1> QED BY <1>1 DEF FlowInv, Ran, Open

(* What is accepted is true, from what each way of making sure has found.  *)
LEMMA AcceptedFollows ==
    ASSUME Sound(handler), SettingsInv, SavedInv
    PROVE  AcceptedIsTrue
  <1> SUFFICES ASSUME update.answer = "accepted", NEW part \in handler.parts, update.sent[part] # NoValue
               PROVE  IF handler.kind[part] = Volatile
                      THEN world.active[part] = update.sent[part] \/ part \in settingLog.restarted
                      ELSE \A place \in {"disk"} \union (IF part \in handler.asked
                                                         THEN handler.kind[part] ELSE {}) :
                              world[place][part] = update.sent[part]
    BY DEF AcceptedIsTrue
  <1>0. SettingsTypeOK /\ FlowInv /\ LoadedInv /\ CommittedInv /\ SwitchedInv
    BY DEF SettingsInv
  <1>1. /\ Asked \in Nat /\ Len(handler.after) \in Nat /\ Len(handler.after) > 0 /\ Open
        /\ \A i \in 1..Len(handler.after) : Ran(i)
    BY <1>0, AllDone
  <1>2. part \in handler.asked \union Followers(handler)
    BY <1>0, SentIsAsked
  <1>3. \A i \in 1..Len(handler.after) : part \in handler.after[i].parts => part \in Parts(handler.after[i])
    BY DEF Parts
  <1>4. Live # Volatile /\ Restart # Volatile /\ Live # Restart
    <2>1. "config" \in Live /\ "config" \notin Volatile /\ "config" \in Restart /\ "active" \in Live /\ "active" \notin Restart
      BY DEF Live, Volatile, Restart
    <2> QED BY <2>1
  <1>5. handler.kind[part] \in {Live, Restart, Volatile, Checked}
    BY DEF Sound, WellFormed
  <1>6. CASE \E n, m \in 0..Len(handler.after) : SavesAt(handler, n, m)
    <2>1. PICK n \in 0..Len(handler.after), m \in 0..Len(handler.after) : SavesAt(handler, n, m)
      BY <1>6
    <2>2. SavedWith(n, m)
      BY <1>1, <2>1 DEF SavedInv, SavedWith
    <2>3. /\ handler.kind[part] \in {Live, Restart}
          /\ LooksFrom(handler, m, part, "disk")
          /\ part \in handler.asked /\ handler.kind[part] = Live => LooksFrom(handler, n, part, "active")
          /\ m \in 1..Len(handler.after)
      BY <1>1, <1>2, <2>1 DEF SavesAt
    <2>4. world.disk[part] = update.sent[part]
      <3>1. PICK i \in m + 1..Len(handler.after) : part \in handler.after[i].parts /\ Finds(handler.after[i], "disk")
        BY <2>3 DEF LooksFrom
      <3>2. i \in 1..Len(handler.after)
        BY <1>1, <2>3
      <3>3. part \in Parts(handler.after[i]) /\ Ran(i)
        BY <1>1, <1>3, <3>1, <3>2
      <3> QED BY <2>2, <3>1, <3>3 DEF SavedWith
    <2>5. ASSUME part \in handler.asked PROVE world.config[part] = update.sent[part]
      <3>1. part \in AskedParts /\ Ran(m)
        BY <1>1, <2>3, <2>5 DEF AskedParts
      <3>2. Taken(part)
        BY <2>2, <3>1 DEF SavedWith
      <3> QED BY <2>4, <3>2 DEF Taken
    <2>6. ASSUME part \in handler.asked, handler.kind[part] = Live PROVE world.active[part] = update.sent[part]
      <3>1. PICK i \in n + 1..Len(handler.after) : part \in handler.after[i].parts /\ Finds(handler.after[i], "active")
        BY <2>3, <2>6 DEF LooksFrom
      <3>2. i \in 1..Len(handler.after)
        BY <1>1
      <3>3. part \in Parts(handler.after[i]) /\ Ran(i)
        BY <1>1, <1>3, <3>1, <3>2
      <3>4. \/ world.active[part] = update.sent[part]
            \/ world.active[part] = world.disk[part]
        BY <2>2, <2>6, <3>1, <3>3 DEF SavedWith
      <3> QED BY <2>4, <3>4
    <2> QED BY <1>4, <2>3, <2>4, <2>5, <2>6 DEF Live, Restart
  <1>7. CASE \E n \in 0..Len(handler.after) : LoadsFrom(handler, n)
    <2>1. PICK n \in 0..Len(handler.after) : LoadsFrom(handler, n)
      BY <1>7
    <2>2. LoadedWith(n)
      BY <1>0, <1>1, <2>1 DEF LoadedInv, LoadedWith
    <2>3. part \in handler.asked /\ part \in AskedParts /\ handler.kind[part] = Live
      BY <1>2, <2>1 DEF LoadsFrom, Followers, AskedParts
    <2>4. world["disk"][part] = update.sent[part]
      BY <1>1, <2>2, <2>3 DEF LoadedWith
    <2>5. ASSUME NEW place \in Live PROVE world[place][part] = update.sent[part]
      <3>1. PICK i \in n + 1..Len(handler.after) : part \in handler.after[i].parts /\ Finds(handler.after[i], place)
        BY <2>1, <2>3 DEF LoadsFrom, LooksFrom
      <3>2. i \in 1..Len(handler.after)
        BY <1>1
      <3>3. part \in Parts(handler.after[i]) /\ Ran(i)
        BY <1>1, <1>3, <3>1, <3>2
      <3> QED BY <2>2, <3>1, <3>3 DEF LoadedWith
    <2> QED BY <1>4, <2>3, <2>4, <2>5
  <1>8. CASE CommitsAll(handler)
    <2>1. part \in AskedParts
      BY <1>2, <1>8 DEF CommitsAll, Followers, AskedParts
    <2>2. Ran(1)
      BY <1>1
    <2>3. \A place \in Places : world[place][part] = update.sent[part]
      BY <1>0, <1>1, <1>8, <2>1, <2>2 DEF CommittedInv
    <2>4. world["active"][part] = update.sent[part]
      BY <2>3 DEF Places
    <2>5. handler.kind[part] \subseteq Places /\ "disk" \in Places
      BY <1>5 DEF Live, Restart, Volatile, Checked, Places
    <2> QED BY <2>3, <2>4, <2>5
  <1>9. CASE SwitchesOnly(handler)
    <2>1. part \in AskedParts /\ handler.kind[part] = Volatile
      BY <1>2, <1>9 DEF SwitchesOnly, Followers, AskedParts
    <2>2. Ran(Len(handler.after))
      BY <1>1
    <2> QED BY <1>0, <1>1, <1>9, <2>1, <2>2 DEF SwitchedInv
  <1>10. handler.after # <<>>
    BY <1>1
  <1> QED BY <1>6, <1>7, <1>8, <1>9, <1>10 DEF Sound, Assures

(* A restart is announced just when the camera still has to make it.       *)
LEMMA PendingFollows ==
    ASSUME Sound(handler), SettingsInv
    PROVE  PendingIsTrue
  <1> SUFFICES ASSUME update.answer = "accepted", handler.tellsPending,
                      AskedParts \intersect settingLog.restarted = {}
               PROVE  update.pending <=> Differ(world.active, AskedParts)
    BY DEF PendingIsTrue
  <1>0. SettingsTypeOK /\ FlowInv /\ PendingInv /\ PendingTold
    BY DEF SettingsInv
  <1>1. /\ Asked \in Nat /\ Len(handler.after) \in Nat /\ Len(handler.after) > 0 /\ Open
        /\ \A i \in 1..Len(handler.after) : Ran(i)
    BY <1>0, AllDone
  <1>2. ASSUME NEW p \in AskedParts PROVE world.active[p] = update.kept.active[p]
    <2>1. handler.after # <<>>
      BY <1>1
    <2>2. p \in handler.asked /\ update.sent[p] # NoValue
      BY DEF AskedParts
    <2>3. PICK j \in 1..Len(handler.after) :
             /\ handler.after[j].do = "look" /\ p \in handler.after[j].parts
             /\ Tells(handler.after[j], "active", "unchanged")
             /\ \A k \in j + 1..Len(handler.after) :
                  p \in handler.after[k].parts /\ "active" \in DOMAIN handler.after[k].must =>
                      handler.after[k].do = "look" /\ Tells(handler.after[k], "active", "unchanged")
      BY <2>1, <2>2 DEF Sound, Announces
    <2>4. p \in Parts(handler.after[j]) /\ Ran(j)
      BY <1>1, <2>2, <2>3 DEF Parts
    <2>5. \/ p \in settingLog.restarted
          \/ world.active[p] = update.kept.active[p]
          \/ Loose(j, p)
      BY <1>0, <1>1, <2>3, <2>4 DEF PendingInv, Loose
    <2>6. ~Loose(j, p)
      BY <2>3 DEF Loose
    <2> QED BY <2>5, <2>6
  <1>3. update.pending <=> Differ(update.kept.active, AskedParts)
    BY <1>0 DEF PendingTold
  <1> QED BY <1>2, <1>3 DEF Differ

(* The invariant says what the answers promise.                            *)
LEMMA AnswersFollow ==
    ASSUME Sound(handler), SettingsInv, SavedInv
    PROVE  AnswersAreTrue
  <1>1. RefusalsChangeNothing
    BY DEF RefusalsChangeNothing, SettingsInv, NothingYet
  <1>2. TheRestIsKept
    <2> SUFFICES ASSUME NEW part \in handler.parts \ Followers(handler), update.wanted[part] = NoValue
                 PROVE  world.disk[part] \in {settingLog.before[place][part] : place \in {"config", "disk"}}
      BY DEF TheRestIsKept, Followers
    <2>1. world.disk[part] \in {settingLog.before.disk[part], settingLog.before.config[part]}
      BY DEF SettingsInv, RestInv
    <2> QED BY <2>1
  <1> QED BY <1>1, <1>2, AcceptedFollows, PendingFollows DEF AnswersAreTrue

-----------------------------------------------------------------------------
(* What the commands are.                                                  *)
LEMMA CommandsAre ==
    /\ \A p, m : /\ Look(p, m).do = "look" /\ Look(p, m).parts = {p} /\ Look(p, m).places = {}
                 /\ Look(p, m).must = m /\ Look(p, m).always = FALSE
    /\ \A P, m : /\ LookAlways(P, m).do = "look" /\ LookAlways(P, m).parts = P
                 /\ LookAlways(P, m).places = {} /\ LookAlways(P, m).must = m /\ LookAlways(P, m).always = TRUE
    /\ \A p, S, m : /\ Set(p, S, m).do = "set" /\ Set(p, S, m).parts = {p} /\ Set(p, S, m).places = S
                    /\ Set(p, S, m).must = m /\ Set(p, S, m).always = FALSE
    /\ \A P, S, m : /\ SetAll(P, S, m).do = "set" /\ SetAll(P, S, m).parts = P /\ SetAll(P, S, m).places = S
                    /\ SetAll(P, S, m).must = m /\ SetAll(P, S, m).always = FALSE
    /\ Save.do = "save" /\ Save.parts = {} /\ Save.places = {} /\ Save.must = Nothing /\ Save.always = TRUE
    /\ \A P, S : /\ Commit(P, S).do = "commit" /\ Commit(P, S).parts = P /\ Commit(P, S).places = S
                 /\ Commit(P, S).must = Nothing /\ Commit(P, S).always = FALSE
    /\ \A q : /\ Merge(q).do = "merge" /\ Merge(q).parts = {} /\ Merge(q).places = {q}
              /\ Merge(q).must = Nothing /\ Merge(q).always = FALSE
    /\ \A q : /\ Compare(q).do = "compare" /\ Compare(q).parts = {} /\ Compare(q).places = {q}
              /\ Compare(q).must = Nothing /\ Compare(q).always = FALSE
  BY DEF Look, LookAlways, Set, SetAll, Save, Commit, Merge, Compare, Command

(* What a reply has to say.                                                *)
LEMMA MustsAre ==
    /\ Nothing \in Musts /\ DOMAIN Nothing = {}
    /\ \A S \in SUBSET Places :
         /\ Anything(S) \in Musts /\ Wanted(S) \in Musts /\ Unchanged(S) \in Musts /\ Waits(S) \in Musts
    /\ \A S : /\ DOMAIN Anything(S) = S /\ DOMAIN Wanted(S) = S
              /\ DOMAIN Unchanged(S) = S /\ DOMAIN Waits(S) = S
              /\ \A place \in S : /\ Anything(S)[place] = "any" /\ Wanted(S)[place] = "wanted"
                                  /\ Unchanged(S)[place] = "unchanged" /\ Waits(S)[place] = "waits"
  <1>1. \A S \in SUBSET Places : \A f \in [S -> {"any", "wanted", "unchanged", "waits"}] : f \in Musts
    BY DEF Musts
  <1>2. \A S : DOMAIN Nothing = {} /\ DOMAIN Anything(S) = S /\ DOMAIN Wanted(S) = S
              /\ DOMAIN Unchanged(S) = S /\ DOMAIN Waits(S) = S
              /\ \A place \in S : /\ Anything(S)[place] = "any" /\ Wanted(S)[place] = "wanted"
                                  /\ Unchanged(S)[place] = "unchanged" /\ Waits(S)[place] = "waits"
    BY DEF Nothing, Anything, Wanted, Unchanged, Waits
  <1>3. \A S \in SUBSET Places :
         /\ Anything(S) \in Musts /\ Wanted(S) \in Musts /\ Unchanged(S) \in Musts /\ Waits(S) \in Musts
    BY <1>1 DEF Anything, Wanted, Unchanged, Waits
  <1>4. Nothing \in Musts
    <2>1. Nothing \in [{} -> {"any", "wanted", "unchanged", "waits"}]
      BY DEF Nothing
    <2>2. {} \in SUBSET Places
      OBVIOUS
    <2> QED BY <1>1, <2>1, <2>2
  <1> QED BY <1>2, <1>3, <1>4

(* The commands about some parts.                                          *)
LEMMA CommandsIn ==
    ASSUME NEW parts, NEW m \in Musts, NEW P \in SUBSET parts, NEW S \in SUBSET Places, NEW q \in Places
    PROVE  /\ \A p \in parts : Look(p, m) \in Commands(parts) /\ Set(p, S, m) \in Commands(parts)
           /\ LookAlways(P, m) \in Commands(parts) /\ SetAll(P, S, m) \in Commands(parts)
           /\ Save \in Commands(parts) /\ Commit(P, S) \in Commands(parts)
           /\ Merge(q) \in Commands(parts) /\ Compare(q) \in Commands(parts)
  <1>1. Nothing \in Musts
    BY MustsAre
  <1> QED BY <1>1 DEF Look, LookAlways, Set, SetAll, Save, Commit, Merge, Compare, Command, Commands

(* The kinds of settings are different.                                    *)
LEMMA KindsDiffer ==
    Live # Restart /\ Volatile # Restart /\ Checked # Restart /\ Live # Volatile /\ Live # Checked
  <1>1. /\ "active" \in Live /\ "active" \notin Restart /\ "active" \in Volatile /\ "active" \in Checked
        /\ "config" \in Live /\ "config" \notin Volatile /\ "disk" \in Checked /\ "disk" \notin Live
    BY DEF Live, Restart, Volatile, Checked, Places
  <1> QED BY <1>1

(* Handlers of settings that are live, and report of them plainly.         *)
LiveFields(h) ==
    /\ h.asked \in SUBSET h.parts /\ h.kind = [part \in h.parts |-> Live]
    /\ h.follows = {} /\ h.owners = "one" /\ h.tellsPending = FALSE
    /\ h.report \in {NoReport, SavedReport}
Typed(h) == h.before \in Seq(Commands(h.parts)) /\ h.after \in Seq(Commands(h.parts))

(* The two plain reports read what they compare.                           *)
LEMMA PlainReports ==
    ASSUME NEW h, \A part \in h.asked : h.kind[part] # Restart, h.report \in {NoReport, SavedReport}
    PROVE  Reports(h)
  <1>1. \A part \in h.asked : Measure(h, part) = "active"
    BY DEF Measure
  <1>2. CASE h.report = NoReport
    <2>1. /\ h.report.looks = <<>> /\ h.report.compares = {"active", "disk"}
          /\ h.report.looks \in Seq(SUBSET Places)
      BY <1>2 DEF NoReport, Report
    <2> QED BY <2>1 DEF Reports, Places
  <1>3. CASE h.report = SavedReport
    <2>1. /\ h.report.looks = <<{"active"}, {"disk"}>> /\ h.report.compares = {"active", "disk"}
          /\ h.report.tellsPending = FALSE
      BY <1>3 DEF SavedReport, Report
    <2>2. /\ h.report.looks \in Seq(SUBSET Places) /\ Len(h.report.looks) = 2
          /\ h.report.looks[1] = {"active"} /\ h.report.looks[2] = {"disk"}
      BY <2>1 DEF Places
    <2> QED BY <1>1, <2>1, <2>2 DEF Reports, Places
  <1> QED BY <1>2, <1>3

(* A handler that saves what is live is sound.                             *)
LEMMA LiveSaver ==
    ASSUME NEW h, LiveFields(h), Typed(h), Asks(h), Does(h), Excludes(h),
           NEW n, NEW m, SavesAt(h, n, m)
    PROVE  Sound(h)
  <1>1. WellFormed(h)
    BY DEF LiveFields, Typed, WellFormed
  <1>2. Reports(h)
    BY KindsDiffer, PlainReports DEF LiveFields
  <1>3. Announces(h)
    BY DEF LiveFields, Announces
  <1>4. n \in 0..Len(h.after) /\ m \in 0..Len(h.after)
    <2>1. Len(h.after) \in Nat
      BY LenProperties DEF Typed
    <2> QED BY <2>1 DEF SavesAt
  <1>5. Assures(h)
    BY <1>4 DEF Assures
  <1> QED BY <1>1, <1>2, <1>3, <1>5 DEF Sound

(* Live settings of the streams.                                           *)
LEMMA GopIsSound ==
    Sound(update_gop)
  <1> DEFINE h == update_gop
  <1>1. LiveFields(h) /\ h.parts = {"main", "sub"} /\ h.asked = {"main", "sub"} /\ h.excludes = {}
    BY KindsDiffer DEF LiveFields, Handler, update_gop, LiveStreams, EachStream, ForBoth,
           Streams, stream_gop_observation, stream_disk_gop, gop_report
  <1>2. /\ Len(h.before) = 2
        /\ h.before[1] = Look("main", Anything({"active"}))
        /\ h.before[2] = Look("sub", Anything({"active"}))
    BY DEF Handler, update_gop, LiveStreams, EachStream, ForBoth, Streams,
           stream_gop_observation, stream_disk_gop, gop_report
  <1>3. /\ Len(h.after) = 9
        /\ h.after[1] = Set("main", Live, Nothing)
        /\ h.after[2] = Look("main", Wanted({"active"}))
        /\ h.after[3] = Set("sub", Live, Nothing)
        /\ h.after[4] = Look("sub", Wanted({"active"}))
        /\ h.after[5] = Save
        /\ h.after[6] = Look("main", Wanted({"disk"}))
        /\ h.after[7] = Look("main", Wanted({"active"}))
        /\ h.after[8] = Look("sub", Wanted({"disk"}))
        /\ h.after[9] = Look("sub", Wanted({"active"}))
    BY DEF Handler, update_gop, LiveStreams, EachStream, ForBoth, Streams,
           stream_gop_observation, stream_disk_gop, gop_report
  <1>4. Typed(h)
    <2>1. /\ Look("main", Anything({"active"})) \in Commands({"main", "sub"})
          /\ Look("sub", Anything({"active"})) \in Commands({"main", "sub"})
          /\ Set("main", Live, Nothing) \in Commands({"main", "sub"})
          /\ Look("main", Wanted({"active"})) \in Commands({"main", "sub"})
          /\ Set("sub", Live, Nothing) \in Commands({"main", "sub"})
          /\ Look("sub", Wanted({"active"})) \in Commands({"main", "sub"})
          /\ Save \in Commands({"main", "sub"})
          /\ Look("main", Wanted({"disk"})) \in Commands({"main", "sub"})
          /\ Look("sub", Wanted({"disk"})) \in Commands({"main", "sub"})
      BY MustsAre, CommandsIn DEF Places, Live
    <2> QED BY <1>1, <2>1 DEF Typed, Handler, update_gop, LiveStreams, EachStream, ForBoth,
           Streams, stream_gop_observation, stream_disk_gop, gop_report
  <1> HIDE DEF h
  <1>5. Asks(h) /\ Does(h)
    BY <1>1, <1>2, <1>3, CommandsAre DEF Asks, Does, Live
  <1>6. SavesAt(h, 4, 5)
    <2>1. /\ 4 \in 0..Len(h.after) /\ 5 \in 4 + 1..Len(h.after) /\ h.after[5].do = "save"
          /\ \A i \in 1..4 : h.after[i].do \in {"set", "look"}
          /\ \A i \in 4 + 1..Len(h.after) : i # 5 => h.after[i].do = "look"
      BY <1>3, CommandsAre
    <2>2. \A p \in h.asked : \E i \in 1..4 :
            h.after[i].do = "set" /\ p \in h.after[i].parts /\ "config" \in h.after[i].places
      BY <1>1, <1>3, CommandsAre DEF Live
    <2>3. /\ Finds(h.after[6], "disk") /\ Finds(h.after[8], "disk")
          /\ Finds(h.after[7], "active") /\ Finds(h.after[9], "active")
      BY <1>3, CommandsAre, MustsAre DEF Finds, Tells, Live
    <2>4. \A p \in h.asked \union Followers(h) : LooksFrom(h, 5, p, "disk")
      BY <1>1, <1>3, <2>3, CommandsAre DEF LooksFrom, Followers, LiveFields
    <2>5. \A p \in h.asked : LooksFrom(h, 4, p, "active")
      BY <1>1, <1>3, <2>3, CommandsAre DEF LooksFrom
    <2> QED BY <1>1, <2>1, <2>2, <2>4, <2>5 DEF SavesAt, LiveFields
  <1> QED BY <1>1, <1>4, <1>5, <1>6, LiveSaver DEF Excludes, h

(* The other settings of the streams are handled likewise.                 *)
LEMMA LiveStreamsAreSound ==
    Sound(update_encoding) /\ Sound(update_codec) /\ Sound(update_profile)
  <1>1. update_encoding = update_gop /\ update_codec = update_gop /\ update_profile = update_gop
    BY DEF update_gop, update_encoding, update_codec, update_profile, LiveStreams,
           stream_gop_observation, stream_disk_gop, gop_report,
           stream_encoding_observation, stream_disk_encoding, encoding_report,
           stream_codec_observation, stream_disk_codec, codec_report,
           stream_profile_observation, stream_disk_profile, profile_report
  <1> QED BY <1>1, GopIsSound

(* The detector and one field more.                                        *)
LEMMA SensitivityIsSound ==
    Sound(set_motion_sensitivity)
  <1> DEFINE h == set_motion_sensitivity
  <1>1. LiveFields(h) /\ h.parts = {"enabled", "sensitivity"} /\ h.asked = {"enabled", "sensitivity"} /\ h.excludes = {}
    BY KindsDiffer DEF LiveFields, Handler, Detector, DetectorBefore, DetectorSwitch,
           DetectorSeen, DetectorSaved, motion_config, motion_config_observation,
           motion_disk_enabled, set_motion_sensitivity, motion_sensitivity,
           motion_disk_sensitivity
  <1>2. /\ Len(h.before) = 2
        /\ h.before[1] = Look("enabled", Anything({"active"}))
        /\ h.before[2] = Look("sensitivity", Anything({"active"}))
    BY DEF Handler, Detector, DetectorBefore, DetectorSwitch, DetectorSeen, DetectorSaved,
           motion_config, motion_config_observation, motion_disk_enabled, set_motion_sensitivity,
           motion_sensitivity, motion_disk_sensitivity
  <1>3. /\ Len(h.after) = 7
        /\ h.after[1] = Set("enabled", Live, Nothing)
        /\ h.after[2] = Set("sensitivity", Live, Nothing)
        /\ h.after[3] = Look("enabled", Wanted({"active"}))
        /\ h.after[4] = Look("sensitivity", Wanted({"active"}))
        /\ h.after[5] = Save
        /\ h.after[6] = Look("enabled", Wanted({"disk"}))
        /\ h.after[7] = Look("sensitivity", Wanted({"disk"}))
    BY DEF Handler, Detector, DetectorBefore, DetectorSwitch, DetectorSeen, DetectorSaved,
           motion_config, motion_config_observation, motion_disk_enabled, set_motion_sensitivity,
           motion_sensitivity, motion_disk_sensitivity
  <1>4. Typed(h)
    <2>1. /\ Look("enabled", Anything({"active"})) \in Commands({"enabled", "sensitivity"})
          /\ Look("sensitivity", Anything({"active"})) \in Commands({"enabled", "sensitivity"})
          /\ Set("enabled", Live, Nothing) \in Commands({"enabled", "sensitivity"})
          /\ Set("sensitivity", Live, Nothing) \in Commands({"enabled", "sensitivity"})
          /\ Look("enabled", Wanted({"active"})) \in Commands({"enabled", "sensitivity"})
          /\ Look("sensitivity", Wanted({"active"})) \in Commands({"enabled", "sensitivity"})
          /\ Save \in Commands({"enabled", "sensitivity"})
          /\ Look("enabled", Wanted({"disk"})) \in Commands({"enabled", "sensitivity"})
          /\ Look("sensitivity", Wanted({"disk"})) \in Commands({"enabled", "sensitivity"})
      BY MustsAre, CommandsIn DEF Places, Live
    <2> QED BY <1>1, <2>1 DEF Typed, Handler, Detector, DetectorBefore, DetectorSwitch,
           DetectorSeen, DetectorSaved, motion_config, motion_config_observation,
           motion_disk_enabled, set_motion_sensitivity, motion_sensitivity,
           motion_disk_sensitivity
  <1> HIDE DEF h
  <1>5. Asks(h) /\ Does(h)
    BY <1>1, <1>2, <1>3, CommandsAre DEF Asks, Does, Live
  <1>6. SavesAt(h, 2, 5)
    <2>1. /\ 2 \in 0..Len(h.after) /\ 5 \in 2 + 1..Len(h.after) /\ h.after[5].do = "save"
          /\ \A i \in 1..2 : h.after[i].do \in {"set", "look"}
          /\ \A i \in 2 + 1..Len(h.after) : i # 5 => h.after[i].do = "look"
      BY <1>3, CommandsAre
    <2>2. \A p \in h.asked : \E i \in 1..2 :
            h.after[i].do = "set" /\ p \in h.after[i].parts /\ "config" \in h.after[i].places
      BY <1>1, <1>3, CommandsAre DEF Live
    <2>3. /\ Finds(h.after[6], "disk") /\ Finds(h.after[7], "disk")
          /\ Finds(h.after[3], "active") /\ Finds(h.after[4], "active")
      BY <1>3, CommandsAre, MustsAre DEF Finds, Tells, Live
    <2>4. \A p \in h.asked \union Followers(h) : LooksFrom(h, 5, p, "disk")
      BY <1>1, <1>3, <2>3, CommandsAre DEF LooksFrom, Followers, LiveFields
    <2>5. \A p \in h.asked : LooksFrom(h, 2, p, "active")
      BY <1>1, <1>3, <2>3, CommandsAre DEF LooksFrom
    <2> QED BY <1>1, <2>1, <2>2, <2>4, <2>5 DEF SavesAt, LiveFields
  <1> QED BY <1>1, <1>4, <1>5, <1>6, LiveSaver DEF Excludes, h

(* The detector and how many frames it skips.                              *)
LEMMA SkipIsSound ==
    Sound(set_motion_skip_frames)
  <1> DEFINE h == set_motion_skip_frames
  <1>1. LiveFields(h) /\ h.parts = {"enabled", "skip"} /\ h.asked = {"enabled", "skip"} /\ h.excludes = {}
    BY KindsDiffer DEF LiveFields, Handler, Detector, DetectorBefore, DetectorSwitch,
           DetectorSeen, DetectorSaved, motion_config, motion_config_observation,
           motion_disk_enabled, set_motion_skip_frames, motion_skip_frame_count,
           motion_disk_skip_frame_count
  <1>2. /\ Len(h.before) = 2
        /\ h.before[1] = Look("enabled", Anything({"active"}))
        /\ h.before[2] = Look("skip", Anything({"active"}))
    BY DEF Handler, Detector, DetectorBefore, DetectorSwitch, DetectorSeen, DetectorSaved,
           motion_config, motion_config_observation, motion_disk_enabled, set_motion_skip_frames,
           motion_skip_frame_count, motion_disk_skip_frame_count
  <1>3. /\ Len(h.after) = 7
        /\ h.after[1] = Set("enabled", Live, Nothing)
        /\ h.after[2] = Set("skip", Live, Nothing)
        /\ h.after[3] = Look("enabled", Wanted({"active"}))
        /\ h.after[4] = Look("skip", Wanted({"active"}))
        /\ h.after[5] = Save
        /\ h.after[6] = Look("enabled", Wanted({"disk"}))
        /\ h.after[7] = Look("skip", Wanted({"disk"}))
    BY DEF Handler, Detector, DetectorBefore, DetectorSwitch, DetectorSeen, DetectorSaved,
           motion_config, motion_config_observation, motion_disk_enabled, set_motion_skip_frames,
           motion_skip_frame_count, motion_disk_skip_frame_count
  <1>4. Typed(h)
    <2>1. /\ Look("enabled", Anything({"active"})) \in Commands({"enabled", "skip"})
          /\ Look("skip", Anything({"active"})) \in Commands({"enabled", "skip"})
          /\ Set("enabled", Live, Nothing) \in Commands({"enabled", "skip"})
          /\ Set("skip", Live, Nothing) \in Commands({"enabled", "skip"})
          /\ Look("enabled", Wanted({"active"})) \in Commands({"enabled", "skip"})
          /\ Look("skip", Wanted({"active"})) \in Commands({"enabled", "skip"})
          /\ Save \in Commands({"enabled", "skip"})
          /\ Look("enabled", Wanted({"disk"})) \in Commands({"enabled", "skip"})
          /\ Look("skip", Wanted({"disk"})) \in Commands({"enabled", "skip"})
      BY MustsAre, CommandsIn DEF Places, Live
    <2> QED BY <1>1, <2>1 DEF Typed, Handler, Detector, DetectorBefore, DetectorSwitch,
           DetectorSeen, DetectorSaved, motion_config, motion_config_observation,
           motion_disk_enabled, set_motion_skip_frames, motion_skip_frame_count,
           motion_disk_skip_frame_count
  <1> HIDE DEF h
  <1>5. Asks(h) /\ Does(h)
    BY <1>1, <1>2, <1>3, CommandsAre DEF Asks, Does, Live
  <1>6. SavesAt(h, 2, 5)
    <2>1. /\ 2 \in 0..Len(h.after) /\ 5 \in 2 + 1..Len(h.after) /\ h.after[5].do = "save"
          /\ \A i \in 1..2 : h.after[i].do \in {"set", "look"}
          /\ \A i \in 2 + 1..Len(h.after) : i # 5 => h.after[i].do = "look"
      BY <1>3, CommandsAre
    <2>2. \A p \in h.asked : \E i \in 1..2 :
            h.after[i].do = "set" /\ p \in h.after[i].parts /\ "config" \in h.after[i].places
      BY <1>1, <1>3, CommandsAre DEF Live
    <2>3. /\ Finds(h.after[6], "disk") /\ Finds(h.after[7], "disk")
          /\ Finds(h.after[3], "active") /\ Finds(h.after[4], "active")
      BY <1>3, CommandsAre, MustsAre DEF Finds, Tells, Live
    <2>4. \A p \in h.asked \union Followers(h) : LooksFrom(h, 5, p, "disk")
      BY <1>1, <1>3, <2>3, CommandsAre DEF LooksFrom, Followers, LiveFields
    <2>5. \A p \in h.asked : LooksFrom(h, 2, p, "active")
      BY <1>1, <1>3, <2>3, CommandsAre DEF LooksFrom
    <2> QED BY <1>1, <2>1, <2>2, <2>4, <2>5 DEF SavesAt, LiveFields
  <1> QED BY <1>1, <1>4, <1>5, <1>6, LiveSaver DEF Excludes, h

(* The detector and how long motion lasts.                                 *)
LEMMA LifecycleIsSound ==
    Sound(set_motion_lifecycle)
  <1> DEFINE h == set_motion_lifecycle
  <1>1. LiveFields(h) /\ h.parts = {"enabled", "lifecycle"} /\ h.asked = {"enabled", "lifecycle"} /\ h.excludes = {}
    BY KindsDiffer DEF LiveFields, Handler, Detector, DetectorBefore, DetectorSwitch,
           DetectorSeen, DetectorSaved, motion_config, motion_config_observation,
           motion_disk_enabled, set_motion_lifecycle, motion_lifecycle_config,
           motion_disk_lifecycle
  <1>2. /\ Len(h.before) = 1
        /\ h.before[1] = Look("enabled", Anything({"active"}))
    BY DEF Handler, Detector, DetectorBefore, DetectorSwitch, DetectorSeen, DetectorSaved,
           motion_config, motion_config_observation, motion_disk_enabled, set_motion_lifecycle,
           motion_lifecycle_config, motion_disk_lifecycle
  <1>3. /\ Len(h.after) = 7
        /\ h.after[1] = Set("enabled", Live, Nothing)
        /\ h.after[2] = Set("lifecycle", Live, Nothing)
        /\ h.after[3] = Look("lifecycle", Wanted({"active"}))
        /\ h.after[4] = Look("enabled", Wanted({"active"}))
        /\ h.after[5] = Save
        /\ h.after[6] = Look("enabled", Wanted({"disk"}))
        /\ h.after[7] = Look("lifecycle", Wanted({"disk"}))
    BY DEF Handler, Detector, DetectorBefore, DetectorSwitch, DetectorSeen, DetectorSaved,
           motion_config, motion_config_observation, motion_disk_enabled, set_motion_lifecycle,
           motion_lifecycle_config, motion_disk_lifecycle
  <1>4. Typed(h)
    <2>1. /\ Look("enabled", Anything({"active"})) \in Commands({"enabled", "lifecycle"})
          /\ Set("enabled", Live, Nothing) \in Commands({"enabled", "lifecycle"})
          /\ Set("lifecycle", Live, Nothing) \in Commands({"enabled", "lifecycle"})
          /\ Look("lifecycle", Wanted({"active"})) \in Commands({"enabled", "lifecycle"})
          /\ Look("enabled", Wanted({"active"})) \in Commands({"enabled", "lifecycle"})
          /\ Save \in Commands({"enabled", "lifecycle"})
          /\ Look("enabled", Wanted({"disk"})) \in Commands({"enabled", "lifecycle"})
          /\ Look("lifecycle", Wanted({"disk"})) \in Commands({"enabled", "lifecycle"})
      BY MustsAre, CommandsIn DEF Places, Live
    <2> QED BY <1>1, <2>1 DEF Typed, Handler, Detector, DetectorBefore, DetectorSwitch,
           DetectorSeen, DetectorSaved, motion_config, motion_config_observation,
           motion_disk_enabled, set_motion_lifecycle, motion_lifecycle_config,
           motion_disk_lifecycle
  <1> HIDE DEF h
  <1>5. Asks(h) /\ Does(h)
    BY <1>1, <1>2, <1>3, CommandsAre DEF Asks, Does, Live
  <1>6. SavesAt(h, 2, 5)
    <2>1. /\ 2 \in 0..Len(h.after) /\ 5 \in 2 + 1..Len(h.after) /\ h.after[5].do = "save"
          /\ \A i \in 1..2 : h.after[i].do \in {"set", "look"}
          /\ \A i \in 2 + 1..Len(h.after) : i # 5 => h.after[i].do = "look"
      BY <1>3, CommandsAre
    <2>2. \A p \in h.asked : \E i \in 1..2 :
            h.after[i].do = "set" /\ p \in h.after[i].parts /\ "config" \in h.after[i].places
      BY <1>1, <1>3, CommandsAre DEF Live
    <2>3. /\ Finds(h.after[6], "disk") /\ Finds(h.after[7], "disk")
          /\ Finds(h.after[3], "active") /\ Finds(h.after[4], "active")
      BY <1>3, CommandsAre, MustsAre DEF Finds, Tells, Live
    <2>4. \A p \in h.asked \union Followers(h) : LooksFrom(h, 5, p, "disk")
      BY <1>1, <1>3, <2>3, CommandsAre DEF LooksFrom, Followers, LiveFields
    <2>5. \A p \in h.asked : LooksFrom(h, 2, p, "active")
      BY <1>1, <1>3, <2>3, CommandsAre DEF LooksFrom
    <2> QED BY <1>1, <2>1, <2>2, <2>4, <2>5 DEF SavesAt, LiveFields
  <1> QED BY <1>1, <1>4, <1>5, <1>6, LiveSaver DEF Excludes, h

(* The detector and what it starts.                                        *)
LEMMA ActionsAreSound ==
    Sound(set_motion_actions)
  <1> DEFINE h == set_motion_actions
  <1>1. LiveFields(h) /\ h.parts = {"enabled", "actions"} /\ h.asked = {"enabled", "actions"} /\ h.excludes = {}
    BY KindsDiffer DEF LiveFields, Handler, Detector, DetectorBefore, DetectorSwitch,
           DetectorSeen, DetectorSaved, motion_config, motion_config_observation,
           motion_disk_enabled, set_motion_actions, motion_action_config, motion_disk_actions
  <1>2. /\ Len(h.before) = 2
        /\ h.before[1] = Look("enabled", Anything({"active"}))
        /\ h.before[2] = Look("actions", Anything({"active"}))
    BY DEF Handler, Detector, DetectorBefore, DetectorSwitch, DetectorSeen, DetectorSaved,
           motion_config, motion_config_observation, motion_disk_enabled, set_motion_actions,
           motion_action_config, motion_disk_actions
  <1>3. /\ Len(h.after) = 8
        /\ h.after[1] = Set("enabled", Live, Nothing)
        /\ h.after[2] = Set("actions", Live, Nothing)
        /\ h.after[3] = Look("actions", Wanted({"active"}))
        /\ h.after[4] = Look("enabled", Wanted({"active"}))
        /\ h.after[5] = Save
        /\ h.after[6] = Look("enabled", Wanted({"disk"}))
        /\ h.after[7] = Look("actions", Wanted({"disk"}))
        /\ h.after[8] = Look("actions", Wanted({"active"}))
    BY DEF Handler, Detector, DetectorBefore, DetectorSwitch, DetectorSeen, DetectorSaved,
           motion_config, motion_config_observation, motion_disk_enabled, set_motion_actions,
           motion_action_config, motion_disk_actions
  <1>4. Typed(h)
    <2>1. /\ Look("enabled", Anything({"active"})) \in Commands({"enabled", "actions"})
          /\ Look("actions", Anything({"active"})) \in Commands({"enabled", "actions"})
          /\ Set("enabled", Live, Nothing) \in Commands({"enabled", "actions"})
          /\ Set("actions", Live, Nothing) \in Commands({"enabled", "actions"})
          /\ Look("actions", Wanted({"active"})) \in Commands({"enabled", "actions"})
          /\ Look("enabled", Wanted({"active"})) \in Commands({"enabled", "actions"})
          /\ Save \in Commands({"enabled", "actions"})
          /\ Look("enabled", Wanted({"disk"})) \in Commands({"enabled", "actions"})
          /\ Look("actions", Wanted({"disk"})) \in Commands({"enabled", "actions"})
      BY MustsAre, CommandsIn DEF Places, Live
    <2> QED BY <1>1, <2>1 DEF Typed, Handler, Detector, DetectorBefore, DetectorSwitch,
           DetectorSeen, DetectorSaved, motion_config, motion_config_observation,
           motion_disk_enabled, set_motion_actions, motion_action_config, motion_disk_actions
  <1> HIDE DEF h
  <1>5. Asks(h) /\ Does(h)
    BY <1>1, <1>2, <1>3, CommandsAre DEF Asks, Does, Live
  <1>6. SavesAt(h, 2, 5)
    <2>1. /\ 2 \in 0..Len(h.after) /\ 5 \in 2 + 1..Len(h.after) /\ h.after[5].do = "save"
          /\ \A i \in 1..2 : h.after[i].do \in {"set", "look"}
          /\ \A i \in 2 + 1..Len(h.after) : i # 5 => h.after[i].do = "look"
      BY <1>3, CommandsAre
    <2>2. \A p \in h.asked : \E i \in 1..2 :
            h.after[i].do = "set" /\ p \in h.after[i].parts /\ "config" \in h.after[i].places
      BY <1>1, <1>3, CommandsAre DEF Live
    <2>3. /\ Finds(h.after[6], "disk") /\ Finds(h.after[7], "disk")
          /\ Finds(h.after[3], "active") /\ Finds(h.after[4], "active") /\ Finds(h.after[8], "active")
      BY <1>3, CommandsAre, MustsAre DEF Finds, Tells, Live
    <2>4. \A p \in h.asked \union Followers(h) : LooksFrom(h, 5, p, "disk")
      BY <1>1, <1>3, <2>3, CommandsAre DEF LooksFrom, Followers, LiveFields
    <2>5. \A p \in h.asked : LooksFrom(h, 2, p, "active")
      BY <1>1, <1>3, <2>3, CommandsAre DEF LooksFrom
    <2> QED BY <1>1, <2>1, <2>2, <2>4, <2>5 DEF SavesAt, LiveFields
  <1> QED BY <1>1, <1>4, <1>5, <1>6, LiveSaver DEF Excludes, h

(* The detector and its region.                                            *)
LEMMA RegionIsSound ==
    Sound(set_motion_roi)
  <1> DEFINE h == set_motion_roi
  <1>1. LiveFields(h) /\ h.parts = {"enabled", "region"} /\ h.asked = {"enabled", "region"} /\ h.excludes = {}
    BY KindsDiffer DEF LiveFields, Handler, Detector, DetectorBefore, DetectorSwitch,
           DetectorSeen, DetectorSaved, motion_config, motion_config_observation,
           motion_disk_enabled, set_motion_roi, apply_motion_roi, motion_roi_observation,
           motion_disk_roi
  <1>2. /\ Len(h.before) = 2
        /\ h.before[1] = Look("enabled", Anything({"active"}))
        /\ h.before[2] = Look("region", Anything({"active"}))
    BY DEF Handler, Detector, DetectorBefore, DetectorSwitch, DetectorSeen, DetectorSaved,
           motion_config, motion_config_observation, motion_disk_enabled, set_motion_roi,
           apply_motion_roi, motion_roi_observation, motion_disk_roi
  <1>3. /\ Len(h.after) = 9
        /\ h.after[1] = Set("region", Live, Nothing)
        /\ h.after[2] = Set("enabled", Live, Nothing)
        /\ h.after[3] = Look("enabled", Wanted({"active"}))
        /\ h.after[4] = Look("region", Wanted({"active"}))
        /\ h.after[5] = Save
        /\ h.after[6] = Look("enabled", Wanted({"disk"}))
        /\ h.after[7] = Look("region", Wanted({"disk"}))
        /\ h.after[8] = Look("enabled", Wanted({"active"}))
        /\ h.after[9] = Look("region", Wanted({"active"}))
    BY DEF Handler, Detector, DetectorBefore, DetectorSwitch, DetectorSeen, DetectorSaved,
           motion_config, motion_config_observation, motion_disk_enabled, set_motion_roi,
           apply_motion_roi, motion_roi_observation, motion_disk_roi
  <1>4. Typed(h)
    <2>1. /\ Look("enabled", Anything({"active"})) \in Commands({"enabled", "region"})
          /\ Look("region", Anything({"active"})) \in Commands({"enabled", "region"})
          /\ Set("region", Live, Nothing) \in Commands({"enabled", "region"})
          /\ Set("enabled", Live, Nothing) \in Commands({"enabled", "region"})
          /\ Look("enabled", Wanted({"active"})) \in Commands({"enabled", "region"})
          /\ Look("region", Wanted({"active"})) \in Commands({"enabled", "region"})
          /\ Save \in Commands({"enabled", "region"})
          /\ Look("enabled", Wanted({"disk"})) \in Commands({"enabled", "region"})
          /\ Look("region", Wanted({"disk"})) \in Commands({"enabled", "region"})
      BY MustsAre, CommandsIn DEF Places, Live
    <2> QED BY <1>1, <2>1 DEF Typed, Handler, Detector, DetectorBefore, DetectorSwitch,
           DetectorSeen, DetectorSaved, motion_config, motion_config_observation,
           motion_disk_enabled, set_motion_roi, apply_motion_roi, motion_roi_observation,
           motion_disk_roi
  <1> HIDE DEF h
  <1>5. Asks(h) /\ Does(h)
    BY <1>1, <1>2, <1>3, CommandsAre DEF Asks, Does, Live
  <1>6. SavesAt(h, 2, 5)
    <2>1. /\ 2 \in 0..Len(h.after) /\ 5 \in 2 + 1..Len(h.after) /\ h.after[5].do = "save"
          /\ \A i \in 1..2 : h.after[i].do \in {"set", "look"}
          /\ \A i \in 2 + 1..Len(h.after) : i # 5 => h.after[i].do = "look"
      BY <1>3, CommandsAre
    <2>2. \A p \in h.asked : \E i \in 1..2 :
            h.after[i].do = "set" /\ p \in h.after[i].parts /\ "config" \in h.after[i].places
      BY <1>1, <1>3, CommandsAre DEF Live
    <2>3. /\ Finds(h.after[6], "disk") /\ Finds(h.after[7], "disk")
          /\ Finds(h.after[3], "active") /\ Finds(h.after[4], "active") /\ Finds(h.after[8], "active") /\ Finds(h.after[9], "active")
      BY <1>3, CommandsAre, MustsAre DEF Finds, Tells, Live
    <2>4. \A p \in h.asked \union Followers(h) : LooksFrom(h, 5, p, "disk")
      BY <1>1, <1>3, <2>3, CommandsAre DEF LooksFrom, Followers, LiveFields
    <2>5. \A p \in h.asked : LooksFrom(h, 2, p, "active")
      BY <1>1, <1>3, <2>3, CommandsAre DEF LooksFrom
    <2> QED BY <1>1, <2>1, <2>2, <2>4, <2>5 DEF SavesAt, LiveFields
  <1> QED BY <1>1, <1>4, <1>5, <1>6, LiveSaver DEF Excludes, h

(* The volume.                                                             *)
LEMMA LevelIsSound ==
    Sound(update_audio)
  <1> DEFINE h == update_audio
  <1>1. LiveFields(h) /\ h.parts = {"level"} /\ h.asked = {"level"} /\ h.excludes = {}
    BY KindsDiffer DEF LiveFields, Handler, update_audio, LiveSetting, audio_levels,
           audio_disk_level
  <1>2. /\ Len(h.before) = 1
        /\ h.before[1] = Look("level", Anything({"active"}))
    BY DEF Handler, update_audio, LiveSetting, audio_levels, audio_disk_level
  <1>3. /\ Len(h.after) = 4
        /\ h.after[1] = Set("level", Live, Nothing)
        /\ h.after[2] = Look("level", Wanted({"active"}))
        /\ h.after[3] = Save
        /\ h.after[4] = Look("level", Wanted({"disk"}))
    BY DEF Handler, update_audio, LiveSetting, audio_levels, audio_disk_level
  <1>4. Typed(h)
    <2>1. /\ Look("level", Anything({"active"})) \in Commands({"level"})
          /\ Set("level", Live, Nothing) \in Commands({"level"})
          /\ Look("level", Wanted({"active"})) \in Commands({"level"})
          /\ Save \in Commands({"level"})
          /\ Look("level", Wanted({"disk"})) \in Commands({"level"})
      BY MustsAre, CommandsIn DEF Places, Live
    <2> QED BY <1>1, <2>1 DEF Typed, Handler, update_audio, LiveSetting, audio_levels,
           audio_disk_level
  <1> HIDE DEF h
  <1>5. Asks(h) /\ Does(h)
    BY <1>1, <1>2, <1>3, CommandsAre DEF Asks, Does, Live
  <1>6. SavesAt(h, 1, 3)
    <2>1. /\ 1 \in 0..Len(h.after) /\ 3 \in 1 + 1..Len(h.after) /\ h.after[3].do = "save"
          /\ \A i \in 1..1 : h.after[i].do \in {"set", "look"}
          /\ \A i \in 1 + 1..Len(h.after) : i # 3 => h.after[i].do = "look"
      BY <1>3, CommandsAre
    <2>2. \A p \in h.asked : \E i \in 1..1 :
            h.after[i].do = "set" /\ p \in h.after[i].parts /\ "config" \in h.after[i].places
      BY <1>1, <1>3, CommandsAre DEF Live
    <2>3. /\ Finds(h.after[4], "disk")
          /\ Finds(h.after[2], "active")
      BY <1>3, CommandsAre, MustsAre DEF Finds, Tells, Live
    <2>4. \A p \in h.asked \union Followers(h) : LooksFrom(h, 3, p, "disk")
      BY <1>1, <1>3, <2>3, CommandsAre DEF LooksFrom, Followers, LiveFields
    <2>5. \A p \in h.asked : LooksFrom(h, 1, p, "active")
      BY <1>1, <1>3, <2>3, CommandsAre DEF LooksFrom
    <2> QED BY <1>1, <2>1, <2>2, <2>4, <2>5 DEF SavesAt, LiveFields
  <1> QED BY <1>1, <1>4, <1>5, <1>6, LiveSaver DEF Excludes, h

(* The white balance.                                                      *)
LEMMA WhiteBalanceIsSound ==
    Sound(update_white_balance)
  <1> DEFINE h == update_white_balance
  <1>1. LiveFields(h) /\ h.parts = {"white_balance"} /\ h.asked = {"white_balance"} /\ h.excludes = {}
    BY KindsDiffer DEF LiveFields, Handler, update_white_balance, LiveSetting,
           native_white_balance, disk_white_balance, imaging
  <1>2. /\ Len(h.before) = 1
        /\ h.before[1] = Look("white_balance", Anything({"active"}))
    BY DEF Handler, update_white_balance, LiveSetting, native_white_balance, disk_white_balance,
           imaging
  <1>3. /\ Len(h.after) = 5
        /\ h.after[1] = Set("white_balance", Live, Nothing)
        /\ h.after[2] = Look("white_balance", Wanted({"active"}))
        /\ h.after[3] = Save
        /\ h.after[4] = Look("white_balance", Wanted({"disk"}))
        /\ h.after[5] = Look("white_balance", Wanted(Live))
    BY DEF Handler, update_white_balance, LiveSetting, native_white_balance, disk_white_balance,
           imaging
  <1>4. Typed(h)
    <2>1. /\ Look("white_balance", Anything({"active"})) \in Commands({"white_balance"})
          /\ Set("white_balance", Live, Nothing) \in Commands({"white_balance"})
          /\ Look("white_balance", Wanted({"active"})) \in Commands({"white_balance"})
          /\ Save \in Commands({"white_balance"})
          /\ Look("white_balance", Wanted({"disk"})) \in Commands({"white_balance"})
          /\ Look("white_balance", Wanted(Live)) \in Commands({"white_balance"})
      BY MustsAre, CommandsIn DEF Places, Live
    <2> QED BY <1>1, <2>1 DEF Typed, Handler, update_white_balance, LiveSetting,
           native_white_balance, disk_white_balance, imaging
  <1> HIDE DEF h
  <1>5. Asks(h) /\ Does(h)
    BY <1>1, <1>2, <1>3, CommandsAre DEF Asks, Does, Live
  <1>6. SavesAt(h, 1, 3)
    <2>1. /\ 1 \in 0..Len(h.after) /\ 3 \in 1 + 1..Len(h.after) /\ h.after[3].do = "save"
          /\ \A i \in 1..1 : h.after[i].do \in {"set", "look"}
          /\ \A i \in 1 + 1..Len(h.after) : i # 3 => h.after[i].do = "look"
      BY <1>3, CommandsAre
    <2>2. \A p \in h.asked : \E i \in 1..1 :
            h.after[i].do = "set" /\ p \in h.after[i].parts /\ "config" \in h.after[i].places
      BY <1>1, <1>3, CommandsAre DEF Live
    <2>3. /\ Finds(h.after[4], "disk")
          /\ Finds(h.after[2], "active") /\ Finds(h.after[5], "active")
      BY <1>3, CommandsAre, MustsAre DEF Finds, Tells, Live
    <2>4. \A p \in h.asked \union Followers(h) : LooksFrom(h, 3, p, "disk")
      BY <1>1, <1>3, <2>3, CommandsAre DEF LooksFrom, Followers, LiveFields
    <2>5. \A p \in h.asked : LooksFrom(h, 1, p, "active")
      BY <1>1, <1>3, <2>3, CommandsAre DEF LooksFrom
    <2> QED BY <1>1, <2>1, <2>2, <2>4, <2>5 DEF SavesAt, LiveFields
  <1> QED BY <1>1, <1>4, <1>5, <1>6, LiveSaver DEF Excludes, h

(* The mains frequency.                                                    *)
LEMMA AntiFlickerIsSound ==
    Sound(update_anti_flicker)
  <1> DEFINE h == update_anti_flicker
  <1>1. LiveFields(h) /\ h.parts = {"anti_flicker"} /\ h.asked = {"anti_flicker"} /\ h.excludes = {}
    BY KindsDiffer DEF LiveFields, Handler, update_anti_flicker, LiveSetting, imaging_state,
           imaging_disk_antiflicker, imaging
  <1>2. /\ Len(h.before) = 1
        /\ h.before[1] = LookAlways({"anti_flicker"}, Anything({"active"}))
    BY DEF Handler, update_anti_flicker, LiveSetting, imaging_state, imaging_disk_antiflicker,
           imaging
  <1>3. /\ Len(h.after) = 5
        /\ h.after[1] = Set("anti_flicker", Live, Nothing)
        /\ h.after[2] = LookAlways({"anti_flicker"}, Wanted({"active"}))
        /\ h.after[3] = Save
        /\ h.after[4] = Look("anti_flicker", Wanted({"disk"}))
        /\ h.after[5] = LookAlways({"anti_flicker"}, Wanted(Live))
    BY DEF Handler, update_anti_flicker, LiveSetting, imaging_state, imaging_disk_antiflicker,
           imaging
  <1>4. Typed(h)
    <2>1. /\ LookAlways({"anti_flicker"}, Anything({"active"})) \in Commands({"anti_flicker"})
          /\ Set("anti_flicker", Live, Nothing) \in Commands({"anti_flicker"})
          /\ LookAlways({"anti_flicker"}, Wanted({"active"})) \in Commands({"anti_flicker"})
          /\ Save \in Commands({"anti_flicker"})
          /\ Look("anti_flicker", Wanted({"disk"})) \in Commands({"anti_flicker"})
          /\ LookAlways({"anti_flicker"}, Wanted(Live)) \in Commands({"anti_flicker"})
      BY MustsAre, CommandsIn DEF Places, Live
    <2> QED BY <1>1, <2>1 DEF Typed, Handler, update_anti_flicker, LiveSetting, imaging_state,
           imaging_disk_antiflicker, imaging
  <1> HIDE DEF h
  <1>5. Asks(h) /\ Does(h)
    BY <1>1, <1>2, <1>3, CommandsAre DEF Asks, Does, Live
  <1>6. SavesAt(h, 1, 3)
    <2>1. /\ 1 \in 0..Len(h.after) /\ 3 \in 1 + 1..Len(h.after) /\ h.after[3].do = "save"
          /\ \A i \in 1..1 : h.after[i].do \in {"set", "look"}
          /\ \A i \in 1 + 1..Len(h.after) : i # 3 => h.after[i].do = "look"
      BY <1>3, CommandsAre
    <2>2. \A p \in h.asked : \E i \in 1..1 :
            h.after[i].do = "set" /\ p \in h.after[i].parts /\ "config" \in h.after[i].places
      BY <1>1, <1>3, CommandsAre DEF Live
    <2>3. /\ Finds(h.after[4], "disk")
          /\ Finds(h.after[2], "active") /\ Finds(h.after[5], "active")
      BY <1>3, CommandsAre, MustsAre DEF Finds, Tells, Live
    <2>4. \A p \in h.asked \union Followers(h) : LooksFrom(h, 3, p, "disk")
      BY <1>1, <1>3, <2>3, CommandsAre DEF LooksFrom, Followers, LiveFields
    <2>5. \A p \in h.asked : LooksFrom(h, 1, p, "active")
      BY <1>1, <1>3, <2>3, CommandsAre DEF LooksFrom
    <2> QED BY <1>1, <2>1, <2>2, <2>4, <2>5 DEF SavesAt, LiveFields
  <1> QED BY <1>1, <1>4, <1>5, <1>6, LiveSaver DEF Excludes, h

(* The microphone.                                                         *)
LEMMA AudioSettingsAreSound ==
    Sound(update_audio_settings)
  <1> DEFINE h == update_audio_settings
  <1>1. LiveFields(h) /\ h.parts = {"codec", "processing"} /\ h.asked = {"codec", "processing"} /\ h.excludes = {}
    BY KindsDiffer DEF LiveFields, Handler, update_audio_settings, audio_settings_observation,
           input_observation, processing_observation, audio_commands, audio_disk_section
  <1>2. /\ Len(h.before) = 2
        /\ h.before[1] = Look("codec", Anything({"active"}))
        /\ h.before[2] = Look("processing", Anything({"active"}))
    BY DEF Handler, update_audio_settings, audio_settings_observation, input_observation,
           processing_observation, audio_commands, audio_disk_section
  <1>3. /\ Len(h.after) = 7
        /\ h.after[1] = Set("codec", Live, Nothing)
        /\ h.after[2] = Set("processing", Live, Nothing)
        /\ h.after[3] = Look("codec", Wanted({"active"}))
        /\ h.after[4] = Look("processing", Wanted({"active"}))
        /\ h.after[5] = Save
        /\ h.after[6] = Look("codec", Wanted({"disk"}))
        /\ h.after[7] = Look("processing", Wanted({"disk"}))
    BY DEF Handler, update_audio_settings, audio_settings_observation, input_observation,
           processing_observation, audio_commands, audio_disk_section
  <1>4. Typed(h)
    <2>1. /\ Look("codec", Anything({"active"})) \in Commands({"codec", "processing"})
          /\ Look("processing", Anything({"active"})) \in Commands({"codec", "processing"})
          /\ Set("codec", Live, Nothing) \in Commands({"codec", "processing"})
          /\ Set("processing", Live, Nothing) \in Commands({"codec", "processing"})
          /\ Look("codec", Wanted({"active"})) \in Commands({"codec", "processing"})
          /\ Look("processing", Wanted({"active"})) \in Commands({"codec", "processing"})
          /\ Save \in Commands({"codec", "processing"})
          /\ Look("codec", Wanted({"disk"})) \in Commands({"codec", "processing"})
          /\ Look("processing", Wanted({"disk"})) \in Commands({"codec", "processing"})
      BY MustsAre, CommandsIn DEF Places, Live
    <2> QED BY <1>1, <2>1 DEF Typed, Handler, update_audio_settings, audio_settings_observation,
           input_observation, processing_observation, audio_commands, audio_disk_section
  <1> HIDE DEF h
  <1>5. Asks(h) /\ Does(h)
    BY <1>1, <1>2, <1>3, CommandsAre DEF Asks, Does, Live
  <1>6. SavesAt(h, 2, 5)
    <2>1. /\ 2 \in 0..Len(h.after) /\ 5 \in 2 + 1..Len(h.after) /\ h.after[5].do = "save"
          /\ \A i \in 1..2 : h.after[i].do \in {"set", "look"}
          /\ \A i \in 2 + 1..Len(h.after) : i # 5 => h.after[i].do = "look"
      BY <1>3, CommandsAre
    <2>2. \A p \in h.asked : \E i \in 1..2 :
            h.after[i].do = "set" /\ p \in h.after[i].parts /\ "config" \in h.after[i].places
      BY <1>1, <1>3, CommandsAre DEF Live
    <2>3. /\ Finds(h.after[6], "disk") /\ Finds(h.after[7], "disk")
          /\ Finds(h.after[3], "active") /\ Finds(h.after[4], "active")
      BY <1>3, CommandsAre, MustsAre DEF Finds, Tells, Live
    <2>4. \A p \in h.asked \union Followers(h) : LooksFrom(h, 5, p, "disk")
      BY <1>1, <1>3, <2>3, CommandsAre DEF LooksFrom, Followers, LiveFields
    <2>5. \A p \in h.asked : LooksFrom(h, 2, p, "active")
      BY <1>1, <1>3, <2>3, CommandsAre DEF LooksFrom
    <2> QED BY <1>1, <2>1, <2>2, <2>4, <2>5 DEF SavesAt, LiveFields
  <1> QED BY <1>1, <1>4, <1>5, <1>6, LiveSaver DEF Excludes, h

(* The text in the picture.                                                *)
LEMMA TextIsSound ==
    Sound(update_osd_config)
  <1> DEFINE h == update_osd_config
  <1>1. LiveFields(h) /\ h.parts = {"text"} /\ h.asked = {"text"} /\ h.excludes = {}
    BY KindsDiffer DEF LiveFields, Handler, update_osd_config, osd_observation, osd_apply_state,
           osd_config_readback
  <1>2. /\ Len(h.before) = 1
        /\ h.before[1] = Look("text", Anything({"config"}))
    BY DEF Handler, update_osd_config, osd_observation, osd_apply_state, osd_config_readback
  <1>3. /\ Len(h.after) = 6
        /\ h.after[1] = Set("text", Live, Nothing)
        /\ h.after[2] = Look("text", Wanted({"config"}))
        /\ h.after[3] = Look("text", Wanted({"active"}))
        /\ h.after[4] = Save
        /\ h.after[5] = Look("text", Wanted({"disk"}))
        /\ h.after[6] = Look("text", Wanted({"config"}))
    BY DEF Handler, update_osd_config, osd_observation, osd_apply_state, osd_config_readback
  <1>4. Typed(h)
    <2>1. /\ Look("text", Anything({"config"})) \in Commands({"text"})
          /\ Set("text", Live, Nothing) \in Commands({"text"})
          /\ Look("text", Wanted({"config"})) \in Commands({"text"})
          /\ Look("text", Wanted({"active"})) \in Commands({"text"})
          /\ Save \in Commands({"text"})
          /\ Look("text", Wanted({"disk"})) \in Commands({"text"})
      BY MustsAre, CommandsIn DEF Places, Live
    <2> QED BY <1>1, <2>1 DEF Typed, Handler, update_osd_config, osd_observation,
           osd_apply_state, osd_config_readback
  <1> HIDE DEF h
  <1>5. Asks(h) /\ Does(h)
    BY <1>1, <1>2, <1>3, CommandsAre DEF Asks, Does, Live
  <1>6. SavesAt(h, 1, 4)
    <2>1. /\ 1 \in 0..Len(h.after) /\ 4 \in 1 + 1..Len(h.after) /\ h.after[4].do = "save"
          /\ \A i \in 1..1 : h.after[i].do \in {"set", "look"}
          /\ \A i \in 1 + 1..Len(h.after) : i # 4 => h.after[i].do = "look"
      BY <1>3, CommandsAre
    <2>2. \A p \in h.asked : \E i \in 1..1 :
            h.after[i].do = "set" /\ p \in h.after[i].parts /\ "config" \in h.after[i].places
      BY <1>1, <1>3, CommandsAre DEF Live
    <2>3. /\ Finds(h.after[5], "disk")
          /\ Finds(h.after[3], "active")
      BY <1>3, CommandsAre, MustsAre DEF Finds, Tells, Live
    <2>4. \A p \in h.asked \union Followers(h) : LooksFrom(h, 4, p, "disk")
      BY <1>1, <1>3, <2>3, CommandsAre DEF LooksFrom, Followers, LiveFields
    <2>5. \A p \in h.asked : LooksFrom(h, 1, p, "active")
      BY <1>1, <1>3, <2>3, CommandsAre DEF LooksFrom
    <2> QED BY <1>1, <2>1, <2>2, <2>4, <2>5 DEF SavesAt, LiveFields
  <1> QED BY <1>1, <1>4, <1>5, <1>6, LiveSaver DEF Excludes, h

(* The privacy of the next start.                                          *)
LEMMA PrivacyIsSound ==
    Sound(update_privacy_config)
  <1> DEFINE h == update_privacy_config
  <1>1. LiveFields(h) /\ h.parts = {"enabled", "participants"} /\ h.asked = {"enabled"} /\ h.excludes = {}
    BY KindsDiffer DEF LiveFields, Handler, update_privacy_config, privacy_config_observation,
           privacy_disk_enabled, privacy_config
  <1>2. /\ Len(h.before) = 2
        /\ h.before[1] = Look("enabled", Anything({"active"}))
        /\ h.before[2] = LookAlways({"participants"}, Anything({"active"}))
    BY DEF Handler, update_privacy_config, privacy_config_observation, privacy_disk_enabled,
           privacy_config
  <1>3. /\ Len(h.after) = 7
        /\ h.after[1] = Set("enabled", Live, Nothing)
        /\ h.after[2] = Look("enabled", Wanted({"active"}))
        /\ h.after[3] = LookAlways({"participants"}, Unchanged({"active"}))
        /\ h.after[4] = Save
        /\ h.after[5] = Look("enabled", Wanted({"disk"}))
        /\ h.after[6] = Look("enabled", Wanted({"active"}))
        /\ h.after[7] = LookAlways({"participants"}, Unchanged({"active"}))
    BY DEF Handler, update_privacy_config, privacy_config_observation, privacy_disk_enabled,
           privacy_config
  <1>4. Typed(h)
    <2>1. /\ Look("enabled", Anything({"active"})) \in Commands({"enabled", "participants"})
          /\ LookAlways({"participants"}, Anything({"active"})) \in Commands({"enabled", "participants"})
          /\ Set("enabled", Live, Nothing) \in Commands({"enabled", "participants"})
          /\ Look("enabled", Wanted({"active"})) \in Commands({"enabled", "participants"})
          /\ LookAlways({"participants"}, Unchanged({"active"})) \in Commands({"enabled", "participants"})
          /\ Save \in Commands({"enabled", "participants"})
          /\ Look("enabled", Wanted({"disk"})) \in Commands({"enabled", "participants"})
      BY MustsAre, CommandsIn DEF Places, Live
    <2> QED BY <1>1, <2>1 DEF Typed, Handler, update_privacy_config, privacy_config_observation,
           privacy_disk_enabled, privacy_config
  <1> HIDE DEF h
  <1>5. Asks(h) /\ Does(h)
    BY <1>1, <1>2, <1>3, CommandsAre DEF Asks, Does, Live
  <1>6. SavesAt(h, 1, 4)
    <2>1. /\ 1 \in 0..Len(h.after) /\ 4 \in 1 + 1..Len(h.after) /\ h.after[4].do = "save"
          /\ \A i \in 1..1 : h.after[i].do \in {"set", "look"}
          /\ \A i \in 1 + 1..Len(h.after) : i # 4 => h.after[i].do = "look"
      BY <1>3, CommandsAre
    <2>2. \A p \in h.asked : \E i \in 1..1 :
            h.after[i].do = "set" /\ p \in h.after[i].parts /\ "config" \in h.after[i].places
      BY <1>1, <1>3, CommandsAre DEF Live
    <2>3. /\ Finds(h.after[5], "disk")
          /\ Finds(h.after[2], "active") /\ Finds(h.after[6], "active")
      BY <1>3, CommandsAre, MustsAre DEF Finds, Tells, Live
    <2>4. \A p \in h.asked \union Followers(h) : LooksFrom(h, 4, p, "disk")
      BY <1>1, <1>3, <2>3, CommandsAre DEF LooksFrom, Followers, LiveFields
    <2>5. \A p \in h.asked : LooksFrom(h, 1, p, "active")
      BY <1>1, <1>3, <2>3, CommandsAre DEF LooksFrom
    <2> QED BY <1>1, <2>1, <2>2, <2>4, <2>5 DEF SavesAt, LiveFields
  <1> QED BY <1>1, <1>4, <1>5, <1>6, LiveSaver DEF Excludes, h

(* A group of day and night settings.                                      *)
LEMMA GroupIsSound ==
    ASSUME NEW group
    PROVE  Sound(daynight_request(group,
                ModeBefore \o <<Look(group, Anything({"active"}))>>,
                set_daynight_settings(group) \o ModeSeen \o <<Look(group, Wanted({"active"}))>>
                \o ModeSaved \o <<Look(group, Wanted({"disk"}))>> \o <<>>,
                SavedReport))
  <1> DEFINE h == daynight_request(group,
                ModeBefore \o <<Look(group, Anything({"active"}))>>,
                set_daynight_settings(group) \o ModeSeen \o <<Look(group, Wanted({"active"}))>>
                \o ModeSaved \o <<Look(group, Wanted({"disk"}))>> \o <<>>,
                SavedReport)
  <1>1. LiveFields(h) /\ h.parts = {"mode", group} /\ h.asked = {"mode", group} /\ h.excludes = {}
    BY KindsDiffer DEF LiveFields, Handler, daynight_request, ModeBefore, ModeSeen, ModeSaved,
           daynight_observation, daynight_disk_section, set_daynight_settings
  <1>2. /\ Len(h.before) = 2
        /\ h.before[1] = Look("mode", Anything({"active"}))
        /\ h.before[2] = Look(group, Anything({"active"}))
    BY DEF Handler, daynight_request, ModeBefore, ModeSeen, ModeSaved, daynight_observation,
           daynight_disk_section, set_daynight_settings
  <1>3. /\ Len(h.after) = 6
        /\ h.after[1] = SetAll({"mode", group}, Live, Nothing)
        /\ h.after[2] = Look("mode", Wanted({"active"}))
        /\ h.after[3] = Look(group, Wanted({"active"}))
        /\ h.after[4] = Save
        /\ h.after[5] = Look("mode", Wanted({"disk"}))
        /\ h.after[6] = Look(group, Wanted({"disk"}))
    BY DEF Handler, daynight_request, ModeBefore, ModeSeen, ModeSaved, daynight_observation,
           daynight_disk_section, set_daynight_settings
  <1>4. Typed(h)
    <2>1. /\ Look("mode", Anything({"active"})) \in Commands({"mode", group})
          /\ Look(group, Anything({"active"})) \in Commands({"mode", group})
          /\ SetAll({"mode", group}, Live, Nothing) \in Commands({"mode", group})
          /\ Look("mode", Wanted({"active"})) \in Commands({"mode", group})
          /\ Look(group, Wanted({"active"})) \in Commands({"mode", group})
          /\ Save \in Commands({"mode", group})
          /\ Look("mode", Wanted({"disk"})) \in Commands({"mode", group})
          /\ Look(group, Wanted({"disk"})) \in Commands({"mode", group})
      BY MustsAre, CommandsIn DEF Places, Live
    <2> QED BY <1>1, <2>1 DEF Typed, Handler, daynight_request, ModeBefore, ModeSeen, ModeSaved,
           daynight_observation, daynight_disk_section, set_daynight_settings
  <1> HIDE DEF h
  <1>5. Asks(h) /\ Does(h)
    BY <1>1, <1>2, <1>3, CommandsAre DEF Asks, Does, Live
  <1>6. SavesAt(h, 1, 4)
    <2>1. /\ 1 \in 0..Len(h.after) /\ 4 \in 1 + 1..Len(h.after) /\ h.after[4].do = "save"
          /\ \A i \in 1..1 : h.after[i].do \in {"set", "look"}
          /\ \A i \in 1 + 1..Len(h.after) : i # 4 => h.after[i].do = "look"
      BY <1>3, CommandsAre
    <2>2. \A p \in h.asked : \E i \in 1..1 :
            h.after[i].do = "set" /\ p \in h.after[i].parts /\ "config" \in h.after[i].places
      BY <1>1, <1>3, CommandsAre DEF Live
    <2>3. /\ Finds(h.after[5], "disk") /\ Finds(h.after[6], "disk")
          /\ Finds(h.after[2], "active") /\ Finds(h.after[3], "active")
      BY <1>3, CommandsAre, MustsAre DEF Finds, Tells, Live
    <2>4. \A p \in h.asked \union Followers(h) : LooksFrom(h, 4, p, "disk")
      BY <1>1, <1>3, <2>3, CommandsAre DEF LooksFrom, Followers, LiveFields
    <2>5. \A p \in h.asked : LooksFrom(h, 1, p, "active")
      BY <1>1, <1>3, <2>3, CommandsAre DEF LooksFrom
    <2> QED BY <1>1, <2>1, <2>2, <2>4, <2>5 DEF SavesAt, LiveFields
  <1> QED BY <1>1, <1>4, <1>5, <1>6, LiveSaver DEF Excludes, h

(* One that is looked at once more.                                        *)
LEMMA GroupSeenTwiceIsSound ==
    ASSUME NEW group
    PROVE  Sound(daynight_request(group,
                ModeBefore \o <<Look(group, Anything({"active"}))>>,
                set_daynight_settings(group) \o ModeSeen \o <<Look(group, Wanted({"active"}))>>
                \o ModeSaved \o <<Look(group, Wanted({"disk"}))>>
                \o (ModeSeen \o <<Look(group, Wanted({"active"}))>>),
                SavedReport))
  <1> DEFINE h == daynight_request(group,
                ModeBefore \o <<Look(group, Anything({"active"}))>>,
                set_daynight_settings(group) \o ModeSeen \o <<Look(group, Wanted({"active"}))>>
                \o ModeSaved \o <<Look(group, Wanted({"disk"}))>>
                \o (ModeSeen \o <<Look(group, Wanted({"active"}))>>),
                SavedReport)
  <1>1. LiveFields(h) /\ h.parts = {"mode", group} /\ h.asked = {"mode", group} /\ h.excludes = {}
    BY KindsDiffer DEF LiveFields, Handler, daynight_request, ModeBefore, ModeSeen, ModeSaved,
           daynight_observation, daynight_disk_section, set_daynight_settings
  <1>2. /\ Len(h.before) = 2
        /\ h.before[1] = Look("mode", Anything({"active"}))
        /\ h.before[2] = Look(group, Anything({"active"}))
    BY DEF Handler, daynight_request, ModeBefore, ModeSeen, ModeSaved, daynight_observation,
           daynight_disk_section, set_daynight_settings
  <1>3. /\ Len(h.after) = 8
        /\ h.after[1] = SetAll({"mode", group}, Live, Nothing)
        /\ h.after[2] = Look("mode", Wanted({"active"}))
        /\ h.after[3] = Look(group, Wanted({"active"}))
        /\ h.after[4] = Save
        /\ h.after[5] = Look("mode", Wanted({"disk"}))
        /\ h.after[6] = Look(group, Wanted({"disk"}))
        /\ h.after[7] = Look("mode", Wanted({"active"}))
        /\ h.after[8] = Look(group, Wanted({"active"}))
    BY DEF Handler, daynight_request, ModeBefore, ModeSeen, ModeSaved, daynight_observation,
           daynight_disk_section, set_daynight_settings
  <1>4. Typed(h)
    <2>1. /\ Look("mode", Anything({"active"})) \in Commands({"mode", group})
          /\ Look(group, Anything({"active"})) \in Commands({"mode", group})
          /\ SetAll({"mode", group}, Live, Nothing) \in Commands({"mode", group})
          /\ Look("mode", Wanted({"active"})) \in Commands({"mode", group})
          /\ Look(group, Wanted({"active"})) \in Commands({"mode", group})
          /\ Save \in Commands({"mode", group})
          /\ Look("mode", Wanted({"disk"})) \in Commands({"mode", group})
          /\ Look(group, Wanted({"disk"})) \in Commands({"mode", group})
      BY MustsAre, CommandsIn DEF Places, Live
    <2> QED BY <1>1, <2>1 DEF Typed, Handler, daynight_request, ModeBefore, ModeSeen, ModeSaved,
           daynight_observation, daynight_disk_section, set_daynight_settings
  <1> HIDE DEF h
  <1>5. Asks(h) /\ Does(h)
    BY <1>1, <1>2, <1>3, CommandsAre DEF Asks, Does, Live
  <1>6. SavesAt(h, 1, 4)
    <2>1. /\ 1 \in 0..Len(h.after) /\ 4 \in 1 + 1..Len(h.after) /\ h.after[4].do = "save"
          /\ \A i \in 1..1 : h.after[i].do \in {"set", "look"}
          /\ \A i \in 1 + 1..Len(h.after) : i # 4 => h.after[i].do = "look"
      BY <1>3, CommandsAre
    <2>2. \A p \in h.asked : \E i \in 1..1 :
            h.after[i].do = "set" /\ p \in h.after[i].parts /\ "config" \in h.after[i].places
      BY <1>1, <1>3, CommandsAre DEF Live
    <2>3. /\ Finds(h.after[5], "disk") /\ Finds(h.after[6], "disk")
          /\ Finds(h.after[2], "active") /\ Finds(h.after[3], "active") /\ Finds(h.after[7], "active") /\ Finds(h.after[8], "active")
      BY <1>3, CommandsAre, MustsAre DEF Finds, Tells, Live
    <2>4. \A p \in h.asked \union Followers(h) : LooksFrom(h, 4, p, "disk")
      BY <1>1, <1>3, <2>3, CommandsAre DEF LooksFrom, Followers, LiveFields
    <2>5. \A p \in h.asked : LooksFrom(h, 1, p, "active")
      BY <1>1, <1>3, <2>3, CommandsAre DEF LooksFrom
    <2> QED BY <1>1, <2>1, <2>2, <2>4, <2>5 DEF SavesAt, LiveFields
  <1> QED BY <1>1, <1>4, <1>5, <1>6, LiveSaver DEF Excludes, h

(* The thresholds are sent before the mode.                                *)
LEMMA ThresholdsAreSound ==
    Sound(daynight_thresholds)
  <1> DEFINE h == daynight_thresholds
  <1>1. LiveFields(h) /\ h.parts = {"mode", "thresholds"} /\ h.asked = {"mode", "thresholds"} /\ h.excludes = {}
    BY KindsDiffer DEF LiveFields, Handler, daynight_request, ModeBefore, ModeSeen, ModeSaved,
           daynight_observation, daynight_disk_section, DayNight, daynight_thresholds,
           threshold_observation, saved_thresholds, set_daynight_thresholds, thresholds_report
  <1>2. /\ Len(h.before) = 2
        /\ h.before[1] = Look("mode", Anything({"active"}))
        /\ h.before[2] = Look("thresholds", Anything({"active"}))
    BY DEF Handler, daynight_request, ModeBefore, ModeSeen, ModeSaved, daynight_observation,
           daynight_disk_section, DayNight, daynight_thresholds, threshold_observation,
           saved_thresholds, set_daynight_thresholds, thresholds_report
  <1>3. /\ Len(h.after) = 7
        /\ h.after[1] = Set("thresholds", Live, Nothing)
        /\ h.after[2] = Set("mode", Live, Nothing)
        /\ h.after[3] = Look("mode", Wanted({"active"}))
        /\ h.after[4] = Look("thresholds", Wanted({"active"}))
        /\ h.after[5] = Save
        /\ h.after[6] = Look("mode", Wanted({"disk"}))
        /\ h.after[7] = Look("thresholds", Wanted({"disk"}))
    BY DEF Handler, daynight_request, ModeBefore, ModeSeen, ModeSaved, daynight_observation,
           daynight_disk_section, DayNight, daynight_thresholds, threshold_observation,
           saved_thresholds, set_daynight_thresholds, thresholds_report
  <1>4. Typed(h)
    <2>1. /\ Look("mode", Anything({"active"})) \in Commands({"mode", "thresholds"})
          /\ Look("thresholds", Anything({"active"})) \in Commands({"mode", "thresholds"})
          /\ Set("thresholds", Live, Nothing) \in Commands({"mode", "thresholds"})
          /\ Set("mode", Live, Nothing) \in Commands({"mode", "thresholds"})
          /\ Look("mode", Wanted({"active"})) \in Commands({"mode", "thresholds"})
          /\ Look("thresholds", Wanted({"active"})) \in Commands({"mode", "thresholds"})
          /\ Save \in Commands({"mode", "thresholds"})
          /\ Look("mode", Wanted({"disk"})) \in Commands({"mode", "thresholds"})
          /\ Look("thresholds", Wanted({"disk"})) \in Commands({"mode", "thresholds"})
      BY MustsAre, CommandsIn DEF Places, Live
    <2> QED BY <1>1, <2>1 DEF Typed, Handler, daynight_request, ModeBefore, ModeSeen, ModeSaved,
           daynight_observation, daynight_disk_section, DayNight, daynight_thresholds,
           threshold_observation, saved_thresholds, set_daynight_thresholds, thresholds_report
  <1> HIDE DEF h
  <1>5. Asks(h) /\ Does(h)
    BY <1>1, <1>2, <1>3, CommandsAre DEF Asks, Does, Live
  <1>6. SavesAt(h, 2, 5)
    <2>1. /\ 2 \in 0..Len(h.after) /\ 5 \in 2 + 1..Len(h.after) /\ h.after[5].do = "save"
          /\ \A i \in 1..2 : h.after[i].do \in {"set", "look"}
          /\ \A i \in 2 + 1..Len(h.after) : i # 5 => h.after[i].do = "look"
      BY <1>3, CommandsAre
    <2>2. \A p \in h.asked : \E i \in 1..2 :
            h.after[i].do = "set" /\ p \in h.after[i].parts /\ "config" \in h.after[i].places
      BY <1>1, <1>3, CommandsAre DEF Live
    <2>3. /\ Finds(h.after[6], "disk") /\ Finds(h.after[7], "disk")
          /\ Finds(h.after[3], "active") /\ Finds(h.after[4], "active")
      BY <1>3, CommandsAre, MustsAre DEF Finds, Tells, Live
    <2>4. \A p \in h.asked \union Followers(h) : LooksFrom(h, 5, p, "disk")
      BY <1>1, <1>3, <2>3, CommandsAre DEF LooksFrom, Followers, LiveFields
    <2>5. \A p \in h.asked : LooksFrom(h, 2, p, "active")
      BY <1>1, <1>3, <2>3, CommandsAre DEF LooksFrom
    <2> QED BY <1>1, <2>1, <2>2, <2>4, <2>5 DEF SavesAt, LiveFields
  <1> QED BY <1>1, <1>4, <1>5, <1>6, LiveSaver DEF Excludes, h

(* The groups are handled likewise.                                        *)
LEMMA DayNightIsSound ==
    /\ Sound(daynight_timing) /\ Sound(daynight_schedule) /\ Sound(daynight_sun)
    /\ Sound(daynight_ir850) /\ Sound(daynight_automation) /\ Sound(daynight_outputs)
    /\ Sound(daynight_confirmation) /\ Sound(daynight_loglevel)
  <1>1. Sound(daynight_timing)
    BY GroupIsSound DEF daynight_timing, DayNight, timing_observation, saved_timing_for_request,
       timing_report, daynight_observation, daynight_disk_section
  <1>2. Sound(daynight_schedule)
    BY GroupIsSound DEF daynight_schedule, DayNight, schedule_observation, saved_schedule,
       schedule_report, daynight_observation, daynight_disk_section
  <1>3. Sound(daynight_sun)
    BY GroupSeenTwiceIsSound DEF daynight_sun, DayNight, OnceMore, sun_observation, saved_sun,
       sun_report, daynight_observation, daynight_disk_section
  <1>4. Sound(daynight_ir850)
    BY GroupSeenTwiceIsSound DEF daynight_ir850, DayNight, OnceMore, ir850_at_night_observation,
       saved_ir850_at_night, daynight_observation, daynight_disk_section
  <1>5. Sound(daynight_automation)
    BY GroupSeenTwiceIsSound DEF daynight_automation, DayNight, OnceMore, automation_observation,
       saved_automation, automation_report, daynight_observation, daynight_disk_section
  <1>6. Sound(daynight_outputs)
    BY GroupSeenTwiceIsSound DEF daynight_outputs, DayNight, OnceMore,
           automatic_outputs_observation,
       saved_outputs, outputs_report, daynight_observation, daynight_disk_section
  <1>7. Sound(daynight_confirmation)
    BY GroupSeenTwiceIsSound DEF daynight_confirmation, DayNight, OnceMore,
           confirmation_observation,
       saved_confirmation_count, daynight_observation, daynight_disk_section
  <1>8. Sound(daynight_loglevel)
    BY GroupSeenTwiceIsSound DEF daynight_loglevel, DayNight, OnceMore, loglevel_observation,
       saved_loglevel, daynight_observation, daynight_disk_section
  <1> QED BY <1>1, <1>2, <1>3, <1>4, <1>5, <1>6, <1>7, <1>8

(* The paths of the streams, which RSD keeps apart.                        *)
LEMMA AccessIsSound ==
    Sound(update_access)
  <1> DEFINE h == update_access
  <1>1. LiveFields(h) /\ h.parts = {"main", "sub"} /\ h.asked = {"main", "sub"}
        /\ h.guarded = TRUE /\ h.excludes = {[main |-> value, sub |-> value] : value \in {0, 1}}
    BY KindsDiffer DEF LiveFields, Handler, update_access, access_observation,
           saved_access_paths, access_config
  <1>2. /\ Len(h.before) = 3
        /\ h.before[1] = LookAlways({"main"}, Anything({"active"}))
        /\ h.before[2] = LookAlways({"sub"}, Anything({"active"}))
        /\ h.before[3] = Compare("active")
    BY DEF Handler, update_access, access_observation, saved_access_paths, access_config
  <1>3. /\ Len(h.after) = 6
        /\ h.after[1] = SetAll({"main", "sub"}, Live, Nothing)
        /\ h.after[2] = Look("main", Wanted({"active"}))
        /\ h.after[3] = Look("sub", Wanted({"active"}))
        /\ h.after[4] = Save
        /\ h.after[5] = Look("main", Wanted({"disk"}))
        /\ h.after[6] = Look("sub", Wanted({"disk"}))
    BY DEF Handler, update_access, access_observation, saved_access_paths, access_config
  <1>4. Typed(h)
    <2>1. /\ LookAlways({"main"}, Anything({"active"})) \in Commands({"main", "sub"})
          /\ LookAlways({"sub"}, Anything({"active"})) \in Commands({"main", "sub"})
          /\ Compare("active") \in Commands({"main", "sub"})
          /\ SetAll({"main", "sub"}, Live, Nothing) \in Commands({"main", "sub"})
          /\ Look("main", Wanted({"active"})) \in Commands({"main", "sub"})
          /\ Look("sub", Wanted({"active"})) \in Commands({"main", "sub"})
          /\ Save \in Commands({"main", "sub"})
          /\ Look("main", Wanted({"disk"})) \in Commands({"main", "sub"})
          /\ Look("sub", Wanted({"disk"})) \in Commands({"main", "sub"})
      BY MustsAre, CommandsIn DEF Places, Live
    <2> QED BY <1>1, <2>1 DEF Typed, Handler, update_access, access_observation,
           saved_access_paths, access_config
  <1> HIDE DEF h
  <1>5. Asks(h) /\ Does(h)
    BY <1>1, <1>2, <1>3, CommandsAre DEF Asks, Does, Live
  <1>6. SavesAt(h, 1, 4)
    <2>1. /\ 1 \in 0..Len(h.after) /\ 4 \in 1 + 1..Len(h.after) /\ h.after[4].do = "save"
          /\ \A i \in 1..1 : h.after[i].do \in {"set", "look"}
          /\ \A i \in 1 + 1..Len(h.after) : i # 4 => h.after[i].do = "look"
      BY <1>3, CommandsAre
    <2>2. \A p \in h.asked : \E i \in 1..1 :
            h.after[i].do = "set" /\ p \in h.after[i].parts /\ "config" \in h.after[i].places
      BY <1>1, <1>3, CommandsAre DEF Live
    <2>3. /\ Finds(h.after[5], "disk") /\ Finds(h.after[6], "disk")
          /\ Finds(h.after[2], "active") /\ Finds(h.after[3], "active")
      BY <1>3, CommandsAre, MustsAre DEF Finds, Tells, Live
    <2>4. \A p \in h.asked \union Followers(h) : LooksFrom(h, 4, p, "disk")
      BY <1>1, <1>3, <2>3, CommandsAre DEF LooksFrom, Followers, LiveFields
    <2>5. \A p \in h.asked : LooksFrom(h, 1, p, "active")
      BY <1>1, <1>3, <2>3, CommandsAre DEF LooksFrom
    <2> QED BY <1>1, <2>1, <2>2, <2>4, <2>5 DEF SavesAt, LiveFields
  <1>7. Excludes(h)
    <2>1. \A pair \in h.excludes : DOMAIN pair \subseteq h.parts
      BY <1>1
    <2>2. \A i \in 1..Len(h.after) : h.after[i].do # "commit"
      BY <1>3, CommandsAre
    <2> QED BY <1>1, <2>1, <2>2 DEF Excludes, LiveFields
  <1> QED BY <1>1, <1>4, <1>5, <1>6, <1>7, LiveSaver DEF h

(* The image: backlight and tone are merged.                               *)
LEMMA ImagingIsSound ==
    Sound(update_imaging)
  <1> DEFINE h == update_imaging
  <1>1. LiveFields(h) /\ h.parts = {"backlight", "tone"} /\ h.asked = {"backlight", "tone"}
        /\ h.excludes = {[backlight |-> 1, tone |-> 1]}
    BY KindsDiffer DEF LiveFields, Handler, update_imaging, ImagingWith, imaging_fields,
           imaging_state, imaging_section
  <1>2. /\ Len(h.before) = 3
        /\ h.before[1] = LookAlways({"backlight"}, Anything({"active"}))
        /\ h.before[2] = LookAlways({"tone"}, Anything({"active"}))
        /\ h.before[3] = Merge("active")
    BY DEF Handler, update_imaging, ImagingWith, imaging_fields, imaging_state, imaging_section
  <1>3. /\ Len(h.after) = 5
        /\ h.after[1] = SetAll({"backlight", "tone"}, Live, Nothing)
        /\ h.after[2] = LookAlways({"backlight"}, Wanted({"active"}))
        /\ h.after[3] = LookAlways({"tone"}, Wanted({"active"}))
        /\ h.after[4] = Save
        /\ h.after[5] = LookAlways({"backlight", "tone"}, Wanted({"disk"}))
    BY DEF Handler, update_imaging, ImagingWith, imaging_fields, imaging_state, imaging_section
  <1>4. Typed(h)
    <2>1. /\ LookAlways({"backlight"}, Anything({"active"})) \in Commands({"backlight", "tone"})
          /\ LookAlways({"tone"}, Anything({"active"})) \in Commands({"backlight", "tone"})
          /\ Merge("active") \in Commands({"backlight", "tone"})
          /\ SetAll({"backlight", "tone"}, Live, Nothing) \in Commands({"backlight", "tone"})
          /\ LookAlways({"backlight"}, Wanted({"active"})) \in Commands({"backlight", "tone"})
          /\ LookAlways({"tone"}, Wanted({"active"})) \in Commands({"backlight", "tone"})
          /\ Save \in Commands({"backlight", "tone"})
          /\ LookAlways({"backlight", "tone"}, Wanted({"disk"})) \in Commands({"backlight", "tone"})
      BY MustsAre, CommandsIn DEF Places, Live
    <2> QED BY <1>1, <2>1 DEF Typed, Handler, update_imaging, ImagingWith, imaging_fields,
           imaging_state, imaging_section
  <1> HIDE DEF h
  <1>5. Asks(h) /\ Does(h)
    <2>1. \A p \in h.parts : \E j \in 1..3 - 1 :
            /\ h.before[j].do = "look" /\ h.before[j].always
            /\ p \in h.before[j].parts /\ {"active"} \subseteq DOMAIN h.before[j].must
      BY <1>1, <1>2, CommandsAre, MustsAre
    <2>2. h.parts = h.asked \union Followers(h) /\ \A p \in h.parts : Live \subseteq h.kind[p]
      BY <1>1 DEF Followers, LiveFields
    <2>3. Asks(h)
      BY <1>1, <1>2, <2>1, <2>2, CommandsAre DEF Asks
    <2> QED BY <1>1, <1>3, <2>3, CommandsAre DEF Does, Live
  <1>6. SavesAt(h, 1, 4)
    <2>1. /\ 1 \in 0..Len(h.after) /\ 4 \in 1 + 1..Len(h.after) /\ h.after[4].do = "save"
          /\ \A i \in 1..1 : h.after[i].do \in {"set", "look"}
          /\ \A i \in 1 + 1..Len(h.after) : i # 4 => h.after[i].do = "look"
      BY <1>3, CommandsAre
    <2>2. \A p \in h.asked : \E i \in 1..1 :
            h.after[i].do = "set" /\ p \in h.after[i].parts /\ "config" \in h.after[i].places
      BY <1>1, <1>3, CommandsAre DEF Live
    <2>3. /\ Finds(h.after[5], "disk")
          /\ Finds(h.after[2], "active") /\ Finds(h.after[3], "active")
      BY <1>3, CommandsAre, MustsAre DEF Finds, Tells, Live
    <2>4. \A p \in h.asked \union Followers(h) : LooksFrom(h, 4, p, "disk")
      BY <1>1, <1>3, <2>3, CommandsAre DEF LooksFrom, Followers, LiveFields
    <2>5. \A p \in h.asked : LooksFrom(h, 1, p, "active")
      BY <1>1, <1>3, <2>3, CommandsAre DEF LooksFrom
    <2> QED BY <1>1, <2>1, <2>2, <2>4, <2>5 DEF SavesAt, LiveFields
  <1>7. Excludes(h)
    <2>1. \A pair \in h.excludes : DOMAIN pair \subseteq h.parts
      BY <1>1
    <2>2. /\ \A i \in 1..Len(h.after) : h.after[i].do # "commit"
          /\ \A i \in 1..Len(h.after) : h.after[i].do = "set" => h.after[i].parts = h.asked
      BY <1>1, <1>3, CommandsAre
    <2>3. Len(h.before) > 0 /\ h.before[Len(h.before)].do = "merge"
      BY <1>2, CommandsAre
    <2> QED BY <1>1, <2>1, <2>2, <2>3 DEF Excludes, LiveFields
  <1> QED BY <1>1, <1>4, <1>5, <1>6, <1>7, LiveSaver DEF h

(* The policy of the recorder is merged.                                   *)
LEMMA RecorderIsSound ==
    Sound(update_recorder_config)
  <1> DEFINE h == update_recorder_config
  <1>1. LiveFields(h) /\ h.parts = {"limit", "duration"} /\ h.asked = {"limit", "duration"}
        /\ h.excludes = {[limit |-> 1, duration |-> 1]}
    BY KindsDiffer DEF LiveFields, Handler, update_recorder_config, recorder_observation,
           recorder_disk, recorder_config
  <1>2. /\ Len(h.before) = 3
        /\ h.before[1] = LookAlways({"limit"}, Anything({"active"}))
        /\ h.before[2] = LookAlways({"duration"}, Anything({"active"}))
        /\ h.before[3] = Merge("active")
    BY DEF Handler, update_recorder_config, recorder_observation, recorder_disk, recorder_config
  <1>3. /\ Len(h.after) = 8
        /\ h.after[1] = SetAll({"limit", "duration"}, Live, Nothing)
        /\ h.after[2] = LookAlways({"limit"}, Wanted({"active"}))
        /\ h.after[3] = LookAlways({"duration"}, Wanted({"active"}))
        /\ h.after[4] = Save
        /\ h.after[5] = LookAlways({"limit"}, Wanted({"disk"}))
        /\ h.after[6] = LookAlways({"duration"}, Wanted({"disk"}))
        /\ h.after[7] = LookAlways({"limit"}, Wanted({"active"}))
        /\ h.after[8] = LookAlways({"duration"}, Wanted({"active"}))
    BY DEF Handler, update_recorder_config, recorder_observation, recorder_disk, recorder_config
  <1>4. Typed(h)
    <2>1. /\ LookAlways({"limit"}, Anything({"active"})) \in Commands({"limit", "duration"})
          /\ LookAlways({"duration"}, Anything({"active"})) \in Commands({"limit", "duration"})
          /\ Merge("active") \in Commands({"limit", "duration"})
          /\ SetAll({"limit", "duration"}, Live, Nothing) \in Commands({"limit", "duration"})
          /\ LookAlways({"limit"}, Wanted({"active"})) \in Commands({"limit", "duration"})
          /\ LookAlways({"duration"}, Wanted({"active"})) \in Commands({"limit", "duration"})
          /\ Save \in Commands({"limit", "duration"})
          /\ LookAlways({"limit"}, Wanted({"disk"})) \in Commands({"limit", "duration"})
          /\ LookAlways({"duration"}, Wanted({"disk"})) \in Commands({"limit", "duration"})
      BY MustsAre, CommandsIn DEF Places, Live
    <2> QED BY <1>1, <2>1 DEF Typed, Handler, update_recorder_config, recorder_observation,
           recorder_disk, recorder_config
  <1> HIDE DEF h
  <1>5. Asks(h) /\ Does(h)
    <2>1. \A p \in h.parts : \E j \in 1..3 - 1 :
            /\ h.before[j].do = "look" /\ h.before[j].always
            /\ p \in h.before[j].parts /\ {"active"} \subseteq DOMAIN h.before[j].must
      BY <1>1, <1>2, CommandsAre, MustsAre
    <2>2. h.parts = h.asked \union Followers(h) /\ \A p \in h.parts : Live \subseteq h.kind[p]
      BY <1>1 DEF Followers, LiveFields
    <2>3. Asks(h)
      BY <1>1, <1>2, <2>1, <2>2, CommandsAre DEF Asks
    <2> QED BY <1>1, <1>3, <2>3, CommandsAre DEF Does, Live
  <1>6. SavesAt(h, 1, 4)
    <2>1. /\ 1 \in 0..Len(h.after) /\ 4 \in 1 + 1..Len(h.after) /\ h.after[4].do = "save"
          /\ \A i \in 1..1 : h.after[i].do \in {"set", "look"}
          /\ \A i \in 1 + 1..Len(h.after) : i # 4 => h.after[i].do = "look"
      BY <1>3, CommandsAre
    <2>2. \A p \in h.asked : \E i \in 1..1 :
            h.after[i].do = "set" /\ p \in h.after[i].parts /\ "config" \in h.after[i].places
      BY <1>1, <1>3, CommandsAre DEF Live
    <2>3. /\ Finds(h.after[5], "disk") /\ Finds(h.after[6], "disk")
          /\ Finds(h.after[2], "active") /\ Finds(h.after[3], "active") /\ Finds(h.after[7], "active") /\ Finds(h.after[8], "active")
      BY <1>3, CommandsAre, MustsAre DEF Finds, Tells, Live
    <2>4. \A p \in h.asked \union Followers(h) : LooksFrom(h, 4, p, "disk")
      BY <1>1, <1>3, <2>3, CommandsAre DEF LooksFrom, Followers, LiveFields
    <2>5. \A p \in h.asked : LooksFrom(h, 1, p, "active")
      BY <1>1, <1>3, <2>3, CommandsAre DEF LooksFrom
    <2> QED BY <1>1, <2>1, <2>2, <2>4, <2>5 DEF SavesAt, LiveFields
  <1>7. Excludes(h)
    <2>1. \A pair \in h.excludes : DOMAIN pair \subseteq h.parts
      BY <1>1
    <2>2. /\ \A i \in 1..Len(h.after) : h.after[i].do # "commit"
          /\ \A i \in 1..Len(h.after) : h.after[i].do = "set" => h.after[i].parts = h.asked
      BY <1>1, <1>3, CommandsAre
    <2>3. Len(h.before) > 0 /\ h.before[Len(h.before)].do = "merge"
      BY <1>2, CommandsAre
    <2> QED BY <1>1, <2>1, <2>2, <2>3 DEF Excludes, LiveFields
  <1> QED BY <1>1, <1>4, <1>5, <1>6, <1>7, LiveSaver DEF h

(* A command that the daemon checks and saves itself.                      *)
LEMMA CommitIsSound ==
    ASSUME NEW part
    PROVE  Sound(Handler({part}, Checked, <<>>, <<Commit({part}, Checked)>>, NoReport))
  <1> DEFINE h == Handler({part}, Checked, <<>>, <<Commit({part}, Checked)>>, NoReport)
  <1>1. /\ h.parts = {part} /\ h.asked = {part} /\ h.kind = [p \in {part} |-> Checked]
        /\ h.follows = {} /\ h.excludes = {} /\ h.owners = "one" /\ h.tellsPending = FALSE
        /\ h.report = NoReport
    BY KindsDiffer DEF Handler
  <1>2. Len(h.before) = 0 /\ Len(h.after) = 1 /\ h.after[1] = Commit({part}, Checked)
    BY DEF Handler
  <1>3. h.before \in Seq(Commands(h.parts)) /\ h.after \in Seq(Commands(h.parts))
    <2>1. Commit({part}, Checked) \in Commands({part})
      BY MustsAre, CommandsIn DEF Places, Checked
    <2> QED BY <1>1, <2>1 DEF Handler
  <1> HIDE DEF h
  <1>4. WellFormed(h) /\ Asks(h)
    BY <1>1, <1>2, <1>3 DEF WellFormed, Asks
  <1>5. Does(h) /\ CommitsAll(h)
    BY <1>1, <1>2, CommandsAre DEF Does, CommitsAll, Checked
  <1>6. Reports(h)
    BY <1>1, KindsDiffer, PlainReports
  <1> QED BY <1>1, <1>4, <1>5, <1>6 DEF Sound, Excludes, Announces, Assures, h

(* A handler of what is not saved, which looks at it last.                 *)
LEMMA SwitchIsSound ==
    ASSUME NEW h, h.asked \in SUBSET h.parts, h.kind = [part \in h.parts |-> Volatile],
           h.follows = {}, h.excludes = {}, h.owners = "one", h.tellsPending = FALSE,
           h.report = NoReport, Typed(h), Asks(h), Does(h), Len(h.after) > 0,
           Finds(h.after[Len(h.after)], "active"), h.asked \subseteq h.after[Len(h.after)].parts
    PROVE  Sound(h)
  <1>1. WellFormed(h)
    BY DEF Typed, WellFormed
  <1>2. Reports(h)
    BY KindsDiffer, PlainReports
  <1>3. SwitchesOnly(h)
    BY DEF SwitchesOnly
  <1> QED BY <1>1, <1>2, <1>3 DEF Sound, Excludes, Announces, Assures

(* The microphone and the infrared light are switched live.                *)
LEMMA LiveAudioIsSound == Sound(set_live_audio)
  <1> DEFINE h == set_live_audio
  <1>1. /\ h.parts = {"enabled", "muted"} /\ h.asked = {"enabled"}
        /\ h.kind = [part \in h.parts |-> Volatile] /\ h.follows = {} /\ h.excludes = {}
        /\ h.owners = "one" /\ h.tellsPending = FALSE /\ h.report = NoReport
    BY KindsDiffer DEF Handler, set_live_audio
  <1>2. /\ Len(h.before) = 2 /\ Len(h.after) = 3
        /\ h.before[1] = LookAlways({"muted"}, Anything({"active"}))
        /\ h.before[2] = Look("enabled", Anything({"active"}))
        /\ h.after[1] = Set("enabled", Volatile, Nothing)
        /\ h.after[2] = LookAlways({"muted"}, Unchanged({"active"}))
        /\ h.after[3] = Look("enabled", Wanted({"active"}))
    BY DEF Handler, set_live_audio, live_audio_observation
  <1>3. Typed(h)
    <2>1. /\ LookAlways({"muted"}, Anything({"active"})) \in Commands({"enabled", "muted"})
          /\ LookAlways({"muted"}, Unchanged({"active"})) \in Commands({"enabled", "muted"})
          /\ Look("enabled", Anything({"active"})) \in Commands({"enabled", "muted"})
          /\ Look("enabled", Wanted({"active"})) \in Commands({"enabled", "muted"})
          /\ Set("enabled", Volatile, Nothing) \in Commands({"enabled", "muted"})
      BY MustsAre, CommandsIn DEF Places, Volatile
    <2> QED BY <1>1, <2>1 DEF Typed, Handler, set_live_audio, live_audio_observation
  <1> HIDE DEF h
  <1>4. Asks(h) /\ Does(h)
    BY <1>1, <1>2, CommandsAre DEF Asks, Does, Volatile, Live
  <1>5. Finds(h.after[Len(h.after)], "active") /\ h.asked \subseteq h.after[Len(h.after)].parts
    BY <1>1, <1>2, CommandsAre, MustsAre DEF Finds, Tells
  <1>6. h.asked \in SUBSET h.parts /\ Len(h.after) > 0
    BY <1>1, <1>2
  <1> QED BY <1>1, <1>3, <1>4, <1>5, <1>6, SwitchIsSound DEF h

(* The infrared output is switched and looked at.                          *)
LEMMA IrOutputIsSound == Sound(set_ir_output)
  <1> DEFINE h == set_ir_output
  <1>1. /\ h.parts = {"output"} /\ h.asked = {"output"}
        /\ h.kind = [part \in h.parts |-> Volatile] /\ h.follows = {} /\ h.excludes = {}
        /\ h.owners = "one" /\ h.tellsPending = FALSE /\ h.report = NoReport
    BY KindsDiffer DEF Handler, set_ir_output
  <1>2. /\ Len(h.before) = 1 /\ Len(h.after) = 2
        /\ h.before[1] = Look("output", Anything({"active"}))
        /\ h.after[1] = Set("output", Volatile, Wanted({"active"}))
        /\ h.after[2] = Look("output", Wanted({"active"}))
    BY DEF Handler, set_ir_output, ir_output_state
  <1>3. Typed(h)
    <2>1. /\ Look("output", Anything({"active"})) \in Commands({"output"})
          /\ Look("output", Wanted({"active"})) \in Commands({"output"})
          /\ Set("output", Volatile, Wanted({"active"})) \in Commands({"output"})
      BY MustsAre, CommandsIn DEF Places, Volatile
    <2> QED BY <1>1, <2>1 DEF Typed, Handler, set_ir_output, ir_output_state
  <1> HIDE DEF h
  <1>4. Asks(h) /\ Does(h)
    BY <1>1, <1>2, CommandsAre DEF Asks, Does, Volatile, Live
  <1>5. Finds(h.after[Len(h.after)], "active") /\ h.asked \subseteq h.after[Len(h.after)].parts
    BY <1>1, <1>2, CommandsAre, MustsAre DEF Finds, Tells
  <1>6. h.asked \in SUBSET h.parts /\ Len(h.after) > 0
    BY <1>1, <1>2
  <1> QED BY <1>1, <1>3, <1>4, <1>5, <1>6, SwitchIsSound DEF h

(* So are those that answer with plain errors.                             *)
LEMMA PlainSwitchesAreSound ==
    Sound(set_color) /\ Sound(set_privacy) /\ Sound(set_daynight_mode) /\ Sound(live_motion)
  <1> DEFINE Switch(b) == [Handler({"switch"}, Volatile, b,
                             <<Set("switch", Volatile, Nothing), Look("switch", Wanted({"active"}))>>,
                             NoReport) EXCEPT !.plain = TRUE]
             looks == <<Look("switch", Anything({"active"}))>>
  <1>1. ASSUME NEW b \in {<<>>, looks} PROVE Sound(Switch(b))
    <2> DEFINE h == Switch(b)
    <2>1. /\ h.parts = {"switch"} /\ h.asked = {"switch"}
          /\ h.kind = [part \in h.parts |-> Volatile] /\ h.follows = {} /\ h.excludes = {}
          /\ h.owners = "one" /\ h.tellsPending = FALSE /\ h.report = NoReport /\ h.before = b
      BY KindsDiffer DEF Handler
    <2>2. /\ Len(h.after) = 2
          /\ h.after[1] = Set("switch", Volatile, Nothing)
          /\ h.after[2] = Look("switch", Wanted({"active"}))
      BY DEF Handler
    <2>3. Typed(h)
      <3>1. /\ Look("switch", Anything({"active"})) \in Commands({"switch"})
            /\ Look("switch", Wanted({"active"})) \in Commands({"switch"})
            /\ Set("switch", Volatile, Nothing) \in Commands({"switch"})
        BY MustsAre, CommandsIn DEF Places, Volatile
      <3>2. b \in Seq(Commands({"switch"}))
        <4>1. looks \in Seq(Commands({"switch"})) /\ <<>> \in Seq(Commands({"switch"}))
          BY <3>1
        <4> HIDE DEF looks
        <4> QED BY <4>1
      <3> QED BY <2>1, <3>1, <3>2 DEF Typed, Handler
    <2>4. \A i \in 1..Len(b) : b[i] = Look("switch", Anything({"active"}))
      OBVIOUS
    <2> HIDE DEF h
    <2>5. Asks(h) /\ Does(h)
      BY <2>1, <2>2, <2>4, CommandsAre DEF Asks, Does, Volatile, Live
    <2>6. Finds(h.after[Len(h.after)], "active") /\ h.asked \subseteq h.after[Len(h.after)].parts
      BY <2>1, <2>2, CommandsAre, MustsAre DEF Finds, Tells
    <2>7. h.asked \in SUBSET h.parts /\ Len(h.after) > 0
      BY <2>1, <2>2
    <2> QED BY <2>1, <2>3, <2>5, <2>6, <2>7, SwitchIsSound DEF h
  <1>2. set_color = Switch(<<>>) /\ set_privacy = Switch(<<>>) /\ set_daynight_mode = Switch(<<>>)
    BY DEF set_color, set_privacy, set_daynight_mode, PlainSwitch, color_state, privacy_state,
           ric_mode
  <1>3. live_motion = Switch(looks)
    BY DEF live_motion, PlainSwitch, motion_status
  <1> HIDE DEF Switch, looks
  <1> QED BY <1>1, <1>2, <1>3

(* The buffers can only be read.                                           *)
LEMMA BuffersAreSound == Sound(stream_buffers)
  <1> DEFINE h == stream_buffers
  <1>1. /\ h.parts = {"main"} /\ h.asked = {"main"} /\ h.kind = [part \in {"main"} |-> Restart]
        /\ h.follows = {} /\ h.excludes = {} /\ h.owners = "one" /\ h.before = <<>> /\ h.after = <<>>
        /\ h.report = stream_buffer_report
    BY DEF Handler, stream_buffers
  <1>2. /\ h.report.compares = Places /\ h.report.tellsPending = FALSE
        /\ Len(h.report.looks) = 2 /\ h.report.looks[1] = Live /\ h.report.looks[2] = {"disk"}
        /\ h.report.looks \in Seq(SUBSET Places)
    BY <1>1 DEF stream_buffer_report, Report, Live, Places
  <1> HIDE DEF h
  <1>3. WellFormed(h)
    BY <1>1 DEF WellFormed
  <1>4. Asks(h) /\ Does(h) /\ Excludes(h) /\ Announces(h) /\ Assures(h)
    BY <1>1 DEF Asks, Does, Excludes, Announces, Assures
  <1>5. Reports(h)
    <2>1. \A part \in h.asked : Measure(h, part) = "config"
      BY <1>1, <1>2 DEF Measure
    <2> QED BY <1>2, <2>1 DEF Reports, Places, Live
  <1> QED BY <1>3, <1>4, <1>5 DEF Sound, h

(* The timezone is written, then loaded by one process after the other.    *)
LEMMA TimezoneIsSound == Sound(update_time_config)
  <1> DEFINE h == update_time_config
             P == {"rvd", "rod"}
  <1>1. /\ h.parts = P /\ h.asked = P /\ h.kind = [part \in P |-> Live]
        /\ h.follows = {} /\ h.excludes = {} /\ h.owners = "each" /\ h.tellsPending = FALSE
        /\ h.report = time_config
    BY KindsDiffer DEF Handler, update_time_config
  <1>2. /\ Len(h.before) = 2
        /\ h.before[1] = Look("rvd", Anything({"active"}))
        /\ h.before[2] = Look("rod", Anything({"active"}))
    BY DEF Handler, update_time_config, timezone_status, timezone_reload, timezone_matches
  <1>3. /\ Len(h.after) = 6
        /\ h.after[1] = Commit({"rvd", "rod"}, File)
        /\ h.after[2] = Set("rvd", Live, Wanted(Live))
        /\ h.after[3] = Set("rod", Live, Wanted(Live))
        /\ h.after[4] = Look("rvd", Wanted(Live))
        /\ h.after[5] = Look("rod", Wanted(Live))
        /\ h.after[6] = LookAlways({"rvd", "rod"}, Wanted({"disk"}))
    BY DEF Handler, update_time_config, timezone_status, timezone_reload, timezone_matches
  <1>4. Typed(h)
    <2>1. /\ Commit({"rvd", "rod"}, File) \in Commands(P)
          /\ LookAlways({"rvd", "rod"}, Wanted({"disk"})) \in Commands(P)
          /\ \A d \in P : /\ Look(d, Anything({"active"})) \in Commands(P)
                          /\ Look(d, Wanted(Live)) \in Commands(P)
                          /\ Set(d, Live, Wanted(Live)) \in Commands(P)
      BY MustsAre, CommandsIn DEF Places, Live, File
    <2> QED BY <1>1, <2>1 DEF Typed, Handler, update_time_config, timezone_status, timezone_reload,
                              timezone_matches
  <1> HIDE DEF h
  <1>5. Asks(h) /\ Does(h)
    BY <1>1, <1>2, <1>3, CommandsAre DEF Asks, Does, Live
  <1>6. WellFormed(h) /\ Excludes(h) /\ Announces(h)
    BY <1>1, <1>4 DEF WellFormed, Typed, Excludes, Announces
  <1>7. Reports(h)
    <2>1. /\ h.report.compares = {"active", "disk"} /\ h.report.tellsPending = FALSE
          /\ Len(h.report.looks) = 3 /\ h.report.looks[1] = {"disk"} /\ h.report.looks[2] = {"active"}
          /\ h.report.looks \in Seq(SUBSET Places)
      BY <1>1 DEF time_config, Report, Places
    <2>2. \A part \in h.asked : Measure(h, part) = "active"
      BY <1>1, KindsDiffer DEF Measure
    <2> QED BY <2>1, <2>2 DEF Reports, Places
  <1>8. LoadsFrom(h, 3)
    <2>1. \A p \in h.asked, place \in Live : LooksFrom(h, 3, p, place)
      <3>1. \A place \in Live : Finds(h.after[4], place) /\ Finds(h.after[5], place)
        BY <1>3, CommandsAre, MustsAre DEF Finds, Tells
      <3> QED BY <1>1, <1>3, <3>1, CommandsAre DEF LooksFrom
    <2>2. h.before # <<>>
      BY <1>2
    <2> QED BY <1>1, <1>3, <2>1, <2>2, CommandsAre DEF LoadsFrom
  <1>9. Assures(h)
    BY <1>3, <1>8 DEF Assures
  <1> QED BY <1>5, <1>6, <1>7, <1>9 DEF Sound, h

(* A handler that saves what waits for a restart.                          *)
LEMMA RestartSaver ==
    ASSUME NEW h, h.asked \in SUBSET h.parts, h.kind = [part \in h.parts |-> Restart],
           h.follows \subseteq (h.parts \ h.asked) \X h.asked, h.owners \in {"one", "two", "each"},
           Typed(h), Asks(h), Does(h), Excludes(h), Announces(h), Reports(h),
           NEW n, NEW m, SavesAt(h, n, m)
    PROVE  Sound(h)
  <1>1. WellFormed(h)
    BY DEF Typed, WellFormed
  <1>2. n \in 0..Len(h.after) /\ m \in 0..Len(h.after)
    <2>1. Len(h.after) \in Nat
      BY LenProperties DEF Typed
    <2> QED BY <2>1 DEF SavesAt
  <1>3. Assures(h)
    BY <1>2 DEF Assures
  <1> QED BY <1>1, <1>3 DEF Sound

(* How it reports of the restart.                                          *)
LEMMA RestartReports ==
    ASSUME NEW h, OnlyPrepares(h), h.report.tellsPending = TRUE,
           h.report.compares = {"active", "disk"}, h.report.looks \in Seq(SUBSET Places),
           \A place \in {"active", "disk"} : \E i \in 1..Len(h.report.looks) : place \in h.report.looks[i]
    PROVE  Reports(h)
  <1>1. \A part \in h.asked : Measure(h, part) = "active"
    BY DEF Measure
  <1> QED BY <1>1 DEF Reports, Places

(* The modes of the encoders wait for a restart.                           *)
LEMMA GopModeIsSound == Sound(update_gop_mode)
  <1> DEFINE h == update_gop_mode
  <1>1. /\ h.parts = {"main", "sub"} /\ h.asked = {"main", "sub"} /\ h.kind = [part \in h.parts |-> Restart]
        /\ h.follows = {} /\ h.excludes = {} /\ h.owners = "one" /\ h.tellsPending = TRUE
        /\ h.report = RestartReport
    BY DEF Handler, update_gop_mode, RestartStreams, gop_mode_report, Streams
  <1>2. /\ Len(h.before) = 2
        /\ h.before[1] = Look("main", Anything({"active"}))
        /\ h.before[2] = Look("sub", Anything({"active"}))
    BY DEF Handler, update_gop_mode, RestartStreams, EachStream, ForBoth,
           stream_gop_mode_observation,
           stream_disk_gop_mode
  <1>3. /\ Len(h.after) = 7
        /\ h.after[1] = Set("main", Restart, Waits({"active"}))
        /\ h.after[2] = Set("sub", Restart, Waits({"active"}))
        /\ h.after[3] = Save
        /\ h.after[4] = Look("main", Wanted({"disk"}))
        /\ h.after[5] = Look("main", Unchanged({"active"}))
        /\ h.after[6] = Look("sub", Wanted({"disk"}))
        /\ h.after[7] = Look("sub", Unchanged({"active"}))
    BY DEF Handler, update_gop_mode, RestartStreams, EachStream, ForBoth,
           stream_gop_mode_observation,
           stream_disk_gop_mode
  <1>4. Typed(h)
    <2>1. /\ Save \in Commands({"main", "sub"})
          /\ \A s \in {"main", "sub"} :
               /\ Look(s, Anything({"active"})) \in Commands({"main", "sub"})
               /\ Set(s, Restart, Waits({"active"})) \in Commands({"main", "sub"})
               /\ Look(s, Wanted({"disk"})) \in Commands({"main", "sub"})
               /\ Look(s, Unchanged({"active"})) \in Commands({"main", "sub"})
      BY MustsAre, CommandsIn DEF Places, Restart
    <2> QED BY <1>1, <2>1 DEF Typed, Handler, update_gop_mode, RestartStreams, EachStream, ForBoth,
                              stream_gop_mode_observation, stream_disk_gop_mode
  <1> HIDE DEF h
  <1>5. Asks(h) /\ Does(h) /\ OnlyPrepares(h)
    BY <1>1, <1>2, <1>3, CommandsAre DEF Asks, Does, OnlyPrepares, Live, Restart
  <1>6. Announces(h)
    <2>1. /\ Tells(h.after[5], "active", "unchanged") /\ Tells(h.after[7], "active", "unchanged")
      BY <1>3, CommandsAre, MustsAre DEF Tells
    <2> QED BY <1>1, <1>3, <1>5, <2>1, CommandsAre, SMTT(30) DEF Announces
  <1>7. Reports(h)
    <2>1. /\ h.report.looks = <<{"active"}, {"disk"}>> /\ h.report.compares = {"active", "disk"}
          /\ h.report.tellsPending = TRUE
      BY <1>1 DEF RestartReport, Report
    <2>2. /\ h.report.looks \in Seq(SUBSET Places) /\ Len(h.report.looks) = 2
          /\ h.report.looks[1] = {"active"} /\ h.report.looks[2] = {"disk"}
      BY <2>1 DEF Places
    <2>3. \A place \in {"active", "disk"} : \E i \in 1..Len(h.report.looks) : place \in h.report.looks[i]
      BY <2>2
    <2>4. h.report.looks \in Seq(SUBSET Places)
      BY <2>2
    <2> QED BY <1>5, <2>1, <2>3, <2>4, RestartReports
  <1>8. SavesAt(h, 2, 3)
    <2>1. Finds(h.after[4], "disk") /\ Finds(h.after[6], "disk")
      BY <1>3, CommandsAre, MustsAre DEF Finds, Tells
    <2>2. \A p \in h.asked \union Followers(h) : LooksFrom(h, 3, p, "disk")
      BY <1>1, <1>3, <2>1, CommandsAre DEF LooksFrom, Followers
    <2>3. \A p \in h.asked : \E i \in 1..2 :
            h.after[i].do = "set" /\ p \in h.after[i].parts /\ "config" \in h.after[i].places
      BY <1>1, <1>3, CommandsAre DEF Restart
    <2>4. \A p \in h.asked : h.kind[p] # Live
      BY <1>1, KindsDiffer
    <2>5. /\ 2 \in 0..Len(h.after) /\ 3 \in 2 + 1..Len(h.after) /\ h.after[3].do = "save"
          /\ \A i \in 1..2 : h.after[i].do \in {"set", "look"}
          /\ \A i \in 2 + 1..Len(h.after) : i # 3 => h.after[i].do = "look"
      BY <1>3, CommandsAre
    <2> QED BY <1>1, <2>2, <2>3, <2>4, <2>5 DEF SavesAt
  <1> QED BY <1>1, <1>4, <1>5, <1>6, <1>7, <1>8, RestartSaver DEF Excludes, h

(* The rate control is handled as the GOP mode is.                         *)
LEMMA RcConfigIsSound == Sound(update_rc_config)
  <1>1. update_rc_config = update_gop_mode
    BY DEF update_rc_config, update_gop_mode, RestartStreams, stream_rc_config_observation,
           stream_disk_rc_config, rc_config_report, stream_gop_mode_observation, stream_disk_gop_mode,
           gop_mode_report
  <1> QED BY <1>1, GopModeIsSound

(* The sub stream is switched off with the next start.                     *)
LEMMA EnabledIsSound == Sound(update_enabled)
  <1> DEFINE h == update_enabled
             kept == [config |-> "wanted", active |-> "unchanged"]
  <1>0. kept \in Musts /\ DOMAIN kept = {"config", "active"} /\ kept["active"] = "unchanged"
    <2>1. kept \in [{"config", "active"} -> {"any", "wanted", "unchanged", "waits"}]
      OBVIOUS
    <2>2. {"config", "active"} \in SUBSET Places
      BY DEF Places
    <2> QED BY <2>1, <2>2 DEF Musts
  <1>1. /\ h.parts = {"sub"} /\ h.asked = {"sub"} /\ h.kind = [part \in h.parts |-> Restart]
        /\ h.follows = {} /\ h.excludes = {} /\ h.owners = "one" /\ h.tellsPending = TRUE
        /\ h.report = enabled_report
    BY DEF Handler, update_enabled
  <1>2. /\ Len(h.before) = 2
        /\ h.before[1] = Look("sub", Anything(Live))
        /\ h.before[2] = Look("sub", Anything({"disk"}))
    BY DEF Handler, update_enabled, stream_enable_observation, stream_disk_enabled
  <1>3. /\ Len(h.after) = 4
        /\ h.after[1] = Set("sub", Restart, kept)
        /\ h.after[2] = Save
        /\ h.after[3] = Look("sub", kept)
        /\ h.after[4] = Look("sub", Wanted({"disk"}))
    BY DEF Handler, update_enabled, stream_enable_observation, stream_disk_enabled
  <1>4. Typed(h)
    <2>1. /\ Look("sub", Anything(Live)) \in Commands({"sub"})
          /\ Look("sub", Anything({"disk"})) \in Commands({"sub"})
          /\ Look("sub", Wanted({"disk"})) \in Commands({"sub"})
          /\ Save \in Commands({"sub"})
      BY MustsAre, CommandsIn DEF Places, Live
    <2>2. Set("sub", Restart, kept) \in Commands({"sub"}) /\ Look("sub", kept) \in Commands({"sub"})
      <3> HIDE DEF kept
      <3> QED BY <1>0, CommandsIn DEF Places, Restart
    <2> QED BY <1>1, <2>1, <2>2 DEF Typed, Handler, update_enabled, stream_enable_observation,
                                    stream_disk_enabled
  <1> HIDE DEF h, kept
  <1>5. Asks(h) /\ Does(h) /\ OnlyPrepares(h)
    BY <1>1, <1>2, <1>3, CommandsAre DEF Asks, Does, OnlyPrepares, Live, Restart
  <1>6. Announces(h)
    <2>1. Tells(h.after[3], "active", "unchanged")
      BY <1>0, <1>3, CommandsAre DEF Tells
    <2>2. "active" \notin DOMAIN h.after[4].must
      BY <1>3, CommandsAre, MustsAre
    <2> QED BY <1>1, <1>3, <1>5, <2>1, <2>2, CommandsAre DEF Announces
  <1>7. Reports(h)
    <2>1. /\ h.report.looks = <<{"active", "config"}, {"disk"}>> /\ h.report.compares = {"active", "disk"}
          /\ h.report.tellsPending = TRUE
      BY <1>1 DEF enabled_report, Report
    <2>2. /\ h.report.looks \in Seq(SUBSET Places) /\ Len(h.report.looks) = 2
          /\ h.report.looks[1] = {"active", "config"} /\ h.report.looks[2] = {"disk"}
      BY <2>1 DEF Places
    <2>3. \A place \in {"active", "disk"} : \E i \in 1..Len(h.report.looks) : place \in h.report.looks[i]
      BY <2>2
    <2>4. h.report.looks \in Seq(SUBSET Places)
      BY <2>2
    <2> QED BY <1>5, <2>1, <2>3, <2>4, RestartReports
  <1>8. SavesAt(h, 1, 2)
    <2>1. Finds(h.after[4], "disk")
      BY <1>3, CommandsAre, MustsAre DEF Finds, Tells
    <2>2. \A p \in h.asked \union Followers(h) : LooksFrom(h, 2, p, "disk")
      BY <1>1, <1>3, <2>1, CommandsAre DEF LooksFrom, Followers
    <2>3. \A p \in h.asked : \E i \in 1..1 :
            h.after[i].do = "set" /\ p \in h.after[i].parts /\ "config" \in h.after[i].places
      BY <1>1, <1>3, CommandsAre DEF Restart
    <2>4. \A p \in h.asked : h.kind[p] # Live
      BY <1>1, KindsDiffer
    <2>5. /\ 1 \in 0..Len(h.after) /\ 2 \in 1 + 1..Len(h.after) /\ h.after[2].do = "save"
          /\ \A i \in 1..1 : h.after[i].do \in {"set", "look"}
          /\ \A i \in 1 + 1..Len(h.after) : i # 2 => h.after[i].do = "look"
      BY <1>3, CommandsAre
    <2> QED BY <1>1, <2>2, <2>3, <2>4, <2>5 DEF SavesAt
  <1> QED BY <1>1, <1>4, <1>5, <1>6, <1>7, <1>8, RestartSaver DEF Excludes, h

(* Whether streams have sound: two processes learn of it when they start.  *)
LEMMA AudioInclusionIsSound == Sound(update_audio_inclusion)
  <1> DEFINE h == update_audio_inclusion
             P == {"main", "sub"}
             config == [config |-> "wanted"]
             active == [active |-> "unchanged"]
             config0 == [config |-> "any"]
             active0 == [active |-> "any"]
  <1>0. /\ {config, active, config0, active0} \subseteq Musts
        /\ DOMAIN config = {"config"} /\ DOMAIN active = {"active"} /\ active["active"] = "unchanged"
    <2>1. \A S \in SUBSET Places : \A f \in [S -> {"any", "wanted", "unchanged", "waits"}] : f \in Musts
      BY DEF Musts
    <2>2. /\ config \in [{"config"} -> {"any", "wanted", "unchanged", "waits"}]
          /\ active \in [{"active"} -> {"any", "wanted", "unchanged", "waits"}]
          /\ config0 \in [{"config"} -> {"any", "wanted", "unchanged", "waits"}]
          /\ active0 \in [{"active"} -> {"any", "wanted", "unchanged", "waits"}]
      OBVIOUS
    <2>3. {"config"} \in SUBSET Places /\ {"active"} \in SUBSET Places
      BY DEF Places
    <2> QED BY <2>1, <2>2, <2>3
  <1>1. /\ h.parts = P /\ h.asked = P /\ h.kind = [part \in h.parts |-> Restart]
        /\ h.follows = {} /\ h.excludes = {} /\ h.owners = "two" /\ h.tellsPending = TRUE
        /\ h.report = audio_inclusion_report
    BY DEF Handler, update_audio_inclusion, Streams
  <1>2. /\ Len(h.before) = 4
        /\ h.before[1] = Look("main", config0) /\ h.before[2] = Look("main", active0)
        /\ h.before[3] = Look("sub", config0) /\ h.before[4] = Look("sub", active0)
    BY DEF Handler, update_audio_inclusion, EachStream, ForBoth, stream_audio_observation,
           stream_audio_configured, stream_audio_owner, stream_disk_audio_enabled
  <1>3. /\ Len(h.after) = 9
        /\ h.after[1] = Set("main", Restart, Wanted({"config"}))
        /\ h.after[2] = Set("sub", Restart, Wanted({"config"}))
        /\ h.after[3] = Save
        /\ h.after[4] = Look("main", Wanted({"disk"}))
        /\ h.after[5] = Look("main", config) /\ h.after[6] = Look("main", active)
        /\ h.after[7] = Look("sub", Wanted({"disk"}))
        /\ h.after[8] = Look("sub", config) /\ h.after[9] = Look("sub", active)
    BY DEF Handler, update_audio_inclusion, EachStream, ForBoth, stream_audio_observation,
           stream_audio_configured, stream_audio_owner, stream_disk_audio_enabled
  <1>4. Typed(h)
    <2>1. /\ Save \in Commands(P)
          /\ \A s \in P : /\ Set(s, Restart, Wanted({"config"})) \in Commands(P)
                          /\ Look(s, Wanted({"disk"})) \in Commands(P)
      BY MustsAre, CommandsIn DEF Places, Restart
    <2>2. \A s \in P : /\ Look(s, config) \in Commands(P) /\ Look(s, active) \in Commands(P)
                       /\ Look(s, config0) \in Commands(P) /\ Look(s, active0) \in Commands(P)
      <3> HIDE DEF config, active, config0, active0
      <3> QED BY <1>0, CommandsIn DEF Places
    <2> QED BY <1>1, <2>1, <2>2 DEF Typed, Handler, update_audio_inclusion, EachStream, ForBoth,
               stream_audio_observation, stream_audio_configured, stream_audio_owner,
               stream_disk_audio_enabled
  <1> HIDE DEF h, config, active, config0, active0
  <1>5. Asks(h) /\ Does(h) /\ OnlyPrepares(h)
    BY <1>1, <1>2, <1>3, CommandsAre DEF Asks, Does, OnlyPrepares, Live, Restart
  <1>6. Announces(h)
    <2>1. Tells(h.after[6], "active", "unchanged") /\ Tells(h.after[9], "active", "unchanged")
      BY <1>0, <1>3, CommandsAre DEF Tells
    <2>2. h.after[6].do = "look" /\ h.after[6].parts = {"main"}
      BY <1>3, CommandsAre
    <2>3. \A k \in 7..9 : h.after[k].parts = {"sub"}
      BY <1>3, CommandsAre
    <2>4. h.after[9].do = "look"
      BY <1>3, CommandsAre
    <2>5. ASSUME NEW p \in h.asked
          PROVE  \E j \in 1..Len(h.after) :
                   /\ h.after[j].do = "look" /\ p \in h.after[j].parts
                   /\ Tells(h.after[j], "active", "unchanged")
                   /\ \A k \in j + 1..Len(h.after) :
                        p \in h.after[k].parts /\ "active" \in DOMAIN h.after[k].must =>
                            h.after[k].do = "look" /\ Tells(h.after[k], "active", "unchanged")
      <3>1. CASE p = "main"
        <4>1. 6 \in 1..Len(h.after) /\ \A k \in 6 + 1..Len(h.after) : p \notin h.after[k].parts
          BY <1>3, <2>3, <3>1
        <4> QED BY <2>1, <2>2, <3>1, <4>1
      <3>2. CASE p = "sub"
        <4>1. 9 \in 1..Len(h.after) /\ 9 + 1..Len(h.after) = {} /\ p \in h.after[9].parts
          BY <1>3, <2>3, <3>2
        <4> QED BY <2>1, <2>4, <4>1
      <3> QED BY <1>1, <3>1, <3>2
    <2> QED BY <1>5, <2>5 DEF Announces
  <1>7. Reports(h)
    <2>1. /\ h.report.looks = <<{"config"}, {"active"}, {"disk"}>>
          /\ h.report.compares = {"active", "disk"} /\ h.report.tellsPending = TRUE
      BY <1>1 DEF audio_inclusion_report, Report
    <2>2. /\ h.report.looks \in Seq(SUBSET Places) /\ Len(h.report.looks) = 3
          /\ h.report.looks[2] = {"active"} /\ h.report.looks[3] = {"disk"}
      BY <2>1 DEF Places
    <2>3. \A place \in {"active", "disk"} : \E i \in 1..Len(h.report.looks) : place \in h.report.looks[i]
      BY <2>2
    <2>4. h.report.looks \in Seq(SUBSET Places)
      BY <2>2
    <2> QED BY <1>5, <2>1, <2>3, <2>4, RestartReports
  <1>8. SavesAt(h, 2, 3)
    <2>1. Finds(h.after[4], "disk") /\ Finds(h.after[7], "disk")
      BY <1>3, CommandsAre, MustsAre DEF Finds, Tells
    <2>2. \A p \in h.asked \union Followers(h) : LooksFrom(h, 3, p, "disk")
      BY <1>1, <1>3, <2>1, CommandsAre DEF LooksFrom, Followers
    <2>3. \A p \in h.asked : \E i \in 1..2 :
            h.after[i].do = "set" /\ p \in h.after[i].parts /\ "config" \in h.after[i].places
      BY <1>1, <1>3, CommandsAre DEF Restart
    <2>4. \A p \in h.asked : h.kind[p] # Live
      BY <1>1, KindsDiffer
    <2>5. /\ 2 \in 0..Len(h.after) /\ 3 \in 2 + 1..Len(h.after) /\ h.after[3].do = "save"
          /\ \A i \in 1..2 : h.after[i].do \in {"set", "look"}
          /\ \A i \in 2 + 1..Len(h.after) : i # 3 => h.after[i].do = "look"
      BY <1>3, CommandsAre
    <2> QED BY <1>1, <2>2, <2>3, <2>4, <2>5 DEF SavesAt
  <1> QED BY <1>1, <1>4, <1>5, <1>6, <1>7, <1>8, RestartSaver DEF Excludes, h

(* The mode of the next start.                                             *)
LEMMA InitialModeIsSound == Sound(set_daynight_initial_mode)
  <1> DEFINE h == set_daynight_initial_mode
             kept == [config |-> "wanted", active |-> "unchanged"]
             any  == [config |-> "any", active |-> "any"]
  <1>0. kept \in Musts /\ any \in Musts
    <2>1. kept \in [{"config", "active"} -> {"any", "wanted", "unchanged", "waits"}]
          /\ any \in [{"config", "active"} -> {"any", "wanted", "unchanged", "waits"}]
      OBVIOUS
    <2>2. {"config", "active"} \in SUBSET Places
      BY DEF Places
    <2> QED BY <2>1, <2>2 DEF Musts
  <1>1. /\ h.parts = {"initial"} /\ h.asked = {"initial"} /\ h.kind = [part \in h.parts |-> Restart]
        /\ h.follows = {} /\ h.excludes = {} /\ h.owners = "one" /\ h.tellsPending = FALSE
        /\ h.report = startup_report
    BY DEF Handler, set_daynight_initial_mode
  <1>2. Len(h.before) = 1 /\ h.before[1] = Look("initial", any)
    BY DEF Handler, set_daynight_initial_mode, startup_observation, daynight_observation
  <1>3. /\ Len(h.after) = 5
        /\ h.after[1] = Set("initial", Restart, Nothing)
        /\ h.after[2] = Look("initial", kept)
        /\ h.after[3] = Save
        /\ h.after[4] = Look("initial", Wanted({"disk"}))
        /\ h.after[5] = Look("initial", kept)
    BY DEF Handler, set_daynight_initial_mode, startup_observation, daynight_observation,
           saved_initial_mode, daynight_disk_section
  <1>4. Typed(h)
    <2>1. /\ Save \in Commands({"initial"})
          /\ Set("initial", Restart, Nothing) \in Commands({"initial"})
          /\ Look("initial", Wanted({"disk"})) \in Commands({"initial"})
      BY MustsAre, CommandsIn DEF Places, Restart
    <2>2. Look("initial", kept) \in Commands({"initial"}) /\ Look("initial", any) \in Commands({"initial"})
      <3> HIDE DEF kept, any
      <3> QED BY <1>0, CommandsIn DEF Places
    <2> QED BY <1>1, <2>1, <2>2 DEF Typed, Handler, set_daynight_initial_mode, startup_observation,
               daynight_observation, saved_initial_mode, daynight_disk_section
  <1> HIDE DEF h, kept, any
  <1>5. Asks(h) /\ Does(h) /\ Announces(h)
    BY <1>1, <1>2, <1>3, CommandsAre DEF Asks, Does, Announces, Live, Restart
  <1>6. Reports(h)
    <2>1. /\ h.report.looks = <<{"active", "config"}, {"disk"}>> /\ h.report.compares = {"config", "disk"}
          /\ h.report.tellsPending = FALSE
      BY <1>1 DEF startup_report, Report, Live
    <2>2. /\ h.report.looks \in Seq(SUBSET Places) /\ Len(h.report.looks) = 2
          /\ h.report.looks[1] = {"active", "config"} /\ h.report.looks[2] = {"disk"}
      BY <2>1 DEF Places
    <2>3. \A part \in h.asked : Measure(h, part) = "config"
      BY <1>1, <2>1 DEF Measure
    <2> QED BY <2>1, <2>2, <2>3 DEF Reports, Places
  <1>7. SavesAt(h, 1, 3)
    <2>1. Finds(h.after[4], "disk")
      BY <1>3, CommandsAre, MustsAre DEF Finds, Tells
    <2>2. \A p \in h.asked \union Followers(h) : LooksFrom(h, 3, p, "disk")
      BY <1>1, <1>3, <2>1, CommandsAre DEF LooksFrom, Followers
    <2>3. \A p \in h.asked : \E i \in 1..1 :
            h.after[i].do = "set" /\ p \in h.after[i].parts /\ "config" \in h.after[i].places
      BY <1>1, <1>3, CommandsAre DEF Restart
    <2>4. \A p \in h.asked : h.kind[p] # Live
      BY <1>1, KindsDiffer
    <2>5. /\ 1 \in 0..Len(h.after) /\ 3 \in 1 + 1..Len(h.after) /\ h.after[3].do = "save"
          /\ \A i \in 1..1 : h.after[i].do \in {"set", "look"}
          /\ \A i \in 1 + 1..Len(h.after) : i # 3 => h.after[i].do = "look"
      BY <1>3, CommandsAre
    <2> QED BY <1>1, <2>2, <2>3, <2>4, <2>5 DEF SavesAt
  <1> QED BY <1>1, <1>4, <1>5, <1>6, <1>7, RestartSaver DEF Excludes, h

(* The sizes of the streams, and the region that follows them.             *)
LEMMA GeometryIsSound == Sound(update_geometry)
  <1> DEFINE h == update_geometry
             P == {"main", "sub", "roi"}
             Q == {"main", "sub"}
             LooksAt(s, m) == LookAlways({s}, m)
  <1>1. /\ h.parts = P /\ h.asked = Q /\ h.kind = [part \in h.parts |-> Restart]
        /\ h.follows = {<<"roi", "sub">>} /\ h.owners = "one" /\ h.tellsPending = TRUE
        /\ h.excludes = {[main |-> 1, sub |-> 1], [sub |-> 0, roi |-> 1]}
        /\ h.report = RestartReport
    BY DEF Handler, update_geometry, geometry_report, Streams
  <1>2. /\ Len(h.before) = 6
        /\ h.before[1] = LooksAt("main", Anything({"active"}))
        /\ h.before[2] = LooksAt("sub", Anything({"active"}))
        /\ h.before[3] = LooksAt("main", Anything({"disk"}))
        /\ h.before[4] = LooksAt("sub", Anything({"disk"}))
        /\ h.before[5] = LooksAt("roi", Anything({"disk"}))
        /\ h.before[6] = Merge("disk")
    BY DEF Handler, update_geometry, EachStream, ForBoth, stream_geometry_observation,
           stream_disk_geometry, stream_disk_motion_roi
  <1>3. /\ Len(h.after) = 7
        /\ h.after[1] = SetAll(Q, Restart, Waits({"active"}))
        /\ h.after[2] = Save
        /\ h.after[3] = LooksAt("roi", Wanted({"disk"}))
        /\ h.after[4] = LooksAt("main", Wanted({"disk"}))
        /\ h.after[5] = LooksAt("main", Unchanged({"active"}))
        /\ h.after[6] = LooksAt("sub", Wanted({"disk"}))
        /\ h.after[7] = LooksAt("sub", Unchanged({"active"}))
    BY DEF Handler, update_geometry, EachStream, ForBoth, stream_geometry_observation,
           stream_disk_geometry, stream_disk_motion_roi, Streams
  <1>4. Typed(h)
    <2>1. /\ Save \in Commands(P) /\ Merge("disk") \in Commands(P)
          /\ SetAll(Q, Restart, Waits({"active"})) \in Commands(P)
          /\ \A s \in P : /\ LooksAt(s, Anything({"active"})) \in Commands(P)
                          /\ LooksAt(s, Anything({"disk"})) \in Commands(P)
                          /\ LooksAt(s, Wanted({"disk"})) \in Commands(P)
                          /\ LooksAt(s, Unchanged({"active"})) \in Commands(P)
      BY MustsAre, CommandsIn DEF Places, Restart
    <2> QED BY <1>1, <2>1 DEF Typed, Handler, update_geometry, EachStream, ForBoth, Streams,
               stream_geometry_observation, stream_disk_geometry, stream_disk_motion_roi
  <1> HIDE DEF h
  <1>5. Asks(h)
    <2>1. \A p \in h.parts : \E j \in 1..5 :
            /\ h.before[j].do = "look" /\ h.before[j].always
            /\ p \in h.before[j].parts /\ {"disk"} \subseteq DOMAIN h.before[j].must
      BY <1>1, <1>2, CommandsAre, MustsAre
    <2>2. h.parts = h.asked \union Followers(h)
      BY <1>1 DEF Followers
    <2>3. \A i \in 1..6 : h.before[i].do = "look" \/ (i = 6 /\ h.before[i].do = "merge" /\ h.before[i].places = {"disk"})
      BY <1>2, CommandsAre
    <2>4. {"disk"} # {"active"}
      OBVIOUS
    <2> QED BY <1>2, <2>1, <2>2, <2>3, <2>4 DEF Asks
  <1>6. Does(h) /\ OnlyPrepares(h)
    BY <1>1, <1>3, CommandsAre DEF Does, OnlyPrepares, Live, Restart
  <1>7. Announces(h)
    <2>1. Tells(h.after[5], "active", "unchanged") /\ Tells(h.after[7], "active", "unchanged")
      BY <1>3, CommandsAre, MustsAre DEF Tells
    <2> QED BY <1>1, <1>3, <1>6, <2>1, CommandsAre, SMTT(30) DEF Announces
  <1>8. Reports(h)
    <2>1. /\ h.report.looks = <<{"active"}, {"disk"}>> /\ h.report.compares = {"active", "disk"}
          /\ h.report.tellsPending = TRUE
      BY <1>1 DEF RestartReport, Report
    <2>2. /\ h.report.looks \in Seq(SUBSET Places) /\ Len(h.report.looks) = 2
          /\ h.report.looks[1] = {"active"} /\ h.report.looks[2] = {"disk"}
      BY <2>1 DEF Places
    <2>3. \A place \in {"active", "disk"} : \E i \in 1..Len(h.report.looks) : place \in h.report.looks[i]
      BY <2>2
    <2>4. h.report.looks \in Seq(SUBSET Places)
      BY <2>2
    <2> QED BY <1>6, <2>1, <2>3, <2>4, RestartReports
  <1>9. Excludes(h)
    <2>1. \A pair \in h.excludes : DOMAIN pair \subseteq h.parts
      BY <1>1
    <2>2. /\ \A i \in 1..Len(h.after) : h.after[i].do # "commit"
          /\ \A i \in 1..Len(h.after) : h.after[i].do = "set" => h.after[i].parts = h.asked
      BY <1>1, <1>3, CommandsAre
    <2>3. Len(h.before) > 0 /\ h.before[Len(h.before)].do = "merge"
      BY <1>2, CommandsAre
    <2> QED BY <1>1, <2>1, <2>2, <2>3 DEF Excludes
  <1>10. SavesAt(h, 1, 2)
    <2>1. Finds(h.after[3], "disk") /\ Finds(h.after[4], "disk") /\ Finds(h.after[6], "disk")
      BY <1>3, CommandsAre, MustsAre DEF Finds, Tells
    <2>2. \A p \in h.asked \union Followers(h) : LooksFrom(h, 2, p, "disk")
      BY <1>1, <1>3, <2>1, CommandsAre DEF LooksFrom, Followers
    <2>3. \A p \in h.asked : \E i \in 1..1 :
            h.after[i].do = "set" /\ p \in h.after[i].parts /\ "config" \in h.after[i].places
      BY <1>1, <1>3, CommandsAre DEF Restart
    <2>4. \A p \in h.parts : h.kind[p] = Restart
      BY <1>1
    <2>5. /\ 1 \in 0..Len(h.after) /\ 2 \in 1 + 1..Len(h.after) /\ h.after[2].do = "save"
          /\ \A i \in 1..1 : h.after[i].do \in {"set", "look"}
          /\ \A i \in 1 + 1..Len(h.after) : i # 2 => h.after[i].do = "look"
      BY <1>3, CommandsAre
    <2>6. h.asked \subseteq h.parts
      BY <1>1
    <2> QED BY KindsDiffer, <2>2, <2>3, <2>4, <2>5, <2>6 DEF SavesAt
  <1>11. h.follows \subseteq (h.parts \ h.asked) \X h.asked /\ h.asked \in SUBSET h.parts
    BY <1>1
  <1> QED BY <1>1, <1>4, <1>5, <1>6, <1>7, <1>8, <1>9, <1>10, <1>11, RestartSaver DEF h

-----------------------------------------------------------------------------
(* Every handler is sound.                                                 *)
LEMMA HandlersAreSound == \A name \in DOMAIN Handlers : Sound(Handlers[name])
  <1>1. Sound(update_fps) /\ Sound(update_osd_metadata_config)
    BY CommitIsSound DEF update_fps, fps_reply, update_osd_metadata_config
  <1>2. ASSUME NEW name \in DOMAIN StreamHandlers PROVE Sound(StreamHandlers[name])
    BY <1>1, GopIsSound, LiveStreamsAreSound, GopModeIsSound, RcConfigIsSound, EnabledIsSound,
       AudioInclusionIsSound, GeometryIsSound, BuffersAreSound DEF StreamHandlers
  <1>3. ASSUME NEW name \in DOMAIN CameraHandlers PROVE Sound(CameraHandlers[name])
    BY <1>1, LevelIsSound, AudioSettingsAreSound, LiveAudioIsSound, AccessIsSound, TextIsSound,
       SensitivityIsSound, SkipIsSound, LifecycleIsSound, ActionsAreSound, RegionIsSound,
       PrivacyIsSound, ImagingIsSound, WhiteBalanceIsSound, AntiFlickerIsSound, ThresholdsAreSound,
       DayNightIsSound, InitialModeIsSound, RecorderIsSound, TimezoneIsSound, IrOutputIsSound,
       PlainSwitchesAreSound DEF CameraHandlers
  <1> QED BY <1>2, <1>3 DEF Handlers

(* The handler of a behaviour is one of them.                              *)
LEMMA HandlerIsSound == FlowInv => Sound(handler)
  BY HandlersAreSound, SettingAssumption DEF FlowInv

(* So is the handler that a behaviour begins with.                         *)
LEMMA FirstIsSound == SettingsInit => Sound(handler)
  BY HandlersAreSound, SettingAssumption DEF SettingsInit

(* The inductive invariant of the machine that runs the handlers of saved  *)
(* settings: for every handler that the router names, any number of        *)
(* faults, restarts of the daemons and GETs beside it, what the handler    *)
(* has sent, seen and kept stands to the three places as SettingsInv says. *)
THEOREM SettingsKeepInvariant == SettingsSpec => []SettingsInv
  <1>1. SettingsInit => SettingsInv
    BY FirstIsSound, SettingsBegin
  <1>2. SettingsInv /\ [SettingsNext]_settingVars => SettingsInv'
    BY HandlerIsSound, SettingsStep DEF SettingsInv
  <1> QED BY <1>1, <1>2, PTL DEF SettingsSpec

(* Every handler stays within its parts, commands and answers: the pc of a *)
(* handler of api_request never leaves its script.                         *)
THEOREM SettingsAreTyped == SettingsSpec => []SettingsTypeOK
  <1>1. SettingsInv => SettingsTypeOK
    BY DEF SettingsInv
  <1> QED BY <1>1, SettingsKeepInvariant, PTL

(* Values that exclude each other (sizes of the two streams, a motion      *)
(* region outside its frame, one path for both streams, backlight and tone *)
(* mapping, the recorder's limit and duration) are never together in the   *)
(* camera, a daemon or a file, whatever fails or is restarted between the  *)
(* comparison and the command: update_geometry, update_access,             *)
(* update_imaging and update_recorder_config.                              *)
THEOREM ExcludedStayApart == SettingsSpec => []NeverTogether
  <1>1. SettingsInv => NeverTogether
    BY DEF SettingsInv
  <1> QED BY <1>1, SettingsKeepInvariant, PTL

(* A GET that says settings are saved, or wait for a restart, was right at *)
(* some moment while it was answered, although it reads the camera and the *)
(* file one after the other while a POST or a restart changes both:        *)
(* stream_config and the other readers.                                    *)
THEOREM ReportsTellTheTruth == SettingsSpec => []ReportsAreTrue
  <1>1. SettingsInv => ReportsAreTrue
    BY DEF SettingsInv
  <1> QED BY <1>1, SettingsKeepInvariant, PTL

(* As long as at most one command fails, deceives or loses its answer,     *)
(* each handler's answer is true: what is accepted is in the camera, the   *)
(* daemon and its file, what is refused has changed nothing, a restart is  *)
(* announced just when one is awaited, and the rest is as it was saved.    *)
(* The readbacks of update_streams and its like cannot do more: a set that *)
(* left the memory alone and a save that left the file alone, which had    *)
(* the value from before, look like success.                               *)
THEOREM AnswersTellTheTruth ==
    ASSUME SettingFailures <= 1
    PROVE  SettingsSpec => []AnswersAreTrue
  <1>1. SettingsInit => SettingsInv /\ SavedInv
    BY FirstIsSound, SettingsBegin
  <1>2. (SettingsInv /\ SavedInv) /\ [SettingsNext]_settingVars => (SettingsInv /\ SavedInv)'
    BY HandlerIsSound, SettingsStep DEF SettingsInv
  <1>3. SettingsInv /\ SavedInv => AnswersAreTrue
    BY HandlerIsSound, AnswersFollow DEF SettingsInv
  <1> QED BY <1>1, <1>2, <1>3, PTL DEF SettingsSpec

(* What the requests of the daemon keep together: their types with the     *)
(* limits on queues and sessions, and that what excludes each other is     *)
(* apart, for handlers of settings, senders and credentials as the daemon  *)
(* runs them beside each other.                                            *)
THEOREM RequestsStayConsistent ==
    SettingsSpec /\ SenderSpec /\ CredentialSpec => []RequestsAreConsistent
  <1>1. SettingsInv /\ SenderInv /\ CredInv => RequestsAreConsistent
    BY DEF SettingsInv, SenderInv, CredInv, RequestsAreConsistent
  <1> QED BY <1>1, SettingsKeepInvariant, SenderInvariance, CredentialInvariance, PTL
=============================================================================
