---------------------------- MODULE SettingsSteps ----------------------------
(***************************************************************************)
(* What the handlers of saved settings are made of.  A setting has a value *)
(* in three places: `active`, what the camera does; `config`, what its     *)
(* daemon has in memory; `disk`, the daemon's file.  A handler is a        *)
(* sequence of commands to the daemon, each of which looks at these places *)
(* or changes them: `before` is what it does while nothing has changed, so *)
(* that a failure is a plain refusal, `after` what it does then, when a    *)
(* failure is answered as PartialApply.  Parts are the two streams, or two *)
(* fields, that one request may change together.                           *)
(***************************************************************************)
EXTENDS Integers, Sequences

Places == {"active", "config", "disk"}
Live     == {"active", "config"}   \* where a command puts a live setting
Restart  == {"config"}             \* one that waits for a restart
Volatile == {"active"}             \* one that is not saved
Checked  == Places                 \* one the daemon applies and saves itself
File     == {"disk"}               \* one that is written first, then loaded

(* A reply has to be well formed, and what it says of each place has to be *)
(* anything, what was asked for, or what an earlier reply said; a reply    *)
(* that a restart is awaited only tells whether that differs from what was *)
(* asked for.                                                              *)
Anything(places)       == [place \in places |-> "any"]
Wanted(places)    == [place \in places |-> "wanted"]
Unchanged(places) == [place \in places |-> "unchanged"]
Waits(places)     == [place \in places |-> "waits"]
Nothing           == [place \in {} |-> "any"]

(* The commands.  Those with `always` go to every part, the others to the  *)
(* parts the request names.                                                *)
Command(do, parts, places, must, always) ==
    [do |-> do, parts |-> parts, places |-> places, must |-> must, always |-> always]
Look(part, must)         == Command("look", {part}, {}, must, FALSE)
LookAlways(parts, must)  == Command("look", parts, {}, must, TRUE)
Set(part, places, must)  == Command("set", {part}, places, must, FALSE)
SetAll(parts, places, must) == Command("set", parts, places, must, FALSE)
Save                     == Command("save", {}, {}, Nothing, TRUE)
(* A command whose reply the daemon has checked by itself.                 *)
Commit(parts, places)    == Command("commit", parts, places, Nothing, FALSE)
(* What was not asked for is taken from what was seen in a place; values   *)
(* that exclude each other are refused.  Compare only does the latter, and *)
(* sends what was asked.                                                   *)
Merge(place)             == Command("merge", {}, {place}, Nothing, FALSE)
Compare(place)           == Command("compare", {}, {place}, Nothing, FALSE)

(* What the handler of a GET reads, one part at a time, the places it says *)
(* have the same value, and whether it says that a restart is pending if   *)
(* they have not.                                                          *)
Report(looks, compares, tellsPending) ==
    [looks |-> looks, compares |-> compares, tellsPending |-> tellsPending]
NoReport      == Report(<<>>, {"active", "disk"}, FALSE)
SavedReport   == Report(<<{"active"}, {"disk"}>>, {"active", "disk"}, FALSE)
RestartReport == Report(<<{"active"}, {"disk"}>>, {"active", "disk"}, TRUE)

(* kind: where a part is once the request is accepted, besides the file.   *)
(* asked: the parts a request may name; required: those it must name;      *)
(* alike: they get one value.  excludes: values that parts must not have   *)
(* together, and guarded: the daemon refuses them too; follows: <<q, p>>   *)
(* when the daemon moves q with p, if it is to p's measure, and tells so.  *)
(* owners: one process has `active` and `config` of all parts, two have    *)
(* one of them each, or each part has its own.  tellsPending: the answer   *)
(* says whether a restart is pending; plain: a failure is a plain error,   *)
(* whatever was done.                                                      *)
Handler(parts, kind, before, after, report) ==
    [parts |-> parts, kind |-> [part \in parts |-> kind], before |-> before, after |-> after,
     report |-> report, asked |-> parts, required |-> {}, alike |-> FALSE,
     excludes |-> {}, guarded |-> FALSE, follows |-> {}, owners |-> "one",
     tellsPending |-> kind = Restart, plain |-> FALSE]

(* The commands for each of two parts, one part after the other.           *)
ForBoth(first, second, commands(_)) == commands(first) \o commands(second)
=============================================================================
