---------------------------- MODULE StockRestore ----------------------------
(***************************************************************************)
(* The way back to the stock firmware without a serial console: the host   *)
(* stages and authorizes a card, stock U-Boot flashes the restorer from it *)
(* into mtd1 and mtd2, the host hands the card over by making the          *)
(* selector's name inert, and the next boot runs the restorer, which       *)
(* consumes its one-use authorization and overwrites mtd3, mtd2 and mtd1   *)
(* from the same camera's backup, the block that boots last.  Power may be *)
(* cut between and inside all of these.                                    *)
(***************************************************************************)
EXTENDS Naturals, Sequences

CONSTANTS
    RestoreCuts,      \* bound: power cuts
    RestoreFaults,    \* bound: calls that fail, or deceive
    HostFailures      \* bound: host commands that end half way

ASSUME RestoreAssumption == {RestoreCuts, RestoreFaults, HostFailures} \subseteq Nat

VARIABLES
    nor,        \* what is in each region
    sdcard,     \* the card as its reader sees it
    medium,     \* the card as it is on the medium
    at,         \* what the camera is doing
    place,      \* the region the restorer works on
    restoreLeft \* what is left of the bounds
restoreVars == <<nor, sdcard, medium, at, place, restoreLeft>>

(* The regions in the order in which they are restored: the kernel's first *)
(* blocks apart from its tail, and last.                                   *)
Order == <<"mtd3", "mtd2", "tail", "activation">>
Regions == {"mtd3", "mtd2", "tail", "activation"}
Firmwares == {"previous", "restorer", "stock"}
Contents == Firmwares \union {"blank", "torn"}

Holds(firmware, regions) == \A r \in regions : nor[r] = firmware
Boots(firmware) == Holds(firmware, {"activation", "tail", "mtd2"})
StockIsBack == Holds("stock", Regions)

(* "set" stands for the backup's images and the package: "partial" is what *)
(* a host that was killed staging it leaves, "archived" moved to           *)
(* RESTORE.PSV or being moved.  "selector" says which of its two names the *)
(* package has; "gopart", "runpart" and "okpart" are the status files      *)
(* under their temporary names, and "archive" the ones in RESTORE.PSV,     *)
(* whose marker PASSIVE.OK "psv" tells of.                                 *)
Cards == [set : {"absent", "partial", "root", "archived"}, selector : {"passive", "active"},
          go : {"absent", "exact"}, gopart : {"absent", "there"},
          run : {"absent", "exact"}, runpart : {"absent", "torn", "exact"},
          ok : {"absent", "exact"}, okpart : {"absent", "torn", "exact"},
          archive : SUBSET {"run", "ok"}, psv : {"absent", "open", "torn", "marked"}]
EmptyCard ==
    [set |-> "absent", selector |-> "passive", go |-> "absent", gopart |-> "absent",
     run |-> "absent", runpart |-> "absent", ok |-> "absent", okpart |-> "absent",
     archive |-> {}, psv |-> "absent"]

RunPoints == {"create_run", "sync_runpart", "read_runpart", "rename_run", "sync_run"}
GoPoints  == {"unlink_go", "sync_go"}
NorPoints == {"erase", "write", "verify"}
OkPoints  == {"create_ok", "sync_okpart", "read_okpart", "rename_ok", "sync_ok"}
RestorerPoints == {"consume"} \union RunPoints \union GoPoints \union NorPoints \union OkPoints
UpdaterPoints  == {"update_mtd1", "update_mtd2"}
RestPoints     == {"updated", "failed", "complete", "stock", "previous", "dead"}

Bounds == [cuts : 0..RestoreCuts, faults : 0..RestoreFaults, failures : 0..HostFailures]

RestoreTypeOK ==
    /\ nor \in [Regions -> Contents]
    /\ sdcard \in Cards /\ medium \in Cards
    /\ at \in {"off"} \union RestorerPoints \union UpdaterPoints \union RestPoints
    /\ place \in 1..4
    /\ restoreLeft \in Bounds

RestoreInit ==
    /\ nor = [r \in Regions |-> "previous"]
    /\ sdcard = EmptyCard /\ medium = EmptyCard
    /\ at = "off" /\ place = 1
    /\ restoreLeft = [cuts |-> RestoreCuts, faults |-> RestoreFaults,
                      failures |-> HostFailures]

Uses(bound) ==
    /\ restoreLeft[bound] > 0
    /\ restoreLeft' = [restoreLeft EXCEPT ![bound] = @ - 1]

-----------------------------------------------------------------------------
(* The restorer.  FAIL lights the red LED and pauses for ever.             *)

(* Of a region that is being erased or written, anything may be left.      *)
InProgress ==
    CASE at \in {"erase", "write"} -> {Order[place]}
      [] at = "update_mtd1" -> {"activation", "tail"}
      [] at = "update_mtd2" -> {"mtd2"}
      [] OTHER -> {}
Tears ==
    \E torn \in SUBSET InProgress :
        nor' = [r \in Regions |-> IF r \in torn THEN "torn" ELSE nor[r]]

(* Any checked call may fail, when it has done nothing or half of it.      *)
restorer_fails ==
    /\ at \in RestorerPoints /\ at' = "failed"
    /\ Tears /\ Uses("faults")
    /\ UNCHANGED <<sdcard, medium, place>>

(* A step that looks at the card and the NOR and decides.                  *)
Decides(from, to) ==
    /\ at = from /\ at' = to
    /\ UNCHANGED <<nor, sdcard, medium, place, restoreLeft>>

(* Variant: the authorization is consumed first, and the run recorded once *)
(* the writes have begun.                                                  *)
ConsumesAtOnce ==
    Decides("consume",
        IF \/ sdcard.set # "root" \/ sdcard.go # "exact"
           \/ sdcard.ok # "absent" \/ sdcard.okpart # "absent" THEN "failed"
        ELSE "unlink_go")

(* An exact RUN is the retry of a run that was cut, and an exact temporary *)
(* one is completed.                                                       *)
consume_authorization ==
    Decides("consume",
        IF \/ sdcard.set # "root" \/ sdcard.go # "exact"
           \/ sdcard.ok # "absent" \/ sdcard.okpart # "absent" THEN "failed"
        ELSE IF sdcard.run = "exact" THEN "unlink_go"
        ELSE IF sdcard.runpart = "absent" THEN "create_run" ELSE "read_runpart")

(* The card changes, and the change reaches the medium with the next sync. *)
Changes(from, new, to) ==
    /\ at = from /\ at' = to
    /\ sdcard' = new
    /\ UNCHANGED <<nor, medium, place, restoreLeft>>

Syncs(from, to) ==
    /\ at = from /\ at' = to
    /\ medium' = sdcard
    /\ UNCHANGED <<nor, sdcard, place, restoreLeft>>

(* A status file that is written under its temporary name, perhaps badly.  *)
Creates(from, new, badly, to) ==
    \/ Changes(from, new, to)
    \/ /\ at = from /\ at' = to
       /\ sdcard' = badly /\ Uses("faults")
       /\ UNCHANGED <<nor, medium, place>>

create_run ==
    Creates("create_run", [sdcard EXCEPT !.runpart = "exact"],
            [sdcard EXCEPT !.runpart = "torn"], "sync_runpart")
sync_runpart == Syncs("sync_runpart", "read_runpart")
read_runpart ==
    Decides("read_runpart", IF sdcard.runpart = "exact" THEN "rename_run" ELSE "failed")
rename_run ==
    Changes("rename_run", [sdcard EXCEPT !.run = "exact", !.runpart = "absent"], "sync_run")
sync_run == Syncs("sync_run", "unlink_go")
unlink_go == Changes("unlink_go", [sdcard EXCEPT !.go = "absent"], "sync_go")

sync_go ==
    /\ at = "sync_go" /\ at' = "erase" /\ place' = 1
    /\ medium' = sdcard
    /\ UNCHANGED <<nor, sdcard, restoreLeft>>

(* An erase or a write that may report success and have left a bad block.  *)
Becomes(from, content, to) ==
    /\ at = from /\ at' = to
    /\ \/ /\ nor' = [nor EXCEPT ![Order[place]] = content]
          /\ UNCHANGED restoreLeft
       \/ /\ nor' = [nor EXCEPT ![Order[place]] = "torn"]
          /\ Uses("faults")
    /\ UNCHANGED <<sdcard, medium, place>>

erase_range == Becomes("erase", "blank", "write")
copy_file_region_to_mtd ==
    Becomes("write", IF nor[Order[place]] = "blank" THEN "stock" ELSE "torn", "verify")

(* What is read back before the next region is touched; after the last     *)
(* one, everything.                                                        *)
ReadBack == IF place = 4 THEN Regions ELSE {Order[place]}

(* Variant: the read-back of mtd2 is left to the last one. *)
VerifiesLater ==
    /\ at = "verify"
    /\ IF place = 2 \/ Holds("stock", ReadBack)
       THEN IF place = 4 THEN at' = "create_ok" /\ UNCHANGED place
                         ELSE at' = "erase" /\ place' = place + 1
       ELSE at' = "failed" /\ UNCHANGED place
    /\ UNCHANGED <<nor, sdcard, medium, restoreLeft>>

digest_mtd ==
    /\ at = "verify"
    /\ IF Holds("stock", ReadBack)
       THEN IF place = 4 THEN at' = "create_ok" /\ UNCHANGED place
                         ELSE at' = "erase" /\ place' = place + 1
       ELSE at' = "failed" /\ UNCHANGED place
    /\ UNCHANGED <<nor, sdcard, medium, restoreLeft>>

create_ok ==
    Creates("create_ok", [sdcard EXCEPT !.okpart = "exact"],
            [sdcard EXCEPT !.okpart = "torn"], "sync_okpart")
sync_okpart == Syncs("sync_okpart", "read_okpart")
read_okpart ==
    Decides("read_okpart", IF sdcard.okpart = "exact" THEN "rename_ok" ELSE "failed")
rename_ok ==
    Changes("rename_ok", [sdcard EXCEPT !.ok = "exact", !.okpart = "absent"], "sync_ok")
sync_ok == Syncs("sync_ok", "complete")

RestorerStep ==
    \/ consume_authorization \/ create_run \/ sync_runpart \/ read_runpart \/ rename_run
    \/ sync_run \/ unlink_go \/ sync_go \/ erase_range \/ copy_file_region_to_mtd
    \/ digest_mtd \/ create_ok \/ sync_okpart \/ read_okpart \/ rename_ok \/ sync_ok

-----------------------------------------------------------------------------
(* Power, and stock U-Boot: a selector on the card is flashed to mtd1 and  *)
(* mtd2 on every boot and ends in a LED loop; otherwise the kernel in mtd1 *)
(* boots, and finds its root in mtd2.                                      *)
Firmware ==
    IF Boots("restorer") THEN "consume"
    ELSE IF Boots("stock") THEN "stock"
    ELSE IF Boots("previous") THEN "previous" ELSE "dead"

boot_updater ==
    /\ at = "off" /\ sdcard.selector = "active" /\ at' = "update_mtd1"
    /\ UNCHANGED <<nor, sdcard, medium, place, restoreLeft>>
boot_firmware ==
    /\ at = "off" /\ sdcard.selector = "passive" /\ at' = Firmware
    /\ UNCHANGED <<nor, sdcard, medium, place, restoreLeft>>

update_mtd1 ==
    /\ at = "update_mtd1" /\ at' = "update_mtd2"
    /\ nor' = [nor EXCEPT !.activation = "restorer", !.tail = "restorer"]
    /\ UNCHANGED <<sdcard, medium, place, restoreLeft>>
update_mtd2 ==
    /\ at = "update_mtd2" /\ at' = "updated"
    /\ nor' = [nor EXCEPT !.mtd2 = "restorer"]
    /\ UNCHANGED <<sdcard, medium, place, restoreLeft>>

(* The one change that is not yet on the medium may be lost, and a         *)
(* temporary file whose data was not yet synced may be torn.               *)
AfterCut ==
    {medium, sdcard} \union
    {[sdcard EXCEPT ![part] = "torn"] :
        part \in {p \in {"runpart", "okpart"} : sdcard[p] = "exact" /\ medium[p] = "absent"}}

power_cut ==
    /\ at \in RestorerPoints \union UpdaterPoints /\ at' = "off"
    /\ Tears /\ Uses("cuts")
    /\ sdcard' \in AfterCut /\ medium' = sdcard'
    /\ UNCHANGED place

(* The operator switches off a camera that has nothing left to do.         *)
power_off ==
    /\ at \in RestPoints /\ at' = "off"
    /\ sdcard' \in AfterCut /\ medium' = sdcard'
    /\ UNCHANGED <<nor, place, restoreLeft>>

-----------------------------------------------------------------------------
(* The host's commands, with the card in the host.                         *)
HostLeaves(new) ==
    /\ at = "off" /\ sdcard' = new /\ medium' = new
    /\ UNCHANGED <<nor, at, place>>

Sidecars ==
    sdcard.gopart # "absent" \/ sdcard.runpart # "absent" \/ sdcard.okpart # "absent"

(* A command that fails takes back what it staged, one that is killed does *)
(* not.                                                                    *)
stage_stock_restore_bootstrap_set ==
    /\ sdcard = EmptyCard
    /\ \/ HostLeaves([EmptyCard EXCEPT !.set = "root"]) /\ UNCHANGED restoreLeft
       \/ HostLeaves([EmptyCard EXCEPT !.set = "partial"]) /\ Uses("failures")

(* The authorization first, the selector last; a selector that fails is    *)
(* taken back, the authorization is not.  A host that is killed may leave  *)
(* the authorization under its temporary name.                             *)
Arms ==
    /\ sdcard.gopart = "absent"
    /\ sdcard.go = "exact" \/ sdcard.selector = "passive"
    /\ \/ /\ HostLeaves([sdcard EXCEPT !.go = "exact", !.selector = "active"])
          /\ UNCHANGED restoreLeft
       \/ /\ sdcard.selector = "passive"
          /\ HostLeaves([sdcard EXCEPT !.go = "exact"]) /\ Uses("failures")
       \/ /\ sdcard.go = "absent"
          /\ HostLeaves([sdcard EXCEPT !.gopart = "there"]) /\ Uses("failures")

(* Nothing asks for RESTORE.PSV: where a passivation was interrupted with  *)
(* both status files moved, the set can be authorized again.               *)
authorize_stock_restore_bootstrap ==
    /\ sdcard.set = "root" /\ sdcard.run = "absent" /\ sdcard.ok = "absent" /\ ~Sidecars
    /\ Arms

(* What the operator confirms to have seen: the updater's completion.      *)
UpdaterCompleted == Boots("restorer")

deactivate_stock_restore_bootstrap ==
    /\ sdcard.set = "root" /\ sdcard.go = "exact" /\ sdcard.ok = "absent" /\ ~Sidecars
    /\ UpdaterCompleted
    /\ HostLeaves([sdcard EXCEPT !.selector = "passive"])
    /\ UNCHANGED restoreLeft

reauthorize_interrupted_stock_restore ==
    /\ sdcard.set = "root" /\ sdcard.run = "exact"
    /\ sdcard.ok = "absent" /\ sdcard.okpart = "absent"
    /\ Arms

(* RUN, OK and the rest are moved in this order, and the marker is written *)
(* last, under its own name, so that a command that ends there may leave   *)
(* it torn.  What is moved already stays so.                               *)
Passivated ==
    << [sdcard EXCEPT !.psv = "open"],
       [sdcard EXCEPT !.psv = "open", !.run = "absent", !.archive = @ \union {"run"}],
       [sdcard EXCEPT !.psv = "open", !.run = "absent", !.ok = "absent",
                      !.archive = {"run", "ok"}],
       [sdcard EXCEPT !.psv = "open", !.run = "absent", !.ok = "absent",
                      !.archive = {"run", "ok"}, !.set = "archived"],
       [sdcard EXCEPT !.psv = "torn", !.run = "absent", !.ok = "absent",
                      !.archive = {"run", "ok"}, !.set = "archived"],
       [sdcard EXCEPT !.psv = "marked", !.run = "absent", !.ok = "absent",
                      !.archive = {"run", "ok"}, !.set = "archived"] >>

(* Every file lies in one of the two places, and not in both.              *)
InOnePlace ==
    /\ sdcard.set \in {"root", "archived"}
    /\ (sdcard.run = "exact") # ("run" \in sdcard.archive)
    /\ (sdcard.ok = "exact") # ("ok" \in sdcard.archive)

passivate_completed_stock_restore ==
    /\ sdcard.selector = "passive" /\ sdcard.go = "absent" /\ ~Sidecars
    /\ InOnePlace /\ sdcard.psv # "torn"
    /\ \/ HostLeaves(Passivated[6]) /\ UNCHANGED restoreLeft
       \/ \E step \in 1..5 :
             sdcard.psv # "marked" /\ HostLeaves(Passivated[step]) /\ Uses("failures")

HostCommand ==
    \/ stage_stock_restore_bootstrap_set \/ authorize_stock_restore_bootstrap
    \/ deactivate_stock_restore_bootstrap \/ reauthorize_interrupted_stock_restore
    \/ passivate_completed_stock_restore

RestoreNext ==
    \/ RestorerStep \/ restorer_fails \/ boot_updater \/ boot_firmware
    \/ update_mtd1 \/ update_mtd2 \/ power_cut \/ power_off \/ HostCommand

RestoreSpec == RestoreInit /\ [][RestoreNext]_restoreVars

(* A camera that is powered keeps executing.  An operator keeps switching  *)
(* it off and on, boots it after a handoff, and keeps giving one of the    *)
(* commands that the card admits.                                          *)
RestoreFairness ==
    /\ WF_restoreVars(RestorerStep \/ update_mtd1 \/ update_mtd2)
    /\ WF_restoreVars(power_off) /\ WF_restoreVars(boot_updater)
    /\ SF_restoreVars(boot_firmware /\ Boots("restorer"))
    /\ SF_restoreVars(HostCommand)

RestoreFairSpec == RestoreSpec /\ RestoreFairness

-----------------------------------------------------------------------------
(* A whole stock kernel in mtd1 is found over the whole stock firmware     *)
(* only, so that it never boots into a root or a configuration that is     *)
(* half written (restore_stock's order and read-backs).                    *)
StockBootsWhole == Holds("stock", {"activation", "tail"}) => StockIsBack

(* What the card says of a completed restore is true of the NOR, and stays *)
(* so whatever commands follow; what an interrupted passivation has moved  *)
(* is true until the restore is authorized once more and recorded anew.    *)
CompletionIsTrue ==
    \A c \in {sdcard, medium} :
        /\ c.ok # "absent" \/ c.okpart # "absent" \/ c.psv \in {"torn", "marked"} => StockIsBack
        /\ "ok" \in c.archive /\ c.go = "absent" /\ c.run = "absent" => StockIsBack

(* The restorer overwrites nothing before the run is recorded durably and  *)
(* its authorization durably consumed (consume_authorization's order).     *)
WritesAreRecorded ==
    /\ nor.mtd3 \notin {"previous", "stock"} => medium.run = "exact"
    /\ at \in NorPoints => medium.run = "exact" /\ medium.go = "absent"

RestoreIsSafe ==
    RestoreTypeOK /\ StockBootsWhole /\ CompletionIsTrue /\ WritesAreRecorded

(* A camera that was switched off between the first overwriting of mtd3    *)
(* and the last of the activation block has a card to go on with, whenever *)
(* power was cut: it is still authorized, or has the record of the run     *)
(* that a retry asks for, and of what a retry refuses it has nothing but   *)
(* the temporary authorization of a host that was killed giving an earlier *)
(* command.  No record of the run is needed as long as an authorization    *)
(* for a restore that follows a completed one is there.                    *)
RetryIsAdmitted ==
    at = "off" /\ nor.mtd3 # "previous" /\ ~StockIsBack =>
        /\ sdcard.set = "root" /\ sdcard.ok = "absent" /\ sdcard.okpart = "absent"
        /\ sdcard.run = "exact" \/ (sdcard.go = "exact" /\ "ok" \in sdcard.archive)
        /\ sdcard.go = "exact" \/ sdcard.selector = "passive"
        /\ sdcard.gopart = "there" =>
              sdcard.go = "absent" /\ restoreLeft.failures < HostFailures

(* Where no command goes on, and only an operator who deletes or moves     *)
(* files by hand does.  Where docs/recovery.md says that an interrupted    *)
(* run "requires sd-retry, another updater pass, and another handoff", the *)
(* first three need more than that.                                        *)
(*   - RESTORE.RUN torn under its temporary name, by a cut or by a write   *)
(*     that deceived: the restorer stops at it on every boot, sd-handoff   *)
(*     and sd-authorize refuse it, and sd-retry asks for RESTORE.RUN;      *)
(*   - RESTORE.OK left under its temporary name: stock is back, and        *)
(*     neither sd-retry nor sd-passivate takes the card;                   *)
(*   - RESTORE.GO left under its temporary name by a host that was killed: *)
(*     every command refuses it, whatever the camera's flash holds;        *)
(*   - a set that is staged in part, and a PASSIVE.OK that is torn         *)
(*     (test_partial_passivation_marker_blocks_resume...);                 *)
(*   - a passivation that was interrupted, then a restore authorized and   *)
(*     completed once more: its status files lie in both places.           *)
StatusLeftover ==
    \/ sdcard.runpart = "torn" /\ sdcard.run = "absent"
    \/ sdcard.okpart # "absent" /\ StockIsBack
    \/ sdcard.gopart = "there"
SetLeftover ==
    \/ sdcard.set = "partial" /\ nor = [r \in Regions |-> "previous"]
    \/ sdcard.psv = "torn" /\ StockIsBack
    \/ sdcard.ok = "exact" /\ "ok" \in sdcard.archive /\ StockIsBack

(* Once cuts, faults and failures are over, an operator who keeps giving a *)
(* command that the card admits has the stock firmware back and the card   *)
(* archived, unless one of the leftovers above is on it, and stays.        *)
EventuallyRestored ==
    \/ <>(StockIsBack /\ sdcard.psv = "marked")
    \/ <>[](StatusLeftover \/ SetLeftover)
=============================================================================
