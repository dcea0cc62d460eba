----------------------------- MODULE CardProofs -----------------------------
(***************************************************************************)
(* The two ways in which a card is taken from one state to another.  The   *)
(* restore of the stock firmware is safe and can be tried again, for any   *)
(* number of cuts, faults and host commands that end half way; the         *)
(* clearing of a card loses no file, for any number of files, crashes,     *)
(* faults and changes by the card's owner.                                 *)
(***************************************************************************)
EXTENDS StockRestore, MediaQuarantine, TLAPS

-----------------------------------------------------------------------------
(* The restore.                                                            *)

(* A card that says of itself that its restore is complete. *)
Done(c) == c.ok # "absent" \/ c.okpart # "absent" \/ c.set = "archived"

(* What each of the two views of the card keeps to. *)
CardInv(c) ==
    /\ c.set \in {"absent", "partial"} =>
          c.run = "absent" /\ c.go = "absent" /\ c.archive = {}
    /\ c.psv # "absent" => c.ok # "absent" \/ "ok" \in c.archive
    /\ c.psv \in {"torn", "marked"} => c.set = "archived"
    /\ "ok" \in c.archive => "run" \in c.archive
    /\ "run" \in c.archive => c.ok # "absent" \/ "ok" \in c.archive
    /\ c.set = "archived" => c.run = "absent" /\ c.ok = "absent"
    /\ c.selector = "active" => c.go = "exact"
    /\ c.gopart # "absent" => c.go = "absent"
    /\ Done(c) => StockIsBack /\ c.go = "absent"
    /\ "ok" \in c.archive /\ c.go = "absent" /\ c.run = "absent" => StockIsBack
    /\ nor["mtd3"] # "previous" => c.run # "absent" \/ "run" \in c.archive
    /\ nor["mtd3"] \notin {"previous", "stock"} => c.run # "absent"

(* What both views keep to while the restorer works. *)
WorkInv(c) ==
    /\ at \in RestorerPoints => c.selector = "passive"
    /\ at \in RestorerPoints \ {"consume"} => c.set = "root"
    /\ at \in RunPoints \union GoPoints \union NorPoints \union {"create_ok"} => ~Done(c)
    /\ at \in GoPoints \union NorPoints \union OkPoints => c.run = "exact"
    /\ at \in NorPoints \union OkPoints => c.go = "absent"

(* How far the NOR is. *)
NorInv ==
    /\ StockBootsWhole
    /\ at \in {"consume", "update_mtd2"} \union RunPoints \union GoPoints =>
          nor["activation"] = "restorer"
    /\ at \in NorPoints =>
          /\ place > 1 => nor["mtd3"] = "stock"
          /\ place > 2 => nor["mtd2"] = "stock"
          /\ place > 3 => nor["tail"] = "stock"
          /\ place < 4 => nor["activation"] = "restorer"
    /\ at \in OkPoints => StockIsBack

PointInv ==
    /\ at \in {"off", "consume"} \union UpdaterPoints => medium = sdcard
    /\ at \in UpdaterPoints => sdcard.selector = "active"
    /\ at = "sync_run" => sdcard.run = "exact"
    /\ at = "sync_go" => sdcard.go = "absent"

RestoreInv ==
    /\ RestoreTypeOK /\ NorInv /\ PointInv
    /\ CardInv(sdcard) /\ CardInv(medium)
    /\ WorkInv(sdcard) /\ WorkInv(medium)

(* Only a host command that was killed leaves an authorization under its   *)
(* temporary name.                                                         *)
KilledInv ==
    "there" \in {sdcard.gopart, medium.gopart} => restoreLeft.failures < HostFailures

-----------------------------------------------------------------------------
(* The strengthening implies what the run checks.                          *)
LEMMA InvIsSafe == RestoreInv /\ KilledInv => RestoreIsSafe /\ RetryIsAdmitted
<1> SUFFICES ASSUME RestoreInv, KilledInv PROVE RestoreIsSafe /\ RetryIsAdmitted
  OBVIOUS
<1> USE DEF RestoreInv, RestoreTypeOK, CardInv, Done
<1>1. StockBootsWhole /\ CompletionIsTrue
  BY DEF NorInv, CompletionIsTrue
<1>2. WritesAreRecorded
  BY DEF Cards, WritesAreRecorded, WorkInv
<1>3. ASSUME at = "off", nor.mtd3 # "previous", ~StockIsBack
      PROVE  /\ sdcard.set = "root" /\ sdcard.ok = "absent" /\ sdcard.okpart = "absent"
             /\ sdcard.run = "exact" \/ (sdcard.go = "exact" /\ "ok" \in sdcard.archive)
             /\ sdcard.go = "exact" \/ sdcard.selector = "passive"
  BY <1>3 DEF Cards
<1>4. RetryIsAdmitted
  BY <1>3 DEF RetryIsAdmitted, KilledInv
<1> QED
  BY <1>1, <1>2, <1>4 DEF RestoreIsSafe

(* What is left of a bound never leaves it.                                *)
LEMMA UsesLeavesBounds ==
    ASSUME NEW bound \in {"cuts", "faults", "failures"}, restoreLeft \in Bounds, Uses(bound)
    PROVE  restoreLeft' \in Bounds
  BY RestoreAssumption DEF Bounds, Uses

(* An empty card and a firmware that is neither of the two.                *)
LEMMA StartIsSafe == RestoreInit => RestoreInv
  BY RestoreAssumption
     DEF Bounds, RestoreInit, RestoreInv, RestoreTypeOK, NorInv, StockBootsWhole, Holds, StockIsBack,
         PointInv, CardInv, WorkInv, Done, EmptyCard, Cards, Regions, Contents, Firmwares,
         RestorerPoints, RunPoints, GoPoints, NorPoints, OkPoints, UpdaterPoints

-----------------------------------------------------------------------------
(* The restorer's steps.                                                   *)
LEMMA RestorerStepsAreSafe == RestoreInv /\ RestorerStep => RestoreInv'
<1> SUFFICES ASSUME RestoreInv, RestorerStep PROVE RestoreInv'
  OBVIOUS
<1> USE DEF RestoreInv, RestoreTypeOK, NorInv, StockBootsWhole, Holds, StockIsBack,
         PointInv, CardInv, WorkInv, Done, EmptyCard, Cards, Regions, Contents, Firmwares,
         RestorerPoints, RunPoints, GoPoints, NorPoints, OkPoints, UpdaterPoints, RestPoints
<1>1. CASE consume_authorization
  BY <1>1 DEF consume_authorization, Decides
<1>2. CASE create_run
  BY <1>2, UsesLeavesBounds DEF create_run, Creates, Changes
<1>3. CASE sync_runpart
  BY <1>3 DEF sync_runpart, Syncs
<1>4. CASE read_runpart
  BY <1>4 DEF read_runpart, Decides
<1>5. CASE rename_run
  <2>1. sdcard' =
            [set |-> sdcard.set, selector |-> sdcard.selector, go |-> sdcard.go,
             gopart |-> sdcard.gopart, run |-> "exact", runpart |-> "absent",
             ok |-> sdcard.ok, okpart |-> sdcard.okpart, archive |-> sdcard.archive,
             psv |-> sdcard.psv]
    BY ZenonT(60), <1>5 DEF rename_run, Changes
  <2>2. at = "rename_run" /\ at' = "sync_run" /\ UNCHANGED <<nor, medium, place, restoreLeft>>
    BY <1>5 DEF rename_run, Changes
  <2> QED
    BY <2>1, <2>2
<1>6. CASE sync_run
  BY <1>6 DEF sync_run, Syncs
<1>7. CASE unlink_go
  BY <1>7 DEF unlink_go, Changes
<1>8. CASE sync_go
  BY <1>8 DEF sync_go
<1>9. CASE erase_range
  <2>1. /\ at = "erase" /\ at' = "write" /\ place' = place
        /\ sdcard' = sdcard /\ medium' = medium
    BY <1>9 DEF erase_range, Becomes
  <2>2. PICK content \in {"blank", "torn"} : nor' = [nor EXCEPT ![Order[place]] = content]
    BY <1>9 DEF erase_range, Becomes
  <2>3. restoreLeft' \in Bounds
    BY <1>9, UsesLeavesBounds DEF erase_range, Becomes
  <2>4. CASE place = 1
    BY <2>1, <2>2, <2>3, <2>4 DEF Order
  <2>5. CASE place = 2
    BY <2>1, <2>2, <2>3, <2>5 DEF Order
  <2>6. CASE place = 3
    BY <2>1, <2>2, <2>3, <2>6 DEF Order
  <2>7. CASE place = 4
    BY <2>1, <2>2, <2>3, <2>7 DEF Order
  <2> QED
    BY SMTT(30), <2>4, <2>5, <2>6, <2>7
<1>10. CASE copy_file_region_to_mtd
  <2>1. /\ at = "write" /\ at' = "verify" /\ place' = place
        /\ sdcard' = sdcard /\ medium' = medium
    BY <1>10 DEF copy_file_region_to_mtd, Becomes
  <2>2. PICK content \in {"stock", "torn"} : nor' = [nor EXCEPT ![Order[place]] = content]
    BY <1>10 DEF copy_file_region_to_mtd, Becomes
  <2>3. restoreLeft' \in Bounds
    BY <1>10, UsesLeavesBounds DEF copy_file_region_to_mtd, Becomes
  <2>4. CASE place = 1
    BY <2>1, <2>2, <2>3, <2>4 DEF Order
  <2>5. CASE place = 2
    BY <2>1, <2>2, <2>3, <2>5 DEF Order
  <2>6. CASE place = 3
    BY <2>1, <2>2, <2>3, <2>6 DEF Order
  <2>7. CASE place = 4
    BY <2>1, <2>2, <2>3, <2>7 DEF Order
  <2> QED
    BY SMTT(30), <2>4, <2>5, <2>6, <2>7
<1>11. CASE digest_mtd
  BY <1>11 DEF digest_mtd, ReadBack, Order
<1>12. CASE create_ok
  BY <1>12, UsesLeavesBounds DEF create_ok, Creates, Changes
<1>13. CASE sync_okpart
  BY <1>13 DEF sync_okpart, Syncs
<1>14. CASE read_okpart
  BY <1>14 DEF read_okpart, Decides
<1>15. CASE rename_ok
  <2>1. sdcard' =
            [set |-> sdcard.set, selector |-> sdcard.selector, go |-> sdcard.go,
             gopart |-> sdcard.gopart, run |-> sdcard.run, runpart |-> sdcard.runpart,
             ok |-> "exact", okpart |-> "absent", archive |-> sdcard.archive,
             psv |-> sdcard.psv]
    BY ZenonT(60), <1>15 DEF rename_ok, Changes
  <2>2. at = "rename_ok" /\ at' = "sync_ok" /\ UNCHANGED <<nor, medium, place, restoreLeft>>
    BY <1>15 DEF rename_ok, Changes
  <2> QED
    BY <2>1, <2>2
<1>16. CASE sync_ok
  BY <1>16 DEF sync_ok, Syncs
<1> QED
  BY <1>1, <1>2, <1>3, <1>4, <1>5, <1>6, <1>7, <1>8, <1>9, <1>10, <1>11, <1>12, <1>13,
     <1>14, <1>15, <1>16 DEF RestorerStep

(* Power that fails or is switched, the updater, and calls that fail.      *)
LEMMA PowerIsSafe ==
    /\ RestoreInv
    /\ \/ restorer_fails \/ boot_updater \/ boot_firmware \/ update_mtd1 \/ update_mtd2
       \/ power_cut \/ power_off
    => RestoreInv'
<1> SUFFICES ASSUME RestoreInv,
                    \/ restorer_fails \/ boot_updater \/ boot_firmware \/ update_mtd1
                    \/ update_mtd2 \/ power_cut \/ power_off
             PROVE  RestoreInv'
  OBVIOUS
<1> USE DEF RestoreInv, RestoreTypeOK, NorInv, StockBootsWhole, Holds, StockIsBack,
         PointInv, CardInv, WorkInv, Done, EmptyCard, Cards, Regions, Contents, Firmwares,
         RestorerPoints, RunPoints, GoPoints, NorPoints, OkPoints, UpdaterPoints, RestPoints
<1>1. CASE restorer_fails
  BY <1>1, UsesLeavesBounds DEF restorer_fails, Tears, InProgress, Order
<1>2. CASE boot_updater
  BY <1>2 DEF boot_updater
<1>3. CASE boot_firmware
  BY <1>3 DEF boot_firmware, Firmware, Boots
<1>4. CASE update_mtd1
  <2>1. /\ nor' \in [Regions -> Contents]
        /\ nor'["activation"] = "restorer" /\ nor'["tail"] = "restorer"
        /\ nor'["mtd2"] = nor["mtd2"] /\ nor'["mtd3"] = nor["mtd3"]
    BY <1>4 DEF update_mtd1
  <2>2. /\ at = "update_mtd1" /\ at' = "update_mtd2"
        /\ UNCHANGED <<sdcard, medium, place, restoreLeft>>
    BY <1>4 DEF update_mtd1
  <2> QED
    BY <2>1, <2>2
<1>5. CASE update_mtd2
  BY <1>5 DEF update_mtd2
<1>6. CASE power_cut
  BY <1>6, UsesLeavesBounds DEF power_cut, Tears, InProgress, AfterCut, Order
<1>7. CASE power_off
  BY <1>7 DEF power_off, AfterCut
<1> QED
  BY <1>1, <1>2, <1>3, <1>4, <1>5, <1>6, <1>7

(* A host command only has to leave a card that CardInv admits.            *)
LEMMA HostIsSafe ==
    ASSUME RestoreInv, at = "off", UNCHANGED <<nor, at, place>>, medium' = sdcard',
           RestoreTypeOK', CardInv(sdcard)'
    PROVE  RestoreInv'
  BY DEF RestoreInv, NorInv, StockBootsWhole, Holds, StockIsBack, PointInv, CardInv,
         WorkInv, Done, RestorerPoints, RunPoints, GoPoints, NorPoints, OkPoints,
         UpdaterPoints

(* The commands of the host, complete or ended half way.                   *)
LEMMA HostCommandsAreSafe == RestoreInv /\ HostCommand => RestoreInv'
<1> SUFFICES ASSUME RestoreInv, HostCommand PROVE RestoreInv'
  OBVIOUS
<1>a. /\ at = "off" /\ UNCHANGED <<nor, at, place>> /\ medium' = sdcard'
      /\ restoreLeft' \in Bounds
  BY UsesLeavesBounds
     DEF HostCommand, stage_stock_restore_bootstrap_set, authorize_stock_restore_bootstrap,
         deactivate_stock_restore_bootstrap, reauthorize_interrupted_stock_restore,
         passivate_completed_stock_restore, Arms, HostLeaves, RestoreInv, RestoreTypeOK
<1>b. SUFFICES sdcard' \in Cards /\ CardInv(sdcard)'
  BY <1>a, HostIsSafe DEF RestoreInv, RestoreTypeOK
<1> USE DEF RestoreInv, RestoreTypeOK, CardInv, Done, Cards, EmptyCard, StockIsBack, Holds,
            Regions
<1>1. CASE stage_stock_restore_bootstrap_set
  BY <1>a, <1>1 DEF stage_stock_restore_bootstrap_set, HostLeaves
<1>2. ASSUME Arms, sdcard.set = "root", ~Done(sdcard)
      PROVE  sdcard' \in Cards /\ CardInv(sdcard)'
  <2>1. CASE sdcard' = [sdcard EXCEPT !.go = "exact"]
    BY <1>a, <1>2, <2>1 DEF Arms
  <2>2. CASE sdcard' = [sdcard EXCEPT !.go = "exact", !.selector = "active"]
    <3>1. sdcard' =
              [set |-> sdcard.set, selector |-> "active", go |-> "exact",
               gopart |-> sdcard.gopart, run |-> sdcard.run,
               runpart |-> sdcard.runpart, ok |-> sdcard.ok, okpart |-> sdcard.okpart,
               archive |-> sdcard.archive, psv |-> sdcard.psv]
      BY ZenonT(60), <2>2
    <3> QED
      BY <1>a, <1>2, <3>1 DEF Arms
  <2>3. CASE sdcard' = [sdcard EXCEPT !.gopart = "there"] /\ sdcard.go = "absent"
             /\ Uses("failures")
    BY <1>a, <1>2, <2>3, RestoreAssumption DEF Uses, Bounds
  <2> QED
    BY <1>2, <2>1, <2>2, <2>3 DEF Arms, HostLeaves
<1>3. CASE authorize_stock_restore_bootstrap
  BY <1>2, <1>3 DEF authorize_stock_restore_bootstrap, Sidecars
<1>4. CASE deactivate_stock_restore_bootstrap
  BY <1>a, <1>4 DEF deactivate_stock_restore_bootstrap, HostLeaves
<1>5. CASE reauthorize_interrupted_stock_restore
  BY <1>2, <1>5 DEF reauthorize_interrupted_stock_restore
<1>6. CASE passivate_completed_stock_restore
  <2>1. /\ sdcard.go = "absent" /\ sdcard.selector = "passive" /\ sdcard.gopart = "absent"
        /\ sdcard.runpart = "absent" /\ sdcard.okpart = "absent" /\ InOnePlace
        /\ StockIsBack
    BY <1>6 DEF passivate_completed_stock_restore, Sidecars, InOnePlace
  <2>2. PICK step \in 1..6 : /\ sdcard' = Passivated[step]
                             /\ step < 5 => sdcard.psv \notin {"torn", "marked"}
    BY <1>6 DEF passivate_completed_stock_restore, HostLeaves
  <2>3. CASE step = 1
    <3>1. sdcard' =
              [set |-> sdcard.set, selector |-> sdcard.selector, go |-> sdcard.go,
               gopart |-> sdcard.gopart, run |-> sdcard.run,
               runpart |-> sdcard.runpart, ok |-> sdcard.ok, okpart |-> sdcard.okpart,
               archive |-> sdcard.archive, psv |-> "open"]
      BY ZenonT(60), <2>2, <2>3 DEF Passivated
    <3> QED
      BY <1>a, <1>6, <2>1, <3>1 DEF passivate_completed_stock_restore, InOnePlace
  <2>4. CASE step = 2
    <3>1. sdcard' =
              [set |-> sdcard.set, selector |-> sdcard.selector, go |-> sdcard.go,
               gopart |-> sdcard.gopart, run |-> "absent", runpart |-> sdcard.runpart,
               ok |-> sdcard.ok, okpart |-> sdcard.okpart,
               archive |-> sdcard.archive \union {"run"}, psv |-> "open"]
      BY ZenonT(60), <2>2, <2>4 DEF Passivated
    <3> QED
      BY <1>a, <1>6, <2>1, <3>1 DEF passivate_completed_stock_restore, InOnePlace
  <2>5. CASE step = 3
    <3>1. sdcard' =
              [set |-> sdcard.set, selector |-> sdcard.selector, go |-> sdcard.go,
               gopart |-> sdcard.gopart, run |-> "absent", runpart |-> sdcard.runpart,
               ok |-> "absent", okpart |-> sdcard.okpart, archive |-> {"run", "ok"},
               psv |-> "open"]
      BY ZenonT(60), <2>2, <2>5 DEF Passivated
    <3> QED
      BY <1>a, <1>6, <2>1, <3>1 DEF passivate_completed_stock_restore, InOnePlace
  <2>6. CASE step = 4
    <3>1. sdcard' =
              [set |-> "archived", selector |-> sdcard.selector, go |-> sdcard.go,
               gopart |-> sdcard.gopart, run |-> "absent", runpart |-> sdcard.runpart,
               ok |-> "absent", okpart |-> sdcard.okpart, archive |-> {"run", "ok"},
               psv |-> "open"]
      BY ZenonT(60), <2>2, <2>6 DEF Passivated
    <3> QED
      BY <1>a, <1>6, <2>1, <3>1 DEF passivate_completed_stock_restore, InOnePlace
  <2>7. CASE step = 5
    <3>1. sdcard' =
              [set |-> "archived", selector |-> sdcard.selector, go |-> sdcard.go,
               gopart |-> sdcard.gopart, run |-> "absent", runpart |-> sdcard.runpart,
               ok |-> "absent", okpart |-> sdcard.okpart, archive |-> {"run", "ok"},
               psv |-> "torn"]
      BY ZenonT(60), <2>2, <2>7 DEF Passivated
    <3> QED
      BY <1>a, <1>6, <2>1, <3>1 DEF passivate_completed_stock_restore, InOnePlace
  <2>8. CASE step = 6
    <3>1. sdcard' =
              [set |-> "archived", selector |-> sdcard.selector, go |-> sdcard.go,
               gopart |-> sdcard.gopart, run |-> "absent", runpart |-> sdcard.runpart,
               ok |-> "absent", okpart |-> sdcard.okpart, archive |-> {"run", "ok"},
               psv |-> "marked"]
      BY ZenonT(60), <2>2, <2>8 DEF Passivated
    <3> QED
      BY <1>a, <1>6, <2>1, <3>1 DEF passivate_completed_stock_restore, InOnePlace
  <2> QED
    BY <2>2, <2>3, <2>4, <2>5, <2>6, <2>7, <2>8
<1> QED
  BY <1>1, <1>3, <1>4, <1>5, <1>6 DEF HostCommand

(* What is left of the host's failures never grows, and a step that leaves *)
(* a temporary authorization behind uses one up.                           *)
LEMMA KilledIsCounted == RestoreInv /\ KilledInv /\ RestoreNext => KilledInv'
<1> SUFFICES ASSUME RestoreInv, KilledInv, RestoreNext PROVE KilledInv'
  OBVIOUS
<1> USE RestoreAssumption DEF KilledInv
<1>1. restoreLeft.failures \in 0..HostFailures
  BY DEF RestoreInv, RestoreTypeOK, Bounds
<1>2. \/ UNCHANGED restoreLeft
      \/ \E bound \in {"cuts", "faults", "failures"} : Uses(bound)
  BY DEF RestoreNext, RestorerStep, HostCommand, consume_authorization, create_run,
         sync_runpart, read_runpart, rename_run, sync_run, unlink_go, sync_go, erase_range,
         copy_file_region_to_mtd, digest_mtd, create_ok, sync_okpart, read_okpart, rename_ok,
         sync_ok, Decides, Changes, Syncs, Creates, Becomes, restorer_fails, boot_updater,
         boot_firmware, update_mtd1, update_mtd2, power_cut, power_off,
         stage_stock_restore_bootstrap_set, authorize_stock_restore_bootstrap,
         deactivate_stock_restore_bootstrap, reauthorize_interrupted_stock_restore,
         passivate_completed_stock_restore, Arms
<1>3. restoreLeft'.failures \in Nat /\ restoreLeft'.failures <= restoreLeft.failures
  BY <1>1, <1>2 DEF Uses, RestoreInv, RestoreTypeOK, Bounds
<1>4. \/ {sdcard'.gopart, medium'.gopart} \subseteq {sdcard.gopart, medium.gopart, "absent"}
      \/ Arms
  <2>1. CASE RestorerStep
    BY <2>1
       DEF RestorerStep, consume_authorization, create_run, sync_runpart, read_runpart,
           rename_run, sync_run, unlink_go, sync_go, erase_range, copy_file_region_to_mtd,
           digest_mtd, create_ok, sync_okpart, read_okpart, rename_ok, sync_ok, Decides,
           Changes, Syncs, Creates, Becomes, RestoreInv, RestoreTypeOK, Cards
  <2>2. CASE \/ restorer_fails \/ boot_updater \/ boot_firmware \/ update_mtd1
             \/ update_mtd2 \/ power_cut \/ power_off
    <3>1. ASSUME NEW c \in AfterCut PROVE c.gopart \in {sdcard.gopart, medium.gopart}
      BY DEF AfterCut, RestoreInv, RestoreTypeOK, Cards
    <3>2. \/ UNCHANGED <<sdcard, medium>>
          \/ sdcard' \in AfterCut /\ medium' = sdcard'
      BY <2>2 DEF restorer_fails, boot_updater, boot_firmware, update_mtd1, update_mtd2,
                  power_cut, power_off
    <3> QED
      BY <3>1, <3>2
  <2>3. CASE stage_stock_restore_bootstrap_set \/ deactivate_stock_restore_bootstrap
    BY <2>3 DEF stage_stock_restore_bootstrap_set, deactivate_stock_restore_bootstrap,
                HostLeaves, EmptyCard, RestoreInv, RestoreTypeOK, Cards
  <2>4. CASE passivate_completed_stock_restore
    <3>1. \A step \in 1..6 : Passivated[step].gopart = sdcard.gopart
      <4>1. sdcard \in Cards
        BY DEF RestoreInv, RestoreTypeOK
      <4>2. Passivated[1].gopart = sdcard.gopart /\ Passivated[2].gopart = sdcard.gopart
        BY <4>1 DEF Passivated, Cards
      <4>3. Passivated[3].gopart = sdcard.gopart /\ Passivated[4].gopart = sdcard.gopart
        BY <4>1 DEF Passivated, Cards
      <4>4. Passivated[5].gopart = sdcard.gopart /\ Passivated[6].gopart = sdcard.gopart
        BY <4>1 DEF Passivated, Cards
      <4> QED
        BY <4>2, <4>3, <4>4
    <3>2. \E step \in 1..6 : sdcard' = Passivated[step] /\ medium' = Passivated[step]
      BY <2>4 DEF passivate_completed_stock_restore, HostLeaves
    <3> QED
      BY <3>1, <3>2
  <2>5. CASE authorize_stock_restore_bootstrap \/ reauthorize_interrupted_stock_restore
    BY <2>5 DEF authorize_stock_restore_bootstrap, reauthorize_interrupted_stock_restore
  <2> QED
    BY <2>1, <2>2, <2>3, <2>4, <2>5 DEF RestoreNext, HostCommand
<1>5. CASE Arms
  <2>1. CASE Uses("failures")
    BY <1>1, <2>1 DEF Uses, RestoreInv, RestoreTypeOK, Bounds
  <2>2. CASE ~Uses("failures")
    BY <1>5, <2>2 DEF Arms, HostLeaves, RestoreInv, RestoreTypeOK, Cards
  <2> QED
    BY <2>1, <2>2
<1> QED
  BY <1>1, <1>3, <1>4, <1>5

-----------------------------------------------------------------------------
(* Whatever is cut, fails or deceives, and whatever host command follows:  *)
(* stock boots whole, the card tells the truth, nothing is overwritten     *)
(* before it is recorded, and of what a retry refuses the card has only    *)
(* what a killed host left (the order and the read-backs of restore_stock  *)
(* and consume_authorization, with what the host commands refuse).         *)
THEOREM RestoreInvariance == RestoreSpec => [](RestoreInv /\ KilledInv)
<1>1. RestoreInv /\ KilledInv /\ [RestoreNext]_restoreVars => RestoreInv' /\ KilledInv'
  <2> SUFFICES ASSUME RestoreInv, KilledInv, [RestoreNext]_restoreVars
               PROVE  RestoreInv' /\ KilledInv'
    OBVIOUS
  <2>1. CASE RestoreNext
    BY <2>1, RestorerStepsAreSafe, PowerIsSafe, HostCommandsAreSafe, KilledIsCounted
       DEF RestoreNext
  <2>2. CASE UNCHANGED restoreVars
    BY <2>2 DEF restoreVars, RestoreInv, RestoreTypeOK, NorInv, StockBootsWhole, Holds,
                StockIsBack, PointInv, CardInv, WorkInv, Done, KilledInv
  <2> QED
    BY <2>1, <2>2
<1>2. RestoreInit => KilledInv
  BY DEF RestoreInit, EmptyCard, KilledInv
<1> QED
  BY <1>1, <1>2, StartIsSafe, PTL DEF RestoreSpec

(* Whenever power is cut, stock boots from whole parts only, completion is *)
(* recorded only of a restored flash, and nothing is overwritten before    *)
(* the run is recorded and its authorization consumed.                     *)
THEOREM RestoreKeepsSafe == RestoreSpec => []RestoreIsSafe
  BY RestoreInvariance, InvIsSafe, PTL

(* A camera that is switched off partly restored is still authorized or    *)
(* has the record a retry asks for, and a retry refuses its card for the   *)
(* temporary authorization of a host that was killed alone.                *)
THEOREM RestoreAdmitsRetry == RestoreSpec => []RetryIsAdmitted
  BY RestoreInvariance, InvIsSafe, PTL

-----------------------------------------------------------------------------
(* The quarantine.  Where the command goes on removing or putting back, it *)
(* relies on the archive and on the receipt it has written before.         *)
ReceiptPoints == {"replace", "sync_receipt"}
AfterArchive == {"begin"} \union ReceiptPoints \union RemovalPoints \union RestorePoints

(* What was said to be whole has every file of the snapshot in an archive, *)
(* and from then on the command works only with such a destination.        *)
ArchiveInv ==
    /\ destination = "whole" => \A p \in Planned : <<p, snapshot.file[p]>> \in archived
    /\ doing \in AfterArchive => destination = "whole"

(* The receipt a removal relies on is on the disk, and was being written   *)
(* as such before.                                                         *)
ReceiptInv ==
    /\ doing \in RemovalPoints => durableReceipt.phase = "pending"
    /\ doing = "sync_receipt" => receipt.phase = Phase(writing)

(* A file is put back under a name that is free, and the path the command  *)
(* is at is one.                                                           *)
PathInv ==
    /\ doing = "rename_part" => which \in Planned /\ tree.file[which] = Gone
    /\ doing \in {"sync_unlink", "sync_restore"} => which \in Paths

QuarantineInv ==
    QuarantineTypeOK /\ NothingIsLost /\ ArchiveInv /\ ReceiptInv /\ PathInv

(* What the invariant says of the files is the property.                   *)
LEMMA QuarantineInvKeepsFiles == QuarantineInv => QuarantineKeepsFiles
  BY DEF QuarantineInv, QuarantineKeepsFiles, RemovalsAreRecorded, ArchiveInv, ReceiptInv,
         AfterArchive

(* A card that nobody has begun to clear.                                  *)
LEMMA QuarantineStartIsSafe == QuarantineInit => QuarantineInv
<1> SUFFICES ASSUME QuarantineInit PROVE QuarantineInv
  OBVIOUS
<1> USE DEF QuarantineInit, QuarantineStart
<1>1. 0 \in Versions /\ 1 \in 1..PathCount + 1
  BY QuarantineAssumption DEF Versions
<1>2. tree \in Trees /\ durable \in Trees /\ snapshot \in Trees
  BY <1>1 DEF Trees
<1>3. quarantineLeft \in [cuts : 0..QuarantineCuts, faults : 0..QuarantineFaults,
                          changes : 0..UserChanges]
  BY QuarantineAssumption
<1>4. QuarantineTypeOK
  <2>1. receipt \in Receipts /\ durableReceipt \in Receipts
    BY DEF Receipts, NoReceipt
  <2>2. latest \in [Paths -> Versions]
    BY <1>1
  <2>3. doing \in Points /\ writing \in Purposes
    BY DEF Points, Purposes
  <2> QED
    BY <1>1, <1>2, <1>3, <2>1, <2>2, <2>3 DEF QuarantineTypeOK
<1>5. NothingIsLost
  BY DEF NothingIsLost
<1>6. ArchiveInv /\ ReceiptInv /\ PathInv
  BY DEF ArchiveInv, ReceiptInv, PathInv, AfterArchive, ReceiptPoints, RemovalPoints,
         RestorePoints
<1> QED
  BY <1>4, <1>5, <1>6 DEF QuarantineInv

(* The lowest of some paths is one of them, and only one.                  *)
LEMMA FirstIsOne ==
    ASSUME NEW paths, NEW p \in First(paths)
    PROVE  p \in paths
  BY DEF First

(* No version is the absence of one.                                       *)
LEMMA GoneIsNoVersion == Gone \notin Versions
  BY QuarantineAssumption DEF Gone, Versions

(* What a step leaves alone that touches neither files nor snapshot.       *)
LEMMA FilesAloneKeep ==
    ASSUME QuarantineInv, tree' = tree, durable' = durable, latest' = latest,
           archived \subseteq archived'
    PROVE  NothingIsLost'
  BY DEF QuarantineInv, NothingIsLost

(* Archiving the card, up to the durable archive.                          *)
LEMMA ArchiveStepsAreSafe ==
    QuarantineInv /\ (\/ archive_files \/ make_destination \/ move_archive \/ sync_destination
                      \/ inspect_inconsistent_media_quarantine)
       => QuarantineInv'
<1> SUFFICES ASSUME QuarantineInv,
                    \/ archive_files \/ make_destination \/ move_archive \/ sync_destination
                    \/ inspect_inconsistent_media_quarantine
             PROVE  QuarantineInv'
  OBVIOUS
<1>1. NothingIsLost'
  BY FilesAloneKeep
     DEF archive_files, make_destination, move_archive, sync_destination, Reaches,
         inspect_inconsistent_media_quarantine
<1>2. QuarantineTypeOK'
  <2>1. UNCHANGED <<tree, durable, latest, quarantineLeft>> /\ snapshot' \in {snapshot, tree}
    BY DEF archive_files, make_destination, move_archive, sync_destination, Reaches,
           inspect_inconsistent_media_quarantine, planVars
  <2>2. /\ {receipt', durableReceipt'} \subseteq {receipt, durableReceipt, NoReceipt}
        /\ NoReceipt \in Receipts
    BY DEF archive_files, make_destination, move_archive, sync_destination, Reaches,
           inspect_inconsistent_media_quarantine, receiptVars, NoReceipt, Receipts
  <2>3. /\ drift' \in BOOLEAN
        /\ destination' \in {destination, "none", "bare", "moved", "whole"}
    BY DEF archive_files, make_destination, move_archive, sync_destination, Reaches,
           inspect_inconsistent_media_quarantine, planVars, QuarantineInv, QuarantineTypeOK
  <2>4. doing' \in {"idle", "archive", "make", "move", "sync_destination", "replace"}
    BY DEF archive_files, make_destination, move_archive, sync_destination, Reaches,
           inspect_inconsistent_media_quarantine
  <2>5. which' = which /\ writing' \in {writing, "first"} /\ removed' \in {removed, {}}
    BY DEF archive_files, make_destination, move_archive, sync_destination,
           inspect_inconsistent_media_quarantine, memory
  <2>6. archived' \subseteq Paths \X Versions
    <3>1. \A p \in Planned : p \in Paths /\ snapshot.file[p] \in Versions
      BY DEF QuarantineInv, QuarantineTypeOK, Planned, Trees
    <3>2. archived' \in {archived, archived \union {<<p, snapshot.file[p]>> : p \in Planned}}
      BY DEF archive_files, make_destination, move_archive, sync_destination,
             inspect_inconsistent_media_quarantine
    <3>3. {<<p, snapshot.file[p]>> : p \in Planned} \subseteq Paths \X Versions
      BY <3>1
    <3> QED
      BY <3>2, <3>3 DEF QuarantineInv, QuarantineTypeOK
  <2>7. doing' \in Points /\ writing' \in Purposes
    BY <2>4, <2>5 DEF QuarantineInv, QuarantineTypeOK, Points, ArchivePoints, Purposes
  <2>8. {tree', durable', snapshot'} \subseteq Trees /\ latest' \in [Paths -> Versions]
    BY <2>1 DEF QuarantineInv, QuarantineTypeOK
  <2> QED
    BY <2>1, <2>2, <2>3, <2>5, <2>6, <2>7, <2>8 DEF QuarantineInv, QuarantineTypeOK
<1>3. ArchiveInv' /\ ReceiptInv' /\ PathInv'
  BY DEF QuarantineInv, ArchiveInv, ReceiptInv, PathInv, AfterArchive, ReceiptPoints,
         RemovalPoints, RestorePoints, archive_files, make_destination, move_archive,
         sync_destination, Reaches, inspect_inconsistent_media_quarantine, planVars, memory,
         receiptVars, Planned
<1> QED
  BY <1>1, <1>2, <1>3 DEF QuarantineInv

(* Writing the receipt, and what follows each purpose.                     *)
LEMMA ReceiptStepsAreSafe ==
    QuarantineInv /\ (replace_receipt \/ sync_receipt \/ begin_removals \/ check_removals
                      \/ restored \/ resume_quarantine)
       => QuarantineInv'
<1> SUFFICES ASSUME QuarantineInv,
                    \/ replace_receipt \/ sync_receipt \/ begin_removals \/ check_removals
                    \/ restored \/ resume_quarantine
             PROVE  QuarantineInv'
  OBVIOUS
<1>1. NothingIsLost'
  BY FilesAloneKeep
     DEF replace_receipt, sync_receipt, begin_removals, check_removals, restored,
         resume_quarantine
<1>2. QuarantineTypeOK'
  BY SMTT(30), QuarantineAssumption
     DEF QuarantineInv, QuarantineTypeOK, replace_receipt, sync_receipt, begin_removals,
         check_removals, restored, resume_quarantine, Writes, RollsBack, AfterReceipt, Phase,
         planVars, memory, receiptVars, Points, Purposes, Receipts, Missing, Planned, Paths,
         RemovalPoints, RestorePoints
<1>3. ArchiveInv' /\ ReceiptInv' /\ PathInv'
  BY DEF QuarantineInv, QuarantineTypeOK, ArchiveInv, ReceiptInv, PathInv, AfterArchive,
         ReceiptPoints, RemovalPoints, RestorePoints, Phase, AfterReceipt, Purposes,
         replace_receipt, sync_receipt, begin_removals, check_removals, restored,
         resume_quarantine, Resumes, Writes, RollsBack, planVars, memory, receiptVars, Planned
<1> QED
  BY <1>1, <1>2, <1>3 DEF QuarantineInv

(* The steps that take a file from the card or put one back.               *)
LEMMA FileStepsAreSafe ==
    QuarantineInv /\ (unlink_path \/ sync_unlink \/ restore_path \/ rename_part \/ sync_restore)
       => QuarantineInv'
<1> SUFFICES ASSUME QuarantineInv,
                    \/ unlink_path \/ sync_unlink \/ restore_path \/ rename_part
                    \/ sync_restore
             PROVE  QuarantineInv'
  OBVIOUS
<1> USE DEF QuarantineInv, QuarantineTypeOK
<1>1. NothingIsLost'
  <2>1. CASE unlink_path
    BY <2>1, FirstIsOne DEF unlink_path, NothingIsLost, ArchiveInv, AfterArchive,
       RemovalPoints, Matches, Trees, RollsBack, Planned
  <2>2. CASE sync_unlink \/ sync_restore
    BY <2>2 DEF sync_unlink, sync_restore, NothingIsLost
  <2>3. CASE restore_path
    BY <2>3 DEF restore_path, NothingIsLost, Trees
  <2>4. CASE rename_part
    BY <2>4, GoneIsNoVersion DEF rename_part, NothingIsLost, PathInv, Trees
  <2> QED
    BY <2>1, <2>2, <2>3, <2>4
<1>2. QuarantineTypeOK'
  <2>1. tree' \in Trees /\ durable' \in Trees
    <3>1. CASE unlink_path
      BY <3>1, FirstIsOne DEF unlink_path, Trees, Planned, RollsBack
    <3>2. CASE sync_unlink \/ sync_restore
      BY <3>2 DEF sync_unlink, sync_restore
    <3>3. CASE restore_path
      BY <3>3, FirstIsOne DEF restore_path, Trees, ToPutBack, Planned
    <3>4. CASE rename_part
      BY <3>4 DEF rename_part, PathInv, Trees, Planned
    <3> QED
      BY <3>1, <3>2, <3>3, <3>4
  <2>2. which' \in 1..PathCount + 1
    <3>1. \/ which' \in {which, 1} \/ which' \in Paths
          \/ which \in Paths /\ which' = which + 1
      BY FirstIsOne
         DEF unlink_path, sync_unlink, restore_path, rename_part, sync_restore, Writes,
             RollsBack, memory, PathInv, Planned, ToPutBack
    <3> QED
      BY <3>1, QuarantineAssumption DEF Paths
  <2>3. removed' \subseteq Paths /\ writing' \in Purposes /\ doing' \in Points
    BY DEF unlink_path, sync_unlink, restore_path, rename_part, sync_restore, Writes,
           RollsBack, memory, PathInv, Purposes, Points, RemovalPoints, RestorePoints
  <2> QED
    BY <2>1, <2>2, <2>3 
       DEF unlink_path, sync_unlink, restore_path, rename_part, sync_restore, planVars,
           receiptVars
<1>3. ArchiveInv'
  BY DEF ArchiveInv, AfterArchive, ReceiptPoints, RemovalPoints, RestorePoints, Planned,
         unlink_path, sync_unlink, restore_path, rename_part, sync_restore, Writes,
         RollsBack, planVars
<1>4. ReceiptInv'
  BY DEF ReceiptInv, RemovalPoints, unlink_path, sync_unlink, restore_path, rename_part,
         sync_restore, Writes, RollsBack, receiptVars
<1>5. PathInv'
  <2> USE DEF PathInv, Planned, ToPutBack, Writes, RollsBack, memory, planVars, Trees
  <2>1. CASE unlink_path
    BY <2>1, FirstIsOne DEF unlink_path
  <2>2. CASE sync_unlink
    BY <2>2 DEF sync_unlink
  <2>3. CASE restore_path
    BY <2>3, FirstIsOne DEF restore_path
  <2>4. CASE rename_part \/ sync_restore
    BY <2>4 DEF rename_part, sync_restore
  <2> QED
    BY <2>1, <2>2, <2>3, <2>4
<1> QED
  BY <1>1, <1>2, <1>3, <1>4, <1>5

(* Failures, crashes and the system that writes back.                      *)
LEMMA HostEventsAreSafe ==
    QuarantineInv /\ (quarantine_fails \/ host_crash \/ write_back) => QuarantineInv'
<1> SUFFICES ASSUME QuarantineInv, quarantine_fails \/ host_crash \/ write_back
             PROVE  QuarantineInv'
  OBVIOUS
<1> USE DEF QuarantineInv, QuarantineTypeOK
<1>1. quarantineLeft' \in [cuts : 0..QuarantineCuts, faults : 0..QuarantineFaults,
                           changes : 0..UserChanges]
  BY QuarantineAssumption DEF quarantine_fails, host_crash, write_back, Costs
<1>2. tree' \in Trees /\ durable' \in Trees
  <2>1. CASE quarantine_fails
    BY <2>1 DEF quarantine_fails, Trees, ToPutBack, Planned
  <2>2. CASE host_crash
    BY <2>2 DEF host_crash, Trees
  <2>3. CASE write_back
    BY <2>3 DEF write_back
  <2> QED
    BY <2>1, <2>2, <2>3
<1>3. NothingIsLost'
  <2>1. CASE quarantine_fails
    BY <2>1 DEF quarantine_fails, NothingIsLost, Trees
  <2>2. CASE host_crash
    BY <2>2 DEF host_crash, NothingIsLost, Trees
  <2>3. CASE write_back
    BY <2>3 DEF write_back, NothingIsLost
  <2> QED
    BY <2>1, <2>2, <2>3
<1>4. QuarantineTypeOK'
  <2>1. which' \in 1..PathCount + 1 /\ removed' \subseteq Paths /\ writing' \in Purposes
        /\ doing' \in Points
    BY QuarantineAssumption
       DEF quarantine_fails, host_crash, write_back, RollsBack, memory, Points, RestorePoints
  <2>2. {receipt', durableReceipt'} \subseteq Receipts
        /\ destination' \in {"none", "bare", "moved", "whole"}
    BY DEF quarantine_fails, host_crash, write_back, receiptVars, planVars
  <2> QED
    BY <1>1, <1>2, <2>1, <2>2 DEF quarantine_fails, host_crash, write_back, planVars
<1>5. ArchiveInv'
  BY DEF ArchiveInv, AfterArchive, ReceiptPoints, RemovalPoints, RestorePoints, Planned,
         Removing, quarantine_fails, host_crash, write_back, RollsBack, planVars
<1>6. ReceiptInv' /\ PathInv'
  BY DEF ReceiptInv, PathInv, RemovalPoints, quarantine_fails, host_crash, write_back,
         RollsBack, receiptVars, memory
<1> QED
  BY <1>3, <1>4, <1>5, <1>6

(* The owner of the card.                                                  *)
LEMMA OwnerIsSafe ==
    QuarantineInv /\ (user_writes \/ \E p \in Paths : user_replaces(p)) => QuarantineInv'
<1> SUFFICES ASSUME QuarantineInv, user_writes \/ \E p \in Paths : user_replaces(p)
             PROVE  QuarantineInv'
  OBVIOUS
<1> USE DEF QuarantineInv, QuarantineTypeOK
<1>1. quarantineLeft' \in [cuts : 0..QuarantineCuts, faults : 0..QuarantineFaults,
                           changes : 0..UserChanges]
  BY QuarantineAssumption DEF user_writes, user_replaces, Costs
<1>2. CASE user_writes
  BY <1>1, <1>2, FilesAloneKeep
     DEF user_writes, memory, receiptVars, ArchiveInv, ReceiptInv, PathInv, Planned
<1>3. ASSUME NEW p \in Paths, user_replaces(p) PROVE QuarantineInv'
  <2> DEFINE new == UserChanges - quarantineLeft'.changes
  <2>1. new \in Versions
    BY <1>1, QuarantineAssumption DEF Versions
  <2>2. /\ tree' = [tree EXCEPT !.file[p] = new]
        /\ durable' = [durable EXCEPT !.file[p] = new]
        /\ latest' = [latest EXCEPT ![p] = new]
        /\ UNCHANGED <<planVars, receiptVars, doing, memory, archived>>
        /\ doing # "rename_part"
    BY <1>3 DEF user_replaces
  <2> HIDE DEF new
  <2>3. QuarantineTypeOK'
    BY <1>1, <2>1, <2>2 DEF planVars, receiptVars, memory, Trees
  <2>4. NothingIsLost'
    BY <2>1, <2>2 DEF NothingIsLost, Trees
  <2>5. ArchiveInv' /\ ReceiptInv' /\ PathInv'
    BY <2>2 DEF ArchiveInv, ReceiptInv, PathInv, Planned, planVars, receiptVars, memory
  <2> QED
    BY <2>3, <2>4, <2>5
<1> QED
  BY <1>2, <1>3

(* Archive, receipt and card keep to one another through every             *)
(* interruption and every change by the owner.                             *)
THEOREM QuarantineInvariance == QuarantineSpec => []QuarantineInv
<1>1. QuarantineInv /\ [QuarantineNext]_quarantineVars => QuarantineInv'
  <2> SUFFICES ASSUME QuarantineInv, [QuarantineNext]_quarantineVars PROVE QuarantineInv'
    OBVIOUS
  <2>1. CASE QuarantineNext
    BY <2>1, ArchiveStepsAreSafe, ReceiptStepsAreSafe, FileStepsAreSafe, HostEventsAreSafe,
       OwnerIsSafe DEF QuarantineNext, HostStep
  <2>2. CASE UNCHANGED quarantineVars
    BY <2>2 DEF quarantineVars, QuarantineInv, QuarantineTypeOK, NothingIsLost, ArchiveInv,
                ReceiptInv, PathInv, Planned
  <2> QED
    BY <2>1, <2>2
<1> QED
  BY <1>1, QuarantineStartIsSafe, PTL DEF QuarantineSpec

(* Whatever the owner last wrote is on the card or in an archive that is   *)
(* durable, and nothing is removed before the archive and a receipt are.   *)
THEOREM QuarantineLosesNothing == QuarantineSpec => []QuarantineKeepsFiles
  BY QuarantineInvariance, QuarantineInvKeepsFiles, PTL
=============================================================================
