------------------------------- MODULE Stage1 -------------------------------
(***************************************************************************)
(* The crash-safe flash installer: PID 1 of the installer kernel           *)
(* (installer/stage1/init.c), with the NOR flash it writes, the FAT card   *)
(* it reads and commits to, the stock U-Boot that starts it and the host   *)
(* commands that prepare the card between two boots.                       *)
(*                                                                         *)
(* The flash is seen as erase blocks, the card as the files Stage 1 opens. *)
(* A power cut may come between any two steps: the block being erased or   *)
(* programmed may be left torn, and every card change not yet synced may   *)
(* survive or be lost, each file on its own.                               *)
(***************************************************************************)
EXTENDS Integers, FiniteSets

CONSTANTS
    Builds,            \* universal firmware builds: stage 1, stage 2, kernel
    Creds,             \* private provisioning images of this camera
    DataAction,        \* the DATA_ACTION each build is compiled with
    None,              \* absent file, stock mtd2, nothing running
    Torn,              \* a file whose content is neither the old nor the new
    KernelBlocks,      \* erase blocks of mtd1
    ActivationBlocks,  \* the first of them, ACTIVATION_SIZE long
    KernelPayload,     \* blocks FINAL_KERNEL_SIZE fills
    SystemBlocks,      \* erase blocks of the system region
    SystemPayload,     \* blocks SYSTEM_SIZE fills
    DataBlocks,        \* erase blocks of the data region
    MaxCuts,           \* bound: power cuts in a behaviour
    MaxFaults,         \* bound: failing calls and bad writes in a behaviour
    MaxStagings        \* bound: host stagings in a behaviour

Content == [kind : {"stock", "blank", "torn", "installer", "kernel", "system",
                    "provision", "user"},
            of : Builds \cup Creds \cup {None}]
Block(kind, of) == [kind |-> kind, of |-> of]
Stock == Block("stock", None)
Blank == Block("blank", None)
Damaged == Block("torn", None)
User == Block("user", None)

KernelSpan == 1 .. KernelBlocks
SystemSpan == 1 .. SystemBlocks
DataSpan == 1 .. DataBlocks

(* The images each build and each provisioning input compiles to. *)
InstallerKernel(b) == [i \in KernelSpan |-> Block("installer", b)]
FinalKernel(b) == [i \in KernelSpan |->
    IF i <= KernelPayload THEN Block("kernel", b) ELSE Blank]
SystemImage(b) == [i \in SystemSpan |->
    IF i <= SystemPayload THEN Block("system", b) ELSE Blank]
Provisioning(c) == [i \in DataSpan |-> Block("provision", c)]
StockKernel == [i \in KernelSpan |-> Stock]
TornKernel == [i \in KernelSpan |-> Damaged]

(* Physical mtd3, which the installer kernel splits into system and data:   *)
(* what STOCKM3.BIN is a copy of.                                          *)
Images == [system : [SystemSpan -> Content], data : [DataSpan -> Content]]
StockImage == [system |-> [i \in SystemSpan |-> Stock],
               data |-> [i \in DataSpan |-> Stock]]

Checkpoints == [bin : Images, build : Builds, cred : Creds]
Tuples == [build : Builds, cred : Creds]

ASSUME BuildsAssumption ==
    /\ Builds \cap Creds = {}
    /\ None \notin Builds \cup Creds
    /\ DataAction \in [Builds -> {"initialize", "preserve"}]

ASSUME AbsenceAssumption ==
    /\ None # Torn
    /\ {None, Torn} \cap Images = {}
    /\ {None, Torn} \cap Checkpoints = {}
    /\ None \notin Tuples

ASSUME GeometryAssumption ==
    /\ {KernelBlocks, ActivationBlocks, KernelPayload, SystemBlocks,
        SystemPayload, DataBlocks} \subseteq Nat \ {0}
    /\ ActivationBlocks < KernelPayload
    /\ KernelPayload <= KernelBlocks
    /\ SystemPayload <= SystemBlocks

ASSUME BoundsAssumption == {MaxCuts, MaxFaults, MaxStagings} \subseteq Nat

VARIABLES
    kernel,     \* mtd1
    mtd2,       \* the build whose Stage 1 sits in mtd2, None while stock
    system,     \* logical mtd3
    data,       \* logical mtd4
    card,       \* the card as Stage 1 sees it
    disk,       \* the card as it is on the medium
    archive,    \* stock backups the host has moved off the card
    pc,         \* what the camera is doing
    cursor,     \* next block of the region being erased or programmed
    run,        \* the RAM snapshot of the build and credentials, or None
    held,       \* preserved_data_digest
    failure,    \* the STAGE1 FAIL code, "none" until one is emitted
    cuts, faults, stagings    \* what is left of each bound

flash == <<kernel, mtd2, system, data>>
host == <<archive, stagings>>
ram == <<cursor, run, held>>
vars == <<kernel, mtd2, system, data, card, disk, archive, pc, cursor, run,
          held, failure, cuts, faults, stagings>>

Files == {"selector", "passive", "stage2", "prov", "auth", "bin", "part",
          "ok", "okpart"}
Temporary == {"part", "okpart"}
EmptyCard == [f \in Files |-> None]

Image == [system |-> system, data |-> data]
Checkpoint(bin) == [bin |-> bin, build |-> run.build, cred |-> run.cred]
Initialize == DataAction[run.build] = "initialize"

(* The steps of install_stage2, in the order it runs them. *)
ErasePoints == {"erase_data", "erase_system", "erase_tail", "erase_activation"}
ProgramPoints == {"write_provisioning", "copy_system", "copy_tail",
                  "write_activation"}
BackupPoints == {"export", "create", "sync_part", "read_part", "rename_bin",
                 "sync_bin", "write_okpart", "sync_okpart", "read_okpart",
                 "rename_ok", "sync_ok", "validate"}
WritePoints == ErasePoints \cup ProgramPoints \cup
    {"verify_erased", "verify_provisioning", "verify_system", "compare_data",
     "verify_tail", "verify_kernel", "passivate", "sync_passivated",
     "final_sync"}
InstallPoints == {"snapshot", "unlink_bootstrap", "sync_bootstrap", "bind_data"}
                 \cup BackupPoints \cup WritePoints
BootPoints == {"update_kernel", "update_mtd2", "updated", "switch_root"}
RestPoints == {"off", "stock", "dead", "failed", "thingino"}
Points == InstallPoints \cup BootPoints \cup RestPoints

FailCodes == {"stage2", "camera_authorization_missing",
              "camera_authorization_stage2", "provisioning", "backup_readback",
              "recovery_checkpoint_readback", "recovery_checkpoint_missing",
              "recovery_checkpoint_invalid", "erased_readback",
              "readback_digest", "preserved_data_changed",
              "preactivation_digest", "call"}

-----------------------------------------------------------------------------
(* FAIL: the red LED and pause() until the next power cycle. *)
fail(code) == /\ pc' = "failed"
              /\ failure' = code
              /\ UNCHANGED <<flash, card, disk, host, ram, cuts, faults>>

(* Any checked call may return an error at any step of the installer.      *)
CallFails ==
    /\ pc \in InstallPoints
    /\ faults > 0
    /\ faults' = faults - 1
    /\ pc' = "failed"
    /\ failure' = "call"
    /\ UNCHANGED <<flash, card, disk, host, ram, cuts>>

(* verify_file and verify_camera_authorization: stage 2, the authorization *)
(* and the provisioning image are read whole into RAM and checked there;   *)
(* mtd2 is the build whose digests and data action are compiled in.        *)
verify_camera_authorization ==
    /\ pc = "snapshot"
    /\ IF card["stage2"] # mtd2 THEN fail("stage2")
       ELSE IF card["auth"] = None THEN fail("camera_authorization_missing")
       ELSE IF card["auth"].build # mtd2 THEN fail("camera_authorization_stage2")
       ELSE IF card["prov"] # card["auth"].cred THEN fail("provisioning")
       ELSE /\ run' = card["auth"]
            /\ pc' = "unlink_bootstrap"
            /\ UNCHANGED <<flash, card, disk, host, cursor, held, failure,
                           cuts, faults>>

remove_consumed_bootstrap ==
    /\ pc = "unlink_bootstrap"
    /\ card' = [card EXCEPT !["selector"] = None]
    /\ pc' = "sync_bootstrap"
    /\ UNCHANGED <<flash, disk, host, ram, failure, cuts, faults>>

(* sync(): everything Stage 1 sees on the card becomes durable. *)
Sync(at, next) ==
    /\ pc = at
    /\ disk' = card
    /\ pc' = next
    /\ UNCHANGED <<flash, card, host, ram, failure, cuts, faults>>

(* Variant: every build takes the backup and erases the data region.       *)
sync_bootstrap_without_data_action == Sync("sync_bootstrap", "export")

sync_bootstrap ==
    Sync("sync_bootstrap", IF Initialize THEN "export" ELSE "bind_data")

(* A file Stage 1 writes: its content, or a torn one the write did not     *)
(* report.                                                                 *)
WriteFile(at, f, content, next) ==
    /\ pc = at
    /\ \/ /\ card' = [card EXCEPT ![f] = content]
          /\ UNCHANGED faults
       \/ /\ faults > 0
          /\ faults' = faults - 1
          /\ card' = [card EXCEPT ![f] = Torn]
    /\ pc' = next
    /\ UNCHANGED <<flash, disk, host, ram, failure, cuts>>

RenameFile(at, from, to, next) ==
    /\ pc = at
    /\ card' = [card EXCEPT ![to] = card[from], ![from] = None]
    /\ pc' = next
    /\ UNCHANGED <<flash, disk, host, ram, failure, cuts, faults>>

ReadBack(at, ok, code, next) ==
    /\ pc = at
    /\ IF ok
       THEN /\ pc' = next
            /\ UNCHANGED <<flash, card, disk, host, ram, failure, cuts,
                           faults>>
       ELSE fail(code)

(* Variant: a backup that no longer equals the NOR is taken again. *)
export_backup_again ==
    /\ pc = "export"
    /\ pc' = IF card["bin"] = Image THEN "write_okpart" ELSE "create"
    /\ UNCHANGED <<flash, card, disk, host, ram, failure, cuts, faults>>

(* export_stock_userdata_backup: a committed backup that still equals the  *)
(* NOR is reused, one that does not must carry this build's checkpoint,    *)
(* and with no backup on the card one is taken now.                        *)
export_stock_userdata_backup ==
    /\ pc = "export"
    /\ pc' = IF card["bin"] = None THEN "create"
             ELSE IF card["bin"] = Image THEN "write_okpart"
             ELSE "validate"
    /\ UNCHANGED <<flash, card, disk, host, ram, failure, cuts, faults>>

append_mtd_to_backup == WriteFile("create", "part", Image, "sync_part")
sync_backup == Sync("sync_part", "read_part")

stock_userdata_backup_matches_current_nor ==
    ReadBack("read_part", card["part"] = Image, "backup_readback", "rename_bin")
commit_backup == RenameFile("rename_bin", "part", "bin", "sync_bin")
sync_backup_commit == Sync("sync_bin", "write_okpart")

write_recovery_checkpoint ==
    WriteFile("write_okpart", "okpart", Checkpoint(card["bin"]), "sync_okpart")
sync_checkpoint == Sync("sync_okpart", "read_okpart")
readback_checkpoint ==
    ReadBack("read_okpart", card["okpart"] = Checkpoint(card["bin"]),
             "recovery_checkpoint_readback", "rename_ok")
commit_checkpoint == RenameFile("rename_ok", "okpart", "ok", "sync_ok")

(* The last sync before the first erase also starts the cursor. *)
EnterWrites(next) == /\ pc' = next
                     /\ cursor' = 1

(* Variant: the first erase does not wait for the checkpoint's rename. *)
checkpoint_commit_without_sync ==
    /\ pc = "sync_ok"
    /\ EnterWrites("erase_data")
    /\ UNCHANGED <<flash, card, disk, host, run, held, failure, cuts, faults>>

sync_checkpoint_commit ==
    /\ pc = "sync_ok"
    /\ disk' = card
    /\ EnterWrites("erase_data")
    /\ UNCHANGED <<flash, card, host, run, held, failure, cuts, faults>>

validate_recovery_checkpoint ==
    /\ pc = "validate"
    /\ IF card["ok"] = Checkpoint(card["bin"])
       THEN /\ EnterWrites("erase_data")
            /\ UNCHANGED <<flash, card, disk, host, run, held, failure,
                           cuts, faults>>
       ELSE fail(IF card["ok"] = None THEN "recovery_checkpoint_missing"
                                     ELSE "recovery_checkpoint_invalid")

(* PRESERVE: the digest of the complete data region before any write. *)
bind_existing_data ==
    /\ pc = "bind_data"
    /\ held' = data
    /\ EnterWrites("erase_system")
    /\ UNCHANGED <<flash, card, disk, host, run, failure, cuts, faults>>

-----------------------------------------------------------------------------
(* The NOR. A block erases to 0xff; programming only clears bits, so a     *)
(* block that was not blank does not take the image. A faulty erase or     *)
(* program reports success and leaves the block damaged.                   *)
Programmed(old, new) == IF old = Blank THEN new ELSE Damaged

Outcome(region, result) ==
    \/ /\ region' = [region EXCEPT ![cursor] = result]
       /\ UNCHANGED faults
    \/ /\ faults > 0
       /\ faults' = faults - 1
       /\ region' = [region EXCEPT ![cursor] = Damaged]

(* One block of a loop over a region; the step after the last block enters *)
(* "next" with the cursor at "start".                                      *)
Advance(last, next, start) ==
    IF cursor < last
    THEN /\ cursor' = cursor + 1
         /\ UNCHANGED pc
    ELSE /\ cursor' = start
         /\ pc' = next

NorUnchangedElsewhere ==
    UNCHANGED <<mtd2, card, disk, host, run, held, failure, cuts>>

erase_data ==
    /\ pc = "erase_data"
    /\ Outcome(data, Blank)
    /\ Advance(DataBlocks, "verify_erased", 1)
    /\ UNCHANGED <<kernel, system>>
    /\ NorUnchangedElsewhere

verify_erased ==
    ReadBack("verify_erased", \A i \in DataSpan : data[i] = Blank,
             "erased_readback", "write_provisioning")

write_provisioning_to_data ==
    /\ pc = "write_provisioning"
    /\ Outcome(data, Programmed(data[cursor], Provisioning(run.cred)[cursor]))
    /\ Advance(DataBlocks, "verify_provisioning", 1)
    /\ UNCHANGED <<kernel, system>>
    /\ NorUnchangedElsewhere

verify_provisioning ==
    ReadBack("verify_provisioning", data = Provisioning(run.cred),
             "readback_digest", "erase_system")

erase_system ==
    /\ pc = "erase_system"
    /\ Outcome(system, Blank)
    /\ Advance(SystemBlocks, "copy_system", 1)
    /\ UNCHANGED <<kernel, data>>
    /\ NorUnchangedElsewhere

copy_system ==
    /\ pc = "copy_system"
    /\ Outcome(system, Programmed(system[cursor],
                                  SystemImage(run.build)[cursor]))
    /\ Advance(SystemPayload, "verify_system", 1)
    /\ UNCHANGED <<kernel, data>>
    /\ NorUnchangedElsewhere

(* Variant: the programmed system is not read back. *)
system_without_readback ==
    /\ pc = "verify_system"
    /\ IF Initialize
       THEN /\ pc' = "erase_tail"
            /\ cursor' = ActivationBlocks + 1
       ELSE /\ pc' = "compare_data"
            /\ UNCHANGED cursor
    /\ UNCHANGED <<flash, card, disk, host, run, held, failure, cuts, faults>>

(* verify_region(system): the digest of the payload, then the erased rest. *)
verify_system ==
    /\ pc = "verify_system"
    /\ IF system = SystemImage(run.build)
       THEN /\ IF Initialize
               THEN /\ pc' = "erase_tail"
                    /\ cursor' = ActivationBlocks + 1
               ELSE /\ pc' = "compare_data"
                    /\ UNCHANGED cursor
            /\ UNCHANGED <<flash, card, disk, host, run, held, failure,
                           cuts, faults>>
       ELSE fail("readback_digest")

compare_preserved_data ==
    /\ pc = "compare_data"
    /\ IF data = held
       THEN /\ pc' = "erase_tail"
            /\ cursor' = ActivationBlocks + 1
            /\ UNCHANGED <<flash, card, disk, host, run, held, failure,
                           cuts, faults>>
       ELSE fail("preserved_data_changed")

erase_kernel_tail ==
    /\ pc = "erase_tail"
    /\ Outcome(kernel, Blank)
    /\ Advance(KernelBlocks, "copy_tail", ActivationBlocks + 1)
    /\ UNCHANGED <<system, data>>
    /\ NorUnchangedElsewhere

copy_kernel_tail ==
    /\ pc = "copy_tail"
    /\ Outcome(kernel, Programmed(kernel[cursor],
                                  FinalKernel(run.build)[cursor]))
    /\ Advance(KernelPayload, "verify_tail", 1)
    /\ UNCHANGED <<system, data>>
    /\ NorUnchangedElsewhere

(* verify_stage2_matches_mtd, verify_erased and                            *)
(* verify_kernel_before_activation: everything behind the activation span  *)
(* is the final kernel before the span itself is touched.                  *)
verify_kernel_before_activation ==
    ReadBack("verify_tail",
             \A i \in KernelSpan : i > ActivationBlocks =>
                 kernel[i] = FinalKernel(run.build)[i],
             "preactivation_digest", "erase_activation")

erase_activation ==
    /\ pc = "erase_activation"
    /\ Outcome(kernel, Blank)
    /\ Advance(ActivationBlocks, "write_activation", 1)
    /\ UNCHANGED <<system, data>>
    /\ NorUnchangedElsewhere

write_activation ==
    /\ pc = "write_activation"
    /\ Outcome(kernel, Programmed(kernel[cursor],
                                  FinalKernel(run.build)[cursor]))
    /\ Advance(ActivationBlocks, "verify_kernel", 1)
    /\ UNCHANGED <<system, data>>
    /\ NorUnchangedElsewhere

verify_activated_kernel ==
    ReadBack("verify_kernel", kernel = FinalKernel(run.build),
             "readback_digest", "passivate")

(* Best effort: an unlink that fails leaves its file and the installation  *)
(* still ends.                                                             *)
passivate_camera_install_files ==
    /\ pc = "passivate"
    /\ \E left \in SUBSET {"prov", "auth"} :
          /\ left # {} => faults > 0
          /\ faults' = IF left = {} THEN faults ELSE faults - 1
          /\ card' = [f \in Files |->
                        IF f \in {"prov", "auth"} \ left THEN None ELSE card[f]]
    /\ pc' = "sync_passivated"
    /\ UNCHANGED <<flash, disk, host, ram, failure, cuts>>

(* Its sync is best effort too. *)
sync_passivated ==
    /\ pc = "sync_passivated"
    /\ \/ /\ disk' = card
          /\ UNCHANGED faults
       \/ /\ faults > 0
          /\ faults' = faults - 1
          /\ UNCHANGED disk
    /\ pc' = "final_sync"
    /\ UNCHANGED <<flash, card, host, ram, failure, cuts>>

(* Power-off and reboot both leave Stage 1's memory behind. *)
ForgetRam == /\ cursor' = 1
             /\ run' = None
             /\ held' = None

(* The final sync, the card unmount and the reboot. *)
sync_unmount_reboot ==
    /\ pc = "final_sync"
    /\ disk' = card
    /\ pc' = "off"
    /\ ForgetRam
    /\ UNCHANGED <<flash, card, host, failure, cuts, faults>>

(* switch_to_thingino: the read-only boot verifies kernel and system again *)
(* before it hands over.                                                   *)
switch_to_thingino ==
    /\ pc = "switch_root"
    /\ IF kernel = FinalKernel(mtd2) /\ system = SystemImage(mtd2)
       THEN /\ pc' = "thingino"
            /\ UNCHANGED <<flash, card, disk, host, ram, failure, cuts,
                           faults>>
       ELSE fail("readback_digest")
-----------------------------------------------------------------------------
(* Power. *)
Pending == {f \in Files : card[f] # disk[f]}

(* What a cut leaves on the card: of the changes not yet synced any subset *)
(* reached the medium, and a temporary file may be torn or missing.        *)
CardAfterCut ==
    \E lost \in SUBSET Pending :
    \E torn \in SUBSET (Pending \cap Temporary) :
    \E gone \in SUBSET (Pending \cap Temporary) :
        /\ disk' = [f \in Files |-> IF f \in gone THEN None
                                    ELSE IF f \in torn THEN Torn
                                    ELSE IF f \in lost THEN disk[f]
                                    ELSE card[f]]
        /\ card' = disk'

(* What a cut leaves in a region whose block at the cursor was being       *)
(* erased or programmed.                                                   *)
RegionAfterCut(region, points) ==
    region' \in {region} \cup
        (IF pc \in points THEN {[region EXCEPT ![cursor] = Damaged]} ELSE {})

PowerCut ==
    /\ pc \in InstallPoints \cup {"update_kernel", "update_mtd2"}
    /\ cuts > 0
    /\ cuts' = cuts - 1
    /\ RegionAfterCut(data, {"erase_data", "write_provisioning"})
    /\ RegionAfterCut(system, {"erase_system", "copy_system"})
    /\ \/ RegionAfterCut(kernel, {"erase_tail", "copy_tail", "erase_activation",
                                  "write_activation"})
       \/ pc = "update_kernel" /\ kernel' = TornKernel
    /\ mtd2' \in {mtd2} \cup (IF pc = "update_mtd2" THEN {None} ELSE {})
    /\ CardAfterCut
    /\ pc' = "off"
    /\ failure' = "none"
    /\ ForgetRam
    /\ UNCHANGED <<host, faults>>

(* The operator switches off a camera that waits, failed or runs. *)
PowerOff ==
    /\ pc \in {"updated", "stock", "dead", "failed", "thingino"}
    /\ CardAfterCut
    /\ pc' = "off"
    /\ failure' = "none"
    /\ ForgetRam
    /\ UNCHANGED <<flash, host, cuts, faults>>
-----------------------------------------------------------------------------
(* Stock U-Boot and the two kernels (outside the repository): a file with   *)
(* the selector's name is flashed to mtd1 and mtd2 on every boot and ends   *)
(* in the completion LED loop; otherwise mtd1 boots when its image is whole.*)
(* The installer kernel maps mtd1 and the system region writable, which is  *)
(* how verify_layout tells the two modes apart.                            *)
Bootable(image) == mtd2 # None /\ \E b \in Builds : kernel = image[b]
Installers == [b \in Builds |-> InstallerKernel(b)]
FinalKernels == [b \in Builds |-> FinalKernel(b)]

Starts == Bootable(Installers) \/ Bootable(FinalKernels)

Boot ==
    /\ pc = "off"
    /\ pc' = IF card["selector"] # None THEN "update_kernel"
             ELSE IF Bootable(Installers) THEN "snapshot"
             ELSE IF Bootable(FinalKernels) THEN "switch_root"
             ELSE IF kernel = StockKernel /\ mtd2 = None THEN "stock"
             ELSE "dead"
    /\ UNCHANGED <<flash, card, disk, host, ram, failure, cuts, faults>>

UpdateKernel ==
    /\ pc = "update_kernel"
    /\ kernel' = InstallerKernel(card["selector"])
    /\ pc' = "update_mtd2"
    /\ UNCHANGED <<mtd2, system, data, card, disk, host, ram, failure, cuts,
                   faults>>

UpdateMtd2 ==
    /\ pc = "update_mtd2"
    /\ mtd2' = card["selector"]
    /\ pc' = "updated"
    /\ UNCHANGED <<kernel, system, data, card, disk, host, ram, failure,
                   cuts, faults>>

(* The installed firmware writes its overlay in the data region. *)
ThinginoWritesData ==
    /\ pc = "thingino"
    /\ \E i \in DataSpan : data' = [data EXCEPT ![i] = User]
    /\ UNCHANGED <<kernel, mtd2, system, card, disk, host, pc, ram, failure,
                   cuts, faults>>
-----------------------------------------------------------------------------
(* The host commands, run with the camera off and the card in the host.    *)
BoundCheckpoint(b, c) == [bin |-> card["bin"], build |-> b, cred |-> c]

HostWrites(new) == /\ pc = "off"
                   /\ card' = new
                   /\ disk' = new
                   /\ UNCHANGED <<flash, pc, ram, failure, cuts, faults>>

CameraFilesThere == card["prov"] # None /\ card["auth"] # None
CameraFilesGone == card["prov"] = None /\ card["auth"] = None

(* Variant: staging does not look at the checkpoint on the card. *)
stage_over_any_checkpoint ==
    \E b \in Builds, c \in Creds :
        /\ card["selector"] = None
        /\ card["prov"] = None /\ card["auth"] = None
        /\ (card["passive"] = None) <=> (card["stage2"] = None)
        /\ stagings > 0 /\ stagings' = stagings - 1
        /\ HostWrites([card EXCEPT !["prov"] = c,
                                   !["auth"] = [build |-> b, cred |-> c],
                                   !["stage2"] = b,
                                   !["passive"] = None,
                                   !["selector"] = b])
        /\ UNCHANGED archive

(* universal stage: the camera files first, the selector last, refused     *)
(* over files of an earlier staging and over a checkpoint that does not    *)
(* bind this very tuple.                                                   *)
stage_camera_bound_universal_install ==
    \E b \in Builds, c \in Creds :
        /\ card["selector"] = None
        /\ card["prov"] = None /\ card["auth"] = None
        /\ (card["passive"] = None) <=> (card["stage2"] = None)
        /\ card["ok"] # None =>
              card["bin"] # None /\ card["ok"] = BoundCheckpoint(b, c)
        /\ stagings > 0 /\ stagings' = stagings - 1
        /\ HostWrites([card EXCEPT !["prov"] = c,
                                   !["auth"] = [build |-> b, cred |-> c],
                                   !["stage2"] = b,
                                   !["passive"] = None,
                                   !["selector"] = b])
        /\ UNCHANGED archive

(* What the operator has seen before confirming MTD1-MTD2-WRITTEN: the     *)
(* completion loop of the updater.                                         *)
UpdaterCompleted == /\ kernel = InstallerKernel(card["selector"])
                    /\ mtd2 = card["selector"]

(* Variant: the handoff does not ask whether the updater completed. *)
handoff_unconfirmed ==
    /\ card["selector"] # None
    /\ card["stage2"] = card["selector"]
    /\ card["passive"] = None
    /\ card["prov"] # None
    /\ card["auth"] = [build |-> card["selector"], cred |-> card["prov"]]
    /\ HostWrites([card EXCEPT !["passive"] = card["selector"],
                               !["selector"] = None])
    /\ UNCHANGED host

(* universal handoff, with every camera file compared again. *)
handoff_camera_bound_universal_install ==
    /\ card["selector"] # None
    /\ card["stage2"] = card["selector"]
    /\ card["passive"] = None
    /\ card["prov"] # None
    /\ card["auth"] = [build |-> card["selector"], cred |-> card["prov"]]
    /\ UpdaterCompleted
    /\ HostWrites([card EXCEPT !["passive"] = card["selector"],
                               !["selector"] = None])
    /\ UNCHANGED host

(* The lower-level activation of a passive install set, the retry open to  *)
(* a card that still holds its camera files: it passes no camera bindings, *)
(* so a universal checkpoint on the card refuses it.                       *)
activate_staged_install_set ==
    /\ card["selector"] = None
    /\ card["ok"] = None
    /\ card["passive"] # None /\ card["stage2"] = card["passive"]
    /\ HostWrites([card EXCEPT !["selector"] = card["passive"],
                               !["passive"] = None])
    /\ UNCHANGED host

(* Its counterpart, which makes the selector inert without the camera      *)
(* files being there.                                                      *)
deactivate_staged_install_set ==
    /\ card["selector"] # None
    /\ card["stage2"] = card["selector"]
    /\ card["passive"] = None
    /\ UpdaterCompleted
    /\ HostWrites([card EXCEPT !["passive"] = card["selector"],
                               !["selector"] = None])
    /\ UNCHANGED host

(* The evacuation of "files": the backup must be there, and a checkpoint     *)
(* must bind it and the stage 2 on the card.                               *)
Evacuate(files) ==
    /\ card["selector"] = None
    /\ card["bin"] # None
    /\ card["ok"] # None =>
          /\ card["stage2"] # None
          /\ card["ok"].bin = card["bin"]
          /\ card["ok"].build = card["stage2"]
    /\ HostWrites([f \in Files |-> IF f \in files THEN None ELSE card[f]])
    /\ archive' = archive \cup {card["bin"]}
    /\ UNCHANGED stagings

(* Variant: the checkpoint is left behind on the card.                     *)
evacuate_backup_only == Evacuate({"bin"})

(* universal evacuate-recovery, which archives the backup and its          *)
(* checkpoint on the host, reads them back and removes them, and looks at  *)
(* no camera file.                                                         *)
evacuate_existing_stock_backups == Evacuate({"bin", "ok"})

(* The same with --include-install-inputs: the camera files go along, when *)
(* the checkpoint binds both of them.                                      *)
evacuate_with_install_inputs ==
    /\ card["prov"] # None /\ card["auth"] # None
    /\ card["ok"] = BoundCheckpoint(card["auth"].build, card["prov"])
    /\ Evacuate({"bin", "ok", "prov", "auth"})
-----------------------------------------------------------------------------
Init ==
    /\ kernel = StockKernel /\ mtd2 = None
    /\ system = StockImage.system /\ data = StockImage.data
    /\ card = EmptyCard /\ disk = EmptyCard /\ archive = {}
    /\ pc = "off" /\ cursor = 1 /\ run = None /\ held = None
    /\ failure = "none"
    /\ cuts = MaxCuts /\ faults = MaxFaults /\ stagings = MaxStagings

CardSteps ==
    \/ verify_camera_authorization \/ remove_consumed_bootstrap \/ sync_bootstrap
    \/ export_stock_userdata_backup \/ append_mtd_to_backup \/ sync_backup
    \/ stock_userdata_backup_matches_current_nor \/ commit_backup
    \/ sync_backup_commit \/ write_recovery_checkpoint \/ sync_checkpoint
    \/ readback_checkpoint \/ commit_checkpoint \/ sync_checkpoint_commit
    \/ validate_recovery_checkpoint \/ bind_existing_data

FlashSteps ==
    \/ erase_data \/ verify_erased \/ write_provisioning_to_data
    \/ verify_provisioning \/ erase_system \/ copy_system \/ verify_system
    \/ compare_preserved_data \/ erase_kernel_tail \/ copy_kernel_tail
    \/ verify_kernel_before_activation \/ erase_activation \/ write_activation
    \/ verify_activated_kernel \/ passivate_camera_install_files
    \/ sync_passivated \/ sync_unmount_reboot

BootSteps == Boot \/ UpdateKernel \/ UpdateMtd2 \/ switch_to_thingino

HostSteps ==
    \/ stage_camera_bound_universal_install
    \/ handoff_camera_bound_universal_install
    \/ activate_staged_install_set
    \/ deactivate_staged_install_set
    \/ evacuate_existing_stock_backups
    \/ evacuate_with_install_inputs

Next == \/ CardSteps \/ FlashSteps \/ BootSteps \/ HostSteps
        \/ CallFails \/ PowerCut \/ PowerOff \/ ThinginoWritesData

Spec == Init /\ [][Next]_vars

(* A camera that is powered keeps executing, and an operator keeps power-  *)
(* cycling a camera that waits or failed and keeps using the commands the  *)
(* installation guide names.  The lower-level activation is only owed to a *)
(* camera that starts nothing while its camera files are on the card; cuts *)
(* and faults are never forced.                                            *)
Fairness ==
    /\ WF_vars(CardSteps \/ FlashSteps \/ BootSteps)
    /\ WF_vars(PowerOff)
    /\ SF_vars(stage_camera_bound_universal_install)
    /\ SF_vars(handoff_camera_bound_universal_install)
    /\ SF_vars(activate_staged_install_set /\ CameraFilesThere /\ ~Starts)
    /\ SF_vars(deactivate_staged_install_set)
    /\ SF_vars(evacuate_existing_stock_backups \/ evacuate_with_install_inputs)

FairSpec == Spec /\ Fairness
-----------------------------------------------------------------------------
(* A file reaches its committed name whole: neither the backup nor the     *)
(* checkpoint is ever torn under it.                                       *)
CardOK(c) ==
    /\ DOMAIN c = Files
    /\ {c["selector"], c["passive"], c["stage2"]} \subseteq Builds \cup {None}
    /\ c["prov"] \in Creds \cup {None}
    /\ c["auth"] \in Tuples \cup {None}
    /\ c["bin"] \in Images \cup {None}
    /\ c["part"] \in Images \cup {None, Torn}
    /\ c["ok"] \in Checkpoints \cup {None}
    /\ c["okpart"] \in Checkpoints \cup {None, Torn}

(* The values each variable takes, with both committed files of the card    *)
(* absent or whole.                                                         *)
TypeOK ==
    /\ kernel \in [KernelSpan -> Content]
    /\ mtd2 \in Builds \cup {None}
    /\ system \in [SystemSpan -> Content]
    /\ data \in [DataSpan -> Content]
    /\ CardOK(card) /\ CardOK(disk)
    /\ archive \subseteq Images
    /\ pc \in Points
    /\ cursor \in Nat
    /\ run \in Tuples \cup {None}
    /\ held \in [DataSpan -> Content] \cup {None}
    /\ failure \in FailCodes \cup {"none"}
    /\ cuts \in 0 .. MaxCuts /\ faults \in 0 .. MaxFaults
    /\ stagings \in 0 .. MaxStagings

(* A whole final kernel in mtd1 is only ever found over the complete       *)
(* system of the same build and over that build's Stage 1: whatever cut or *)
(* fault came before, a kernel that boots never boots into a half-written  *)
(* system (install_stage2's order with the activation span last).          *)
ActivatedBuildIsComplete ==
    \A b \in Builds : kernel = FinalKernel(b) =>
        system = SystemImage(b) /\ mtd2 = b

(* Once an initialize build is active, its data region holds one complete  *)
(* provisioning image, but for what the running firmware wrote over it.    *)
ActivatedDataIsProvisioned ==
    \A b \in Builds :
        kernel = FinalKernel(b) /\ DataAction[b] = "initialize" =>
            \E c \in Creds : \A i \in DataSpan :
                data[i] \in {Block("provision", c), User}

(* From the first erase of an initialize install on, the medium holds a    *)
(* committed backup and the checkpoint that binds it to the very build and *)
(* credentials being written: after a cut at any point the retry finds     *)
(* both.                                                                   *)
WritesUnderCheckpoint ==
    pc \in WritePoints /\ Initialize =>
        /\ disk["bin"] \in Images
        /\ disk["ok"] = Checkpoint(disk["bin"])

(* While a checkpointed backup is on the medium, every block of mtd3 is    *)
(* either as it was backed up, or blank, damaged or written by the         *)
(* checkpointed build with the checkpointed credentials, or by the         *)
(* firmware it activated: no retry mixes a second build or a second set of *)
(* credentials into an interrupted install.                                *)
FlashIsAttributable ==
    disk["ok"] \in Checkpoints /\ disk["ok"].bin = disk["bin"] =>
        /\ \A i \in SystemSpan :
              system[i] \in {disk["bin"].system[i], Blank, Damaged,
                             SystemImage(disk["ok"].build)[i]}
        /\ \A i \in DataSpan :
              data[i] \in {disk["bin"].data[i], Blank, Damaged, User,
                           Provisioning(disk["ok"].cred)[i]}

(* With initialize builds only, the stock mtd3 content is never lost: it   *)
(* is still in the NOR, or committed on the medium, or in a host archive.  *)
StockIsRecoverable ==
    (\A b \in Builds : DataAction[b] = "initialize") =>
        \/ Image = StockImage
        \/ disk["bin"] = StockImage
        \/ StockImage \in archive

(* An install that was cut, or met a fault, anywhere leaves nothing that   *)
(* boots by half, and everything that the retry or the way back needs.     *)
InstallIsSafe ==
    /\ ActivatedBuildIsComplete /\ ActivatedDataIsProvisioned
    /\ WritesUnderCheckpoint /\ StockIsRecoverable

(* Without a fault, Stage 1 stops only for want of a camera file, and only *)
(* on a card without backup and checkpoint: while they are there, no       *)
(* sequence of cuts, retries, restagings and evacuations makes it refuse   *)
(* the state an earlier attempt left behind.  A card that lacks them was   *)
(* passivated behind an update, which takes no backup, or under an         *)
(* initialize build evacuated, before its passive set was activated again. *)
CutsNeverStrand ==
    faults = MaxFaults /\ failure # "none" =>
        /\ card["bin"] = None /\ card["ok"] = None
        /\ \/ failure = "camera_authorization_missing" /\ card["auth"] = None
           \/ failure = "provisioning" /\ card["prov"] = None
        /\ DataAction[mtd2] = "initialize" => archive # {}

(* A committed backup leaves the medium only after it reached a host       *)
(* archive; neither a retry nor a cut replaces it.                         *)
BackupIsNeverReplaced ==
    [][disk["bin"] # None /\ disk'["bin"] # disk["bin"]
        => disk["bin"] \in archive']_vars

(* Only an initialize install and the running firmware change the data     *)
(* region: an update with the preserve action leaves it alone, cut or not. *)
OnlyInitializeWritesData ==
    [][pc # "thingino" => run # None /\ Initialize]_data

(* The card that no command frees: one of the two camera files is left, so *)
(* that staging refuses it and Stage 1 fails, and no backup is there to be *)
(* evacuated.  A removal of the camera files that was cut or failed leaves *)
(* it, once the lower-level activation overwrote the installed kernel.     *)
HalfPassivated ==
    /\ card["bin"] = None /\ ~Bootable(FinalKernels)
    /\ ~CameraFilesThere /\ ~CameraFilesGone

(* No artefact of the code: the camera files are gone and MaxStagings does *)
(* not allow to stage them again.                                          *)
StagingsUsedUp == stagings = 0 /\ CameraFilesGone

(* However often power fails or a call returns an error, once that stops   *)
(* the camera ends up running an installed firmware; unless the operator   *)
(* activated a half passivated card, or for ever activates the passive set *)
(* over a camera that would start by itself.                               *)
EventuallyInstalled ==
    \/ <>(pc = "thingino")
    \/ <>[](HalfPassivated \/ StagingsUsedUp)
    \/ []<><<activate_staged_install_set /\ Starts>>_vars
=============================================================================
