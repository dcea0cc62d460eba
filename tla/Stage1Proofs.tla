---------------------------- MODULE Stage1Proofs ----------------------------
(***************************************************************************)
(* Proofs about Stage1, for every number of builds, credentials, erase     *)
(* blocks, cuts, faults and stagings: its type invariant and the           *)
(* completeness of every activated build; then what it keeps for a retry   *)
(* and for the way back.                                                   *)
(***************************************************************************)
EXTENDS Stage1Retry, TLAPS

(* The geometry in the form the provers use. *)
LEMMA Geometry ==
    /\ KernelBlocks \in Nat /\ ActivationBlocks \in Nat /\ KernelPayload \in
       Nat
    /\ SystemBlocks \in Nat /\ SystemPayload \in Nat /\ DataBlocks \in Nat
    /\ KernelBlocks >= 1 /\ ActivationBlocks >= 1 /\ SystemBlocks >= 1
    /\ SystemPayload >= 1 /\ DataBlocks >= 1
    /\ ActivationBlocks < KernelPayload /\ KernelPayload <= KernelBlocks
    /\ SystemPayload <= SystemBlocks
BY GeometryAssumption

(* Every block the program can put in the flash is a Content. *)
LEMMA BlockType ==
    /\ {Stock, Blank, Damaged, User} \subseteq Content
    /\ \A b \in Builds : /\ Block("installer", b) \in Content
                         /\ Block("kernel", b) \in Content
                         /\ Block("system", b) \in Content
    /\ \A c \in Creds : Block("provision", c) \in Content
BY DEF Stock, Blank, Damaged, User, Block, Content

(* The compiled images fill their regions. *)
LEMMA ImageType ==
    /\ StockKernel \in [KernelSpan -> Content]
    /\ TornKernel \in [KernelSpan -> Content]
    /\ StockImage \in Images
    /\ \A b \in Builds : /\ InstallerKernel(b) \in [KernelSpan -> Content]
                         /\ FinalKernel(b) \in [KernelSpan -> Content]
                         /\ SystemImage(b) \in [SystemSpan -> Content]
    /\ \A c \in Creds : Provisioning(c) \in [DataSpan -> Content]
BY BlockType
   DEF StockKernel, TornKernel, StockImage, Images, InstallerKernel,
       FinalKernel, SystemImage, Provisioning

(* Programming a block of a typed region yields a block. *)
LEMMA ProgrammedType ==
    ASSUME NEW old \in Content, NEW new \in Content
    PROVE  Programmed(old, new) \in Content
BY BlockType DEF Programmed

(* The content of physical mtd3 is an image.                               *)
LEMMA ImageTyped == TypeOK => Image \in Images
BY DEF TypeOK, Image, Images

(* The camera as it is delivered.                                          *)
LEMMA InitInvariant == Init => IInv
<1> SUFFICES ASSUME Init PROVE IInv
    OBVIOUS
<1>1. CardOK(EmptyCard)
    BY DEF CardOK, EmptyCard, Files
<1>2. TypeOK
    <2>1. /\ kernel \in [KernelSpan -> Content]
          /\ system \in [SystemSpan -> Content]
          /\ data \in [DataSpan -> Content]
        BY ImageType DEF Init, Images
    <2>2. CardOK(card) /\ CardOK(disk)
        BY <1>1 DEF Init
    <2>3. pc \in Points
        BY DEF Init, Points, RestPoints
    <2>4. /\ cuts \in 0 .. MaxCuts /\ faults \in 0 .. MaxFaults
          /\ stagings \in 0 .. MaxStagings
        BY BoundsAssumption DEF Init
    <2> QED BY <2>1, <2>2, <2>3, <2>4 DEF Init, TypeOK
<1>3. RunBound /\ SelectorAhead /\ BackupAhead /\ CursorBound
    BY
       DEF Init, RunBound, SelectorAhead, BackupAhead, CursorBound,
           InstallPoints, BackupPoints, WritePoints, ErasePoints,
           ProgramPoints
<1>4. InstallerAhead /\ SystemAhead
    BY
       DEF Init, InstallerAhead, SystemAhead, KernelPoints, ActivationPoints,
           InstallPoints, BackupPoints, WritePoints, ErasePoints,
           ProgramPoints
<1>5. ASSUME NEW b \in Builds PROVE kernel # FinalKernel(b)
    <2>1. kernel[1] = Stock
        BY Geometry DEF Init, StockKernel, KernelSpan
    <2>2. FinalKernel(b)[1] = Block("kernel", b)
        BY Geometry DEF FinalKernel, KernelSpan
    <2> QED BY <2>1, <2>2 DEF Stock, Block
<1> QED BY <1>2, <1>3, <1>4, <1>5 DEF IInv, ActivatedBuildIsComplete
-----------------------------------------------------------------------------
(* Types. *)
LEMMA BlockWritten ==
    ASSUME NEW S, NEW r \in [S -> Content], NEW i, NEW x \in Content
    PROVE  [r EXCEPT ![i] = x] \in [S -> Content]
OBVIOUS

(* Writing one file of a well-formed card. *)
LEMMA CardWritten ==
    ASSUME NEW c, CardOK(c), NEW f \in Files, NEW v, NEW d,
           d = [c EXCEPT ![f] = v],
           f \in {"selector", "passive", "stage2"} => v \in Builds \cup {None},
           f = "prov" => v \in Creds \cup {None},
           f = "auth" => v \in Tuples \cup {None},
           f = "bin" => v \in Images \cup {None},
           f = "part" => v \in Images \cup {None, Torn},
           f = "ok" => v \in Checkpoints \cup {None},
           f = "okpart" => v \in Checkpoints \cup {None, Torn}
    PROVE  CardOK(d)
BY DEF CardOK, Files

(* A checkpoint of a run is one.                                           *)
LEMMA CheckpointTyped ==
    ASSUME NEW bin \in Images, run \in Tuples
    PROVE  Checkpoint(bin) \in Checkpoints
BY DEF Checkpoint, Checkpoints, Tuples

(* The steps of the installer on the card keep the types.                  *)
LEMMA CardStepsTyped == IInv /\ CardSteps => TypeOK'
<1> SUFFICES ASSUME IInv, CardSteps PROVE TypeOK'
    OBVIOUS
<1> USE BoundsAssumption
       DEF IInv, fail, Sync, WriteFile, RenameFile, ReadBack, EnterWrites,
           Outcome, Advance, NorUnchangedElsewhere, ForgetRam, HostWrites,
           flash, host, ram, Initialize, InstallPoints, BackupPoints,
           WritePoints, ErasePoints, ProgramPoints, BootPoints, RestPoints,
           Points
<1>1. CASE \/ verify_camera_authorization \/ sync_bootstrap
           \/ export_stock_userdata_backup \/ sync_backup
           \/ stock_userdata_backup_matches_current_nor \/ sync_backup_commit
           \/ sync_checkpoint \/ readback_checkpoint \/ sync_checkpoint_commit
           \/ validate_recovery_checkpoint \/ bind_existing_data
    BY <1>1, Geometry
       DEF TypeOK, FailCodes, CardOK, verify_camera_authorization,
           sync_bootstrap, export_stock_userdata_backup, sync_backup,
           stock_userdata_backup_matches_current_nor, sync_backup_commit,
           sync_checkpoint, readback_checkpoint, sync_checkpoint_commit,
           validate_recovery_checkpoint, bind_existing_data
<1>2. CASE remove_consumed_bootstrap
    BY <1>2, CardWritten DEF TypeOK, remove_consumed_bootstrap, Files
<1>3. CASE append_mtd_to_backup
    BY <1>3, CardWritten, ImageTyped DEF TypeOK, append_mtd_to_backup, Files
<1>4. CASE commit_backup
    <2>1. card' = [[card EXCEPT !["bin"] = card["part"]] EXCEPT !["part"] =
       None]
        BY <1>4 DEF commit_backup
    <2>2. CardOK([card EXCEPT !["bin"] = card["part"]])
        BY <1>4, CardWritten DEF TypeOK, commit_backup, Files, BackupAhead
    <2>3. CardOK(card')
        BY <2>1, <2>2, CardWritten DEF Files
    <2> QED BY <1>4, <2>3 DEF TypeOK, commit_backup
<1>5. CASE write_recovery_checkpoint
    <2>1. Checkpoint(card["bin"]) \in Checkpoints
        BY <1>5, CheckpointTyped
           DEF write_recovery_checkpoint, RunBound, BackupAhead
    <2>2. CardOK(card')
        BY <1>5, <2>1, CardWritten
           DEF TypeOK, write_recovery_checkpoint, Files
    <2> QED BY <1>5, <2>2 DEF TypeOK, write_recovery_checkpoint
<1>6. CASE commit_checkpoint
    <2>1. card' = [[card EXCEPT !["ok"] = card["okpart"]] EXCEPT !["okpart"]
       = None]
        BY <1>6 DEF commit_checkpoint
    <2>2. CardOK([card EXCEPT !["ok"] = card["okpart"]])
        BY <1>6, CardWritten DEF TypeOK, commit_checkpoint, Files, BackupAhead
    <2>3. CardOK(card')
        BY <2>1, <2>2, CardWritten DEF Files
    <2> QED BY <1>6, <2>3 DEF TypeOK, commit_checkpoint
<1> QED BY <1>1, <1>2, <1>3, <1>4, <1>5, <1>6 DEF CardSteps

(* The steps of the installer on the NOR keep the types.                   *)
LEMMA FlashStepsTyped == IInv /\ FlashSteps => TypeOK'
<1> SUFFICES ASSUME IInv, FlashSteps PROVE TypeOK'
    OBVIOUS
<1> USE Geometry, BoundsAssumption
       DEF IInv, fail, Sync, WriteFile, RenameFile, ReadBack, EnterWrites,
           Outcome, Advance, NorUnchangedElsewhere, ForgetRam, HostWrites,
           flash, host, ram, Initialize, InstallPoints, BackupPoints,
           WritePoints, ErasePoints, ProgramPoints, BootPoints, RestPoints,
           Points
<1>1. CASE erase_data
    BY <1>1, BlockWritten, BlockType DEF TypeOK, erase_data
<1>2. CASE write_provisioning_to_data
    <2>1. data[cursor] \in Content /\ Provisioning(run.cred)[cursor] \in
       Content
        BY <1>2, ImageType
           DEF write_provisioning_to_data, TypeOK, CursorBound, RunBound,
               Tuples
    <2>2. data' \in [DataSpan -> Content]
        BY <1>2, <2>1, BlockWritten, BlockType, ProgrammedType
           DEF TypeOK, write_provisioning_to_data
    <2> QED BY <1>2, <2>2 DEF TypeOK, write_provisioning_to_data
<1>3. CASE erase_system
    BY <1>3, BlockWritten, BlockType DEF TypeOK, erase_system
<1>4. CASE copy_system
    <2>1. system[cursor] \in Content /\ SystemImage(run.build)[cursor] \in
       Content
        BY <1>4, ImageType
           DEF copy_system, TypeOK, CursorBound, RunBound, Tuples, SystemSpan
    <2>2. system' \in [SystemSpan -> Content]
        BY <1>4, <2>1, BlockWritten, BlockType, ProgrammedType
           DEF TypeOK, copy_system
    <2> QED BY <1>4, <2>2 DEF TypeOK, copy_system
<1>5. CASE erase_kernel_tail \/ erase_activation
    BY <1>5, BlockWritten, BlockType
       DEF TypeOK, erase_kernel_tail, erase_activation, CursorBound
<1>6. CASE copy_kernel_tail \/ write_activation
    <2>1. kernel[cursor] \in Content /\ FinalKernel(run.build)[cursor] \in
       Content
        BY <1>6, ImageType
           DEF copy_kernel_tail, write_activation, TypeOK, CursorBound,
               RunBound, Tuples, KernelSpan
    <2>2. kernel' \in [KernelSpan -> Content]
        BY <1>6, <2>1, BlockWritten, BlockType, ProgrammedType
           DEF TypeOK, copy_kernel_tail, write_activation
    <2> QED BY <1>6, <2>2
               DEF TypeOK, copy_kernel_tail, write_activation, CursorBound
<1>7. CASE \/ verify_erased \/ verify_provisioning \/ verify_system
           \/ compare_preserved_data \/ verify_kernel_before_activation
           \/ verify_activated_kernel
    BY <1>7
       DEF TypeOK, FailCodes, verify_erased, verify_provisioning,
           verify_system, compare_preserved_data,
           verify_kernel_before_activation, verify_activated_kernel
<1>8. CASE passivate_camera_install_files
    <2>1. CardOK(card')
        BY <1>8 DEF TypeOK, CardOK, Files, passivate_camera_install_files
    <2> QED BY <1>8, <2>1 DEF TypeOK, passivate_camera_install_files
<1>9. CASE sync_passivated \/ sync_unmount_reboot
    BY <1>9 DEF TypeOK, sync_passivated, sync_unmount_reboot
<1> QED BY <1>1, <1>2, <1>3, <1>4, <1>5, <1>6, <1>7, <1>8, <1>9 DEF FlashSteps

(* So do the boots, the host commands, cuts and faults.                    *)
LEMMA OtherStepsTyped ==
    IInv /\ (BootSteps \/ HostSteps \/ CallFails \/ PowerCut \/ PowerOff
             \/ ThinginoWritesData) => TypeOK'
<1> SUFFICES ASSUME IInv,
                    BootSteps \/ HostSteps \/ CallFails \/ PowerCut \/ PowerOff
                    \/ ThinginoWritesData
             PROVE  TypeOK'
    OBVIOUS
<1> USE BoundsAssumption
       DEF IInv, fail, Sync, WriteFile, RenameFile, ReadBack, EnterWrites,
           Outcome, Advance, NorUnchangedElsewhere, ForgetRam, HostWrites,
           flash, host, ram, Initialize, InstallPoints, BackupPoints,
           WritePoints, ErasePoints, ProgramPoints, BootPoints, RestPoints,
           Points
<1>1. CASE Boot \/ switch_to_thingino \/ CallFails
    BY <1>1 DEF TypeOK, FailCodes, Boot, switch_to_thingino, CallFails
<1>2. CASE UpdateKernel
    BY <1>2, ImageType DEF UpdateKernel, TypeOK, SelectorAhead
<1>21. CASE UpdateMtd2
    BY <1>21 DEF UpdateMtd2, TypeOK, CardOK
<1>3. CASE stage_camera_bound_universal_install
    <2>1. CardOK(card') /\ disk' = card'
        BY <1>3
           DEF stage_camera_bound_universal_install, TypeOK, CardOK, Files,
               Tuples
    <2> QED BY <1>3, <2>1 DEF stage_camera_bound_universal_install, TypeOK
<1>4. CASE handoff_camera_bound_universal_install \/
   activate_staged_install_set \/ deactivate_staged_install_set
    <2>1. CardOK(card') /\ disk' = card'
        BY <1>4
           DEF handoff_camera_bound_universal_install,
               activate_staged_install_set, deactivate_staged_install_set,
               TypeOK, CardOK, Files
    <2> QED BY <1>4, <2>1
               DEF handoff_camera_bound_universal_install,
                   activate_staged_install_set, deactivate_staged_install_set,
                   TypeOK
<1>5. CASE evacuate_existing_stock_backups \/ evacuate_with_install_inputs
    <2> USE DEF evacuate_existing_stock_backups, evacuate_with_install_inputs, Evacuate
    <2>1. CardOK(card') /\ disk' = card' /\ card["bin"] \in Images
        BY <1>5 DEF TypeOK, CardOK, Files
    <2> QED BY <1>5, <2>1 DEF TypeOK
<1>6. ASSUME CardAfterCut PROVE CardOK(card') /\ CardOK(disk')
    BY <1>6 DEF CardAfterCut, TypeOK, CardOK, Files, Temporary, Pending
<1>7. CASE PowerCut
    <2>1. kernel' \in [KernelSpan -> Content] 
        BY <1>7, ImageType, BlockType, BlockWritten
           DEF PowerCut, RegionAfterCut, TypeOK
    <2>2. data' \in [DataSpan -> Content] /\ system' \in [SystemSpan ->
       Content]
        BY <1>7, BlockType, BlockWritten DEF PowerCut, RegionAfterCut, TypeOK
    <2> QED BY <1>6, <1>7, <2>1, <2>2 DEF PowerCut, TypeOK
<1>8. CASE PowerOff
    BY <1>6, <1>8 DEF PowerOff, TypeOK
<1>9. CASE ThinginoWritesData
    BY <1>9, BlockWritten, BlockType DEF ThinginoWritesData, TypeOK
<1> QED BY <1>1, <1>2, <1>21, <1>3, <1>4, <1>5, <1>7, <1>8, <1>9
           DEF BootSteps, HostSteps
-----------------------------------------------------------------------------
(* The points of the installer. *)
LEMMA CardStepsOrdered ==
    IInv /\ CardSteps =>
        RunBound' /\ SelectorAhead' /\ BackupAhead' /\ CursorBound'
<1> SUFFICES ASSUME IInv, CardSteps
             PROVE  RunBound' /\ SelectorAhead' /\ BackupAhead' /\ CursorBound'
    OBVIOUS
<1> USE Geometry
       DEF IInv, fail, Sync, WriteFile, RenameFile, ReadBack, EnterWrites,
           Outcome, Advance, NorUnchangedElsewhere, ForgetRam, HostWrites,
           flash, host, ram, Initialize, InstallPoints, BackupPoints,
           WritePoints, ErasePoints, ProgramPoints, BootPoints, RestPoints,
           Points
<1> USE
       DEF verify_camera_authorization, remove_consumed_bootstrap,
           sync_bootstrap, export_stock_userdata_backup, append_mtd_to_backup,
           sync_backup, stock_userdata_backup_matches_current_nor,
           commit_backup, sync_backup_commit, write_recovery_checkpoint,
           sync_checkpoint, readback_checkpoint, commit_checkpoint,
           sync_checkpoint_commit, validate_recovery_checkpoint,
           bind_existing_data
<1>1. RunBound'
    BY DEF CardSteps, RunBound, TypeOK, CardOK
<1>2. SelectorAhead'
    BY DEF CardSteps, SelectorAhead
<1>3. BackupAhead'
    <2>1. CASE stock_userdata_backup_matches_current_nor
        BY <2>1, ImageTyped DEF BackupAhead
    <2>2. CASE readback_checkpoint
        BY <2>2, CheckpointTyped DEF BackupAhead, RunBound
    <2>3. CASE \/ append_mtd_to_backup \/ commit_backup
               \/ write_recovery_checkpoint \/ commit_checkpoint
        BY <2>3 DEF BackupAhead, TypeOK, CardOK, Files
    <2>4. CASE export_stock_userdata_backup
        BY <2>4 DEF BackupAhead, TypeOK, CardOK
    <2>5. CASE \/ verify_camera_authorization \/ remove_consumed_bootstrap
               \/ sync_bootstrap \/ sync_backup \/ sync_backup_commit
               \/ sync_checkpoint \/ sync_checkpoint_commit
               \/ validate_recovery_checkpoint \/ bind_existing_data
        BY <2>5 DEF BackupAhead
    <2> QED BY <2>1, <2>2, <2>3, <2>4, <2>5 DEF CardSteps
<1>4. CursorBound'
    BY DEF CardSteps, CursorBound, DataSpan, SystemSpan
<1> QED BY <1>1, <1>2, <1>3, <1>4

(* The loops over the NOR keep their order and cursors.                    *)
LEMMA FlashStepsOrdered ==
    IInv /\ FlashSteps =>
        RunBound' /\ SelectorAhead' /\ BackupAhead' /\ CursorBound'
<1> SUFFICES ASSUME IInv, FlashSteps
             PROVE  RunBound' /\ SelectorAhead' /\ BackupAhead' /\ CursorBound'
    OBVIOUS
<1> USE Geometry
       DEF IInv, fail, Sync, WriteFile, RenameFile, ReadBack, EnterWrites,
           Outcome, Advance, NorUnchangedElsewhere, ForgetRam, HostWrites,
           flash, host, ram, Initialize, InstallPoints, BackupPoints,
           WritePoints, ErasePoints, ProgramPoints, BootPoints, RestPoints,
           Points
<1> USE
       DEF erase_data, verify_erased, write_provisioning_to_data,
           verify_provisioning, erase_system, copy_system, verify_system,
           compare_preserved_data, erase_kernel_tail, copy_kernel_tail,
           verify_kernel_before_activation, erase_activation,
           write_activation, verify_activated_kernel,
           passivate_camera_install_files, sync_passivated,
           sync_unmount_reboot
<1>1. RunBound'
    BY DEF FlashSteps, RunBound
<1>2. SelectorAhead'
    BY DEF FlashSteps, SelectorAhead
<1>3. BackupAhead'
    BY DEF FlashSteps, BackupAhead
<1>4. CursorBound'
    <2>1. CASE erase_data \/ write_provisioning_to_data
        BY <2>1 DEF CursorBound, DataSpan, SystemSpan, TypeOK
    <2>2. CASE erase_system \/ copy_system
        BY <2>2 DEF CursorBound, DataSpan, SystemSpan, TypeOK
    <2>3. CASE erase_kernel_tail \/ copy_kernel_tail
        BY <2>3 DEF CursorBound, DataSpan, SystemSpan, TypeOK
    <2>4. CASE erase_activation \/ write_activation
        BY <2>4 DEF CursorBound, DataSpan, SystemSpan, TypeOK
    <2>5. CASE \/ verify_erased \/ verify_provisioning \/ verify_system
               \/ compare_preserved_data \/ verify_kernel_before_activation
               \/ verify_activated_kernel
        BY <2>5 DEF CursorBound, DataSpan, SystemSpan, TypeOK
    <2>6. CASE \/ passivate_camera_install_files \/ sync_passivated
               \/ sync_unmount_reboot
        BY <2>6 DEF CursorBound
    <2> QED BY <2>1, <2>2, <2>3, <2>4, <2>5, <2>6 DEF FlashSteps
<1> QED BY <1>1, <1>2, <1>3, <1>4

(* Nothing else enters the installer half way.                             *)
LEMMA OtherStepsOrdered ==
    IInv /\ (BootSteps \/ HostSteps \/ CallFails \/ PowerCut \/ PowerOff
             \/ ThinginoWritesData) =>
        RunBound' /\ SelectorAhead' /\ BackupAhead' /\ CursorBound'
<1> SUFFICES ASSUME IInv,
                    BootSteps \/ HostSteps \/ CallFails \/ PowerCut \/ PowerOff
                    \/ ThinginoWritesData
             PROVE  RunBound' /\ SelectorAhead' /\ BackupAhead' /\ CursorBound'
    OBVIOUS
<1> USE
       DEF IInv, fail, Sync, WriteFile, RenameFile, ReadBack, EnterWrites,
           Outcome, Advance, NorUnchangedElsewhere, ForgetRam, HostWrites,
           flash, host, ram, Initialize, InstallPoints, BackupPoints,
           WritePoints, ErasePoints, ProgramPoints, BootPoints, RestPoints,
           Points
<1> USE
       DEF BootSteps, HostSteps, Boot, UpdateKernel, UpdateMtd2,
           switch_to_thingino, stage_camera_bound_universal_install,
           handoff_camera_bound_universal_install,
           activate_staged_install_set, deactivate_staged_install_set,
           evacuate_existing_stock_backups, evacuate_with_install_inputs,
           Evacuate, CallFails, PowerCut, PowerOff,
           ThinginoWritesData
<1>1. RunBound'
    BY DEF RunBound
<1>2. SelectorAhead'
    BY DEF SelectorAhead, TypeOK, CardOK
<1>3. BackupAhead'
    BY DEF BackupAhead
<1>4. CursorBound'
    BY DEF CursorBound
<1> QED BY <1>1, <1>2, <1>3, <1>4
-----------------------------------------------------------------------------
(* The kernel and the system. *)

(* A whole final kernel is recognised by any block of its payload, the      *)
(* first one or the one behind the activation span.                        *)
LEMMA FinalKernelBlocks ==
    ASSUME NEW b \in Builds
    PROVE  /\ FinalKernel(b)[1] = Block("kernel", b)
           /\ FinalKernel(b)[ActivationBlocks + 1] = Block("kernel", b)
BY Geometry DEF FinalKernel, KernelSpan

(* Blocks of different kinds, or of different builds, differ.              *)
LEMMA BlockKinds ==
    ASSUME NEW b, NEW c
    PROVE  /\ Block("installer", b) # Block("kernel", c)
           /\ Block("kernel", b) = Block("kernel", c) => b = c
           /\ Damaged # Block("kernel", b) /\ Damaged # Blank
<1>1. \A x, y, u, v : Block(x, u) = Block(y, v) => x = y /\ u = v
    <2> SUFFICES ASSUME NEW x, NEW y, NEW u, NEW v, Block(x, u) = Block(y, v)
                 PROVE  x = y /\ u = v
        OBVIOUS
    <2>1. Block(x, u).kind = x /\ Block(y, v).kind = y
        BY DEF Block
    <2>2. Block(x, u).of = u /\ Block(y, v).of = v
        BY DEF Block
    <2> QED BY <2>1, <2>2
<1> QED BY <1>1 DEF Damaged, Blank

(* A kernel that starts with an installer is not a final one.              *)
LEMMA InstallerIsNotFinal ==
    ASSUME NEW b \in Builds, NEW c \in Builds, NEW k,
           k[1] = Block("installer", c)
    PROVE  k # FinalKernel(b)
BY FinalKernelBlocks, BlockKinds

(* A step that leaves mtd1, mtd2 and the system alone keeps what was        *)
(* complete complete.                                                      *)
LEMMA CompleteUnchanged ==
    ActivatedBuildIsComplete /\ UNCHANGED <<kernel, mtd2, system>>
        => ActivatedBuildIsComplete'
BY DEF ActivatedBuildIsComplete

(* The steps on the card leave the kernel alone.                           *)
LEMMA CardStepsComplete ==
    IInv /\ CardSteps =>
        InstallerAhead' /\ SystemAhead' /\ ActivatedBuildIsComplete'
<1> SUFFICES ASSUME IInv, CardSteps
             PROVE  InstallerAhead' /\ SystemAhead' /\
                ActivatedBuildIsComplete'
    OBVIOUS
<1> USE
       DEF IInv, fail, Sync, WriteFile, RenameFile, ReadBack, EnterWrites,
           Outcome, Advance, NorUnchangedElsewhere, ForgetRam, HostWrites,
           flash, host, ram, Initialize, InstallPoints, BackupPoints,
           WritePoints, ErasePoints, ProgramPoints, BootPoints, RestPoints,
           Points, KernelPoints, ActivationPoints
<1> USE
       DEF verify_camera_authorization, remove_consumed_bootstrap,
           sync_bootstrap, export_stock_userdata_backup, append_mtd_to_backup,
           sync_backup, stock_userdata_backup_matches_current_nor,
           commit_backup, sync_backup_commit, write_recovery_checkpoint,
           sync_checkpoint, readback_checkpoint, commit_checkpoint,
           sync_checkpoint_commit, validate_recovery_checkpoint,
           bind_existing_data
<1>1. UNCHANGED <<kernel, mtd2, system>>
    BY DEF CardSteps
<1>2. InstallerAhead'
    BY <1>1 DEF CardSteps, InstallerAhead
<1>3. SystemAhead'
    BY <1>1 DEF CardSteps, SystemAhead
<1> QED BY <1>1, <1>2, <1>3, CompleteUnchanged

(* The NOR steps complete a kernel only over its system.                   *)
LEMMA FlashStepsComplete ==
    IInv /\ FlashSteps =>
        InstallerAhead' /\ SystemAhead' /\ ActivatedBuildIsComplete'
<1> SUFFICES ASSUME IInv, FlashSteps
             PROVE  InstallerAhead' /\ SystemAhead' /\
                ActivatedBuildIsComplete'
    OBVIOUS
<1> USE
       DEF IInv, fail, Sync, WriteFile, RenameFile, ReadBack, EnterWrites,
           Outcome, Advance, NorUnchangedElsewhere, ForgetRam, HostWrites,
           flash, host, ram, Initialize, InstallPoints, BackupPoints,
           WritePoints, ErasePoints, ProgramPoints, BootPoints, RestPoints,
           Points, KernelPoints, ActivationPoints
<1>1. CASE \/ erase_data \/ verify_erased \/ write_provisioning_to_data
           \/ verify_provisioning \/ verify_system \/ compare_preserved_data
    <2> USE <1>1
           DEF erase_data, verify_erased, write_provisioning_to_data,
               verify_provisioning, verify_system, compare_preserved_data
    <2>1. UNCHANGED <<kernel, mtd2, system>>
        OBVIOUS
    <2>2. InstallerAhead'
        BY <2>1 DEF InstallerAhead
    <2>3. SystemAhead'
        BY <2>1 DEF SystemAhead
    <2> QED BY <2>1, <2>2, <2>3, CompleteUnchanged
<1>2. CASE erase_system \/ copy_system
    <2> USE <1>2 DEF erase_system, copy_system
    <2>1. InstallerAhead'
        BY DEF InstallerAhead
    <2>2. SystemAhead'
        BY DEF SystemAhead
    <2>3. \E c \in Builds : kernel'[1] = Block("installer", c)
        BY DEF InstallerAhead
    <2> QED BY <2>1, <2>2, <2>3, InstallerIsNotFinal
               DEF ActivatedBuildIsComplete
<1>3. CASE erase_kernel_tail \/ copy_kernel_tail
    <2> USE <1>3 DEF erase_kernel_tail, copy_kernel_tail
    <2>1. cursor > 1
        BY Geometry DEF CursorBound, TypeOK
    <2>2. PICK c \in Builds : kernel[1] = Block("installer", c)
        BY DEF InstallerAhead
    <2>3. kernel'[1] = Block("installer", c)
        <3>1. 1 \in DOMAIN kernel
            BY Geometry DEF TypeOK, KernelSpan
        <3> QED BY <2>1, <2>2, <3>1
    <2>4. InstallerAhead'
        BY <2>3 DEF InstallerAhead
    <2>5. SystemAhead'
        BY DEF SystemAhead
    <2> QED BY <2>3, <2>4, <2>5, InstallerIsNotFinal
               DEF ActivatedBuildIsComplete
<1>4. CASE verify_kernel_before_activation
    <2> USE <1>4 DEF verify_kernel_before_activation
    <2>1. UNCHANGED <<kernel, mtd2, system>>
        OBVIOUS
    <2>2. InstallerAhead'
        BY <2>1 DEF InstallerAhead
    <2>3. ASSUME pc' # "failed"
          PROVE  kernel[ActivationBlocks + 1] = Block("kernel", run.build)
        <3>1. ActivationBlocks + 1 \in KernelSpan
              /\ ActivationBlocks + 1 > ActivationBlocks
            BY Geometry DEF KernelSpan
        <3>2. \A i \in KernelSpan : i > ActivationBlocks =>
                  kernel[i] = FinalKernel(run.build)[i]
            BY <2>3
        <3>3. run.build \in Builds
            BY DEF RunBound, Tuples
        <3> QED BY <3>1, <3>2, <3>3, FinalKernelBlocks
    <2>4. SystemAhead'
        BY <2>1, <2>3 DEF SystemAhead
    <2> QED BY <2>1, <2>2, <2>4, CompleteUnchanged
<1>5. CASE erase_activation \/ write_activation
    <2> USE <1>5 DEF erase_activation, write_activation
    <2>1. cursor # ActivationBlocks + 1
        BY Geometry DEF CursorBound, TypeOK
    <2>2. kernel'[ActivationBlocks + 1] = Block("kernel", run.build)
        <3>1. kernel[ActivationBlocks + 1] = Block("kernel", run.build)
              /\ run' = run
            BY DEF SystemAhead
        <3>2. ActivationBlocks + 1 \in DOMAIN kernel
            BY Geometry DEF TypeOK, KernelSpan
        <3>3. kernel'[ActivationBlocks + 1] = kernel[ActivationBlocks + 1]
            BY <2>1, <3>2
        <3> QED BY <3>1, <3>3
    <2>3. InstallerAhead'
        BY DEF InstallerAhead
    <2>4. SystemAhead'
        BY <2>2 DEF SystemAhead
    <2>5. ASSUME NEW b \in Builds, kernel' = FinalKernel(b)
          PROVE  system' = SystemImage(b) /\ mtd2' = b
        <3>1. run.build = b
            <4>1. kernel'[ActivationBlocks + 1] = Block("kernel", b)
                BY <2>5, FinalKernelBlocks
            <4>2. Block("kernel", run.build) = Block("kernel", b)
                BY ONLY <2>2, <4>1
            <4> QED BY ONLY <4>2, BlockKinds
        <3> QED BY <3>1 DEF SystemAhead, RunBound
    <2> QED BY <2>3, <2>4, <2>5 DEF ActivatedBuildIsComplete
<1>6. CASE \/ verify_activated_kernel \/ passivate_camera_install_files
           \/ sync_passivated \/ sync_unmount_reboot
    <2> USE <1>6
           DEF verify_activated_kernel, passivate_camera_install_files,
               sync_passivated, sync_unmount_reboot
    <2>1. UNCHANGED <<kernel, mtd2, system>>
        OBVIOUS
    <2>2. InstallerAhead'
        BY DEF InstallerAhead
    <2>3. SystemAhead'
        BY <2>1 DEF SystemAhead
    <2> QED BY <2>1, <2>2, <2>3, CompleteUnchanged
<1> QED BY <1>1, <1>2, <1>3, <1>4, <1>5, <1>6 DEF FlashSteps

(* Neither the updater nor a cut completes a kernel.                       *)
LEMMA OtherStepsComplete ==
    IInv /\ (BootSteps \/ HostSteps \/ CallFails \/ PowerCut \/ PowerOff
             \/ ThinginoWritesData) =>
        InstallerAhead' /\ SystemAhead' /\ ActivatedBuildIsComplete'
<1> SUFFICES ASSUME IInv,
                    BootSteps \/ HostSteps \/ CallFails \/ PowerCut \/ PowerOff
                    \/ ThinginoWritesData
             PROVE  InstallerAhead' /\ SystemAhead' /\
                ActivatedBuildIsComplete'
    OBVIOUS
<1> USE
       DEF IInv, fail, Sync, WriteFile, RenameFile, ReadBack, EnterWrites,
           Outcome, Advance, NorUnchangedElsewhere, ForgetRam, HostWrites,
           flash, host, ram, Initialize, InstallPoints, BackupPoints,
           WritePoints, ErasePoints, ProgramPoints, BootPoints, RestPoints,
           Points, KernelPoints, ActivationPoints
<1>1. CASE Boot
    <2>1. UNCHANGED <<kernel, mtd2, system>>
        BY <1>1 DEF Boot
    <2>2. ASSUME Bootable(Installers)
          PROVE  \E b \in Builds : kernel[1] = Block("installer", b)
        BY <2>2, Geometry
           DEF Bootable, Installers, InstallerKernel, KernelSpan
    <2>3. InstallerAhead'
        BY <1>1, <2>1, <2>2 DEF Boot, InstallerAhead
    <2>4. SystemAhead'
        BY <1>1 DEF Boot, SystemAhead
    <2> QED BY <2>1, <2>3, <2>4, CompleteUnchanged
<1>2. CASE UpdateKernel
    <2>1. kernel'[1] = Block("installer", card["selector"])
        BY <1>2, Geometry DEF UpdateKernel, InstallerKernel, KernelSpan
    <2>2. card["selector"] \in Builds
        BY <1>2 DEF UpdateKernel, SelectorAhead
    <2>3. InstallerAhead'
        BY <2>1, <2>2 DEF InstallerAhead
    <2>4. SystemAhead'
        BY <1>2 DEF UpdateKernel, SystemAhead
    <2> QED BY <2>1, <2>2, <2>3, <2>4, InstallerIsNotFinal
               DEF ActivatedBuildIsComplete
<1>3. CASE UpdateMtd2
    <2>1. PICK c \in Builds : kernel[1] = Block("installer", c)
        BY <1>3 DEF UpdateMtd2, InstallerAhead
    <2>2. kernel' = kernel
        BY <1>3 DEF UpdateMtd2
    <2>3. InstallerAhead'
        BY <2>1, <2>2 DEF InstallerAhead
    <2>4. SystemAhead'
        BY <1>3 DEF UpdateMtd2, SystemAhead
    <2> QED BY <2>1, <2>2, <2>3, <2>4, InstallerIsNotFinal
               DEF ActivatedBuildIsComplete
<1>4. CASE PowerCut
    <2>1. InstallerAhead' /\ SystemAhead'
        BY <1>4 DEF PowerCut, InstallerAhead, SystemAhead
    <2>2. ASSUME NEW b \in Builds, kernel' = FinalKernel(b)
          PROVE  system' = SystemImage(b) /\ mtd2' = b
        <3>1. kernel' = kernel
            <4>1. kernel'[1] # Damaged /\ kernel' # TornKernel
                <5>1. kernel'[1] # Damaged
                    BY <2>2, FinalKernelBlocks, BlockKinds
                <5>2. TornKernel[1] = Damaged
                    BY Geometry DEF TornKernel, KernelSpan
                <5> QED BY <5>1, <5>2
            <4>2. \A i \in KernelSpan : kernel'[i] # Damaged
                BY <2>2, BlockKinds DEF FinalKernel
            <4>3. ASSUME kernel' = [kernel EXCEPT ![cursor] = Damaged],
                         cursor \in KernelSpan
                  PROVE  FALSE
                BY <4>2, <4>3 DEF TypeOK
            <4>4. pc \in {"erase_tail", "copy_tail", "erase_activation",
                          "write_activation"} => cursor \in KernelSpan
                BY Geometry DEF CursorBound, KernelSpan, TypeOK
            <4> QED BY <1>4, <4>1, <4>3, <4>4 DEF PowerCut, RegionAfterCut
        <3>2. pc \notin {"erase_system", "copy_system", "update_mtd2"}
            BY <2>2, <3>1, InstallerIsNotFinal DEF InstallerAhead
        <3>3. system' = system /\ mtd2' = mtd2
            BY <1>4, <3>2 DEF PowerCut, RegionAfterCut
        <3> QED BY <2>2, <3>1, <3>3 DEF ActivatedBuildIsComplete
    <2> QED BY <2>1, <2>2 DEF ActivatedBuildIsComplete
<1>5. CASE \/ switch_to_thingino \/ HostSteps \/ CallFails \/ PowerOff
           \/ ThinginoWritesData
    <2> USE <1>5
           DEF switch_to_thingino, HostSteps,
               stage_camera_bound_universal_install,
               handoff_camera_bound_universal_install,
               activate_staged_install_set, deactivate_staged_install_set,
               evacuate_existing_stock_backups, evacuate_with_install_inputs,
               Evacuate, CallFails, PowerOff,
               ThinginoWritesData
    <2>1. UNCHANGED <<kernel, mtd2, system>>
        OBVIOUS
    <2>2. InstallerAhead'
        BY DEF InstallerAhead
    <2>3. SystemAhead'
        BY DEF SystemAhead
    <2> QED BY <2>1, <2>2, <2>3, CompleteUnchanged
<1> QED BY <1>1, <1>2, <1>3, <1>4, <1>5 DEF BootSteps
-----------------------------------------------------------------------------
(* A stuttering step changes nothing.                                      *)
LEMMA Stuttering == IInv /\ UNCHANGED vars => IInv'
BY
   DEF vars, IInv, TypeOK, RunBound, SelectorAhead, BackupAhead, CursorBound,
       InstallerAhead, SystemAhead, ActivatedBuildIsComplete, CardOK

(* Every step of the installer, the boot loader, the power and the host     *)
(* preserves the invariant.                                                *)
LEMMA StepInvariant == IInv /\ [Next]_vars => IInv'
<1> SUFFICES ASSUME IInv, [Next]_vars PROVE IInv'
    OBVIOUS
<1>1. CASE CardSteps
    BY <1>1, CardStepsTyped, CardStepsOrdered, CardStepsComplete DEF IInv
<1>2. CASE FlashSteps
    BY <1>2, FlashStepsTyped, FlashStepsOrdered, FlashStepsComplete DEF IInv
<1>3. CASE BootSteps \/ HostSteps \/ CallFails \/ PowerCut \/ PowerOff
           \/ ThinginoWritesData
    BY <1>3, OtherStepsTyped, OtherStepsOrdered, OtherStepsComplete DEF IInv
<1>4. CASE UNCHANGED vars
    BY <1>4, Stuttering
<1> QED BY <1>1, <1>2, <1>3, <1>4 DEF Next

(* What each point of the installer relies on (the order of its steps, the *)
(* cursor of its loops, the backup protocol) holds whatever cuts or fails. *)
THEOREM Invariance == Spec => []IInv
BY InitInvariant, StepInvariant, PTL DEF Spec

(* In every behaviour each variable keeps its type: above all, neither the  *)
(* backup nor its checkpoint is ever torn under its committed name, whatever *)
(* cut interrupts the write, sync, read-back, rename and sync of Stage 1.  *)
THEOREM TypeCorrect == Spec => []TypeOK
BY Invariance, PTL DEF IInv

(* A camera whose mtd1 holds a whole final kernel has the complete system   *)
(* of that build and its Stage 1 in mtd2, for any geometry and any number  *)
(* of cuts, faults, retries and builds: the activation span is the commit  *)
(* point of install_stage2.                                                *)
THEOREM ActivationIsComplete == Spec => []ActivatedBuildIsComplete
BY Invariance, PTL DEF IInv

-----------------------------------------------------------------------------
(* The part of it that is about the files.                                 *)
FilesInv ==
    /\ CardIsSynced /\ BackupIsKept /\ BackupIsCurrent /\ InitializeOnly
    /\ FilesAreSettled /\ TuplesAgree

(* What the checkpoint of a backup binds.                                  *)
LEMMA CheckpointFields ==
    ASSUME NEW bin \in Images, run \in Tuples
    PROVE  /\ Checkpoint(bin) \in Checkpoints /\ Checkpoint(bin) # None
           /\ Checkpoint(bin).bin = bin /\ TupleOf(Checkpoint(bin)) = run
BY AbsenceAssumption DEF Checkpoint, Checkpoints, Tuples, TupleOf

(* The card's protocol: backup, checkpoint, and the sync before the writes.  *)
LEMMA CardStepsKeepFiles == IInv /\ FilesInv /\ CardSteps => FilesInv'
<1> SUFFICES ASSUME IInv, FilesInv, CardSteps PROVE FilesInv'
    OBVIOUS
<1> USE AbsenceAssumption DEF fail, Sync, WriteFile, RenameFile, ReadBack,
                              EnterWrites,
           flash, host, ram, InstallPoints, BackupPoints,
           WritePoints, ErasePoints, ProgramPoints, BootPoints, RestPoints,
           Points, SyncedPoints, DataPoints, Files
<1>0. /\ CardOK(card) /\ CardOK(disk) /\ RunBound /\ BackupAhead
    BY DEF IInv, TypeOK
<1> USE <1>0
<1>1. CASE verify_camera_authorization
    BY <1>1
       DEF verify_camera_authorization, FilesInv, CardIsSynced, BackupIsKept,
           BackupIsCurrent, InitializeOnly, FilesAreSettled, TuplesAgree,
           Both, Image
<1>2. CASE remove_consumed_bootstrap
    BY <1>2
       DEF remove_consumed_bootstrap, FilesInv, CardIsSynced, BackupIsKept,
           BackupIsCurrent, InitializeOnly, FilesAreSettled, TuplesAgree,
           Both, Image, CardOK
<1>3. CASE sync_bootstrap
    BY <1>3
       DEF sync_bootstrap, FilesInv, CardIsSynced, BackupIsKept,
           BackupIsCurrent, InitializeOnly, FilesAreSettled, TuplesAgree,
           Both, Image, Initialize
<1>4. CASE export_stock_userdata_backup
    BY <1>4
       DEF export_stock_userdata_backup, FilesInv, CardIsSynced, BackupIsKept,
           BackupIsCurrent, InitializeOnly, FilesAreSettled, TuplesAgree,
           Both, Image, Initialize
<1>5. CASE append_mtd_to_backup
    BY <1>5
       DEF append_mtd_to_backup, FilesInv, CardIsSynced, BackupIsKept,
           BackupIsCurrent, InitializeOnly, FilesAreSettled, TuplesAgree,
           Both, Image, Initialize, CardOK
<1>6. CASE sync_backup
    BY <1>6
       DEF sync_backup, FilesInv, CardIsSynced, BackupIsKept, BackupIsCurrent,
           InitializeOnly, FilesAreSettled, TuplesAgree, Both, Image,
           Initialize
<1>7. CASE stock_userdata_backup_matches_current_nor
    BY <1>7
       DEF stock_userdata_backup_matches_current_nor, FilesInv, CardIsSynced,
           BackupIsKept, BackupIsCurrent, InitializeOnly, FilesAreSettled,
           TuplesAgree, Both, Image, Initialize
<1>8. CASE commit_backup
    BY <1>8
       DEF commit_backup, FilesInv, CardIsSynced, BackupIsKept,
           BackupIsCurrent, InitializeOnly, FilesAreSettled, TuplesAgree,
           Both, Image, Initialize, CardOK
<1>9. CASE sync_backup_commit
    BY <1>9
       DEF sync_backup_commit, FilesInv, CardIsSynced, BackupIsKept,
           BackupIsCurrent, InitializeOnly, FilesAreSettled, TuplesAgree,
           Both, Image, Initialize
<1>10. CASE write_recovery_checkpoint
    BY <1>10
       DEF write_recovery_checkpoint, FilesInv, CardIsSynced, BackupIsKept,
           BackupIsCurrent, InitializeOnly, FilesAreSettled, TuplesAgree,
           Both, Image, Initialize, CardOK
<1>11. CASE sync_checkpoint
    BY <1>11
       DEF sync_checkpoint, FilesInv, CardIsSynced, BackupIsKept,
           BackupIsCurrent, InitializeOnly, FilesAreSettled, TuplesAgree,
           Both, Image, Initialize
<1>12. CASE readback_checkpoint
    BY <1>12
       DEF readback_checkpoint, FilesInv, CardIsSynced, BackupIsKept,
           BackupIsCurrent, InitializeOnly, FilesAreSettled, TuplesAgree,
           Both, Image, Initialize, Checkpoint
<1>13. CASE commit_checkpoint
    <2>1. /\ pc = "rename_ok" /\ pc' = "sync_ok"
          /\ card' = [card EXCEPT !["ok"] = card["okpart"], !["okpart"] = None]
          /\ UNCHANGED <<disk, run, system, data>>
        BY <1>13 DEF commit_checkpoint
    <2>2. /\ card'["ok"] = card["okpart"] /\ card'["bin"] = card["bin"]
          /\ card'["auth"] = card["auth"]
        BY <2>1 DEF CardOK
    <2>3. /\ card["okpart"] = Checkpoint(card["bin"]) /\ disk["bin"] = card["bin"]
          /\ card["bin"] = Image /\ card["bin"] \in Images
        BY <2>1 DEF FilesInv, BackupIsCurrent, BackupAhead
    <2>4. run \in Tuples
        BY <2>1 DEF RunBound
    <2>5. /\ card'["ok"] \in Checkpoints /\ card'["ok"] # None
          /\ card'["ok"].bin = card["bin"] /\ TupleOf(card'["ok"]) = run
        BY <2>2, <2>3, <2>4, CheckpointFields
    <2>6. CardIsSynced' /\ InitializeOnly' /\ FilesAreSettled'
        BY <2>1
           DEF FilesInv, CardIsSynced, InitializeOnly, FilesAreSettled,
               Initialize
    <2>7. BackupIsKept'
        BY <2>1, <2>2, <2>3, <2>5 DEF FilesInv, BackupIsKept
    <2>8. BackupIsCurrent'
        BY <2>1, <2>2, <2>3 DEF BackupIsCurrent, Image, Checkpoint
    <2>9. TuplesAgree'
        BY <2>1, <2>2, <2>5 DEF FilesInv, TuplesAgree, Both
    <2> QED BY <2>6, <2>7, <2>8, <2>9 DEF FilesInv
<1>14. CASE sync_checkpoint_commit
    <2>1. /\ pc = "sync_ok" /\ pc' = "erase_data" /\ disk' = card
          /\ UNCHANGED <<card, run, system, data>>
        BY <1>14 DEF sync_checkpoint_commit
    <2>2. /\ card["ok"] = Checkpoint(card["bin"]) /\ disk["bin"] = card["bin"]
          /\ card["bin"] \in Images
        BY <2>1 DEF FilesInv, BackupIsCurrent, BackupAhead
    <2>3. FilesAreSettled'
        BY <2>1, <2>2 DEF FilesAreSettled, Checkpoint
    <2>4. CardIsSynced' /\ InitializeOnly' /\ BackupIsCurrent'
        BY <2>1
           DEF FilesInv, CardIsSynced, InitializeOnly, BackupIsCurrent,
               Initialize
    <2>5. BackupIsKept' /\ TuplesAgree'
        BY <2>1, <2>2 DEF FilesInv, BackupIsKept, TuplesAgree, Both, TupleOf
    <2> QED BY <2>3, <2>4, <2>5 DEF FilesInv
<1>15. CASE validate_recovery_checkpoint
    <2>1. CASE card["ok"] = Checkpoint(card["bin"])
        <3>1. /\ pc = "validate" /\ pc' = "erase_data"
              /\ UNCHANGED <<card, disk, run, system, data>> /\ card = disk
            BY <1>15, <2>1
               DEF validate_recovery_checkpoint, FilesInv, CardIsSynced
        <3>2. card["bin"] \in Images
            BY <3>1 DEF BackupAhead
        <3>3. FilesAreSettled'
            BY <2>1, <3>1, <3>2 DEF FilesAreSettled, Checkpoint
        <3>4. CardIsSynced' /\ InitializeOnly' /\ BackupIsCurrent'
            BY <3>1
               DEF FilesInv, CardIsSynced, InitializeOnly, BackupIsCurrent,
                   Initialize
        <3>5. BackupIsKept' /\ TuplesAgree'
            BY <3>1 DEF FilesInv, BackupIsKept, TuplesAgree, Both, TupleOf
        <3> QED BY <3>3, <3>4, <3>5 DEF FilesInv
    <2>2. CASE card["ok"] # Checkpoint(card["bin"])
        BY <1>15, <2>2
           DEF validate_recovery_checkpoint, FilesInv, CardIsSynced,
               BackupIsKept, BackupIsCurrent, InitializeOnly, FilesAreSettled,
               TuplesAgree, Both, Image, Initialize
    <2> QED BY <2>1, <2>2
<1>16. CASE bind_existing_data
    BY <1>16
       DEF bind_existing_data, FilesInv, CardIsSynced, BackupIsKept,
           BackupIsCurrent, InitializeOnly, FilesAreSettled, TuplesAgree,
           Both, Image, Initialize, Checkpoint
<1> QED
    BY <1>1, <1>2, <1>3, <1>4, <1>5, <1>6, <1>7, <1>8, <1>9, <1>10, <1>11,
       <1>12, <1>13, <1>14, <1>15, <1>16
       DEF CardSteps

(* The writes leave the card alone, but for the camera files at the end.    *)
LEMMA FlashStepsKeepFiles == IInv /\ FilesInv /\ FlashSteps => FilesInv'
<1> SUFFICES ASSUME IInv, FilesInv, FlashSteps PROVE FilesInv'
    OBVIOUS
<1> USE AbsenceAssumption
       DEF fail, ReadBack, Advance, NorUnchangedElsewhere, ForgetRam, flash,
           host,
           ram, InstallPoints, BackupPoints, WritePoints, ErasePoints,
           ProgramPoints, BootPoints, RestPoints, Points, SyncedPoints,
           DataPoints, Files
<1>0. CardOK(card) /\ CardOK(disk)
    BY DEF IInv, TypeOK
<1>1. CASE \/ erase_data \/ verify_erased \/ write_provisioning_to_data
           \/ verify_provisioning \/ erase_system \/ copy_system
           \/ verify_system \/ compare_preserved_data \/ erase_kernel_tail
           \/ copy_kernel_tail \/ verify_kernel_before_activation
           \/ erase_activation \/ write_activation \/ verify_activated_kernel
    <2>1. /\ UNCHANGED <<card, disk, run>> /\ pc \in WritePoints
          /\ pc' \in WritePoints \cup {"failed"}
        BY <1>1
           DEF erase_data, verify_erased, write_provisioning_to_data,
               verify_provisioning, erase_system, copy_system, verify_system,
               compare_preserved_data, erase_kernel_tail, copy_kernel_tail,
               verify_kernel_before_activation, erase_activation,
               write_activation, verify_activated_kernel
    <2>2. pc' \in DataPoints => pc \in DataPoints
        BY <1>1
           DEF erase_data, verify_erased, write_provisioning_to_data,
               verify_provisioning, erase_system, copy_system, verify_system,
               compare_preserved_data, erase_kernel_tail, copy_kernel_tail,
               verify_kernel_before_activation, erase_activation,
               write_activation, verify_activated_kernel
    <2>3. CardIsSynced' /\ BackupIsCurrent' /\ InitializeOnly'
        BY <2>1, <2>2
           DEF FilesInv, CardIsSynced, BackupIsCurrent, InitializeOnly,
               Initialize
    <2>4. BackupIsKept' /\ FilesAreSettled' /\ TuplesAgree'
        BY <2>1
           DEF FilesInv, BackupIsKept, FilesAreSettled, TuplesAgree, Both,
               Initialize, Checkpoint
    <2> QED BY <2>3, <2>4 DEF FilesInv
<1>2. CASE passivate_camera_install_files
    <2>1. /\ pc = "passivate" /\ pc' = "sync_passivated"
          /\ UNCHANGED <<disk, run>>
          /\ card'["bin"] = card["bin"] /\ card'["ok"] = card["ok"]
          /\ card'["auth"] \in {card["auth"], None}
        BY <1>2 DEF passivate_camera_install_files
    <2>2. CardIsSynced' /\ BackupIsCurrent' /\ InitializeOnly'
        BY <2>1 DEF FilesInv, CardIsSynced, BackupIsCurrent, InitializeOnly
    <2>3. BackupIsKept' /\ FilesAreSettled'
        BY <2>1
           DEF FilesInv, BackupIsKept, FilesAreSettled, Initialize, Checkpoint
    <2>4. TuplesAgree'
        BY <2>1 DEF FilesInv, TuplesAgree, Both
    <2> QED BY <2>2, <2>3, <2>4 DEF FilesInv
<1>3. CASE sync_passivated \/ sync_unmount_reboot
    <2>1. /\ pc \in {"sync_passivated", "final_sync"} /\ pc' \in {"final_sync", "off"}
          /\ UNCHANGED card /\ disk' \in {card, disk}
          /\ pc' = "off" => disk' = card
          /\ pc' # "off" => UNCHANGED run
        BY <1>3 DEF sync_passivated, sync_unmount_reboot
    <2>2. CardIsSynced' /\ BackupIsCurrent' /\ InitializeOnly'
        BY <2>1 DEF FilesInv, CardIsSynced, BackupIsCurrent, InitializeOnly
    <2>3. card["bin"] = disk["bin"] /\ card["ok"] = disk["ok"]
        BY <2>1 DEF FilesInv, FilesAreSettled
    <2>4. BackupIsKept' /\ FilesAreSettled'
        BY <2>1, <2>3
           DEF FilesInv, BackupIsKept, FilesAreSettled, Initialize, Checkpoint
    <2>5. TuplesAgree'
        BY <2>1 DEF FilesInv, TuplesAgree, Both
    <2> QED BY <2>2, <2>4, <2>5 DEF FilesInv
<1> QED BY <1>1, <1>2, <1>3 DEF FlashSteps

(* What a cut leaves of the files that matter here.                         *)
LEMMA CutFiles ==
    ASSUME CardAfterCut
    PROVE  /\ card' = disk'
           /\ \A f \in {"bin", "ok", "auth"} : disk'[f] \in {card[f], disk[f]}
BY DEF CardAfterCut, Files, Temporary, Pending

(* A cut may lose, file by file, what was not yet synced; the committed     *)
(* files that survive still belong together.                               *)
LEMMA CutsKeepFiles ==
    FilesInv /\ CardAfterCut /\ pc' = "off" => FilesInv'
<1> SUFFICES ASSUME FilesInv, CardAfterCut, pc' = "off" PROVE FilesInv'
    OBVIOUS
<1> USE CutFiles
       DEF InstallPoints, BackupPoints, WritePoints, ErasePoints, ProgramPoints,
           SyncedPoints, DataPoints
<1>1. CardIsSynced' /\ BackupIsCurrent' /\ InitializeOnly' /\ FilesAreSettled'
    BY DEF CardIsSynced, BackupIsCurrent, InitializeOnly, FilesAreSettled
<1>2. BackupIsKept'
    BY DEF FilesInv, BackupIsKept
<1>3. TuplesAgree'
    BY DEF FilesInv, TuplesAgree, Both
<1> QED BY <1>1, <1>2, <1>3 DEF FilesInv

(* Booting, the host commands and the power keep the files together.        *)
LEMMA OtherStepsKeepFiles ==
    IInv /\ FilesInv
        /\ (BootSteps \/ HostSteps \/ CallFails \/ PowerCut \/ PowerOff
            \/ ThinginoWritesData)
        => FilesInv'
<1> SUFFICES ASSUME IInv, FilesInv,
                    \/ BootSteps \/ HostSteps \/ CallFails \/ PowerCut
                    \/ PowerOff \/ ThinginoWritesData
             PROVE  FilesInv'
    OBVIOUS
<1> USE AbsenceAssumption
       DEF fail, flash, host, ram, InstallPoints, BackupPoints, WritePoints,
           ErasePoints, ProgramPoints, BootPoints, RestPoints, Points,
           SyncedPoints, DataPoints, Files
<1>0. CardOK(card) /\ CardOK(disk)
    BY DEF IInv, TypeOK
<1>1. CASE BootSteps \/ CallFails \/ ThinginoWritesData
    <2>1. /\ UNCHANGED <<card, disk, run>>
          /\ pc' \in SyncedPoints => pc \in SyncedPoints
          /\ pc' \in {"failed", "snapshot", "stock", "dead", "thingino"}
                     \cup BootPoints
        BY <1>1
           DEF BootSteps, Boot, UpdateKernel, UpdateMtd2, switch_to_thingino,
               CallFails, ThinginoWritesData
    <2>2. CardIsSynced' /\ BackupIsCurrent' /\ InitializeOnly' /\ FilesAreSettled'
        BY <2>1
           DEF FilesInv, CardIsSynced, BackupIsCurrent, InitializeOnly,
               FilesAreSettled
    <2>3. BackupIsKept' /\ TuplesAgree'
        BY <2>1 DEF FilesInv, BackupIsKept, TuplesAgree, Both
    <2> QED BY <2>2, <2>3 DEF FilesInv
<1>2. CASE PowerCut \/ PowerOff
    BY <1>2, CutsKeepFiles DEF PowerCut, PowerOff
<1>3. CASE HostSteps
    <2>1. pc = "off" /\ pc' = "off" /\ card' = disk' /\ card = disk
        BY <1>3
           DEF HostSteps, HostWrites, stage_camera_bound_universal_install,
               handoff_camera_bound_universal_install,
               activate_staged_install_set, deactivate_staged_install_set,
               evacuate_existing_stock_backups, evacuate_with_install_inputs,
               Evacuate, FilesInv, CardIsSynced
    <2>2. CardIsSynced' /\ BackupIsCurrent' /\ InitializeOnly' /\ FilesAreSettled'
        BY <2>1
           DEF CardIsSynced, BackupIsCurrent, InitializeOnly, FilesAreSettled
    <2>3. CASE stage_camera_bound_universal_install
        <3>1. PICK b \in Builds, c \in Creds :
                 /\ card["ok"] # None =>
                       card["bin"] # None /\ card["ok"] = BoundCheckpoint(b, c)
                 /\ card' = [card EXCEPT !["prov"] = c,
                                         !["auth"] = [build |-> b, cred |-> c],
                                         !["stage2"] = b, !["passive"] = None,
                                         !["selector"] = b]
            BY <2>3 DEF stage_camera_bound_universal_install, HostWrites
        <3>2. /\ card'["bin"] = card["bin"] /\ card'["ok"] = card["ok"]
              /\ card'["auth"] = [build |-> b, cred |-> c]
            BY <1>0, <3>1 DEF CardOK
        <3>3. BackupIsKept'
            BY <2>1, <3>2 DEF FilesInv, BackupIsKept
        <3>4. card["ok"] # None => TupleOf(card["ok"]) = [build |-> b, cred |-> c]
            BY <3>1 DEF TupleOf, BoundCheckpoint
        <3>5. /\ Both("auth")' \subseteq {[build |-> b, cred |-> c]}
              /\ \A o \in Both("ok")' : TupleOf(o) = [build |-> b, cred |-> c]
            BY <2>1, <3>2, <3>4 DEF Both
        <3>6. TuplesAgree'
            BY <2>1, <3>5 DEF TuplesAgree, TupleOf
        <3> QED BY <2>2, <3>3, <3>6 DEF FilesInv
    <2>4. CASE \/ handoff_camera_bound_universal_install
               \/ activate_staged_install_set \/ deactivate_staged_install_set
        <3>1. \A f \in {"bin", "ok", "auth"} : card'[f] = card[f]
            BY <1>0, <2>4
               DEF handoff_camera_bound_universal_install, HostWrites,
                   activate_staged_install_set, deactivate_staged_install_set,
                   CardOK
        <3>2. BackupIsKept' /\ TuplesAgree'
            BY <2>1, <3>1 DEF FilesInv, BackupIsKept, TuplesAgree, Both
        <3> QED BY <2>2, <3>2 DEF FilesInv
    <2>5. CASE evacuate_existing_stock_backups \/ evacuate_with_install_inputs
        <3>1. /\ card'["bin"] = None /\ card'["ok"] = None
              /\ card'["auth"] \in {card["auth"], None}
            BY <2>5
               DEF evacuate_existing_stock_backups, evacuate_with_install_inputs,
                   Evacuate, HostWrites, Files
        <3>2. BackupIsKept' /\ TuplesAgree'
            BY <2>1, <3>1 DEF FilesInv, BackupIsKept, TuplesAgree, Both
        <3> QED BY <2>2, <3>2 DEF FilesInv
    <2> QED BY <1>3, <2>3, <2>4, <2>5 DEF HostSteps
<1> QED BY <1>1, <1>2, <1>3
-----------------------------------------------------------------------------
(* What a step can do to the NOR behind the kernel, and at which points.    *)
LEMMA ProgrammedBlock ==
    ASSUME NEW old, NEW new
    PROVE  Programmed(old, new) \in {new, Damaged}
BY DEF Programmed

NorStep ==
    \/ UNCHANGED <<system, data>>
    \/ /\ pc \in {"erase_data", "write_provisioning"} /\ UNCHANGED system
       /\ \E x \in {Blank, Damaged, Provisioning(run.cred)[cursor]} :
             data' = [data EXCEPT ![cursor] = x]
    \/ /\ pc \in {"erase_system", "copy_system"} /\ UNCHANGED data
       /\ \E x \in {Blank, Damaged, SystemImage(run.build)[cursor]} :
             system' = [system EXCEPT ![cursor] = x]
    \/ /\ pc = "thingino" /\ UNCHANGED <<system, kernel>>
       /\ \E i \in DataSpan : data' = [data EXCEPT ![i] = User]

(* Each step does one of these to the NOR behind the kernel. *)
LEMMA NorSteps == [Next]_vars => NorStep
<1> SUFFICES ASSUME [Next]_vars PROVE NorStep
    OBVIOUS
<1> USE DEF flash, NorUnchangedElsewhere, fail, ReadBack
<1>1. CASE CardSteps
    BY <1>1
       DEF CardSteps, NorStep, Sync, WriteFile, RenameFile,
           verify_camera_authorization, remove_consumed_bootstrap,
           sync_bootstrap, export_stock_userdata_backup, append_mtd_to_backup,
           sync_backup, stock_userdata_backup_matches_current_nor,
           commit_backup, sync_backup_commit, write_recovery_checkpoint,
           sync_checkpoint, readback_checkpoint, commit_checkpoint,
           sync_checkpoint_commit, validate_recovery_checkpoint,
           bind_existing_data
<1>2. CASE erase_data \/ erase_system
    BY <1>2 DEF erase_data, erase_system, Outcome, NorStep
<1>3. CASE write_provisioning_to_data
    <2>1. PICK x \in {Programmed(data[cursor],
                                    Provisioning(run.cred)[cursor]), Damaged} :
             data' = [data EXCEPT ![cursor] = x]
        BY <1>3 DEF write_provisioning_to_data, Outcome
    <2>2. x \in {Blank, Damaged, Provisioning(run.cred)[cursor]}
        BY ProgrammedBlock
    <2> QED BY <1>3, <2>1, <2>2 DEF write_provisioning_to_data, NorStep
<1>4. CASE copy_system
    <2>1. PICK x \in {Programmed(system[cursor],
                                    SystemImage(run.build)[cursor]), Damaged} :
             system' = [system EXCEPT ![cursor] = x]
        BY <1>4 DEF copy_system, Outcome
    <2>2. x \in {Blank, Damaged, SystemImage(run.build)[cursor]}
        BY ProgrammedBlock
    <2> QED BY <1>4, <2>1, <2>2 DEF copy_system, NorStep
<1>5. CASE \/ verify_erased \/ verify_provisioning \/ verify_system
           \/ compare_preserved_data \/ erase_kernel_tail
           \/ copy_kernel_tail \/ verify_kernel_before_activation
           \/ erase_activation \/ write_activation \/ verify_activated_kernel
           \/ passivate_camera_install_files \/ sync_passivated
           \/ sync_unmount_reboot
    BY <1>5
       DEF verify_erased, verify_provisioning, verify_system,
           compare_preserved_data, erase_kernel_tail, copy_kernel_tail,
           verify_kernel_before_activation, erase_activation,
           write_activation, verify_activated_kernel,
           passivate_camera_install_files, sync_passivated,
           sync_unmount_reboot, NorStep
<1>6. CASE BootSteps \/ HostSteps \/ CallFails \/ PowerOff \/ ThinginoWritesData
    BY <1>6
       DEF BootSteps, Boot, UpdateKernel, UpdateMtd2, switch_to_thingino,
           HostSteps, HostWrites, stage_camera_bound_universal_install,
           handoff_camera_bound_universal_install,
           activate_staged_install_set, deactivate_staged_install_set,
           evacuate_existing_stock_backups, evacuate_with_install_inputs,
           Evacuate, CallFails, PowerOff,
           ThinginoWritesData, NorStep
<1>7. CASE PowerCut
    <2>1. /\ RegionAfterCut(data, {"erase_data", "write_provisioning"})
          /\ RegionAfterCut(system, {"erase_system", "copy_system"})
        BY <1>7 DEF PowerCut
    <2>2. CASE pc \in {"erase_data", "write_provisioning"}
        BY <2>1, <2>2 DEF RegionAfterCut, NorStep
    <2>3. CASE pc \in {"erase_system", "copy_system"}
        BY <2>1, <2>3 DEF RegionAfterCut, NorStep
    <2>4. CASE pc \notin {"erase_data", "write_provisioning", "erase_system",
                          "copy_system"}
        BY <2>1, <2>4 DEF RegionAfterCut, NorStep
    <2> QED BY <2>2, <2>3, <2>4
<1>8. CASE UNCHANGED vars
    BY <1>8 DEF vars, NorStep
<1> QED BY <1>1, <1>2, <1>3, <1>4, <1>5, <1>6, <1>7, <1>8 DEF Next, FlashSteps

(* What a step can do to the committed files.                               *)
FileStep ==
    /\ archive \subseteq archive'
    /\ disk'["bin"] # disk["bin"] =>
          disk["bin"] = None \/ disk["bin"] \in archive'
    /\ Both("bin")' \subseteq
          Both("bin") \cup (IF pc = "rename_bin" THEN {Image} ELSE {})
    /\ Both("ok")' \subseteq
          Both("ok") \cup (IF pc = "rename_ok" THEN {Checkpoint(Image)} ELSE {})
    /\ pc \in {"rename_bin", "rename_ok"} => UNCHANGED <<system, data>>

(* Each step keeps to this with the committed files. *)
LEMMA FileSteps == IInv /\ FilesInv /\ [Next]_vars => FileStep
<1> SUFFICES ASSUME IInv, FilesInv, [Next]_vars PROVE FileStep
    OBVIOUS
<1> USE DEF flash, host, fail, ReadBack, NorUnchangedElsewhere, Files
<1>0. CardOK(card) /\ CardOK(disk) /\ (disk["bin"] # None => card["bin"] = disk["bin"])
    BY DEF IInv, TypeOK, FilesInv, BackupIsKept
<1>1. CASE \/ sync_bootstrap \/ sync_backup \/ sync_backup_commit
           \/ sync_checkpoint \/ sync_checkpoint_commit
           \/ sync_passivated \/ sync_unmount_reboot
    BY <1>0, <1>1
       DEF sync_bootstrap, sync_backup, sync_backup_commit, sync_checkpoint,
           sync_checkpoint_commit, sync_passivated, sync_unmount_reboot, Sync,
           FileStep, Both
<1>2. CASE commit_backup
    BY <1>0, <1>2
       DEF commit_backup, RenameFile, FileStep, Both, CardOK, FilesInv,
           BackupIsCurrent
<1>3. CASE commit_checkpoint
    BY <1>0, <1>3
       DEF commit_checkpoint, RenameFile, FileStep, Both, CardOK, FilesInv,
           BackupIsCurrent
<1>4. CASE \/ remove_consumed_bootstrap \/ append_mtd_to_backup
           \/ write_recovery_checkpoint \/ passivate_camera_install_files
    BY <1>0, <1>4
       DEF remove_consumed_bootstrap, append_mtd_to_backup,
           write_recovery_checkpoint, passivate_camera_install_files,
           WriteFile, FileStep, Both, CardOK
<1>5. CASE \/ verify_camera_authorization \/ export_stock_userdata_backup
           \/ stock_userdata_backup_matches_current_nor
           \/ readback_checkpoint \/ validate_recovery_checkpoint
           \/ bind_existing_data \/ erase_data \/ verify_erased
           \/ write_provisioning_to_data \/ verify_provisioning
           \/ erase_system \/ copy_system \/ verify_system
           \/ compare_preserved_data \/ erase_kernel_tail
           \/ copy_kernel_tail \/ verify_kernel_before_activation
           \/ erase_activation \/ write_activation \/ verify_activated_kernel
           \/ BootSteps \/ CallFails \/ ThinginoWritesData \/ UNCHANGED vars
    <2>1. /\ UNCHANGED <<card, disk, archive>>
          /\ pc \in {"rename_bin", "rename_ok"} => UNCHANGED <<system, data>>
        BY <1>5
           DEF verify_camera_authorization, export_stock_userdata_backup,
               stock_userdata_backup_matches_current_nor,
               readback_checkpoint, validate_recovery_checkpoint,
               bind_existing_data, erase_data, verify_erased,
               write_provisioning_to_data, verify_provisioning, erase_system,
               copy_system, verify_system, compare_preserved_data,
               erase_kernel_tail, copy_kernel_tail,
               verify_kernel_before_activation, erase_activation,
               write_activation, verify_activated_kernel, BootSteps, Boot,
               UpdateKernel, UpdateMtd2, switch_to_thingino, CallFails,
               ThinginoWritesData, vars
    <2> QED BY <2>1 DEF FileStep, Both
<1>6. CASE PowerCut \/ PowerOff
    <2>1. CardAfterCut /\ UNCHANGED archive
        BY <1>6 DEF PowerCut, PowerOff
    <2>2. pc \in {"rename_bin", "rename_ok"} => UNCHANGED <<system, data>>
        BY <1>6 DEF PowerCut, PowerOff, RegionAfterCut
    <2> QED BY <1>0, <2>1, <2>2, CutFiles DEF FileStep, Both
<1>7. CASE HostSteps
    <2>1. pc = "off" /\ card = disk /\ card' = disk'
        BY <1>7
           DEF HostSteps, HostWrites, stage_camera_bound_universal_install,
               handoff_camera_bound_universal_install,
               activate_staged_install_set, deactivate_staged_install_set,
               evacuate_existing_stock_backups, evacuate_with_install_inputs,
               Evacuate, FilesInv, CardIsSynced, SyncedPoints
    <2>2. CASE evacuate_existing_stock_backups \/ evacuate_with_install_inputs
        BY <2>1, <2>2
           DEF evacuate_existing_stock_backups, evacuate_with_install_inputs,
               Evacuate, HostWrites, FileStep, Both
    <2>3. CASE \/ stage_camera_bound_universal_install
               \/ handoff_camera_bound_universal_install
               \/ activate_staged_install_set \/ deactivate_staged_install_set
        BY <1>0, <2>1, <2>3
           DEF stage_camera_bound_universal_install, HostWrites,
               handoff_camera_bound_universal_install,
               activate_staged_install_set, deactivate_staged_install_set,
               FileStep, Both, CardOK
    <2> QED BY <1>7, <2>2, <2>3 DEF HostSteps
<1> QED
    BY <1>1, <1>2, <1>3, <1>4, <1>5, <1>6, <1>7 DEF Next, CardSteps, FlashSteps
-----------------------------------------------------------------------------
(* A write of the installer that serves the build and the credentials of   *)
(* a checkpoint leaves every block attributable to it.                     *)
LEMMA AttributedStep ==
    ASSUME NEW o, TypeOK, NorStep, Attributed(o),
           pc \in WritePoints => o.build = run.build /\ o.cred = run.cred
    PROVE  Attributed(o)'
<1>0. /\ system \in [SystemSpan -> Content] /\ data \in [DataSpan -> Content]
    BY DEF TypeOK
<1>1. CASE UNCHANGED <<system, data>>
    BY <1>1 DEF Attributed
<1>2. CASE /\ pc \in {"erase_data", "write_provisioning"} /\ UNCHANGED system
           /\ \E x \in {Blank, Damaged, Provisioning(run.cred)[cursor]} :
                 data' = [data EXCEPT ![cursor] = x]
    <2>1. o.cred = run.cred
        BY <1>2 DEF WritePoints, ErasePoints, ProgramPoints
    <2>2. PICK x \in {Blank, Damaged, Provisioning(o.cred)[cursor]} :
             data' = [data EXCEPT ![cursor] = x]
        BY <1>2, <2>1
    <2>3. \A i \in DataSpan : data'[i] = data[i] \/ (i = cursor /\ data'[i] = x)
        BY <1>0, <2>2
    <2> QED BY <1>2, <2>2, <2>3 DEF Attributed
<1>3. CASE /\ pc \in {"erase_system", "copy_system"} /\ UNCHANGED data
           /\ \E x \in {Blank, Damaged, SystemImage(run.build)[cursor]} :
                 system' = [system EXCEPT ![cursor] = x]
    <2>1. o.build = run.build
        BY <1>3 DEF WritePoints, ErasePoints, ProgramPoints
    <2>2. PICK x \in {Blank, Damaged, SystemImage(o.build)[cursor]} :
             system' = [system EXCEPT ![cursor] = x]
        BY <1>3, <2>1
    <2>3. \A i \in SystemSpan :
             system'[i] = system[i] \/ (i = cursor /\ system'[i] = x)
        BY <1>0, <2>2
    <2> QED BY <1>3, <2>2, <2>3 DEF Attributed
<1>4. CASE /\ pc = "thingino" /\ UNCHANGED <<system, kernel>>
           /\ \E i \in DataSpan : data' = [data EXCEPT ![i] = User]
    BY <1>0, <1>4 DEF Attributed
<1> QED BY <1>1, <1>2, <1>3, <1>4 DEF NorStep

(* Each step keeps every block of mtd3 attributable to every checkpoint. *)
LEMMA AttributionStep == RecoveryInv /\ [Next]_vars => NorIsAttributed'
<1> SUFFICES ASSUME RecoveryInv, [Next]_vars PROVE NorIsAttributed'
    OBVIOUS
<1>1. IInv /\ FilesInv /\ NorIsAttributed /\ TuplesAgree
    BY DEF RecoveryInv, RInv, FilesInv
<1>2. NorStep /\ FileStep
    BY <1>1, NorSteps, FileSteps
<1>3. ASSUME NEW o \in Both("ok") PROVE Attributed(o)'
    <2>1. pc \in WritePoints => TupleOf(o) = run
        BY <1>1, <1>3
           DEF TuplesAgree, InstallPoints, WritePoints, ErasePoints,
               ProgramPoints
    <2>2. pc \in WritePoints => o.build = run.build /\ o.cred = run.cred
        BY <2>1 DEF TupleOf
    <2> QED BY <1>1, <1>2, <2>2, <1>3, AttributedStep DEF IInv, NorIsAttributed
<1>4. ASSUME NEW o, o = Checkpoint(Image), pc = "rename_ok"
      PROVE  Attributed(o)'
    <2>1. /\ o.bin.system = system /\ o.bin.data = data
        BY <1>4 DEF Checkpoint, Image
    <2>2. UNCHANGED <<system, data>>
        BY <1>2, <1>4 DEF FileStep
    <2> QED BY <2>1, <2>2 DEF Attributed
<1>5. \A o \in Both("ok")' :
          o \in Both("ok") \/ (pc = "rename_ok" /\ o = Checkpoint(Image))
    BY <1>2 DEF FileStep
<1> QED BY <1>3, <1>4, <1>5 DEF NorIsAttributed
-----------------------------------------------------------------------------
(* How the points behind the provisioned data are entered.                 *)
ProvisionedPoints == {"erase_system", "copy_system", "verify_system"} \cup KernelPoints

(* Those points are entered in order, and none of their steps writes data. *)
LEMMA ProvisionedFlow ==
    [Next]_vars /\ pc' \in ProvisionedPoints =>
        /\ UNCHANGED <<run, data>>
        /\ \/ pc \in ProvisionedPoints
           \/ pc = "bind_data"
           \/ pc = "verify_provisioning" /\ data = Provisioning(run.cred)
<1> SUFFICES ASSUME [Next]_vars, pc' \in ProvisionedPoints
             PROVE  /\ UNCHANGED <<run, data>>
                    /\ \/ pc \in ProvisionedPoints
                       \/ pc = "bind_data"
                       \/ pc = "verify_provisioning" /\ data = Provisioning(run.cred)
    OBVIOUS
<1> USE DEF ProvisionedPoints, KernelPoints, ActivationPoints, fail, flash,
            host, ram,
            ReadBack, NorUnchangedElsewhere, Advance
<1>1. CASE CardSteps
    BY <1>1
       DEF CardSteps, Sync, WriteFile, RenameFile, EnterWrites,
           verify_camera_authorization, remove_consumed_bootstrap,
           sync_bootstrap, export_stock_userdata_backup, append_mtd_to_backup,
           sync_backup, stock_userdata_backup_matches_current_nor,
           commit_backup, sync_backup_commit, write_recovery_checkpoint,
           sync_checkpoint, readback_checkpoint, commit_checkpoint,
           sync_checkpoint_commit, validate_recovery_checkpoint,
           bind_existing_data
<1>2. CASE FlashSteps
    BY <1>2
       DEF FlashSteps, erase_data, verify_erased, write_provisioning_to_data,
           verify_provisioning, erase_system, copy_system, verify_system,
           compare_preserved_data, erase_kernel_tail, copy_kernel_tail,
           verify_kernel_before_activation, erase_activation,
           write_activation, verify_activated_kernel,
           passivate_camera_install_files, sync_passivated,
           sync_unmount_reboot
<1>3. CASE \/ BootSteps \/ HostSteps \/ CallFails \/ PowerCut \/ PowerOff
           \/ ThinginoWritesData
    BY <1>3
       DEF BootSteps, Boot, UpdateKernel, UpdateMtd2, switch_to_thingino,
           HostSteps, HostWrites, stage_camera_bound_universal_install,
           handoff_camera_bound_universal_install,
           activate_staged_install_set, deactivate_staged_install_set,
           evacuate_existing_stock_backups, evacuate_with_install_inputs,
           Evacuate, CallFails, PowerCut, PowerOff,
           ThinginoWritesData
<1>4. CASE UNCHANGED vars
    BY <1>4 DEF vars
<1> QED BY <1>1, <1>2, <1>3, <1>4 DEF Next

(* An initialize install has provisioned data behind that verification. *)
LEMMA ProvisionedStep == RecoveryInv /\ [Next]_vars => DataIsProvisioned'
<1> SUFFICES ASSUME RecoveryInv, [Next]_vars, pc' \in ProvisionedPoints, Initialize'
             PROVE  data' = Provisioning(run.cred)'
    BY DEF DataIsProvisioned, ProvisionedPoints
<1>1. UNCHANGED <<run, data>> /\ Initialize
    BY ProvisionedFlow DEF Initialize
<1>2. pc # "bind_data" /\ (pc \in ProvisionedPoints => data = Provisioning(run.cred))
    BY <1>1
       DEF RecoveryInv, RInv, InitializeOnly, DataIsProvisioned,
           ProvisionedPoints
<1> QED BY <1>1, <1>2, ProvisionedFlow
-----------------------------------------------------------------------------
(* What a step can do to the kernel, and at which points.                  *)
TailPoints == {"erase_tail", "copy_tail"}
SpanPoints == {"erase_activation", "write_activation"}

KernelStep ==
    \/ UNCHANGED kernel
    \/ /\ pc \in TailPoints /\ pc' \in TailPoints \cup {"verify_tail"}
       /\ UNCHANGED <<run, data>>
    \/ /\ pc \in SpanPoints /\ pc' \in SpanPoints \cup {"verify_kernel"}
       /\ UNCHANGED <<run, data>>
    \/ pc' = "update_mtd2"
    \/ kernel' = TornKernel
    \/ /\ pc \in TailPoints \cup SpanPoints
       /\ kernel' = [kernel EXCEPT ![cursor] = Damaged]

(* Each step does one of these to mtd1. *)
LEMMA KernelSteps == [Next]_vars => KernelStep
<1> SUFFICES ASSUME [Next]_vars PROVE KernelStep
    OBVIOUS
<1> USE DEF KernelStep, TailPoints, SpanPoints, fail, flash, ReadBack,
            NorUnchangedElsewhere
<1>1. CASE CardSteps
    BY <1>1
       DEF CardSteps, Sync, WriteFile, RenameFile,
           verify_camera_authorization, remove_consumed_bootstrap,
           sync_bootstrap, export_stock_userdata_backup, append_mtd_to_backup,
           sync_backup, stock_userdata_backup_matches_current_nor,
           commit_backup, sync_backup_commit, write_recovery_checkpoint,
           sync_checkpoint, readback_checkpoint, commit_checkpoint,
           sync_checkpoint_commit, validate_recovery_checkpoint,
           bind_existing_data
<1>2. CASE \/ erase_kernel_tail \/ copy_kernel_tail
           \/ erase_activation \/ write_activation
    BY <1>2
       DEF erase_kernel_tail, copy_kernel_tail, erase_activation,
           write_activation, Advance
<1>3. CASE \/ erase_data \/ verify_erased \/ write_provisioning_to_data
           \/ verify_provisioning \/ erase_system \/ copy_system
           \/ verify_system \/ compare_preserved_data
           \/ verify_kernel_before_activation \/ verify_activated_kernel
           \/ passivate_camera_install_files \/ sync_passivated
           \/ sync_unmount_reboot
    BY <1>3
       DEF erase_data, verify_erased, write_provisioning_to_data,
           verify_provisioning, erase_system, copy_system, verify_system,
           compare_preserved_data, verify_kernel_before_activation,
           verify_activated_kernel, passivate_camera_install_files,
           sync_passivated, sync_unmount_reboot
<1>4. CASE BootSteps \/ HostSteps \/ CallFails \/ PowerOff \/ ThinginoWritesData
    BY <1>4
       DEF BootSteps, Boot, UpdateKernel, UpdateMtd2, switch_to_thingino,
           HostSteps, HostWrites, stage_camera_bound_universal_install,
           handoff_camera_bound_universal_install,
           activate_staged_install_set, deactivate_staged_install_set,
           evacuate_existing_stock_backups, evacuate_with_install_inputs,
           Evacuate, CallFails, PowerOff,
           ThinginoWritesData
<1>5. CASE PowerCut
    BY <1>5 DEF PowerCut, RegionAfterCut
<1>6. CASE UNCHANGED vars
    BY <1>6 DEF vars
<1> QED BY <1>1, <1>2, <1>3, <1>4, <1>5, <1>6 DEF Next, FlashSteps

(* A kernel that became final did so under the activation span's writes.   *)
LEMMA FinalBecomes ==
    ASSUME IInv, IInv', KernelStep, NEW b \in Builds, kernel' = FinalKernel(b)
    PROVE  \/ UNCHANGED kernel
           \/ pc \in SpanPoints /\ run.build = b /\ UNCHANGED <<run, data>>
<1>1. ASSUME pc' \in {"update_mtd2"} \cup TailPoints \cup {"verify_tail"}
      PROVE  FALSE
    <2>1. \E c \in Builds : kernel'[1] = Block("installer", c)
        BY <1>1
           DEF IInv, InstallerAhead, TailPoints, InstallPoints, BackupPoints,
               WritePoints, ErasePoints, ProgramPoints, ActivationPoints
    <2> QED BY <2>1, InstallerIsNotFinal
<1>2. kernel' # TornKernel
    <2>1. kernel'[1] # Damaged
        BY FinalKernelBlocks, BlockKinds
    <2>2. TornKernel[1] = Damaged
        BY Geometry DEF TornKernel, KernelSpan
    <2> QED BY <2>1, <2>2
<1>3. ASSUME pc \in TailPoints \cup SpanPoints,
             kernel' = [kernel EXCEPT ![cursor] = Damaged]
      PROVE  FALSE
    <2>1. cursor \in KernelSpan
        BY <1>3, Geometry
           DEF IInv, CursorBound, KernelSpan, TypeOK, TailPoints, SpanPoints
    <2>2. kernel'[cursor] = Damaged
        BY <1>3, <2>1 DEF IInv, TypeOK
    <2>3. FinalKernel(b)[cursor] # Damaged
        BY <2>1, BlockKinds DEF FinalKernel
    <2> QED BY <2>2, <2>3
<1>4. ASSUME pc \in SpanPoints, pc' \in SpanPoints \cup {"verify_kernel"},
             UNCHANGED <<run, data>>
      PROVE  run.build = b
    <2>1. kernel'[ActivationBlocks + 1] = Block("kernel", run.build)
        BY <1>4 DEF IInv, SystemAhead, SpanPoints, ActivationPoints
    <2>2. kernel'[ActivationBlocks + 1] = Block("kernel", b)
        BY FinalKernelBlocks
    <2> QED BY ONLY <2>1, <2>2, BlockKinds
<1> QED BY <1>1, <1>2, <1>3, <1>4 DEF KernelStep

(* The data region of an active initialize build stays provisioned. *)
LEMMA ActivatedDataStep ==
    RecoveryInv /\ IInv' /\ [Next]_vars => ActivatedDataIsProvisioned'
<1> SUFFICES ASSUME RecoveryInv, IInv', [Next]_vars,
                    NEW b \in Builds, kernel' = FinalKernel(b),
                    DataAction[b] = "initialize"
             PROVE  \E c \in Creds : \A i \in DataSpan :
                        data'[i] \in {Block("provision", c), User}
    BY DEF ActivatedDataIsProvisioned
<1>1. IInv /\ DataIsProvisioned /\ ActivatedDataIsProvisioned
    BY DEF RecoveryInv, RInv
<1>2. NorStep /\ KernelStep
    BY NorSteps, KernelSteps
<1>3. CASE UNCHANGED kernel
    <2>1. PICK c \in Creds : \A i \in DataSpan :
             data[i] \in {Block("provision", c), User}
        BY <1>1, <1>3 DEF ActivatedDataIsProvisioned
    <2>2. pc \notin {"erase_data", "write_provisioning"}
        BY <1>1, <1>3, InstallerIsNotFinal
           DEF IInv, InstallerAhead, InstallPoints, BackupPoints, WritePoints,
               ErasePoints, ProgramPoints, ActivationPoints
    <2>3. UNCHANGED data \/ \E i \in DataSpan : data' = [data EXCEPT ![i] = User]
        BY <1>2, <2>2 DEF NorStep
    <2>4. data \in [DataSpan -> Content]
        BY <1>1 DEF IInv, TypeOK
    <2> QED BY <2>1, <2>3, <2>4
<1>4. CASE pc \in SpanPoints /\ run.build = b /\ UNCHANGED <<run, data>>
    <2>1. data = Provisioning(run.cred)
        BY <1>1, <1>4
           DEF DataIsProvisioned, KernelPoints, ActivationPoints, SpanPoints,
               Initialize
    <2>2. run.cred \in Creds
        BY <1>1, <1>4
           DEF IInv, RunBound, SpanPoints, InstallPoints, WritePoints,
               ErasePoints, ProgramPoints, Tuples
    <2> QED BY <1>4, <2>1, <2>2 DEF Provisioning
<1> QED BY <1>1, <1>2, <1>3, <1>4, FinalBecomes
-----------------------------------------------------------------------------
(* The installed firmware starts and stays on a verified kernel. *)
LEMMA WholeStep == RecoveryInv /\ [Next]_vars => ThinginoIsWhole'
<1> SUFFICES ASSUME RecoveryInv, [Next]_vars PROVE ThinginoIsWhole'
    OBVIOUS
<1>1. TypeOK /\ ThinginoIsWhole
    BY DEF RecoveryInv, RInv, IInv
<1> USE DEF fail, flash, host, ram, ReadBack, NorUnchangedElsewhere, Advance
<1>2. CASE CardSteps \/ FlashSteps \/ HostSteps \/ CallFails \/ PowerCut \/ PowerOff
    <2>1. pc' \notin {"switch_root", "thingino"}
        BY <1>2
           DEF CardSteps, Sync, WriteFile, RenameFile, EnterWrites,
               verify_camera_authorization, remove_consumed_bootstrap,
               sync_bootstrap, export_stock_userdata_backup,
               append_mtd_to_backup, sync_backup,
               stock_userdata_backup_matches_current_nor, commit_backup,
               sync_backup_commit, write_recovery_checkpoint, sync_checkpoint,
               readback_checkpoint, commit_checkpoint, sync_checkpoint_commit,
               validate_recovery_checkpoint, bind_existing_data, FlashSteps,
               erase_data, verify_erased, write_provisioning_to_data,
               verify_provisioning, erase_system, copy_system, verify_system,
               compare_preserved_data, erase_kernel_tail, copy_kernel_tail,
               verify_kernel_before_activation, erase_activation,
               write_activation, verify_activated_kernel,
               passivate_camera_install_files, sync_passivated,
               sync_unmount_reboot, HostSteps, HostWrites,
               stage_camera_bound_universal_install,
               handoff_camera_bound_universal_install,
               activate_staged_install_set, deactivate_staged_install_set,
               evacuate_existing_stock_backups, evacuate_with_install_inputs,
               Evacuate, CallFails, PowerCut, PowerOff
    <2> QED BY <2>1 DEF ThinginoIsWhole
<1>3. CASE Boot
    BY <1>1, <1>3 DEF Boot, Bootable, ThinginoIsWhole, TypeOK
<1>4. CASE switch_to_thingino
    BY <1>1, <1>4 DEF switch_to_thingino, ThinginoIsWhole
<1>5. CASE UpdateKernel \/ UpdateMtd2
    BY <1>5 DEF UpdateKernel, UpdateMtd2, ThinginoIsWhole
<1>6. CASE ThinginoWritesData \/ UNCHANGED vars
    BY <1>1, <1>6 DEF ThinginoWritesData, vars, ThinginoIsWhole
<1> QED BY <1>2, <1>3, <1>4, <1>5, <1>6 DEF Next, BootSteps
-----------------------------------------------------------------------------
(* No block that the installer or the running firmware writes is a stock    *)
(* one.                                                                    *)
LEMMA WrittenIsNotStock ==
    /\ Blank # Stock /\ Damaged # Stock /\ User # Stock
    /\ \A b \in Builds, i \in SystemSpan : SystemImage(b)[i] # Stock
    /\ \A c \in Creds, i \in DataSpan : Provisioning(c)[i] # Stock
<1>1. \A x, u : Block(x, u).kind = x
    BY DEF Block
<1>2. /\ Blank.kind = "blank" /\ Damaged.kind = "torn" /\ User.kind = "user"
      /\ Stock.kind = "stock"
    BY <1>1 DEF Blank, Damaged, User, Stock
<1>3. /\ \A b : Block("system", b).kind = "system"
      /\ \A c : Block("provision", c).kind = "provision"
    BY <1>1
<1> QED BY <1>2, <1>3 DEF SystemImage, Provisioning

(* Once a block of mtd3 is written, its content is not stock any more.     *)
LEMMA WriteEndsStock ==
    ASSUME IInv, NorStep, ~UNCHANGED <<system, data>>
    PROVE  Image' # StockImage
<1>0. /\ system \in [SystemSpan -> Content] /\ data \in [DataSpan -> Content]
      /\ CursorBound
    BY DEF IInv, TypeOK
<1>1. ASSUME NEW i \in DataSpan, data'[i] # Stock PROVE Image' # StockImage
    BY <1>1 DEF Image, StockImage
<1>2. ASSUME NEW i \in SystemSpan, system'[i] # Stock PROVE Image' # StockImage
    BY <1>2 DEF Image, StockImage
<1>3. pc \in {"erase_data", "write_provisioning", "erase_system", "copy_system"} =>
         run.build \in Builds /\ run.cred \in Creds
    BY DEF IInv, RunBound, InstallPoints, WritePoints, ErasePoints,
           ProgramPoints, Tuples
<1>4. CASE /\ pc \in {"erase_data", "write_provisioning"} /\ UNCHANGED system
           /\ \E x \in {Blank, Damaged, Provisioning(run.cred)[cursor]} :
                 data' = [data EXCEPT ![cursor] = x]
    <2>1. cursor \in DataSpan
        BY <1>0, <1>4 DEF CursorBound
    <2>2. data'[cursor] \in {Blank, Damaged, Provisioning(run.cred)[cursor]}
        BY <1>0, <1>4, <2>1
    <2> QED BY <1>1, <1>3, <1>4, <2>1, <2>2, WrittenIsNotStock
<1>5. CASE /\ pc \in {"erase_system", "copy_system"} /\ UNCHANGED data
           /\ \E x \in {Blank, Damaged, SystemImage(run.build)[cursor]} :
                 system' = [system EXCEPT ![cursor] = x]
    <2>1. cursor \in SystemSpan
        BY <1>0, <1>5, Geometry DEF CursorBound, SystemSpan
    <2>2. system'[cursor] \in {Blank, Damaged, SystemImage(run.build)[cursor]}
        BY <1>0, <1>5, <2>1
    <2> QED BY <1>2, <1>3, <1>5, <2>1, <2>2, WrittenIsNotStock
<1>6. CASE /\ pc = "thingino" /\ UNCHANGED <<system, kernel>>
           /\ \E i \in DataSpan : data' = [data EXCEPT ![i] = User]
    <2>1. PICK i \in DataSpan : data' = [data EXCEPT ![i] = User]
        BY <1>6
    <2>2. data'[i] = User
        BY <1>0, <2>1
    <2> QED BY <1>1, <2>2, WrittenIsNotStock
<1> QED BY <1>4, <1>5, <1>6 DEF NorStep

(* The stock content is not lost by any step. *)
LEMMA StockStep == RecoveryInv /\ [Next]_vars => StockIsKept'
<1> SUFFICES ASSUME RecoveryInv, [Next]_vars PROVE StockIsKept'
    OBVIOUS
<1>1. IInv /\ FilesInv /\ StockIsKept /\ ThinginoIsWhole
    BY DEF RecoveryInv, RInv, FilesInv
<1>2. NorStep /\ FileStep
    BY <1>1, NorSteps, FileSteps
<1>3. StockImage \in Images /\ StockImage # None
    BY ImageType, AbsenceAssumption
<1>4. ASSUME Image' = StockImage
      PROVE  Image = StockImage /\ Both("bin")' \subseteq {StockImage}
    <2>1. Image = StockImage
        BY <1>1, <1>2, <1>4, WriteEndsStock DEF Image
    <2> QED BY <1>1, <1>2, <2>1 DEF FileStep, StockIsKept
<1>5. ASSUME \A b \in Builds : DataAction[b] = "initialize"
      PROVE  \/ Image' = StockImage
             \/ disk'["bin"] = StockImage
             \/ StockImage \in archive'
    <2>1. CASE StockImage \in archive
        BY <1>2, <2>1 DEF FileStep
    <2>2. CASE disk["bin"] = StockImage
        BY <1>2, <1>3, <2>2 DEF FileStep
    <2>3. CASE Image = StockImage
        <3>1. CASE UNCHANGED <<system, data>>
            BY <2>3, <3>1 DEF Image
        <3>2. CASE pc \in WritePoints
            <4>1. Initialize
                BY <1>1, <1>5, <3>2
                   DEF IInv, RunBound, Initialize, Tuples, InstallPoints,
                       WritePoints, ErasePoints, ProgramPoints
            <4>2. disk["bin"] \in Images
                BY <1>1, <3>2, <4>1 DEF FilesInv, FilesAreSettled
            <4>3. disk["bin"] \in Both("bin")
                BY <4>2, AbsenceAssumption DEF Both
            <4>4. disk["bin"] = StockImage
                BY <1>1, <2>3, <4>3 DEF StockIsKept
            <4> QED BY <2>2, <4>4
        <3>3. pc # "thingino"
            <4>1. system = StockImage.system
                BY <2>3 DEF Image
            <4>2. 1 \in SystemSpan /\ system[1] = Stock
                BY <4>1, Geometry DEF SystemSpan, StockImage
            <4>3. \A b \in Builds : system # SystemImage(b)
                BY <4>2, WrittenIsNotStock
            <4> QED BY <1>1, <4>3
                   DEF IInv, ActivatedBuildIsComplete, ThinginoIsWhole
        <3> QED
            BY <1>2, <3>1, <3>2, <3>3
               DEF NorStep, WritePoints, ErasePoints, ProgramPoints
    <2> QED BY <1>1, <1>5, <2>1, <2>2, <2>3 DEF StockIsKept
<1> QED BY <1>4, <1>5 DEF StockIsKept
-----------------------------------------------------------------------------
(* A stock camera with an empty card. *)
LEMMA InitRecovery == Init => RInv
<1> SUFFICES ASSUME Init PROVE RInv
    OBVIOUS
<1>1. /\ card = EmptyCard /\ disk = EmptyCard /\ pc = "off" /\ kernel = StockKernel
      /\ Image = StockImage
    BY DEF Init, Image, StockImage
<1>2. \A f \in {"bin", "ok", "auth"} : card[f] = None /\ disk[f] = None
    BY <1>1 DEF EmptyCard, Files
<1> USE DEF InstallPoints, BackupPoints, WritePoints, ErasePoints,
            ProgramPoints,
            KernelPoints, ActivationPoints, DataPoints
<1>3. CardIsSynced /\ BackupIsKept /\ BackupIsCurrent
    BY <1>1, <1>2 DEF CardIsSynced, BackupIsKept, BackupIsCurrent
<1>4. InitializeOnly /\ FilesAreSettled /\ DataIsProvisioned /\ ThinginoIsWhole
    BY <1>1
       DEF InitializeOnly, FilesAreSettled, DataIsProvisioned, ThinginoIsWhole
<1>5. TuplesAgree /\ NorIsAttributed
    BY <1>1, <1>2 DEF TuplesAgree, NorIsAttributed, Both
<1>6. StockIsKept
    BY <1>1, <1>2 DEF StockIsKept, Both
<1>7. ActivatedDataIsProvisioned
    <2>1. kernel[1] = Stock
        BY <1>1, Geometry DEF StockKernel, KernelSpan
    <2>2. \A b \in Builds : Block("kernel", b).kind = "kernel" /\ Stock.kind = "stock"
        BY DEF Block, Stock
    <2>3. \A b \in Builds : kernel # FinalKernel(b)
        BY <2>1, <2>2, FinalKernelBlocks
    <2> QED BY <2>3 DEF ActivatedDataIsProvisioned
<1> QED BY <1>3, <1>4, <1>5, <1>6, <1>7 DEF RInv

(* A step that changes nothing. *)
LEMMA FilesStuttering == FilesInv /\ UNCHANGED vars => FilesInv'
BY DEF vars, FilesInv, CardIsSynced, BackupIsKept, BackupIsCurrent,
       InitializeOnly, FilesAreSettled, TuplesAgree, Both, Image, Checkpoint,
       Initialize

(* Every step of the installer, the boot loader, the power and the host     *)
(* preserves the second invariant too.                                     *)
LEMMA StepRecovery == RecoveryInv /\ [Next]_vars => RecoveryInv'
<1> SUFFICES ASSUME RecoveryInv, [Next]_vars PROVE RecoveryInv'
    OBVIOUS
<1>1. IInv /\ FilesInv /\ IInv'
    BY StepInvariant DEF RecoveryInv, RInv, FilesInv
<1>2. FilesInv'
    BY <1>1, CardStepsKeepFiles, FlashStepsKeepFiles, OtherStepsKeepFiles,
       FilesStuttering DEF Next
<1>3. NorIsAttributed' /\ DataIsProvisioned' /\ ActivatedDataIsProvisioned'
    BY <1>1, AttributionStep, ProvisionedStep, ActivatedDataStep
<1>4. ThinginoIsWhole' /\ StockIsKept'
    BY WholeStep, StockStep
<1> QED BY <1>1, <1>2, <1>3, <1>4 DEF RecoveryInv, RInv, FilesInv

(* How the committed files, the camera files, the NOR and the host archives  *)
(* stand to each other holds at every point, whatever cuts or fails.       *)
THEOREM RecoveryInvariance == Spec => []RecoveryInv
<1>1. Init => RecoveryInv
    BY InitInvariant, InitRecovery DEF RecoveryInv
<1> QED BY <1>1, StepRecovery, PTL DEF Spec

(* What the properties of the model need of it. *)
LEMMA RecoverySafety == RecoveryInv => InstallIsSafe /\ FlashIsAttributable
<1> SUFFICES ASSUME RecoveryInv PROVE InstallIsSafe /\ FlashIsAttributable
    OBVIOUS
<1>1. WritesUnderCheckpoint /\ StockIsRecoverable
    BY DEF RecoveryInv, RInv, FilesAreSettled, StockIsKept,
           WritesUnderCheckpoint, StockIsRecoverable
<1>2. ActivatedBuildIsComplete /\ ActivatedDataIsProvisioned
    BY DEF RecoveryInv, RInv, IInv
<1>3. FlashIsAttributable
    <2> SUFFICES ASSUME disk["ok"] \in Checkpoints, disk["ok"].bin = disk["bin"]
                 PROVE  Attributed(disk["ok"])
        BY DEF FlashIsAttributable, Attributed
    <2>1. disk["ok"] \in Both("ok")
        BY AbsenceAssumption DEF Both
    <2> QED BY <2>1 DEF RecoveryInv, RInv, NorIsAttributed
<1> QED BY <1>1, <1>2, <1>3 DEF InstallIsSafe

(* An install that was cut, or met a fault, at any block of any geometry     *)
(* boots nothing by half, keeps the checkpointed backup under its writes   *)
(* and, with initialize builds, never loses the stock content.             *)
THEOREM InstallStaysSafe == Spec => []InstallIsSafe
BY RecoveryInvariance, RecoverySafety, PTL

(* While a checkpointed backup is on the medium, every block of mtd3 is as   *)
(* it was backed up or of the one build and credentials it is bound to.    *)
THEOREM FlashStaysAttributable == Spec => []FlashIsAttributable
BY RecoveryInvariance, RecoverySafety, PTL

(* A committed backup leaves the medium only for a host archive: no retry,   *)
(* restaging or cut replaces it.                                           *)
THEOREM BackupStays == Spec => BackupIsNeverReplaced
<1>1. RecoveryInv /\ [Next]_vars =>
         [disk["bin"] # None /\ disk'["bin"] # disk["bin"]
            => disk["bin"] \in archive']_vars
    BY FileSteps DEF RecoveryInv, RInv, FilesInv, FileStep
<1> QED BY <1>1, RecoveryInvariance, PTL DEF Spec, BackupIsNeverReplaced

(* Nothing but an initialize install and the running firmware writes the     *)
(* data region, with any mix of builds staged in any order.                *)
THEOREM DataStays == Spec => OnlyInitializeWritesData
<1>1. RecoveryInv /\ [Next]_vars =>
         [pc # "thingino" => run # None /\ Initialize]_data
    <2> SUFFICES ASSUME RecoveryInv, [Next]_vars, ~UNCHANGED data, pc # "thingino"
                 PROVE  run # None /\ Initialize
        OBVIOUS
    <2>1. pc \in {"erase_data", "write_provisioning"}
        BY NorSteps DEF NorStep
    <2> QED
        BY <2>1, AbsenceAssumption
           DEF RecoveryInv, RInv, IInv, InitializeOnly, DataPoints, RunBound,
               InstallPoints, WritePoints, ErasePoints, ProgramPoints
<1> QED BY <1>1, RecoveryInvariance, PTL DEF Spec, OnlyInitializeWritesData

-----------------------------------------------------------------------------
(* The third invariant.  First what a step does to the files that the host  *)
(* stages.                                                                 *)
HostNames == {"selector", "passive", "stage2"}
StagedNames == HostNames \cup {"prov", "auth"}

(* The installer changes them in two places.                               *)
LEMMA InstallerFiles ==
    ASSUME CardOK(card), CardSteps \/ FlashSteps
    PROVE  /\ pc \in InstallPoints /\ UNCHANGED mtd2
           /\ \A f \in StagedNames : disk'[f] \in {card[f], disk[f]}
           /\ \A f \in StagedNames : card'[f] \in {card[f], None}
           /\ \A f \in {"passive", "stage2"} : card'[f] = card[f]
           /\ pc # "passivate" =>
                 card'["prov"] = card["prov"] /\ card'["auth"] = card["auth"]
           /\ pc = "passivate" => UNCHANGED disk /\ pc' = "sync_passivated"
<1> USE DEF fail, flash, ReadBack, NorUnchangedElsewhere, Sync, StagedNames,
            HostNames
<1> DEFINE Quiet == UNCHANGED <<card, mtd2>> /\ disk' \in {card, disk}
<1>1. CASE CardSteps
    <2>1. CASE \/ verify_camera_authorization \/ sync_bootstrap
               \/ export_stock_userdata_backup \/ sync_backup
               \/ stock_userdata_backup_matches_current_nor
               \/ sync_backup_commit \/ sync_checkpoint \/ readback_checkpoint
               \/ sync_checkpoint_commit \/ validate_recovery_checkpoint
               \/ bind_existing_data
        <3>1. Quiet
            BY <2>1
               DEF verify_camera_authorization, sync_bootstrap,
                   export_stock_userdata_backup, sync_backup,
                   stock_userdata_backup_matches_current_nor,
                   sync_backup_commit, sync_checkpoint, readback_checkpoint,
                   sync_checkpoint_commit, validate_recovery_checkpoint,
                   bind_existing_data
        <3>2. pc \in InstallPoints \ {"passivate"}
            BY <2>1
               DEF verify_camera_authorization, sync_bootstrap,
                   export_stock_userdata_backup, sync_backup,
                   stock_userdata_backup_matches_current_nor,
                   sync_backup_commit, sync_checkpoint, readback_checkpoint,
                   sync_checkpoint_commit, validate_recovery_checkpoint,
                   bind_existing_data, InstallPoints, BackupPoints
        <3> QED BY <3>1, <3>2
    <2>2. CASE \/ remove_consumed_bootstrap \/ append_mtd_to_backup
               \/ commit_backup \/ write_recovery_checkpoint
               \/ commit_checkpoint
        BY <2>2
           DEF remove_consumed_bootstrap, append_mtd_to_backup, commit_backup,
               write_recovery_checkpoint, commit_checkpoint, WriteFile,
               RenameFile, CardOK, Files, InstallPoints, BackupPoints
    <2> QED BY <1>1, <2>1, <2>2 DEF CardSteps
<1>2. CASE FlashSteps
    <2>1. CASE passivate_camera_install_files
        BY <2>1
           DEF passivate_camera_install_files, Files, InstallPoints,
               WritePoints
    <2>2. CASE \/ erase_data \/ verify_erased \/ write_provisioning_to_data
               \/ verify_provisioning \/ erase_system \/ copy_system
               \/ verify_system \/ compare_preserved_data
               \/ erase_kernel_tail \/ copy_kernel_tail
               \/ verify_kernel_before_activation \/ erase_activation
               \/ write_activation \/ verify_activated_kernel
               \/ sync_passivated \/ sync_unmount_reboot
        <3>1. Quiet
            BY <2>2
               DEF erase_data, verify_erased, write_provisioning_to_data,
                   verify_provisioning, erase_system, copy_system,
                   verify_system, compare_preserved_data, erase_kernel_tail,
                   copy_kernel_tail, verify_kernel_before_activation,
                   erase_activation, write_activation,
                   verify_activated_kernel, sync_passivated,
                   sync_unmount_reboot
        <3>2. pc \in InstallPoints \ {"passivate"}
            BY <2>2
               DEF erase_data, verify_erased, write_provisioning_to_data,
                   verify_provisioning, erase_system, copy_system,
                   verify_system, compare_preserved_data, erase_kernel_tail,
                   copy_kernel_tail, verify_kernel_before_activation,
                   erase_activation, write_activation,
                   verify_activated_kernel, sync_passivated,
                   sync_unmount_reboot, InstallPoints, WritePoints,
                   ErasePoints, ProgramPoints
        <3> QED BY <3>1, <3>2
    <2> QED BY <1>2, <2>1, <2>2 DEF FlashSteps
<1> QED BY <1>1, <1>2

(* From the snapshot to the passivation.                                   *)
StagedPoints == InstallPoints \ ({"snapshot"} \cup PassivePoints)

(* Its points follow one another, and the run is that of the snapshot.     *)
LEMMA InstallerPoints ==
    ASSUME CardSteps \/ FlashSteps
    PROVE  /\ pc' \in StagedPoints =>
                 \/ /\ pc = "snapshot" /\ run' = card["auth"]
                    /\ card["prov"] = card["auth"].cred /\ UNCHANGED <<card, disk>>
                 \/ pc \in StagedPoints \ {"passivate"} /\ UNCHANGED run
           /\ pc' = "passivate" =>
                 pc = "verify_kernel" /\ kernel = FinalKernel(run.build)
           /\ pc' \in {"passivate"} \cup PassivePoints =>
                 UNCHANGED <<kernel, run>> /\
                    (pc \in {"passivate"} \cup PassivePoints \/ pc' = "passivate")
           /\ pc' \notin {"snapshot", "switch_root"}
<1> USE DEF fail, flash, host, ram, ReadBack, NorUnchangedElsewhere, Sync, Advance,
            EnterWrites, StagedPoints, InstallPoints, BackupPoints, WritePoints,
            ErasePoints, ProgramPoints, PassivePoints
<1>1. CASE CardSteps
    BY <1>1
       DEF CardSteps, verify_camera_authorization, remove_consumed_bootstrap,
           sync_bootstrap, export_stock_userdata_backup, append_mtd_to_backup,
           sync_backup, stock_userdata_backup_matches_current_nor,
           commit_backup, sync_backup_commit, write_recovery_checkpoint,
           sync_checkpoint, readback_checkpoint, commit_checkpoint,
           sync_checkpoint_commit, validate_recovery_checkpoint,
           bind_existing_data, WriteFile, RenameFile
<1>2. CASE FlashSteps
    BY <1>2
       DEF FlashSteps, erase_data, verify_erased, write_provisioning_to_data,
           verify_provisioning, erase_system, copy_system, verify_system,
           compare_preserved_data, erase_kernel_tail, copy_kernel_tail,
           verify_kernel_before_activation, erase_activation,
           write_activation, verify_activated_kernel,
           passivate_camera_install_files, sync_passivated,
           sync_unmount_reboot
<1> QED BY <1>1, <1>2

CameraSteps == BootSteps \/ CallFails \/ ThinginoWritesData

(* The other steps of the camera leave the card alone, unless its power is *)
(* cut.                                                                    *)
LEMMA CameraFiles ==
    ASSUME CameraSteps
    PROVE  /\ UNCHANGED <<card, disk>>
           /\ UNCHANGED mtd2 \/ pc = "update_mtd2"
           /\ pc' \notin InstallPoints \ {"snapshot"}
           /\ pc' = "snapshot" => card["selector"] = None /\ mtd2' # None
           /\ pc' # "update_mtd2" => UNCHANGED kernel
           /\ pc = "thingino" \/ UNCHANGED <<system, data>>
<1> USE DEF flash, fail, InstallPoints, BackupPoints, WritePoints, ErasePoints,
            ProgramPoints
<1>1. CASE Boot
    BY <1>1 DEF Boot, Bootable
<1>2. CASE UpdateKernel \/ UpdateMtd2
    BY <1>2 DEF UpdateKernel, UpdateMtd2
<1>3. CASE switch_to_thingino \/ CallFails \/ ThinginoWritesData
    BY <1>3 DEF switch_to_thingino, CallFails, ThinginoWritesData
<1> QED BY <1>1, <1>2, <1>3 DEF CameraSteps, BootSteps

(* What a cut may leave.                                                   *)
LEMMA CutEffects ==
    ASSUME PowerCut \/ PowerOff
    PROVE  /\ card' = disk' /\ pc' = "off"
           /\ \A f \in StagedNames \cup {"bin", "ok"} : disk'[f] \in {card[f], disk[f]}
           /\ UNCHANGED mtd2 \/ pc = "update_mtd2"
           /\ \/ UNCHANGED <<kernel, system, data>>
              \/ pc = "update_kernel" /\ kernel' = TornKernel /\ UNCHANGED <<system, data>>
              \/ pc \in ErasePoints \cup ProgramPoints
<1>1. CardAfterCut /\ pc' = "off"
    BY DEF PowerCut, PowerOff
<1>2. \A f \in StagedNames \cup {"bin", "ok"} : disk'[f] \in {card[f], disk[f]}
    BY <1>1 DEF CardAfterCut, Files, Temporary, Pending, StagedNames, HostNames
<1>3. UNCHANGED mtd2 \/ pc = "update_mtd2"
    BY DEF PowerCut, PowerOff, flash
<1>4. pc \notin ErasePoints \cup ProgramPoints =>
         \/ UNCHANGED <<kernel, system, data>>
         \/ pc = "update_kernel" /\ kernel' = TornKernel /\ UNCHANGED <<system, data>>
    BY DEF PowerCut, PowerOff, flash, RegionAfterCut, ErasePoints, ProgramPoints
<1> QED BY <1>1, <1>2, <1>3, <1>4 DEF CardAfterCut

(* Nothing boots from a torn kernel.                                       *)
LEMMA TornIsNotFinal ==
    ASSUME NEW b \in Builds
    PROVE  TornKernel # FinalKernel(b)
BY FinalKernelBlocks, BlockKinds, Geometry DEF TornKernel, KernelSpan

-----------------------------------------------------------------------------
(* The host's files.                                                       *)
LEMMA HostStepShape ==
    ASSUME HostSteps, CardOK(card)
    PROVE  /\ pc = "off" /\ pc' = "off" /\ card' = disk'
           /\ UNCHANGED <<kernel, mtd2, system, data, faults, failure>>
           /\ archive \subseteq archive'
           /\ \/ \E b \in Builds, c \in Creds :
                    /\ card["prov"] = None /\ card["auth"] = None
                    /\ card["ok"] # None => card["bin"] # None /\ card["ok"].build = b
                    /\ card'["selector"] = b /\ card'["passive"] = None
                    /\ card'["stage2"] = b
                    /\ card'["prov"] = c /\ card'["auth"] = [build |-> b, cred |-> c]
                    /\ card'["bin"] = card["bin"] /\ card'["ok"] = card["ok"]
              \/ /\ card["selector"] # None /\ card["stage2"] = card["selector"]
                 /\ mtd2 = card["selector"]
                 /\ card'["selector"] = None /\ card'["passive"] = card["selector"]
                 /\ \A f \in {"stage2", "prov", "auth", "bin", "ok"} : card'[f] = card[f]
              \/ /\ card["selector"] = None /\ card["ok"] = None
                 /\ card["passive"] # None /\ card["stage2"] = card["passive"]
                 /\ card'["selector"] = card["passive"] /\ card'["passive"] = None
                 /\ \A f \in {"stage2", "prov", "auth", "bin", "ok"} : card'[f] = card[f]
              \/ /\ card["selector"] = None
                 /\ card'["bin"] = None /\ card'["ok"] = None /\ archive' # {}
                 /\ \A f \in HostNames : card'[f] = card[f]
                 /\ \/ card'["prov"] = card["prov"] /\ card'["auth"] = card["auth"]
                    \/ card'["prov"] = None /\ card'["auth"] = None
<1> USE DEF HostWrites, flash, host, CardOK, Files, HostNames, UpdaterCompleted,
            BoundCheckpoint
<1>1. CASE stage_camera_bound_universal_install
    BY <1>1 DEF stage_camera_bound_universal_install
<1>2. CASE handoff_camera_bound_universal_install
    BY <1>2 DEF handoff_camera_bound_universal_install
<1>3. CASE activate_staged_install_set
    BY <1>3 DEF activate_staged_install_set
<1>4. CASE deactivate_staged_install_set
    BY <1>4 DEF deactivate_staged_install_set
<1>5. CASE evacuate_existing_stock_backups \/ evacuate_with_install_inputs
    BY <1>5
       DEF evacuate_existing_stock_backups, evacuate_with_install_inputs, Evacuate
<1> QED BY <1>1, <1>2, <1>3, <1>4, <1>5 DEF HostSteps

(* Every step leaves the host's files one build's.                         *)
LEMMA HostFilesStep ==
    ASSUME RecoveryInv, HostFilesAgree, Next
    PROVE  HostFilesAgree'
<1>0. CardOK(card) /\ CardOK(disk)
    BY DEF RecoveryInv, IInv, TypeOK
<1>1. CASE CardSteps \/ FlashSteps
    <2>1. card["selector"] = None /\ card["stage2"] = mtd2 /\ disk["selector"] = None
        BY <1>0, <1>1, InstallerFiles DEF HostFilesAgree
    <2> QED BY <1>0, <1>1, <2>1, InstallerFiles DEF HostFilesAgree, StagedNames, HostNames
<1>2. CASE CameraSteps
    <2>1. pc = "update_mtd2" => card["selector"] # None
        BY AbsenceAssumption, BuildsAssumption DEF RecoveryInv, IInv, SelectorAhead
    <2> QED BY <1>2, <2>1, CameraFiles DEF HostFilesAgree
<1>3. CASE PowerCut \/ PowerOff
    <2>1. pc = "update_mtd2" => card["selector"] # None
        BY AbsenceAssumption, BuildsAssumption DEF RecoveryInv, IInv, SelectorAhead
    <2>2. \A f \in HostNames : card'[f] = card[f] /\ disk'[f] = card[f]
        BY <1>3, CutEffects DEF HostFilesAgree, StagedNames, HostNames
    <2> QED BY <1>3, <2>1, <2>2, CutEffects
               DEF HostFilesAgree, HostNames, InstallPoints, BackupPoints, WritePoints,
                   ErasePoints, ProgramPoints
<1>4. CASE HostSteps
    <2>1. card' = disk' /\ pc' = "off" /\ UNCHANGED mtd2
        BY <1>0, <1>4, HostStepShape
    <2>2. /\ {card'["selector"], card'["passive"]} \subseteq {None, card'["stage2"]}
          /\ card'["selector"] = None => card'["stage2"] = mtd2
        BY <1>0, <1>4, HostStepShape, BuildsAssumption DEF HostFilesAgree, HostNames
    <2> QED BY <2>1, <2>2
               DEF HostFilesAgree, InstallPoints, BackupPoints, WritePoints, ErasePoints,
                   ProgramPoints
<1> QED BY <1>1, <1>2, <1>3, <1>4 DEF Next, CameraSteps

(* And the camera files of that build and of each other.                   *)
LEMMA CameraFilesStep ==
    ASSUME RecoveryInv, HostFilesAgree, CameraFilesAgree, Next
    PROVE  CameraFilesAgree'
<1>0. CardOK(card)
    BY DEF RecoveryInv, IInv, TypeOK
<1>1. CASE CardSteps \/ FlashSteps \/ CameraSteps \/ PowerCut \/ PowerOff
    <2>1. /\ \A f \in {"prov", "auth"} : Both(f)' \subseteq Both(f)
          /\ card'["stage2"] = card["stage2"]
        <3>1. CASE CardSteps \/ FlashSteps
            BY <1>0, <3>1, InstallerFiles DEF Both, StagedNames, HostNames
        <3>2. CASE CameraSteps
            BY <3>2, CameraFiles DEF Both
        <3>3. CASE PowerCut \/ PowerOff
            BY <3>3, CutEffects DEF Both, StagedNames, HostNames, HostFilesAgree
        <3> QED BY <1>1, <3>1, <3>2, <3>3
    <2> QED BY <2>1 DEF CameraFilesAgree
<1>2. CASE HostSteps
    <2>1. pc = "off" /\ card = disk /\ card' = disk'
        BY <1>0, <1>2, HostStepShape DEF RecoveryInv, RInv, CardIsSynced, SyncedPoints
    <2>2. CASE \E b \in Builds, c \in Creds :
                  /\ card'["stage2"] = b /\ card'["prov"] = c
                  /\ card'["auth"] = [build |-> b, cred |-> c]
        BY <2>1, <2>2 DEF CameraFilesAgree, Both
    <2>3. CASE \A f \in {"stage2", "prov", "auth"} : card'[f] = card[f]
        BY <2>1, <2>3 DEF CameraFilesAgree, Both
    <2>4. CASE card'["auth"] = None
        BY <2>1, <2>4 DEF CameraFilesAgree, Both
    <2> QED BY <1>0, <1>2, <2>2, <2>3, <2>4, HostStepShape DEF HostNames
<1> QED BY <1>1, <1>2 DEF Next, CameraSteps

(* And the checkpoint that build's, which initializes.                     *)
LEMMA CheckpointStagedStep ==
    ASSUME RecoveryInv, HostFilesAgree, HostFilesAgree', CheckpointIsStaged, Next
    PROVE  CheckpointIsStaged'
<1>0. CardOK(card)
    BY DEF RecoveryInv, IInv, TypeOK
<1>1. CASE HostSteps
    <2>1. card = disk /\ card' = disk'
        BY <1>0, <1>1, HostStepShape DEF RecoveryInv, RInv, CardIsSynced, SyncedPoints
    <2>2. CASE \E b \in Builds :
                  /\ card'["stage2"] = b /\ card'["ok"] = card["ok"]
                  /\ card["ok"] # None => card["ok"].build = b
        BY <2>1, <2>2 DEF CheckpointIsStaged, Both
    <2>3. CASE card'["stage2"] = card["stage2"] /\ card'["ok"] \in {card["ok"], None}
        BY <2>1, <2>3 DEF CheckpointIsStaged, Both
    <2> QED BY <1>0, <1>1, <2>2, <2>3, HostStepShape DEF HostNames
<1>2. ASSUME ~HostSteps PROVE CheckpointIsStaged'
    <2>1. card'["stage2"] = card["stage2"]
        <3>1. CASE CardSteps \/ FlashSteps
            BY <1>0, <3>1, InstallerFiles
        <3>2. CASE CameraSteps
            BY <3>2, CameraFiles
        <3>3. CASE PowerCut \/ PowerOff
            BY <3>3, CutEffects DEF StagedNames, HostNames, HostFilesAgree
        <3> QED BY <1>2, <3>1, <3>2, <3>3 DEF Next, CameraSteps
    <2>2. Both("ok")' \subseteq
             Both("ok") \cup (IF pc = "rename_ok" THEN {Checkpoint(Image)} ELSE {})
        BY FileSteps DEF RecoveryInv, RInv, FilesInv, FileStep
    <2>3. pc = "rename_ok" =>
             /\ Checkpoint(Image).build = card["stage2"]
             /\ DataAction[card["stage2"]] = "initialize"
        BY DEF RecoveryInv, RInv, IInv, InitializeOnly, Initialize, BackupPoints,
               InstallPoints, RunBound, HostFilesAgree, Checkpoint
    <2> QED BY <2>1, <2>2, <2>3 DEF CheckpointIsStaged
<1> QED BY <1>1, <1>2

(* And the run's, while it goes on.                                        *)
LEMMA RunStagedStep ==
    ASSUME RecoveryInv, RunIsStaged, Next
    PROVE  RunIsStaged'
<1> SUFFICES ASSUME pc' \in StagedPoints
             PROVE  \A c \in {card', disk'} : c["auth"] = run' /\ c["prov"] = (run').cred
    BY DEF RunIsStaged, StagedPoints
<1>0. CardOK(card)
    BY DEF RecoveryInv, IInv, TypeOK
<1>1. CardSteps \/ FlashSteps
    BY CameraFiles, CutEffects, HostStepShape, <1>0
       DEF Next, CameraSteps, StagedPoints, InstallPoints, BackupPoints, WritePoints,
           ErasePoints, ProgramPoints
<1>2. CASE pc = "snapshot" /\ run' = card["auth"] /\ card["prov"] = card["auth"].cred
           /\ UNCHANGED <<card, disk>>
    BY <1>2 DEF RecoveryInv, RInv, CardIsSynced, SyncedPoints
<1>3. CASE pc \in StagedPoints \ {"passivate"} /\ UNCHANGED run
    <2>1. \A c \in {card, disk} : c["auth"] = run /\ c["prov"] = run.cred
        BY <1>3 DEF RunIsStaged, StagedPoints
    <2> QED BY <1>0, <1>1, <1>3, <2>1, InstallerFiles DEF StagedNames
<1> QED BY <1>1, <1>2, <1>3, InstallerPoints

-----------------------------------------------------------------------------
(* The backup that is not bound yet.                                       *)

(* While the NOR is written, a backup on the card has its checkpoint.      *)
LEMMA WritesAreBound ==
    ASSUME RecoveryInv, HostFilesAgree, UnboundIsCurrent, pc \in WritePoints
    PROVE  ~Unbound \/ Both("bin") = {}
<1> SUFFICES ASSUME Unbound, Both("bin") # {} PROVE FALSE
    OBVIOUS
<1>1. ~Initialize
    <2> SUFFICES ASSUME Initialize PROVE FALSE
        OBVIOUS
    <2>1. /\ card["ok"] = disk["ok"] /\ disk["bin"] \in Images
          /\ disk["ok"] = Checkpoint(disk["bin"])
        BY DEF RecoveryInv, RInv, FilesAreSettled
    <2>2. run \in Tuples
        BY DEF RecoveryInv, IInv, RunBound, InstallPoints, WritePoints, ErasePoints,
               ProgramPoints
    <2> QED BY <2>1, <2>2, CheckpointFields DEF Unbound
<1>2. DataAction[card["stage2"]] = "initialize" /\ card["stage2"] = run.build
    BY DEF UnboundIsCurrent, HostFilesAgree, RecoveryInv, IInv, RunBound, InstallPoints,
           WritePoints, ErasePoints, ProgramPoints
<1> QED BY <1>1, <1>2 DEF Initialize

(* What the steps that are not the host's do to backup and checkpoint.     *)
LEMMA BoundFiles ==
    ASSUME RecoveryInv, Next, ~HostSteps
    PROVE  /\ Unbound' => Unbound
           /\ Both("bin")' # {} /\ Both("bin") = {} => pc = "rename_bin"
<1> USE DEF RecoveryInv, RInv, IInv, FilesInv
<1>0. CardOK(card)
    BY DEF TypeOK
<1>1. Both("bin")' # {} /\ Both("bin") = {} => pc = "rename_bin"
    BY FileSteps DEF FileStep
<1>2. ASSUME Unbound' PROVE Unbound
    <2>1. CASE CardSteps
        <3>1. CASE commit_checkpoint
            <4>1. card'["ok"] # None
                BY <1>0, <3>1, AbsenceAssumption
                   DEF commit_checkpoint, RenameFile, BackupAhead, CardOK, Files
            <4>2. disk' = disk
                BY <3>1 DEF commit_checkpoint, RenameFile
            <4> QED BY <1>2, <4>1, <4>2 DEF Unbound
        <3>2. CASE \/ remove_consumed_bootstrap \/ append_mtd_to_backup \/ commit_backup
                   \/ write_recovery_checkpoint
            BY <1>0, <1>2, <3>2
               DEF Unbound, remove_consumed_bootstrap, append_mtd_to_backup,
                   commit_backup, write_recovery_checkpoint, WriteFile, RenameFile,
                   CardOK, Files
        <3>3. CASE \/ verify_camera_authorization \/ sync_bootstrap
                   \/ export_stock_userdata_backup \/ sync_backup
                   \/ stock_userdata_backup_matches_current_nor
                   \/ sync_backup_commit \/ sync_checkpoint \/ readback_checkpoint
                   \/ sync_checkpoint_commit \/ validate_recovery_checkpoint
                   \/ bind_existing_data
            <4>1. card' = card /\ disk' \in {card, disk}
                BY <3>3
                   DEF verify_camera_authorization, sync_bootstrap,
                       export_stock_userdata_backup, sync_backup,
                       stock_userdata_backup_matches_current_nor,
                       sync_backup_commit, sync_checkpoint, readback_checkpoint,
                       sync_checkpoint_commit, validate_recovery_checkpoint,
                       bind_existing_data, fail, ReadBack, Sync
            <4> QED BY <1>2, <4>1 DEF Unbound
        <3> QED BY <2>1, <3>1, <3>2, <3>3 DEF CardSteps
    <2>2. CASE FlashSteps
        <3>1. card'["ok"] = card["ok"] /\ disk' \in {card, disk}
            BY <1>0, <2>2
               DEF FlashSteps, erase_data, verify_erased, write_provisioning_to_data,
                   verify_provisioning, erase_system, copy_system, verify_system,
                   compare_preserved_data, erase_kernel_tail, copy_kernel_tail,
                   verify_kernel_before_activation, erase_activation,
                   write_activation, verify_activated_kernel,
                   passivate_camera_install_files, sync_passivated,
                   sync_unmount_reboot, fail, ReadBack, NorUnchangedElsewhere, Files
        <3> QED BY <1>2, <3>1 DEF Unbound
    <2>3. CASE CameraSteps
        BY <1>2, <2>3, CameraFiles DEF Unbound
    <2>4. CASE PowerCut \/ PowerOff
        BY <1>2, <2>4, CutEffects DEF Unbound
    <2> QED BY <2>1, <2>2, <2>3, <2>4 DEF Next, CameraSteps
<1> QED BY <1>1, <1>2

(* A backup that is bound by nothing stays what the NOR holds.             *)
LEMMA UnboundStep ==
    ASSUME RecoveryInv, RecoveryInv', StagedInv, HostFilesAgree', Next
    PROVE  UnboundIsCurrent'
<1> SUFFICES ASSUME Unbound', Both("bin")' # {} PROVE UnboundIsCurrent'
    BY DEF UnboundIsCurrent
<1> USE DEF StagedInv
<1>0. CardOK(card)
    BY DEF RecoveryInv, IInv, TypeOK
<1>1. CASE HostSteps
    <2>1. pc = "off" /\ card = disk /\ card' = disk'
          /\ UNCHANGED <<kernel, system, data>>
        BY <1>0, <1>1, HostStepShape DEF RecoveryInv, RInv, CardIsSynced, SyncedPoints
    <2>2. card'["ok"] = None /\ card'["bin"] # None
        BY <2>1 DEF Unbound, Both
    <2>3. CASE /\ card["auth"] = None
               /\ card'["bin"] = card["bin"] /\ card'["ok"] = card["ok"]
        BY <2>1, <2>2, <2>3 DEF UnboundIsCurrent, Unbound, Both
    <2>4. CASE \A f \in {"stage2", "prov", "auth", "bin", "ok"} : card'[f] = card[f]
        BY <2>1, <2>2, <2>4 DEF UnboundIsCurrent, Unbound, Both, Image
    <2> QED BY <1>0, <1>1, <2>2, <2>3, <2>4, HostStepShape
<1>2. ASSUME ~HostSteps PROVE UnboundIsCurrent'
    <2>1. Unbound
        BY <1>2, BoundFiles
    <2>2. FileStep
        BY FileSteps DEF RecoveryInv, RInv, FilesInv
    <2>3. CASE Both("bin") = {}
        <3>1. pc = "rename_bin"
            BY <1>2, <2>3, BoundFiles
        <3>2. CardSteps
            <4>1. FlashSteps => pc \in WritePoints
                BY DEF FlashSteps, erase_data, verify_erased, write_provisioning_to_data,
                       verify_provisioning, erase_system, copy_system, verify_system,
                       compare_preserved_data, erase_kernel_tail, copy_kernel_tail,
                       verify_kernel_before_activation, erase_activation,
                       write_activation, verify_activated_kernel,
                       passivate_camera_install_files, sync_passivated,
                       sync_unmount_reboot, ReadBack, WritePoints, ErasePoints,
                       ProgramPoints
            <4>2. ~FlashSteps
                BY <3>1, <4>1 DEF WritePoints, ErasePoints, ProgramPoints
            <4>3. ~CameraSteps /\ ~PowerCut /\ ~PowerOff
                BY <2>3, CutEffects, CameraFiles DEF Both
            <4> QED BY <1>2, <4>2, <4>3 DEF Next, CameraSteps
        <3>3. commit_backup
            BY <3>1, <3>2
               DEF CardSteps, verify_camera_authorization, remove_consumed_bootstrap,
                   sync_bootstrap, export_stock_userdata_backup, append_mtd_to_backup,
                   sync_backup, stock_userdata_backup_matches_current_nor,
                   sync_backup_commit, write_recovery_checkpoint, sync_checkpoint,
                   readback_checkpoint, commit_checkpoint, sync_checkpoint_commit,
                   validate_recovery_checkpoint, bind_existing_data, Sync, WriteFile,
                   RenameFile, ReadBack
        <3>4. /\ Both("bin")' \subseteq {Image} /\ UNCHANGED <<kernel, system, data, disk, run>>
              /\ pc' = "sync_bin"
            BY <2>2, <2>3, <3>1, <3>3 DEF FileStep, commit_backup, RenameFile, flash, ram
        <3>5. /\ card'["auth"] = card["auth"] /\ card'["stage2"] = card["stage2"]
              /\ pc \in StagedPoints \cap BackupPoints
            BY <1>0, <3>1, <3>3, InstallerFiles
               DEF CardSteps, StagedPoints, InstallPoints, BackupPoints, PassivePoints
        <3>6. run \in Tuples /\ card["auth"] = run /\ disk["auth"] = run
              /\ card["stage2"] = run.build /\ Initialize
            BY <3>5 DEF RunIsStaged, StagedPoints, InstallPoints, HostFilesAgree,
               RecoveryInv, RInv, IInv, RunBound, InitializeOnly
        <3>7. \A b \in Builds : kernel # FinalKernel(b)
            BY <3>1, InstallerIsNotFinal
               DEF RecoveryInv, IInv, InstallerAhead, InstallPoints, BackupPoints,
                   ActivationPoints
        <3> QED BY <3>4, <3>5, <3>6, <3>7, AbsenceAssumption
                DEF UnboundIsCurrent, Image, Initialize
    <2>4. CASE Both("bin") # {}
        <3>1. /\ Both("bin") \subseteq {Image}
              /\ card["auth"] # None /\ disk["auth"] # None
              /\ DataAction[card["stage2"]] = "initialize"
              /\ \A b \in Builds : kernel # FinalKernel(b)
            BY <2>1, <2>4 DEF UnboundIsCurrent
        <3>2. pc \notin WritePoints /\ pc # "thingino"
            BY <2>1, <2>4, <3>1, WritesAreBound DEF RecoveryInv, RInv, ThinginoIsWhole
        <3>3. UNCHANGED <<system, data>>
            BY <3>2, NorSteps DEF NorStep, WritePoints, ErasePoints, ProgramPoints
        <3>4. Both("bin")' \subseteq {Image}'
            BY <2>2, <3>1, <3>3 DEF FileStep, Image
        <3>5. /\ card'["auth"] # None /\ disk'["auth"] # None
              /\ card'["stage2"] = card["stage2"]
            <4>1. CASE CardSteps \/ FlashSteps
                BY <1>0, <3>1, <3>2, <4>1, InstallerFiles
                   DEF StagedNames, WritePoints
            <4>2. CASE CameraSteps
                BY <3>1, <4>2, CameraFiles
            <4>3. CASE PowerCut \/ PowerOff
                BY <3>1, <4>3, CutEffects DEF StagedNames, HostNames, HostFilesAgree
            <4> QED BY <1>2, <4>1, <4>2, <4>3 DEF Next, CameraSteps
        <3>6. \A b \in Builds : kernel' # FinalKernel(b)
            BY <3>1, <3>2, KernelSteps, FinalBecomes
               DEF RecoveryInv, SpanPoints, WritePoints, ErasePoints, ProgramPoints
        <3> QED BY <3>1, <3>4, <3>5, <3>6 DEF UnboundIsCurrent
    <2> QED BY <2>3, <2>4
<1> QED BY <1>1, <1>2

(* The camera files go when the kernel is verified.                        *)
LEMMA KernelVerifiedStep ==
    ASSUME RecoveryInv, KernelIsVerified, Next
    PROVE  KernelIsVerified'
<1>0. CardOK(card)
    BY DEF RecoveryInv, IInv, TypeOK
<1>1. ASSUME pc' \in {"passivate"} \cup PassivePoints
      PROVE  kernel' = FinalKernel(run'.build)
    <2>1. CardSteps \/ FlashSteps
        BY <1>1, CameraFiles, CutEffects, HostStepShape, <1>0
           DEF Next, CameraSteps, InstallPoints, WritePoints, PassivePoints
    <2> QED BY <1>1, <2>1, InstallerPoints DEF KernelIsVerified, PassivePoints
<1>2. ASSUME pc' = "switch_root"
      PROVE  \E b \in Builds : kernel' = FinalKernel(b)
    <2>1. CASE CardSteps \/ FlashSteps
        BY <1>2, <2>1, InstallerPoints
    <2>2. CASE BootSteps
        BY <1>2, <2>2
           DEF BootSteps, Boot, UpdateKernel, UpdateMtd2, switch_to_thingino, fail,
               flash, Bootable, FinalKernels
    <2>3. CASE HostSteps
        BY <1>0, <1>2, <2>3, HostStepShape
    <2>4. CASE CallFails \/ ThinginoWritesData \/ PowerCut \/ PowerOff
        BY <1>2, <2>4 DEF CallFails, ThinginoWritesData, PowerCut, PowerOff
    <2> QED BY <2>1, <2>2, <2>3, <2>4 DEF Next
<1> QED BY <1>1, <1>2 DEF KernelIsVerified

(* What the host commands leave consistent stays so.                       *)
LEMMA StagedStep ==
    ASSUME RecoveryInv, RecoveryInv', StagedInv, [Next]_vars
    PROVE  StagedInv'
<1>1. CASE Next
    <2>1. HostFilesAgree'
        BY <1>1, HostFilesStep DEF StagedInv
    <2>2. /\ CameraFilesAgree' /\ CheckpointIsStaged'
          /\ RunIsStaged' /\ KernelIsVerified'
        BY <1>1, <2>1, CameraFilesStep, CheckpointStagedStep, RunStagedStep,
           KernelVerifiedStep
           DEF StagedInv
    <2>3. UnboundIsCurrent'
        BY <1>1, <2>1, UnboundStep
    <2> QED BY <2>1, <2>2, <2>3 DEF StagedInv
<1>2. CASE UNCHANGED vars
    BY <1>2
       DEF vars, StagedInv, HostFilesAgree, CameraFilesAgree, CheckpointIsStaged,
           RunIsStaged, UnboundIsCurrent, Unbound, KernelIsVerified, Both, Image
<1> QED BY <1>1, <1>2

-----------------------------------------------------------------------------
(* While nothing has failed.                                               *)

(* What is left of the faults is never given back.                         *)
LEMMA FaultsStay ==
    ASSUME IInv, [Next]_vars, faults' = MaxFaults
    PROVE  faults = MaxFaults
<1>1. faults \in Nat /\ faults <= MaxFaults /\ MaxFaults \in Nat
    BY BoundsAssumption DEF IInv, TypeOK
<1>2. faults' = faults \/ (faults > 0 /\ faults' = faults - 1)
    <2> USE DEF fail, ReadBack, Sync, WriteFile, RenameFile, NorUnchangedElsewhere
    <2>1. CASE CardSteps
        BY <2>1
           DEF CardSteps, verify_camera_authorization, remove_consumed_bootstrap,
               sync_bootstrap, export_stock_userdata_backup, append_mtd_to_backup,
               sync_backup, stock_userdata_backup_matches_current_nor,
               commit_backup, sync_backup_commit, write_recovery_checkpoint,
               sync_checkpoint, readback_checkpoint, commit_checkpoint,
               sync_checkpoint_commit, validate_recovery_checkpoint,
               bind_existing_data
    <2>2. CASE \/ erase_data \/ write_provisioning_to_data \/ erase_system
               \/ copy_system \/ erase_kernel_tail \/ copy_kernel_tail
               \/ erase_activation \/ write_activation
        BY <2>2
           DEF erase_data, write_provisioning_to_data, erase_system, copy_system,
               erase_kernel_tail, copy_kernel_tail, erase_activation,
               write_activation, Outcome
    <2>3. CASE \/ verify_erased \/ verify_provisioning \/ verify_system
               \/ compare_preserved_data \/ verify_kernel_before_activation
               \/ verify_activated_kernel \/ passivate_camera_install_files
               \/ sync_passivated \/ sync_unmount_reboot
        BY <2>3
           DEF verify_erased, verify_provisioning, verify_system,
               compare_preserved_data, verify_kernel_before_activation,
               verify_activated_kernel, passivate_camera_install_files,
               sync_passivated, sync_unmount_reboot
    <2>4. CASE BootSteps \/ HostSteps \/ CallFails \/ PowerCut \/ PowerOff
               \/ ThinginoWritesData
        BY <2>4
           DEF BootSteps, Boot, UpdateKernel, UpdateMtd2, switch_to_thingino,
               HostSteps, HostWrites, stage_camera_bound_universal_install,
               handoff_camera_bound_universal_install,
               activate_staged_install_set, deactivate_staged_install_set,
               evacuate_existing_stock_backups, evacuate_with_install_inputs,
               Evacuate, CallFails, PowerCut, PowerOff,
               ThinginoWritesData
    <2>5. CASE UNCHANGED vars
        BY <2>5 DEF vars
    <2> QED BY <2>1, <2>2, <2>3, <2>4, <2>5 DEF Next, FlashSteps
<1> QED BY <1>1, <1>2

(* The camera files of a run are both there.                               *)
LEMMA StagedIsWhole ==
    ASSUME RecoveryInv, RunIsStaged, pc \in StagedPoints
    PROVE  /\ run \in Tuples /\ run.build = mtd2 /\ run.build \in Builds
           /\ \A c \in {card, disk} : c["auth"] # None /\ c["prov"] # None
<1>1. run \in Tuples /\ run.build = mtd2
    BY DEF RecoveryInv, IInv, RunBound, StagedPoints
<1>2. \A c \in {card, disk} : c["auth"] = run /\ c["prov"] = run.cred
    BY DEF RunIsStaged, StagedPoints
<1> QED BY <1>1, <1>2, AbsenceAssumption, BuildsAssumption DEF Tuples

(* The install that was cut behind its verified kernel: an update has no   *)
(* backup on the card, an initialize install its checkpoint.               *)
LEMMA PassiveIsBehind ==
    ASSUME RecoveryInv, StagedInv, pc \in {"passivate"} \cup PassivePoints
    PROVE  /\ \/ /\ Both("bin") = {} /\ Both("ok") = {}
                 /\ DataAction[card["stage2"]] = "preserve"
              \/ card["ok"] # None /\ card["ok"] = disk["ok"]
           /\ card["selector"] = None
           /\ \E b \in Builds : kernel = FinalKernel(b)
<1>1. pc \in WritePoints /\ pc \in InstallPoints \ {"snapshot"}
    BY DEF PassivePoints, WritePoints, InstallPoints
<1>2. run \in Tuples /\ run.build = mtd2 /\ run.build \in Builds
    BY <1>1 DEF RecoveryInv, IInv, RunBound, Tuples
<1>3. card["selector"] = None /\ card["stage2"] = run.build
    BY <1>1, <1>2 DEF StagedInv, HostFilesAgree
<1>4. kernel = FinalKernel(run.build)
    BY DEF StagedInv, KernelIsVerified
<1>5. CASE Initialize
    <2>1. card["ok"] = disk["ok"] /\ card["ok"] # None
        BY <1>1, <1>2, <1>5, CheckpointFields
           DEF RecoveryInv, RInv, FilesAreSettled
    <2> QED BY <1>2, <1>3, <1>4, <2>1
<1>6. CASE ~Initialize
    <2>1. DataAction[card["stage2"]] = "preserve"
        BY <1>2, <1>3, <1>6, BuildsAssumption DEF Initialize
    <2>2. Both("ok") = {}
        BY <2>1 DEF StagedInv, CheckpointIsStaged
    <2>3. Unbound
        BY <2>2 DEF Unbound, Both
    <2>4. Both("bin") = {}
        BY <2>1, <2>3 DEF StagedInv, UnboundIsCurrent
    <2> QED BY <1>2, <1>3, <1>4, <2>1, <2>2, <2>4
<1> QED BY <1>5, <1>6

(* A camera file is only missing where nothing can be half done.           *)
LEMMA GoneStep ==
    ASSUME RecoveryInv, StagedInv, FlowInv, StagedInv', Next, faults' = faults
    PROVE  GoneIsBehind'
<1> USE DEF FlowInv
<1>0. CardOK(card) /\ CardOK(disk) /\ faults \in Nat
    BY DEF RecoveryInv, IInv, TypeOK
<1>a. archive \subseteq archive'
    BY FileSteps DEF RecoveryInv, RInv, FilesInv, FileStep
<1>1. ASSUME pc \in StagedPoints PROVE GoneIsBehind'
    <2>1. \A c \in {card, disk} : c["auth"] # None /\ c["prov"] # None
        BY <1>1, StagedIsWhole DEF StagedInv
    <2>2. pc \in InstallPoints \ {"snapshot", "sync_passivated", "final_sync"}
        BY <1>1 DEF StagedPoints, PassivePoints
    <2>3. ~HostSteps /\ (CameraSteps => UNCHANGED <<card, disk>>)
        BY <1>0, <2>2, HostStepShape, CameraFiles
           DEF InstallPoints, BackupPoints, WritePoints, ErasePoints, ProgramPoints
    <2>4. CASE CameraSteps
        BY <2>1, <2>3, <2>4 DEF GoneIsBehind, Gone
    <2>5. CASE PowerCut \/ PowerOff
        BY <2>1, <2>5, CutEffects DEF GoneIsBehind, Gone, StagedNames
    <2>6. CASE (CardSteps \/ FlashSteps) /\ pc # "passivate"
        BY <1>0, <2>1, <2>6, InstallerFiles DEF GoneIsBehind, Gone, StagedNames
    <2>7. CASE (CardSteps \/ FlashSteps) /\ pc = "passivate"
        <3>1. passivate_camera_install_files
            BY <2>7
               DEF CardSteps, verify_camera_authorization, remove_consumed_bootstrap,
                   sync_bootstrap, export_stock_userdata_backup,
                   append_mtd_to_backup, sync_backup,
                   stock_userdata_backup_matches_current_nor, commit_backup,
                   sync_backup_commit, write_recovery_checkpoint,
                   sync_checkpoint, readback_checkpoint, commit_checkpoint,
                   sync_checkpoint_commit, validate_recovery_checkpoint,
                   bind_existing_data, WriteFile, RenameFile, Sync, ReadBack,
                   FlashSteps, erase_data, verify_erased,
                   write_provisioning_to_data, verify_provisioning,
                   erase_system, copy_system, verify_system,
                   compare_preserved_data, erase_kernel_tail, copy_kernel_tail,
                   verify_kernel_before_activation, erase_activation,
                   write_activation, verify_activated_kernel,
                   sync_passivated, sync_unmount_reboot
        <3>2. /\ disk' = disk /\ UNCHANGED kernel
              /\ \A f \in {"bin", "ok", "selector", "stage2"} : card'[f] = card[f]
            BY <1>0, <3>1 DEF passivate_camera_install_files, Files, flash
        <3>3. Both("bin")' = Both("bin") /\ Both("ok")' = Both("ok")
            BY <3>2 DEF Both
        <3>4. \/ /\ Both("bin") = {} /\ Both("ok") = {}
                 /\ DataAction[card["stage2"]] = "preserve"
              \/ card["ok"] # None
            BY <2>7, PassiveIsBehind
        <3>5. card["selector"] = None /\ \E b \in Builds : kernel = FinalKernel(b)
            BY <2>7, PassiveIsBehind
        <3>6. ~Gone(disk')
            BY <2>1, <3>2 DEF Gone
        <3> QED BY <3>2, <3>3, <3>4, <3>5, <3>6 DEF GoneIsBehind
    <2> QED BY <2>3, <2>4, <2>5, <2>6, <2>7 DEF Next, CameraSteps
<1>2. ASSUME {card', disk'} \subseteq {card, disk},
             UNCHANGED kernel \/ card["selector"] # None
      PROVE  GoneIsBehind'
    <2>1. card["selector"] = disk["selector"]
        BY DEF StagedInv, HostFilesAgree
    <2>2. Both("bin")' \subseteq Both("bin") /\ Both("ok")' \subseteq Both("ok")
        BY <1>2 DEF Both
    <2> QED BY <1>2, <1>a, <2>1, <2>2 DEF GoneIsBehind, Gone
<1>3. CASE (CardSteps \/ FlashSteps) /\ pc \notin StagedPoints
    <2>1. \/ verify_camera_authorization \/ sync_passivated \/ sync_unmount_reboot
        BY <1>3
           DEF StagedPoints, InstallPoints, BackupPoints, WritePoints, ErasePoints,
               ProgramPoints, PassivePoints,
               CardSteps, verify_camera_authorization, remove_consumed_bootstrap,
               sync_bootstrap, export_stock_userdata_backup,
               append_mtd_to_backup, sync_backup,
               stock_userdata_backup_matches_current_nor, commit_backup,
               sync_backup_commit, write_recovery_checkpoint,
               sync_checkpoint, readback_checkpoint, commit_checkpoint,
               sync_checkpoint_commit, validate_recovery_checkpoint,
               bind_existing_data, WriteFile, RenameFile, Sync, ReadBack,
               FlashSteps, erase_data, verify_erased,
               write_provisioning_to_data, verify_provisioning,
               erase_system, copy_system, verify_system,
               compare_preserved_data, erase_kernel_tail, copy_kernel_tail,
               verify_kernel_before_activation, erase_activation,
               write_activation, verify_activated_kernel,
               passivate_camera_install_files
    <2>2. {card', disk'} \subseteq {card, disk} /\ UNCHANGED kernel
        BY <2>1
           DEF verify_camera_authorization, sync_passivated, sync_unmount_reboot,
               fail, flash
    <2> QED BY <1>2, <2>2
<1>4. CASE CameraSteps
    <2>1. pc' = "update_mtd2" => UNCHANGED kernel \/ card["selector"] # None
        <3>1. pc' = "update_mtd2" => pc \in {"update_kernel", "update_mtd2"}
            BY <1>4
               DEF CameraSteps, BootSteps, Boot, UpdateKernel, UpdateMtd2,
                   switch_to_thingino, CallFails, ThinginoWritesData, fail
        <3> QED BY <3>1, AbsenceAssumption, BuildsAssumption
                DEF RecoveryInv, IInv, SelectorAhead
    <2> QED BY <1>2, <1>4, <2>1, CameraFiles
<1>5. CASE (PowerCut \/ PowerOff) /\ pc \notin StagedPoints
    <2>0. /\ card' = disk' /\ disk'["stage2"] = card["stage2"]
          /\ disk'["selector"] = card["selector"]
        BY <1>5, CutEffects DEF StagedNames, HostNames, StagedInv, HostFilesAgree
    <2>1. CASE pc \in PassivePoints
        <3>1. card["selector"] = None /\ \E b \in Builds : kernel = FinalKernel(b)
            BY <2>1, PassiveIsBehind
        <3>2. UNCHANGED kernel
            BY <1>5, <2>1, CutEffects DEF PassivePoints, ErasePoints, ProgramPoints
        <3>3. CASE card["ok"] # None /\ card["ok"] = disk["ok"]
            <4>1. disk'["ok"] = card["ok"]
                BY <1>5, <3>3, CutEffects
            <4> QED BY <2>0, <3>1, <3>2, <3>3, <4>1 DEF GoneIsBehind
        <3>4. CASE /\ Both("bin") = {} /\ Both("ok") = {}
                   /\ DataAction[card["stage2"]] = "preserve"
            <4>1. \A f \in {"bin", "ok"} : disk'[f] \in {card[f], disk[f]}
                BY <1>5, CutEffects
            <4>2. Both("bin")' = {} /\ Both("ok")' = {}
                BY <2>0, <3>4, <4>1 DEF Both
            <4> QED BY <2>0, <3>4, <4>2 DEF GoneIsBehind
        <3> QED BY <2>1, <3>3, <3>4, PassiveIsBehind
    <2>2. CASE pc \notin PassivePoints
        <3>1. card = disk
            BY <1>5, <2>2
               DEF PowerCut, PowerOff, RecoveryInv, RInv, CardIsSynced, SyncedPoints,
                   FailureIsKnown, StagedPoints, InstallPoints, BootPoints
        <3>2. \A f \in StagedNames \cup {"bin", "ok"} : disk'[f] = card[f]
            BY <1>5, <3>1, CutEffects
        <3>3. UNCHANGED kernel \/ card["selector"] # None
            BY <1>5, CutEffects, AbsenceAssumption, BuildsAssumption
               DEF RecoveryInv, IInv, SelectorAhead, StagedPoints, PassivePoints,
                   InstallPoints, WritePoints, ErasePoints, ProgramPoints
        <3>4. \A f \in {"auth", "prov", "stage2", "bin", "ok", "selector"} :
                  disk'[f] = card[f]
            BY <3>2 DEF StagedNames, HostNames
        <3>5. Both("bin")' = Both("bin") /\ Both("ok")' = Both("ok")
            BY <2>0, <3>1, <3>4 DEF Both
        <3> QED BY <1>a, <2>0, <3>3, <3>4, <3>5 DEF GoneIsBehind, Gone
    <2> QED BY <2>1, <2>2
<1>6. CASE HostSteps
    <2>1. pc = "off" /\ card = disk /\ card' = disk' /\ UNCHANGED kernel
        BY <1>0, <1>6, HostStepShape DEF RecoveryInv, RInv, CardIsSynced, SyncedPoints
    <2>2. CASE \E b \in Builds, c \in Creds :
                 card'["prov"] = c /\ card'["auth"] = [build |-> b, cred |-> c]
        <3>1. card'["prov"] # None /\ card'["auth"] # None
            BY <2>2, AbsenceAssumption, BuildsAssumption DEF Tuples
        <3> QED BY <2>1, <3>1 DEF GoneIsBehind, Gone
    <2>3. CASE /\ card["selector"] # None \/ card["ok"] = None
               /\ \A f \in {"stage2", "prov", "auth", "bin", "ok"} : card'[f] = card[f]
        <3>1. Both("bin")' = Both("bin") /\ Both("ok")' = Both("ok")
            BY <2>1, <2>3 DEF Both
        <3> QED BY <1>a, <2>1, <2>3, <3>1 DEF GoneIsBehind, Gone
    <2>4. CASE card'["bin"] = None /\ card'["ok"] = None /\ archive' # {}
        <3>1. Both("bin")' = {} /\ Both("ok")' = {}
            BY <2>1, <2>4 DEF Both
        <3> QED BY <2>1, <2>4, <3>1 DEF GoneIsBehind
    <2> QED BY <1>0, <1>6, <2>2, <2>3, <2>4, HostStepShape
<1> QED BY <1>1, <1>3, <1>4, <1>5, <1>6 DEF Next, CameraSteps

-----------------------------------------------------------------------------
(* A backup that the NOR has left is bound by the checkpoint of this very  *)
(* run.                                                                    *)
LEMMA ExportFinds ==
    ASSUME RecoveryInv, StagedInv, pc = "export", card["bin"] # None, card["bin"] # Image
    PROVE  card["ok"] = Checkpoint(card["bin"])
<1>1. card = disk /\ card["bin"] \in Both("bin")
    BY DEF RecoveryInv, RInv, CardIsSynced, SyncedPoints, Both
<1>2. card["ok"] # None
    BY <1>1 DEF StagedInv, UnboundIsCurrent, Unbound
<1>3. card["ok"] \in Checkpoints /\ card["ok"].bin = card["bin"]
    BY <1>1, <1>2 DEF RecoveryInv, RInv, BackupIsKept
<1>4. TupleOf(card["ok"]) = run
    BY <1>2 DEF RecoveryInv, RInv, TuplesAgree, Both, InstallPoints, BackupPoints
<1>5. card["ok"] = [bin |-> card["ok"].bin, build |-> card["ok"].build,
                    cred |-> card["ok"].cred]
    BY <1>3 DEF Checkpoints
<1>6. run.build = card["ok"].build /\ run.cred = card["ok"].cred
    BY <1>4 DEF TupleOf
<1> QED BY <1>3, <1>5, <1>6 DEF Checkpoint

(* The loops, with the read-back that follows each.                        *)
LoopPoints == DataPoints \cup {"erase_system", "copy_system", "verify_system",
    "compare_data", "erase_tail", "copy_tail", "verify_tail", "erase_activation",
    "write_activation", "verify_kernel"}

(* The points of the card and of the NOR are reached by the installer.     *)
LEMMA OnlyTheInstaller ==
    ASSUME BootSteps \/ HostSteps \/ CallFails \/ PowerCut \/ PowerOff \/ ThinginoWritesData
    PROVE  pc' \notin LoopPoints \cup BackupPoints
<1> USE DEF LoopPoints, DataPoints, BackupPoints, fail, HostWrites
<1>1. CASE BootSteps
    BY <1>1 DEF BootSteps, Boot, UpdateKernel, UpdateMtd2, switch_to_thingino
<1>2. CASE HostSteps
    BY <1>2
       DEF HostSteps, stage_camera_bound_universal_install,
           handoff_camera_bound_universal_install,
           activate_staged_install_set, deactivate_staged_install_set,
           evacuate_existing_stock_backups, evacuate_with_install_inputs,
           Evacuate
<1>3. CASE CallFails \/ PowerCut \/ PowerOff \/ ThinginoWritesData
    BY <1>3 DEF CallFails, PowerCut, PowerOff, ThinginoWritesData
<1> QED BY <1>1, <1>2, <1>3

(* What is written to the card is there to be read back.                   *)
LEMMA FilesWrittenStep ==
    ASSUME RecoveryInv, StagedInv, FlowInv, Next, faults' = faults
    PROVE  FilesAreWritten'
<1> SUFFICES ASSUME pc' \in {"sync_part", "read_part", "sync_okpart", "read_okpart",
                             "validate"}
             PROVE  FilesAreWritten'
    BY DEF FilesAreWritten
<1>0. CardOK(card) /\ faults \in Nat
    BY DEF RecoveryInv, IInv, TypeOK
<1> USE DEF flash, host, ram, fail, ReadBack, Sync, FilesAreWritten, Image, Checkpoint
<1>1. CASE append_mtd_to_backup \/ write_recovery_checkpoint
    BY <1>0, <1>1
       DEF append_mtd_to_backup, write_recovery_checkpoint, WriteFile, CardOK, Files
<1>2. CASE sync_backup \/ sync_checkpoint
    BY <1>2 DEF sync_backup, sync_checkpoint, FlowInv
<1>3. CASE export_stock_userdata_backup
    BY <1>3, ExportFinds DEF export_stock_userdata_backup
<1>4. CASE \/ verify_camera_authorization \/ remove_consumed_bootstrap
           \/ sync_bootstrap \/ stock_userdata_backup_matches_current_nor
           \/ commit_backup \/ sync_backup_commit \/ readback_checkpoint
           \/ commit_checkpoint \/ sync_checkpoint_commit
           \/ validate_recovery_checkpoint \/ bind_existing_data
    BY <1>4
       DEF verify_camera_authorization, remove_consumed_bootstrap, sync_bootstrap,
           stock_userdata_backup_matches_current_nor, commit_backup,
           sync_backup_commit, readback_checkpoint, commit_checkpoint,
           sync_checkpoint_commit, validate_recovery_checkpoint,
           bind_existing_data, RenameFile, EnterWrites
<1>5. CASE FlashSteps
    BY <1>5
       DEF FlashSteps, erase_data, verify_erased, write_provisioning_to_data,
           verify_provisioning, erase_system, copy_system, verify_system,
           compare_preserved_data, erase_kernel_tail, copy_kernel_tail,
           verify_kernel_before_activation, erase_activation,
           write_activation, verify_activated_kernel,
           passivate_camera_install_files, sync_passivated,
           sync_unmount_reboot, Advance
<1> QED BY <1>1, <1>2, <1>3, <1>4, <1>5, OnlyTheInstaller
        DEF Next, CardSteps, BackupPoints

-----------------------------------------------------------------------------
(* The loops.                                                              *)
WrittenInv == DataIsWritten /\ SystemIsWritten /\ KernelIsWritten

(* The types of the regions and the bounds of the cursor.                  *)
LEMMA LoopContext ==
    ASSUME RecoveryInv, faults' = faults
    PROVE  /\ data \in [DataSpan -> Content] /\ system \in [SystemSpan -> Content]
           /\ kernel \in [KernelSpan -> Content] /\ faults \in Nat
           /\ CursorBound
BY DEF RecoveryInv, IInv, TypeOK

(* One turn of an erasing loop.                                            *)
LEMMA EraseTurn ==
    ASSUME NEW S, NEW r \in [S -> Content], NEW r2, NEW i \in S, r2 = [r EXCEPT ![i] = Blank],
           NEW low \in Int, i \in Int, \A j \in low .. i - 1 : j \in S /\ r[j] = Blank
    PROVE  /\ \A j \in low .. i : r2[j] = Blank
           /\ \A j \in S : j # i => r2[j] = r[j]
OBVIOUS

(* The data region is erased, provisioned and read back.                   *)
LEMMA DataLoops ==
    ASSUME RecoveryInv, FlowInv, faults' = faults,
           \/ erase_data \/ verify_erased \/ write_provisioning_to_data
           \/ verify_provisioning
    PROVE  WrittenInv'
<1> USE Geometry, LoopContext
        DEF FlowInv, NorUnchangedElsewhere, Advance, Outcome, CursorBound, DataSpan,
            ReadBack, fail, flash, host, ram, Initialize
<1>1. CASE erase_data
    <2>1. /\ pc = "erase_data" /\ cursor \in 1 .. DataBlocks
          /\ data' = [data EXCEPT ![cursor] = Blank]
        BY <1>1 DEF erase_data
    <2>2. \A j \in 1 .. cursor : data'[j] = Blank
        BY <2>1, EraseTurn DEF DataIsWritten, ErasedBelow
    <2>3. \/ pc' = "erase_data" /\ cursor' = cursor + 1
          \/ pc' = "verify_erased" /\ cursor = DataBlocks
        BY <1>1, <2>1 DEF erase_data
    <2> QED BY <2>1, <2>2, <2>3
            DEF WrittenInv, DataIsWritten, SystemIsWritten, KernelIsWritten, ErasedBelow
<1>2. CASE verify_erased
    <2>1. pc' \in {"write_provisioning", "failed"}
          /\ (pc' = "write_provisioning" => \A j \in 1 .. DataBlocks : data'[j] = Blank)
          /\ (pc' = "write_provisioning" => cursor' = 1)
        BY <1>2 DEF verify_erased
    <2> QED BY <2>1
            DEF WrittenInv, DataIsWritten, SystemIsWritten, KernelIsWritten,
                ProgrammedBelow
<1>3. CASE write_provisioning_to_data
    <2> DEFINE image == Provisioning(run.cred)
    <2>1. /\ pc = "write_provisioning" /\ cursor \in 1 .. DataBlocks /\ UNCHANGED run
          /\ data' = [data EXCEPT ![cursor] = Programmed(data[cursor], image[cursor])]
        BY <1>3 DEF write_provisioning_to_data
    <2>2. /\ \A j \in 1 .. cursor - 1 : data[j] = image[j]
          /\ \A j \in cursor .. DataBlocks : data[j] = Blank
        BY <2>1 DEF DataIsWritten, ProgrammedBelow
    <2> HIDE DEF image
    <2>3. /\ \A j \in 1 .. cursor : data'[j] = image[j]
          /\ \A j \in cursor + 1 .. DataBlocks : data'[j] = Blank
        <3>1. /\ cursor \in 1 .. DataBlocks /\ DataBlocks \in Int /\ cursor \in Int
              /\ cursor \in 1 .. DataBlocks
            BY <2>1
        <3>2. data'[cursor] = image[cursor]
            BY ONLY <2>1, <2>2, <3>1, LoopContext, RecoveryInv, faults' = faults
               DEF Programmed, DataSpan
        <3>3. \A j \in 1 .. DataBlocks : j # cursor => data'[j] = data[j]
            BY ONLY <2>1, LoopContext, RecoveryInv, faults' = faults
               DEF DataSpan
        <3>4. \A j \in 1 .. DataBlocks : j \in 1 .. DataBlocks
            OBVIOUS
        <3> QED BY ONLY <2>2, <3>1, <3>2, <3>3, <3>4, Geometry DEF DataSpan
    <2>4. \/ pc' = "write_provisioning" /\ cursor' = cursor + 1
          \/ pc' = "verify_provisioning" /\ cursor = DataBlocks
        BY <1>3, <2>1 DEF write_provisioning_to_data
    <2>5. CASE pc' = "write_provisioning" /\ cursor' = cursor + 1
        BY <2>1, <2>3, <2>5
           DEF WrittenInv, DataIsWritten, SystemIsWritten, KernelIsWritten,
               ProgrammedBelow, image
    <2>6. CASE pc' = "verify_provisioning" /\ cursor = DataBlocks
        <3>1. data' = image
            <4>1. data' \in [DataSpan -> {data'[j] : j \in DataSpan}]
                BY <2>1
            <4> QED BY <2>3, <2>6, <4>1 DEF image, Provisioning
        <3> QED BY <2>1, <2>6, <3>1
                DEF WrittenInv, DataIsWritten, SystemIsWritten, KernelIsWritten, image
    <2> QED BY <2>4, <2>5, <2>6
<1>4. CASE verify_provisioning
    <2>1. pc' \in {"erase_system", "failed"} /\ (pc' = "erase_system" => cursor' = 1)
          /\ UNCHANGED run
        BY <1>4 DEF verify_provisioning
    <2>2. Initialize
        BY <1>4 DEF verify_provisioning, RecoveryInv, RInv, InitializeOnly, DataPoints
    <2> QED BY <2>1, <2>2
            DEF WrittenInv, DataIsWritten, SystemIsWritten, KernelIsWritten, ErasedBelow
<1> QED BY <1>1, <1>2, <1>3, <1>4

(* The system is erased, copied and read back.                             *)
LEMMA SystemLoops ==
    ASSUME RecoveryInv, FlowInv, faults' = faults,
           \/ erase_system \/ copy_system \/ verify_system \/ compare_preserved_data
    PROVE  WrittenInv'
<1> USE Geometry, LoopContext
        DEF FlowInv, NorUnchangedElsewhere, Advance, Outcome, CursorBound, SystemSpan,
            fail, flash, host, ram, Initialize
<1>1. CASE erase_system
    <2>1. /\ pc = "erase_system" /\ cursor \in 1 .. SystemBlocks
          /\ system' = [system EXCEPT ![cursor] = Blank] /\ UNCHANGED <<run, data, held>>
        BY <1>1 DEF erase_system
    <2>2. \A j \in 1 .. cursor : system'[j] = Blank
        BY <2>1, EraseTurn DEF SystemIsWritten, ErasedBelow
    <2>3. \/ pc' = "erase_system" /\ cursor' = cursor + 1
          \/ pc' = "copy_system" /\ cursor = SystemBlocks /\ cursor' = 1
        BY <1>1, <2>1 DEF erase_system
    <2> QED BY <2>1, <2>2, <2>3
            DEF WrittenInv, DataIsWritten, SystemIsWritten, KernelIsWritten, ErasedBelow,
                ProgrammedBelow
<1>2. CASE copy_system
    <2> DEFINE image == SystemImage(run.build)
    <2>1. /\ pc = "copy_system" /\ cursor \in 1 .. SystemPayload
          /\ UNCHANGED <<run, data, held>>
          /\ system' = [system EXCEPT ![cursor] = Programmed(system[cursor], image[cursor])]
        BY <1>2 DEF copy_system
    <2>2. /\ \A j \in 1 .. cursor - 1 : system[j] = image[j]
          /\ \A j \in cursor .. SystemBlocks : system[j] = Blank
        BY <2>1 DEF SystemIsWritten, ProgrammedBelow
    <2> HIDE DEF image
    <2>3. /\ \A j \in 1 .. cursor : system'[j] = image[j]
          /\ \A j \in cursor + 1 .. SystemBlocks : system'[j] = Blank
        <3>1. /\ cursor \in 1 .. SystemBlocks /\ SystemBlocks \in Int /\ cursor \in Int
              /\ cursor \in 1 .. SystemBlocks
            BY <2>1
        <3>2. system'[cursor] = image[cursor]
            BY ONLY <2>1, <2>2, <3>1, LoopContext, RecoveryInv, faults' = faults
               DEF Programmed, SystemSpan
        <3>3. \A j \in 1 .. SystemBlocks : j # cursor => system'[j] = system[j]
            BY ONLY <2>1, LoopContext, RecoveryInv, faults' = faults
               DEF SystemSpan
        <3>4. \A j \in 1 .. SystemBlocks : j \in 1 .. SystemBlocks
            OBVIOUS
        <3> QED BY ONLY <2>2, <3>1, <3>2, <3>3, <3>4, Geometry DEF SystemSpan
    <2>4. \/ pc' = "copy_system" /\ cursor' = cursor + 1
          \/ pc' = "verify_system" /\ cursor = SystemPayload
        BY <1>2, <2>1 DEF copy_system
    <2>5. CASE pc' = "copy_system" /\ cursor' = cursor + 1
        BY <2>1, <2>3, <2>5
           DEF WrittenInv, DataIsWritten, SystemIsWritten, KernelIsWritten,
               ProgrammedBelow, image
    <2>6. CASE pc' = "verify_system" /\ cursor = SystemPayload
        <3>1. \A j \in SystemSpan : system'[j] = image[j]
            <4>1. \A j \in SystemSpan : j > SystemPayload => image[j] = Blank
                BY DEF image, SystemImage
            <4>2. \A j \in SystemSpan : j \in 1 .. cursor \/ j \in cursor + 1 .. SystemBlocks
                BY <2>1
            <4>3. \A j \in cursor + 1 .. SystemBlocks : j > SystemPayload
                BY <2>6
            <4> QED BY ONLY <2>3, <4>1, <4>2, <4>3
        <3>2. system' = image
            BY <2>1, <3>1 DEF image, SystemImage
        <3> QED BY <2>1, <2>6, <3>2
                DEF WrittenInv, DataIsWritten, SystemIsWritten, KernelIsWritten, image
    <2> QED BY <2>4, <2>5, <2>6
<1>3. CASE verify_system \/ compare_preserved_data
    <2>1. /\ pc' \in {"erase_tail", "compare_data", "failed"}
          /\ pc' = "erase_tail" => cursor' = ActivationBlocks + 1
          /\ pc' = "compare_data" => pc = "verify_system" /\ ~Initialize
          /\ UNCHANGED <<run, data, held>>
        BY <1>3 DEF verify_system, compare_preserved_data
    <2> QED BY <2>1
            DEF WrittenInv, DataIsWritten, SystemIsWritten, KernelIsWritten, ErasedBelow
<1> QED BY <1>1, <1>2, <1>3

(* The kernel, its tail first and its activation span last.                *)
LEMMA KernelLoops ==
    ASSUME RecoveryInv, FlowInv, faults' = faults,
           \/ erase_kernel_tail \/ copy_kernel_tail \/ verify_kernel_before_activation
           \/ erase_activation \/ write_activation
    PROVE  WrittenInv'
<1> USE Geometry, LoopContext
        DEF FlowInv, NorUnchangedElsewhere, Advance, Outcome, CursorBound, KernelSpan,
            ReadBack, fail, flash, host, ram
<1>1. CASE erase_kernel_tail
    <2>1. /\ pc = "erase_tail" /\ cursor \in ActivationBlocks + 1 .. KernelBlocks
          /\ kernel' = [kernel EXCEPT ![cursor] = Blank]
        BY <1>1 DEF erase_kernel_tail
    <2>2. \A j \in ActivationBlocks + 1 .. cursor : kernel'[j] = Blank
        BY <2>1, EraseTurn DEF KernelIsWritten, ErasedBelow
    <2>3. \/ pc' = "erase_tail" /\ cursor' = cursor + 1
          \/ /\ pc' = "copy_tail" /\ cursor = KernelBlocks
             /\ cursor' = ActivationBlocks + 1
        BY <1>1, <2>1 DEF erase_kernel_tail
    <2> QED BY <2>1, <2>2, <2>3
            DEF WrittenInv, DataIsWritten, SystemIsWritten, KernelIsWritten, ErasedBelow,
                ProgrammedBelow
<1>2. CASE copy_kernel_tail
    <2> DEFINE image == FinalKernel(run.build)
    <2>1. /\ pc = "copy_tail" /\ cursor \in ActivationBlocks + 1 .. KernelPayload
          /\ UNCHANGED run
          /\ kernel' = [kernel EXCEPT ![cursor] = Programmed(kernel[cursor], image[cursor])]
        BY <1>2 DEF copy_kernel_tail
    <2>2. /\ \A j \in ActivationBlocks + 1 .. cursor - 1 : kernel[j] = image[j]
          /\ \A j \in cursor .. KernelBlocks : kernel[j] = Blank
        BY <2>1 DEF KernelIsWritten, ProgrammedBelow
    <2> HIDE DEF image
    <2>3. /\ \A j \in ActivationBlocks + 1 .. cursor : kernel'[j] = image[j]
          /\ \A j \in cursor + 1 .. KernelBlocks : kernel'[j] = Blank
        <3>1. /\ cursor \in ActivationBlocks + 1 .. KernelBlocks /\ KernelBlocks \in Int /\ cursor \in Int
              /\ cursor \in 1 .. KernelBlocks
            BY <2>1
        <3>2. kernel'[cursor] = image[cursor]
            BY ONLY <2>1, <2>2, <3>1, LoopContext, RecoveryInv, faults' = faults
               DEF Programmed, KernelSpan
        <3>3. \A j \in 1 .. KernelBlocks : j # cursor => kernel'[j] = kernel[j]
            BY ONLY <2>1, LoopContext, RecoveryInv, faults' = faults
               DEF KernelSpan
        <3>4. \A j \in ActivationBlocks + 1 .. KernelBlocks : j \in 1 .. KernelBlocks
            OBVIOUS
        <3> QED BY ONLY <2>2, <3>1, <3>2, <3>3, <3>4, Geometry DEF KernelSpan
    <2>4. \/ pc' = "copy_tail" /\ cursor' = cursor + 1
          \/ pc' = "verify_tail" /\ cursor = KernelPayload
        BY <1>2, <2>1 DEF copy_kernel_tail
    <2>5. CASE pc' = "copy_tail" /\ cursor' = cursor + 1
        BY <2>1, <2>3, <2>5
           DEF WrittenInv, DataIsWritten, SystemIsWritten, KernelIsWritten,
               ProgrammedBelow, image
    <2>6. CASE pc' = "verify_tail" /\ cursor = KernelPayload
        <3>1. \A j \in KernelSpan : j > ActivationBlocks => kernel'[j] = image[j]
            <4>1. \A j \in KernelSpan : j > KernelPayload => image[j] = Blank
                BY DEF image, FinalKernel
            <4>2. \A j \in KernelSpan : j > ActivationBlocks =>
                      \/ j \in ActivationBlocks + 1 .. cursor
                      \/ j \in cursor + 1 .. KernelBlocks
                BY <2>1
            <4>3. \A j \in cursor + 1 .. KernelBlocks : j > KernelPayload
                BY <2>6
            <4> QED BY ONLY <2>3, <4>1, <4>2, <4>3
        <3> QED BY <2>1, <2>6, <3>1
                DEF WrittenInv, DataIsWritten, SystemIsWritten, KernelIsWritten,
                    TailIsFinal, image
    <2> QED BY <2>4, <2>5, <2>6
<1>3. CASE verify_kernel_before_activation
    <2>1. /\ pc' \in {"erase_activation", "failed"} /\ UNCHANGED <<run, kernel>>
          /\ pc = "verify_tail" /\ (pc' = "erase_activation" => cursor' = 1)
        BY <1>3 DEF verify_kernel_before_activation
    <2> QED BY <2>1
            DEF WrittenInv, DataIsWritten, SystemIsWritten, KernelIsWritten,
                TailIsFinal, ErasedBelow
<1>4. CASE erase_activation
    <2>1. /\ pc = "erase_activation" /\ cursor \in 1 .. ActivationBlocks
          /\ kernel' = [kernel EXCEPT ![cursor] = Blank] /\ UNCHANGED run
        BY <1>4 DEF erase_activation
    <2>2. /\ \A j \in 1 .. cursor : kernel'[j] = Blank
          /\ \A j \in KernelSpan : j # cursor => kernel'[j] = kernel[j]
        BY <2>1, EraseTurn DEF KernelIsWritten, ErasedBelow
    <2>3. \/ pc' = "erase_activation" /\ cursor' = cursor + 1
          \/ /\ pc' = "write_activation" /\ cursor = ActivationBlocks /\ cursor' = 1
        BY <1>4, <2>1 DEF erase_activation
    <2>4. TailIsFinal'
        BY <2>1, <2>2 DEF KernelIsWritten, TailIsFinal
    <2> QED BY <2>1, <2>2, <2>3, <2>4
            DEF WrittenInv, DataIsWritten, SystemIsWritten, KernelIsWritten, ErasedBelow,
                ProgrammedBelow
<1>5. CASE write_activation
    <2> DEFINE image == FinalKernel(run.build)
    <2>1. /\ pc = "write_activation" /\ cursor \in 1 .. ActivationBlocks /\ UNCHANGED run
          /\ kernel' = [kernel EXCEPT ![cursor] = Programmed(kernel[cursor], image[cursor])]
        BY <1>5 DEF write_activation
    <2>2. /\ \A j \in 1 .. cursor - 1 : kernel[j] = image[j]
          /\ \A j \in cursor .. ActivationBlocks : kernel[j] = Blank
          /\ \A j \in KernelSpan : j > ActivationBlocks => kernel[j] = image[j]
        BY <2>1 DEF KernelIsWritten, ProgrammedBelow, TailIsFinal
    <2> HIDE DEF image
    <2>3. /\ \A j \in 1 .. cursor : kernel'[j] = image[j]
          /\ \A j \in cursor + 1 .. ActivationBlocks : kernel'[j] = Blank
          /\ \A j \in KernelSpan : j # cursor => kernel'[j] = kernel[j]
        <3>1. /\ cursor \in 1 .. ActivationBlocks /\ ActivationBlocks \in Int /\ cursor \in Int
              /\ cursor \in 1 .. KernelBlocks
            BY <2>1
        <3>2. kernel'[cursor] = image[cursor]
            BY ONLY <2>1, <2>2, <3>1, LoopContext, RecoveryInv, faults' = faults
               DEF Programmed, KernelSpan
        <3>3. \A j \in 1 .. KernelBlocks : j # cursor => kernel'[j] = kernel[j]
            BY ONLY <2>1, LoopContext, RecoveryInv, faults' = faults
               DEF KernelSpan
        <3>4. \A j \in 1 .. ActivationBlocks : j \in 1 .. KernelBlocks
            OBVIOUS
        <3> QED BY ONLY <2>2, <3>1, <3>2, <3>3, <3>4, Geometry DEF KernelSpan
    <2>4. \/ pc' = "write_activation" /\ cursor' = cursor + 1
          \/ pc' = "verify_kernel" /\ cursor = ActivationBlocks
        BY <1>5, <2>1 DEF write_activation
    <2>5. \A j \in KernelSpan : j > ActivationBlocks => kernel'[j] = image[j]
        BY <2>1, <2>2, <2>3
    <2>6. CASE pc' = "write_activation" /\ cursor' = cursor + 1
        BY <2>1, <2>3, <2>5, <2>6
           DEF WrittenInv, DataIsWritten, SystemIsWritten, KernelIsWritten,
               ProgrammedBelow, TailIsFinal, image
    <2>7. CASE pc' = "verify_kernel" /\ cursor = ActivationBlocks
        <3>1. \A j \in KernelSpan : kernel'[j] = image[j]
            BY <2>3, <2>5, <2>7
        <3>2. kernel' = image
            BY <2>1, <3>1 DEF image, FinalKernel
        <3> QED BY <2>1, <2>7, <3>2
                DEF WrittenInv, DataIsWritten, SystemIsWritten, KernelIsWritten, image
    <2> QED BY <2>4, <2>6, <2>7
<1> QED BY <1>1, <1>2, <1>3, <1>4, <1>5

(* Every other step leaves the loops, or enters one at its first block.    *)
LEMMA WrittenStep ==
    ASSUME RecoveryInv, FlowInv, Next, faults' = faults
    PROVE  WrittenInv'
<1>1. ASSUME pc' \notin LoopPoints PROVE WrittenInv'
    BY <1>1
       DEF LoopPoints, DataPoints, WrittenInv, DataIsWritten, SystemIsWritten,
           KernelIsWritten
<1>2. CASE CardSteps
    <2>1. CASE sync_checkpoint_commit \/ validate_recovery_checkpoint
        <3>1. pc' \in {"erase_data", "failed"} /\ (pc' = "erase_data" => cursor' = 1)
            BY <2>1
               DEF sync_checkpoint_commit, validate_recovery_checkpoint, EnterWrites,
                   fail
        <3> QED BY <3>1
                DEF WrittenInv, DataIsWritten, SystemIsWritten, KernelIsWritten,
                    ErasedBelow
    <2>2. CASE bind_existing_data
        <3>1. pc' = "erase_system" /\ cursor' = 1 /\ held' = data /\ data' = data
            BY <2>2 DEF bind_existing_data, EnterWrites, flash
        <3> QED BY <3>1
                DEF WrittenInv, DataIsWritten, SystemIsWritten, KernelIsWritten,
                    ErasedBelow
    <2>3. CASE ~(\/ sync_checkpoint_commit \/ validate_recovery_checkpoint
                 \/ bind_existing_data)
        <3>1. pc' \notin LoopPoints
            BY <1>2, <2>3
               DEF CardSteps, verify_camera_authorization, remove_consumed_bootstrap,
                   sync_bootstrap, export_stock_userdata_backup, append_mtd_to_backup,
                   sync_backup, stock_userdata_backup_matches_current_nor,
                   commit_backup, sync_backup_commit, write_recovery_checkpoint,
                   sync_checkpoint, readback_checkpoint, commit_checkpoint,
                   WriteFile, RenameFile, ReadBack, Sync, fail, LoopPoints, DataPoints
        <3> QED BY <1>1, <3>1
    <2> QED BY <2>1, <2>2, <2>3
<1>3. CASE FlashSteps
    <2>1. CASE \/ verify_activated_kernel \/ passivate_camera_install_files
               \/ sync_passivated \/ sync_unmount_reboot
        <3>1. pc' \notin LoopPoints
            BY <2>1
               DEF verify_activated_kernel, passivate_camera_install_files,
                   sync_passivated, sync_unmount_reboot, ReadBack, fail, LoopPoints,
                   DataPoints
        <3> QED BY <1>1, <3>1
    <2> QED BY <1>3, <2>1, DataLoops, SystemLoops, KernelLoops DEF FlashSteps
<1>4. CASE \/ BootSteps \/ HostSteps \/ CallFails \/ PowerCut \/ PowerOff
           \/ ThinginoWritesData
    BY <1>1, <1>4, OnlyTheInstaller
<1> QED BY <1>2, <1>3, <1>4 DEF Next

-----------------------------------------------------------------------------
(* Where a step fails, and what it then has found.                         *)
LEMMA WhereItFails ==
    ASSUME Next, pc' = "failed", faults' = faults, faults \in Nat
    PROVE  /\ UNCHANGED <<mtd2, card, disk>>
           /\ \/ verify_camera_authorization
              \/ pc = "read_part" /\ card["part"] # Image
              \/ pc = "read_okpart" /\ card["okpart"] # Checkpoint(card["bin"])
              \/ pc = "validate" /\ card["ok"] # Checkpoint(card["bin"])
              \/ pc = "verify_erased" /\ ~(\A i \in DataSpan : data[i] = Blank)
              \/ pc = "verify_provisioning" /\ data # Provisioning(run.cred)
              \/ pc = "verify_system" /\ system # SystemImage(run.build)
              \/ pc = "compare_data" /\ data # held
              \/ pc = "verify_tail" /\ ~TailIsFinal
              \/ pc = "verify_kernel" /\ kernel # FinalKernel(run.build)
              \/ /\ pc = "switch_root"
                 /\ ~(kernel = FinalKernel(mtd2) /\ system = SystemImage(mtd2))
<1> USE DEF fail, ReadBack, flash, TailIsFinal
<1>1. CASE CardSteps
    <2>1. CASE \/ verify_camera_authorization
               \/ stock_userdata_backup_matches_current_nor \/ readback_checkpoint
               \/ validate_recovery_checkpoint
        BY <2>1
           DEF verify_camera_authorization, readback_checkpoint,
               stock_userdata_backup_matches_current_nor,
               validate_recovery_checkpoint, EnterWrites
    <2>2. CASE \/ remove_consumed_bootstrap \/ sync_bootstrap
               \/ export_stock_userdata_backup \/ append_mtd_to_backup \/ sync_backup
               \/ commit_backup \/ sync_backup_commit \/ write_recovery_checkpoint
               \/ sync_checkpoint \/ commit_checkpoint \/ sync_checkpoint_commit
               \/ bind_existing_data
        BY <2>2
           DEF remove_consumed_bootstrap, sync_bootstrap,
               export_stock_userdata_backup, append_mtd_to_backup,
               sync_backup, commit_backup, sync_backup_commit,
               write_recovery_checkpoint, sync_checkpoint, commit_checkpoint,
               sync_checkpoint_commit, bind_existing_data, WriteFile, RenameFile,
               Sync, EnterWrites
    <2> QED BY <1>1, <2>1, <2>2 DEF CardSteps
<1>2. CASE FlashSteps
    BY <1>2
       DEF FlashSteps, erase_data, verify_erased, write_provisioning_to_data,
           verify_provisioning, erase_system, copy_system, verify_system,
           compare_preserved_data, erase_kernel_tail, copy_kernel_tail,
           verify_kernel_before_activation, erase_activation,
           write_activation, verify_activated_kernel,
           passivate_camera_install_files, sync_passivated,
           sync_unmount_reboot, Advance
<1>3. CASE BootSteps
    BY <1>3 DEF BootSteps, Boot, UpdateKernel, UpdateMtd2, switch_to_thingino
<1>4. CASE HostSteps
    BY <1>4
       DEF HostSteps, stage_camera_bound_universal_install,
           handoff_camera_bound_universal_install,
           activate_staged_install_set, deactivate_staged_install_set,
           evacuate_existing_stock_backups, evacuate_with_install_inputs,
           Evacuate, HostWrites
<1>5. CASE CallFails \/ ThinginoWritesData \/ PowerCut \/ PowerOff
    BY <1>5 DEF CallFails, ThinginoWritesData, PowerCut, PowerOff
<1> QED BY <1>1, <1>2, <1>3, <1>4, <1>5 DEF Next

(* A step that does not fail leaves no code behind.                        *)
LEMMA FailuresFollow ==
    ASSUME Next, pc' # "failed", pc # "failed" => failure = "none"
    PROVE  failure' = "none"
<1> USE DEF fail, ReadBack, Sync, WriteFile, RenameFile, NorUnchangedElsewhere
<1>1. CASE CardSteps
    BY <1>1
       DEF CardSteps, verify_camera_authorization, remove_consumed_bootstrap,
           sync_bootstrap, export_stock_userdata_backup, append_mtd_to_backup,
           sync_backup, stock_userdata_backup_matches_current_nor,
           commit_backup, sync_backup_commit, write_recovery_checkpoint,
           sync_checkpoint, readback_checkpoint, commit_checkpoint,
           sync_checkpoint_commit, validate_recovery_checkpoint,
           bind_existing_data
<1>2. CASE FlashSteps
    BY <1>2
       DEF FlashSteps, erase_data, verify_erased, write_provisioning_to_data,
           verify_provisioning, erase_system, copy_system, verify_system,
           compare_preserved_data, erase_kernel_tail, copy_kernel_tail,
           verify_kernel_before_activation, erase_activation,
           write_activation, verify_activated_kernel,
           passivate_camera_install_files, sync_passivated,
           sync_unmount_reboot
<1>3. CASE BootSteps
    BY <1>3 DEF BootSteps, Boot, UpdateKernel, UpdateMtd2, switch_to_thingino
<1>4. CASE HostSteps
    BY <1>4
       DEF HostSteps, stage_camera_bound_universal_install,
           handoff_camera_bound_universal_install,
           activate_staged_install_set, deactivate_staged_install_set,
           evacuate_existing_stock_backups, evacuate_with_install_inputs,
           Evacuate, HostWrites
<1>5. CASE CallFails \/ ThinginoWritesData \/ PowerCut \/ PowerOff
    BY <1>5 DEF CallFails, ThinginoWritesData, PowerCut, PowerOff
<1> QED BY <1>1, <1>2, <1>3, <1>4, <1>5 DEF Next

(* The camera files that a snapshot refuses.                               *)
LEMMA SnapshotRefuses ==
    ASSUME RecoveryInv, StagedInv, FlowInv, verify_camera_authorization, pc' = "failed"
    PROVE  /\ card["bin"] = None /\ card["ok"] = None
           /\ \/ failure' = "camera_authorization_missing" /\ card["auth"] = None
              \/ failure' = "provisioning" /\ card["prov"] = None
           /\ DataAction[mtd2] = "initialize" => archive # {}
<1>1. pc = "snapshot"
    BY DEF verify_camera_authorization
<1>2. card["selector"] = None /\ card["stage2"] = mtd2
    BY <1>1 DEF StagedInv, HostFilesAgree, InstallPoints
<1>3. card["auth"] # None =>
         /\ card["auth"].build = mtd2
         /\ card["prov"] # None => card["prov"] = card["auth"].cred
    BY <1>2 DEF StagedInv, CameraFilesAgree, Both
<1>4. \A b \in Builds : kernel # FinalKernel(b)
    BY <1>1, InstallerIsNotFinal
       DEF RecoveryInv, IInv, InstallerAhead, InstallPoints, ActivationPoints
<1>5. \/ failure' = "camera_authorization_missing" /\ card["auth"] = None
      \/ failure' = "provisioning" /\ card["prov"] = None
    BY <1>2, <1>3 DEF verify_camera_authorization, fail
<1>6. Gone(card) /\ card["stage2"] # None
    BY <1>1, <1>2, <1>5 DEF Gone, StagedInv, HostFilesAgree, InstallPoints
<1>7. /\ Both("bin") = {} /\ Both("ok") = {}
      /\ DataAction[card["stage2"]] = "initialize" => archive # {}
    BY <1>4, <1>6 DEF FlowInv, GoneIsBehind
<1> QED BY <1>2, <1>5, <1>7 DEF Both

(* Every read-back finds what was written.                                 *)
LEMMA FailureStep ==
    ASSUME RecoveryInv, StagedInv, FlowInv, Next, faults' = faults
    PROVE  FailureIsKnown'
<1>1. CASE pc' # "failed"
    BY <1>1, FailuresFollow DEF FlowInv, FailureIsKnown
<1>2. CASE pc' = "failed"
    <2>0. faults \in Nat
        BY DEF RecoveryInv, IInv, TypeOK
    <2>1. UNCHANGED <<mtd2, card, disk>>
        BY <1>2, <2>0, WhereItFails
    <2>2. verify_camera_authorization
        <3>1. ~(\/ pc = "read_part" /\ card["part"] # Image
                \/ pc = "read_okpart" /\ card["okpart"] # Checkpoint(card["bin"])
                \/ pc = "validate" /\ card["ok"] # Checkpoint(card["bin"]))
            BY DEF FlowInv, FilesAreWritten
        <3>2. ~(\/ pc = "verify_erased" /\ ~(\A i \in DataSpan : data[i] = Blank)
                \/ pc = "verify_provisioning" /\ data # Provisioning(run.cred)
                \/ pc = "compare_data" /\ data # held)
            BY DEF FlowInv, DataIsWritten
        <3>3. ~(\/ pc = "verify_system" /\ system # SystemImage(run.build)
                \/ pc = "verify_tail" /\ ~TailIsFinal
                \/ pc = "verify_kernel" /\ kernel # FinalKernel(run.build))
            BY DEF FlowInv, SystemIsWritten, KernelIsWritten
        <3>4. pc = "switch_root" =>
                  kernel = FinalKernel(mtd2) /\ system = SystemImage(mtd2)
            BY DEF StagedInv, KernelIsVerified, RecoveryInv, IInv,
                   ActivatedBuildIsComplete
        <3> QED BY <1>2, <2>0, <3>1, <3>2, <3>3, <3>4, WhereItFails
    <2>3. card = disk
        BY <2>2
           DEF verify_camera_authorization, RecoveryInv, RInv, CardIsSynced,
               SyncedPoints
    <2>4. archive' = archive
        BY <2>2 DEF verify_camera_authorization, fail, host
    <2> QED BY <1>2, <2>1, <2>2, <2>3, <2>4, SnapshotRefuses DEF FailureIsKnown
<1> QED BY <1>1, <1>2

(* While nothing has failed, the flow is kept.                             *)
LEMMA FlowStep ==
    ASSUME RecoveryInv, StagedInv, StagedInv', FlowInv, [Next]_vars, faults' = faults
    PROVE  FlowInv'
<1>1. CASE Next
    BY <1>1, GoneStep, FilesWrittenStep, WrittenStep, FailureStep
       DEF FlowInv, WrittenInv
<1>2. CASE UNCHANGED vars
    BY <1>2
       DEF vars, FlowInv, GoneIsBehind, Gone, Both, FilesAreWritten, Image, Checkpoint,
           DataIsWritten, ErasedBelow, ProgrammedBelow, Initialize,
           SystemIsWritten, KernelIsWritten, TailIsFinal, FailureIsKnown
<1> QED BY <1>1, <1>2

(* A retry that has met no fault finds what the first attempt left it.     *)
LEMMA RetryStep == RetryInv /\ [Next]_vars => RetryInv'
<1> SUFFICES ASSUME RetryInv, [Next]_vars PROVE RetryInv'
    OBVIOUS
<1>1. RecoveryInv'
    BY StepRecovery DEF RetryInv
<1>2. StagedInv'
    BY <1>1, StagedStep DEF RetryInv
<1>3. ASSUME faults' = MaxFaults PROVE FlowInv'
    <2>1. faults = MaxFaults
        BY <1>3, FaultsStay DEF RetryInv, RecoveryInv
    <2> QED BY <1>2, <1>3, <2>1, FlowStep DEF RetryInv
<1> QED BY <1>1, <1>2, <1>3 DEF RetryInv

(* A camera as it is delivered.                                            *)
LEMMA InitRetry == Init => RetryInv
<1> SUFFICES ASSUME Init PROVE RetryInv
    OBVIOUS
<1>1. RecoveryInv
    BY InitInvariant, InitRecovery DEF RecoveryInv
<1>2. StagedInv
    BY DEF Init, EmptyCard, Files, StagedInv, HostFilesAgree, CameraFilesAgree,
           CheckpointIsStaged, RunIsStaged, UnboundIsCurrent, KernelIsVerified, Both, InstallPoints,
           BackupPoints, WritePoints, ErasePoints, ProgramPoints, PassivePoints
<1>3. FlowInv
    BY DEF Init, EmptyCard, Files, FlowInv, GoneIsBehind, Gone, FilesAreWritten,
           DataIsWritten, SystemIsWritten, KernelIsWritten, FailureIsKnown
<1> QED BY <1>1, <1>2, <1>3 DEF RetryInv

(* The third invariant holds in every behaviour.                           *)
THEOREM RetryInvariance == Spec => []RetryInv
<1>1. Init => RetryInv
    BY InitRetry
<1>2. RetryInv /\ [Next]_vars => RetryInv'
    BY RetryStep
<1> QED BY <1>1, <1>2, PTL DEF Spec

(* Without a fault, no sequence of cuts, retries, restagings, evacuations   *)
(* and activations leads Stage 1 to refuse a card that holds a backup or a  *)
(* checkpoint (every die in init.c that follows a read-back), and one that  *)
(* holds neither is only refused for a camera file that is gone.            *)
THEOREM RetriesAreAdmitted == Spec => []CutsNeverStrand
<1>1. RetryInv => CutsNeverStrand
    BY DEF RetryInv, FlowInv, FailureIsKnown, CutsNeverStrand
<1> QED BY <1>1, RetryInvariance, PTL
=============================================================================
