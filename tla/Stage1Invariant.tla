-------------------------- MODULE Stage1Invariant --------------------------
(***************************************************************************)
(* The inductive invariant behind the safety properties of Stage1: what    *)
(* each point of the installer may rely on.  TLC checks that it holds, the *)
(* proofs of Stage1Proofs that it is inductive.                            *)
(***************************************************************************)
EXTENDS Stage1

(* The RAM snapshot is taken once and is of the build running from mtd2.   *)
RunBound ==
    pc \in InstallPoints \ {"snapshot"} => run \in Tuples /\ run.build = mtd2

(* The updater runs only while the selector it flashes is on the card.     *)
SelectorAhead == pc \in {"update_kernel", "update_mtd2"} =>
    card["selector"] \in Builds

(* The backup protocol: each rename and each write finds what the step     *)
(* before it verified.                                                     *)
BackupAhead ==
    /\ pc = "rename_bin" => card["part"] \in Images
    /\ pc \in {"sync_bin", "write_okpart", "sync_okpart", "read_okpart",
               "rename_ok", "sync_ok", "validate"} => card["bin"] \in Images
    /\ pc = "rename_ok" => card["okpart"] \in Checkpoints

(* The cursor stays in the part of the region its loop covers.             *)
CursorBound ==
    /\ pc \in {"verify_erased", "verify_provisioning", "verify_tail"} =>
          cursor = 1
    /\ pc \in {"erase_data", "write_provisioning"} => cursor \in DataSpan
    /\ pc = "erase_system" => cursor \in SystemSpan
    /\ pc = "copy_system" => cursor \in 1 .. SystemPayload
    /\ pc = "erase_tail" => cursor \in (ActivationBlocks + 1) .. KernelBlocks
    /\ pc = "copy_tail" => cursor \in (ActivationBlocks + 1) .. KernelPayload
    /\ pc \in {"erase_activation", "write_activation"} =>
          cursor \in 1 .. ActivationBlocks

ActivationPoints == {"erase_activation", "write_activation", "verify_kernel",
                     "passivate", "sync_passivated", "final_sync"}
KernelPoints == {"compare_data", "erase_tail", "copy_tail", "verify_tail"}
                \cup ActivationPoints

(* Up to the activation span's erase, mtd1 still starts with an installer. *)
InstallerAhead ==
    pc \in (InstallPoints \ ActivationPoints) \cup {"update_mtd2", "updated"}
        => \E b \in Builds : kernel[1] = Block("installer", b)

(* The kernel is only reached with the system complete, and its activation *)
(* span only with the tail of the same build behind it.                    *)
SystemAhead ==
    /\ pc \in KernelPoints => system = SystemImage(run.build)
    /\ pc \in ActivationPoints =>
          kernel[ActivationBlocks + 1] = Block("kernel", run.build)

IInv == /\ TypeOK
        /\ RunBound
        /\ SelectorAhead
        /\ BackupAhead
        /\ CursorBound
        /\ InstallerAhead
        /\ SystemAhead
        /\ ActivatedBuildIsComplete
=============================================================================
