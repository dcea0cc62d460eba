---------------------------- MODULE Stage1Retry ----------------------------
(***************************************************************************)
(* The third inductive invariant of Stage1, on top of the other two: what  *)
(* the host commands leave consistent, and what each loop of the installer *)
(* has done while nothing has failed.  That no cut leaves a state which a  *)
(* retry refuses follows from it.                                          *)
(***************************************************************************)
EXTENDS Stage1Recovery

(* The files that only the host changes are one build's, and a card        *)
(* without a selector is for the build that is in mtd2.  Stage 1 is one     *)
(* that was installed, and finds its selector consumed.                    *)
HostFilesAgree ==
    /\ \A f \in {"selector", "passive", "stage2"} : card[f] = disk[f]
    /\ {card["selector"], card["passive"]} \subseteq {None, card["stage2"]}
    /\ card["selector"] = None => card["stage2"] = mtd2
    /\ pc \in InstallPoints => card["selector"] = None /\ mtd2 # None

(* The camera files are of that build and of each other.                   *)
CameraFilesAgree ==
    \A a \in Both("auth") :
        /\ a.build = card["stage2"]
        /\ \A p \in Both("prov") : p = a.cred

(* A checkpoint is of that build too, and of one that initializes.         *)
CheckpointIsStaged ==
    \A o \in Both("ok") :
        o.build = card["stage2"] /\ DataAction[o.build] = "initialize"

(* From the snapshot to the passivation they are the run's, on the medium  *)
(* too.                                                                    *)
PassivePoints == {"sync_passivated", "final_sync"}
RunIsStaged ==
    pc \in InstallPoints \ ({"snapshot"} \cup PassivePoints) =>
        \A c \in {card, disk} : c["auth"] = run /\ c["prov"] = run.cred

(* A backup without a checkpoint is what the NOR still holds, taken by an  *)
(* initialize install which has not ended.                                 *)
Unbound == card["ok"] = None \/ disk["ok"] = None
UnboundIsCurrent ==
    Unbound /\ Both("bin") # {} =>
        /\ Both("bin") \subseteq {Image}
        /\ card["auth"] # None /\ disk["auth"] # None
        /\ DataAction[card["stage2"]] = "initialize"
        /\ \A b \in Builds : kernel # FinalKernel(b)

(* The camera files are removed under a verified kernel, and the read-only *)
(* boot starts from a whole one.                                           *)
KernelIsVerified ==
    /\ pc \in {"passivate"} \cup PassivePoints => kernel = FinalKernel(run.build)
    /\ pc = "switch_root" => \E b \in Builds : kernel = FinalKernel(b)

StagedInv ==
    /\ HostFilesAgree /\ CameraFilesAgree /\ CheckpointIsStaged /\ RunIsStaged
    /\ UnboundIsCurrent /\ KernelIsVerified

-----------------------------------------------------------------------------
(* While nothing has failed.  A camera file that was there is missing only *)
(* where an install passivated the card: its kernel boots and, behind an   *)
(* initialize build, its checkpoint refuses to activate the set again; or  *)
(* neither is on the card any more, since the build takes no backup or     *)
(* the operator evacuated it.                                              *)
Gone(c) == c["auth"] = None \/ c["prov"] = None
GoneIsBehind ==
    \A c \in {card, disk} : Gone(c) /\ c["stage2"] # None =>
        \/ Both("bin") = {} /\ Both("ok") = {}
           /\ (DataAction[c["stage2"]] = "initialize" => archive # {})
        \/ /\ c["ok"] # None /\ c["selector"] = None
           /\ \E b \in Builds : kernel = FinalKernel(b)

(* What was written to the card is there.                                  *)
FilesAreWritten ==
    /\ pc \in {"sync_part", "read_part"} => card["part"] = Image
    /\ pc \in {"sync_okpart", "read_okpart"} =>
          card["okpart"] = Checkpoint(card["bin"])
    /\ pc = "validate" => card["ok"] = Checkpoint(card["bin"])

(* What the loops over the NOR have done, block by block.                  *)
ErasedBelow(region, first) == \A i \in first .. cursor - 1 : region[i] = Blank
ProgrammedBelow(region, image, first, last) ==
    /\ \A i \in first .. cursor - 1 : region[i] = image[i]
    /\ \A i \in cursor .. last : region[i] = Blank

DataIsWritten ==
    /\ pc = "erase_data" => ErasedBelow(data, 1)
    /\ pc = "verify_erased" => \A i \in DataSpan : data[i] = Blank
    /\ pc = "write_provisioning" =>
          ProgrammedBelow(data, Provisioning(run.cred), 1, DataBlocks)
    /\ pc = "verify_provisioning" => data = Provisioning(run.cred)
    /\ pc \in {"erase_system", "copy_system", "verify_system", "compare_data"}
          /\ ~Initialize => data = held
    /\ pc = "compare_data" => ~Initialize

SystemIsWritten ==
    /\ pc = "erase_system" => ErasedBelow(system, 1)
    /\ pc = "copy_system" =>
          ProgrammedBelow(system, SystemImage(run.build), 1, SystemBlocks)
    /\ pc = "verify_system" => system = SystemImage(run.build)

TailIsFinal ==
    \A i \in KernelSpan : i > ActivationBlocks => kernel[i] = FinalKernel(run.build)[i]
KernelIsWritten ==
    /\ pc = "erase_tail" => ErasedBelow(kernel, ActivationBlocks + 1)
    /\ pc = "copy_tail" =>
          ProgrammedBelow(kernel, FinalKernel(run.build), ActivationBlocks + 1,
                          KernelBlocks)
    /\ pc \in {"verify_tail", "erase_activation", "write_activation"} => TailIsFinal
    /\ pc = "erase_activation" => ErasedBelow(kernel, 1)
    /\ pc = "write_activation" =>
          ProgrammedBelow(kernel, FinalKernel(run.build), 1, ActivationBlocks)
    /\ pc = "verify_kernel" => kernel = FinalKernel(run.build)

(* Stage 1 fails where it has changed nothing, for want of a camera file   *)
(* and on a card without backup and checkpoint.                            *)
FailureIsKnown ==
    /\ pc # "failed" => failure = "none"
    /\ pc = "failed" =>
          /\ card = disk
          /\ card["bin"] = None /\ card["ok"] = None
          /\ \/ failure = "camera_authorization_missing" /\ card["auth"] = None
             \/ failure = "provisioning" /\ card["prov"] = None
          /\ DataAction[mtd2] = "initialize" => archive # {}

FlowInv ==
    /\ GoneIsBehind /\ FilesAreWritten /\ DataIsWritten /\ SystemIsWritten
    /\ KernelIsWritten /\ FailureIsKnown

RetryInv == RecoveryInv /\ StagedInv /\ (faults = MaxFaults => FlowInv)
=============================================================================
