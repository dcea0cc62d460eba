-------------------------- MODULE Stage1Recovery --------------------------
(***************************************************************************)
(* The second inductive invariant of Stage1, on top of the first: how the  *)
(* two committed files of the card, the camera files, the NOR and the host *)
(* archives stand to each other at every point.  What a retry, and the way *)
(* back to stock, find after any cut or fault follows from it.             *)
(***************************************************************************)
EXTENDS Stage1Invariant

TupleOf(ok) == [build |-> ok.build, cred |-> ok.cred]
Both(f) == {card[f], disk[f]} \ {None}

(* Until the installer changes a file, and whenever it does not run, the   *)
(* card is as it is on the medium.                                         *)
SyncedPoints == {"off", "stock", "dead", "thingino", "snapshot",
                 "unlink_bootstrap", "export", "create", "validate",
                 "bind_data"} \cup BootPoints
CardIsSynced == pc \in SyncedPoints => card = disk

(* The backup that is committed is never written over, and a checkpoint    *)
(* is only there with the backup it binds, which was durable before it.    *)
BackupIsKept ==
    /\ disk["bin"] # None => card["bin"] = disk["bin"]
    /\ \A c \in {card, disk} : c["ok"] # None =>
          /\ disk["bin"] # None
          /\ c["ok"] \in Checkpoints /\ c["ok"].bin = disk["bin"]

(* The backup protocol, with what each of its steps has verified.          *)
BackupIsCurrent ==
    /\ pc \in {"create", "sync_part", "read_part", "rename_bin"} =>
          card["bin"] = None /\ disk["bin"] = None
    /\ pc = "rename_bin" => card["part"] = Image
    /\ pc \in {"sync_bin", "write_okpart", "sync_okpart", "read_okpart",
               "rename_ok", "sync_ok"} => card["bin"] = Image
    /\ pc \in {"write_okpart", "sync_okpart", "read_okpart", "rename_ok",
               "sync_ok"} => disk["bin"] = card["bin"]
    /\ pc \in {"write_okpart", "sync_okpart", "read_okpart", "rename_ok"} =>
          disk["ok"] = card["ok"]
    /\ pc = "rename_ok" => card["okpart"] = Checkpoint(card["bin"])
    /\ pc = "sync_ok" => card["ok"] = Checkpoint(card["bin"])

DataPoints == {"erase_data", "verify_erased", "write_provisioning",
               "verify_provisioning"}
InitializeOnly ==
    /\ pc \in BackupPoints \cup DataPoints => Initialize
    /\ pc = "bind_data" => ~Initialize

(* While the NOR is written, the committed files are the ones that were    *)
(* checked before the first erase.                                         *)
FilesAreSettled ==
    pc \in WritePoints =>
        /\ card["bin"] = disk["bin"] /\ card["ok"] = disk["ok"]
        /\ Initialize => /\ disk["bin"] \in Images
                         /\ disk["ok"] = Checkpoint(disk["bin"])

(* One build and one set of credentials: those of the camera files and of  *)
(* the run are the ones that a checkpoint on the card binds.               *)
TuplesAgree ==
    /\ \A a \in Both("auth"), o \in Both("ok") : a = TupleOf(o)
    /\ pc \in InstallPoints \ {"snapshot"} =>
          /\ Both("auth") \subseteq {run}
          /\ \A o \in Both("ok") : TupleOf(o) = run

Attributed(o) ==
    /\ \A i \in SystemSpan :
          system[i] \in {o.bin.system[i], Blank, Damaged, SystemImage(o.build)[i]}
    /\ \A i \in DataSpan :
          data[i] \in {o.bin.data[i], Blank, Damaged, User, Provisioning(o.cred)[i]}
NorIsAttributed == \A o \in Both("ok") : Attributed(o)

(* The data region, from the end of its verification on.                   *)
DataIsProvisioned ==
    pc \in {"erase_system", "copy_system", "verify_system"} \cup KernelPoints
        /\ Initialize => data = Provisioning(run.cred)

(* Thingino runs from a kernel that Stage 1 verified.                      *)
ThinginoIsWhole ==
    /\ pc = "switch_root" => mtd2 \in Builds
    /\ pc = "thingino" => \E b \in Builds : kernel = FinalKernel(b)

(* A backup taken of the stock content is of it, and once the content is   *)
(* not stock any more that backup is on the medium or in an archive.       *)
StockIsKept ==
    /\ Image = StockImage => Both("bin") \subseteq {StockImage}
    /\ (\A b \in Builds : DataAction[b] = "initialize") =>
          Image = StockImage \/ disk["bin"] = StockImage \/ StockImage \in archive

RInv ==
    /\ CardIsSynced /\ BackupIsKept /\ BackupIsCurrent /\ InitializeOnly
    /\ FilesAreSettled /\ TuplesAgree /\ NorIsAttributed
    /\ DataIsProvisioned /\ ActivatedDataIsProvisioned
    /\ ThinginoIsWhole /\ StockIsKept

RecoveryInv == IInv /\ RInv
=============================================================================
