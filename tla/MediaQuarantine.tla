--------------------------- MODULE MediaQuarantine ---------------------------
(***************************************************************************)
(* Clearing a card whose checkpoint names another build than the one that  *)
(* lies beside it: the host archives the card's whole tree, records that   *)
(* in a receipt, and removes the installer's files from the card one by    *)
(* one, with the receipt following.  A failure puts back what was removed; *)
(* an interruption is resumed from the receipt, forwards or backwards.     *)
(* The card's owner may write to it meanwhile.                             *)
(***************************************************************************)
EXTENDS Naturals

CONSTANTS
    PathCount,        \* the installer's files, in the order they are removed
    Needed,           \* those that a fresh quarantine asks for
    QuarantineCuts,   \* bound: crashes of the host
    QuarantineFaults, \* bound: calls that fail
    UserChanges       \* bound: changes by the card's owner

Paths == 1..PathCount

ASSUME QuarantineAssumption ==
    /\ PathCount \in Nat /\ Needed \subseteq Paths
    /\ {QuarantineCuts, QuarantineFaults, UserChanges} \subseteq Nat

VARIABLES
    tree,           \* the card as the host sees it
    durable,        \* the card as it is on the medium
    drift,          \* whether other files differ from the snapshot
    snapshot,       \* what the manifest says of the card
    destination,    \* how far the archive is
    receipt,        \* the receipt as the host sees it
    durableReceipt, \* the receipt as it is on the disk
    doing,          \* what the command does next
    writing,        \* what the receipt is being written for
    removed,        \* the removals the command has recorded or is to record
    which,          \* the path it is at
    latest,         \* history: what the owner last put under each name
    archived,       \* history: what lies in archives
    quarantineLeft  \* what is left of the bounds
quarantineVars == <<tree, durable, drift, snapshot, destination, receipt, durableReceipt,
                    doing, writing, removed, which, latest, archived, quarantineLeft>>

(* Contents are numbered in the order the owner wrote them; 0 is what the  *)
(* card had.  "part" is the temporary names of files being put back.       *)
Versions == 0..UserChanges
Gone == UserChanges + 1
Trees == [file : [Paths -> Versions \union {Gone}], part : SUBSET Paths]

Purposes == {"first", "begin", "progress", "completed", "rolled_back"}
Phase(purpose) ==
    IF purpose \in {"completed", "rolled_back"} THEN purpose ELSE "pending"
Receipts == [phase : {"none", "pending", "completed", "rolled_back"}, done : SUBSET Paths]
NoReceipt == [phase |-> "none", done |-> {}]

ArchivePoints == {"archive", "make", "move", "sync_destination"}
RemovalPoints == {"unlink", "sync_unlink"}
RestorePoints == {"restore", "rename_part", "sync_restore"}
Points == {"idle", "begin", "replace", "sync_receipt"} \union ArchivePoints
             \union RemovalPoints \union RestorePoints

(* A name that the snapshot has is one of those to be removed. *)
Planned == {p \in Paths : snapshot.file[p] # Gone}
Matches(p) == tree.file[p] = snapshot.file[p]
Missing == {p \in Planned : tree.file[p] = Gone}

(* Paths are gone through in their order.  "First" is empty or a singleton. *)
First(paths) == {p \in paths : \A q \in paths : p <= q}

QuarantineTypeOK ==
    /\ {tree, durable, snapshot} \subseteq Trees
    /\ drift \in BOOLEAN
    /\ destination \in {"none", "bare", "moved", "whole"}
    /\ {receipt, durableReceipt} \subseteq Receipts
    /\ doing \in Points /\ writing \in Purposes
    /\ removed \subseteq Paths /\ which \in 1..PathCount + 1
    /\ latest \in [Paths -> Versions]
    /\ archived \subseteq Paths \X Versions
    /\ quarantineLeft \in [cuts : 0..QuarantineCuts, faults : 0..QuarantineFaults,
                           changes : 0..UserChanges]

QuarantineStart ==
    /\ tree = [file |-> [p \in Paths |-> 0], part |-> {}]
    /\ durable = tree /\ snapshot = tree
    /\ drift = FALSE /\ destination = "none"
    /\ receipt = NoReceipt /\ durableReceipt = NoReceipt
    /\ doing = "idle" /\ writing = "first" /\ removed = {} /\ which = 1
    /\ latest = [p \in Paths |-> 0] /\ archived = {}

QuarantineInit ==
    /\ QuarantineStart
    /\ quarantineLeft = [cuts |-> QuarantineCuts, faults |-> QuarantineFaults,
                         changes |-> UserChanges]

Costs(bound) ==
    /\ quarantineLeft[bound] > 0
    /\ quarantineLeft' = [quarantineLeft EXCEPT ![bound] = @ - 1]

receiptVars == <<receipt, durableReceipt>>
planVars == <<snapshot, destination, drift>>
memory == <<writing, removed, which>>

-----------------------------------------------------------------------------
(* A fresh quarantine: snapshot, archive, receipt.                         *)

(* An operator who starts afresh names a new destination, and does not     *)
(* come back to an older one; what an older run left unsynced has reached  *)
(* the card when he has planned it.                                        *)
inspect_inconsistent_media_quarantine ==
    /\ doing = "idle" /\ doing' = "archive" /\ tree = durable
    /\ \A p \in Needed : tree.file[p] # Gone
    /\ snapshot' = tree /\ drift' = FALSE /\ destination' = "none"
    /\ receipt' = NoReceipt /\ durableReceipt' = NoReceipt
    /\ UNCHANGED <<tree, durable, memory, latest, archived, quarantineLeft>>

(* Every file is copied as the snapshot has it, and the card must still    *)
(* have the same tree then.                                                *)
archive_files ==
    /\ doing = "archive"
    /\ doing' = IF tree = snapshot /\ ~drift THEN "make" ELSE "idle"
    /\ UNCHANGED <<tree, durable, planVars, receiptVars, memory, latest, archived,
                   quarantineLeft>>

Reaches(from, state, to) ==
    /\ doing = from /\ doing' = to
    /\ destination' = state
    /\ UNCHANGED <<tree, durable, snapshot, drift, receiptVars, latest, quarantineLeft>>

make_destination == Reaches("make", "bare", "move") /\ UNCHANGED <<memory, archived>>
move_archive == Reaches("move", "moved", "sync_destination") /\ UNCHANGED <<memory, archived>>

sync_destination ==
    /\ Reaches("sync_destination", "whole", "replace")
    /\ archived' = archived \union {<<p, snapshot.file[p]>> : p \in Planned}
    /\ writing' = "first" /\ removed' = {} /\ UNCHANGED which

-----------------------------------------------------------------------------
(* write_state: the receipt is replaced, and the directory synced.         *)
replace_receipt ==
    /\ doing = "replace" /\ doing' = "sync_receipt"
    /\ receipt' = [phase |-> Phase(writing), done |-> removed]
    /\ UNCHANGED <<tree, durable, planVars, durableReceipt, memory, latest, archived,
                   quarantineLeft>>

AfterReceipt == CASE writing = "first" -> "begin"
                  [] writing \in {"begin", "progress"} -> "unlink"
                  [] OTHER -> "idle"
sync_receipt ==
    /\ doing = "sync_receipt" /\ doing' = AfterReceipt
    /\ durableReceipt' = receipt
    /\ UNCHANGED <<tree, durable, planVars, receipt, memory, latest, archived,
                   quarantineLeft>>

Writes(purpose, paths) ==
    /\ doing' = "replace" /\ writing' = purpose /\ removed' = paths

-----------------------------------------------------------------------------
(* The removals.                                                           *)

(* _validate_tree_against_snapshot, with removals missing.                 *)
TreeIsStable ==
    /\ ~drift /\ tree.part = snapshot.part
    /\ \A p \in Paths : tree.file[p] = Gone \/ Matches(p)

begin_removals ==
    /\ doing = "begin"
    /\ IF TreeIsStable THEN Writes("begin", receipt.done \union Missing) /\ UNCHANGED which
                       ELSE doing' = "idle" /\ UNCHANGED memory
    /\ UNCHANGED <<tree, durable, planVars, receiptVars, latest, archived, quarantineLeft>>

RollsBack == doing' = "restore" /\ which' = 1 /\ UNCHANGED <<writing, removed>>

(* Variant: a path is removed as it is found.                              *)
UnlinkAsFound ==
    /\ doing = "unlink"
    /\ \E p \in First(Planned \ removed) :
          /\ tree' = [tree EXCEPT !.file[p] = Gone]
          /\ doing' = "sync_unlink" /\ which' = p /\ UNCHANGED <<writing, removed>>
    /\ UNCHANGED <<durable, planVars, receiptVars, latest, archived, quarantineLeft>>

unlink_path ==
    /\ doing = "unlink"
    /\ \E p \in First(Planned \ removed) :
          IF Matches(p)
          THEN /\ tree' = [tree EXCEPT !.file[p] = Gone]
               /\ doing' = "sync_unlink" /\ which' = p /\ UNCHANGED <<writing, removed>>
          ELSE RollsBack /\ UNCHANGED tree
    /\ UNCHANGED <<durable, planVars, receiptVars, latest, archived, quarantineLeft>>

sync_unlink ==
    /\ doing = "sync_unlink"
    /\ durable' = tree
    /\ Writes("progress", removed \union {which}) /\ UNCHANGED which
    /\ UNCHANGED <<tree, planVars, receiptVars, latest, archived, quarantineLeft>>

check_removals ==
    /\ doing = "unlink" /\ Planned \ removed = {}
    /\ IF Missing = Planned THEN Writes("completed", removed) /\ UNCHANGED which
                            ELSE RollsBack
    /\ UNCHANGED <<tree, durable, planVars, receiptVars, latest, archived, quarantineLeft>>

-----------------------------------------------------------------------------
(* restore_missing_removals.                                               *)
ToPutBack == {p \in Planned : p >= which /\ ~Matches(p)}

(* The next path that is not as the snapshot has it: one that was changed  *)
(* stays and ends the roll-back, and so does one whose temporary name is   *)
(* taken.                                                                  *)
restore_path ==
    /\ doing = "restore"
    /\ \E p \in First(ToPutBack) :
          IF tree.file[p] = Gone /\ p \notin tree.part
          THEN /\ tree' = [tree EXCEPT !.part = @ \union {p}]
               /\ doing' = "rename_part" /\ which' = p /\ UNCHANGED <<writing, removed>>
          ELSE doing' = "idle" /\ UNCHANGED <<tree, memory>>
    /\ UNCHANGED <<durable, planVars, receiptVars, latest, archived, quarantineLeft>>

rename_part ==
    /\ doing = "rename_part" /\ doing' = "sync_restore"
    /\ tree' = [file |-> [tree.file EXCEPT ![which] = snapshot.file[which]],
                part |-> tree.part \ {which}]
    /\ UNCHANGED <<durable, planVars, receiptVars, memory, latest, archived, quarantineLeft>>

sync_restore ==
    /\ doing = "sync_restore" /\ doing' = "restore"
    /\ durable' = tree
    /\ which' = which + 1
    /\ UNCHANGED <<tree, planVars, receiptVars, writing, removed, latest, archived,
                   quarantineLeft>>

restored ==
    /\ doing = "restore" /\ ToPutBack = {}
    /\ Writes("rolled_back", {}) /\ UNCHANGED which
    /\ UNCHANGED <<tree, durable, planVars, receiptVars, latest, archived, quarantineLeft>>

-----------------------------------------------------------------------------
(* A resumption, which the operator has confirmed for its mode: it goes on *)
(* if the card is as the receipt says, and otherwise only puts back.       *)
Resumes ==
    /\ doing = "idle" /\ destination = "whole" /\ receipt.phase = "pending"
    /\ \A p \in Planned : tree.file[p] = Gone \/ Matches(p)

(* Variant: what is not as the receipt says is for the operator to mend.   *)
ResumesForwardsOnly ==
    /\ Resumes /\ TreeIsStable /\ receipt.done \subseteq Missing
    /\ doing' = "begin" /\ UNCHANGED memory
    /\ UNCHANGED <<tree, durable, planVars, receiptVars, latest, archived, quarantineLeft>>

resume_quarantine ==
    /\ Resumes
    /\ IF TreeIsStable /\ receipt.done \subseteq Missing
       THEN doing' = "begin" /\ UNCHANGED memory
       ELSE RollsBack
    /\ UNCHANGED <<tree, durable, planVars, receiptVars, latest, archived, quarantineLeft>>

HostStep ==
    \/ archive_files \/ make_destination \/ move_archive \/ sync_destination
    \/ replace_receipt \/ sync_receipt \/ begin_removals \/ unlink_path \/ sync_unlink
    \/ check_removals \/ restore_path \/ rename_part \/ sync_restore \/ restored

-----------------------------------------------------------------------------
(* A call fails: within the removals what was removed is put back, and     *)
(* anywhere else the command ends.  A temporary file may stay behind.      *)
Removing ==
    \/ doing \in RemovalPoints
    \/ doing \in {"replace", "sync_receipt"} /\ writing \in {"progress", "completed"}

quarantine_fails ==
    /\ doing # "idle" /\ Costs("faults")
    /\ IF Removing THEN RollsBack ELSE doing' = "idle" /\ UNCHANGED memory
    /\ tree' \in {tree} \union
          (IF doing = "restore" THEN {[tree EXCEPT !.part = @ \union {p}] : p \in ToPutBack}
                                ELSE {})
    /\ UNCHANGED <<durable, planVars, receiptVars, latest, archived>>

(* The host stops, or loses the card: of what was not synced, any part may *)
(* be lost, on the card and on the host's own disk.                        *)
host_crash ==
    /\ doing # "idle" \/ tree # durable \/ receipt # durableReceipt
    /\ doing' = "idle" /\ Costs("cuts")
    /\ \E lost \in SUBSET Paths, lostParts \in SUBSET ((tree.part \ durable.part)
                                                 \union (durable.part \ tree.part)) :
          /\ \A p \in lost : tree.file[p] # durable.file[p]
          /\ tree' = [file |-> [p \in Paths |-> IF p \in lost THEN durable.file[p]
                                                              ELSE tree.file[p]],
                      part |-> (tree.part \ lostParts) \union (durable.part \intersect lostParts)]
    /\ durable' = tree'
    /\ receipt' \in {receipt, durableReceipt} /\ durableReceipt' = receipt'
    /\ destination' \in (IF destination = "moved" THEN {"bare", "moved"} ELSE {destination})
    /\ UNCHANGED <<snapshot, drift, memory, latest, archived>>

(* The operating system writes back what a command left unsynced.          *)
write_back ==
    /\ doing = "idle" /\ tree # durable
    /\ durable' = tree
    /\ UNCHANGED <<tree, planVars, receiptVars, doing, memory, latest, archived,
                   quarantineLeft>>

(* The owner of the card writes a file of his own, or one with a name of   *)
(* the installer's.  Between a check of a path and what follows from it    *)
(* nothing is written.                                                     *)
user_writes ==
    /\ ~drift /\ drift' = TRUE /\ Costs("changes")
    /\ UNCHANGED <<tree, durable, snapshot, destination, receiptVars, doing, memory, latest,
                   archived>>

user_replaces(p) ==
    /\ doing # "rename_part" /\ Costs("changes")
    /\ LET new == UserChanges - quarantineLeft'.changes IN
          /\ tree' = [tree EXCEPT !.file[p] = new]
          /\ durable' = [durable EXCEPT !.file[p] = new]
          /\ latest' = [latest EXCEPT ![p] = new]
    /\ UNCHANGED <<planVars, receiptVars, doing, memory, archived>>

QuarantineNext ==
    \/ HostStep \/ inspect_inconsistent_media_quarantine \/ resume_quarantine
    \/ quarantine_fails \/ host_crash \/ write_back \/ user_writes \/ \E p \in Paths : user_replaces(p)

QuarantineSpec == QuarantineInit /\ [][QuarantineNext]_quarantineVars

(* A command that runs goes on, and an operator whose card is not as it    *)
(* was resumes what can be resumed.                                        *)
QuarantineFairness ==
    /\ WF_quarantineVars(HostStep)
    /\ SF_quarantineVars(resume_quarantine)

-----------------------------------------------------------------------------
(* Whatever the owner last wrote under a name of the installer's is on the *)
(* card, and on its medium, or in an archive that is durable.              *)
NothingIsLost ==
    \A p \in Paths :
        \/ tree.file[p] = latest[p] /\ durable.file[p] = latest[p]
        \/ <<p, latest[p]>> \in archived

(* Nothing is removed before the archive is durable and a receipt that     *)
(* admits a resumption is (write_state before the loop of removals).       *)
RemovalsAreRecorded ==
    doing \in RemovalPoints =>
        /\ durableReceipt.phase = "pending"
        /\ \A p \in Planned : <<p, snapshot.file[p]>> \in archived

QuarantineKeepsFiles == QuarantineTypeOK /\ NothingIsLost /\ RemovalsAreRecorded

(* Where no command goes on, and only the owner of the card does:          *)
(*   - a file of the installer's that he wrote anew, which --resume refuses *)
(*     to take for the archived one;                                       *)
(*   - a temporary file that a roll-back left behind under the name that   *)
(*     the next one needs (installer/user_cli_parser.py and                *)
(*     docs/installation.md say of --resume without exception that changes *)
(*     to the card "force rollback" and that it "restores missing          *)
(*     installer paths"; it fails here, every time);                       *)
(*   - a receipt that is final and not true of the card, because a roll-   *)
(*     back was begun after the receipt said "completed" and did not end,  *)
(*     or because a sync of the card had failed and the roll-back that     *)
(*     followed took the file for restored.                                *)
OwnersFile == \E p \in Planned : tree.file[p] # Gone /\ ~Matches(p)
PartLeftover == Missing \intersect tree.part # {}
FalseReceipt ==
    \/ receipt.phase = "completed" /\ Missing # Planned
    \/ receipt.phase = "rolled_back" /\ Missing # {}

(* A card from which something was removed is cleared in the end, and its  *)
(* receipt says so, or it is whole again, however often the command is     *)
(* interrupted and resumed, unless one of the three above holds for ever.  *)
QuarantineSettles ==
    \/ []<>(Missing = {} \/ (Missing = Planned /\ receipt.phase = "completed"))
    \/ <>[](OwnersFile \/ PartLeftover \/ FalseReceipt)
=============================================================================
