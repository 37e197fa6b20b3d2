----------------------------- MODULE HostsAdapter -----------------------------
(***************************************************************************)
(* The Hosts adapter: a managed block in a file that belongs to the user,  *)
(* a backup file beside it, and the receipts with which both are undone.   *)
(*                                                                         *)
(* Apply takes the user's own lines for the mapped domains out of the      *)
(* file, appends its block, and keeps the file of before in the backup and *)
(* in the receipt.  Rollback undoes one receipt if both files are as that  *)
(* receipt left or found them.  Clean-up undoes a list of receipts, the    *)
(* newest first; where a receipt is refused and no marker is left in the   *)
(* file, CleanupConflict restores the backup alone.                        *)
(*                                                                         *)
(* The user may edit both files at any time, every write may fail, and the *)
(* process may die between any two steps.  Receipts are pending until the  *)
(* commit; RouteController and PolicyTransaction model what is around.     *)
(***************************************************************************)
EXTENDS Naturals, SequencesExt

CONSTANTS
  Domains,    \* the names of the user's own lines and of the mappings
  Policies,   \* sets of domains that a policy maps
  Platforms,  \* "windows" compares before it writes in place, "other" renames
  MaxApplies, \* bound on policies applied
  MaxEdits,   \* bound on edits of the user
  MaxFaults,  \* bound on failing calls and crashes
  Missing, Theirs, \* of the backup: there is none, it is not the program's
  Broken,     \* a block with one marker only
  None

ASSUME PoliciesMap == Policies \subseteq (SUBSET Domains) \ {{}}
ASSUME PlatformsKnown == Platforms \subseteq {"windows", "other"}
ASSUME HostsBounds == {MaxApplies, MaxEdits, MaxFaults} \subseteq Nat
ASSUME NoneIsNoPolicy == None # Broken /\ Policies \cap {None, Broken} = {}

VARIABLES
  platform,
  hosts, backup,       \* the two files
  pending, committed,  \* receipts of PendingPolicy and of Policy
  unsaved,             \* the last pending one is in memory only
  starting,            \* the process has started and not recovered yet
  op,                  \* the local variables of the call in progress
  mine, theirs,        \* history: the user's lines; the backup file of others
  forgone,             \* history: lines that were out when the user took the block
  strayed,             \* history: an edit that the adapter must refuse
  spoiled,             \* history: the known gaps that have happened
  applies, edits, faults

files == <<hosts, backup>>
receipts == <<pending, committed, unsaved>>
history == <<mine, theirs, forgone, strayed>>
counters == <<applies, edits, faults>>
vars == <<platform, files, receipts, starting, op, history, spoiled, counters>>

-----------------------------------------------------------------------------
(* The state *)

\* user: the domains of the user's own lines.  Contents are equal when
\* their digests are.
Contents == [user : SUBSET Domains, block : Policies \cup {None, Broken}]
Backups == Contents \cup {Missing, Theirs}

\* receiptPayload; BackupAppliedHash is the digest of previous.
Receipts == [previous : Contents, applied : Contents, backup : Backups, changed : BOOLEAN]

ASSUME NoneIsNoReceipt == None \notin Receipts

\* met, since: history, of a clean-up: the block that it found, and when it began.
NoOp == [pc |-> "idle", content |-> None, previous |-> None, receipt |-> None,
         current |-> None, restored |-> FALSE, list |-> <<>>, left |-> 0,
         failed |-> FALSE, met |-> None, since |-> 0]

Init ==
  /\ platform \in Platforms
  /\ hosts \in [user : SUBSET Domains, block : {None}] /\ backup \in {Missing, Theirs}
  /\ pending = <<>> /\ committed = <<>> /\ unsaved = FALSE /\ starting = FALSE /\ op = NoOp
  /\ mine = hosts.user /\ theirs = backup /\ forgone = {} /\ strayed = FALSE
  /\ spoiled = {} /\ applies = 0 /\ edits = 0 /\ faults = 0

Idle == op.pc = "idle"
Gap(gap) == spoiled' = spoiled \cup gap

\* A call fails; the bound leaves the others alone.
Fault == faults < MaxFaults /\ faults' = faults + 1 /\ UNCHANGED <<applies, edits>>
NoFault == UNCHANGED counters

-----------------------------------------------------------------------------
(* Apply *)

\* Plan: the file without the block and without the lines of the policy's
\* domains, and the new block; a block with one marker is an error.
Planned(content, policy) == [user |-> content.user \ policy, block |-> policy]

Plans(policy) ==
  /\ Idle /\ ~starting /\ applies < MaxApplies /\ applies' = applies + 1
  /\ hosts.block # Broken
  /\ op' = [NoOp EXCEPT !.pc = "read", !.previous = hosts, !.content = Planned(hosts, policy)]
  /\ UNCHANGED <<platform, files, receipts, starting, history, spoiled, edits, faults>>

\* Apply begins: "Hosts file changed after planning" ends it.
Reads ==
  /\ op.pc = "read"
  /\ op' = IF hosts # op.previous THEN NoOp
           ELSE [op EXCEPT
                   !.pc = IF op.content = hosts THEN "record" ELSE "backup",
                   !.receipt = [previous |-> hosts, applied |-> op.content,
                                backup |-> backup, changed |-> op.content # hosts]]
  /\ UNCHANGED <<platform, files, receipts, starting, history, spoiled, counters>>

\* Nothing compares the backup before it is written.
OverwrittenBackup(expected) == IF backup # expected THEN {"overwritten"} ELSE {}

WritesBackup ==
  /\ op.pc = "backup"
  /\ \/ /\ backup' = op.previous /\ op' = [op EXCEPT !.pc = "write"] /\ NoFault
        /\ Gap(OverwrittenBackup(op.receipt.backup))
     \/ Fault /\ op' = NoOp /\ UNCHANGED <<backup, spoiled>>
  /\ UNCHANGED <<platform, hosts, receipts, starting, history>>

\* A mutant of Compares (UserLinesKept): Windows writes over any change, too.
ComparesNothing(expected) == TRUE

\* writeHostsFile on Windows compares under the handle it writes with.
Compares(expected) == platform = "windows" => hosts = expected

\* The gap that a write opens which does not compare.
Overwritten(expected) ==
  IF platform = "other" /\ hosts # expected THEN {"overwritten"} ELSE {}

\* Contents are compared, not when and by whom they were made: what undoes one
\* of the receipts now would undo it in a file that it did not make.
Mistaken(made, kept) ==
  IF \E r \in kept : r.changed /\ made = r.applied THEN {"mistaken"} ELSE {}
MistakenWrite ==
  IF strayed \/ forgone # {} THEN Mistaken(op.content, ToSet(pending) \cup ToSet(committed))
  ELSE {}

\* What is left of a content that was cut off while it was written in place.
Torn(content) ==
  [user : SUBSET content.user,
   block : IF content.block = None THEN {None} ELSE {None, Broken, content.block}]

\* The file is what a write makes of it that does not succeed: where it is
\* written in place, the old content may be restored, or that fails as well.
Tears(written) ==
  /\ IF platform = "windows" THEN hosts' \in {hosts} \cup Torn(written) \cup Torn(hosts)
     ELSE UNCHANGED hosts
TornGap == IF hosts' # hosts THEN {"torn"} ELSE {}

\* Without a receipt of its own, the backup of a failed Apply stays.
WritesHosts ==
  /\ op.pc = "write"
  /\ \/ /\ Compares(op.previous) /\ hosts' = op.content
        /\ op' = [op EXCEPT !.pc = "record"] /\ NoFault
        /\ Gap(Overwritten(op.previous) \cup MistakenWrite)
     \/ /\ ~Compares(op.previous) /\ op' = NoOp /\ Gap({"leftover"})
        /\ UNCHANGED hosts /\ NoFault
     \/ /\ Compares(op.previous) /\ Fault /\ Tears(op.content)
        /\ op' = NoOp /\ Gap({"leftover"} \cup TornGap)
  /\ UNCHANGED <<platform, backup, receipts, starting, history>>

\* journal.Record; Store.Update leaves the receipt in memory when it fails.
Records ==
  /\ op.pc = "record" /\ pending' = Append(pending, op.receipt)
  /\ \/ op' = [op EXCEPT !.pc = "verify"] /\ unsaved' = FALSE /\ NoFault
     \/ Fault /\ op' = [op EXCEPT !.pc = "undo"] /\ unsaved' = TRUE
  /\ UNCHANGED <<platform, files, committed, starting, history, spoiled>>

\* Verify, the refresh of the resolver's cache, and all that the caller does
\* until it commits.  The commit drops what earlier calls could not undo.
Verifies ==
  /\ op.pc = "verify"
  /\ \/ /\ hosts = op.receipt.applied /\ NoFault
        /\ committed' = Append(committed, op.receipt) /\ pending' = <<>> /\ UNCHANGED unsaved
        /\ Gap(IF Len(pending) > 1 THEN {"dropped"} ELSE {}) /\ op' = NoOp
     \/ /\ hosts # op.receipt.applied /\ NoFault
        /\ op' = [op EXCEPT !.pc = "undo"] /\ UNCHANGED <<receipts, spoiled>>
     \/ Fault /\ op' = [op EXCEPT !.pc = "undo"] /\ UNCHANGED <<receipts, spoiled>>
  /\ UNCHANGED <<platform, files, starting, history>>

-----------------------------------------------------------------------------
(* Rollback, of one receipt or of one after the other *)

Cleaning == op.list # <<>>

\* rollbackAll keeps a receipt it could not undo, the last; Cleanup goes on
\* with the one before, or with CleanupConflict.
Undone ==
  IF Cleaning THEN op' = [op EXCEPT !.pc = "next"] /\ UNCHANGED <<pending, unsaved>>
  ELSE op' = NoOp /\ unsaved' = FALSE /\ pending' = Front(pending)
NotUndone ==
  /\ op' = IF Cleaning THEN [op EXCEPT !.pc = "conflict"] ELSE NoOp
  /\ UNCHANGED <<pending, unsaved>>

HostsRestored == hosts = op.receipt.previous
BackupRestored == backup = op.receipt.backup

\* A mutant of Refuses (CleanupsRestore): what is undone already is refused.
RefusesTheUndone ==
  /\ op.receipt.changed
  /\ \/ hosts # op.receipt.applied
     \/ backup # op.receipt.previous

\* The files are neither as the receipt found nor as it left them.
Refuses ==
  /\ op.receipt.changed
  /\ \/ ~HostsRestored /\ hosts # op.receipt.applied
     \/ ~BackupRestored /\ backup # op.receipt.previous

RollbackReads ==
  /\ op.pc = "undo"
  /\ \/ Refuses /\ NotUndone /\ NoFault
     \/ /\ ~Refuses /\ op.receipt.changed
        /\ op' = [op EXCEPT !.pc = IF HostsRestored THEN "undo_backup" ELSE "undo_hosts",
                            !.current = hosts, !.restored = BackupRestored]
        /\ UNCHANGED <<pending, unsaved>> /\ NoFault
     \/ ~op.receipt.changed /\ Undone /\ NoFault
     \/ ~op.receipt.changed /\ ~Cleaning /\ NotUndone /\ Fault
  /\ UNCHANGED <<platform, files, committed, starting, history, spoiled>>

RestoresHosts ==
  /\ op.pc = "undo_hosts"
  /\ \/ /\ Compares(op.current) /\ hosts' = op.receipt.previous
        /\ op' = [op EXCEPT !.pc = "undo_backup"]
        /\ Gap(Overwritten(op.current)) /\ UNCHANGED <<pending, unsaved>> /\ NoFault
     \/ ~Compares(op.current) /\ NotUndone /\ UNCHANGED <<hosts, spoiled>> /\ NoFault
     \/ /\ Compares(op.current) /\ Fault /\ Tears(op.receipt.previous)
        /\ NotUndone /\ Gap(TornGap)
  /\ UNCHANGED <<platform, backup, committed, starting, history>>

\* The backup, the refresh of the resolver's cache, and rollbackAll's removal of
\* the receipt from the state's file, each of which may fail.
RestoresBackup ==
  /\ op.pc = "undo_backup"
  /\ LET restored == IF op.restored THEN backup ELSE op.receipt.backup
         gap == IF op.restored THEN {} ELSE OverwrittenBackup(op.receipt.previous)
     IN \/ backup' = restored /\ Undone /\ Gap(gap) /\ NoFault
        \/ backup' = restored /\ NotUndone /\ Gap(gap) /\ Fault
        \/ UNCHANGED <<backup, spoiled>> /\ NotUndone /\ Fault
  /\ UNCHANGED <<platform, hosts, committed, starting, history>>

-----------------------------------------------------------------------------
(* Cleanup *)

\* RecoverPendingPolicy, when the daemon starts or an uninstallation begins;
\* then, for the latter, the committed receipts.
Cleans(list) ==
  /\ Idle /\ list # <<>>
  /\ op' = [NoOp EXCEPT !.pc = "undo", !.list = list, !.left = Len(list),
                        !.receipt = Last(list), !.met = hosts.block, !.since = faults + edits]
  /\ UNCHANGED <<platform, files, receipts, starting, history, spoiled, counters>>

\* The receipt before, or the end: only a clean-up without a failure empties
\* the list, which may fail to be written.
CleansNext ==
  /\ op.pc = "next"
  /\ \/ /\ op.left > 1 /\ NoFault /\ UNCHANGED <<receipts, starting>>
        /\ op' = [op EXCEPT !.pc = "undo", !.left = @ - 1, !.receipt = op.list[op.left - 1]]
     \/ op.left = 1 /\ op.failed /\ op' = NoOp /\ NoFault /\ UNCHANGED <<receipts, starting>>
     \/ /\ op.left = 1 /\ ~op.failed /\ op' = NoOp /\ NoFault
        /\ IF pending # <<>>
           THEN pending' = <<>> /\ unsaved' = FALSE /\ starting' = FALSE /\ UNCHANGED committed
           ELSE committed' = <<>> /\ UNCHANGED <<pending, unsaved, starting>>
     \/ op.left = 1 /\ ~op.failed /\ op' = NoOp /\ Fault /\ UNCHANGED <<receipts, starting>>
  /\ UNCHANGED <<platform, files, history, spoiled>>

ChangedAt == {i \in DOMAIN op.list : op.list[i].changed}

\* matchesAppliedBackup
Provable == \E i \in ChangedAt : backup = op.list[i].previous

\* A mutant of OldestBackup (FilesAreRestored): the newest receipt's backup.
NewestBackup == op.list[Max(ChangedAt)].backup

OldestBackup == op.list[Min(ChangedAt)].backup

\* With a marker in the file, or a backup that no receipt explains, it refuses.
CleanupConflict ==
  /\ op.pc = "conflict"
  /\ LET done == op' = [op EXCEPT !.pc = "next", !.left = 1]
         goesOn == op' = [op EXCEPT !.pc = "next", !.failed = TRUE]
     IN \/ hosts.block # None /\ goesOn /\ UNCHANGED backup /\ NoFault
        \/ /\ hosts.block = None /\ NoFault
           /\ IF backup = OldestBackup THEN done /\ UNCHANGED backup
              ELSE IF Provable THEN done /\ backup' = OldestBackup
              ELSE goesOn /\ UNCHANGED backup
        \/ hosts.block = None /\ Fault /\ goesOn /\ UNCHANGED backup
  /\ UNCHANGED <<platform, hosts, receipts, starting, history, spoiled>>

-----------------------------------------------------------------------------
(* The user and the process *)

Edits == edits < MaxEdits /\ edits' = edits + 1 /\ UNCHANGED op
Strays == strayed' = (strayed \/ ~Idle \/ pending \o committed # <<>>)

\* The receipts that there are.
Keepers ==
  ToSet(pending) \cup ToSet(committed) \cup (IF op.receipt = None THEN {} ELSE {op.receipt})

\* A line of the user's comes or goes beside the block.
EditsLine(d) ==
  /\ Edits /\ Strays
  /\ IF d \in hosts.user
     THEN hosts' = [hosts EXCEPT !.user = @ \ {d}] /\ mine' = mine \ {d}
     ELSE hosts' = [hosts EXCEPT !.user = @ \cup {d}] /\ mine' = mine \cup {d}
  /\ Gap(Mistaken(hosts', Keepers))
  /\ UNCHANGED <<platform, backup, receipts, starting, theirs, forgone, applies, faults>>

BreaksBlock ==
  /\ Edits /\ hosts.block \notin {None, Broken} /\ Strays
  /\ hosts' = [hosts EXCEPT !.block = Broken]
  /\ UNCHANGED <<platform, backup, receipts, starting, mine, theirs, forgone, spoiled,
                 applies, faults>>

\* The block goes: the lines that were out for it need not come back.
RemovesBlock ==
  /\ Edits /\ hosts.block # None
  /\ hosts' = [hosts EXCEPT !.block = None] /\ mine' = hosts.user
  /\ forgone' = forgone \cup (mine \ hosts.user)
  /\ UNCHANGED <<platform, backup, receipts, starting, theirs, strayed, spoiled, applies, faults>>

EditsBackup(content) ==
  /\ Edits /\ Strays
  /\ backup # content /\ backup' = content /\ theirs' = content
  /\ UNCHANGED <<platform, hosts, receipts, starting, mine, forgone, spoiled, applies, faults>>

\* A file that is written in place may be cut off.  A change whose receipt is
\* not in the file of the state is not undone.
Crashes ==
  /\ Fault /\ op' = NoOp
  /\ pending' = (IF unsaved THEN Front(pending) ELSE pending)
  /\ unsaved' = FALSE /\ starting' = (pending' # <<>>)
  /\ IF op.pc = "write" /\ Compares(op.previous) THEN Tears(op.content)
     ELSE IF op.pc = "undo_hosts" /\ Compares(op.current) THEN Tears(op.receipt.previous)
     ELSE UNCHANGED hosts
  /\ Gap(   TornGap
         \cup (IF op.pc = "write" THEN {"leftover"} ELSE {})
         \cup (IF unsaved \/ op.pc = "record" THEN {"unrecorded"} ELSE {}))
  /\ UNCHANGED <<platform, backup, committed, history>>

User ==
  \/ \E d \in Domains : EditsLine(d)
  \/ BreaksBlock \/ RemovesBlock
  \/ \E content \in {Missing, Theirs} : EditsBackup(content)

Next ==
  \/ \E policy \in Policies : Plans(policy)
  \/ Reads \/ WritesBackup \/ WritesHosts \/ Records \/ Verifies
  \/ RollbackReads \/ RestoresHosts \/ RestoresBackup
  \/ Cleans(pending) \/ (pending = <<>> /\ Cleans(committed)) \/ CleansNext \/ CleanupConflict
  \/ User \/ Crashes

Spec == Init /\ [][Next]_vars

-----------------------------------------------------------------------------
(* Properties *)

TypeOK ==
  /\ hosts \in Contents /\ backup \in Backups
  /\ ToSet(pending) \cup ToSet(committed) \subseteq Receipts
  /\ mine \subseteq Domains

\* Nothing of the user's is lost or brought back: each line that he wants is in
\* the file, or in the file that a receipt, or the call in progress, keeps of
\* before; and no line is there that he removed.
UserLinesKept ==
  spoiled \cap {"overwritten", "mistaken", "torn", "unrecorded", "dropped"} = {} =>
    /\ hosts.user \subseteq mine \cup forgone
    /\ \A d \in mine \ hosts.user : \E r \in Keepers : d \in r.previous.user

\* When no receipt is left, neither is anything of the program's: there is no
\* block (the lines are UserLinesKept's), and the backup file is as others left it.
FilesAreRestored ==
  Idle /\ pending = <<>> /\ committed = <<>> /\ spoiled \subseteq {"mistaken"} =>
    /\ hosts.block = None
    /\ strayed \/ backup = theirs

\* A clean-up in which nothing fails leaves both files as the oldest receipt found
\* them, or the file without a block if the user took it away, also after one that
\* was interrupted anywhere; it does not fail where there was no block, so that it
\* need not be repeated twice.
CleanupsRestore ==
  op.pc = "next" /\ op.left = 1 /\ op.since = faults + edits /\ ~strayed
  /\ spoiled \subseteq {"mistaken"} =>
    /\ hosts = op.list[1].previous \/ hosts.block = None
    /\ backup = op.list[1].backup
    /\ op.met = None => ~op.failed

\* adapter.go:188 says that Rollback restores the file as long as nobody else
\* has modified it.
RestoresUnmodified ==
  op.pc = "undo" /\ Refuses => edits > 0 \/ hosts # op.receipt.applied
===============================================================================
