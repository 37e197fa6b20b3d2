--------------------------- MODULE PolicyTransaction ---------------------------
(***************************************************************************)
(* Policy changes: proxy.Coordinator, the receipt journal, the state store *)
(* and the recovery at start-up and at uninstall.                          *)
(*                                                                         *)
(* A policy operation of the runner applies one policy, or a transition    *)
(* and then the final one, to the adapters that are active.  Each adapter  *)
(* owns a file and answers with a receipt that can undo its change.        *)
(* Receipts are recorded in the state file as pending until the operation  *)
(* commits; then they join the chain of the committed policy.  A failed    *)
(* operation undoes its receipts newest first; a daemon that starts undoes *)
(* the pending ones; the uninstaller undoes those and then the chain.      *)
(* Every list of receipts of the code is in the order of issue, so a set   *)
(* of receipts stands for it: their identifiers tell the order.            *)
(*                                                                         *)
(* Adapters are the ones of internal/proxy/managedfile: undoing a receipt  *)
(* is refused when the file has neither its previous nor its applied       *)
(* content.  The operation gate lets one operation run at a time.          *)
(***************************************************************************)
EXTENDS Integers, FiniteSets, Sequences

CONSTANTS
  Adapters,    \* the configured adapters
  Nodes,       \* what a policy is made of: the addresses it sends direct
  Targets,     \* the policies the operations are asked for: sets of nodes
  Kinds,       \* which operations are run: subset of {"run", "manual"}
  Faults,      \* which calls may fail: subset of FaultKinds
  MaxOps,      \* bound on policy operations
  MaxUninstalls,  \* bound on runs of the uninstaller
  MaxFaults,   \* bound on failing calls
  MaxCrashes   \* bound on crashes

FaultKinds == {"apply", "restore", "verify", "undo", "update", "detect"}

ASSUME TargetsAreNodes == Targets \subseteq (SUBSET Nodes) \ {{}}
ASSUME KindsKnown == Kinds \subseteq {"run", "manual"}
ASSUME FaultsKnown == Faults \subseteq FaultKinds
ASSUME BoundsNat ==
  /\ MaxOps \in Nat /\ MaxUninstalls \in Nat
  /\ MaxFaults \in Nat /\ MaxCrashes \in Nat

VARIABLES
  file,        \* the content of every adapter's file
  mem, disk,   \* the state store in memory and its file
  proc,        \* the process that runs: "down", "daemon" or "cleanup"
  op,          \* the operation in progress
  issued,      \* receipts issued so far: the identifiers
  ops, uninstalls, faults, crashes,
  committed,   \* the contents of the last commit or uninstall (history)
  exempt       \* adapters with one of the known gaps below (history)

vars == <<file, mem, disk, proc, op, issued, ops, uninstalls, faults, crashes, committed, exempt>>

\* A file has the nodes of the policy last applied to it.
Contents == SUBSET Nodes
Original == {}

Receipt == [id : Nat, adapter : Adapters, previous : Contents, applied : Contents]

\* state.PendingPolicy: nil, or its receipts; state.Policy: nil, or its nodes
\* and receipts.
Closed == [open |-> FALSE, receipts |-> {}]
Holding(receipts) == [open |-> TRUE, receipts |-> receipts]
NoPolicy == [open |-> FALSE, nodes |-> {}, receipts |-> {}]
Policy(nodes, receipts) == [open |-> TRUE, nodes |-> nodes, receipts |-> receipts]
EmptyStore == [policy |-> NoPolicy, pending |-> Closed]

Steps == {"idle", "begin", "adapter", "record", "verify", "applied", "system",
          "commit", "undo", "recover", "uninstall"}

\* plan: the policies still to apply; todo: the adapters left in this Apply;
\* done, result: the receipts of the transition and of this Apply;
\* undo, group: the receipts left of the group being undone, and the group;
\* bad: an undo of the group failed.
Idle == [pc |-> "idle", kind |-> "none", plan |-> <<>>, todo |-> {}, done |-> {},
         result |-> {}, undo |-> {}, group |-> {}, bad |-> FALSE]

Init ==
  /\ file = [a \in Adapters |-> Original]
  /\ mem = EmptyStore /\ disk = EmptyStore
  /\ proc = "daemon" /\ op = Idle
  /\ issued = 0 /\ ops = 0 /\ uninstalls = 0 /\ faults = 0 /\ crashes = 0
  /\ committed = file
  /\ exempt = {}

-----------------------------------------------------------------------------
(* Helpers *)

At(step) == op.pc = step
Changed(r) == r.previous # r.applied
Newest(receipts) == CHOOSE r \in receipts : \A q \in receipts : q.id <= r.id

NoFault == UNCHANGED faults
Fault(kind) == kind \in Faults /\ faults < MaxFaults /\ faults' = faults + 1

\* store.Update: the new state is written and then published.  A failed write
\* publishes nothing, but leaves what the change wrote through the pointer to
\* the pending transaction (leaked).
Update(next) == NoFault /\ mem' = next /\ disk' = next
UpdateFails(leaked) == Fault("update") /\ mem' = leaked /\ UNCHANGED disk

\* Undo a group of receipts, newest first; an empty one is nothing to do.
Undoing(o, receipts) ==
  [o EXCEPT !.pc = "undo", !.undo = receipts, !.group = receipts, !.bad = FALSE]

\* Coordinator.Rollback of the transition, once the failed Apply is undone.
RollbackDone(o) ==
  IF o.done = {} THEN Idle ELSE Undoing([o EXCEPT !.done = {}], o.done)

\* rollbackAll: undo this Apply's receipts.
rollbackAll(o) == Undoing([o EXCEPT !.result = {}], o.result)

\* Rollback of everything the operation applied.
RollbackCombined(o) ==
  IF o.done \cup o.result = {} THEN Idle
  ELSE Undoing([o EXCEPT !.done = {}, !.result = {}], o.done \cup o.result)

-----------------------------------------------------------------------------
(* The journal *)

\* Begin opens a transaction; one that is still open is continued.
Begun(s) == IF s.pending.open THEN s ELSE [s EXCEPT !.pending = Holding({})]

Recorded(s, r) == [s EXCEPT !.pending = Holding(s.pending.receipts \cup {r})]

Removed(s, group) ==
  LET ids == {r.id : r \in group}
      remaining == {r \in s.pending.receipts : r.id \notin ids}
  IN  [s EXCEPT !.pending =
         IF s.pending.open /\ remaining # {} THEN Holding(remaining) ELSE Closed]

-----------------------------------------------------------------------------
(* Coordinator.Apply *)

\* A run changes to its policy v over a transition that keeps the nodes of the
\* stored one; a refresh and a manual mapping apply v directly.
PlansFor(kind, v) ==
  LET transition == v \cup mem.policy.nodes IN
  {<<v>>} \cup (IF kind = "run" /\ transition # v THEN {<<transition, v>>} ELSE {})

Start(kind, v) ==
  /\ proc = "daemon" /\ At("idle") /\ ops < MaxOps
  /\ ops' = ops + 1
  /\ \E plan \in PlansFor(kind, v) :
       op' = [Idle EXCEPT !.pc = "begin", !.kind = kind, !.plan = plan]
  /\ UNCHANGED <<file, mem, disk, proc, issued, uninstalls, faults, crashes, committed, exempt>>

\* The active adapters are detected anew by every Apply.
BeginApply(active) ==
  /\ At("begin") /\ active # {}
  /\ \/ NoFault /\ active = Adapters
     \/ Fault("detect") /\ active # Adapters
  /\ mem' = Begun(mem) /\ disk' = Begun(mem)
  /\ op' = [op EXCEPT !.pc = "adapter", !.todo = active, !.result = {}]
  /\ UNCHANGED <<file, proc, issued, ops, uninstalls, crashes, committed, exempt>>

\* No active adapter, or the journal cannot be opened: nothing was applied.
BeginFails ==
  /\ At("begin")
  /\ \/ Fault("detect") /\ UNCHANGED <<mem, disk>>
     \/ UpdateFails(mem)
  /\ op' = RollbackDone(op)
  /\ UNCHANGED <<file, proc, issued, ops, uninstalls, crashes, committed, exempt>>

ApplyAdapter(a) ==
  /\ At("adapter") /\ a \in op.todo
  /\ file' = [file EXCEPT ![a] = op.plan[1]]
  /\ issued' = issued + 1
  /\ op' = [op EXCEPT !.pc = "record", !.todo = @ \ {a},
              !.result = @ \cup {[id |-> issued', adapter |-> a, previous |-> file[a],
                                  applied |-> op.plan[1]]}]
  /\ UNCHANGED <<mem, disk, proc, ops, uninstalls, faults, crashes, committed, exempt>>

\* Planning, validating or reloading fails.  The adapter restores its file and
\* ignores an error of that (known gap 1: the change has no receipt).
ApplyAdapterFails(a) ==
  /\ At("adapter") /\ a \in op.todo
  /\ \/ Fault("apply") /\ UNCHANGED <<file, exempt>>
     \/ /\ Fault("restore") /\ file[a] # op.plan[1]
        /\ file' = [file EXCEPT ![a] = op.plan[1]]
        /\ exempt' = exempt \cup {a}
  /\ op' = rollbackAll(op)
  /\ UNCHANGED <<mem, disk, proc, issued, ops, uninstalls, crashes, committed>>

\* A mutant of RecordReceipt (ChangesAreCovered): the receipt is only kept by
\* the running operation.
RecordReceiptLater ==
  /\ At("record")
  /\ op' = [op EXCEPT !.pc = "verify"]
  /\ UNCHANGED <<file, mem, disk, proc, issued, ops, uninstalls, faults, crashes, committed, exempt>>

RecordReceipt ==
  /\ At("record")
  /\ LET recorded == Recorded(mem, Newest(op.result)) IN
       \/ Update(recorded) /\ op' = [op EXCEPT !.pc = "verify"]
       \/ UpdateFails(recorded) /\ op' = rollbackAll(op)
  /\ UNCHANGED <<file, proc, issued, ops, uninstalls, crashes, committed, exempt>>

VerifyAdapter ==
  /\ At("verify")
  /\ \/ NoFault /\ op' = [op EXCEPT !.pc = IF op.todo = {} THEN "applied" ELSE "adapter"]
     \/ Fault("verify") /\ op' = rollbackAll(op)
  /\ UNCHANGED <<file, mem, disk, proc, issued, ops, uninstalls, crashes, committed, exempt>>

-----------------------------------------------------------------------------
(* The runner: from the transition to the final policy, to the commit. *)

\* A mutant of NextPolicy (ImplementsAtomicPolicy): the transition is enough.
NextPolicyIsTransition ==
  /\ At("applied")
  /\ op' = [op EXCEPT !.pc = "system"]
  /\ UNCHANGED <<file, mem, disk, proc, issued, ops, uninstalls, faults, crashes, committed, exempt>>

NextPolicy ==
  /\ At("applied")
  /\ op' = IF Len(op.plan) = 1 THEN [op EXCEPT !.pc = "system"]
           ELSE [op EXCEPT !.pc = "begin", !.plan = Tail(@),
                           !.done = op.result, !.result = {}]
  /\ UNCHANGED <<file, mem, disk, proc, issued, ops, uninstalls, faults, crashes, committed, exempt>>

\* VerifyApplied and removeObsoletePolicyRoutes.
VerifySystem ==
  /\ At("system")
  /\ \/ NoFault /\ op' = [op EXCEPT !.pc = "commit"]
     \/ Fault("verify") /\ op' = RollbackCombined(op)
  /\ UNCHANGED <<file, mem, disk, proc, issued, ops, uninstalls, crashes, committed, exempt>>

\* A manual mapping is merged into the stored policy.
CommittedNodes(s) == op.plan[1] \cup (IF op.kind = "manual" THEN s.policy.nodes ELSE {})

\* A mutant of CommittedStore (RecoveryRestores): a commit leaves the journal
\* as it is.
CommittedStoreKeepsPending(s) ==
  [policy |-> Policy(CommittedNodes(s), s.policy.receipts \cup op.done \cup op.result),
   pending |-> s.pending]

\* persistSuccessfulRun and the refresh close the journal; the operation that
\* applies only manual mappings does not.
CommittedStore(s) ==
  [policy |-> Policy(CommittedNodes(s), s.policy.receipts \cup op.done \cup op.result),
   pending |-> IF op.kind = "manual" THEN s.pending ELSE Closed]

\* The adapters the final policy was applied to; the others keep what they had.
Touched == {r.adapter : r \in op.result}

\* Known gap 2: a manual commit leaves its own receipts pending.  Known gap 3:
\* a run closes the journal although an adapter its final policy did not reach
\* has a change that was not undone, or the transition.
Forgotten ==
  IF op.kind = "manual" THEN Touched
  ELSE {a \in Adapters \ Touched : file[a] # committed[a]}

\* Known gap 4: the chain then has a receipt missing, so the uninstaller cannot
\* go back to the original content through it: the first receipt of the
\* operation for an adapter does not begin with the committed content.
Unlinked ==
  {a \in Adapters :
     \E r \in op.done \cup op.result :
       /\ r.adapter = a /\ r.previous # committed[a]
       /\ \A q \in op.done \cup op.result : q.adapter = a => r.id <= q.id}

Commit ==
  /\ At("commit")
  /\ \/ /\ Update(CommittedStore(mem))
        /\ committed' = [a \in Adapters |-> IF a \in Touched THEN file[a] ELSE committed[a]]
        /\ exempt' = exempt \cup Forgotten \cup Unlinked
        /\ op' = Idle
     \/ /\ UpdateFails(mem)
        /\ op' = RollbackCombined(op)
        /\ UNCHANGED <<committed, exempt>>
  /\ UNCHANGED <<file, proc, issued, ops, uninstalls, crashes>>

-----------------------------------------------------------------------------
(* Undoing receipts *)

\* A mutant of Undo (RecoveryTerminates): a receipt that is already undone is
\* refused.
UndoOnlyApplied(r, failing) ==
  \/ /\ ~failing /\ NoFault
     /\ ~Changed(r) \/ file[r.adapter] = r.applied
     /\ file' = IF Changed(r) THEN [file EXCEPT ![r.adapter] = r.previous] ELSE file
  \/ /\ failing /\ NoFault /\ UNCHANGED file
     /\ Changed(r) /\ file[r.adapter] # r.applied
  \/ /\ failing /\ Fault("undo")
     /\ Changed(r) /\ file[r.adapter] = r.applied
     /\ file' \in {file, [file EXCEPT ![r.adapter] = r.previous]}

\* adapter.Rollback: nothing to do, or the file still has the applied content
\* and gets the previous one (the write or the reload after it may fail), or
\* the receipt is refused.
Undo(r, failing) ==
  \/ /\ ~failing /\ NoFault
     /\ ~Changed(r) \/ file[r.adapter] \in {r.previous, r.applied}
     /\ file' = IF Changed(r) THEN [file EXCEPT ![r.adapter] = r.previous] ELSE file
  \/ /\ failing /\ NoFault /\ UNCHANGED file
     /\ Changed(r) /\ file[r.adapter] \notin {r.previous, r.applied}
  \/ /\ failing /\ Fault("undo")
     /\ Changed(r) /\ file[r.adapter] = r.applied
     /\ file' \in {file, [file EXCEPT ![r.adapter] = r.previous]}

\* Known gap 5: a change whose receipt could not be recorded is not undone.
Unrecoverable(r) == IF r \in disk.pending.receipts THEN {} ELSE {r.adapter}

UndoOne ==
  /\ op.pc \in {"undo", "recover", "uninstall"} /\ op.undo # {}
  /\ LET r == Newest(op.undo) IN
       \/ /\ Undo(r, FALSE)
          /\ op' = [op EXCEPT !.undo = @ \ {r}]
          /\ UNCHANGED exempt
       \/ /\ Undo(r, TRUE)
          /\ op' = [op EXCEPT !.undo = @ \ {r}, !.bad = TRUE]
          /\ exempt' = exempt \cup (IF At("undo") THEN Unrecoverable(r) ELSE {})
  /\ UNCHANGED <<mem, disk, proc, issued, ops, uninstalls, crashes, committed>>

\* A mutant of UndoEnds (QuietIsCommitted): the group leaves the journal even
\* if some of it could not be undone.
UndoEndsUnchecked ==
  /\ At("undo") /\ op.undo = {}
  /\ LET removed == Removed(mem, op.group) IN
       Update(removed) \/ UpdateFails(IF removed.pending.open THEN removed ELSE mem)
  /\ op' = RollbackDone(op)
  /\ UNCHANGED <<file, proc, issued, ops, uninstalls, crashes, committed, exempt>>

\* Known gap 8: receipts of the final policy that could not all be undone stay
\* in the journal, and the transition under them leaves it.  The one that is
\* left goes back to the transition's content.
Stranded ==
  {a \in Adapters :
     \E r \in mem.pending.receipts \ op.group, d \in op.group :
       r.adapter = a /\ d.adapter = a /\ Changed(r) /\ Changed(d) /\ d.id < r.id}

\* The group leaves the journal if all of it was undone.
UndoEnds ==
  /\ At("undo") /\ op.undo = {}
  /\ LET removed == Removed(mem, op.group) IN
       \/ op.bad /\ NoFault /\ UNCHANGED <<mem, disk, exempt>>
       \/ /\ ~op.bad /\ exempt' = exempt \cup Stranded
          /\ Update(removed) \/ UpdateFails(IF removed.pending.open THEN removed ELSE mem)
  /\ op' = RollbackDone(op)
  /\ UNCHANGED <<file, proc, issued, ops, uninstalls, crashes, committed>>

-----------------------------------------------------------------------------
(* Crash, recovery at start-up, uninstall *)

Exits == proc' = "down" /\ op' = Idle /\ mem' = EmptyStore

\* Receipts the operation holds and the file of the store does not have: the
\* one just issued, or those being undone after a failed write.
Unrecorded ==
  LET held == IF At("record") THEN {Newest(op.result)}
              ELSE IF At("undo") THEN op.undo ELSE {} IN
  {r.adapter : r \in held \ disk.pending.receipts}

\* Known gap 7: an uninstall that fails leaves the committed policy in force on
\* some adapters only.
PartlyUninstalled ==
  IF At("uninstall") THEN {a \in Adapters : file[a] # committed[a]} ELSE {}

\* Known gap 6: a crash between adapter.Apply and journal.Record.
Crash ==
  /\ proc # "down" /\ crashes < MaxCrashes
  /\ crashes' = crashes + 1
  /\ Exits
  /\ exempt' = exempt \cup Unrecorded \cup PartlyUninstalled
  /\ UNCHANGED <<file, disk, issued, ops, uninstalls, faults, committed>>

Recovering(p) ==
  /\ proc' = p /\ mem' = disk
  /\ op' = [Idle EXCEPT !.pc = "recover", !.undo = disk.pending.receipts,
                        !.group = disk.pending.receipts]

StartDaemon ==
  /\ proc = "down"
  /\ Recovering("daemon")
  /\ UNCHANGED <<file, disk, issued, ops, uninstalls, faults, crashes, committed, exempt>>

\* The uninstaller runs when the service is stopped.
StartCleanup ==
  /\ uninstalls < MaxUninstalls
  /\ proc = "down" \/ (proc = "daemon" /\ At("idle"))
  /\ uninstalls' = uninstalls + 1
  /\ Recovering("cleanup")
  /\ UNCHANGED <<file, disk, issued, ops, faults, crashes, committed, exempt>>

\* RecoverPendingPolicy: the journal is cleared if all of it was undone; any
\* error ends the process.
RecoverEnds ==
  /\ At("recover") /\ op.undo = {}
  /\ \/ /\ op.bad /\ NoFault /\ UNCHANGED disk /\ Exits
     \/ /\ ~op.bad /\ Update([mem EXCEPT !.pending = Closed])
        /\ UNCHANGED proc
        /\ op' = IF proc = "daemon" THEN Idle
                 ELSE [Idle EXCEPT !.pc = "uninstall", !.undo = mem.policy.receipts,
                                   !.group = mem.policy.receipts]
     \/ /\ ~op.bad /\ mem.pending.open /\ Fault("update") /\ UNCHANGED disk /\ Exits
  /\ UNCHANGED <<file, issued, ops, uninstalls, crashes, committed, exempt>>

\* A mutant of UninstallEnds (UninstallRestores): the policy is forgotten even
\* if some of its chain could not be undone.
UninstallEndsUnchecked ==
  /\ At("uninstall") /\ op.undo = {}
  /\ NoFault
  /\ disk' = EmptyStore
  /\ committed' = [a \in Adapters |-> Original]
  /\ Exits
  /\ UNCHANGED <<file, issued, ops, uninstalls, crashes, exempt>>

\* CleanupManagedPolicy forgets the policy if its whole chain was undone.
UninstallEnds ==
  /\ At("uninstall") /\ op.undo = {}
  /\ \/ /\ ~op.bad /\ NoFault
        /\ disk' = EmptyStore
        /\ committed' = [a \in Adapters |-> Original]
        /\ UNCHANGED exempt
     \/ /\ (op.bad /\ NoFault) \/ (~op.bad /\ Fault("update"))
        /\ exempt' = exempt \cup PartlyUninstalled
        /\ UNCHANGED <<disk, committed>>
  /\ Exits
  /\ UNCHANGED <<file, issued, ops, uninstalls, crashes>>

-----------------------------------------------------------------------------

OperationStep ==
  \/ \E active \in SUBSET Adapters : BeginApply(active)
  \/ BeginFails
  \/ \E a \in Adapters : ApplyAdapter(a) \/ ApplyAdapterFails(a)
  \/ RecordReceipt \/ VerifyAdapter \/ NextPolicy \/ VerifySystem \/ Commit
  \/ UndoOne \/ UndoEnds \/ RecoverEnds \/ UninstallEnds

Next ==
  \/ \E kind \in Kinds, v \in Targets : Start(kind, v)
  \/ OperationStep
  \/ Crash \/ StartDaemon \/ StartCleanup

Spec == Init /\ [][Next]_vars

\* A started operation goes on and the service manager restarts the daemon.
FairSpec == Spec /\ WF_vars(OperationStep) /\ WF_vars(StartDaemon)
-----------------------------------------------------------------------------
(* Properties *)

\* The types of the variables; receipts have identifiers of their own.
Store == [policy : [open : BOOLEAN, nodes : Contents, receipts : SUBSET Receipt],
          pending : [open : BOOLEAN, receipts : SUBSET Receipt]]

Operation ==
  [pc : Steps, kind : Kinds \cup {"none"}, plan : Seq(Contents), todo : SUBSET Adapters,
   done : SUBSET Receipt, result : SUBSET Receipt, undo : SUBSET Receipt,
   group : SUBSET Receipt, bad : BOOLEAN]

Distinct(receipts) == \A r, q \in receipts : r.id = q.id => r = q

TypeOK ==
  /\ file \in [Adapters -> Contents] /\ committed \in [Adapters -> Contents]
  /\ mem \in Store /\ disk \in Store
  /\ proc \in {"down", "daemon", "cleanup"}
  /\ op \in Operation /\ op.undo \subseteq op.group
  /\ issued \in Nat /\ exempt \subseteq Adapters
  /\ ops \in Nat /\ uninstalls \in Nat /\ faults \in Nat /\ crashes \in Nat
  /\ Distinct(mem.pending.receipts) /\ Distinct(mem.policy.receipts)

\* The content of the adapter's file once the receipts are undone newest first,
\* refused ones skipped.
Replayed(receipts, a) ==
  LET content[i \in 0..issued] ==
        IF i = 0 THEN file[a]
        ELSE LET undone == {r \in receipts : /\ r.id = issued + 1 - i /\ r.adapter = a
                                              /\ r.applied = content[i - 1]}
             IN IF undone = {} THEN content[i - 1] ELSE (CHOOSE r \in undone : TRUE).previous
  IN content[issued]

\* Whenever the process may die, the journal in the file can take every adapter
\* back to what was committed, except for the receipt being recorded and while
\* the committed policy itself is being undone.
ChangesAreCovered ==
  ~At("uninstall") =>
    \A a \in Adapters \ (exempt \cup Unrecorded) :
      Replayed(disk.pending.receipts, a) = committed[a]

\* With nothing pending and nothing running, every adapter has exactly what was
\* committed: failed operations, and operations after them, left nothing.
QuietIsCommitted ==
  proc = "daemon" /\ At("idle") /\ ~mem.pending.open =>
    \A a \in Adapters \ exempt : file[a] = committed[a]

\* A recovery that succeeds leaves the contents of the last commit.
RecoveryRestores ==
  [][At("recover") /\ proc' = "daemon" /\ op'.pc = "idle" =>
       \A a \in Adapters \ exempt : file'[a] = committed[a]]_vars

\* An uninstall that succeeds leaves the contents from before the first policy.
UninstallRestores ==
  [][At("uninstall") /\ ~disk'.policy.open /\ disk.policy.open =>
       \A a \in Adapters \ exempt : file'[a] = Original]_vars

\* Undone newest first, no receipt is refused: each finds what it left, or what
\* it found.
CanBeUndone(receipts) ==
  \A r \in {q \in receipts : Changed(q)} :
    Replayed({q \in receipts : q.id > r.id}, r.adapter) \in {r.previous, r.applied}

\* Known gap 9: two changes of one adapter were undone and are still pending, so
\* that the newer one is refused for ever.
UndoneTogether ==
  \E older, newer \in {r \in disk.pending.receipts : Changed(r)} :
    /\ older.adapter = newer.adapter /\ older.id < newer.id
    /\ file[older.adapter] = older.previous
    /\ file[newer.adapter] \notin {newer.previous, newer.applied}

Serving == proc = "daemon" /\ ~At("recover")

\* A daemon that died is serving again once calls stop failing, over any chain of
\* receipts and even if it dies during recovery: a recovery can be repeated from
\* any point but that between the end of a chain of changes of one adapter and
\* the write that forgets them.
RecoveryTerminates ==
  (proc = "down" /\ CanBeUndone(disk.pending.receipts)) ~>
    (Serving \/ (proc = "down" /\ UndoneTogether))

\* store.go says that pending receipts are the ones not committed yet.
PendingIsUncommitted ==
  mem.pending.receipts \cap mem.policy.receipts = {}

-----------------------------------------------------------------------------
(* The abstract specification *)

\* The policy the operation is to end with, while it has not failed.
Requested ==
  IF op.pc \in {"begin", "adapter", "record", "verify", "applied", "system", "commit"}
  THEN {op.plan[Len(op.plan)]} ELSE {}

Settled == proc = "daemon" /\ At("idle") /\ ~mem.pending.open

Atomic == INSTANCE AtomicPolicy WITH
  policy <- committed, content <- file, asked <- Requested, settled <- Settled,
  trusted <- Adapters \ exempt

\* The coordinator, the journal and the recovery together keep what
\* AtomicPolicy promises: every step of the code is one of its steps or none.
ImplementsAtomicPolicy == Atomic!Spec
=============================================================================
