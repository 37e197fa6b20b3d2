--------------------------- MODULE RouteController ---------------------------
(***************************************************************************)
(* The route transactions of internal/network/route.go.                    *)
(*                                                                         *)
(* The controller changes the routing table of the system under a journal  *)
(* of transactions, kept in memory (mem) and written to a file as a whole  *)
(* after every change (disk).  A transaction is journaled as "planned"     *)
(* before the table is touched; after a crash the next daemon loads the    *)
(* file and undoes, oldest first, what transactionNeedsRecovery selects.   *)
(*                                                                         *)
(* Operations hold the controller's mutex, so one runs at a time (pc); a   *)
(* crash may come between any two of its steps.  Every call to the system  *)
(* may fail, with or without its effect (a command that is killed at its   *)
(* timeout may have done its work), and so may every write of the journal. *)
(***************************************************************************)
EXTENDS Integers, Sequences, FiniteSets

CONSTANTS
  Prefixes,    \* route prefixes
  Gateways,    \* the routes a prefix may have, told apart by their gateway
  NoRoute,     \* the prefix has no route of its own
  InitialTable,  \* the routes before the daemon is installed
  Faults,      \* which calls may fail: subset of FaultKinds
  MaxPlans,    \* bound on the plans that wait to be applied
  MaxTxns,     \* bound on the transactions journaled in a behaviour
  MaxFaults,   \* bound on failing calls
  MaxCrashes   \* bound on crashes of the daemon

FaultKinds == {"change", "undo", "query", "persist"}

ASSUME NoRouteIsNoGateway == NoRoute \notin Gateways
ASSUME InitialTableType == InitialTable \in [Prefixes -> Gateways \cup {NoRoute}]
ASSUME FaultsKnown == Faults \subseteq FaultKinds
ASSUME BoundsNat == MaxPlans \in Nat /\ MaxTxns \in Nat /\ MaxFaults \in Nat /\ MaxCrashes \in Nat

VARIABLES
  table,       \* the system's routing table
  plans,       \* what callers have planned and not yet applied
  mem, disk,   \* the journal in memory and in its file
  up,          \* the daemon runs
  pc,          \* the step the current operation is at
  cur,         \* its transaction, or how far recovery has come
  failed,      \* recovery met an error
  faults, crashes,
  accepted,    \* what the callers were told: the values a prefix may have once
               \* every temporary or unfinished change is undone (history)
  exempt       \* prefixes with one of the known gaps below (history)

vars == <<table, plans, mem, disk, up, pc, cur, failed, faults, crashes, accepted, exempt>>

Values == Gateways \cup {NoRoute}

States == {"planned", "applied", "verified", "rolled_back", "rollback_failed",
           "apply_failed", "recovered", "recovery_failed"}

Transaction ==
  [operation : {"replace", "delete"}, prefix : Prefixes, route : Values,
   previous : Values, temporary : BOOLEAN, state : States]

ChangePlan == [prefix : Prefixes, route : Gateways, previous : Values, temporary : BOOLEAN]

Init ==
  /\ table = InitialTable
  /\ plans = {}
  /\ mem = <<>> /\ disk = <<>>
  /\ up = TRUE /\ pc = "idle" /\ cur = 0 /\ failed = FALSE
  /\ faults = 0 /\ crashes = 0
  /\ accepted = [p \in Prefixes |-> {table[p]}]
  /\ exempt = {}

-----------------------------------------------------------------------------
(* The calls to the system and to the journal's file. *)

NoFault == UNCHANGED faults
Fault(kind) == kind \in Faults /\ faults < MaxFaults /\ faults' = faults + 1

\* The table after a call that sets p to v and was reported to fail.
MaybeSet(p, v) == {table, [table EXCEPT ![p] = v]}

\* backend.Replace and backend.Delete of the change itself.
change(p, v, ok) ==
  \/ ok /\ NoFault /\ table' = [table EXCEPT ![p] = v]
  \/ ~ok /\ Fault("change") /\ table' \in MaybeSet(p, v)

\* A mutant of rollback (RestartReachesReady): a route that is already gone is
\* reported as an error instead of being tolerated.
rollbackOfNothingFails(t, ok) ==
  LET nothing == t.previous = NoRoute /\ table[t.prefix] = NoRoute IN
  \/ ok /\ ~nothing /\ NoFault /\ table' = [table EXCEPT ![t.prefix] = t.previous]
  \/ ~ok /\ nothing /\ NoFault /\ UNCHANGED table
  \/ ~ok /\ Fault("undo") /\ table' \in MaybeSet(t.prefix, t.previous)

\* Restore the previous route, or delete the new one; ErrRouteNotFound is fine.
rollback(t, ok) ==
  \/ ok /\ NoFault /\ table' = [table EXCEPT ![t.prefix] = t.previous]
  \/ ~ok /\ Fault("undo") /\ table' \in MaybeSet(t.prefix, t.previous)

\* persist writes the whole journal, atomically, or leaves the old file.
persist(ok) ==
  \/ ok /\ NoFault /\ disk' = mem'
  \/ ~ok /\ Fault("persist") /\ UNCHANGED disk

\* Persisted and the operation goes on, or it fails and the operation ends.
persistOr(next, otherwise) ==
  \/ persist(TRUE) /\ pc' = next
  \/ persist(FALSE) /\ pc' = otherwise

At(step) == up /\ pc = step
Txn == mem[cur]
SetState(s) == mem' = [mem EXCEPT ![cur].state = s]

\* A mutant of transactionNeedsRecovery (RecoveryRestores): a recovery that
\* failed is not tried again.
needsRecoveryOnce(t) ==
  \/ t.state \in {"planned", "applied", "rollback_failed"}
  \/ t.temporary /\ t.state = "verified"

transactionNeedsRecovery(t) ==
  \/ t.state \in {"planned", "applied", "rollback_failed", "recovery_failed"}
  \/ t.temporary /\ t.state = "verified"

Owed(journal, p) ==
  {i \in DOMAIN journal : journal[i].prefix = p /\ transactionNeedsRecovery(journal[i])}

OwedOn(journal, p) == Owed(journal, p) # {}

\* Known gap 1: a transaction changes the prefix while a journal has another
\* one of it still to be undone: recovery undoes both, oldest first.  The other
\* one may even be finished in memory (the last write of a failed operation is
\* not checked), or refused because it could not be journaled (it stays
\* "planned" in memory).
Overlaps(journal, p, own) == IF Owed(journal, p) \ {own} # {} THEN {p} ELSE {}

\* Known gap 2: an operation reports failure and leaves a change behind that
\* its transaction does not show.
Forgets(p) == IF table'[p] \in accepted[p] THEN {} ELSE {p}

\* Known gap 3: the route a plan read is no longer one that was promised when
\* the plan is applied, because another operation came between: undoing the
\* transaction puts the older route back.
Outdated(t) == IF t.previous \in accepted[t.prefix] THEN {} ELSE {t.prefix}

-----------------------------------------------------------------------------
(* Plan, and Apply of what was planned. *)

\* A caller reads the route it is about to replace.  Plan takes no lock, so
\* this comes at any step of another operation, and any operation may come
\* between the plan and its Apply.  The generic adapter, the only caller for
\* permanent routes, skips a prefix that already has the route.
Plan(p, v, temporary) ==
  /\ up /\ pc # "recover"
  /\ temporary \/ table[p] # v
  /\ Cardinality(plans) < MaxPlans
  /\ plans' = plans \cup
       {[prefix |-> p, route |-> v, previous |-> table[p], temporary |-> temporary]}
  /\ UNCHANGED <<table, mem, disk, up, pc, cur, failed, faults, crashes, accepted, exempt>>

NewTransaction(operation, plan) ==
  [operation |-> operation, prefix |-> plan.prefix, route |-> plan.route,
   previous |-> plan.previous, temporary |-> plan.temporary, state |-> "planned"]

appendTransaction(t, next) ==
  /\ Len(mem) < MaxTxns
  /\ mem' = Append(mem, t)
  /\ cur' = Len(mem')
  /\ exempt' = exempt \cup Overlaps(mem, t.prefix, 0) \cup Outdated(t)
  /\ persistOr(next, "idle")

\* A mutant of BeginApply (ChangesAreJournaled): the planned transaction is
\* only kept in memory until the route is applied.
BeginApplyInMemory(plan) ==
  /\ At("idle")
  /\ Len(mem) < MaxTxns
  /\ mem' = Append(mem, NewTransaction("replace", plan))
  /\ cur' = Len(mem')
  /\ exempt' = exempt \cup Overlaps(mem, plan.prefix, 0) \cup Outdated(plan)
  /\ pc' = "replace"
  /\ plans' = plans \ {plan}
  /\ UNCHANGED <<table, disk, up, failed, faults, crashes, accepted>>

\* Apply journals the previous route of the plan as it is.
BeginApply(plan) ==
  /\ At("idle")
  /\ appendTransaction(NewTransaction("replace", plan), "replace")
  /\ plans' = plans \ {plan}
  /\ UNCHANGED <<table, up, failed, crashes, accepted>>

ReplaceRoute ==
  /\ At("replace")
  /\ \/ change(Txn.prefix, Txn.route, TRUE) /\ pc' = "mark"
     \/ change(Txn.prefix, Txn.route, FALSE) /\ pc' = "undo_replace"
  /\ UNCHANGED <<plans, mem, disk, up, cur, failed, crashes, accepted, exempt>>

\* A mutant of UndoReplace (ResidueIsRemembered): "rolled_back" is recorded
\* whatever the rollback returned.
undoReplaceUnchecked ==
  /\ At("undo_replace")
  /\ rollback(Txn, TRUE) \/ rollback(Txn, FALSE)
  /\ SetState("rolled_back")
  /\ pc' = "close"
  /\ UNCHANGED <<plans, disk, up, cur, failed, crashes, accepted, exempt>>

UndoReplace ==
  /\ At("undo_replace")
  /\ \/ rollback(Txn, TRUE) /\ SetState("rolled_back")
     \/ rollback(Txn, FALSE) /\ SetState("rollback_failed")
  /\ pc' = "close"
  /\ UNCHANGED <<plans, disk, up, cur, failed, crashes, accepted, exempt>>

MarkApplied ==
  /\ At("mark")
  /\ SetState("applied")
  /\ persistOr("verify", "undo_mark")
  /\ UNCHANGED <<table, plans, up, cur, failed, crashes, accepted, exempt>>

\* The error of this rollback is dropped; the transaction stays "applied".
UndoMark ==
  /\ At("undo_mark")
  /\ rollback(Txn, TRUE) \/ rollback(Txn, FALSE)
  /\ pc' = "idle"
  /\ UNCHANGED <<plans, mem, disk, up, cur, failed, crashes, accepted, exempt>>

\* The route is what the system selects; the caller is told so only if the
\* journal could be written.
Verified ==
  /\ At("verify")
  /\ SetState("verified")
  /\ \/ /\ persist(TRUE)
        /\ accepted' = IF Txn.temporary THEN accepted
                       ELSE [accepted EXCEPT ![Txn.prefix] = {Txn.route}]
        /\ UNCHANGED exempt
     \/ /\ persist(FALSE)
        /\ exempt' = exempt \cup (IF Txn.temporary THEN {} ELSE {Txn.prefix})
        /\ UNCHANGED accepted
  /\ pc' = "idle"
  /\ UNCHANGED <<table, plans, up, cur, failed, crashes>>

NotVerified ==
  /\ At("verify")
  /\ Fault("query")
  /\ pc' = "undo_verify"
  /\ UNCHANGED <<table, plans, mem, disk, up, cur, failed, crashes, accepted, exempt>>

\* "rolled_back" is recorded whether or not the rollback succeeded.
UndoVerify ==
  /\ At("undo_verify")
  /\ rollback(Txn, TRUE) \/ rollback(Txn, FALSE)
  /\ SetState("rolled_back")
  /\ exempt' = exempt \cup Forgets(Txn.prefix)
  /\ pc' = "close"
  /\ UNCHANGED <<plans, disk, up, cur, failed, crashes, accepted>>

\* The final write of a failed operation; its own error is dropped.
CloseFailed ==
  /\ At("close")
  /\ UNCHANGED mem
  /\ persist(TRUE) \/ persist(FALSE)
  /\ pc' = "idle"
  /\ UNCHANGED <<table, plans, up, cur, failed, crashes, accepted, exempt>>

-----------------------------------------------------------------------------
(* Remove.  A prefix without a route is a success that journals nothing. *)

Removal(p) == [prefix |-> p, route |-> NoRoute, previous |-> table[p], temporary |-> FALSE]

\* A mutant of BeginRemove (TypeOK): a prefix without a route is deleted too.
beginRemoveOfNothing(p) ==
  /\ At("idle")
  /\ appendTransaction(NewTransaction("delete", Removal(p)), "delete")
  /\ UNCHANGED <<table, plans, up, failed, crashes, accepted>>

BeginRemove(p) ==
  /\ At("idle")
  /\ table[p] # NoRoute
  /\ appendTransaction(NewTransaction("delete", Removal(p)), "delete")
  /\ UNCHANGED <<table, plans, up, failed, crashes, accepted>>

DeleteRoute ==
  /\ At("delete")
  /\ \/ /\ change(Txn.prefix, NoRoute, TRUE)
        /\ pc' = "mark_deleted"
        /\ UNCHANGED <<mem, exempt>>
     \/ /\ change(Txn.prefix, NoRoute, FALSE)
        /\ SetState("apply_failed")
        /\ exempt' = exempt \cup Forgets(Txn.prefix)
        /\ pc' = "close"
  /\ UNCHANGED <<plans, disk, up, cur, failed, crashes, accepted>>

\* A failed write ends the operation with the route deleted and the
\* transaction "applied", so that recovery brings the route back.
MarkDeleted ==
  /\ At("mark_deleted")
  /\ SetState("applied")
  /\ persistOr("check_deleted", "idle")
  /\ UNCHANGED <<table, plans, up, cur, failed, crashes, accepted, exempt>>

DeletionVerified ==
  /\ At("check_deleted")
  /\ SetState("verified")
  /\ \/ /\ persist(TRUE)
        /\ accepted' = [accepted EXCEPT ![Txn.prefix] = {NoRoute}]
        /\ UNCHANGED exempt
     \/ /\ persist(FALSE)
        /\ exempt' = exempt \cup {Txn.prefix}
        /\ UNCHANGED accepted
  /\ pc' = "idle"
  /\ UNCHANGED <<table, plans, up, cur, failed, crashes>>

\* The query fails: the previous route is put back, ignoring errors.
DeletionNotVerified ==
  /\ At("check_deleted")
  /\ Fault("query")
  /\ table' \in MaybeSet(Txn.prefix, Txn.previous)
  /\ SetState("rolled_back")
  /\ exempt' = exempt \cup Forgets(Txn.prefix)
  /\ pc' = "close"
  /\ UNCHANGED <<plans, disk, up, cur, failed, crashes, accepted>>

-----------------------------------------------------------------------------
(* Rollback by the owner of a transaction. *)

\* Owners hold the identifiers of transactions that were reported verified,
\* and undo those of one prefix newest first.
MayRollback(i) ==
  /\ mem[i].state \in {"verified", "rollback_failed"}
  /\ \A j \in i+1..Len(mem) :
       mem[j].prefix = mem[i].prefix => mem[j].state \notin {"verified", "rollback_failed"}

Rollback(i) ==
  /\ At("idle") /\ i \in DOMAIN mem /\ MayRollback(i)
  /\ LET t == mem[i]
         undone == IF t.temporary THEN accepted[t.prefix] ELSE {t.previous} IN
     \/ /\ rollback(t, TRUE)
        /\ mem' = [mem EXCEPT ![i].state = "rolled_back"]
        /\ accepted' = [accepted EXCEPT ![t.prefix] = undone]
     \/ /\ rollback(t, FALSE)
        /\ mem' = [mem EXCEPT ![i].state = "rollback_failed"]
        /\ accepted' = [accepted EXCEPT ![t.prefix] = @ \cup undone]
     /\ exempt' = exempt \cup Overlaps(mem, t.prefix, i) \cup Overlaps(disk, t.prefix, i)
  /\ cur' = i
  /\ pc' = "close"
  /\ UNCHANGED <<plans, disk, up, failed, crashes>>

-----------------------------------------------------------------------------
(* Crash, restart and recovery. *)

Crash ==
  /\ up /\ crashes < MaxCrashes
  /\ crashes' = crashes + 1
  /\ up' = FALSE /\ plans' = {} /\ mem' = <<>> /\ pc' = "idle" /\ cur' = 0 /\ failed' = FALSE
  /\ UNCHANGED <<table, disk, faults, accepted, exempt>>

\* The daemon loads the journal and recovers before it serves anything.
Start ==
  /\ ~up
  /\ up' = TRUE /\ mem' = disk /\ pc' = "recover" /\ cur' = 0 /\ failed' = FALSE
  /\ UNCHANGED <<table, plans, disk, faults, crashes, accepted, exempt>>

RemainingFrom(i) == {j \in i+1..Len(mem) : transactionNeedsRecovery(mem[j])}

RecoverOne ==
  /\ At("recover")
  /\ \E i \in RemainingFrom(cur) :
       /\ \A j \in RemainingFrom(cur) : i <= j
       /\ \/ /\ rollback(mem[i], TRUE)
             /\ mem' = [mem EXCEPT ![i].state = "recovered"]
             /\ UNCHANGED failed
          \/ /\ rollback(mem[i], FALSE)
             /\ mem' = [mem EXCEPT ![i].state = "recovery_failed"]
             /\ failed' = TRUE
       /\ cur' = i
  /\ UNCHANGED <<plans, disk, up, pc, crashes, accepted, exempt>>

\* One write for all; any error makes the daemon give up its start.
RecoverEnds ==
  /\ At("recover")
  /\ RemainingFrom(cur) = {}
  /\ UNCHANGED mem
  /\ \/ persist(TRUE) /\ up' = ~failed
     \/ persist(FALSE) /\ up' = FALSE
  /\ pc' = "idle" /\ cur' = 0 /\ failed' = FALSE
  /\ UNCHANGED <<table, plans, crashes, accepted, exempt>>

-----------------------------------------------------------------------------

OperationStep ==
  \/ ReplaceRoute \/ UndoReplace \/ MarkApplied \/ UndoMark
  \/ Verified \/ NotVerified \/ UndoVerify \/ CloseFailed
  \/ DeleteRoute \/ MarkDeleted \/ DeletionVerified \/ DeletionNotVerified
  \/ RecoverOne \/ RecoverEnds

Next ==
  \/ \E p \in Prefixes, v \in Gateways, temporary \in BOOLEAN : Plan(p, v, temporary)
  \/ \E plan \in plans : BeginApply(plan)
  \/ \E p \in Prefixes : BeginRemove(p)
  \/ \E i \in 1..MaxTxns : Rollback(i)
  \/ OperationStep
  \/ Crash \/ Start

Spec == Init /\ [][Next]_vars

\* A started operation goes on and the service manager restarts the daemon;
\* faults and crashes are bounded, so calls work from some point on.
FairSpec == Spec /\ WF_vars(OperationStep) /\ WF_vars(Start)

-----------------------------------------------------------------------------
(* Properties *)

\* The types of the variables; a replacement has a route to install, and a
\* deletion is permanent and knows the route to put back.
WellFormed(journal) ==
  \A i \in DOMAIN journal :
    IF journal[i].operation = "replace" THEN journal[i].route # NoRoute
    ELSE journal[i].previous # NoRoute /\ ~journal[i].temporary

TypeOK ==
  /\ table \in [Prefixes -> Values] /\ plans \subseteq ChangePlan
  /\ mem \in Seq(Transaction) /\ disk \in Seq(Transaction)
  /\ WellFormed(mem) /\ WellFormed(disk)
  /\ up \in BOOLEAN /\ failed \in BOOLEAN
  /\ cur \in 0..Len(mem)
  /\ accepted \in [Prefixes -> SUBSET Values]
  /\ exempt \subseteq Prefixes

\* At every point where the daemon may die, each prefix whose route is not one
\* its owners were promised has a transaction in the file that recovery undoes.
ChangesAreJournaled ==
  \A p \in Prefixes \ exempt : table[p] \notin accepted[p] => OwedOn(disk, p)

\* The same for a daemon that goes on: what it remembers between operations
\* covers every change a failed operation left behind.
ResidueIsRemembered ==
  up /\ pc = "idle" =>
    \A p \in Prefixes \ exempt : table[p] \notin accepted[p] => OwedOn(mem, p)

\* A recovery that reports success leaves every prefix with a route its owners
\* were promised: temporary and unfinished changes are gone, others are kept.
RecoveryRestores ==
  [][up /\ pc = "recover" /\ up' /\ pc' = "idle" =>
       \A p \in Prefixes \ exempt : table'[p] \in accepted'[p]]_vars

\* Once calls stop failing, a daemon that died is serving again: recovery ends
\* and nothing it left in the journal makes the next start fail.
RestartReachesReady == ~up ~> (up /\ pc # "recover")
==============================================================================
