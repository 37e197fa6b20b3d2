-------------------------- MODULE GateAndGuardProofs --------------------------
(***************************************************************************)
(* Safety of the operation gate, for every set of Runners and of           *)
(* goroutines, and of the guard, whose repairs are maintenance operations  *)
(* under that gate, with the Mihomo adapter's transactions, for every      *)
(* number of policies, changes by others, failing calls and crashes.       *)
(*                                                                         *)
(* The gate (GateInv): GateTypeOK, TokenConserved, MutexOwned and          *)
(* PendingCounts together are inductive; GateExclusive and                 *)
(* MaintenanceYields follow from them, and so does the refinement of       *)
(* GateContract.                                                           *)
(*                                                                         *)
(* The guard (IInv): RepairsCurrentPolicy follows a repair from the        *)
(* moment the gate is taken: the wanted policy is the desired one then     *)
(* (LockedPolicy), only an optimization that holds the gate changes the    *)
(* desired one, and the transaction keeps its target (RepairOfWanted).     *)
(* EditsSurvive follows a transaction's writes (WritesWhatItRead), and the *)
(* versions that others write (EditsInOrder).                              *)
(***************************************************************************)
EXTENDS OperationGate, GuardSupervisor, FiniteSetTheorems, TLAPS

-----------------------------------------------------------------------------
(* The operation gate *)

GateInv == GateTypeOK /\ TokenConserved /\ MutexOwned /\ PendingCounts

\* The calls of Run in progress on a Runner are finitely many.
LEMMA AnnouncedFinite ==
  ASSUME NEW g \in Runners
  PROVE  IsFiniteSet(Announced(g)) /\ Cardinality(Announced(g)) \in Nat
<1>1. Announced(g) \subseteq Runs
  BY DEF Announced
<1>2. QED
  BY <1>1, RunsFinite, FS_Subset, FS_CardinalityType

\* A step of a goroutine that is not a call or a return of Run leaves the set
\* of calls in progress alone.
LEMMA AnnouncedUnchanged ==
  ASSUME NEW g \in Runners,
         \A r \in Runs : (pc[r] # "idle") <=> (pc'[r] # "idle")
  PROVE  Announced(g)' = Announced(g)
BY DEF Announced

\* A call of Run adds its goroutine to the calls in progress.
LEMMA AnnounceCounts ==
  ASSUME GateTypeOK, PendingCounts, NEW r \in Runs, Announce(r)
  PROVE  PendingCounts'
<1> SUFFICES ASSUME NEW g \in Runners
             PROVE  pending'[g] = Cardinality(Announced(g)')
  BY DEF PendingCounts
<1>0. r \in Procs
  BY DEF Procs
<1>1. /\ pc[r] = "idle" /\ pc' = [pc EXCEPT ![r] = "announced"]
      /\ pending' = [pending EXCEPT ![runnerOf[r]] = @ + 1]
  BY DEF Announce, GoesTo
<1>2. CASE runnerOf[r] = g
  <2>1. Announced(g)' = Announced(g) \cup {r}
    BY <1>0, <1>1, <1>2 DEF Announced, GateTypeOK, Procs
  <2>2. r \notin Announced(g)
    BY <1>1 DEF Announced
  <2>3. Cardinality(Announced(g) \cup {r}) = Cardinality(Announced(g)) + 1
    BY <2>2, AnnouncedFinite, FS_AddElement
  <2>4. pending'[g] = pending[g] + 1
    BY <1>1, <1>2 DEF GateTypeOK
  <2>5. QED
    BY <2>1, <2>3, <2>4 DEF PendingCounts
<1>3. CASE runnerOf[r] # g
  <2>1. Announced(g)' = Announced(g)
    BY <1>0, <1>1, <1>3 DEF Announced, GateTypeOK, Procs
  <2>2. pending'[g] = pending[g]
    BY <1>1, <1>3 DEF GateTypeOK
  <2>3. QED
    BY <2>1, <2>2 DEF PendingCounts
<1>4. QED
  BY <1>2, <1>3

\* A return of Run removes its goroutine, which was counted: the counter was
\* positive and stays a natural number.
LEMMA LeaveCounts ==
  ASSUME GateTypeOK, PendingCounts, NEW r \in Runs, RunLeaves(r)
  PROVE  PendingCounts' /\ pending' \in [Runners -> Nat]
<1>0. r \in Procs /\ runnerOf[r] \in Runners
  BY RunnerOfType DEF Procs
<1>1. /\ pc[r] = "leaving" /\ pc' = [pc EXCEPT ![r] = "idle"]
      /\ pending' = [pending EXCEPT ![runnerOf[r]] = @ - 1]
  BY DEF RunLeaves, GoesTo
<1>2. \A g \in Runners : pending'[g] = Cardinality(Announced(g)')
  <2> SUFFICES ASSUME NEW g \in Runners
               PROVE  pending'[g] = Cardinality(Announced(g)')
    OBVIOUS
  <2>1. CASE runnerOf[r] = g
    <3>1. Announced(g)' = Announced(g) \ {r}
      BY <1>0, <1>1, <2>1 DEF Announced, GateTypeOK, Procs
    <3>2. r \in Announced(g)
      BY <1>1, <2>1 DEF Announced
    <3>3. Cardinality(Announced(g) \ {r}) = Cardinality(Announced(g)) - 1
      BY <3>2, AnnouncedFinite, FS_RemoveElement
    <3>4. pending'[g] = pending[g] - 1
      BY <1>1, <2>1 DEF GateTypeOK
    <3>5. QED
      BY <3>1, <3>3, <3>4 DEF PendingCounts
  <2>2. CASE runnerOf[r] # g
    <3>1. Announced(g)' = Announced(g)
      BY <1>0, <1>1, <2>2 DEF Announced, GateTypeOK, Procs
    <3>2. pending'[g] = pending[g]
      BY <1>1, <2>2 DEF GateTypeOK
    <3>3. QED
      BY <3>1, <3>2 DEF PendingCounts
  <2>3. QED
    BY <2>1, <2>2
<1>3. pending' \in [Runners -> Int]
  BY <1>0, <1>1 DEF GateTypeOK
<1>4. \A g \in Runners : Cardinality(Announced(g)') \in Nat
  <2> SUFFICES ASSUME NEW g \in Runners PROVE Cardinality(Announced(g)') \in Nat
    OBVIOUS
  <2>1. Announced(g)' \subseteq Runs
    BY DEF Announced
  <2>2. QED
    BY <2>1, RunsFinite, FS_Subset, FS_CardinalityType
<1>5. QED
  BY <1>2, <1>3, <1>4 DEF PendingCounts

\* Every step keeps the types; only the return of Run needs that the counter
\* counts.
LEMMA TypeStep ==
  ASSUME GateInv, [GateNext]_gateVars
  PROVE  GateTypeOK'
<1> USE RunnerOfType, RunsAreNotMaints DEF GateInv
<1>1. ASSUME NEW r \in Runs, Announce(r) \/ Cancel(r) \/ RunStep(r)
      PROVE  GateTypeOK'
  <2>1. CASE Announce(r)
    BY <2>1 DEF Announce, GoesTo, GateTypeOK, Procs, RunPC, MaintPC
  <2>2. CASE Cancel(r)
    BY <2>2 DEF Cancel, GateTypeOK, Procs, RunPC, MaintPC
  <2>3. CASE TryLock(r)
    BY <2>3 DEF TryLock, GoesTo, GateTypeOK, Procs, RunPC, MaintPC
  <2>4. CASE TryLockFails(r)
    BY <2>4 DEF TryLockFails, GoesTo, GateTypeOK, Procs, RunPC, MaintPC
  <2>5. CASE AcquireToken(r)
    BY <2>5 DEF AcquireToken, GoesTo, Receive, GateTypeOK, Procs, RunPC, MaintPC
  <2>6. CASE AcquireCancelled(r)
    BY <2>6 DEF AcquireCancelled, GoesTo, GateTypeOK, Procs, RunPC, MaintPC
  <2>7. CASE AcquireRecheck(r)
    BY <2>7 DEF AcquireRecheck, GoesTo, GateTypeOK, Procs, RunPC, MaintPC
  <2>8. CASE AcquireGivesBack(r)
    BY <2>8 DEF AcquireGivesBack, GoesTo, release, GateTypeOK, Procs, RunPC, MaintPC
  <2>9. CASE RunEnds(r)
    BY <2>9 DEF RunEnds, GoesTo, release, GateTypeOK, Procs, RunPC, MaintPC
  <2>10. CASE RunUnlocks(r)
    BY <2>10 DEF RunUnlocks, GoesTo, GateTypeOK, Procs, RunPC, MaintPC
  <2>11. CASE RunLeaves(r)
    BY <2>11, LeaveCounts DEF RunLeaves, GoesTo, GateTypeOK, Procs, RunPC, MaintPC
  <2>12. QED
    BY <1>1, <2>1, <2>2, <2>3, <2>4, <2>5, <2>6, <2>7, <2>8, <2>9, <2>10, <2>11 DEF RunStep
<1>2. ASSUME NEW m \in Maints, MaintCalls(m) \/ MaintStep(m)
      PROVE  GateTypeOK'
  <2>1. CASE MaintCalls(m)
    BY <2>1 DEF MaintCalls, GoesTo, GateTypeOK, Procs, RunPC, MaintPC
  <2>2. CASE MaintFirstCheck(m)
    BY <2>2 DEF MaintFirstCheck, GoesTo, GateTypeOK, Procs, RunPC, MaintPC
  <2>3. CASE MaintTryAcquire(m)
    BY <2>3 DEF MaintTryAcquire, GoesTo, Receive, GateTypeOK, Procs, RunPC, MaintPC
  <2>4. CASE MaintSecondCheck(m)
    BY <2>4 DEF MaintSecondCheck, GoesTo, GateTypeOK, Procs, RunPC, MaintPC
  <2>5. CASE MaintRefused(m)
    BY <2>5 DEF MaintRefused, GoesTo, release, GateTypeOK, Procs, RunPC, MaintPC
  <2>6. CASE MaintEnds(m)
    BY <2>6 DEF MaintEnds, GoesTo, release, GateTypeOK, Procs, RunPC, MaintPC
  <2>7. QED
    BY <1>2, <2>1, <2>2, <2>3, <2>4, <2>5, <2>6 DEF MaintStep
<1>3. CASE UNCHANGED gateVars
  BY <1>3 DEF gateVars, GateTypeOK, Procs, RunPC, MaintPC
<1>4. QED
  BY <1>1, <1>2, <1>3 DEF GateNext

\* Every receive and every send keeps the token at exactly one place.
LEMMA TokenStep ==
  ASSUME GateInv, [GateNext]_gateVars
  PROVE  TokenConserved'
<1> USE RunnerOfType, RunsAreNotMaints DEF GateInv
<1>1. ASSUME NEW r \in Runs, Announce(r) \/ Cancel(r) \/ RunStep(r)
      PROVE  TokenConserved'
  <2>1. CASE Announce(r)
    BY <2>1 DEF Announce, GoesTo, GateTypeOK, TokenConserved, HoldsToken, Procs
  <2>2. CASE Cancel(r)
    BY <2>2 DEF Cancel, GateTypeOK, TokenConserved, HoldsToken, Procs
  <2>3. CASE TryLock(r)
    BY <2>3 DEF TryLock, GoesTo, GateTypeOK, TokenConserved, HoldsToken, Procs
  <2>4. CASE TryLockFails(r)
    BY <2>4 DEF TryLockFails, GoesTo, GateTypeOK, TokenConserved, HoldsToken, Procs
  <2>5. CASE AcquireToken(r)
    BY <2>5 DEF AcquireToken, GoesTo, Receive, GateTypeOK, TokenConserved, HoldsToken, Procs
  <2>6. CASE AcquireCancelled(r)
    BY <2>6 DEF AcquireCancelled, GoesTo, GateTypeOK, TokenConserved, HoldsToken, Procs
  <2>7. CASE AcquireRecheck(r)
    BY <2>7 DEF AcquireRecheck, GoesTo, GateTypeOK, TokenConserved, HoldsToken, Procs
  <2>8. CASE AcquireGivesBack(r)
    BY <2>8 DEF AcquireGivesBack, GoesTo, release, GateTypeOK, TokenConserved, HoldsToken, Procs
  <2>9. CASE RunEnds(r)
    BY <2>9 DEF RunEnds, GoesTo, release, GateTypeOK, TokenConserved, HoldsToken, Procs
  <2>10. CASE RunUnlocks(r)
    BY <2>10 DEF RunUnlocks, GoesTo, GateTypeOK, TokenConserved, HoldsToken, Procs
  <2>11. CASE RunLeaves(r)
    BY <2>11 DEF RunLeaves, GoesTo, GateTypeOK, TokenConserved, HoldsToken, Procs
  <2>12. QED
    BY <1>1, <2>1, <2>2, <2>3, <2>4, <2>5, <2>6, <2>7, <2>8, <2>9, <2>10, <2>11 DEF RunStep
<1>2. ASSUME NEW m \in Maints, MaintCalls(m) \/ MaintStep(m)
      PROVE  TokenConserved'
  <2>1. CASE MaintCalls(m)
    BY <2>1 DEF MaintCalls, GoesTo, GateTypeOK, TokenConserved, HoldsToken, Procs
  <2>2. CASE MaintFirstCheck(m)
    BY <2>2 DEF MaintFirstCheck, GoesTo, GateTypeOK, TokenConserved, HoldsToken, Procs
  <2>3. CASE MaintTryAcquire(m)
    BY <2>3 DEF MaintTryAcquire, GoesTo, Receive, GateTypeOK, TokenConserved, HoldsToken, Procs
  <2>4. CASE MaintSecondCheck(m)
    BY <2>4 DEF MaintSecondCheck, GoesTo, GateTypeOK, TokenConserved, HoldsToken, Procs
  <2>5. CASE MaintRefused(m)
    BY <2>5 DEF MaintRefused, GoesTo, release, GateTypeOK, TokenConserved, HoldsToken, Procs
  <2>6. CASE MaintEnds(m)
    BY <2>6 DEF MaintEnds, GoesTo, release, GateTypeOK, TokenConserved, HoldsToken, Procs
  <2>7. QED
    BY <1>2, <2>1, <2>2, <2>3, <2>4, <2>5, <2>6 DEF MaintStep
<1>3. CASE UNCHANGED gateVars
  BY <1>3 DEF gateVars, GateTypeOK, TokenConserved, HoldsToken, Procs
<1>4. QED
  BY <1>1, <1>2, <1>3 DEF GateNext

\* Only TryLock gives runMutex to a goroutine, and only when nobody owns it.
LEMMA MutexStep ==
  ASSUME GateInv, [GateNext]_gateVars
  PROVE  MutexOwned'
<1> USE RunnerOfType, RunsAreNotMaints DEF GateInv
<1>1. ASSUME NEW r \in Runs, Announce(r) \/ Cancel(r) \/ RunStep(r)
      PROVE  MutexOwned'
  <2>1. CASE Announce(r)
    BY <2>1 DEF Announce, GoesTo, GateTypeOK, MutexOwned, HoldsMutex, Procs
  <2>2. CASE Cancel(r)
    BY <2>2 DEF Cancel, GateTypeOK, MutexOwned, HoldsMutex, Procs
  <2>3. CASE TryLock(r)
    BY <2>3 DEF TryLock, GoesTo, GateTypeOK, MutexOwned, HoldsMutex, Procs
  <2>4. CASE TryLockFails(r)
    BY <2>4 DEF TryLockFails, GoesTo, GateTypeOK, MutexOwned, HoldsMutex, Procs
  <2>5. CASE AcquireToken(r)
    BY <2>5 DEF AcquireToken, GoesTo, Receive, GateTypeOK, MutexOwned, HoldsMutex, Procs
  <2>6. CASE AcquireCancelled(r)
    BY <2>6 DEF AcquireCancelled, GoesTo, GateTypeOK, MutexOwned, HoldsMutex, Procs
  <2>7. CASE AcquireRecheck(r)
    BY <2>7 DEF AcquireRecheck, GoesTo, GateTypeOK, MutexOwned, HoldsMutex, Procs
  <2>8. CASE AcquireGivesBack(r)
    BY <2>8 DEF AcquireGivesBack, GoesTo, release, GateTypeOK, MutexOwned, HoldsMutex, Procs
  <2>9. CASE RunEnds(r)
    BY <2>9 DEF RunEnds, GoesTo, release, GateTypeOK, MutexOwned, HoldsMutex, Procs
  <2>10. CASE RunUnlocks(r)
    BY <2>10 DEF RunUnlocks, GoesTo, GateTypeOK, MutexOwned, HoldsMutex, Procs
  <2>11. CASE RunLeaves(r)
    BY <2>11 DEF RunLeaves, GoesTo, GateTypeOK, MutexOwned, HoldsMutex, Procs
  <2>12. QED
    BY <1>1, <2>1, <2>2, <2>3, <2>4, <2>5, <2>6, <2>7, <2>8, <2>9, <2>10, <2>11 DEF RunStep
<1>2. ASSUME NEW m \in Maints, MaintCalls(m) \/ MaintStep(m)
      PROVE  MutexOwned'
  <2>1. CASE MaintCalls(m)
    BY <2>1 DEF MaintCalls, GoesTo, GateTypeOK, MutexOwned, HoldsMutex, Procs
  <2>2. CASE MaintFirstCheck(m)
    BY <2>2 DEF MaintFirstCheck, GoesTo, GateTypeOK, MutexOwned, HoldsMutex, Procs
  <2>3. CASE MaintTryAcquire(m)
    BY <2>3 DEF MaintTryAcquire, GoesTo, Receive, GateTypeOK, MutexOwned, HoldsMutex, Procs
  <2>4. CASE MaintSecondCheck(m)
    BY <2>4 DEF MaintSecondCheck, GoesTo, GateTypeOK, MutexOwned, HoldsMutex, Procs
  <2>5. CASE MaintRefused(m)
    BY <2>5 DEF MaintRefused, GoesTo, release, GateTypeOK, MutexOwned, HoldsMutex, Procs
  <2>6. CASE MaintEnds(m)
    BY <2>6 DEF MaintEnds, GoesTo, release, GateTypeOK, MutexOwned, HoldsMutex, Procs
  <2>7. QED
    BY <1>2, <2>1, <2>2, <2>3, <2>4, <2>5, <2>6 DEF MaintStep
<1>3. CASE UNCHANGED gateVars
  BY <1>3 DEF gateVars, GateTypeOK, MutexOwned, HoldsMutex, Procs
<1>4. QED
  BY <1>1, <1>2, <1>3 DEF GateNext

\* pendingRuns and the set of calls in progress change together.
LEMMA PendingStep ==
  ASSUME GateInv, [GateNext]_gateVars
  PROVE  PendingCounts'
<1> USE RunnerOfType, RunsAreNotMaints DEF GateInv
<1>1. ASSUME NEW r \in Runs, Announce(r) \/ Cancel(r) \/ RunStep(r)
      PROVE  PendingCounts'
  <2>1. CASE Announce(r)
    BY <2>1, AnnounceCounts
  <2>2. CASE Cancel(r)
    BY <2>2, AnnouncedUnchanged DEF Cancel, GateTypeOK, PendingCounts, Procs
  <2>3. CASE TryLock(r)
    BY <2>3, AnnouncedUnchanged DEF TryLock, GoesTo, GateTypeOK, PendingCounts, Procs
  <2>4. CASE TryLockFails(r)
    BY <2>4, AnnouncedUnchanged DEF TryLockFails, GoesTo, GateTypeOK, PendingCounts, Procs
  <2>5. CASE AcquireToken(r)
    BY <2>5, AnnouncedUnchanged DEF AcquireToken, GoesTo, Receive, GateTypeOK, PendingCounts, Procs
  <2>6. CASE AcquireCancelled(r)
    BY <2>6, AnnouncedUnchanged DEF AcquireCancelled, GoesTo, GateTypeOK, PendingCounts, Procs
  <2>7. CASE AcquireRecheck(r)
    BY <2>7, AnnouncedUnchanged DEF AcquireRecheck, GoesTo, GateTypeOK, PendingCounts, Procs
  <2>8. CASE AcquireGivesBack(r)
    BY <2>8, AnnouncedUnchanged DEF AcquireGivesBack, GoesTo, release, GateTypeOK, PendingCounts, Procs
  <2>9. CASE RunEnds(r)
    BY <2>9, AnnouncedUnchanged DEF RunEnds, GoesTo, release, GateTypeOK, PendingCounts, Procs
  <2>10. CASE RunUnlocks(r)
    BY <2>10, AnnouncedUnchanged DEF RunUnlocks, GoesTo, GateTypeOK, PendingCounts, Procs
  <2>11. CASE RunLeaves(r)
    BY <2>11, LeaveCounts
  <2>12. QED
    BY <1>1, <2>1, <2>2, <2>3, <2>4, <2>5, <2>6, <2>7, <2>8, <2>9, <2>10, <2>11 DEF RunStep
<1>2. ASSUME NEW m \in Maints, MaintCalls(m) \/ MaintStep(m)
      PROVE  PendingCounts'
  <2>1. CASE MaintCalls(m)
    BY <2>1, AnnouncedUnchanged DEF MaintCalls, GoesTo, GateTypeOK, PendingCounts, Procs
  <2>2. CASE MaintFirstCheck(m)
    BY <2>2, AnnouncedUnchanged DEF MaintFirstCheck, GoesTo, GateTypeOK, PendingCounts, Procs
  <2>3. CASE MaintTryAcquire(m)
    BY <2>3, AnnouncedUnchanged DEF MaintTryAcquire, GoesTo, Receive, GateTypeOK, PendingCounts, Procs
  <2>4. CASE MaintSecondCheck(m)
    BY <2>4, AnnouncedUnchanged DEF MaintSecondCheck, GoesTo, GateTypeOK, PendingCounts, Procs
  <2>5. CASE MaintRefused(m)
    BY <2>5, AnnouncedUnchanged DEF MaintRefused, GoesTo, release, GateTypeOK, PendingCounts, Procs
  <2>6. CASE MaintEnds(m)
    BY <2>6, AnnouncedUnchanged DEF MaintEnds, GoesTo, release, GateTypeOK, PendingCounts, Procs
  <2>7. QED
    BY <1>2, <2>1, <2>2, <2>3, <2>4, <2>5, <2>6 DEF MaintStep
<1>3. CASE UNCHANGED gateVars
  BY <1>3, AnnouncedUnchanged DEF gateVars, PendingCounts
<1>4. QED
  BY <1>1, <1>2, <1>3 DEF GateNext

LEMMA GateInitInv == GateInit => GateInv
<1> SUFFICES ASSUME GateInit PROVE GateInv
  OBVIOUS
<1>1. GateTypeOK
  BY DEF GateInit, GateTypeOK, Procs, RunPC, MaintPC
<1>2. TokenConserved
  BY RunnerOfType DEF GateInit, TokenConserved, HoldsToken, Procs
<1>3. MutexOwned
  BY DEF GateInit, MutexOwned, HoldsMutex, Procs
<1>4. PendingCounts
  <2>1. \A g \in Runners : Announced(g) = {}
    BY DEF GateInit, Announced, Procs
  <2>2. QED
    BY <2>1, FS_EmptySet DEF GateInit, PendingCounts
<1>5. QED
  BY <1>1, <1>2, <1>3, <1>4 DEF GateInv

THEOREM GateInvariance == GateSpec => []GateInv
<1>1. GateInv /\ [GateNext]_gateVars => GateInv'
  BY TypeStep, TokenStep, MutexStep, PendingStep DEF GateInv
<1>2. QED
  BY GateInitInv, <1>1, PTL DEF GateSpec

\* The variables have their types; pendingRuns never becomes negative.
THEOREM GateTypeCorrect == GateSpec => []GateTypeOK
BY GateInvariance, PTL DEF GateInv

\* The token of a Runner is neither lost nor duplicated, whatever is cancelled
\* or refused.
THEOREM TokenIsConserved == GateSpec => []TokenConserved
BY GateInvariance, PTL DEF GateInv

\* pendingRuns is exactly the number of calls of Run in progress.
THEOREM PendingIsExact == GateSpec => []PendingCounts
BY GateInvariance, PTL DEF GateInv

\* At most one operation of a Runner works at any time.
THEOREM MutualExclusion == GateSpec => []GateExclusive
<1>1. GateInv => GateExclusive
  BY DEF GateInv, TokenConserved, GateExclusive, HoldsToken, Working
<1>2. QED
  BY <1>1, GateInvariance, PTL

\* Maintenance never overtakes an optimization that waits for the token: such
\* an optimization is counted, so the second check refuses the maintenance.
THEOREM MaintenanceNeverOvertakes == GateSpec => MaintenanceYields
<1> DEFINE A == \A m \in Maints :
                  pc[m] # "working" /\ pc'[m] = "working" =>
                    \A r \in Runs : runnerOf[r] = runnerOf[m] => pc[r] # "waiting"
<1>1. GateInv /\ [GateNext]_gateVars => [A]_gateVars
  <2> SUFFICES ASSUME GateInv, [GateNext]_gateVars,
                      NEW m \in Maints, pc[m] # "working", pc'[m] = "working",
                      NEW r \in Runs, runnerOf[r] = runnerOf[m], pc[r] = "waiting"
               PROVE  FALSE
    OBVIOUS
  <2>1. m \in Procs /\ m \notin Runs /\ runnerOf[m] \in Runners
    BY RunnerOfType, RunsAreNotMaints DEF Procs
  <2>2. MaintSecondCheck(m)
    <3>1. ~UNCHANGED gateVars
      BY DEF gateVars
    <3>2. ~\E s \in Runs : Announce(s) \/ Cancel(s) \/ RunStep(s)
      BY <2>1 DEF GateInv, GateTypeOK, RunPC, Procs, RunStep, GoesTo, Announce, Cancel,
         TryLock, TryLockFails, AcquireToken, AcquireCancelled,
         AcquireRecheck, AcquireGivesBack, RunEnds, RunUnlocks, RunLeaves
    <3>3. PICK n \in Maints : MaintCalls(n) \/ MaintStep(n)
      BY <3>1, <3>2 DEF GateNext
    <3>4. n = m
      BY <2>1, <3>3 DEF GateInv, GateTypeOK, Procs, MaintStep, GoesTo, MaintCalls,
         MaintFirstCheck, MaintTryAcquire, MaintSecondCheck, MaintRefused,
         MaintEnds
    <3>5. QED
      BY <2>1, <3>3, <3>4 DEF GateInv, GateTypeOK, Procs, MaintStep, GoesTo, MaintCalls,
         MaintFirstCheck, MaintTryAcquire, MaintRefused, MaintEnds
  <2>3. pending[runnerOf[m]] <= 0
    BY <2>2 DEF MaintSecondCheck
  <2>4. r \in Announced(runnerOf[m])
    BY DEF Announced
  <2>5. Announced(runnerOf[m]) # {} /\ IsFiniteSet(Announced(runnerOf[m]))
    BY <2>1, <2>4, AnnouncedFinite
  <2>6. Cardinality(Announced(runnerOf[m])) # 0
    BY <2>5, FS_EmptySet
  <2>7. pending[runnerOf[m]] = Cardinality(Announced(runnerOf[m]))
        /\ pending[runnerOf[m]] \in Nat
    BY <2>1 DEF GateInv, GateTypeOK, PendingCounts
  <2>8. QED
    BY <2>3, <2>6, <2>7
<1>2. QED
  BY <1>1, GateInvariance, PTL DEF GateSpec, MaintenanceYields

-----------------------------------------------------------------------------
(* The gate implements its contract *)

\* A move between two places is a move between their phases.
LEMMA MovePhase ==
  ASSUME GateTypeOK, NEW p \in Procs, NEW from, NEW to, GoesTo(p, from, to)
  PROVE  /\ phaseOf[p] = phaseAt(from)
         /\ phaseOf' = [phaseOf EXCEPT ![p] = phaseAt(to)]
<1>1. pc[p] = from /\ pc' = [pc EXCEPT ![p] = to] /\ pc \in [Procs -> RunPC \cup MaintPC]
  BY DEF GoesTo, GateTypeOK
<1>2. phaseOf[p] = phaseAt(from)
  BY <1>1 DEF phaseOf
<1>3. ASSUME NEW q \in Procs
      PROVE  phaseAt(pc'[q]) = IF q = p THEN phaseAt(to) ELSE phaseAt(pc[q])
  BY <1>1
<1>4. phaseOf' = [q \in Procs |-> IF q = p THEN phaseAt(to) ELSE phaseAt(pc[q])]
  BY <1>3 DEF phaseOf
<1>5. [phaseOf EXCEPT ![p] = phaseAt(to)]
        = [q \in Procs |-> IF q = p THEN phaseAt(to) ELSE phaseAt(pc[q])]
  BY DEF phaseOf
<1>6. QED
  BY <1>2, <1>4, <1>5

\* A move within a phase is a stutter of the contract.
LEMMA StayInPhase ==
  ASSUME GateTypeOK, NEW p \in Procs, NEW from, NEW to, GoesTo(p, from, to),
         phaseAt(from) = phaseAt(to)
  PROVE  phaseOf' = phaseOf
<1>1. phaseOf[p] = phaseAt(to) /\ phaseOf' = [phaseOf EXCEPT ![p] = phaseAt(to)]
  BY MovePhase
<1>2. QED
  BY <1>1 DEF phaseOf

\* Whoever holds the token finds nobody working on his Runner.
LEMMA HolderFindsNobody ==
  ASSUME TokenConserved, NEW p \in Procs, HoldsToken(p), ~Working(p)
  PROVE  Contract!NobodyWorks(p)
<1> SUFFICES ASSUME NEW q \in Procs, runnerOf[q] = runnerOf[p]
             PROVE  phaseOf[q] # "working"
  BY DEF Contract!NobodyWorks, Contract!Nobody, Procs
<1>1. ~Working(q)
  BY DEF TokenConserved, HoldsToken, Working
<1>2. QED
  BY <1>1 DEF phaseOf, phaseAt, Working

\* Where no call is counted, none is in progress.
LEMMA NoneCountedNoneAsks ==
  ASSUME GateTypeOK, PendingCounts, NEW g \in Runners, pending[g] <= 0,
         NEW r \in Runs, runnerOf[r] = g
  PROVE  pc[r] = "idle"
<1>1. IsFiniteSet(Announced(g))
  BY AnnouncedFinite
<1>2. Cardinality(Announced(g)) = 0
  BY <1>1, FS_CardinalityType DEF GateTypeOK, PendingCounts
<1>3. Announced(g) = {}
  BY <1>1, <1>2, FS_EmptySet
<1>4. QED
  BY <1>3 DEF Announced

\* Every step of an optimization is a step of the contract, or none.
LEMMA RunRefines ==
  ASSUME GateInv, NEW r \in Runs, Announce(r) \/ Cancel(r) \/ RunStep(r)
  PROVE  Contract!Next \/ phaseOf' = phaseOf
<1>0. r \in Procs /\ GateTypeOK /\ TokenConserved
  BY DEF Procs, GateInv
<1> USE <1>0
<1>1. CASE Announce(r)
  <2>1. Contract!Asks(r)
    BY <1>1, MovePhase DEF Announce, phaseAt, Contract!Asks, Contract!Moves
  <2>2. QED
    BY <2>1 DEF Contract!Next
<1>2. CASE Cancel(r)
  BY <1>2 DEF Cancel, phaseOf, phaseAt
<1>3. CASE TryLock(r)
  BY <1>3, StayInPhase DEF TryLock, phaseAt
<1>4. CASE AcquireToken(r)
  BY <1>4, StayInPhase DEF AcquireToken, phaseAt
<1>5. CASE TryLockFails(r) \/ AcquireCancelled(r) \/ AcquireGivesBack(r)
  <2>1. Contract!GivesUp(r)
    BY <1>5, MovePhase DEF TryLockFails, AcquireCancelled, AcquireGivesBack,
       phaseAt, Contract!GivesUp, Contract!Moves
  <2>2. QED
    BY <2>1 DEF Contract!Next
<1>6. CASE AcquireRecheck(r)
  <2>1. Contract!NobodyWorks(r)
    BY <1>6, HolderFindsNobody DEF AcquireRecheck, GoesTo, HoldsToken, Working
  <2>2. Contract!Starts(r)
    BY <1>6, <2>1, MovePhase DEF AcquireRecheck, phaseAt, Contract!Starts,
       Contract!Moves
  <2>3. QED
    BY <2>2 DEF Contract!Next
<1>7. CASE RunEnds(r)
  <2>1. Contract!Ends(r)
    BY <1>7, MovePhase DEF RunEnds, phaseAt, Contract!Ends, Contract!Moves
  <2>2. QED
    BY <2>1 DEF Contract!Next
<1>8. CASE RunUnlocks(r)
  BY <1>8, StayInPhase DEF RunUnlocks, phaseAt
<1>9. CASE RunLeaves(r)
  <2>1. Contract!Returns(r)
    BY <1>9, MovePhase DEF RunLeaves, phaseAt, Contract!Returns, Contract!Moves
  <2>2. QED
    BY <2>1 DEF Contract!Next
<1>10. QED
  BY <1>1, <1>2, <1>3, <1>4, <1>5, <1>6, <1>7, <1>8, <1>9 DEF RunStep

\* Every step of a maintenance operation is a step of the contract, or none.
LEMMA MaintRefines ==
  ASSUME GateInv, NEW m \in Maints, MaintCalls(m) \/ MaintStep(m)
  PROVE  Contract!Next \/ phaseOf' = phaseOf
<1>0. m \in Procs /\ runnerOf[m] \in Runners /\ GateTypeOK /\ TokenConserved /\ PendingCounts
  BY RunnerOfType DEF Procs, GateInv
<1> USE <1>0
<1>1. CASE MaintCalls(m)
  BY <1>1, StayInPhase DEF MaintCalls, phaseAt
<1>2. CASE MaintFirstCheck(m)
  BY <1>2, StayInPhase DEF MaintFirstCheck, phaseAt
<1>3. CASE MaintTryAcquire(m)
  BY <1>3, StayInPhase DEF MaintTryAcquire, phaseAt
<1>4. CASE MaintSecondCheck(m)
  <2>1. Contract!NobodyWorks(m)
    BY <1>4, HolderFindsNobody DEF MaintSecondCheck, GoesTo, HoldsToken, Working
  <2>2. Contract!Nobody(m, Runs, {"asking", "leaving"})
    <3> SUFFICES ASSUME NEW r \in Runs, runnerOf[r] = runnerOf[m]
                 PROVE  phaseOf[r] \notin {"asking", "leaving"}
      BY DEF Contract!Nobody
    <3>1. pc[r] = "idle"
      BY <1>4, NoneCountedNoneAsks DEF MaintSecondCheck
    <3>2. QED
      BY <3>1 DEF phaseOf, phaseAt, Procs
  <2>3. Contract!Maintains(m)
    BY <1>4, <2>1, <2>2, MovePhase DEF MaintSecondCheck, phaseAt,
       Contract!Maintains, Contract!Moves
  <2>4. QED
    BY <2>3 DEF Contract!Next
<1>5. CASE MaintRefused(m)
  BY <1>5, StayInPhase DEF MaintRefused, phaseAt
<1>6. CASE MaintEnds(m)
  <2>1. Contract!MaintenanceEnds(m)
    BY <1>6, MovePhase DEF MaintEnds, phaseAt, Contract!MaintenanceEnds,
       Contract!Moves
  <2>2. QED
    BY <2>1 DEF Contract!Next
<1>7. QED
  BY <1>1, <1>2, <1>3, <1>4, <1>5, <1>6 DEF MaintStep

\* The lock, the counter and the token together implement GateContract: one
\* operation at a time, and none of maintenance between the call and the return
\* of an optimization that it did not precede.
THEOREM GateImplementsContract == GateSpec => ImplementsContract
<1>1. GateInit => Contract!Init
  BY DEF GateInit, Contract!Init, phaseOf, phaseAt, Procs
<1>2. GateInv /\ [GateNext]_gateVars => [Contract!Next]_phaseOf
  <2> SUFFICES ASSUME GateInv, [GateNext]_gateVars
               PROVE  Contract!Next \/ phaseOf' = phaseOf
    OBVIOUS
  <2>1. CASE UNCHANGED gateVars
    BY <2>1 DEF gateVars, phaseOf, phaseAt
  <2>2. CASE \E r \in Runs : Announce(r) \/ Cancel(r) \/ RunStep(r)
    BY <2>2, RunRefines
  <2>3. CASE \E m \in Maints : MaintCalls(m) \/ MaintStep(m)
    BY <2>3, MaintRefines
  <2>4. QED
    BY <2>1, <2>2, <2>3 DEF GateNext
<1>3. QED
  BY <1>1, <1>2, GateInvariance, PTL DEF GateSpec, ImplementsContract, Contract!Spec

-----------------------------------------------------------------------------
(* The guard and the transactions of the Mihomo adapter *)

LockedPolicy == sup.pc \in GatedSteps => sup.want = desired

RepairOfWanted == job.owner = "guard" => job.target = sup.want

EditsInOrder == config.user <= edits /\ job.files.config.user <= edits

IInv == TypeOK /\ LockedPolicy /\ RepairOfWanted /\ WritesWhatItRead /\ EditsInOrder

LEMMA IdleJobType == IdleJob \in Job
<1>1. Unpatched \in Config
  BY BoundsNat, SMT DEF Unpatched, Config, NoPolicy
<1> QED
  BY <1>1, BoundsNat, SMT DEF IdleJob, Job, JobSteps, Files, NoPolicy

\* One field at a time: the provers do not see through EXCEPT with several.
LEMMA JobFields ==
  ASSUME NEW j \in Job
  PROVE  /\ \A x \in JobSteps : [j EXCEPT !.pc = x] \in Job
         /\ \A x \in {"none", "guard", "run"} : [j EXCEPT !.owner = x] \in Job
         /\ \A x \in 0..MaxPolicies : [j EXCEPT !.target = x] \in Job
         /\ \A x \in Files : [j EXCEPT !.files = x] \in Job
         /\ \A x \in BOOLEAN : [j EXCEPT !.changed = x] \in Job
  BY SMT DEF Job

LEMMA NewJobType ==
  ASSUME NEW owner \in {"guard", "run"}, NEW policy \in 0..MaxPolicies
  PROVE  /\ NewJob(owner, policy) \in Job
         /\ NewJob(owner, policy).owner = owner /\ NewJob(owner, policy).target = policy
         /\ NewJob(owner, policy).pc = "plan" /\ NewJob(owner, policy).files = IdleJob.files
<1> DEFINE j1 == [IdleJob EXCEPT !.pc = "plan"]
           j2 == [j1 EXCEPT !.owner = owner]
           j3 == [j2 EXCEPT !.target = policy]
<1>1. NewJob(owner, policy) = j3
  BY DEF NewJob
<1>2. j1 \in Job
  BY IdleJobType, JobFields DEF JobSteps
<1>3. j2 \in Job
  BY <1>2, JobFields
<1>4. j3 \in Job
  BY <1>3, JobFields
<1>5. j3.owner = owner /\ j3.target = policy /\ j3.pc = "plan" /\ j3.files = IdleJob.files
  BY IdleJobType, SMT DEF Job
<1> QED
  BY <1>1, <1>4, <1>5

LEMMA NewSupervisorType == NewSupervisor \in Supervisor /\ NewSupervisor.pc = "read"
<1>1. NoRevision \in [user : 0..MaxChanges, managed : 0..MaxPolicies, want : 0..MaxPolicies]
  BY BoundsNat, SMT DEF NoRevision, NoPolicy
<1> QED
  BY <1>1, BoundsNat, SMT DEF NewSupervisor, Supervisor, SupSteps, NoPolicy

LEMMA InitIInv == Init => IInv
<1> SUFFICES ASSUME Init PROVE IInv
  OBVIOUS
<1> USE DEF Init, AdapterInit
<1>1. AdapterTypeOK
  <2>1. config \in Config
    BY BoundsNat, SMT DEF Unpatched, Config, NoPolicy
  <2>2. raced \in BOOLEAN
    OBVIOUS
  <2>3. /\ own \in 0..MaxPolicies /\ running \in 0..MaxPolicies /\ faults \in 0..MaxFaults
        /\ edits \in Nat /\ switches \in Nat /\ edits + switches <= MaxChanges
    BY BoundsNat, SMT DEF NoPolicy
  <2> QED
    BY <2>1, <2>2, <2>3, IdleJobType DEF AdapterTypeOK, Activities
<1>2. TypeOK
  BY <1>1, IdleJobType, NewSupervisorType, BoundsNat, MaxCrashesNat, SMT
  DEF TypeOK, Statuses, GatedSteps, IdleJob, NoPolicy
<1>3. LockedPolicy /\ RepairOfWanted
  BY NewSupervisorType, SMT DEF LockedPolicy, RepairOfWanted, GatedSteps, IdleJob
<1>4. WritesWhatItRead
  BY SMT DEF WritesWhatItRead, Writing, IdleJob
<1>5. EditsInOrder
  BY SMT DEF EditsInOrder, IdleJob, Unpatched
<1> QED
  BY <1>2, <1>3, <1>4, <1>5 DEF IInv

-----------------------------------------------------------------------------
(* The transaction's steps *)

\* What every step of a transaction leaves alone, and that it keeps the types.
LEMMA JobUpdate ==
  ASSUME job \in Job, NEW step \in JobSteps, NEW b \in BOOLEAN
  PROVE  LET next == [job EXCEPT !.pc = step, !.changed = b] IN
         /\ next \in Job /\ next.pc = step /\ next.owner = job.owner
         /\ next.target = job.target /\ next.files = job.files
<1> DEFINE j1 == [job EXCEPT !.pc = step]
           next == [job EXCEPT !.pc = step, !.changed = b]
<1>1. next = [j1 EXCEPT !.changed = b]
  OBVIOUS
<1>2. j1 \in Job
  BY JobFields
<1>3. next \in Job
  BY <1>1, <1>2, JobFields
<1>4. next.pc = step /\ next.owner = job.owner /\ next.target = job.target /\ next.files = job.files
  BY SMT DEF Job
<1> QED
  BY <1>3, <1>4

LEMMA PlanUpdate ==
  ASSUME job \in Job, NEW files \in Files
  PROVE  LET next == [job EXCEPT !.pc = "check", !.files = files] IN
         /\ next \in Job /\ next.pc = "check" /\ next.owner = job.owner
         /\ next.target = job.target /\ next.files = files
<1> DEFINE j1 == [job EXCEPT !.pc = "check"]
           next == [job EXCEPT !.pc = "check", !.files = files]
<1>1. next = [j1 EXCEPT !.files = files]
  OBVIOUS
<1>2. j1 \in Job
  BY JobFields DEF JobSteps
<1>3. next \in Job
  BY <1>1, <1>2, JobFields
<1>4. /\ next.pc = "check" /\ next.owner = job.owner
      /\ next.target = job.target /\ next.files = files
  BY SMT DEF Job
<1> QED
  BY <1>3, <1>4

LEMMA GotoKeeps ==
  ASSUME job \in Job, NEW step \in JobSteps, Goto(step)
  PROVE  /\ job' \in Job /\ job'.pc = step /\ job'.owner = job.owner
         /\ job'.target = job.target /\ job'.files = job.files
  BY SMT DEF Job, Goto

\* Check goes on only with the contents that the transaction has read.
LEMMA CheckKeeps ==
  ASSUME job \in Job, Check
  PROVE  /\ job' \in Job /\ job'.owner = job.owner
         /\ job'.target = job.target /\ job'.files = job.files
         /\ \/ job'.pc \in {"own", "verify"} /\ job.files = [own |-> own, config |-> config]
            \/ job'.pc = "failed"
<1> DEFINE changed == own # job.target \/ config # Patched(config, job.target)
           step == IF changed THEN "own" ELSE "verify"
<1>1. CASE /\ job.files = [own |-> own, config |-> config]
           /\ job' = [job EXCEPT !.pc = step, !.changed = changed]
  <2>1. changed \in BOOLEAN /\ step \in JobSteps /\ step \in {"own", "verify"}
    BY DEF JobSteps
  <2> HIDE DEF changed, step
  <2> QED
    BY <1>1, <2>1, JobUpdate
<1>2. CASE Goto("failed")
  BY <1>2, GotoKeeps DEF JobSteps
<1> QED
  BY <1>1, <1>2 DEF Check

LEMMA PatchedType ==
  ASSUME NEW c \in Config, NEW policy \in 0..MaxPolicies
  PROVE  Patched(c, policy) \in Config /\ Patched(c, policy).user = c.user
  BY SMT DEF Patched, Config

\* What every step of a transaction leaves alone, and that it keeps the types.
LEMMA JobStepTypes ==
  ASSUME AdapterTypeOK, JobStep
  PROVE  /\ AdapterTypeOK'
         /\ job'.owner = job.owner /\ job'.target = job.target
<1>1. CASE Plan
  <2>1. [own |-> own, config |-> config] \in Files
    BY SMT DEF Files, AdapterTypeOK
  <2>2. /\ job' \in Job /\ job'.owner = job.owner /\ job'.target = job.target
    BY <1>1, <2>1, PlanUpdate, GotoKeeps DEF Plan, AdapterTypeOK, JobSteps
  <2>3. raced' \in BOOLEAN
    BY <1>1 DEF Plan
  <2>4. faults' \in 0..MaxFaults
    BY <1>1, BoundsNat, SMT DEF Plan, AdapterTypeOK, NoFault, Fault
  <2> QED
    BY <1>1, <2>2, <2>3, <2>4 DEF Plan, AdapterTypeOK
<1>2. CASE Check
  <2>1. faults' \in 0..MaxFaults
    BY <1>2, BoundsNat, SMT DEF Check, AdapterTypeOK, NoFault, Fault
  <2> QED
    BY <1>2, <2>1, CheckKeeps DEF Check, AdapterTypeOK
<1>4. CASE WriteConfig
  <2>1. Patched(job.files.config, job.target) \in Config
    BY PatchedType, SMT DEF AdapterTypeOK, Job, Files
  <2> QED
    BY <1>4, <2>1, GotoKeeps, BoundsNat, SMT
    DEF WriteConfig, AdapterTypeOK, JobSteps, NoFault, Fault
<1> USE BoundsNat
    DEF AdapterTypeOK, JobAt, Goto, NoFault, Fault, Job, JobSteps, Files, Config
<1>3. CASE WriteOwn
  BY <1>3, SMT DEF WriteOwn
<1>5. CASE Reload
  BY <1>5, SMT DEF Reload, reloadConfig
<1>6. CASE Restore
  BY <1>6, SMT DEF Restore
<1>7. CASE ReloadAgain
  BY <1>7, SMT DEF ReloadAgain, reloadConfig
<1>8. CASE VerifyJob
  BY <1>8, SMT DEF VerifyJob
<1>9. CASE BackCheck
  BY <1>9, SMT DEF BackCheck
<1>10. CASE BackWrite
  BY <1>10, SMT DEF BackWrite
<1>11. CASE BackReload
  BY <1>11, SMT DEF BackReload, reloadConfig
<1> QED
  BY <1>1, <1>2, <1>3, <1>4, <1>5, <1>6, <1>7, <1>8, <1>9, <1>10, <1>11 DEF JobStep

\* The user's part that is written is the one the transaction has read.
LEMMA JobStepWrites ==
  ASSUME AdapterTypeOK, WritesWhatItRead, EditsInOrder, JobStep
  PROVE  WritesWhatItRead' /\ EditsInOrder' /\ (config'.user < config.user => raced)
<1>0. config.user \in Int /\ job.files.config.user \in Int /\ edits \in Int
  BY BoundsNat, SMT DEF AdapterTypeOK, Config, Job, Files
<1>1. CASE Plan
  <2>1. [own |-> own, config |-> config] \in Files
    BY SMT DEF Files, AdapterTypeOK
  <2>2. \/ job'.pc = "check" /\ job'.files = [own |-> own, config |-> config]
        \/ job'.pc = "failed" /\ job'.files = job.files
    <3>1. job \in Job
      BY DEF AdapterTypeOK
    <3>2. CASE job' = [job EXCEPT !.pc = "check", !.files = [own |-> own, config |-> config]]
      BY <2>1, <3>1, <3>2, PlanUpdate
    <3>3. CASE Goto("failed")
      BY <3>1, <3>3, GotoKeeps DEF JobSteps
    <3> QED
      BY <1>1, <3>2, <3>3 DEF Plan
  <2>3. config' = config /\ edits' = edits
    BY <1>1 DEF Plan
  <2>4. WritesWhatItRead'
    BY <2>2 DEF WritesWhatItRead, Writing
  <2>5. EditsInOrder'
    BY <2>2, <2>3, SMT DEF EditsInOrder
  <2>6. ~(config'.user < config.user)
    BY <1>0, <2>3, SMT
  <2> QED
    BY <2>4, <2>5, <2>6
<1>2. CASE Check
  <2>1. config' = config /\ edits' = edits /\ job \in Job
    BY <1>2 DEF Check, AdapterTypeOK
  <2> QED
    BY <1>0, <1>2, <2>1, CheckKeeps, SMT DEF WritesWhatItRead, Writing, EditsInOrder
<1> USE BoundsNat
    DEF AdapterTypeOK, WritesWhatItRead, Writing, EditsInOrder, JobAt, Goto, NoFault, Fault, Job, Files, Config
<1>3. CASE WriteOwn
  BY <1>3, SMT DEF WriteOwn
<1>4. CASE WriteConfig
  BY <1>4, SMT DEF WriteConfig, Patched
<1>5. CASE Reload
  BY <1>5, SMT DEF Reload, reloadConfig
<1>6. CASE Restore
  BY <1>6, SMT DEF Restore
<1>7. CASE ReloadAgain
  BY <1>7, SMT DEF ReloadAgain, reloadConfig
<1>8. CASE VerifyJob
  BY <1>8, SMT DEF VerifyJob
<1>9. CASE BackCheck
  BY <1>9, SMT DEF BackCheck, SameMeaning, Patched
<1>10. CASE BackWrite
  BY <1>10, SMT DEF BackWrite
<1>11. CASE BackReload
  BY <1>11, SMT DEF BackReload, reloadConfig
<1> QED
  BY <1>1, <1>2, <1>3, <1>4, <1>5, <1>6, <1>7, <1>8, <1>9, <1>10, <1>11 DEF JobStep

\* Others only ever make the user's part newer, and admit it to raced.
LEMMA EnvironmentSafe ==
  ASSUME AdapterTypeOK, WritesWhatItRead, EditsInOrder, Environment
  PROVE  /\ AdapterTypeOK' /\ WritesWhatItRead' /\ EditsInOrder' /\ UNCHANGED job
         /\ config'.user < config.user => raced
<1>0. job.files.config.user \in Int
  BY BoundsNat, SMT DEF AdapterTypeOK, Config, Job, Files
<1> USE BoundsNat DEF AdapterTypeOK, WritesWhatItRead, Writing, Config
<1>1. ASSUME NEW managed \in 0..MaxPolicies, NEW reload \in BOOLEAN, Rewrite(managed, reload)
      PROVE  /\ AdapterTypeOK' /\ WritesWhatItRead' /\ EditsInOrder' /\ UNCHANGED job
             /\ config'.user < config.user => raced
  <2>1. raced' \in BOOLEAN
    BY <1>1 DEF Rewrite
  <2>2. Writing => raced'
    BY <1>1 DEF Rewrite
  <2>3. /\ config' \in Config /\ running' \in 0..MaxPolicies
        /\ EditsInOrder' /\ ~(config'.user < config.user)
    BY <1>0, <1>1, SMT DEF Rewrite, NoPolicy, EditsInOrder
  <2>4. edits' \in Nat /\ edits' + switches <= MaxChanges
    BY <1>1, SMT DEF Rewrite
  <2> QED
    BY <1>1, <2>1, <2>2, <2>3, <2>4 DEF Rewrite
<1>2. ASSUME NEW to \in Activities, Switch(to)
      PROVE  /\ AdapterTypeOK' /\ WritesWhatItRead' /\ EditsInOrder' /\ UNCHANGED job
             /\ config'.user < config.user => raced
  BY <1>2, SMT DEF Switch, EditsInOrder
<1> QED
  BY <1>1, <1>2 DEF Environment

\* Steps that write no file: at most the transaction begins, ends or turns.
LEMMA AdapterQuiet ==
  ASSUME IInv, UNCHANGED <<own, config, activity, running, edits, switches, raced>>,
         faults' \in 0..MaxFaults,
         \/ UNCHANGED job
         \/ job' \in Job /\ ~Writing' /\ job'.files \in {job.files, IdleJob.files}
  PROVE  AdapterTypeOK' /\ WritesWhatItRead' /\ EditsInOrder'
<1> USE DEF IInv, TypeOK
<1>1. AdapterTypeOK'
  BY DEF AdapterTypeOK
<1>2. WritesWhatItRead'
  BY DEF WritesWhatItRead, Writing
<1>3. IdleJob.files.config.user = 0
  BY DEF IdleJob, Unpatched
<1>4. job'.files.config.user <= edits
  BY <1>3, SMT DEF EditsInOrder, AdapterTypeOK
<1>5. EditsInOrder'
  BY <1>4 DEF EditsInOrder
<1> QED
  BY <1>1, <1>2, <1>5

LEMMA FaultsType ==
  ASSUME AdapterTypeOK, NoFault \/ \E kind \in FaultKinds : Fault(kind)
  PROVE  faults' \in 0..MaxFaults
  BY BoundsNat, SMT DEF AdapterTypeOK, NoFault, Fault

-----------------------------------------------------------------------------
(* The guard's records *)

LEMMA SupFields ==
  ASSUME NEW s \in Supervisor
  PROVE  /\ \A x \in SupSteps : [s EXCEPT !.pc = x] \in Supervisor
         /\ \A x \in 0..MaxPolicies : [s EXCEPT !.want = x] \in Supervisor
         /\ \A x \in 0..MaxPolicies : [s EXCEPT !.verified = x] \in Supervisor
         /\ \A x \in [user : 0..MaxChanges, managed : 0..MaxPolicies, want : 0..MaxPolicies] :
              [s EXCEPT !.revision = x] \in Supervisor
         /\ \A x \in BOOLEAN : [s EXCEPT !.due = x] \in Supervisor
         /\ \A x \in BOOLEAN : [s EXCEPT !.retry = x] \in Supervisor
  BY SMT DEF Supervisor

LEMMA MoveType ==
  ASSUME sup \in Supervisor, NEW next \in SupSteps, sup' = [sup EXCEPT !.pc = next]
  PROVE  sup' \in Supervisor /\ sup'.pc = next /\ sup'.want = sup.want
<1>1. sup' \in Supervisor
  BY SupFields
<1> QED
  BY <1>1, SMT DEF Supervisor

LEMMA FailsType ==
  ASSUME sup \in Supervisor, NEW next \in SupSteps, Fails(next)
  PROVE  sup' \in Supervisor /\ sup'.pc = next /\ status' \in Statuses
<1> DEFINE s1 == [sup EXCEPT !.pc = next]
<1>1. sup' = [s1 EXCEPT !.retry = TRUE]
  BY DEF Fails
<1>2. s1 \in Supervisor
  BY SupFields
<1>3. sup' \in Supervisor
  BY <1>1, <1>2, SupFields
<1>4. sup'.pc = next
  BY SMT DEF Fails, Supervisor
<1> QED
  BY <1>3, <1>4 DEF Fails, Statuses

LEMMA NoRevisionType ==
  /\ NoRevision \in [user : 0..MaxChanges, managed : 0..MaxPolicies, want : 0..MaxPolicies]
  /\ NoPolicy \in 0..MaxPolicies
  BY BoundsNat, SMT DEF NoRevision, NoPolicy

LEMMA RestsType ==
  ASSUME sup \in Supervisor, NEW state \in Statuses, Rests(state)
  PROVE  sup' \in Supervisor /\ sup'.pc = "wait" /\ status' \in Statuses
<1> DEFINE s1 == [sup EXCEPT !.pc = "wait"]
           s2 == [s1 EXCEPT !.revision = NoRevision]
<1>1. sup' = [s2 EXCEPT !.verified = NoPolicy]
  BY DEF Rests
<1>2. s1 \in Supervisor
  BY SupFields DEF SupSteps
<1>3. s2 \in Supervisor
  BY <1>2, SupFields, NoRevisionType
<1>4. sup' \in Supervisor
  BY <1>1, <1>3, SupFields, NoRevisionType
<1>5. sup'.pc = "wait"
  BY SMT DEF Rests, Supervisor
<1> QED
  BY <1>4, <1>5 DEF Rests

LEMMA VerifiedType ==
  ASSUME sup \in Supervisor, NEW next \in SupSteps, Verified(next)
  PROVE  sup' \in Supervisor /\ sup'.pc = next /\ status' \in Statuses
<1> DEFINE s1 == [sup EXCEPT !.pc = next]
           s2 == [s1 EXCEPT !.verified = sup.want]
           s3 == [s2 EXCEPT !.due = FALSE]
<1>0. sup.want \in 0..MaxPolicies
  BY SMT DEF Supervisor
<1>1. sup' = [s3 EXCEPT !.retry = FALSE]
  BY DEF Verified
<1>2. s1 \in Supervisor
  BY SupFields
<1>3. s2 \in Supervisor
  BY <1>0, <1>2, SupFields
<1>4. s3 \in Supervisor
  BY <1>3, SupFields
<1>5. sup' \in Supervisor
  BY <1>1, <1>4, SupFields
<1>6. sup'.pc = next
  BY SMT DEF Verified, Supervisor
<1> QED
  BY <1>5, <1>6 DEF Verified, Statuses

-----------------------------------------------------------------------------
(* The guard outside the gate *)

\* The gate and the transaction are somebody else's business out there.
LEMMA OutsideStep ==
  ASSUME IInv, UNCHANGED <<own, config, activity, running, edits, switches, raced>>,
         NoFault \/ \E kind \in FaultKinds : Fault(kind),
         UNCHANGED <<job, desired, holder, runs, crashes>>,
         sup.pc \notin GatedSteps, sup'.pc \notin GatedSteps,
         sup' \in Supervisor, status' \in Statuses
  PROVE  IInv'
<1> USE DEF IInv, TypeOK
<1>1. AdapterTypeOK' /\ WritesWhatItRead' /\ EditsInOrder'
  BY FaultsType, AdapterQuiet
<1>2. TypeOK'
  BY <1>1 DEF GatedSteps
<1>3. LockedPolicy' /\ RepairOfWanted'
  BY DEF LockedPolicy, RepairOfWanted, GatedSteps
<1> QED
  BY <1>1, <1>2, <1>3

LEMMA OutsideKeepsIInv ==
  ASSUME IInv, ReadPolicy \/ ObserveNothing \/ ObserveActive \/ Inspect \/ Verify \/ Wake
  PROVE  IInv'
<1> USE DEF At, SupSteps, GatedSteps, Statuses, FaultKinds
<1>0. sup \in Supervisor /\ desired \in 0..MaxPolicies /\ status \in Statuses
  BY DEF IInv, TypeOK
<1>1. CASE ReadPolicy
  <2>1. CASE sup' = [sup EXCEPT !.pc = "observe", !.want = desired] /\ UNCHANGED status
    <3> DEFINE s1 == [sup EXCEPT !.pc = "observe"]
    <3>1. sup' = [s1 EXCEPT !.want = desired]
      BY <2>1
    <3>2. s1 \in Supervisor
      BY <1>0, SupFields
    <3>3. sup' \in Supervisor
      BY <1>0, <3>1, <3>2, SupFields
    <3>4. sup'.pc = "observe"
      BY <1>0, <2>1, SMT DEF Supervisor
    <3> QED
      BY <1>0, <1>1, <2>1, <3>3, <3>4, OutsideStep DEF ReadPolicy
  <2>2. CASE Rests("no_policy") \/ Fails("wait")
    BY <1>0, <1>1, <2>2, RestsType, FailsType, OutsideStep DEF ReadPolicy
  <2> QED
    BY <1>1, <2>1, <2>2 DEF ReadPolicy
<1>2. CASE ObserveNothing
  BY <1>0, <1>2, RestsType, FailsType, OutsideStep DEF ObserveNothing
<1>3. CASE ObserveActive
  <2>1. CASE /\ sup' = [sup EXCEPT !.pc = "wait", !.revision = Revision,
                          !.verified = NoPolicy, !.due = TRUE]
             /\ status' = "checking"
    <3> DEFINE s1 == [sup EXCEPT !.pc = "wait"]
               s2 == [s1 EXCEPT !.revision = Revision]
               s3 == [s2 EXCEPT !.verified = NoPolicy]
    <3>1. sup' = [s3 EXCEPT !.due = TRUE]
      BY <2>1
    <3>2. Revision \in [user : 0..MaxChanges, managed : 0..MaxPolicies, want : 0..MaxPolicies]
      BY <1>0, SMT DEF IInv, TypeOK, AdapterTypeOK, Revision, Config, Supervisor
    <3>3. s1 \in Supervisor
      BY <1>0, SupFields
    <3>4. s2 \in Supervisor
      BY <3>2, <3>3, SupFields
    <3>5. s3 \in Supervisor
      BY <3>4, SupFields, NoRevisionType
    <3>6. sup' \in Supervisor
      BY <3>1, <3>5, SupFields
    <3>7. sup'.pc = "wait"
      BY <1>0, <2>1, SMT DEF Supervisor
    <3> QED
      BY <1>3, <2>1, <3>6, <3>7, OutsideStep DEF ObserveActive, adapterVars, NoFault
  <2>2. CASE sup' = [sup EXCEPT !.pc = "wait"] /\ UNCHANGED status
    BY <1>0, <1>3, <2>2, MoveType, OutsideStep DEF ObserveActive, adapterVars, NoFault
  <2>3. CASE sup' = [sup EXCEPT !.pc = "inspect"] /\ status' = "checking"
    BY <1>0, <1>3, <2>3, MoveType, OutsideStep DEF ObserveActive, adapterVars, NoFault
  <2> QED
    BY <1>3, <2>1, <2>2, <2>3 DEF ObserveActive
<1>4. CASE Inspect
  <2>1. CASE Verified("read") \/ Fails("read")
    BY <1>0, <1>4, <2>1, VerifiedType, FailsType, OutsideStep DEF Inspect
  <2>2. CASE sup' = [sup EXCEPT !.pc = "verify"] /\ UNCHANGED status
    BY <1>0, <1>4, <2>2, MoveType, OutsideStep DEF Inspect
  <2>3. CASE sup' = [sup EXCEPT !.pc = "execute"] /\ status' = "drifted"
    BY <1>0, <1>4, <2>3, MoveType, OutsideStep DEF Inspect
  <2> QED
    BY <1>4, <2>1, <2>2, <2>3 DEF Inspect
<1>5. CASE Verify
  BY <1>0, <1>5, VerifiedType, FailsType, OutsideStep DEF Verify
<1>6. CASE Wake
  BY <1>0, <1>6, MoveType, OutsideStep DEF Wake, adapterVars, NoFault
<1> QED
  BY <1>1, <1>2, <1>3, <1>4, <1>5, <1>6

\* Timers elapse inside the gate, too.
LEMMA TimersKeepIInv ==
  ASSUME IInv, RetryElapses \/ AuditElapses
  PROVE  IInv'
<1> USE DEF IInv, TypeOK, adapterVars
<1>1. sup' \in Supervisor
  BY SupFields DEF RetryElapses, AuditElapses
<1>2. sup'.pc = sup.pc /\ sup'.want = sup.want
  BY SMT DEF RetryElapses, AuditElapses, Supervisor
<1>3. UNCHANGED <<adapterVars, desired, holder, status, runs, crashes>>
  BY DEF RetryElapses, AuditElapses
<1>4. faults' \in 0..MaxFaults
  BY <1>3 DEF AdapterTypeOK
<1>5. AdapterTypeOK' /\ WritesWhatItRead' /\ EditsInOrder'
  BY <1>3, <1>4, AdapterQuiet
<1>6. TypeOK'
  BY <1>1, <1>2, <1>3, <1>5
<1>7. LockedPolicy' /\ RepairOfWanted'
  BY <1>2, <1>3 DEF LockedPolicy, RepairOfWanted
<1> QED
  BY <1>5, <1>6, <1>7

-----------------------------------------------------------------------------
(* The guard at and inside the gate *)

\* sup.want is the desired policy when the gate is taken.
LEMMA ExecuteKeepsIInv ==
  ASSUME IInv, Execute
  PROVE  IInv'
<1> USE DEF At, SupSteps, GatedSteps, Statuses, FaultKinds
<1>0. sup \in Supervisor /\ status \in Statuses /\ sup.pc = "execute"
  BY DEF IInv, TypeOK, Execute
<1>1. CASE Fails("read") /\ UNCHANGED holder
  BY <1>0, <1>1, FailsType, OutsideStep DEF Execute
<1>2. CASE /\ sup' = [sup EXCEPT !.pc = "read", !.revision = NoRevision,
                        !.verified = NoPolicy, !.retry = FALSE]
           /\ UNCHANGED <<holder, status>>
  <2> DEFINE s1 == [sup EXCEPT !.pc = "read"]
             s2 == [s1 EXCEPT !.revision = NoRevision]
             s3 == [s2 EXCEPT !.verified = NoPolicy]
  <2>1. sup' = [s3 EXCEPT !.retry = FALSE]
    BY <1>2
  <2>2. s1 \in Supervisor
    BY <1>0, SupFields
  <2>3. s2 \in Supervisor
    BY <2>2, SupFields, NoRevisionType
  <2>4. s3 \in Supervisor
    BY <2>3, SupFields, NoRevisionType
  <2>5. sup' \in Supervisor
    BY <2>1, <2>4, SupFields
  <2>6. sup'.pc = "read"
    BY <1>0, <1>2, SMT DEF Supervisor
  <2> QED
    BY <1>0, <1>2, <2>5, <2>6, OutsideStep DEF Execute
<1>3. CASE /\ NoFault /\ holder = "none" /\ desired = sup.want
           /\ holder' = "guard" /\ sup' = [sup EXCEPT !.pc = "fresh"]
           /\ UNCHANGED status
  <2> USE DEF IInv, TypeOK
  <2>1. sup' \in Supervisor /\ sup'.pc = "fresh" /\ sup'.want = sup.want
    BY <1>0, <1>3, MoveType
  <2>2. /\ UNCHANGED <<own, config, activity, running, job, edits, switches, raced>>
        /\ UNCHANGED <<desired, runs, crashes>>
    BY DEF Execute
  <2>3. faults' \in 0..MaxFaults
    BY <1>3, FaultsType
  <2>4. AdapterTypeOK' /\ WritesWhatItRead' /\ EditsInOrder'
    BY <2>2, <2>3, AdapterQuiet
  <2>5. TypeOK'
    BY <1>0, <1>3, <2>1, <2>2, <2>4
  <2>6. LockedPolicy' /\ RepairOfWanted'
    BY <1>0, <1>3, <2>1, <2>2 DEF LockedPolicy, RepairOfWanted
  <2> QED
    BY <2>4, <2>5, <2>6
<1> QED
  BY <1>1, <1>2, <1>3 DEF Execute

\* The guard leaves the gate with its transaction, if it has one.
LEMMA LeaveStep ==
  ASSUME IInv, UNCHANGED <<own, config, activity, running, edits, switches, raced>>,
         NoFault \/ \E kind \in FaultKinds : Fault(kind),
         UNCHANGED <<desired, runs, crashes>>,
         sup.pc \in GatedSteps, sup'.pc \notin GatedSteps, holder' = "none",
         sup' \in Supervisor, status' \in Statuses,
         IF sup.pc = "repair" THEN job' = IdleJob ELSE UNCHANGED job
  PROVE  IInv'
<1> USE DEF IInv, TypeOK
<1>1. IdleJob.pc = "idle" /\ IdleJob.owner = "none"
  BY DEF IdleJob
<1>2. \/ UNCHANGED job
      \/ job' \in Job /\ ~Writing' /\ job'.files \in {job.files, IdleJob.files}
  BY <1>1, IdleJobType DEF Writing
<1>3. AdapterTypeOK' /\ WritesWhatItRead' /\ EditsInOrder'
  BY <1>2, FaultsType, AdapterQuiet
<1>4. job'.owner \notin {"guard", "run"}
  BY <1>1, SMT DEF AdapterTypeOK, Job
<1>5. TypeOK'
  BY <1>3, <1>4 DEF GatedSteps
<1>6. LockedPolicy' /\ RepairOfWanted'
  BY <1>4 DEF LockedPolicy, RepairOfWanted
<1> QED
  BY <1>3, <1>5, <1>6

LEMMA InsideKeepsIInv ==
  ASSUME IInv, FreshInspect \/ FreshVerify \/ RepairEnds
  PROVE  IInv'
<1> USE DEF At, SupSteps, GatedSteps, Statuses, FaultKinds
<1>0. sup \in Supervisor /\ status \in Statuses
  BY DEF IInv, TypeOK
<1>1. CASE FreshInspect
  <2>1. CASE Fails("read") /\ holder' = "none" /\ UNCHANGED job
    BY <1>0, <1>1, <2>1, FailsType, LeaveStep DEF FreshInspect
  <2>2. CASE /\ NoFault /\ sup' = [sup EXCEPT !.pc = "fresh_verify"]
             /\ UNCHANGED <<status, holder, job>>
    <3> USE DEF IInv, TypeOK
    <3>1. sup' \in Supervisor /\ sup'.pc = "fresh_verify" /\ sup'.want = sup.want
      BY <1>0, <2>2, MoveType
    <3>2. /\ UNCHANGED <<own, config, activity, running, edits, switches, raced>>
          /\ UNCHANGED <<desired, runs, crashes>> /\ sup.pc = "fresh"
      BY <1>1 DEF FreshInspect
    <3>3. AdapterTypeOK' /\ WritesWhatItRead' /\ EditsInOrder'
      BY <2>2, <3>2, FaultsType, AdapterQuiet
    <3>4. TypeOK'
      BY <2>2, <3>1, <3>2, <3>3
    <3>5. LockedPolicy' /\ RepairOfWanted'
      BY <2>2, <3>1, <3>2 DEF LockedPolicy, RepairOfWanted
    <3> QED
      BY <3>3, <3>4, <3>5
  <2>3. CASE /\ NoFault /\ sup' = [sup EXCEPT !.pc = "repair"] /\ status' = "restoring"
             /\ job' = NewJob("guard", sup.want) /\ UNCHANGED holder
    <3> USE DEF IInv, TypeOK
    <3>1. sup' \in Supervisor /\ sup'.pc = "repair" /\ sup'.want = sup.want
      BY <1>0, <2>3, MoveType
    <3>2. /\ UNCHANGED <<own, config, activity, running, edits, switches, raced>>
          /\ UNCHANGED <<desired, runs, crashes>> /\ sup.pc = "fresh"
      BY <1>1 DEF FreshInspect
    <3>3. sup.want \in 0..MaxPolicies
      BY <1>0, SMT DEF Supervisor
    <3>4. /\ job' \in Job /\ job'.owner = "guard" /\ job'.target = sup.want
          /\ job'.pc = "plan" /\ job'.files = IdleJob.files
      BY <2>3, <3>3, NewJobType
    <3>5. AdapterTypeOK' /\ WritesWhatItRead' /\ EditsInOrder'
      BY <2>3, <3>2, <3>4, FaultsType, AdapterQuiet DEF Writing
    <3>6. TypeOK'
      BY <2>3, <3>1, <3>2, <3>4, <3>5
    <3>7. LockedPolicy' /\ RepairOfWanted'
      BY <3>1, <3>2, <3>4 DEF LockedPolicy, RepairOfWanted
    <3> QED
      BY <3>5, <3>6, <3>7
  <2> QED
    BY <1>1, <2>1, <2>2, <2>3 DEF FreshInspect
<1>2. CASE FreshVerify
  BY <1>0, <1>2, VerifiedType, FailsType, LeaveStep DEF FreshVerify
<1>3. CASE RepairEnds
  BY <1>0, <1>3, VerifiedType, FailsType, LeaveStep DEF RepairEnds, NoFault
<1> QED
  BY <1>1, <1>2, <1>3

-----------------------------------------------------------------------------
(* Optimizations and crashes *)

LEMMA StartRunKeepsIInv ==
  ASSUME IInv, StartRun
  PROVE  IInv'
<1> USE DEF IInv, TypeOK
<1>1. runs' \in 0..MaxPolicies
  BY BoundsNat, SMT DEF StartRun
<1>2. /\ job' \in Job /\ job'.owner = "run" /\ job'.pc = "plan" /\ job'.files = IdleJob.files
  BY <1>1, NewJobType DEF StartRun
<1>3. /\ UNCHANGED <<own, config, activity, running, edits, switches, faults, raced>>
      /\ UNCHANGED <<desired, sup, status, crashes>>
      /\ holder = "none" /\ holder' = "run"
  BY DEF StartRun
<1>4. AdapterTypeOK' /\ WritesWhatItRead' /\ EditsInOrder'
  BY <1>2, <1>3, FaultsType, AdapterQuiet DEF Writing, NoFault
<1>5. TypeOK'
  BY <1>1, <1>2, <1>3, <1>4 DEF GatedSteps
<1>6. LockedPolicy' /\ RepairOfWanted'
  BY <1>2, <1>3 DEF LockedPolicy, RepairOfWanted
<1> QED
  BY <1>4, <1>5, <1>6

LEMMA CommitFailsKeepsIInv ==
  ASSUME IInv, CommitFails
  PROVE  IInv'
<1> USE DEF IInv, TypeOK
<1>1. PICK step \in {"back", "failed"} : Goto(step)
  BY DEF CommitFails
<1>2. /\ job' \in Job /\ job'.pc = step /\ job'.owner = job.owner
      /\ job'.target = job.target /\ job'.files = job.files
  BY <1>1, GotoKeeps DEF AdapterTypeOK, JobSteps
<1>3. /\ UNCHANGED <<own, config, activity, running, edits, switches, raced, guardVars>>
      /\ \E kind \in FaultKinds : Fault(kind)
  BY DEF CommitFails, FaultKinds
<1>4. AdapterTypeOK' /\ WritesWhatItRead' /\ EditsInOrder'
  BY <1>2, <1>3, FaultsType, AdapterQuiet DEF Writing
<1>5. TypeOK'
  BY <1>2, <1>3, <1>4 DEF guardVars
<1>6. LockedPolicy' /\ RepairOfWanted'
  BY <1>2, <1>3 DEF LockedPolicy, RepairOfWanted, guardVars
<1> QED
  BY <1>4, <1>5, <1>6

\* The only step that changes the desired policy: the guard is not in the gate.
LEMMA EndRunKeepsIInv ==
  ASSUME IInv, EndRun
  PROVE  IInv'
<1> USE DEF IInv, TypeOK
<1>1. IdleJob.pc = "idle" /\ IdleJob.owner = "none"
  BY DEF IdleJob
<1>2. /\ UNCHANGED <<own, config, activity, running, edits, switches, faults, raced>>
      /\ UNCHANGED <<sup, status, runs, crashes>>
      /\ holder = "run" /\ holder' = "none" /\ job' = IdleJob
  BY DEF EndRun
<1>3. desired' \in 0..MaxPolicies
  BY SMT DEF EndRun, AdapterTypeOK, Job
<1>4. AdapterTypeOK' /\ WritesWhatItRead' /\ EditsInOrder'
  BY <1>1, <1>2, IdleJobType, FaultsType, AdapterQuiet DEF Writing, NoFault
<1>5. TypeOK'
  BY <1>1, <1>2, <1>3, <1>4 DEF GatedSteps
<1>6. LockedPolicy' /\ RepairOfWanted'
  BY <1>1, <1>2 DEF LockedPolicy, RepairOfWanted
<1> QED
  BY <1>4, <1>5, <1>6

LEMMA CrashKeepsIInv ==
  ASSUME IInv, Crash
  PROVE  IInv'
<1> USE DEF IInv, TypeOK
<1>1. IdleJob.pc = "idle" /\ IdleJob.owner = "none"
  BY DEF IdleJob
<1>2. /\ UNCHANGED <<own, config, activity, running, edits, switches, faults, raced>>
      /\ UNCHANGED <<desired, runs>>
      /\ holder' = "none" /\ job' = IdleJob /\ sup' = NewSupervisor /\ status' \in Statuses
  BY DEF Crash, Statuses
<1>3. crashes' \in 0..MaxCrashes
  BY MaxCrashesNat, SMT DEF Crash
<1>4. AdapterTypeOK' /\ WritesWhatItRead' /\ EditsInOrder'
  BY <1>1, <1>2, IdleJobType, FaultsType, AdapterQuiet DEF Writing, NoFault
<1>5. TypeOK'
  BY <1>1, <1>2, <1>3, <1>4, NewSupervisorType DEF GatedSteps
<1>6. LockedPolicy' /\ RepairOfWanted'
  BY <1>1, <1>2, NewSupervisorType DEF LockedPolicy, RepairOfWanted, GatedSteps
<1> QED
  BY <1>4, <1>5, <1>6

-----------------------------------------------------------------------------
(* The invariant and the theorems *)

LEMMA NextKeepsIInv == IInv /\ [Next]_vars => IInv'
<1> SUFFICES ASSUME IInv, [Next]_vars PROVE IInv'
  OBVIOUS
<1>1. CASE SupStep
  BY <1>1, OutsideKeepsIInv, ExecuteKeepsIInv, InsideKeepsIInv DEF SupStep
<1>2. CASE JobStep /\ UNCHANGED guardVars
  <2> USE DEF IInv, TypeOK
  <2>1. AdapterTypeOK' /\ job'.owner = job.owner /\ job'.target = job.target
    BY <1>2, JobStepTypes
  <2>2. WritesWhatItRead' /\ EditsInOrder'
    BY <1>2, JobStepWrites
  <2>3. TypeOK' /\ LockedPolicy' /\ RepairOfWanted'
    BY <1>2, <2>1 DEF guardVars, LockedPolicy, RepairOfWanted
  <2> QED
    BY <2>1, <2>2, <2>3
<1>3. CASE Environment /\ UNCHANGED guardVars
  <2> USE DEF IInv, TypeOK
  <2>1. AdapterTypeOK' /\ WritesWhatItRead' /\ EditsInOrder' /\ UNCHANGED job
    BY <1>3, EnvironmentSafe
  <2>2. TypeOK' /\ LockedPolicy' /\ RepairOfWanted'
    BY <1>3, <2>1 DEF guardVars, LockedPolicy, RepairOfWanted
  <2> QED
    BY <2>1, <2>2
<1>4. CASE UNCHANGED vars
  BY <1>4 DEF vars, adapterVars, guardVars, IInv, TypeOK, AdapterTypeOK, LockedPolicy,
              RepairOfWanted, WritesWhatItRead, Writing, EditsInOrder
<1> QED
  BY <1>1, <1>2, <1>3, <1>4, TimersKeepIInv, StartRunKeepsIInv, CommitFailsKeepsIInv,
     EndRunKeepsIInv, CrashKeepsIInv DEF Next

\* The inductive invariant: nobody but the optimization in the gate changes the
\* policy (runtime.go:253), and a transaction writes over the version of the
\* configuration it checked (mihomo/adapter.go:391) unless others wrote since.
THEOREM Invariance == Spec => []IInv
  BY InitIInv, NextKeepsIInv, PTL DEF Spec

\* The guard and an optimization are never in the gate together, and the one in
\* it owns the transaction, whatever fails or dies.
THEOREM TypeCorrect == Spec => []TypeOK
  BY Invariance, PTL DEF IInv

\* A repair writes the policy committed last (supervisor.go:223, runtime.go:253).
THEOREM RepairsAreCurrent == Spec => []RepairsCurrentPolicy
<1>1. IInv => RepairsCurrentPolicy
  BY DEF IInv, TypeOK, LockedPolicy, RepairOfWanted, RepairsCurrentPolicy, GatedSteps
<1> QED
  BY <1>1, Invariance, PTL

\* Nothing the daemon does brings an older version of the configuration back,
\* but over an edit made inside the transaction's own window.
THEOREM OthersEditsSurvive == Spec => EditsSurvive
<1>1. IInv /\ [Next]_vars => [config'.user < config.user => raced]_adapterVars
  <2> SUFFICES ASSUME IInv, [Next]_vars, config'.user < config.user PROVE raced
    OBVIOUS
  <2>0. config.user \in Int
    BY BoundsNat, SMT DEF IInv, TypeOK, AdapterTypeOK, Config
  <2>1. CASE JobStep
    BY <2>1, JobStepWrites DEF IInv, TypeOK
  <2>2. CASE Environment
    BY <2>2, EnvironmentSafe DEF IInv, TypeOK
  <2>3. CASE UNCHANGED config
    BY <2>0, <2>3, SMT
  <2>4. \/ JobStep \/ Environment \/ UNCHANGED config
    BY DEF Next, SupStep, ReadPolicy, ObserveNothing, ObserveActive, Inspect, Verify, Wake,
           Execute, FreshInspect, FreshVerify, RepairEnds, RetryElapses, AuditElapses,
           StartRun, CommitFails, EndRun, Crash, vars, adapterVars
  <2> QED
    BY <2>1, <2>2, <2>3, <2>4
<1> QED
  BY <1>1, Invariance, PTL DEF Spec, EditsSurvive

================================================================================
