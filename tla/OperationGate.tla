---------------------------- MODULE OperationGate ----------------------------
(***************************************************************************)
(* The execution right of an optimizer Runner.                             *)
(*                                                                         *)
(* A Runner owns a try-lock (runMutex), a counter of announced full        *)
(* optimizations (pendingRuns) and a channel that holds one token          *)
(* (operationGate).  A full optimization (Runner.Run) announces itself,    *)
(* takes the try-lock and then waits for the token until its context is    *)
(* cancelled.  A maintenance operation (RefreshPolicy, Reconfigure,        *)
(* UpdateAccelerationDomains, ClearDiscoveredDomains, manual mappings and  *)
(* the repairs of the guard) never waits: it takes the token only if no    *)
(* optimization is announced, before and after the attempt.                *)
(*                                                                         *)
(* Every step below is one atomic operation of the Go code: one load, one  *)
(* add, one TryLock, one channel receive or send.                          *)
(***************************************************************************)
EXTENDS Integers, FiniteSets

CONSTANTS
  Runners,   \* Runner objects: the daemon's and those of quick-start sessions
  Runs,      \* goroutines that call Runner.Run
  Maints,    \* goroutines that call a maintenance operation
  runnerOf   \* the Runner each goroutine works on

ASSUME RunsFinite == IsFiniteSet(Runs)
ASSUME RunnerOfType == runnerOf \in [Runs \cup Maints -> Runners]
ASSUME RunsAreNotMaints == Runs \cap Maints = {}

VARIABLES
  token,      \* token[g]: the channel of Runner g holds its token
  locked,     \* locked[g]: runMutex of Runner g is held
  pending,    \* pending[g]: the value of pendingRuns
  cancelled,  \* cancelled[r]: the context of the optimization is done
  pc          \* where each goroutine is

gateVars == <<token, locked, pending, cancelled, pc>>

Procs == Runs \cup Maints

RunPC == {"idle", "announced", "waiting", "recheck", "running", "unlocking", "leaving"}
MaintPC == {"idle", "calling", "checked", "acquired", "working"}

GateInit ==
  /\ token = [g \in Runners |-> TRUE]
  /\ locked = [g \in Runners |-> FALSE]
  /\ pending = [g \in Runners |-> 0]
  /\ cancelled = [r \in Runs |-> FALSE]
  /\ pc = [p \in Procs |-> "idle"]

GoesTo(p, from, to) == pc[p] = from /\ pc' = [pc EXCEPT ![p] = to]

Receive(g) == token[g] /\ token' = [token EXCEPT ![g] = FALSE]

\* A send on the full channel would block, which the guard says.
release(g) == ~token[g] /\ token' = [token EXCEPT ![g] = TRUE]

-----------------------------------------------------------------------------
(* Mutants: slips the code could have, each refuted by the property named. *)

\* GateExclusive: maintenance works whether or not it received the token.
MaintIgnoresToken(m) ==
  /\ GoesTo(m, "checked", "acquired")
  /\ token' = [token EXCEPT ![runnerOf[m]] = FALSE]
  /\ UNCHANGED <<locked, pending, cancelled>>

\* TokenConserved: a wait cancelled after the receive keeps the token.
AcquireKeepsToken(r) ==
  /\ cancelled[r]
  /\ GoesTo(r, "recheck", "unlocking")
  /\ UNCHANGED <<token, locked, pending, cancelled>>

\* ImplementsContract: the announcement is not counted until the lock is taken.
AnnounceUncounted(r) ==
  /\ GoesTo(r, "idle", "announced")
  /\ cancelled' = [cancelled EXCEPT ![r] = FALSE]
  /\ UNCHANGED <<token, locked, pending>>

\* MaintenanceYields: no second look at pendingRuns.
NoSecondCheck(m) ==
  /\ GoesTo(m, "acquired", "working")
  /\ UNCHANGED <<token, locked, pending, cancelled>>

\* WaitingRunProceeds: no first look at pendingRuns.
NoFirstCheck(m) ==
  /\ GoesTo(m, "calling", "checked")
  /\ UNCHANGED <<token, locked, pending, cancelled>>

-----------------------------------------------------------------------------
(* Runner.Run *)

Announce(r) ==
  /\ GoesTo(r, "idle", "announced")
  /\ pending' = [pending EXCEPT ![runnerOf[r]] = @ + 1]
  /\ cancelled' = [cancelled EXCEPT ![r] = FALSE]
  /\ UNCHANGED <<token, locked>>

TryLock(r) ==
  /\ ~locked[runnerOf[r]]
  /\ GoesTo(r, "announced", "waiting")
  /\ locked' = [locked EXCEPT ![runnerOf[r]] = TRUE]
  /\ UNCHANGED <<token, pending, cancelled>>

\* The call returns ErrAlreadyRunning after taking back its announcement.
TryLockFails(r) ==
  /\ locked[runnerOf[r]]
  /\ GoesTo(r, "announced", "leaving")
  /\ UNCHANGED <<token, locked, pending, cancelled>>

\* The caller's context ends: the API's cancel, a timeout, the daemon's stop.
Cancel(r) ==
  /\ pc[r] # "idle" /\ ~cancelled[r]
  /\ cancelled' = [cancelled EXCEPT ![r] = TRUE]
  /\ UNCHANGED <<token, locked, pending, pc>>

AcquireToken(r) ==
  /\ GoesTo(r, "waiting", "recheck")
  /\ Receive(runnerOf[r])
  /\ UNCHANGED <<locked, pending, cancelled>>

AcquireCancelled(r) ==
  /\ cancelled[r]
  /\ GoesTo(r, "waiting", "unlocking")
  /\ UNCHANGED <<token, locked, pending, cancelled>>

AcquireRecheck(r) ==
  /\ ~cancelled[r]
  /\ GoesTo(r, "recheck", "running")
  /\ UNCHANGED <<token, locked, pending, cancelled>>

AcquireGivesBack(r) ==
  /\ cancelled[r]
  /\ GoesTo(r, "recheck", "unlocking")
  /\ release(runnerOf[r])
  /\ UNCHANGED <<locked, pending, cancelled>>

\* The body ends, cancelled or not; the deferred calls run in reverse order.
RunEnds(r) ==
  /\ GoesTo(r, "running", "unlocking")
  /\ release(runnerOf[r])
  /\ UNCHANGED <<locked, pending, cancelled>>

RunUnlocks(r) ==
  /\ GoesTo(r, "unlocking", "leaving")
  /\ locked' = [locked EXCEPT ![runnerOf[r]] = FALSE]
  /\ UNCHANGED <<token, pending, cancelled>>

RunLeaves(r) ==
  /\ GoesTo(r, "leaving", "idle")
  /\ pending' = [pending EXCEPT ![runnerOf[r]] = @ - 1]
  /\ UNCHANGED <<token, locked, cancelled>>

-----------------------------------------------------------------------------
(* tryAcquireMaintenance and the operations that call it *)

MaintCalls(m) ==
  /\ GoesTo(m, "idle", "calling")
  /\ UNCHANGED <<token, locked, pending, cancelled>>

MaintFirstCheck(m) ==
  /\ pending[runnerOf[m]] <= 0
  /\ GoesTo(m, "calling", "checked")
  /\ UNCHANGED <<token, locked, pending, cancelled>>

MaintTryAcquire(m) ==
  /\ GoesTo(m, "checked", "acquired")
  /\ Receive(runnerOf[m])
  /\ UNCHANGED <<locked, pending, cancelled>>

MaintSecondCheck(m) ==
  /\ pending[runnerOf[m]] <= 0
  /\ GoesTo(m, "acquired", "working")
  /\ UNCHANGED <<token, locked, pending, cancelled>>

\* ErrAlreadyRunning: announced optimization, no token, or both checks undone.
MaintRefused(m) ==
  /\ \/ pending[runnerOf[m]] > 0 /\ GoesTo(m, "calling", "idle") /\ UNCHANGED token
     \/ ~token[runnerOf[m]] /\ GoesTo(m, "checked", "idle") /\ UNCHANGED token
     \/ /\ pending[runnerOf[m]] > 0
        /\ GoesTo(m, "acquired", "idle")
        /\ release(runnerOf[m])
  /\ UNCHANGED <<locked, pending, cancelled>>

MaintEnds(m) ==
  /\ GoesTo(m, "working", "idle")
  /\ release(runnerOf[m])
  /\ UNCHANGED <<locked, pending, cancelled>>

-----------------------------------------------------------------------------

\* The steps a goroutine takes by itself once it has been called.
RunStep(r) ==
  \/ TryLock(r) \/ TryLockFails(r)
  \/ AcquireToken(r) \/ AcquireCancelled(r)
  \/ AcquireRecheck(r) \/ AcquireGivesBack(r)
  \/ RunEnds(r) \/ RunUnlocks(r) \/ RunLeaves(r)

MaintStep(m) ==
  \/ MaintFirstCheck(m) \/ MaintTryAcquire(m) \/ MaintSecondCheck(m)
  \/ MaintRefused(m) \/ MaintEnds(m)

GateNext ==
  \/ \E r \in Runs : Announce(r) \/ Cancel(r) \/ RunStep(r)
  \/ \E m \in Maints : MaintCalls(m) \/ MaintStep(m)

GateSpec == GateInit /\ [][GateNext]_gateVars

\* Goroutines are scheduled and every operation inside the gate ends: its
\* network and system calls carry timeouts.  Nobody has to call or to cancel.
GateFairness ==
  /\ \A r \in Runs : WF_gateVars(RunStep(r))
  /\ \A m \in Maints : WF_gateVars(MaintStep(m))

GateFairSpec == GateSpec /\ GateFairness

-----------------------------------------------------------------------------
(* Properties *)

HoldsToken(p) == pc[p] \in {"recheck", "running", "acquired", "working"}
HoldsMutex(r) == pc[r] \in {"waiting", "recheck", "running", "unlocking"}
Announced(g) == {r \in Runs : runnerOf[r] = g /\ pc[r] # "idle"}
Working(p) == pc[p] \in {"running", "working"}

\* The types of the variables; in particular pendingRuns never goes below zero.
GateTypeOK ==
  /\ token \in [Runners -> BOOLEAN]
  /\ locked \in [Runners -> BOOLEAN]
  /\ pending \in [Runners -> Nat]
  /\ cancelled \in [Runs -> BOOLEAN]
  /\ pc \in [Procs -> RunPC \cup MaintPC]
  /\ \A r \in Runs : pc[r] \in RunPC
  /\ \A m \in Maints : pc[m] \in MaintPC

\* The token is in the channel or with exactly one goroutine of the Runner:
\* it is neither lost by a cancelled wait nor duplicated by a refused one.
TokenConserved ==
  /\ \A p \in Procs : HoldsToken(p) => ~token[runnerOf[p]]
  /\ \A p, q \in Procs :
       HoldsToken(p) /\ HoldsToken(q) /\ runnerOf[p] = runnerOf[q] => p = q
  /\ \A g \in Runners :
       ~token[g] => \E p \in Procs : runnerOf[p] = g /\ HoldsToken(p)

\* On one Runner an optimization or a maintenance operation that may change
\* routes or the proxy policy never runs beside another one.
GateExclusive ==
  \A p, q \in Procs :
    Working(p) /\ Working(q) /\ runnerOf[p] = runnerOf[q] => p = q

\* runMutex has one owner, so at most one optimization waits for the token.
MutexOwned ==
  /\ \A r \in Runs : HoldsMutex(r) => locked[runnerOf[r]]
  /\ \A r, s \in Runs :
       HoldsMutex(r) /\ HoldsMutex(s) /\ runnerOf[r] = runnerOf[s] => r = s

\* pendingRuns counts the calls of Run between their announcement and their
\* return, rejected and cancelled ones included: no path forgets to decrement.
PendingCounts == \A g \in Runners : pending[g] = Cardinality(Announced(g))

\* A maintenance operation never starts to work on a Runner while one of its
\* optimizations waits for the token.
MaintenanceYields ==
  [][\A m \in Maints :
       pc[m] # "working" /\ pc'[m] = "working" =>
         \A r \in Runs : runnerOf[r] = runnerOf[m] => pc[r] # "waiting"]_gateVars

\* An optimization that waits for the token gets it, or leaves cancelled, even
\* though maintenance operations keep arriving and weak fairness is all it has.
WaitingRunProceeds == \A r \in Runs : pc[r] = "waiting" ~> pc[r] # "waiting"

-----------------------------------------------------------------------------
(* The abstract specification *)

phaseAt(at) ==
  IF at \in {"announced", "waiting", "recheck"} THEN "asking"
  ELSE IF at \in {"running", "working"} THEN "working"
  ELSE IF at \in {"unlocking", "leaving"} THEN "leaving"
  ELSE "out"

phaseOf == [p \in Procs |-> phaseAt(pc[p])]

Contract == INSTANCE GateContract WITH phase <- phaseOf

\* The lock, the counter and the token together keep what GateContract
\* promises: every step of the code is one of its steps or none.
ImplementsContract == Contract!Spec
==============================================================================
