---------------------------- MODULE GuardSupervisor ----------------------------
(***************************************************************************)
(* The policy guard: one goroutine of guard.Supervisor with the Mihomo     *)
(* strategy, beside optimizations.                                         *)
(*                                                                         *)
(* An optimization holds the operation gate while it changes the policy    *)
(* and makes it the desired one when it commits.  The guard watches the    *)
(* kernel: it waits until the active configuration and the desired policy  *)
(* are stable, inspects, verifies, and audits again from time to time.     *)
(* If the rules were lost it takes the gate, if it is free, makes sure     *)
(* that the desired policy is still the one it inspected for, and repairs  *)
(* with the transaction of MihomoAdapter.                                  *)
(*                                                                         *)
(* Inspections and verifications outside the gate may see the middle of an *)
(* optimization.  Delays are timers that run out at any moment.            *)
(***************************************************************************)
EXTENDS MihomoAdapter

CONSTANT MaxCrashes  \* bound on crashes of the daemon

ASSUME MaxCrashesNat == MaxCrashes \in Nat

VARIABLES
  desired,  \* the committed policy
  holder,   \* who holds the operation gate
  sup,      \* the goroutine of the guard
  status,   \* the state it published last
  runs,     \* optimizations started
  crashes

guardVars == <<desired, holder, sup, status, runs, crashes>>
vars == <<adapterVars, guardVars>>

SupSteps == {"read", "wait", "observe", "inspect", "verify", "execute",
             "fresh", "fresh_verify", "repair"}

\* The steps inside TryExecute's callback.
GatedSteps == {"fresh", "fresh_verify", "repair"}

\* retry_wait and failed differ in the number of failures: "failing".
Statuses == {"checking", "no_policy", "offline", "standby", "drifted",
             "restoring", "verified", "failing"}

NoRevision == [user |-> 0, managed |-> NoPolicy, want |-> NoPolicy]

\* want: the policy read at the top of the loop; revision: the configuration
\* and policy found stable; verified: the policy verified under it; due: the
\* next audit is due; retry: the delay after a failure runs.
Supervisor ==
  [pc : SupSteps, want : 0..MaxPolicies, verified : 0..MaxPolicies,
   revision : [user : 0..MaxChanges, managed : 0..MaxPolicies, want : 0..MaxPolicies],
   due : BOOLEAN, retry : BOOLEAN]

NewSupervisor ==
  [pc |-> "read", want |-> NoPolicy, revision |-> NoRevision, verified |-> NoPolicy,
   due |-> TRUE, retry |-> FALSE]

Init ==
  /\ AdapterInit
  /\ desired = NoPolicy /\ holder = "none" /\ runs = 0 /\ crashes = 0
  /\ sup = NewSupervisor /\ status = "checking"

-----------------------------------------------------------------------------
(* The loop of runStrategy, outside the gate *)

At(step) == sup.pc = step

\* publishFailure, with the delay of the next attempt.
Fails(next) ==
  /\ sup' = [sup EXCEPT !.pc = next, !.retry = TRUE]
  /\ status' = "failing"

\* Nothing to guard: what was verified is forgotten; a delay that runs stays.
Rests(state) ==
  /\ sup' = [sup EXCEPT !.pc = "wait", !.revision = NoRevision, !.verified = NoPolicy]
  /\ status' = state

\* markVerified, and the next audit.
Verified(next) ==
  /\ sup' = [sup EXCEPT !.pc = next, !.verified = sup.want, !.due = FALSE, !.retry = FALSE]
  /\ status' = "verified"

ReadPolicy ==
  /\ At("read")
  /\ \/ NoFault /\ desired = NoPolicy /\ Rests("no_policy")
     \/ /\ NoFault /\ desired # NoPolicy
        /\ sup' = [sup EXCEPT !.pc = "observe", !.want = desired]
        /\ UNCHANGED status
     \/ Fault("read") /\ Fails("wait")
  /\ UNCHANGED <<own, config, activity, running, job, edits, switches, raced>>
  /\ UNCHANGED <<desired, holder, runs, crashes>>

\* Observe and the decision that follows, for a kernel that carries no traffic
\* or whose configuration is not known.
ObserveNothing ==
  /\ At("observe")
  /\ \/ NoFault /\ activity = "offline" /\ Rests("offline")
     \/ NoFault /\ activity = "inactive" /\ Rests("standby")
     \/ NoFault /\ activity = "unmanaged" /\ Fails("wait")
     \/ Fault("read") /\ Fails("wait")
  /\ UNCHANGED <<own, config, activity, running, job, edits, switches, raced>>
  /\ UNCHANGED <<desired, holder, runs, crashes>>

Revision == [user |-> config.user, managed |-> config.managed, want |-> sup.want]

\* A new configuration or policy has to be stable first; then a delay or the
\* time to the next audit has to pass.
ObserveActive ==
  /\ At("observe") /\ activity = "active"
  /\ IF sup.revision # Revision
     THEN /\ sup' = [sup EXCEPT !.pc = "wait", !.revision = Revision,
                       !.verified = NoPolicy, !.due = TRUE]
          /\ status' = "checking"
     ELSE IF sup.retry \/ (sup.verified = sup.want /\ ~sup.due)
     THEN sup' = [sup EXCEPT !.pc = "wait"] /\ UNCHANGED status
     ELSE sup' = [sup EXCEPT !.pc = "inspect"] /\ status' = "checking"
  /\ UNCHANGED adapterVars
  /\ UNCHANGED <<desired, holder, runs, crashes>>

Inspect ==
  /\ At("inspect")
  /\ \/ /\ NoFault /\ InForce(sup.want)
        /\ IF sup.verified = sup.want THEN Verified("read")
           ELSE sup' = [sup EXCEPT !.pc = "verify"] /\ UNCHANGED status
     \/ /\ NoFault /\ ~InForce(sup.want)
        /\ sup' = [sup EXCEPT !.pc = "execute"] /\ status' = "drifted"
     \/ Fault("read") /\ Fails("read")
  /\ UNCHANGED <<own, config, activity, running, job, edits, switches, raced>>
  /\ UNCHANGED <<desired, holder, runs, crashes>>

Verify ==
  /\ At("verify")
  /\ \/ NoFault /\ InForce(sup.want) /\ Verified("read")
     \/ ((NoFault /\ ~InForce(sup.want)) \/ Fault("connect")) /\ Fails("read")
  /\ UNCHANGED <<own, config, activity, running, job, edits, switches, raced>>
  /\ UNCHANGED <<desired, holder, runs, crashes>>

\* waitContext returns.
Wake ==
  /\ At("wait")
  /\ sup' = [sup EXCEPT !.pc = "read"]
  /\ UNCHANGED <<adapterVars, desired, holder, status, runs, crashes>>

RetryElapses ==
  /\ sup.retry
  /\ sup' = [sup EXCEPT !.retry = FALSE]
  /\ UNCHANGED <<adapterVars, desired, holder, status, runs, crashes>>

AuditElapses ==
  /\ ~sup.due
  /\ sup' = [sup EXCEPT !.due = TRUE]
  /\ UNCHANGED <<adapterVars, desired, holder, status, runs, crashes>>

-----------------------------------------------------------------------------
(* TryExecute: the repair, inside the gate *)

\* A mutant of Execute (RepairsCurrentPolicy): the revision is not compared.
ExecuteUnchecked ==
  /\ At("execute") /\ NoFault
  /\ \/ holder # "none" /\ Fails("read") /\ UNCHANGED holder
     \/ /\ holder = "none"
        /\ holder' = "guard" /\ sup' = [sup EXCEPT !.pc = "fresh"]
        /\ UNCHANGED status
  /\ UNCHANGED <<own, config, activity, running, job, edits, switches, raced>>
  /\ UNCHANGED <<desired, runs, crashes>>

\* A gate that is busy is a failure like any other; a policy that is not the
\* one inspected for starts the loop again, without a delay.
Execute ==
  /\ At("execute")
  /\ \/ NoFault /\ holder # "none" /\ Fails("read") /\ UNCHANGED holder
     \/ /\ NoFault /\ holder = "none" /\ desired # sup.want
        /\ sup' = [sup EXCEPT !.pc = "read", !.revision = NoRevision,
                     !.verified = NoPolicy, !.retry = FALSE]
        /\ UNCHANGED <<holder, status>>
     \/ /\ NoFault /\ holder = "none" /\ desired = sup.want
        /\ holder' = "guard" /\ sup' = [sup EXCEPT !.pc = "fresh"]
        /\ UNCHANGED status
     \/ holder = "none" /\ Fault("read") /\ Fails("read") /\ UNCHANGED holder
  /\ UNCHANGED <<own, config, activity, running, job, edits, switches, raced>>
  /\ UNCHANGED <<desired, runs, crashes>>

\* The state may have changed before the gate was taken.
FreshInspect ==
  /\ At("fresh")
  /\ \/ /\ NoFault /\ InForce(sup.want)
        /\ sup' = [sup EXCEPT !.pc = "fresh_verify"]
        /\ UNCHANGED <<status, holder, job>>
     \/ /\ NoFault /\ ~InForce(sup.want)
        /\ sup' = [sup EXCEPT !.pc = "repair"] /\ status' = "restoring"
        /\ job' = NewJob("guard", sup.want)
        /\ UNCHANGED holder
     \/ Fault("read") /\ Fails("read") /\ holder' = "none" /\ UNCHANGED job
  /\ UNCHANGED <<own, config, activity, running, edits, switches, raced>>
  /\ UNCHANGED <<desired, runs, crashes>>

FreshVerify ==
  /\ At("fresh_verify")
  /\ \/ NoFault /\ InForce(sup.want) /\ Verified("wait")
     \/ ((NoFault /\ ~InForce(sup.want)) \/ Fault("connect")) /\ Fails("read")
  /\ holder' = "none"
  /\ UNCHANGED <<own, config, activity, running, job, edits, switches, raced>>
  /\ UNCHANGED <<desired, runs, crashes>>

\* A mutant of RepairEnds (TypeOK): a failed repair does not free the gate.
RepairEndsLeaking ==
  /\ At("repair") /\ job.pc \in {"ok", "failed"}
  /\ \/ job.pc = "ok" /\ Verified("wait") /\ holder' = "none"
     \/ job.pc = "failed" /\ Fails("read") /\ UNCHANGED holder
  /\ job' = IdleJob
  /\ UNCHANGED <<own, config, activity, running, edits, switches, faults, raced>>
  /\ UNCHANGED <<desired, runs, crashes>>

\* What the transaction came to; the gate is free again.
RepairEnds ==
  /\ At("repair") /\ job.pc \in {"ok", "failed"}
  /\ IF job.pc = "ok" THEN Verified("wait") ELSE Fails("read")
  /\ holder' = "none" /\ job' = IdleJob
  /\ UNCHANGED <<own, config, activity, running, edits, switches, faults, raced>>
  /\ UNCHANGED <<desired, runs, crashes>>

-----------------------------------------------------------------------------
(* Optimizations, crashes and the environment *)

\* An optimization takes the gate and applies its policy, its transition and
\* final ones as one; PolicyTransaction has both, and their journal.
StartRun ==
  /\ holder = "none" /\ runs < MaxPolicies
  /\ runs' = runs + 1
  /\ holder' = "run" /\ job' = NewJob("run", runs')
  /\ UNCHANGED <<own, config, activity, running, edits, switches, faults, raced>>
  /\ UNCHANGED <<desired, sup, status, crashes>>

\* The state cannot be saved: what was applied is rolled back.
CommitFails ==
  /\ job.owner = "run" /\ JobAt("ok")
  /\ Fault("write")
  /\ Goto(IF job.changed THEN "back" ELSE "failed")
  /\ UNCHANGED <<own, config, activity, running, edits, switches, raced, guardVars>>

\* The commit makes its policy the desired one.
EndRun ==
  /\ job.owner = "run" /\ job.pc \in {"ok", "failed"}
  /\ desired' = IF job.pc = "ok" THEN job.target ELSE desired
  /\ holder' = "none" /\ job' = IdleJob
  /\ UNCHANGED <<own, config, activity, running, edits, switches, faults, raced>>
  /\ UNCHANGED <<sup, status, runs, crashes>>

\* The daemon dies and starts again; a repair it was making leaves no trace but
\* what it wrote.  A crash inside an optimization is PolicyTransaction's.
Crash ==
  /\ crashes < MaxCrashes /\ job.owner # "run"
  /\ crashes' = crashes + 1
  /\ holder' = "none" /\ job' = IdleJob
  /\ sup' = NewSupervisor /\ status' = "checking"
  /\ UNCHANGED <<own, config, activity, running, edits, switches, faults, raced>>
  /\ UNCHANGED <<desired, runs>>

SupStep ==
  \/ ReadPolicy \/ ObserveNothing \/ ObserveActive \/ Inspect \/ Verify \/ Wake
  \/ Execute \/ FreshInspect \/ FreshVerify \/ RepairEnds

Next ==
  \/ SupStep
  \/ JobStep /\ UNCHANGED guardVars
  \/ RetryElapses \/ AuditElapses
  \/ StartRun \/ CommitFails \/ EndRun \/ Crash
  \/ Environment /\ UNCHANGED guardVars

Spec == Init /\ [][Next]_vars

\* The goroutine goes on, calls return (they have timeouts) and timers run out.
\* Nothing is assumed of optimizations to come, the user and the kernel.
FairSpec ==
  /\ Spec
  /\ WF_vars(SupStep) /\ WF_vars(JobStep /\ UNCHANGED guardVars) /\ WF_vars(EndRun)
  /\ WF_vars(RetryElapses) /\ WF_vars(AuditElapses)

-----------------------------------------------------------------------------
(* Properties *)

\* The types, and who may be where: exactly the guard's last steps and an
\* optimization hold the gate, whose holder owns the transaction.
TypeOK ==
  /\ AdapterTypeOK
  /\ desired \in 0..MaxPolicies /\ runs \in 0..MaxPolicies /\ crashes \in 0..MaxCrashes
  /\ sup \in Supervisor /\ status \in Statuses /\ holder \in {"none", "guard", "run"}
  /\ holder = "guard" <=> sup.pc \in GatedSteps
  /\ job.owner = "guard" <=> sup.pc = "repair"
  /\ job.owner = "run" <=> holder = "run"

\* A repair writes the policy that is the desired one at that moment, whatever
\* was committed after the guard had read, observed and inspected.
RepairsCurrentPolicy == job.owner = "guard" => job.target = desired

\* The known gap: the files are as the adapter writes them, byte by byte, and
\* the kernel does not run them.  Apply has nothing to write, so it does not
\* reload, and the guard fails again and again.
Stuck ==
  /\ desired # NoPolicy /\ activity = "active"
  /\ own = desired /\ config = Patched(config, desired)
  /\ running # desired

\* The guard is content, but for its audits.
Restored == InForce(desired) /\ sup.verified = desired /\ status \in {"verified", "checking"}

\* If the kernel carries traffic for good, the desired policy is in force in the
\* end and reported as verified, whatever a subscription, a crash, failed calls
\* and optimizations did before: but for the known gap.
DriftIsRestored ==
  <>[](activity = "active" /\ desired # NoPolicy) => <>[](Restored \/ Stuck)

================================================================================
