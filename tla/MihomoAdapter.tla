----------------------------- MODULE MihomoAdapter -----------------------------
(***************************************************************************)
(* The Mihomo adapter: one policy change as a transaction over files and a *)
(* running kernel.                                                         *)
(*                                                                         *)
(* The adapter owns private files (the rule provider and its metadata) and *)
(* patches the active configuration of the kernel, a file that belongs to  *)
(* the user and that a GUI client rewrites when it likes.  The kernel runs *)
(* what it last loaded.  Apply plans, checks that nothing changed since    *)
(* the plan, writes the files and reloads the kernel; a failure puts the   *)
(* old contents back.  Rollback undoes an applied change if the files are  *)
(* still as it left them.                                                  *)
(*                                                                         *)
(* A policy is the number of the optimization that chose it; 0 is none.    *)
(* job is the transaction in progress: the operation gate allows one.      *)
(***************************************************************************)
EXTENDS Integers, FiniteSets

CONSTANTS
  MaxPolicies,  \* bound on the policies chosen
  MaxChanges,   \* bound on rewrites of the active configuration by others and
                \* changes of the kernel's activity, together
  Faults,       \* which calls may fail: subset of FaultKinds
  MaxFaults     \* bound on failing calls

FaultKinds == {"read", "write", "restore", "reload", "connect"}

ASSUME FaultsKnown == Faults \subseteq FaultKinds
ASSUME BoundsNat ==
  MaxPolicies \in Nat /\ MaxChanges \in Nat /\ MaxFaults \in Nat

VARIABLES
  own,        \* the policy in the provider and its metadata
  config,     \* the active configuration
  activity,   \* what the kernel does: see Activities
  running,    \* the policy in the rules the kernel runs
  job,        \* the transaction in progress
  edits, switches, faults,
  raced       \* others rewrote the configuration while the transaction wrote it

adapterVars == <<own, config, activity, running, job, edits, switches, faults, raced>>

NoPolicy == 0

\* user: the version of the user's part; managed: the policy it has been
\* patched with; foreign: the bytes are not as the adapter would write them.
Config == [user : 0..MaxChanges, managed : 0..MaxPolicies, foreign : BOOLEAN]

\* "unmanaged": it carries traffic, but its configuration is not known.
Activities == {"offline", "inactive", "unmanaged", "active"}

Files == [own : 0..MaxPolicies, config : Config]

JobSteps == {"idle", "plan", "check", "own", "config", "reload", "restore",
             "restore_loaded", "reload_again", "verify", "back", "back_write",
             "back_reload", "ok", "failed"}

\* files: what Plan, and then Apply, read; changed: Apply changes something.
Job == [pc : JobSteps, owner : {"none", "guard", "run"}, target : 0..MaxPolicies,
        files : Files, changed : BOOLEAN]

Unpatched == [user |-> 0, managed |-> NoPolicy, foreign |-> TRUE]

IdleJob == [pc |-> "idle", owner |-> "none", target |-> NoPolicy, changed |-> FALSE,
            files |-> [own |-> NoPolicy, config |-> Unpatched]]

NewJob(owner, policy) ==
  [IdleJob EXCEPT !.pc = "plan", !.owner = owner, !.target = policy]

AdapterInit ==
  /\ own = NoPolicy /\ config = Unpatched
  /\ activity = "active" /\ running = NoPolicy
  /\ job = IdleJob
  /\ edits = 0 /\ switches = 0 /\ faults = 0
  /\ raced = FALSE

-----------------------------------------------------------------------------
(* Helpers *)

NoFault == UNCHANGED faults
Fault(kind) == kind \in Faults /\ faults < MaxFaults /\ faults' = faults + 1

\* patchManagedConfig keeps the user's part; its output is the same whenever
\* its input is the adapter's own output.
Patched(c, policy) == [user |-> c.user, managed |-> policy, foreign |-> FALSE]

\* Equal but for the serialization.
SameMeaning(c, d) == c.user = d.user /\ c.managed = d.managed

\* InspectManagedPolicy: the files have the policy and the kernel runs it.
InForce(policy) ==
  own = policy /\ config.managed = policy /\ activity # "offline" /\ running = policy

\* reloadConfig: the kernel loads the file; a call that fails may have worked.
reloadConfig(ok) ==
  \/ ok /\ NoFault /\ activity # "offline" /\ running' = config.managed
  \/ ~ok /\ activity # "offline" /\ Fault("reload") /\ running' \in {running, config.managed}
  \/ ~ok /\ activity = "offline" /\ NoFault /\ UNCHANGED running

JobAt(step) == job.pc = step
Goto(step) == job' = [job EXCEPT !.pc = step]

-----------------------------------------------------------------------------
(* Plan and Apply *)

Plan ==
  /\ JobAt("plan")
  /\ \/ /\ NoFault
        /\ job' = [job EXCEPT !.pc = "check", !.files = [own |-> own, config |-> config]]
     \/ Fault("read") /\ Goto("failed")
  /\ raced' = FALSE
  /\ UNCHANGED <<own, config, activity, running, edits, switches>>

\* A mutant of Check (DriftIsRestored): only the private files are compared
\* with what the plan wants.
CheckOwnOnly ==
  /\ JobAt("check")
  /\ NoFault
  /\ \/ /\ job.files = [own |-> own, config |-> config]
        /\ LET changed == own # job.target IN
           job' = [job EXCEPT !.pc = IF changed THEN "own" ELSE "verify", !.changed = changed]
     \/ job.files # [own |-> own, config |-> config] /\ Goto("failed")
  /\ UNCHANGED <<own, config, activity, running, edits, switches, raced>>

\* Refused if a file changed after planning.  Without anything to write there
\* is no reload either.
Check ==
  /\ JobAt("check")
  /\ \/ /\ NoFault
        /\ job.files = [own |-> own, config |-> config]
        /\ LET changed == own # job.target \/ config # Patched(config, job.target) IN
           job' = [job EXCEPT !.pc = IF changed THEN "own" ELSE "verify", !.changed = changed]
     \/ /\ NoFault
        /\ job.files # [own |-> own, config |-> config]
        /\ Goto("failed")
     \/ Fault("read") /\ Goto("failed")
  /\ UNCHANGED <<own, config, activity, running, edits, switches, raced>>

\* The provider and the metadata; a failure of the first write has nothing to
\* put back.
WriteOwn ==
  /\ JobAt("own")
  /\ \/ NoFault /\ own' = job.target /\ Goto("config")
     \/ /\ job.files.own # job.target /\ Fault("write")
        /\ \/ Goto("failed") /\ UNCHANGED own
           \/ Goto("restore") /\ own' \in {own, job.target}
  /\ UNCHANGED <<config, activity, running, edits, switches, raced>>

\* The configuration is written as it was planned.
WriteConfig ==
  /\ JobAt("config")
  /\ LET planned == Patched(job.files.config, job.target) IN
     \/ /\ NoFault
        /\ config' = IF job.files.config # planned THEN planned ELSE config
        /\ Goto("reload")
     \/ /\ job.files.config # planned /\ Fault("write")
        /\ Goto("restore")
        /\ UNCHANGED config
  /\ UNCHANGED <<own, activity, running, edits, switches, raced>>

Reload ==
  /\ JobAt("reload")
  /\ \/ reloadConfig(TRUE) /\ Goto("verify")
     \/ reloadConfig(FALSE) /\ Goto("restore_loaded")
  /\ UNCHANGED <<own, config, activity, edits, switches, raced>>

\* restoreAll; its errors are dropped.  Only a failed reload is repeated.
Restore ==
  /\ JobAt("restore") \/ JobAt("restore_loaded")
  /\ \/ NoFault /\ own' = job.files.own /\ config' = job.files.config
     \/ /\ Fault("restore")
        /\ own' \in {own, job.files.own} /\ config' \in {config, job.files.config}
  /\ Goto(IF JobAt("restore") THEN "failed" ELSE "reload_again")
  /\ UNCHANGED <<activity, running, edits, switches, raced>>

ReloadAgain ==
  /\ JobAt("reload_again")
  /\ reloadConfig(TRUE) \/ reloadConfig(FALSE)
  /\ Goto("failed")
  /\ UNCHANGED <<own, config, activity, edits, switches, raced>>

-----------------------------------------------------------------------------
(* Verify and Rollback *)

\* A run verifies the files it wrote; the guard, what it was asked for.  The
\* connections through the kernel may fail to be verified, too.
Verifies ==
  /\ InForce(job.target)
  /\ job.owner = "run" => config.user = job.files.config.user

VerifyJob ==
  /\ JobAt("verify")
  /\ \/ NoFault /\ Verifies /\ Goto("ok")
     \/ /\ ((NoFault /\ ~Verifies) \/ Fault("connect"))
        /\ Goto(IF job.changed THEN "back" ELSE "failed")
     \/ job.owner = "guard" /\ Fault("connect") /\ Goto("failed")
  /\ UNCHANGED <<own, config, activity, running, edits, switches, raced>>

\* A mutant of BackCheck (EditsSurvive): the previous contents are put back
\* whatever the files have now.
BackUnchecked ==
  /\ JobAt("back")
  /\ NoFault
  /\ Goto("back_write")
  /\ UNCHANGED <<own, config, activity, running, edits, switches, raced>>

\* Nothing to do, not even a reload, if the previous contents are back; refused
\* if a file is neither as before nor as applied.
BackCheck ==
  /\ JobAt("back")
  /\ LET applied == Patched(job.files.config, job.target)
         ownBack == own = job.files.own
         configBack == SameMeaning(config, job.files.config)
         refused == \/ ~ownBack /\ own # job.target
                    \/ ~configBack /\ ~SameMeaning(config, applied) IN
     \/ /\ NoFault
        /\ Goto(IF (ownBack /\ configBack) \/ refused THEN "failed" ELSE "back_write")
     \/ Fault("read") /\ Goto("failed")
  /\ UNCHANGED <<own, config, activity, running, edits, switches, raced>>

\* The configuration first, then the private files.
BackWrite ==
  /\ JobAt("back_write")
  /\ \/ /\ NoFault
        /\ own' = job.files.own /\ config' = job.files.config
        /\ Goto("back_reload")
     \/ /\ Fault("write")
        /\ UNCHANGED own /\ config' \in {config, job.files.config}
        /\ Goto("failed")
  /\ UNCHANGED <<activity, running, edits, switches, raced>>

BackReload ==
  /\ JobAt("back_reload")
  /\ reloadConfig(TRUE) \/ reloadConfig(FALSE)
  /\ Goto("failed")
  /\ UNCHANGED <<own, config, activity, edits, switches, raced>>

JobStep ==
  \/ Plan \/ Check \/ WriteOwn \/ WriteConfig \/ Reload \/ Restore \/ ReloadAgain
  \/ VerifyJob \/ BackCheck \/ BackWrite \/ BackReload

-----------------------------------------------------------------------------
(* The user, the GUI client and the kernel *)

\* Between the adapter's last look at the configuration and its last write.
Writing == job.pc \in {"own", "config", "reload", "restore", "restore_loaded", "back_write"}

\* The configuration is rewritten: a subscription drops the adapter's patch, an
\* edit of the user's part keeps it.  The client may reload the kernel.
Rewrite(managed, reload) ==
  /\ edits + switches < MaxChanges
  /\ managed \in {NoPolicy, config.managed}
  /\ edits' = edits + 1
  /\ config' = [user |-> edits', managed |-> managed, foreign |-> TRUE]
  /\ running' = IF reload /\ activity # "offline" THEN managed ELSE running
  /\ raced' = (raced \/ Writing)
  /\ UNCHANGED <<own, activity, job, switches, faults>>

\* The kernel stops, starts (with what the file has), or the system proxy and
\* the TUN are switched.
Switch(to) ==
  /\ edits + switches < MaxChanges /\ to # activity
  /\ switches' = switches + 1
  /\ activity' = to
  /\ running' = IF activity = "offline" THEN config.managed ELSE running
  /\ UNCHANGED <<own, config, job, edits, faults, raced>>

Environment ==
  \/ \E managed \in 0..MaxPolicies, reload \in BOOLEAN : Rewrite(managed, reload)
  \/ \E to \in Activities : Switch(to)

-----------------------------------------------------------------------------
(* Properties *)

AdapterTypeOK ==
  /\ own \in 0..MaxPolicies /\ config \in Config
  /\ activity \in Activities /\ running \in 0..MaxPolicies
  /\ job \in Job
  /\ edits \in Nat /\ switches \in Nat /\ edits + switches <= MaxChanges
  /\ faults \in 0..MaxFaults /\ raced \in BOOLEAN

\* While a transaction writes, the configuration has the user's part that was
\* read: so what it puts there is not older.
WritesWhatItRead == Writing /\ ~raced => config.user = job.files.config.user

\* What others wrote into the active configuration is never replaced by an
\* older version of it, by a repair, a failed change or a rollback: only an edit
\* made after the check of that same transaction and before its last write is.
EditsSurvive == [][config'.user < config.user => raced]_adapterVars

================================================================================
