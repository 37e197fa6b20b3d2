--------------------------- MODULE DomainDiscovery ---------------------------
(***************************************************************************)
(* The automatic domains: what a discovery round observes and verifies,    *)
(* the records it keeps, the refresh that maps them, the isolation of a    *)
(* domain whose connection fails, the clearing of the records, and the     *)
(* operations -- runs, refreshes, changes of the domain lists -- that      *)
(* write the same records and the same policy under the operation gate.    *)
(*                                                                         *)
(* A round takes a snapshot, resolves and verifies for a long time, writes *)
(* whole records back and then asks for a refresh; accelerationMutex keeps *)
(* rounds, clearings and reloads apart, but no run and no change of the    *)
(* lists.  The records are a map that Store.Update shares with its         *)
(* callback: what a failed write put into it stays in memory.              *)
(*                                                                         *)
(* Addresses, routes and adapters are the matter of OptimizationRun,       *)
(* RouteController and PolicyTransaction; a policy is here the set of the  *)
(* domains it maps.                                                        *)
(***************************************************************************)
EXTENDS Naturals, FiniteSets, Functions

CONSTANTS
  Domains,     \* names that a configuration lists or a connection shows
  Configs,     \* [mode, manual, excluded]
  OldConfigs,  \* those of them that an earlier daemon may have failed with
  MaxSeen,     \* bound on the domains that a round sees
  MaxRecords,  \* acceleration.max_discovered_domains
  MaxCalls,    \* bound on runs, clearings and changes of configuration
  MaxFaults,   \* bound on failed writes, verifications and allocations, and crashes
  None

\* Acceleration is enabled in all of them.  Without auto_discover a round does
\* nothing ("off"); without auto_apply what it finds is not mapped ("observe").
ASSUME ConfigsAreRecords ==
  Configs \subseteq [mode : {"off", "observe", "apply"},
                     manual : SUBSET Domains, excluded : SUBSET Domains]
ASSUME OldConfigsAreConfigs == OldConfigs \subseteq Configs
ASSUME DiscoveryBounds == {MaxSeen, MaxRecords, MaxCalls, MaxFaults} \subseteq Nat

VARIABLES
  mem, disk,  \* store.State in memory and in the file
  config,     \* the Runner's configuration
  visible,    \* whether a round gets to see connections
  round,      \* the local variables of DiscoverAccelerationDomains
  op,         \* those of the operation that holds the gate
  cleared,    \* history: domains that were cleared and not seen since
  settled,    \* history: the configuration whose lists the last commit has mapped
  calls, faults

vars == <<mem, disk, config, visible, round, op, cleared, settled, calls, faults>>

-----------------------------------------------------------------------------
(* The state *)

\* DomainDiscovery: verified stands for CloudflareVerified and
\* PreflightVerified, resolved for a LastResolvedAddresses that is not empty.
Records == [manual : BOOLEAN, verified : BOOLEAN, active : BOOLEAN, resolved : BOOLEAN]
NewRecord == [manual |-> FALSE, verified |-> FALSE, active |-> FALSE, resolved |-> FALSE]

\* None is none of the values that it stands in for.
ASSUME NoneIsNoValue ==
  /\ None \notin Configs /\ None \notin Records /\ \A s \in SUBSET Domains : s # None
  /\ None \notin {"run", "dry", "refresh", "domains", "clear"}

\* A checkpoint with the evidence of an allocation, as ConfigHash and CurrentStage
\* name it; "plan" stands for policy_plan and apply_verify.  Without evidence it
\* is None.  of is history: the configuration whose lists were allocated.
Checkpoints == [domains : SUBSET Domains, config : Configs,
                stage : {"pool", "domain", "plan"}, of : Configs]

States == [records : [Domains -> Records \cup {None}],
           policy : {None} \cup SUBSET Domains,
           plan : Checkpoints \cup {None}]

\* acceleration.Config.AccelerationDomains: the lists without what is excluded.
AccelerationDomains(c) == c.manual \ c.excluded

\* automaticDomainAllocationEnabled
Allocating(c) == c.mode = "apply"

Recorded(records) == {d \in Domains : records[d] # None}

\* EffectiveDiscoveries
Effective(c, records) ==
  IF ~Allocating(c) THEN {}
  ELSE {d \in Recorded(records) \ (c.manual \cup c.excluded) :
          records[d].verified /\ records[d].active /\ records[d].resolved}

\* The mappings of the policy that are nobody's wish any more.
Strays(c, state) ==
  IF state.policy = None THEN {}
  ELSE state.policy \ (AccelerationDomains(c) \cup Effective(c, state.records))

NoRound == [pc |-> "idle", updates |-> None, activated |-> {}, changed |-> FALSE,
            overtaken |-> {}]
NoOp == [kind |-> None, pc |-> "idle", drop |-> {}, asked |-> {}, got |-> {}, failed |-> {},
         suspect |-> {}, resumed |-> FALSE, of |-> None, previous |-> None]

\* What an earlier daemon may leave: no checkpoint, or the one of a run that
\* failed with its plan, and of a later one that failed before its domains.
LeftBehind ==
  {None} \cup {[domains |-> AccelerationDomains(c), config |-> config, stage |-> "pool", of |-> c] :
                 c \in {c \in OldConfigs \ {config} : AccelerationDomains(c) # {}}}

Init ==
  /\ config \in Configs /\ visible \in BOOLEAN
  /\ \E plan \in LeftBehind :
       mem = [records |-> [d \in Domains |-> None], policy |-> None, plan |-> plan]
  /\ disk = mem
  /\ round = NoRound /\ op = NoOp
  /\ cleared = {} /\ settled = None /\ calls = 0 /\ faults = 0

GateFree == op.pc = "idle"

\* accelerationMutex: rounds and clearings hold it.
MutexFree == round.pc = "idle" /\ op.kind # "clear"

Fault == faults < MaxFaults /\ faults' = faults + 1
Saves(next) == mem' = next /\ disk' = next /\ UNCHANGED faults

\* Store.Update fails: the records are as its callback left them.
SaveFails(next) ==
  /\ Fault /\ mem' = [mem EXCEPT !.records = next.records] /\ UNCHANGED disk

WithRecord(d, record) == [mem EXCEPT !.records[d] = record]

\* An operation ends and gives the gate back; the round that waits for its
\* refresh goes on.
Ends(ok) ==
  /\ op' = NoOp
  /\ round' = IF op.kind # "refresh" THEN round
              ELSE IF ok THEN NoRound ELSE [round EXCEPT !.pc = "undo"]

\* UpdateAccelerationDomainsDetailed takes the lists back when it fails.
Fails == Ends(FALSE) /\ config' = IF op.kind = "domains" THEN op.previous ELSE config

-----------------------------------------------------------------------------
(* A discovery round *)

\* What a round learns of a domain: no connection to it, no address, addresses
\* that are not Cloudflare's or fail the preflight, the addresses of the
\* verified record, other addresses that pass.
Outcomes == {"unseen", "unresolved", "bad", "same", "verified"}

\* Whether the loop over the observations comes to this outcome.
Possible(c, record, outcome) ==
  outcome = "same" => record # None /\ record.verified /\ record.resolved

\* The record that the round will write, None for none.
Observed(d, record, outcome, c) ==
  LET base == IF record = None THEN NewRecord ELSE record
      blocked == d \in c.excluded
      off == record # None /\ record.active /\ (~Allocating(c) \/ blocked)
  IN CASE blocked \/ outcome = "unseen" -> IF off THEN [base EXCEPT !.active = FALSE] ELSE None
       [] ~blocked /\ outcome = "unresolved" -> record
       [] ~blocked /\ outcome = "bad" ->
            [base EXCEPT !.verified = FALSE, !.active = FALSE, !.resolved = TRUE]
       [] ~blocked /\ outcome = "same" -> [base EXCEPT !.active = Allocating(c)]
       [] ~blocked /\ outcome = "verified" ->
            [base EXCEPT !.verified = TRUE, !.active = Allocating(c), !.resolved = TRUE]

Active(record) == record # None /\ record.active

\* activatedDomains: a domain verified anew counts as one, active before or not.
Activated(d, record, outcome, c) ==
  /\ Allocating(c) /\ d \notin c.excluded
  /\ outcome = "verified" \/ (outcome = "same" /\ ~Active(record))

Deactivated(d, record, outcome, c) ==
  /\ Active(record)
  /\ ~Allocating(c) \/ d \in c.excluded \/ outcome = "bad"

\* A mutant of domainPolicyNeedsRefresh (StraysLeave): what the round itself
\* changes is enough.
neverNeedsRefresh(c, state) == FALSE

domainPolicyNeedsRefresh(c, state) == Strays(c, state) # {}

\* The Runtime's configuration: while the Runner changes its lists, the Runtime
\* may have the old ones or the new ones.
Views == {config} \cup (IF op.kind = "domains" THEN {op.previous} ELSE {})

\* Where proxy.auto_detect is off, Mihomo is absent or does not answer, or the
\* ranges cannot be read, a round ends before it looks at the policy.
SeesNothing == MutexFree /\ ~visible /\ UNCHANGED vars

\* The round looks at the connections, takes its snapshot and verifies.
Observes ==
  /\ MutexFree /\ visible
  /\ \E view \in Views, outcome \in [Domains -> Outcomes] :
       LET records == mem.records
       IN /\ view.mode # "off" /\ Cardinality({d \in Domains : outcome[d] # "unseen"}) <= MaxSeen
          /\ \A d \in Domains : Possible(view, records[d], outcome[d])
          /\ round' =
               [pc |-> "write", overtaken |-> {},
                updates |-> [d \in Domains |-> Observed(d, records[d], outcome[d], view)],
                activated |-> {d \in Domains : Activated(d, records[d], outcome[d], view)},
                changed |->
                  \/ domainPolicyNeedsRefresh(view, mem)
                  \/ \E d \in Domains : \/ Activated(d, records[d], outcome[d], view)
                                        \/ Deactivated(d, records[d], outcome[d], view)]
  /\ UNCHANGED <<mem, disk, config, visible, op, cleared, settled, calls, faults>>

\* trimDiscoveredDomains: records that are not active go, the oldest first, of
\* which the model keeps no account, until there are MaxRecords.
Trimmed(records) ==
  LET idle == {d \in Recorded(records) : ~records[d].active}
      surplus == Cardinality(Recorded(records)) - MaxRecords
      goes(n) == {s \in SUBSET idle : Cardinality(s) = n}
  IN {[d \in Domains |-> IF d \in s THEN None ELSE records[d]] :
        s \in IF Cardinality(Recorded(records)) <= MaxRecords THEN {{}}
              ELSE IF surplus >= Cardinality(idle) THEN {idle} ELSE goes(surplus)}

\* The round writes whole records, made of its snapshot.
Writes ==
  /\ round.pc = "write"
  /\ LET written == {d \in Domains : round.updates[d] # None}
         records == [d \in Domains |-> IF d \in written THEN round.updates[d] ELSE mem.records[d]]
         goesOn == IF round.changed THEN [round EXCEPT !.pc = "refresh", !.updates = None]
                   ELSE NoRound
     IN /\ \/ /\ written = {} /\ UNCHANGED <<mem, disk, faults>> /\ round' = goesOn
           \/ /\ written # {}
              /\ \E trimmed \in Trimmed(records) :
                   LET next == [mem EXCEPT !.records = trimmed]
                   IN \/ Saves(next) /\ round' = goesOn
                      \/ SaveFails(next) /\ round' = NoRound
        /\ cleared' = cleared \ (written \ round.overtaken)
  /\ UNCHANGED <<config, visible, op, settled, calls>>

\* RefreshPolicy: refused when the gate is taken.
Refreshes ==
  /\ round.pc = "refresh"
  /\ \/ /\ GateFree
        /\ op' = [NoOp EXCEPT !.kind = "refresh", !.pc = "allocate"]
        /\ round' = [round EXCEPT !.pc = "waiting"]
     \/ ~GateFree /\ round' = [round EXCEPT !.pc = "undo"] /\ UNCHANGED op
  /\ UNCHANGED <<mem, disk, config, visible, cleared, settled, calls, faults>>

\* After a failed refresh the domains that the round activated are inactive.
Undoes ==
  /\ round.pc = "undo" /\ round' = NoRound
  /\ LET next == [mem EXCEPT !.records =
           [d \in Domains |->
              IF d \in round.activated
              THEN [(IF @[d] = None THEN NewRecord ELSE @[d]) EXCEPT !.active = FALSE]
              ELSE @[d]]]
     IN Saves(next) \/ SaveFails(next)
  /\ UNCHANGED <<config, visible, op, cleared, settled, calls>>

-----------------------------------------------------------------------------
(* Operations begin *)

Called == calls < MaxCalls /\ calls' = calls + 1

\* A run takes the gate for its node pool; a dry one will apply no policy.
RunBegins(kind) ==
  /\ GateFree /\ Called
  /\ op' = [NoOp EXCEPT !.kind = kind, !.pc = "pool"]
  /\ UNCHANGED <<mem, disk, config, visible, round, cleared, settled, faults>>

\* UpdateAccelerationDomainsDetailed
DomainsBegin(c) ==
  /\ GateFree /\ c # config /\ c.mode = config.mode /\ Called
  /\ config' = c /\ cleared' = cleared \ c.manual
  /\ op' = IF mem.policy = None THEN op
           ELSE [NoOp EXCEPT !.kind = "domains", !.pc = "allocate", !.previous = config]
  /\ UNCHANGED <<mem, disk, visible, round, settled, faults>>

\* A reload, with accelerationMutex held; it refreshes no policy.
Reconfigures(c) ==
  /\ GateFree /\ MutexFree /\ c # config /\ Called
  /\ config' = c /\ cleared' = cleared \ c.manual
  /\ UNCHANGED <<mem, disk, visible, round, op, settled, faults>>

\* ClearDiscoveredDomains drops every record that is neither of a manual domain
\* nor of manual origin.
Automatic == {d \in Recorded(mem.records) \ AccelerationDomains(config) : ~mem.records[d].manual}
Without(s, dropped) ==
  [s EXCEPT !.records = [d \in Domains |-> IF d \in dropped THEN None ELSE @[d]]]

WasCleared(dropped) ==
  cleared' = cleared \cup dropped
ClearingOvertakes(dropped) == round' = [round EXCEPT !.overtaken = @ \cup dropped]

ClearingBegins ==
  IF mem.policy # None /\ Automatic \cap mem.policy # {}
  THEN /\ op' = [NoOp EXCEPT !.kind = "clear", !.pc = "allocate", !.drop = Automatic]
       /\ UNCHANGED <<mem, disk, round, cleared, faults>>
  ELSE /\ \/ Saves(Without(mem, Automatic)) /\ WasCleared(Automatic)
             /\ ClearingOvertakes(Automatic)
          \/ SaveFails(Without(mem, Automatic)) /\ UNCHANGED <<cleared, round>>
       /\ UNCHANGED op

\* A mutant of Clears (ClearedIsGone): without accelerationMutex.
ClearsAnyTime ==
  /\ GateFree /\ Automatic # {} /\ Called
  /\ ClearingBegins
  /\ UNCHANGED <<config, visible, settled>>

Clears ==
  /\ GateFree /\ MutexFree /\ Automatic # {} /\ Called
  /\ ClearingBegins
  /\ UNCHANGED <<config, visible, settled>>

-----------------------------------------------------------------------------
(* A run comes to its domains *)

\* markCheckpointFailure stamps the checkpoint that is there, whatever
\* configuration it is of, with the stage and the configuration of the failure.
Stamped(s, stage) ==
  IF s.plan = None THEN s ELSE [s EXCEPT !.plan = [@ EXCEPT !.config = config, !.stage = stage]]

\* A new node pool drops the checkpoint.
WithoutPlan(s) == [s EXCEPT !.plan = None]
WithPool == {mem, WithoutPlan(mem)}

\* updateCheckpoint at the domain stage keeps evidence of the same configuration.
DomainStage(s) ==
  IF s.plan # None /\ s.plan.config = config /\ s.plan.stage # "domain"
  THEN [s EXCEPT !.plan = [@ EXCEPT !.stage = "domain"]] ELSE WithoutPlan(s)

\* resumableDomainCheckpoint; evidence may be too old, which is decided at the use.
Resumable == mem.plan # None /\ mem.plan.config = config /\ mem.plan.stage = "plan"

\* The run fails or is cancelled before its domains, or cannot save that it
\* comes to them.  The stamp is put on in place: a failed write leaves it in memory.
FailsInPool ==
  /\ op.pc = "pool" /\ Ends(FALSE)
  /\ \E s \in WithPool, stage \in {"pool", "domain"} :
       \/ Saves(Stamped(s, stage))
       \/ Fault /\ mem' = Stamped(s, stage) /\ disk' \in {disk, s}
  /\ UNCHANGED <<config, visible, cleared, settled, calls>>

\* It goes on with the plan of a failed one, or with the domain stage.
ComesToDomains ==
  /\ op.pc = "pool"
  /\ \/ /\ Resumable /\ UNCHANGED <<mem, disk, faults>>
        /\ IF op.kind = "dry"
           THEN op' = [op EXCEPT !.pc = "commit"] /\ UNCHANGED cleared
           ELSE /\ op' = [op EXCEPT !.pc = "settle", !.resumed = TRUE, !.of = mem.plan.of,
                             !.asked = mem.plan.domains, !.got = mem.plan.domains]
                /\ cleared' = cleared \ mem.plan.domains
     \/ /\ \E s \in WithPool : Saves(DomainStage(s))
        /\ op' = [op EXCEPT !.pc = IF op.kind = "dry" THEN "commit" ELSE "allocate"]
        /\ UNCHANGED cleared
  /\ UNCHANGED <<config, visible, round, settled, calls>>

\* A dry run leaves policy and records alone and drops the checkpoint.  When
\* that fails, the checkpoint is stamped as one of apply_verify.
DryRunEnds ==
  /\ op.pc = "commit"
  /\ \/ Saves(WithoutPlan(mem)) /\ Ends(TRUE)
     \/ Fault /\ mem' = Stamped(mem, "plan") /\ disk' \in {disk, mem'} /\ Ends(FALSE)
  /\ UNCHANGED <<config, visible, cleared, settled, calls>>

-----------------------------------------------------------------------------
(* The loop that allocates, applies, isolates and tries again *)

\* allocateDomainMappings asks for the manual domains and for the effective
\* records of the snapshot.  Without an address a domain stays unassigned.
Asked == AccelerationDomains(config) \cup Effective(config, Without(mem, op.drop).records)

Assigned(got) == [op EXCEPT !.pc = "settle", !.asked = Asked, !.got = got, !.of = config]

Allocates ==
  /\ op.pc = "allocate"
  /\ \/ \E got \in SUBSET Asked :
          /\ op' = Assigned(got) /\ UNCHANGED <<round, config>>
          /\ IF got = Asked THEN UNCHANGED faults ELSE Fault
     \/ Fault /\ Fails
  /\ UNCHANGED <<mem, disk, visible, cleared, settled, calls>>

\* recordDomainAllocationResults; whether the unassigned ones had addresses is
\* not known.
recordDomainAllocationResults(s, applied, addresses) ==
  [s EXCEPT !.records =
     [d \in Domains |->
        IF d \notin op.asked THEN @[d]
        ELSE LET old == IF @[d] = None THEN NewRecord ELSE @[d]
                 present == s.policy # None /\ d \in s.policy
             IN [manual |-> d \in AccelerationDomains(config),
                 verified |-> IF applied \/ ~present THEN d \in op.got ELSE old.verified,
                 active |-> IF applied THEN d \in op.got ELSE present,
                 resolved |-> d \in op.got \/ addresses]]]

\* A mutant of ManualFailure (ManualStays): isolated like an automatic one.
NoManualFailure == {}

\* manualDomainAllocationFailure
ManualFailure == AccelerationDomains(config) \cap (op.asked \ op.got)

\* The failure is noted; a run's checkpoint is one of the domain stage now, but
\* where that second write fails.
FailsManual ==
  /\ op.pc = "settle" /\ ManualFailure # {} /\ Fails
  /\ \E addresses \in BOOLEAN :
       LET noted == recordDomainAllocationResults(mem, FALSE, addresses)
           next == IF op.kind = "run" THEN Stamped(noted, "domain") ELSE noted
       IN \/ Saves(next) \/ SaveFails(noted)
          \/ op.kind = "run" /\ Fault /\ mem' = next /\ disk' = noted
  /\ UNCHANGED <<visible, cleared, settled, calls>>

\* isAutomaticDomain, and a record of it is there.
CanIsolate(d) ==
  Allocating(config) /\ d \notin AccelerationDomains(config) /\ mem.records[d] # None

\* isolateFailedAutomaticDomain
Isolated(d) ==
  WithRecord(d, [mem.records[d] EXCEPT !.active = FALSE, !.verified = FALSE])

IsolatesAndRetries(d) ==
  \/ Saves(Isolated(d)) /\ op' = [op EXCEPT !.pc = "allocate", !.suspect = {}]
     /\ UNCHANGED <<round, config>>
  \/ SaveFails(Isolated(d)) /\ Fails

\* Those that failed at an address before and have none in this allocation, or
\* no place in it (allocationHasNoAddress); or the one that has just failed.
Suspects ==
  {d \in IF op.pc = "isolate" THEN op.suspect ELSE op.failed \ op.got : CanIsolate(d)}

Isolates ==
  /\ op.pc = "isolate" \/ (op.pc = "settle" /\ ManualFailure = {})
  /\ \E d \in Suspects : IsolatesAndRetries(d)
  /\ UNCHANGED <<visible, cleared, settled, calls>>

\* A manual domain, or one that is not recorded any more, cannot be isolated.
CannotIsolate ==
  /\ op.pc = "isolate" /\ Suspects = {} /\ Fails
  /\ UNCHANGED <<mem, disk, visible, cleared, settled, calls, faults>>

\* A run saves its plan first; with a domain left out it is of no use later.
Plans ==
  /\ op.pc = "settle" /\ ManualFailure = {} /\ Suspects = {}
  /\ IF op.kind = "run" /\ ~op.resumed
     THEN LET useful == op.got = op.asked /\ op.got # {}
              next == [mem EXCEPT !.plan =
                         IF useful THEN [domains |-> op.got, config |-> config,
                                         stage |-> "plan", of |-> config] ELSE None]
          IN \/ Saves(next) /\ op' = [op EXCEPT !.pc = "apply"] /\ UNCHANGED <<round, config>>
             \/ SaveFails(mem) /\ Fails
     ELSE /\ op' = [op EXCEPT !.pc = "apply"]
          /\ UNCHANGED <<mem, disk, faults, round, config>>
  /\ UNCHANGED <<visible, cleared, settled, calls>>

\* The verification of a domain fails at its address: again without it.
FailsAtAddress(d) ==
  /\ op.pc = "apply" /\ d \in op.got /\ Fault
  /\ op' = [op EXCEPT !.pc = "allocate", !.resumed = FALSE, !.failed = @ \cup {d}]
  /\ UNCHANGED <<mem, disk, config, visible, round, cleared, settled, calls>>

\* It fails and the error names no address: the domain is isolated at once.
FailsWithoutAddress(d) ==
  /\ op.pc = "apply" /\ d \in op.got /\ Fault
  /\ op' = [op EXCEPT !.pc = "isolate", !.resumed = FALSE, !.suspect = {d}]
  /\ UNCHANGED <<mem, disk, config, visible, round, cleared, settled, calls>>

\* Another failure ends the operation.
FailsToApply ==
  /\ op.pc = "apply" /\ Fault /\ Fails
  /\ UNCHANGED <<mem, disk, visible, cleared, settled, calls>>

\* The policy is applied and verified; then policy, records and -- for a run --
\* the checkpoint are one write.  After it the addresses that failed are to be in
\* cooldown again: without that write the operation fails, what it committed stays.
Commits ==
  /\ op.pc = "apply"
  /\ \E addresses \in BOOLEAN :
       LET base == [Without(mem, op.drop) EXCEPT
                      !.policy = op.got, !.plan = IF op.kind = "run" THEN None ELSE @]
           next == recordDomainAllocationResults(base, TRUE, addresses)
       IN \/ /\ \/ Saves(next) /\ Ends(TRUE) /\ UNCHANGED config
                \/ op.failed # {} /\ Fault /\ mem' = next /\ disk' = next /\ Fails
             /\ settled' = op.of /\ cleared' = cleared \cup op.drop
          \/ SaveFails(next) /\ Fails /\ UNCHANGED <<settled, cleared>>
  /\ UNCHANGED <<visible, calls>>

-----------------------------------------------------------------------------
(* Around, and the specification *)

\* The process dies and store.Open reads the file.  While the lists are being
\* changed the configuration's file has the old ones or the new ones.
Crashes ==
  /\ Fault /\ mem' = disk /\ config' \in Views
  /\ round' = NoRound /\ op' = NoOp
  /\ UNCHANGED <<disk, visible, cleared, settled, calls>>

\* Mihomo comes or goes, or proxy.auto_detect is turned on or off.
MihomoChanges ==
  /\ Called /\ visible' = ~visible
  /\ UNCHANGED <<mem, disk, config, round, op, cleared, settled, faults>>

RoundStep == SeesNothing \/ Observes \/ Writes \/ Refreshes \/ Undoes
Progress ==
  \/ ComesToDomains \/ DryRunEnds
  \/ Allocates \/ FailsManual \/ Isolates \/ CannotIsolate \/ Plans \/ Commits
OpStep ==
  \/ Progress
  \/ FailsToApply \/ FailsInPool
  \/ \E d \in Domains : FailsAtAddress(d) \/ FailsWithoutAddress(d)
Around ==
  \/ RunBegins("run") \/ RunBegins("dry") \/ Clears \/ Crashes \/ MihomoChanges
  \/ \E c \in Configs : DomainsBegin(c) \/ Reconfigures(c)

Next == RoundStep \/ OpStep \/ Around

\* The daemon's timer begins one round after the other, and while connections are
\* visible it comes to look; an operation goes on, as every step of it has a
\* timeout.  Its failures are not to be relied on.
Fairness == WF_vars(RoundStep) /\ WF_vars(Progress)
Spec == Init /\ [][Next]_vars /\ Fairness

-----------------------------------------------------------------------------
(* Properties *)

TypeOK ==
  /\ {mem, disk} \subseteq States
  /\ config \in Configs /\ settled \in Configs \cup {None}
  /\ op.got \subseteq op.asked /\ op.failed \subseteq Domains
  /\ cleared \subseteq Domains
  /\ round.updates # None => round.updates \in [Domains -> Records \cup {None}]

\* As long as the configuration is the one whose lists the last commit mapped, its
\* manual domains are mapped: no round, clearing, isolation, failed operation,
\* stamp on a checkpoint or crash that came after has taken one out of the policy.
\* That is an older configuration where a run went on with evidence that
\* markCheckpointFailure had stamped anew: a known gap, then nothing is said of
\* the one in force.
ManualStays ==
  settled = config =>
    \A s \in {mem, disk} : s.policy # None /\ AccelerationDomains(config) \subseteq s.policy

\* A domain that was cleared has no record and no mapping, in memory and in the
\* file, until a round that began afterwards sees it again, a configuration
\* lists it, or a run goes on with a plan of before.
ClearedIsGone ==
  \A s \in {mem, disk} :
    /\ cleared \cap Recorded(s.records) = {}
    /\ s.policy # None => cleared \cap s.policy = {}

\* While rounds are on and see connections, a mapping that neither the lists nor
\* the records ask for is removed, or asked for again, once nothing fails any
\* more: whichever operation wrote the records or deactivated them last.  An
\* operation that isolates for ever what failed at its address (RestIsApplied)
\* keeps it.
Stray == Strays(config, mem) # {} /\ config.mode # "off" /\ visible
IsolatesForEver == op.failed \ AccelerationDomains(config) # {}
StraysLeave == Stray ~> (~Stray \/ IsolatesForEver)

\* runner.go:1994 says that the isolation of a domain whose connection cannot
\* be verified lets the rest of the policy be applied: no operation goes on
\* for ever.
RestIsApplied == op.pc # "idle" ~> op.pc \in {"apply", "idle"}
==============================================================================
