--------------------------- MODULE OptimizationRun ---------------------------
(***************************************************************************)
(* One optimization after the other, as Runner.Run works and as the state  *)
(* store remembers it: the node pool that is reused, refreshed or -- when  *)
(* the refresh fails -- used although it has expired; the checkpoint that  *)
(* lets a run go on with the domain evidence of a failed one; the nodes in *)
(* cooldown; the plan, its application, the retries without the address    *)
(* that failed, and the commit.                                            *)
(*                                                                         *)
(* Store.Update hands its callback a shallow copy: what a callback writes  *)
(* through a map or a pointer (Nodes, DiscoveredDomains, the checkpoint)   *)
(* stays in memory when the file cannot be written.  So the state is kept  *)
(* twice, as the process sees it (mem) and as the file has it (disk).      *)
(*                                                                         *)
(* Adapters, routes and receipts are the matter of PolicyTransaction and   *)
(* RouteController, automatic domains that of DomainDiscovery; here the    *)
(* domains are manual ones, which a run must map or fail.                  *)
(***************************************************************************)
EXTENDS Naturals, FiniteSets, Functions

CONSTANTS
  Nodes,       \* addresses that candidates.Generate can produce
  Domains,     \* the acceleration domains of the configuration
  Configs,     \* configurations: [bench, rest], the measuring part and the others
  Networks,    \* physical paths, as their fingerprints
  Lists,       \* published versions of the official ranges, as their hashes
  MaxPools,    \* bound on the node pools that are measured
  MaxChanges,  \* bound on changes of configuration, network and ranges
  MaxFaults    \* bound on writes that fail and processes that die

ASSUME ConfigsAreRecords == \A c \in Configs : DOMAIN c = {"bench", "rest"}
ASSUME FiniteChoices == IsFiniteSet(Nodes) /\ IsFiniteSet(Domains)
ASSUME OptimizationBounds == {MaxPools, MaxChanges, MaxFaults} \subseteq Nat

CONSTANTS
  None,
  Physical     \* the path found at configuration; it stands in where the network
               \* cannot be read, as one of Networks
ASSUME PhysicalIsFingerprint == Physical \in Networks

VARIABLES
  mem, disk,  \* store.State in memory and in the file
  run,        \* the local variables of Run
  active,     \* Runner.activeNetworkFingerprint, None for ""
  world,      \* configuration, network, ranges and the ranges that are cached
  spent,      \* history: the evidence in the checkpoint has been committed
  pools, changes, faults  \* counters for the bounds

vars == <<mem, disk, run, active, world, spent, pools, changes, faults>>
counted == <<pools, changes, faults>>

-----------------------------------------------------------------------------
(* The state *)

Stages == {"pool_refresh", "domain_qualify", "policy_plan", "apply_verify", "commit"}

\* A plan maps every domain to an address of its own.
Plans == {p \in [Domains -> Nodes] : IsInjective(p)}

\* A checkpoint's evidence, with what it was gathered from (pool, config,
\* net: history, the code stores them beside it) and whether it is younger
\* than domainEvidenceLifetime.
Evidence == [plan : Plans, pool : 0..MaxPools, config : Configs,
             net : Networks, fresh : BOOLEAN]
Checkpoints == [stage : Stages, pool : 0..MaxPools, config : Configs,
                net : Networks, evidence : Evidence \cup {None}]

\* A node pool: pool 0 is none at all ("" in the code).
NodePools == [id : 1..MaxPools, bench : {c.bench : c \in Configs},
              net : Networks, list : Lists,
              nodes : SUBSET Nodes, fresh : BOOLEAN]

States == [pool : NodePools \cup {None}, checkpoint : Checkpoints \cup {None},
           cooling : SUBSET Nodes, current : Nodes \cup {None},
           unsafe : BOOLEAN]

Idle == [pc |-> "idle", apply |-> FALSE, force |-> FALSE, list |-> None, pool |-> 0,
         unfit |-> FALSE, good |-> {}, bad |-> {}, plan |-> None, resumed |-> None,
         excluded |-> {}, stage |-> "pool_refresh"]

config == world.config

\* checkpointNetworkFingerprint: before a run of this Runner has measured the
\* network, the path found when it was configured.
Fingerprint == IF active = None THEN Physical ELSE active

\* failedAddresses: the nodes that failed the verification of an applied plan.
FailedNodes == {p[2] : p \in run.excluded}

Init ==
  /\ \E unsafe \in BOOLEAN, n \in Nodes :
       mem = [pool |-> None, checkpoint |-> None, cooling |-> {},
              current |-> IF unsafe THEN n ELSE None, unsafe |-> unsafe]
  /\ disk = mem /\ run = Idle /\ active = None
  /\ \E c \in Configs, w \in Networks, l \in Lists :
       world = [config |-> c, net |-> w, official |-> l, cached |-> l]
  /\ spent = FALSE /\ pools = 0 /\ changes = 0 /\ faults = 0

-----------------------------------------------------------------------------
(* Store.Update *)

\* The file is written and the new state published.
Saves(next) == mem' = next /\ disk' = next /\ UNCHANGED <<spent, pools, changes, faults>>

\* The file is not written.  Only what was reached through a map or a pointer
\* has changed: "shared" is the state with those fields.
SaveFails(shared) ==
  /\ faults < MaxFaults /\ faults' = faults + 1
  /\ mem' = shared /\ UNCHANGED <<disk, spent, pools, changes>>

Keeps == UNCHANGED <<mem, disk, spent, pools, changes, faults>>
GoesTo(pc) == run' = [run EXCEPT !.pc = pc]

\* Run returns an error: its deferred function marks the checkpoint.
Fails(stage) == run' = [Idle EXCEPT !.pc = "failing", !.stage = stage]

-----------------------------------------------------------------------------
(* Stages POOL_REFRESH and POOL_REUSE *)

\* Run takes the gate and notes that it runs, which writes what an earlier run
\* could not; when that fails it returns before anything is deferred.
Begins(apply, force) ==
  /\ run.pc = "idle"
  /\ run' = [Idle EXCEPT !.pc = "ranges", !.apply = apply, !.force = force]
  /\ Saves(mem) /\ UNCHANGED <<active, world>>

\* Catalog.Update answers with the official list, which it caches, or with the
\* one it has: young enough, not modified, or the request or the new list is bad.
CatalogUpdate == {world.official, world.cached}

\* When it fails, the list of the cached snapshot must be the old pool's.
UpdatesRanges ==
  /\ run.pc = "ranges"
  /\ \/ \E list \in CatalogUpdate :
          /\ world' = [world EXCEPT !.cached = list]
          /\ run' = [run EXCEPT !.list = list,
                       !.pc = IF run.apply /\ mem.unsafe THEN "migrate" ELSE "measure"]
     \/ Fails("pool_refresh") /\ UNCHANGED world
  /\ Keeps /\ UNCHANGED active

\* replaceUnsafeLegacyDomainMappings: a policy with shared addresses gives way
\* to one without domains, which needs a selected address.
ReplacesUnsafeMappings ==
  /\ run.pc = "migrate"
  /\ \/ mem.current # None /\ Saves([mem EXCEPT !.unsafe = FALSE]) /\ GoesTo("measure")
     \/ mem.current # None /\ SaveFails(mem) /\ Fails("pool_refresh")
     \/ Keeps /\ Fails("pool_refresh")
  /\ UNCHANGED <<active, world>>

nodePoolCompatible(net) ==
  /\ mem.pool # None
  /\ mem.pool.list = run.list /\ mem.pool.bench = config.bench /\ mem.pool.net = net

\* A temporary route cannot be set, or at the end of a run not be removed: the
\* run fails, whatever it has committed.
RoutesFail(stage) == Fails(stage)

\* The temporary routes are there and the physical path is measured.
Measures ==
  /\ run.pc = "measure"
  /\ \/ RoutesFail("pool_refresh") /\ UNCHANGED active
     \/ /\ active' = world.net
        /\ run' = [run EXCEPT !.force = FALSE,
                     !.pc = IF ~run.force /\ nodePoolCompatible(active') /\ mem.pool.fresh
                            THEN "reuse" ELSE "refresh"]
  /\ Keeps /\ UNCHANGED world

\* resolveNodePool returns a pool and the nodes that qualified.
Resolves(pool, good, bad) ==
  run' = [Idle EXCEPT !.pc = "domain", !.apply = run.apply, !.pool = pool,
            !.good = good, !.bad = bad]

\* Tester.Validate: some nodes still answer; the others are not in the results.
Validate(nodes) == SUBSET nodes \ {{}}

ValidatesPool ==
  \E good \in Validate(mem.pool.nodes) : Resolves(mem.pool.id, good, {})

\* A valid pool is used again when its nodes still answer.
ReusesPool ==
  /\ run.pc = "reuse"
  /\ \/ ValidatesPool
     \/ run' = [run EXCEPT !.pc = "refresh", !.unfit = TRUE]
     \/ Fails("pool_refresh")
  /\ Keeps /\ UNCHANGED <<active, world>>

\* Generate: any sample of the ranges, in which a preferred address may be and
\* one in cooldown that is not preferred may not.
Generate(preferred, cooldown) == SUBSET ((Nodes \ cooldown) \cup preferred) \ {{}}

\* generateCandidates prefers the selected node.
generateCandidates == Generate({mem.current} \ {None}, mem.cooling)

\* Tester.Run: results for all, of which some qualified.
BenchmarkRun(tested) == SUBSET tested \ {{}}

\* The old pool may be used, expired or not, when the refresh failed.
MayDegrade == nodePoolCompatible(active) /\ ~run.unfit

\* The benchmark found nodes: a new pool, and no checkpoint of another one.
persistNodePool(good) ==
  [mem EXCEPT
     !.pool = [id |-> pools + 1, bench |-> config.bench, net |-> active, list |-> run.list,
               nodes |-> good, fresh |-> TRUE],
     !.checkpoint = None]

\* The DIRECT guard of a benchmark cannot be set up, shown to work or taken
\* away: the run fails, and does not fall back to the old pool.
GuardFails == Fails("pool_refresh")

\* A full benchmark under its DIRECT guard.
RefreshesPool ==
  /\ run.pc = "refresh"
  /\ \E tested \in generateCandidates : \E good \in BenchmarkRun(tested) :
       /\ pools < MaxPools
       /\ \/ /\ mem' = persistNodePool(good) /\ disk' = mem'
             /\ pools' = pools + 1 /\ UNCHANGED <<spent, changes, faults>>
             /\ Resolves(pools + 1, good, tested \ good)
          \/ SaveFails(mem) /\ Fails("pool_refresh")
  /\ UNCHANGED <<active, world>>

\* No node qualified, or the benchmark failed.
FailsToRefresh ==
  /\ run.pc = "refresh"
  /\ \/ /\ ~MayDegrade
        /\ \E tested \in generateCandidates : Resolves(0, {}, tested)
     \/ MayDegrade /\ ValidatesPool
     \/ GuardFails
     \/ ~MayDegrade /\ Fails("pool_refresh")
  /\ Keeps /\ UNCHANGED <<active, world>>

-----------------------------------------------------------------------------
(* The checkpoint, and stage DOMAIN_QUALIFY *)

\* A mutant of Retained (EvidenceOfItsPool): the pool is not compared.
RetainedOfAnyPool(pool) ==
  LET old == mem.checkpoint
  IN IF /\ old # None /\ old.config = config /\ old.net = Fingerprint
        /\ old.stage # "domain_qualify"
     THEN old.evidence ELSE None

\* updateCheckpoint: evidence of the same pool, configuration and network is
\* kept, unless it belongs to a run that failed over the domains.
Retained(pool) ==
  LET old == mem.checkpoint
  IN IF /\ old # None
        /\ old.pool = pool /\ old.config = config /\ old.net = Fingerprint
        /\ old.stage # "domain_qualify"
     THEN old.evidence ELSE None

updateCheckpoint(stage, evidence) ==
  [mem EXCEPT !.checkpoint =
     [stage |-> stage, pool |-> run.pool, config |-> config, net |-> Fingerprint,
      evidence |-> evidence]]

\* markCheckpointFailure: the checkpoint there is gets the stage, the
\* configuration and the network of the run that failed; its evidence stays.
markCheckpointFailure ==
  [mem EXCEPT !.checkpoint =
     [stage |-> run.stage, config |-> config, net |-> Fingerprint,
      pool |-> IF @ = None THEN 0 ELSE @.pool,
      evidence |-> IF @ = None THEN None ELSE @.evidence]]

resumableDomainCheckpoint ==
  LET cp == mem.checkpoint
  IN /\ cp # None /\ run.pool # 0 /\ cp.pool = run.pool
     /\ cp.stage \in {"policy_plan", "apply_verify"}
     /\ cp.config = config /\ cp.net = Fingerprint
     /\ cp.evidence # None /\ cp.evidence.fresh

\* The domain stage begins: with the evidence of an earlier run, or anew.
ResumesDomains ==
  /\ run.pc = "domain" /\ resumableDomainCheckpoint
  /\ run' = IF run.apply
            THEN [run EXCEPT !.pc = "apply", !.stage = "apply_verify",
                    !.plan = mem.checkpoint.evidence.plan, !.resumed = mem.checkpoint.evidence]
            ELSE [run EXCEPT !.pc = "commit", !.stage = "commit"]
  /\ Keeps /\ UNCHANGED <<active, world>>

QualifiesDomains ==
  /\ run.pc = "domain" /\ ~resumableDomainCheckpoint
  /\ LET next == updateCheckpoint("domain_qualify", Retained(run.pool))
     IN \/ Saves(next)
           /\ run' = [run EXCEPT !.pc = IF run.apply THEN "allocate" ELSE "commit",
                        !.stage = IF run.apply THEN "domain_qualify" ELSE "commit"]
        \/ SaveFails(mem) /\ Fails("domain_qualify")
  /\ UNCHANGED <<active, world>>

\* A mutant of Allocations (RunEnds): what failed is allocated again.
AllocationsAgain == {p \in Plans : Range(p) \subseteq run.good}

\* allocateDomainMappings: addresses that passed the benchmark and the
\* preflight, none twice and none that failed for its domain in this run.
Allocations ==
  {p \in Plans : Range(p) \subseteq run.good /\ \A d \in Domains : <<d, p[d]>> \notin run.excluded}

\* A domain without an address fails the run; that is noted in the domains'
\* records.
Allocates ==
  /\ run.pc = "allocate"
  /\ \/ \E plan \in Allocations : run' = [run EXCEPT !.pc = "plan", !.plan = plan]
     \/ Fails("domain_qualify")
     \/ Fails(run.stage)
  /\ Keeps /\ UNCHANGED <<active, world>>

-----------------------------------------------------------------------------
(* Stages POLICY_PLAN, APPLY_VERIFY and COMMIT *)

Gathered == [plan |-> run.plan, pool |-> run.pool, config |-> config,
             net |-> Fingerprint, fresh |-> TRUE]

\* policyForDecisions: no adapter is there that can map domains.
PolicyFails == Fails(run.stage)

\* persistPolicyPlanCheckpoint: the evidence, then in a second write the plan.
PersistsPlan ==
  /\ run.pc = "plan"
  /\ LET next == updateCheckpoint("policy_plan", Gathered)
     IN \/ /\ mem' = next /\ disk' = next /\ spent' = FALSE
           /\ \/ faults' = faults
                 /\ run' = [run EXCEPT !.pc = "apply", !.stage = "apply_verify"]
              \/ faults < MaxFaults /\ faults' = faults + 1 /\ Fails(run.stage)
           /\ UNCHANGED <<pools, changes>>
        \/ SaveFails(mem) /\ Fails(run.stage)
        \/ Keeps /\ PolicyFails
  /\ UNCHANGED <<active, world>>

\* applySelectedPolicy: applied and verified.
Applies ==
  /\ run.pc = "apply"
  /\ run' = [run EXCEPT !.pc = "commit", !.stage = "commit", !.plan = None, !.resumed = None]
  /\ Keeps /\ UNCHANGED <<active, world>>

\* The verification of a domain fails at its address: the plan is rolled back,
\* the address goes into cooldown, another plan is made without it.
FailsVerification(d) ==
  /\ run.pc = "apply"
  /\ LET node == run.plan[d]
         next == [mem EXCEPT !.cooling = @ \cup {node}]
         retry == [run EXCEPT !.pc = "allocate", !.resumed = None, !.plan = None,
                     !.excluded = @ \cup {<<d, node>>}]
     IN IF node \in FailedNodes THEN Keeps /\ run' = retry
        ELSE \/ Saves(next) /\ run' = retry
             \/ SaveFails(next) /\ Fails("apply_verify")
  /\ UNCHANGED <<active, world>>

\* Another failure ends the run.
FailsToApply ==
  /\ run.pc = "apply"
  /\ Fails("apply_verify") /\ Keeps /\ UNCHANGED <<active, world>>

\* RecordResults: a node that qualified leaves the cooldown, one that failed
\* often enough enters it.
RecordResults(tired) == [mem EXCEPT !.cooling = (@ \ run.good) \cup tired]

\* Decide: the selected node stays or gives way to another that qualified, by
\* scores and times that the model does not keep.
Decide == IF run.good = {} THEN {None} ELSE run.good

updateSelection(decided) ==
  IF ~run.apply \/ decided = None THEN mem.current ELSE decided

\* A mutant of persistSuccessfulRun (NoPlanTwice): the checkpoint survives.
persistWithCheckpoint(tired, decided) ==
  [RecordResults(tired) EXCEPT !.current = updateSelection(decided)]

persistSuccessfulRun(tired, decided) ==
  [RecordResults(tired) EXCEPT !.checkpoint = None, !.current = updateSelection(decided)]

\* Where the commit fails the policy is rolled back; the nodes' statistics
\* stay as recorded in memory.
Commits ==
  /\ run.pc = "commit"
  /\ \E tired \in SUBSET run.bad, decided \in Decide :
       \/ /\ mem' = persistSuccessfulRun(tired, decided) /\ disk' = mem'
          /\ spent' = (spent \/ run.apply) /\ UNCHANGED <<pools, changes, faults>>
          /\ run' = [Idle EXCEPT !.pc = "reinstate", !.excluded = run.excluded]
       \/ /\ \E shared \in {mem, RecordResults(tired)} : SaveFails(shared)
          /\ Fails("apply_verify")
  /\ UNCHANGED <<active, world>>

\* A mutant of the next (CooldownHolds): the commit's cooldowns are the last.
reinstateNothing == mem.cooling

\* reinstateApplicationFailureCooldown: the commit has taken nodes out of the
\* cooldown that failed the verification of a plan.
reinstateApplicationFailureCooldown == mem.cooling \cup FailedNodes

Reinstates ==
  /\ run.pc = "reinstate"
  /\ LET next == [mem EXCEPT !.cooling = reinstateApplicationFailureCooldown]
     IN \/ Saves(next) /\ GoesTo("done")
        \/ FailedNodes # {} /\ SaveFails(next) /\ Fails("commit")
  /\ UNCHANGED <<active, world>>

\* The deferred functions: the checkpoint of a failed run is marked, then the
\* history is written, and with it what the mark left in memory.
MarksFailure ==
  /\ run.pc = "failing" /\ run' = Idle
  /\ LET shared == IF mem.checkpoint = None THEN mem ELSE markCheckpointFailure
     IN \/ Saves(markCheckpointFailure)
        \/ SaveFails(shared)
        \/ /\ faults < MaxFaults /\ faults' = faults + 1
           /\ mem' = shared /\ disk' = shared /\ UNCHANGED <<spent, pools, changes>>
  /\ UNCHANGED <<active, world>>

\* After a success memory and file agree: finalize changes neither.
Finalizes ==
  /\ run.pc = "done"
  /\ run' = Idle \/ RoutesFail("commit")
  /\ Keeps /\ UNCHANGED <<active, world>>

-----------------------------------------------------------------------------
(* Around the runs *)

Changed == changes < MaxChanges /\ changes' = changes + 1
             /\ UNCHANGED <<mem, disk, run, spent, pools, faults>>

\* Reconfigure, with the gate held.
Reconfigures(c) ==
  /\ run.pc = "idle" /\ c # config
  /\ world' = [world EXCEPT !.config = c] /\ active' = None /\ Changed

\* A run measures the network once and asks for the ranges once: what changes
\* later changes for the next run.
NetworkChanges(w) ==
  /\ run.pc = "idle" /\ w # world.net
  /\ world' = [world EXCEPT !.net = w] /\ UNCHANGED active /\ Changed

RangesChange(l) ==
  /\ run.pc = "idle" /\ l # world.official
  /\ world' = [world EXCEPT !.official = l] /\ UNCHANGED active /\ Changed

\* The lifetimes of a pool (Schedule.Interval), of evidence
\* (domainEvidenceLifetime) and of a cooldown (FailureCooldown) end; that they
\* end during a run is not modelled.
Aged(s, what, n) ==
  CASE what = "pool" -> IF s.pool = None THEN s ELSE [s EXCEPT !.pool.fresh = FALSE]
    [] what = "evidence" -> IF s.checkpoint = None \/ s.checkpoint.evidence = None THEN s
                            ELSE [s EXCEPT !.checkpoint.evidence.fresh = FALSE]
    [] what = "cooldown" -> [s EXCEPT !.cooling = @ \ {n}]

Expires(what, n) ==
  /\ run.pc = "idle"
  /\ mem' = Aged(mem, what, n) /\ disk' = Aged(disk, what, n)
  /\ UNCHANGED <<run, active, world, spent, counted>>

\* The process ends and is started again: store.Open reads the file.
Crashes ==
  /\ faults < MaxFaults /\ faults' = faults + 1
  /\ mem' = disk /\ run' = Idle /\ active' = None
  /\ UNCHANGED <<disk, world, spent, pools, changes>>

RunStep ==
  \/ UpdatesRanges \/ ReplacesUnsafeMappings \/ Measures
  \/ ReusesPool \/ RefreshesPool \/ FailsToRefresh
  \/ ResumesDomains \/ QualifiesDomains \/ Allocates
  \/ PersistsPlan \/ Applies \/ \E d \in Domains : FailsVerification(d)
  \/ FailsToApply \/ Commits \/ Reinstates \/ MarksFailure \/ Finalizes

Around ==
  \/ \E apply, force \in BOOLEAN : Begins(apply, force)
  \/ \E c \in Configs : Reconfigures(c)
  \/ \E w \in Networks : NetworkChanges(w)
  \/ \E l \in Lists : RangesChange(l)
  \/ \E what \in {"pool", "evidence", "cooldown"}, n \in Nodes : Expires(what, n)
  \/ Crashes

Next == RunStep \/ Around
Spec == Init /\ [][Next]_vars

-----------------------------------------------------------------------------
(* Properties *)

TypeOK ==
  /\ {mem, disk} \subseteq States
  /\ run.pool \in 0..pools /\ run.good \subseteq Nodes
  /\ run.plan \in Plans \cup {None} /\ active \in Networks \cup {None}

\* The evidence a checkpoint holds was gathered from the pool it names,
\* whatever runs failed, found no pool or replaced it since.
EvidenceOfItsPool ==
  \A s \in {mem, disk} :
    s.checkpoint # None /\ s.checkpoint.evidence # None =>
      s.checkpoint.evidence.pool = s.checkpoint.pool

\* The evidence of a plan that was committed is never gone on with.
NoPlanTwice == run.resumed # None => ~spent

\* A run that reports success leaves every address that failed the
\* verification of one of its plans in cooldown, although the benchmark's
\* results, which the commit records, know nothing of the failure.
CooldownHolds == run.pc = "done" => FailedNodes \subseteq mem.cooling \cap disk.cooling

\* A run ends: every step of it lowers a rank, that of the retries by excluding
\* an address that was not excluded before.
Before == [ranges |-> 5, migrate |-> 4, measure |-> 3, reuse |-> 2, refresh |-> 1, domain |-> 0]
Retrying == [allocate |-> 2, plan |-> 1, apply |-> 0]
After == [commit |-> 4, reinstate |-> 3, done |-> 2, failing |-> 1, idle |-> 0]
Pairs == Domains \X Nodes
Rank ==
  IF run.pc \in DOMAIN After THEN After[run.pc]
  ELSE IF run.pc \in DOMAIN Retrying
       THEN 5 + Retrying[run.pc] + 3 * Cardinality(Pairs \ run.excluded)
  ELSE 8 + Before[run.pc] + 3 * Cardinality(Pairs)
RunEnds == [][run.pc # "idle" => Rank' < Rank]_run
==============================================================================
