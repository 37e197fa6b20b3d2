# CF-Optimizer: a verification project in TLA+

CF-Optimizer finds Cloudflare edge addresses that are fast from this machine,
keeps direct routes to them, and writes proxy rules that send their traffic past
the proxy. A daemon does the work; a command line and a desktop UI drive it over
a local socket. What can go wrong is the machine it changes: routes and proxy
configurations of a user's system, changed in several steps, by several
goroutines, in a process that may die at any of them.

This directory holds TLA+ models of the parts of the daemon that carry that
risk, TLC runs that check them on small instances, and theorems about them that
TLAPS checks for every instance. Source paths are relative to the repository.

## 1. Inventory

| component | state | operations | talks to |
|---|---|---|---|
| `optimizer.operationGate` and `Runner.Run` (`internal/optimizer/operation_gate.go`, `runner.go:602-624`, `1530-1554`) | one-token channel, `runMutex`, `pendingRuns` | `acquire`, `tryAcquire`, `release`, `Run`, `tryAcquireMaintenance` | everything that changes routes or policy: API, scheduler, discovery, guard |
| `network.RouteController` (`internal/network/route.go`) | journal of transactions in memory and in `route-transactions.json`; the system's routing table | `Plan`, `Apply`, `Remove`, `Rollback`, `Recover`, `load` | platform back ends; called by the runner and the generic adapter |
| `proxy.Coordinator`, the receipt journal, the runner's policy operations (`internal/proxy/adapter.go`, `internal/optimizer/policy_journal.go`, `runner.go`) | receipts of the operation in progress; `PendingPolicy` and `Policy` of the state store | `Apply`, `Rollback`, `Verify`, `Begin`/`Record`/`Remove`, `RecoverPendingPolicy`, `CleanupManagedPolicy`, commits | adapters, state store |
| adapters: generic, managed file (sing-box, Xray), Mihomo, external (`internal/proxy/*`) | a file, a route or a controller's rules each | `Detect`, `Plan`, `Apply`, `Verify`, `Rollback`, some `CleanupConflict` | coordinator; the proxies |
| `store.Store` (`internal/store/store.go`, `internal/fsutil/atomic.go`) | the state in memory and in `state.json` | `Open`, `State`, `Update`, `SaveRanges` | runner, API |
| `daemon.Service` (`internal/daemon/daemon.go`) | `ready`, failure count, next-run promise | recovery at start-up, `schedule`, `guardPolicies`, `observeDomains` | runtime, runner, guard |
| `application.Runtime` (`internal/application/runtime.go`) | current configuration and Runner, the generation channel of configuration changes, activation revision | `ReloadConfig`, `ActivateSession`, `TryExecute`, `RunOptimization`, discovery | everything above |
| `application.API` (`api.go`, `manual_domain.go`, `quickstart.go`) | `configurationMutex`, `accelerationMutex`, the cancel slot, manual-domain operation, quick-start plans | one handler per request | runtime, runner, configuration file |
| `guard.Supervisor` (`internal/proxy/guard`) | per strategy: the revision found stable, the policy verified, failures, next retry and audit | read, observe, inspect, verify, repair, publish | runtime's `TryExecute`, Mihomo strategy |
| Mihomo adapter (`internal/proxy/mihomo`) | rule provider, metadata, its part of the user's configuration; the kernel's loaded rules | `Plan`, `Apply`, `Verify`, `Rollback`, inspection | coordinator, guard, the kernel's controller |
| optimization run: selection, node pool, checkpoint (`runner.go`, `selection.go`) | node pool, checkpoint with its evidence, nodes in cooldown, selected nodes | `Run` with its stages, `resolveNodePool`, `allocateDomainMappings`, `persistSuccessfulRun` | store, coordinator |
| automatic domains (`runtime.go:721-1024`, `runner.go:1425-1765`, `acceleration/registry.go`) | one record per domain, the mapped domains, the plan of the checkpoint | discovery round, refresh with isolation and retry, clearing, change of the lists | runtime's timer, store, gate |
| hosts adapter (`internal/proxy/hosts`) | the user's Hosts file with a managed block, a backup file | `Plan`, `Apply`, `Verify`, `Rollback`, `CleanupConflict` | coordinator; the user |
| candidates, ranges, benchmark, acceleration (`internal/candidates`, `ranges`, `benchmark`, `acceleration`) | none kept, or a range snapshot | sample, measure, verify, resolve | runner |
| IPC, platform back ends, service control, UI, packaging, diagnostics | - | I/O | - |

**Hard behaviours.** (a) *Interleaving*: the API, the scheduler, the observer of
domains and one goroutine per guard strategy share one Runner, one
configuration and one store. (b) *Partial failure*: each change is several calls
(routing commands, files, proxy reloads, journal writes) and each of them may
fail, with or without its effect. (c) *Crash*: the process may die between any
two; the next one has the two journals and must put the machine right before it
serves. (d) *Stale reads*: a configuration is read, and its change notification
subscribed to, at different moments. (e) *Waiting*: an optimization waits for the
gate while maintenance keeps arriving; retries back off and must not starve.

**What makes each component correct.**

- *Gate*: the token is neither lost nor doubled; one operation at a time;
  maintenance never overtakes an optimization that waits; the waiting one gets
  through.
- *Routes*: whenever the process may die, the journal's file covers each change;
  recovery leaves each prefix with a route somebody was promised, and ends.
- *Policy*: whenever the process may die, the pending receipts take each adapter
  back to the last commit; a failed operation leaves nothing; recovery and
  uninstall restore and end.
- *Workers and broadcast*: nothing works before the journals are empty; each
  worker comes to use the current configuration; the schedule goes on after every
  failure, as promised; the process stops when it is told to.
- *Optimization run*: evidence is used with the pool it was gathered from, and
  once; what failed stays out; a run ends.
- *Automatic domains*: manual mappings stay; cleared domains do not come back;
  a mapping nobody asks for leaves.
- *Hosts file*: no line of the user's is lost or comes back; nothing of the
  program's is left when no receipt is; a failed clean-up can be repeated.
- *Guard*: it repairs the policy committed last and no other; lost rules are
  restored and verified in the end.
- *Mihomo adapter*: what others write into the configuration is not undone.
- *API*: no update is lost; a plan is used once; a cancelled operation stops.

## 2. Plan

Modules in the order in which they are written.

| # | module | what | status |
|---|---|---|---|
| 1 | `OperationGate`, `GateContract`, `GateAndGuardProofs` | the gate; safety and the implementation of its contract proved | done |
| 2 | `RouteController`, `RouteControllerProofs` | route transactions under faults and crashes; safety proved | done |
| 3 | `PolicyTransaction`, `AtomicPolicy`, `PolicyTransactionProofs` | coordinator, journal, commit, recovery, uninstall; safety and the implementation of `AtomicPolicy` proved | done |
| 4 | `MihomoAdapter` | one policy change over files and a running kernel | done |
| 5 | `GuardSupervisor`, extends 4, `GateAndGuardProofs` | audit, repair, retry and publication of one strategy beside optimizations; safety proved | done |
| 6 | `ConfigurationWriters`, `ConfigurationWritersProofs` | requests that write the configuration, manual-domain worker, quick start: mutexes, task slot, save and publication; safety proved | done |
| 7 | `DaemonWorkers`, `DaemonWorkersProofs` | broadcast of configuration changes, scheduler, start-up and stop; safety proved | done |
| 8 | `OptimizationRun`, `OptimizationRunProofs` | node pool, checkpoint, cooldown, retries, commit of one run after the other; safety and `RunEnds` proved | done |
| 9 | `DomainDiscovery`, `DomainDiscoveryProofs` | automatic domains: rounds, refresh, isolation, clearing beside runs; safety proved | done |
| 10 | `HostsAdapter`, `HostsAdapterProofs` | Hosts file and backup with chains of receipts, the user and crashes; safety proved | done |
| 11 | `PolicyWithRoutes` | composition of 2 and 3: temporary routes, obsolete routes | planned |
| 12 | Mihomo benchmark guard, replacement window of `fsutil` on Windows | | planned |

Abstract specifications, both checked and proved: `GateContract`, what the gate
promises to its callers, implemented by `OperationGate`; `AtomicPolicy` (a policy
comes into force exactly as asked or leaves nothing behind), implemented by
`PolicyTransaction`.

Every safety invariant and every safety action property that a passing run checks is
a theorem, but for `NobodyIsStuck`, which speaks of `ENABLED` (section 5; that no
circle of waits arises is a theorem). TLC finds
the `TypeOK` of every module true on the instances below; that of every module with
proofs is a theorem. Theorems worth proving next are those of the planned modules.

## 3. The modules

### 3.1 `OperationGate` and `GateContract` (with `MCOperationGate`, `GateAndGuardProofs`)

One action per atomic operation: the add on `pendingRuns`, `TryLock`, a channel
receive or send, each look at a context or at `pendingRuns`. `token[g]` is the
content of Runner `g`'s channel, `locked[g]` its `runMutex`, `pc` where each
goroutine is. `Announce .. RunLeaves` is `Runner.Run` with its deferred calls in
their order; `MaintCalls .. MaintEnds` is `tryAcquireMaintenance` and the
operation that follows, for all seven callers: they differ in what they do
inside, which is other modules' matter. `runnerOf` says which Runner a goroutine
works on: quick start builds a second one.

`GateContract` says the same without lock, counter and token: each caller is out,
asks, works or leaves; one works at a time; maintenance works at once or not at
all, and never while an optimization is between its call and its return.
`ImplementsContract` states that `OperationGate` implements it, with `phaseOf` as
the refinement mapping: the receive of the token by an optimization is no step of
the contract, its second look at the context is `Starts`; the second look of
maintenance at the counter is `Maintains`.

A quirk kept: a refused maintenance call gives back the token it took, so the
waiting optimization is delayed by it but never passed over.

### 3.2 `RouteController` (with `MCRouteController`, `RouteControllerProofs`)

`mem` is the journal in memory and `disk` the file, `table` the system's routing
table, one value per prefix. An operation holds the controller's mutex, so one
`pc` is enough; a crash may come between its steps. Each step is one call that
may fail (`change`, `undo`, `query`, `persist`) and what the code does on its
result; a change that fails may have happened. `plans` are the plans that callers
hold: `Plan` reads the table without the mutex, at any step of another operation,
and any operation may come before the `Apply` of the plan (`BeginApply`), which
journals the previous route of the plan as it is. `accepted[p]` is history: the
values the owners of `p` were told to expect once temporary and unfinished
changes are undone.

The properties hold outside three gaps of the code, which `exempt` collects where
they arise:

1. *Two open transactions of one prefix.* Recovery undoes oldest first
   (`route.go:279`), so with two the older one's undo is overwritten, or undone
   first and then overwritten by the route in between. It takes a failed journal
   write or a temporary route over an open one.
2. *A failure the transaction does not show.* An operation reports an error,
   leaves the change, and records a state recovery does not select
   (`route.go:189`, `:219`, `:239`), or reports an error for a transaction it
   recorded as verified (`:198`).
3. *An outdated plan.* The route that a plan read is not one that was promised any
   more when the plan is applied (`Outdated`), because another operation came
   between (6.2).

In the first gap the failed write is the one of `appendTransaction`
(`route.go:397`): `Apply` refuses the change, but the transaction stays in
memory, the next write puts it into the file as `prepared`, and recovery undoes it over
a route that a later transaction promised. The second is described in 6.2.

### 3.3 `PolicyTransaction` and `AtomicPolicy` (with `MCPolicyTransaction`, `PolicyTransactionProofs`)

`file[a]` is what adapter `a` has, as the set of nodes it sends direct; `mem`
and `disk` are the policy part of the state store; `op` is the operation in
progress, with its plan (a run goes over a transition policy that keeps the
stored nodes), the receipts so far and the group being undone. `Start` to
`Commit` follow `applySelectedPolicy` and `Coordinator.Apply`; `UndoOne` is one
`adapter.Rollback`; `RecoverEnds` and `UninstallEnds` are `RecoverPendingPolicy`
and `CleanupManagedPolicy`. `committed` is history: the contents of the last
commit. Each list of receipts of the code is in the order of issue, so a set
stands for it, and `Newest` is the receipt that a backward loop comes to next.

The shallow copy in `store.Update` is kept: a failed write leaves what the
callback wrote through the pointer to the pending transaction in memory, and in
memory only (`UpdateFails(leaked)`).

Nine gaps of the code are named. The first eight are collected in `exempt` where
they arise; the properties hold on the other adapters, and for these ones until
the gap arises:

1. An adapter restores its file after a failed reload and ignores an error of
   that: the change has no receipt.
2. A commit of manual mappings leaves its receipts pending (finding).
3. A commit closes the journal over a change of another adapter that could not
   be undone.
4. Such a change leaves the chain of committed receipts with a link missing,
   where the first receipt of the next operation for that adapter does not begin
   with the committed content: uninstall stops at it.
5. A receipt that could not be recorded, and then could not be undone, is lost.
6. A crash between `adapter.Apply` and `journal.Record` (6.2).
7. An uninstall that fails has undone part of the chain, and nothing says so.
8. The receipts of the final policy could not all be undone and stay in the
   journal, while the transition under them is undone and leaves it: the
   stranded receipt goes back to the transition's content (6.2).
9. Two changes of one adapter are pending, as those of a transition and of the
   final policy are, both are undone, and the process dies, or the write fails,
   before they leave the state's file: the newer one is refused at every start
   from then on (`UndoneTogether`, 6.2). The files are as committed, so that only
   `RecoveryTerminates` exempts it, and only in a process that is down.

The proof needs these to be exact: an exemption that is wider than its gap would
hide an error, and one that is narrower makes the invariant fail on an instance
larger than the run's.

`AtomicPolicy` is the same without receipts, journal and recovery: the policy in
force for each adapter, what each adapter has, the policy that was asked for, and
whether the system is settled, with nothing in progress or left to undo. A change
may be asked for while none is; contents are then free to vary; the change comes
into force on adapters that all have exactly what was asked (`Commit`), or it is
given up, and the system settles only when each trusted adapter has what is in
force again; a removal brings the original contents back. A transition policy never
comes into force. `ImplementsAtomicPolicy` maps `committed` to the policy in force,
the last policy of an operation's plan to what was asked for (until the operation
begins to undo), an idle daemon without pending receipts to the settled states, and
the adapters that are not in `exempt` to the trusted ones.

### 3.4 `MihomoAdapter` and `GuardSupervisor` (with `MCGuardSupervisor`, `GateAndGuardProofs`)

`MihomoAdapter` is one policy change as a transaction, of an optimization or of
the guard: `own` is the policy in the provider and the metadata, `config` the
active configuration (the version of the user's part, the policy patched into
it, whether the bytes are the adapter's own serialization), `running` the policy
in the rules the kernel has loaded. `Plan`, `Check`, `WriteOwn`, `WriteConfig`,
`Reload` and `Restore`/`ReloadAgain` are `Plan` and the steps of `Apply`;
`BackCheck` to `BackReload` are `Rollback`. A reload that fails may have worked.
`Rewrite` and `Switch` are the user, the GUI client and the kernel, at any
moment. `raced` is history: others wrote the configuration between the
transaction's check and its last write, the only window in which their edit can
be lost.

`GuardSupervisor` adds the goroutine of `runStrategy`: one action per call or
wait, `sup` its local variables, `status` what it published, `holder` the gate
(here a lock: `OperationGate` has its steps). Optimizations change the policy
with the same transaction. The retry delay and the time to the next audit are
timers that elapse at any moment, so no order of delays is excluded.

Policies differ in their rules, so `running` tells them apart. A document whose
own rules equal managed ones is not modelled (see the hazards).

`DriftIsRestored` holds but for one gap, the operator `Stuck`: the files are the
adapter's own, byte by byte, and the kernel runs other rules (6.2).

### 3.5 `ConfigurationWriters` (with `MCConfigurationWriters`, `ConfigurationWritersProofs`)

The configuration lives three times: `file`, `config` (`Runtime.Config`) and the
copy of each Runner (`runner`, of which `session` is the current one). File and
memory are not always the same: where a running Mihomo is detected, which the
default configuration asks for (`proxy.auto_detect`), `Build` and `ReloadConfig` publish the
detected controller in place of the file's (`Loaded`, `found`), and a save of what
was published puts it into the file. `Desired` is what `config.get` makes of both.
Five kinds of requests write the configuration, each as one client's `pc`:

| actions | code |
|---|---|
| `Fetches`, `UpdateBegins .. UpdateRestoreFails` | `config.get`; `API.updateConfig`, `Runtime.ReloadConfig`, `Runner.Reconfigure` |
| `Add`, `AddPublishes`, `Remove`, `Worker*` | `manual_domain.go`: the request and the goroutine it leaves |
| `Run*`, `Benchmark` | `API.RunOptimization`, `persistVerifiedManualMappings` |
| `Apply*` | `Runtime.applyManualDomainMapping` |
| `Quick*` | `planQuickStart`, `runQuickStart`, `BuildManagedSession`, `ActivateSession` |
| `Restart` | the daemon dies at any moment and loads the file; clients keep the copies they fetched |

`configurationMutex`, the task slot (`activeCancel`) and `accelerationMutex` are
not variables: the set of steps at which each is held (`LockSteps`, `TaskSteps`,
`ApplySteps`) says who has it, so a step that forgets to release one cannot be
written; the code's releases are deferred calls, or are the step `WorkerReleases`.
What runs under the operation gate is one step, with the outcomes the Runner's
code has: a refresh that undid itself, one that failed after its commit
(`RefreshFails`), one without work to do. `Allocations` is what a refresh may
give the manual domains: an address each, kept where it was. A view of the memory
and the save that directly follows it are one step: between the two, others can
only save, which could have come before, or publish, which could have come after.
The copy that `config.update` sends is not such a view: `config.get` gave it out at
some time (the step `edit`), nobody compares it with what is stored now, and it may
be older than anything, a restart included. The secret of Mihomo, which the update
takes from the memory, is part of no setting here.

History: `since` collects the kinds of saves that happened after a request's
view, or after the copy it sends was fetched, `lost` the pairs of a request and a
save it wrote over, `unrestored` that a save which was to undo another one failed,
`policy.reported` that the refresh which committed did not fail after that. A save
of `config.update` that takes effect with the next start is a kind of its own,
`restart`: until then each view of the memory lacks it (`NotInMemory`). The
properties about agreement (`MemoryIsCurrent`, `RunnerFollowsConfiguration`,
`RemovedDomainsLeavePolicy`) speak of moments without a request in progress and
without an overwrite. `OnlyKnownOverwrites` says which overwrites there are: those
of and over `domain apply`, which takes `accelerationMutex` only; those of a
`config.update`, whose copy may be stale; those over an update that waits for a
restart; and those of a worker over the run or quick start that got the slot before
it. What it excludes is that an addition, a removal, a run or a quick start loses
what an update applied at once or, but for that last case, what one of the others
stored.

Assumed: at least one adapter is configured. Lists of domains are sets, so an
update that changes their order only is not one.

### 3.6 `DaemonWorkers` (with `MCDaemonWorkers`, `DaemonWorkersProofs`)

`stage` is the stage of start-up, `journals` says which of the two journals hold
unfinished transactions: both may, when the process starts. `Listens`,
`RecoverRoutes`, `RecoverPolicy` and `Dies` are `Service.Run` up to the start of
the workers; `Stops`, `Exits` and `Restarts` its end. `published` is the sequence
of configurations; a subscription (`ConfigChanges`) is the number of publications
it knew, because the channel it returns is closed by the next one. Each worker
reads the configuration and subscribes in two steps, in the code's order; `late`
is history and says that a publication came between the two.

`sched` has the local variables of `schedule`: its timer as the delay it was
reset to, the failures in a row, the path it last saw; `status` is the promise of
`system.status`. Every way out of a run resets the timer: conflict, failure,
cancellation, success, and beside them publications and changes of the network.
`exponentialDelay` is a recursive function. An operation holds `gate`; a process
that ends inside one leaves journals.

### 3.7 `OptimizationRun` (with `MCOptimizationRun`, `OptimizationRunProofs`)

One run after the other, each in the stages of `Runner.Run`; `run` has its local
variables. The state store is there twice, `mem` and `disk`: `Store.Update` hands
out a shallow copy, so a failed write leaves in memory what went through a map or
a pointer (`Nodes`, the checkpoint), and the file as it was (`SaveFails`). A node
pool is reused (`nodePoolCompatible`), refreshed, or used although it has expired
when the refresh fails. Evidence carries, as history, the pool, configuration
and path it was gathered from; the code keeps them beside it, and rewrites them.

`Allocates`, `Applies`, `FailsVerification` are the loop of the domain stage:
what fails its verification is excluded, and `Rank` (in `RunEnds`) shows that the
loop ends. The domains here are manual ones, which a run maps or fails. A
measurement may qualify any subset of what it tested; scores, hysteresis and the
two families are abstracted to that.

### 3.8 `DomainDiscovery` (with `MCDomainDiscovery`, `DomainDiscoveryProofs`)

A round (`Observes`, `Writes`, `Refreshes`, `Undoes`) takes a snapshot, resolves
and verifies for a long time, writes whole records, and asks for a refresh, which
may fail: then it takes its activations back. `accelerationMutex` keeps rounds,
clearings and reloads apart, but no run and no change of the lists, which write
the same records under the gate. A round may also see nothing (`visible`):
`proxy.auto_detect` is off, Mihomo is absent or does not answer, or the ranges
cannot be read (`runtime.go:727-756`); then it returns before it looks at the
policy, mostly without an error. `op` is the operation that holds the gate, with
the loop of allocation, isolation and verification that the refresh and the run
share. A run may be dry, and then ends with its plan. A policy is the set of domains
it maps.

The checkpoint is the record of evidence, the configuration it is stamped with, and
its stage. A run that fails stamps its own configuration and stage on whatever
evidence is there (`Stamped`), and the last write of a dry run, when it fails,
stamps it with the stage from which the next run resumes it (`Resumable`). `of` is
history: the configuration whose lists were allocated. A commit may succeed and the operation fail all the
same, at the write that puts failed addresses back into cooldown.

History: `cleared` (domains cleared and not seen since), `settled` (the
configuration whose lists the last commit mapped, which is an older one than the
Runner's after a run with evidence that was stamped anew: `ManualStays` says
nothing then, 6.2). `StraysLeave` speaks of rounds that see connections, and
exempts, by the operator `IsolatesForEver`, what the run `discovery_loop` finds.

### 3.9 `HostsAdapter` (with `MCHostsAdapter`, `HostsAdapterProofs`)

`hosts` is the user's file: the domains of his own lines and the managed block.
`backup` is the file beside it, which may be missing or somebody else's. A
receipt has the file of before, the file it made and the backup it found. `Plans`
to `Verifies` are an application, with a step for each file; `RollbackReads`,
`RestoresHosts` and `RestoresBackup` undo one receipt; `Cleans`, `CleansNext` and
`CleanupConflict` are `Coordinator.Cleanup` over a list, as recovery and
uninstallation call it. On Windows the file is compared and written in place
(`Compares`), elsewhere renamed into its place. The user may edit a line, break
or remove the block, or touch the backup, at any step.

`mine` and `forgone` are history: the user's lines, and those that were out when
he took the block away himself. `spoiled` collects the gaps that the properties
exempt by name: `overwritten` (an edit between a comparison and the write after
it, where nothing compares under the handle), `leftover` (finding `hosts_backup`),
`torn` (writing in place was cut off, by a crash or by a failure whose restoration
failed, too: `Torn`, `Tears`), `unrecorded` (a crash before
the receipt is in the file of the state), `dropped` (a commit closes the journal
over a receipt that could not be undone), `mistaken`. The last one is there because
contents are compared, not when and by whom they were made: an edit, or an
application after an edit that the adapter must refuse, can make the file equal to
what an older receipt made. Undoing that receipt then brings back what it found,
with lines the user has removed since, or without lines he has added.
`MistakenWrite` and `EditsLine` record exactly these coincidences, and none of the
properties is given up for them but `UserLinesKept`: what a clean-up restores, and
that it leaves no block and no backup, holds in spite of them.

`CleanupsRestore` says what a clean-up owes that meets neither a fault nor an edit
(`op.since`), whatever earlier ones did: both files as the oldest receipt found them,
or without a block if the user took it away. It does not say that it reports
success: after an interruption in a chain of three or more receipts, the
newer ones are refused although they are undone (6.2). Where it found no block any
more (`op.met`, history) it does not fail either, so that a repetition is enough.

A call that fails after both files are undone keeps the receipt: the refresh of
the resolver's cache, or the removal of the receipt from the state's file. In the
second case memory has forgotten it, and the next write of the state makes that
good: the model has this outcome as an undoing that succeeded.

A limit: a line that an earlier policy took out comes back only with the undoing of
that policy, not when a later one no longer maps the domain.

## 4. Runs

| run | instance | shows |
|---|---|---|
| `gate` | 2 optimizations, 2 maintenance goroutines, 1 Runner | token, exclusion, priority, `WaitingRunProceeds`, and that `GateContract` is implemented |
| `route_recovery` | 2 prefixes, 2 gateways, 1 waiting plan, 2 transactions, 2 faults, 2 crashes | journal covers changes, recovery restores and ends |
| `policy_tx` | 2 adapters, 2 nodes, 2 operations, 1 uninstall, 2 faults, 2 crashes | coverage, recovery, uninstall, and that `AtomicPolicy` is implemented |
| `policy_manual` (violation) | 1 manual mapping, no faults | committed receipts stay pending |
| `guard` | 2 policies, 2 changes by others, 1 fault, 1 crash | repairs the current policy, keeps edits, restores rules |
| `config` | 2 clients, 2 domains, 2 addresses, 3 requests or restarts, 1 quick-start session, a Mihomo detected or not, 1 controller of it | which requests write over which, from copies of any age; file, memory, Runner and policy agree; nobody is stuck |
| `daemon` | 2 configurations, 1 publication, 1 change of network, 2 failures, restarts | clean start, workers follow the configuration, the promise, the schedule goes on, the stop ends |
| `optimize` | 2 nodes, 2 domains, 2 configurations, 2 paths, 2 lists, 2 pools, 1 change, 1 fault | evidence of its pool and used once, cooldown, a run ends |
| `discovery` | 2 domains, 3 configurations, evidence left of one, 2 calls, 1 fault | manual mappings stay, cleared domains stay away, strays leave |
| `discovery_loop` (violation) | 1 configuration, 1 call, 2 faults | an isolation without end |
| `hosts` | 2 domains, 2 policies, both platforms, 3 applications, 1 edit, 2 faults | the user's lines, nothing left behind, what a clean-up restores |
| `hosts_backup` (violation) | as `hosts`, 2 applications, no edit | a stray backup blocks the undoing |

**Bounds.** Two optimizations and two maintenance goroutines have every pair of
roles twice, so each of them meets a rival of its own kind and of the other.
Two prefixes tell a change apart from what it must leave alone, two gateways a
new route from an old one; two transactions give every order of two changes, one
plan that waits while the other transaction comes and goes is what makes a plan
outdated, two
faults a call that fails and whose undoing fails, two crashes a recovery that
dies. Two adapters give a first one that is applied and a second one that fails,
two operations a commit and what follows it. Two policies give a guard whose
policy is replaced while it works, two changes a kernel that stops and comes
back, or an edit of an edit. Two clients and the worker are three writers at a
time, which is what three requests can start; two domains tell the one an
operation works on from one it must leave alone, two addresses are the fewest
that give each domain its own and a mapping another value. A fetch is a request, and
the update that sends the copy is not counted, so a copy may outlive two other
requests. An update changes one setting or the domains. One controller that may be
detected, which the file at first does not have, makes file and memory differ and agree. One publication at any step of three workers
is what a missed notification takes, one change of network on top of it what
makes two causes meet in the scheduler; with an interval of 90 seconds two
failures reach the cap of the back-off. Two nodes and two domains give a plan, one
that excludes an address, and one that has nothing left; two pools evidence of
another pool, and one change of configuration, path or ranges in any stage makes
a checkpoint old. Two automatic domains, of which one record may be kept
(`MaxRecords`), make trimming happen; two calls are a run and a clearing, or a
clearing between two changes of the lists, or a dry run and a run, beside the
rounds, which are not bounded; a round sees one domain at most (`MaxSeen`), the next one
the other. Evidence of another configuration needs a failed run before those two:
one configuration may have left it to the daemon that starts (`OldConfigs`). Three applications make a chain in which a receipt has one before and one
after it, which a clean-up that was interrupted needs to fail when it is repeated;
two faults a failed application and a failed undoing of it, or a crash; an edit
comes at any step.
`CHECK_DEADLOCK FALSE` is set where
a bound stops the behaviour; the gate has none and is checked for deadlock.

**Fairness.** `gate`: weak fairness of each goroutine's own steps, which the Go
scheduler gives, and of the end of an operation, whose calls have time-outs;
nobody has to call or to cancel. `route_recovery`, `policy_tx`: weak fairness of the operation in progress and of the restart,
which the service manager does. `guard`: weak fairness of the goroutine, of the
transaction's steps and of the two timers; not of optimizations to come, nor of
anything the user or the kernel does. Faults and crashes are bounded, so the liveness
properties say: once calls stop failing. No strong fairness anywhere.
`daemon`: weak fairness of start-up and restart, of the scheduler's steps, of the
end of each operation and of the stop; not of requests, publications or
failures. `discovery` and `discovery_loop`: weak fairness of the rounds, which the
daemon's timer begins one after the other and which come to look only while
connections are visible (a round that sees nothing owes nothing), and of the steps of the operation in
progress, whose calls have time-outs; its failures are not to be relied on, and
are bounded. `config`, `optimize` and `hosts` assume no fairness: `NobodyIsStuck`
and `CleanupsRestore` are state properties, `RunEnds` (every step of a run lowers a
rank) is an action property.

## 5. What is proved

`GateAndGuardProofs` proves in its first part, for all sets of Runners and goroutines (finitely
many optimizations), every safety property the run `gate` checks. The inductive
invariant is

    GateInv == GateTypeOK /\ TokenConserved /\ MutexOwned /\ PendingCounts

Each part needs the others: a send needs an empty channel (`TokenConserved`) to
keep the token single; `TokenConserved` follows the holder by `pc`, whose type
tells optimizations from maintenance; a counter that is a natural and equals the
number of announced calls (`PendingCounts`) is what makes the second check of
maintenance mean that no optimization waits. `MaintenanceYields`, an action
property, uses the invariant before the step. The cardinality of the announced
calls changes by one at `Announce` and at `RunLeaves` only, which the lemmas
`AnnounceCounts`, `LeaveCounts` and `AnnouncedUnchanged` state.
`GateImplementsContract` shows that each step is one of `GateContract` or none:
`MovePhase` and `StayInPhase` say what a move of `pc` is to the contract,
`HolderFindsNobody` that the holder of the token may start (`TokenConserved`),
`NoneCountedNoneAsks` that maintenance may where nothing is counted
(`PendingCounts`). `MutexOwned` and `PendingCounts` are parts of the proved
invariant and in no run.

Assumptions: `RunsFinite`, `RunnerOfType`, `RunsAreNotMaints`, which TLC
evaluates in the runs.

Its second part, about the guard whose repairs are maintenance under that gate,
proves the safety properties of the run `guard`, for any number of policies, of changes by others, of faults and of crashes. The
inductive invariant is

    IInv == TypeOK /\ LockedPolicy /\ RepairOfWanted /\ WritesWhatItRead /\ EditsInOrder

`TypeOK` holds the discipline of the gate: the guard's steps inside the callback
and an optimization's transaction each go with the holder. `LockedPolicy`: once
the guard is past its check of the revision, the policy it read is the desired
one, because only an optimization that holds the gate commits another.
`RepairOfWanted`: the guard's transaction is for that policy; the two together
give `RepairsCurrentPolicy`. `WritesWhatItRead`: from the check of a transaction
to its last write, the configuration is the version it read or others wrote
since (`raced`). `EditsInOrder`: no part of the state carries a version that
nobody wrote yet. `EditsSurvive`, an action property, follows for each step from
these two.

Assumptions: `FaultsKnown`, `BoundsNat`, `MaxCrashesNat`, evaluated in the run.

`RouteControllerProofs` proves the three invariants of the run `route_recovery`
and `RecoveryRestores`, for all sets of prefixes and gateways, every initial table
and any number of transactions, failures and crashes.

    IInv == /\ TypeOK
            /\ Restorable(disk)
            /\ up => Restorable(mem)
            /\ CurrentTransaction /\ FileIsOlder /\ RecoveredSoFar

`ChangesAreJournaled` says that recovery finds something to undo, not what undoing
it brings back; `Restorable` says both, of the file and, at every step, of the
memory, because any write makes the memory the file. `CurrentTransaction` ties the
operation to the only unfinished transaction of its prefix; where the plan was not
outdated, its previous route was promised. `FileIsOlder` lets a failed write keep what the file had, and `RecoveredSoFar` is the invariant of the
recovery's loop. Assumptions: `NoRouteIsNoGateway`, `InitialTableType`,
`FaultsKnown`, `BoundsNat`.

`PolicyTransactionProofs` proves `TypeOK` and the safety properties of the run
`policy_tx`, for all sets of adapters, nodes and targets and any number of
operations, uninstalls, failures and crashes.

    IInv == /\ TypeOK /\ ControlInv /\ IdInv /\ HeldInv /\ FilesInv
            /\ JournalInv /\ NewInv /\ UndoInv /\ ChainInv

`ChangesAreCovered` replays a whole journal; no step of the program does.
`JournalInv` says it locally: each receipt changes from the committed content or
from what an older receipt of the journal applied (`Linked`), and the file has one
of these contents (`Explained`). By induction on the receipts, newest first, which
`Replayed` follows, this gives `ChangesAreCovered`. It is said of the memory and
of the file, which a failed write sets apart. `NewInv` covers the receipt between
its issue and its record, `HeldInv` says that everything else an operation holds
is in both journals, `UndoInv` is the invariant of the loop that undoes a group:
what is left of it and the receipts outside it explain the file. `ChainInv`
carries the same over commits, for the uninstallation. `IdInv` and `FilesInv` say
that identifiers tell the order of issue, so that "the newest" is what the code's
backward loops take. Adapters with a known gap are left out of each part, and each
action that leaves a gap adds its adapters to `exempt`; that is where the proof
needs the gaps to be exact.

`PolicyImplementsAtomic` shows that each step is one of `AtomicPolicy` or none. It
needs a second invariant, `PlanInv`: the plan of an operation ends with a policy of
`Targets`, the receipts in hand are those of the first policy of the plan and there
are some once an adapter was applied, and only the last policy of a plan is verified
and committed. With `FilesInv` this makes a commit one of what was asked; with
`JournalInv` a step to a settled state finds every trusted file as committed
(`SettledInForce`, which is also the proof of `QuietIsCommitted`); `ChainInv` makes a
completed uninstallation a removal. Assumptions of both: `TargetsAreNodes`,
`KindsKnown`, `FaultsKnown`, `BoundsNat`.

`DaemonWorkersProofs` proves the three invariants of the run `daemon`, for all
sets of configurations, any interval and any number of publications, changes of
the network, failures and restarts.

    IInv == Types /\ CleanStart /\ GuardSeen /\ SchedulerSeen /\ TimerPromised

`CleanStart` follows the start-up: which stage has recovered which journal, and
that only a service that was ready lets anybody into the gate. `GuardSeen` and
`SchedulerSeen` relate what a worker read to what it subscribed at. `TimerPromised`
ties status, timer and configuration together wherever the scheduler waits. The
delays after failures are a recursive function: `DelayBounds`, by induction on the
naturals over a set (`NaturalInduction`), shows them positive, so that a promised
run has a timer. Assumptions: `ConfigurationType`, `IntervalPositive`,
`DaemonBounds`.

`OptimizationRunProofs` proves the properties of the run `optimize`, for all
finite sets of nodes and domains and any number of pools, changes, failures and
crashes.

    IInv == AroundType /\ RunInv /\ StateInv

`RunInv` has what a run needs at each of its steps (`Ready`) and that the plan it
is about to apply uses no pair that it excluded (`PlanIsNew`). `StateInv` is
`Faithful` of the memory and of the file, which a failed write sets apart: evidence
is of the checkpoint's pool, pools are among those measured, and no evidence is
left of a plan that was committed, which `NoPlanTwice` and `EvidenceOfItsPool` rest
on. `RunEnds`, that every step of a run lowers a rank in the naturals, needs
`PlanIsNew` and the finiteness of the pairs of domain and node: a failed
verification excludes a pair that was not excluded. Assumptions:
`ConfigsAreRecords`, `FiniteChoices`, `OptimizationBounds`,
`PhysicalIsFingerprint`; `FiniteChoices` is used by `RunEnds` only.

`DomainDiscoveryProofs` proves the two invariants of the run `discovery`, for all
sets of domains and configurations, any limit on the records, and any number of
rounds, operations, failures and crashes.

    IInv == AroundType /\ StateInv /\ OpInv /\ RoundInv

`ManualStays` speaks of the configuration in force and of the policy; the plan of a
checkpoint is committed without being looked at, so `StateInv` says the same of it
(`PlanCovers`: its domains are those of the configuration it was allocated for,
`of`, whatever it is stamped with), and of the configuration of the last commit
(`Covers`), to which a failed change goes back. It also says what is gone after a clearing, of memory and
file. `OpInv` is what the operation that holds the gate may ask for, map and drop;
`RoundInv` that nothing a round has activated was cleared since. Assumptions:
`ConfigsAreRecords`, `OldConfigsAreConfigs`, `DiscoveryBounds`, `NoneIsNoValue`.

`ConfigurationWritersProofs` proves the four safety invariants of the run `config`
and `TypeOK`, for all sets of clients, domains, addresses and controllers and any number of
requests, quick-start sessions, failures and restarts.

    IInv == ControlInv /\ (lost = {} => DataInv)

    ControlInv == TypeOK /\ HasConfigs /\ Exclusion /\ Operations /\ Sessions
                    /\ SinceInv /\ OnlyKnownOverwrites
    DataInv == Told1 /\ FileInv /\ ViewInv /\ WorkerInv /\ RunnerInv /\ PolicyInv

`ControlInv` is what the two mutexes and the task slot keep apart: `Exclusion` says
which steps of requests and worker never meet, `Operations` that at most one domain
is at work, `Sessions` that a quick start's Runner is the next session's, and
`SinceInv` which saves a request can have missed (any, for those with a copy of any
age or beside the lock of the others, `Stale`; otherwise those of `domain apply` and
an update that waits for a restart), which is `OnlyKnownOverwrites`
one step before the save. The other three say nothing once a save was written over
(`lost`), so `DataInv` is of the states where none was. Its key is `Told1`: at most
one save is not published yet, and everybody else who holds a view of the
configuration has missed it or another save. Whoever saves or publishes without
writing over anything is therefore alone, and `FileInv`, `ViewInv` and `WorkerInv`,
which say what each request and the worker have read at each step, make what they
publish agree with the file (`MemoryIsCurrent`, but for the detected Mihomo, which
`Desired` puts in), the Runner (`RunnerInv`) and the policy (`PolicyInv`). Assumption used: `BoundsAreNaturals`; `MaxEvents` and
`MaxSessions` may be any naturals.

`NoCircularWaits` is what can be proved of `NobodyIsStuck`. It names the places where
the code waits (the worker that polls for the slot, the worker that blocks on
`configurationMutex` for its save, the request for an addition whose worker has not
started) and says that, while anything goes on, somebody waits for nothing. A worker
that polls waits for a request that holds the slot, and none of those waits for the
worker; one that blocks for its save waits for a holder of the mutex, and by
`Exclusion` this is no request for an addition, the only request that waits for a
worker. That request's own worker can start when the one before is gone, because its
domain stays marked (`AdditionPending`, inductive with `IInv`). That who does not
wait has an enabled step is what `NobodyIsStuck` adds, on its instance.

`HostsAdapterProofs` proves the three invariants of the run `hosts` and `TypeOK`,
for all sets of domains and policies, both platforms, and any number of
applications, edits, failures and crashes.

    IInv == TypeInv /\ LinesInv /\ EndsInv /\ ChainInv

The properties speak of the files as they are, but what undoing makes of them is in
the receipts. That no receipt alone has a wrong content is not inductive: a receipt
of before an edit has the old lines, and is harmless as long as it is refused. So
`LinesInv` asks for a set of contents that holds the file's and is closed under
undoing, all of which have the user's lines (`Closed`); an action gives the new set
as a witness. `OutIsOwed` adds that each line that is out was taken out by a
receipt whose undoing is still to come; together they give `UserLinesKept`.
`EndsInv` follows the oldest receipt, which found no block and the others' backup,
and gives `FilesAreRestored`. `ChainInv` says where both files may be when the
receipts of a chain are undone, each with the ones before it (`At`, `Linked`), and
that a clean-up comes down this chain however much of it is undone already
(`Bottom`): `CleanupsRestore`. That a content comes from the changed receipt with
the smallest position takes well-founded induction over finite sets
(`LeastPosition`). Assumptions used: `PlatformsKnown`, `NoneIsNoPolicy` and
`NoneIsNoReceipt` (the value that stands for "none" is neither a policy nor a
receipt), which TLC evaluates in the runs; `PoliciesMap` and the bounds are not
needed.

The attempt to prove it found that two earlier properties held by their bounds:
"a clean-up in which nothing fails succeeds" with two applications and not with
three, and `UserLinesKept` without the gap `mistaken` with one edit and not with two.
They were restated (3.9), and 6.2 says what the code does.

TLC checked each of these invariants, as invariants of the instances of section 4,
before it was proved; some also of larger ones: for `PolicyTransaction` one adapter
with three operations and six failures, and two adapters with three failures; for
`ConfigurationWriters` one domain and one address with four events, and random
behaviours with eight events and two sessions; for `HostsAdapter` three applications
with two edits and a fault, four with two faults, one with three edits, and random
behaviours with four, three and three.

**Only model-checked.** Liveness and what speaks of `ENABLED`, which are out of
these provers' reach: `WaitingRunProceeds`, `RestartReachesReady`,
`RecoveryTerminates`, `DriftIsRestored`, `RunsComeRound`, `StopEnds`,
`StraysLeave`, `NobodyIsStuck` (of which `NoCircularWaits` proves the waiting,
not the steps). The violations of section 6.1 are
counterexamples on the instances named. A theorem here is about the model: that the
model is the code rests on the correspondence that section 3 describes.

## 6. Findings

### 6.1 Shown by a run

1. `policy_manual`: a manual commit does not clear the pending receipts
   (`runner.go:443`).
2. `discovery_loop`: an automatic domain whose connection failed at an address is
   isolated again and again, and the operation never gives the gate back
   (`runner.go:1621`).
3. `hosts_backup`: an application that fails between its two writes leaves a
   backup with which the receipt before can no longer be undone
   (`hosts/adapter.go:153`).

### 6.2 Known gaps without a run

Met while modelling; the models contain them, and their properties exempt them by
name or are stated so that they do not speak of them.

1. The gate belongs to a Runner, and a quick-start session has its own
   (`runtime.go:1049`): the guard and a refresh of discovery may work beside the
   session's optimization. `GateExclusive` and `GateContract` hold per Runner.
2. A failed verification with a failed rollback is closed as `rolled_back`, and
   no recovery looks at it again (`route.go:189`).
3. After a crash between application and record, the managed-file adapters refuse
   to undo the receipts before, and the daemon does not start
   (`managedfile/adapter.go:174`).
4. A kernel whose rules differ from right files is never reloaded
   (`mihomo/adapter.go:409`).
5. A configuration that waits for a restart is written over by the next request
   that stores a mapping or a domain (`api.go:459`). `OnlyKnownOverwrites` lists it
   as a save of kind `restart`.
6. A domain whose addition failed cannot be removed: the removal says that the
   policy still has it (`manual_domain.go:360`).
7. The guard reads the configuration before it subscribes to changes
   (`daemon.go:157`): a publication between the two is missed until the next one,
   though the comment at `daemon.go:142` says that no old endpoint is written to.
   `GuardFollowsConfiguration` exempts it by `late`. The observer has the same
   order; the scheduler looks again when it is told of the next change.
8. A failed run stamps the current configuration and path on the checkpoint that
   is there (`runner.go:1243`), so that evidence of another configuration is gone
   on with, against `cf-optimizer-implementation-plan.md:330`.
   `EvidenceOfItsPool` holds none the less. In `DomainDiscovery`: after a dry run
   over such evidence whose last write fails (`runner.go:836`), an apply run resumes
   it (`:719`) and commits a policy without a manual domain that was listed since,
   which `ManualStays` exempts by `settled`.
9. A clearing deletes from the map it shares with the store: when the write
   fails, the records are gone in memory and not in the file (`runner.go:1466`).
10. A run that goes on with a plan of before a clearing maps the cleared domains
    again; `ClearedIsGone` stops speaking of them then.
11. When the final policy fails and its undoing does too, the runner still undoes
    the transition under it (`runner.go:1954`), and the journal keeps the receipt
    of the final policy only (`proxy/adapter.go:556`). Its file now has the
    content of before the transition, which that receipt knows neither as its
    previous nor as its applied one: recovery refuses it, and the daemon does not
    start, although the file is as it was at the last commit.
12. A clean-up of three or more receipts of the Hosts adapter that was interrupted
    reports failure when it is repeated, although it restores everything: a newer
    receipt, undone already, is neither as it found nor as it left the files and is
    refused (`hosts/adapter.go:202`), and `CleanupConflict` refuses, too, as long as
    the block of an older one is there (`:262`). An uninstallation succeeds at the
    next attempt, when no block is left. A recovery that was interrupted after it
    had undone two or more pending receipts above a committed policy, whose block
    stays, fails each time, and the daemon does not start
    (`proxy/adapter.go:412`).
13. A write of Hosts in place that fails, and whose restoration fails, leaves the
    file empty or cut off and returns an error, without a crash
    (`write_windows.go:26-34`). When this was the undoing of a receipt, a clean-up
    then finds no marker, restores the backup and drops the receipts
    (`hosts/adapter.go:262`, `proxy/adapter.go:412`): it reports success, and the
    user's lines, which only the receipts had, are gone. (`torn`)
14. The managed-file adapters refuse the newer of two pending changes that are both
    undone already (`managedfile/adapter.go:171-175`): when the daemon dies between
    the end of a recovery and the write that clears the journal
    (`runner.go:1822-1829`), or that write fails, it does not start any more,
    although every file is as it was at the last commit. (gap 9 of 3.3)
15. The Hosts adapter compares contents (`hosts/adapter.go:202`), so a file that the user or a later
    application happens to make equal to what an older receipt applied is taken for
    it, and undoing that receipt gives the user's lines of then.
16. `RouteController.Plan` reads the previous route outside the mutex
    (`route.go:131`), and `Apply` journals it without looking again. An operation of
    another Runner's (1) or of another program in between is undone with the plan's
    transaction: the route comes back that the plan saw. (gap 3 of 3.2)
17. `config.update` saves whatever copy the client fetched, without comparing it with
    what is stored (`api.go:629-684`): domains, mappings and settings stored since
    the fetch are gone, and no client is told. `OnlyKnownOverwrites` lists it.
18. A detected Mihomo that the file does not have makes file and memory differ:
    quick start then reports pending changes and cannot apply
    (`quickstart.go:113`, `:257-278`) until the two agree. The next request
    that stores what is published, or a copy from `config.get`, writes the detected
    controller into the user's file.
19. A round of discovery ends before it looks at the policy when `proxy.auto_detect`
    is off, or Mihomo is absent or cannot be read (`runtime.go:727-756`): a mapping
    that nobody asks for any more stays until some operation refreshes the policy.

## 7. Not modelled

Measurement, sampling and network probes are inputs of the modules that use
them. Framing of requests, formatting, logs, packaging and the UI have no
property worth a model; platform back ends are the calls that may fail. Routes
changed by other programs, and a power loss that loses a renamed
file, are outside the models. Of the API, read-only requests, domain tests, and
the expiry and network fingerprint of a quick-start plan are left out. The
external adapter is a process with the same four operations, of which nothing
but their failure is known here. The Mihomo benchmark guard, whose receipts are in
memory only, and the composition of routes with policies are planned; until then
`PolicyTransaction` and `RouteController` are checked apart, and what a crash
between their steps does to obsolete routes is an open hazard. `PROJECT.json`
lists each component with its status, and the hazards no property covers say why.
