------------------------- MODULE ConfigurationWriters -------------------------
(***************************************************************************)
(* The requests of the daemon that write its configuration: the file, the  *)
(* copy in memory (Runtime.Config), and the copy every optimizer.Runner    *)
(* keeps of it.                                                            *)
(*                                                                         *)
(*   config.update           saves the copy that config.get gave out some  *)
(*                           time before, and waits for the policy         *)
(*   acceleration.domains    add and remove answer at once; a goroutine,   *)
(*                           the worker, refreshes the policy afterwards   *)
(*   an optimization         stores the mappings it verified               *)
(*   domain apply            stores one mapping and refreshes the policy   *)
(*   quick start             may replace the Runner and the configuration  *)
(*                                                                         *)
(* Three things keep them apart: configurationMutex (TryLock, except for   *)
(* the worker's own saves), the single activeCancel slot of a task, and    *)
(* accelerationMutex.  No variable stands for them: the step a request is  *)
(* at tells what it holds.                                                 *)
(*                                                                         *)
(* What runs under the operation gate of a Runner is one step (see         *)
(* OperationGate); cancellation, an expired context and a failing adapter  *)
(* are all failures of that step.  A view of the memory and the save that  *)
(* directly follows it are one step too: in between other requests can     *)
(* only save, which could as well have come first, or publish, which could *)
(* as well have come last.  The copy that a client edits is not such a     *)
(* view: it may be of any age, and survives a restart of the daemon.       *)
(*                                                                         *)
(* What is loaded from a file is not always what the file says: when a     *)
(* running Mihomo is detected, its controller takes the place of the       *)
(* file's in memory (found).                                               *)
(***************************************************************************)
EXTENDS Naturals, FiniteSets, Functions

CONSTANTS
  Clients,      \* connections to the daemon, each with one request at a time
  Domains, Addresses,
  Controllers,  \* what may be detected as the running Mihomo's controller
  NoController, \* what the file has of Mihomo before anything was detected
  NoAddress, NoConfig, NoDomain,
  MaxEvents,    \* bound on the requests accepted and the restarts
  MaxSessions   \* bound on the sessions that quick start activates

ASSUME BoundsAreNaturals == {MaxEvents, MaxSessions} \subseteq Nat
ASSUME NothingIsSomething ==
  NoAddress \notin Addresses /\ NoDomain \notin Domains

VARIABLES
  file,      \* the configuration file
  config,    \* Runtime.Config
  runner,    \* the configuration of the Runner of each session
  found,     \* Runtime.mihomoAutoDetected
  session,   \* Runtime.Runner
  policy,    \* the committed policy
  ops,       \* manualDomainOps
  worker,    \* the goroutine of the last operation on a manual domain
  client,    \* the request of each client
  plan,      \* quickStartPlan: the configuration it was made for
  events,
  lost,      \* history: {<<a, b>>: a request of kind a wrote over a save of kind b}
  unrestored \* history: a save that was to undo another one failed

vars == <<file, config, found, runner, session, policy, ops, worker, client, plan,
          events, lost, unrestored>>

\* managed stands for every setting that a hot reload applies, endpoint for
\* those that need a restart of the service, mihomo for the settings of Mihomo.
Mihomos == Controllers \cup {NoController}
Maps == [Domains -> Addresses \cup {NoAddress}]
Config ==
  [managed : BOOLEAN, endpoint : 0..1, mihomo : Mihomos, domains : SUBSET Domains, maps : Maps]
Settings == [managed : BOOLEAN, domains : SUBSET Domains]
\* reported, for the history: the refresh that committed the policy did not
\* fail after that.
Policy == [exists : BOOLEAN, maps : Maps, reported : BOOLEAN]
NoMaps == [d \in Domains |-> NoAddress]
Mapped(maps) == {d \in Domains : maps[d] # NoAddress}
Pruned(maps, D) == [d \in Domains |-> IF d \in D THEN maps[d] ELSE NoAddress]
SettingsOf(cfg) == [managed |-> cfg.managed, domains |-> cfg.domains]

\* "restart" is a config.update that takes effect with the next start.
Kinds == {"update", "restart", "add", "verify", "remove", "run", "quick", "apply"}

TaskSteps == {"update_reload", "update_publish", "update_restore", "benchmark",
              "run_execute", "quick_execute"}
LockSteps == {"update_save", "update_reload", "update_publish", "update_restore",
              "add_publish", "run_execute", "run_return", "run_publish",
              "quick_build", "quick_execute", "quick_return", "quick_activate"}
ApplySteps == {"apply_refresh", "apply_publish", "apply_restore"}
ClientSteps == {"idle", "edit", "benchmark"} \cup LockSteps \cup ApplySteps

WorkerSteps == {"idle", "poll", "refresh", "decide", "save", "publish", "rollback", "tail"}

\* The steps between the view, or the copy, that a request writes back and its
\* last write.
Viewing == {"edit", "update_save", "update_reload", "update_publish", "update_restore",
            "add_publish", "run_publish", "quick_execute", "quick_return",
            "quick_activate", "poll", "refresh", "decide", "save", "publish"} \cup ApplySteps

Client ==
  [pc : ClientSteps, next : Config \cup {NoConfig}, before : Config \cup {NoConfig},
   session : 0..MaxSessions, report : Maps, hot : BOOLEAN, since : SUBSET Kinds]
Idle ==
  [pc |-> "idle", next |-> NoConfig, before |-> NoConfig, session |-> 0,
   report |-> NoMaps, hot |-> FALSE, since |-> {}]

\* base: the view that is written back; before: the domains to return to.
Worker ==
  [pc : WorkerSteps, adds : BOOLEAN, domain : Domains \cup {NoDomain},
   base : Config \cup {NoConfig}, before : SUBSET Domains, session : 0..MaxSessions,
   refreshed : BOOLEAN, guarded : BOOLEAN, since : SUBSET Kinds]
NoWorker ==
  [pc |-> "idle", adds |-> FALSE, domain |-> NoDomain, base |-> NoConfig,
   before |-> {}, session |-> 0, refreshed |-> FALSE, guarded |-> FALSE, since |-> {}]

OpStates == {"none", "pending", "removing", "verifying", "verified", "deferred",
             "failed", "removed"}
\* A mutant of Active (OnlyKnownOverwrites): a removal that has not started
\* does not keep other requests away.
ActiveLater == {"pending", "verifying"}

Active == {"pending", "removing", "verifying"}

Injective(maps) ==
  \A d, e \in Mapped(maps) : maps[d] = maps[e] => d = e

\* What Build and ReloadConfig make of a configuration: a Mihomo is detected, or
\* none is and nothing of the configuration changes.
Loaded(cfg) == {<<cfg, FALSE>>} \cup {<<[cfg EXCEPT !.mihomo = m], TRUE>> : m \in Controllers}

Init ==
  /\ \E D \in SUBSET Domains, p \in Policy :
       /\ IF p.exists THEN Mapped(p.maps) = D /\ Injective(p.maps) ELSE p.maps = NoMaps
       /\ p.reported
       /\ policy = p
       /\ file = [managed |-> FALSE, endpoint |-> 0, mihomo |-> NoController,
                 domains |-> D, maps |-> p.maps]
  /\ \E x \in Loaded(file) : config = x[1] /\ found = x[2]
  /\ runner = [s \in 0..MaxSessions |-> SettingsOf(config)] /\ session = 0
  /\ ops = [d \in Domains |-> "none"] /\ worker = NoWorker
  /\ client = [c \in Clients |-> Idle] /\ plan = NoConfig
  /\ events = 0
  /\ lost = {} /\ unrestored = FALSE

-----------------------------------------------------------------------------
(* Locks, saves and publications *)

At(c, step) == client[c].pc = step

\* configurationMutex, activeCancel and accelerationMutex can be taken.
LockFree == \A c \in Clients : client[c].pc \notin LockSteps
\* A mutant of TaskFree (NobodyIsStuck): the slot is taken for an operation on
\* a domain before its goroutine asks for it.
TaskReserved ==
  /\ worker.pc = "idle"
  /\ \A c \in Clients : /\ client[c].pc \notin TaskSteps
                        /\ At(c, "update_save") => ~client[c].hot

TaskFree ==
  /\ worker.pc \in {"idle", "poll"}
  /\ \A c \in Clients : /\ client[c].pc \notin TaskSteps
                        /\ At(c, "update_save") => ~client[c].hot
ApplyFree == \A c \in Clients : client[c].pc \notin ApplySteps \cup {"update_publish"}

NoOperation == \A d \in Domains : ops[d] \notin Active

Accept == events < MaxEvents /\ events' = events + 1

WorkerKind == IF worker.adds THEN "verify" ELSE "remove"

Told(r, kind) == IF r.pc \in Viewing THEN [r EXCEPT !.since = @ \cup {kind}] ELSE r

\* What was saved and is not published yet: a view of the memory lacks it.
SavedBy ==
  [update_reload |-> "update", update_publish |-> "update", update_restore |-> "update",
   add_publish |-> "add", run_publish |-> "run", quick_activate |-> "quick",
   apply_refresh |-> "apply", apply_publish |-> "apply", apply_restore |-> "apply"]
Unpublished ==
  {SavedBy[r.pc] : r \in {x \in Range(client) : x.pc \in DOMAIN SavedBy}}
    \cup (IF worker.pc = "publish" THEN {WorkerKind} ELSE {})

\* A file that waits for a restart is not in memory either.
Waits == file.endpoint # config.endpoint
NotInMemory == Unpublished \cup (IF Waits THEN {"restart"} ELSE {})

\* A client saves; whoever holds an older view is told, for the history.
Saves(c, kind, cfg, since, then) ==
  /\ file' = cfg
  /\ lost' = lost \cup ({kind} \X since)
  /\ client' = [x \in Clients |-> IF x = c THEN then ELSE Told(client[x], kind)]
  /\ worker' = Told(worker, kind)

\* A client publishes the configuration it saved.
Publishes(c, kind, cfg) ==
  /\ config' = cfg
  /\ lost' = lost \cup ({kind} \X client[c].since)
  /\ client' = [client EXCEPT ![c] = Idle]

Goes(c, step) == client' = [client EXCEPT ![c].pc = step]
Ends(c) == client' = [client EXCEPT ![c] = Idle]

-----------------------------------------------------------------------------
(* The policy, under the operation gate *)

\* Every manual domain gets an address of its own or the refresh fails; the
\* addresses given in keep stay.
Allocations(D, keep) ==
  {m \in Maps : /\ Mapped(m) = D /\ Injective(m)
                /\ \A d \in D \cap Mapped(keep) : m[d] = keep[d]}

CommitsAs(reported, D, keep) ==
  \E m \in Allocations(D, keep) :
    policy' = [exists |-> TRUE, maps |-> m, reported |-> reported]
Commits(D, keep) == CommitsAs(TRUE, D, keep)

\* A failed refresh undoes what it did, or fails after its commit
\* (reinstateApplicationFailureCooldown).
RefreshFails(D, keep) == UNCHANGED policy \/ CommitsAs(FALSE, D, keep)

\* A mutant of Settle (RemovedDomainsLeavePolicy): the Runner keeps its domains.
SettlePolicyOnly(s, D) == UNCHANGED runner

Settle(s, D) == runner' = [runner EXCEPT ![s].domains = D]

\* UpdateAccelerationDomainsDetailed fails, or finds another task.
DomainsFail(s, D) ==
  /\ IF policy.exists THEN RefreshFails(D, policy.maps) ELSE UNCHANGED policy
  /\ UNCHANGED runner

\* It returns and says whether the policy was refreshed.
DomainsSettle(s, D, refreshed) ==
  /\ Settle(s, D)
  /\ refreshed = (policy.exists /\ D # runner[s].domains)
  /\ IF refreshed THEN Commits(D, policy.maps) ELSE UNCHANGED policy

\* A full run of the Runner of session s: every manual domain is allocated
\* anew.  The report has what was committed.
Optimizes(c, s, then) ==
  \/ \E m \in Allocations(runner[s].domains, NoMaps) :
       /\ policy' = [exists |-> TRUE, maps |-> m, reported |-> TRUE]
       /\ client' = [client EXCEPT ![c].pc = then, ![c].report = m]
  \/ /\ RefreshFails(runner[s].domains, NoMaps)
     /\ Ends(c)

-----------------------------------------------------------------------------
(* config.update *)

\* desiredConfig: the file, with the settings of the Mihomo that was detected.
Desired == IF found THEN [file EXCEPT !.mihomo = config.mihomo] ELSE file

\* config.get
Fetches(c) ==
  /\ At(c, "idle") /\ Accept
  /\ client' = [client EXCEPT ![c] = [Idle EXCEPT !.pc = "edit", !.next = Desired]]
  /\ UNCHANGED <<file, config, runner, policy, worker, lost, unrestored>>

\* The client sends the whole configuration that it fetched, with other
\* settings or other domains; mappings of domains that are not listed are
\* pruned.
OtherSettings(copy) ==
  {[copy EXCEPT !.managed = m] : m \in BOOLEAN} \cup {[copy EXCEPT !.endpoint = e] : e \in 0..1}
OtherDomains(copy) ==
  {[copy EXCEPT !.domains = D, !.maps = Pruned(@, D)] : D \in SUBSET Domains}
Submitted(copy) == OtherSettings(copy) \cup OtherDomains(copy)

Hot(next) == next # config /\ next.endpoint = config.endpoint

\* Nobody looks whether the copy is still what is stored.
UpdateBegins(c) ==
  /\ At(c, "edit") /\ LockFree /\ NoOperation
  /\ \E next \in Submitted(client[c].next) :
       /\ Hot(next) => TaskFree
       /\ client' = [client EXCEPT ![c] =
            [Idle EXCEPT !.pc = "update_save", !.next = next, !.before = Desired,
                         !.hot = Hot(next), !.since = client[c].since \cup Unpublished]]
  /\ UNCHANGED <<file, config, runner, policy, worker, events, lost, unrestored>>

UpdateSaves(c) ==
  LET kind == IF client[c].next.endpoint = config.endpoint THEN "update" ELSE "restart" IN
  /\ At(c, "update_save")
  /\ Saves(c, kind, client[c].next, client[c].since,
           IF client[c].hot THEN [client[c] EXCEPT !.pc = "update_reload"] ELSE Idle)
  /\ UNCHANGED <<config, runner, policy, events, unrestored>>

UpdateSaveFails(c) ==
  /\ At(c, "update_save") /\ Ends(c)
  /\ UNCHANGED <<file, config, runner, policy, worker, events, lost, unrestored>>

\* Runtime.ReloadConfig and Runner.Reconfigure; accelerationMutex is taken
\* until the configuration is published.
UpdateReloads(c) ==
  LET next == client[c].next IN
  /\ At(c, "update_reload")
  /\ \/ /\ ApplyFree
        /\ runner' = [runner EXCEPT ![session] = SettingsOf(next)]
        /\ IF policy.exists THEN Commits(next.domains, policy.maps) ELSE UNCHANGED policy
        /\ Goes(c, "update_publish")
     \/ /\ IF policy.exists /\ ApplyFree
             THEN RefreshFails(next.domains, policy.maps) ELSE UNCHANGED policy
        /\ Goes(c, "update_restore")
        /\ UNCHANGED runner
  /\ UNCHANGED <<file, config, worker, events, lost, unrestored>>

UpdatePublishes(c) ==
  /\ At(c, "update_publish")
  /\ \E x \in Loaded(client[c].next) : Publishes(c, "update", x[1]) /\ found' = x[2]
  /\ UNCHANGED <<file, runner, policy, worker, events, unrestored>>

\* A mutant of UpdateRestores (MemoryIsCurrent): the file keeps the new
\* configuration.
UpdateRestoresNothing(c) ==
  /\ At(c, "update_restore") /\ Ends(c)
  /\ UNCHANGED <<file, config, runner, policy, worker, events, lost, unrestored>>

UpdateRestores(c) ==
  /\ At(c, "update_restore")
  /\ Saves(c, "update", client[c].before, client[c].since, Idle)
  /\ UNCHANGED <<config, runner, policy, events, unrestored>>

UpdateRestoreFails(c) ==
  /\ At(c, "update_restore") /\ Ends(c)
  /\ unrestored' = TRUE
  /\ UNCHANGED <<file, config, runner, policy, worker, events, lost>>

Update(c) ==
  /\ \/ /\ \/ Fetches(c) \/ UpdateBegins(c)
           \/ UpdateSaves(c) \/ UpdateSaveFails(c) \/ UpdateReloads(c)
           \/ UpdateRestores(c) \/ UpdateRestoreFails(c)
        /\ UNCHANGED found
     \/ UpdatePublishes(c)
  /\ UNCHANGED <<session, ops, plan>>

-----------------------------------------------------------------------------
(* Adding and removing manual domains *)

\* One record is enough for the workers: an operation that ended only has to
\* release the slot, and the next worker polls for it anyway.
Add(c, d) ==
  LET next == [config EXCEPT !.domains = @ \cup {d}, !.maps = Pruned(@, config.domains \cup {d})] IN
  /\ At(c, "idle") /\ LockFree /\ NoOperation /\ Accept
  /\ d \notin config.domains
  /\ \/ /\ Saves(c, "add", next, NotInMemory,
                 [Idle EXCEPT !.pc = "add_publish", !.next = next, !.before = config])
        /\ ops' = [ops EXCEPT ![d] = "pending"]
     \/ /\ ops' = [ops EXCEPT ![d] = "failed"]
        /\ UNCHANGED <<file, client, worker, lost>>
  /\ UNCHANGED <<found, config, runner, session, policy, plan, unrestored>>

AddPublishes(c) ==
  /\ At(c, "add_publish") /\ worker.pc = "idle"
  /\ Publishes(c, "add", client[c].next)
  /\ \E d \in Domains :
       /\ ops[d] = "pending"
       /\ worker' = [NoWorker EXCEPT !.pc = "poll", !.adds = TRUE, !.domain = d,
                                     !.before = client[c].before.domains]
  /\ UNCHANGED <<found, file, runner, session, policy, ops, plan, events,
                 unrestored>>

Remove(c, d) ==
  /\ At(c, "idle") /\ LockFree /\ NoOperation /\ Accept /\ worker.pc = "idle"
  /\ d \in config.domains
  /\ ops' = [ops EXCEPT ![d] = "removing"]
  /\ worker' = [NoWorker EXCEPT !.pc = "poll", !.domain = d, !.base = config,
                                !.before = config.domains, !.since = NotInMemory]
  /\ UNCHANGED <<found, file, config, runner, session, policy, client, plan,
                 lost, unrestored>>

-----------------------------------------------------------------------------
(* The worker: startManualDomainWorker, verifyAdded-, verifyRemovedManualDomain *)

WorkerAt(step) == worker.pc = step
Removes == ~worker.adds
Target == IF worker.adds THEN worker.base.domains ELSE worker.before \ {worker.domain}

\* The operation ends in a state; the slot is released after that.
Concludes(state) ==
  /\ ops' = [ops EXCEPT ![worker.domain] = state]
  /\ worker' = [NoWorker EXCEPT !.pc = "tail"]

\* An added domain is verified against the memory of this moment; a removed
\* one against that of the request.
WorkerTakes ==
  /\ WorkerAt("poll") /\ TaskFree
  /\ ops' = [ops EXCEPT ![worker.domain] = "verifying"]
  /\ worker' = [worker EXCEPT !.pc = "refresh", !.session = session,
                  !.base = IF worker.adds THEN config ELSE @,
                  !.since = IF worker.adds THEN NotInMemory ELSE @]
  /\ UNCHANGED <<file, config, runner, policy, client, lost>>

WorkerRefreshes ==
  /\ WorkerAt("refresh")
  /\ \E refreshed \in BOOLEAN :
       /\ DomainsSettle(worker.session, Target, refreshed)
       /\ worker' = [worker EXCEPT !.pc = "decide", !.refreshed = refreshed,
                                   !.guarded = policy.exists]
  /\ UNCHANGED <<file, config, ops, client, lost>>

WorkerRefreshFails ==
  /\ WorkerAt("refresh")
  /\ DomainsFail(worker.session, Target)
  /\ Concludes("failed")
  /\ UNCHANGED <<file, config, client, lost>>

WorkerMoves(step) ==
  /\ worker' = [worker EXCEPT !.pc = step]
  /\ UNCHANGED <<file, config, runner, policy, ops, client, lost>>

InPolicy(d) == policy.exists /\ policy.maps[d] # NoAddress

\* Without a policy the new domain waits for the next optimization.
WorkerDefers ==
  /\ WorkerAt("decide") /\ worker.adds /\ ~worker.refreshed /\ ~worker.guarded
  /\ Concludes("deferred")
  /\ UNCHANGED <<file, config, runner, policy, client, lost>>

\* The address and the evidence of the new domain are looked up now.
WorkerVerifies ==
  /\ WorkerAt("decide") /\ worker.adds /\ worker.refreshed
  /\ InPolicy(worker.domain)
  /\ worker' = [worker EXCEPT !.pc = "save",
                  !.base.maps[worker.domain] = policy.maps[worker.domain]]
  /\ UNCHANGED <<file, config, runner, policy, ops, client, lost>>

WorkerDoubts ==
  /\ WorkerAt("decide") /\ worker.adds
  /\ worker.refreshed \/ worker.guarded
  /\ WorkerMoves("rollback")

WorkerClears ==
  /\ WorkerAt("decide") /\ Removes
  /\ worker.guarded => worker.refreshed /\ ~InPolicy(worker.domain)
  /\ worker' = [worker EXCEPT !.pc = "save", !.base.domains = Target,
                              !.base.maps = Pruned(@, Target)]
  /\ UNCHANGED <<file, config, runner, policy, ops, client, lost>>

\* "manual domain %s is still present in the verified policy"
WorkerKeepsDomain ==
  /\ WorkerAt("decide") /\ Removes /\ worker.guarded
  /\ ~worker.refreshed \/ InPolicy(worker.domain)
  /\ WorkerMoves("rollback")

WorkerSaves ==
  /\ WorkerAt("save") /\ LockFree
  /\ file' = worker.base
  /\ lost' = lost \cup ({WorkerKind} \X worker.since)
  /\ client' = [c \in Clients |-> Told(client[c], WorkerKind)]
  /\ worker' = [worker EXCEPT !.pc = "publish"]
  /\ UNCHANGED <<config, runner, policy, ops>>

WorkerSaveFails ==
  /\ WorkerAt("save") /\ LockFree /\ WorkerMoves("rollback")

WorkerPublishes ==
  /\ WorkerAt("publish")
  /\ config' = worker.base
  /\ lost' = lost \cup ({WorkerKind} \X worker.since)
  /\ Concludes(IF worker.adds THEN "verified" ELSE "removed")
  /\ UNCHANGED <<file, runner, policy, client>>

\* The Runner is given its old domains back; how that ends is not looked at.
WorkerRollsBack ==
  /\ WorkerAt("rollback")
  /\ \/ DomainsFail(worker.session, worker.before)
     \/ \E refreshed \in BOOLEAN : DomainsSettle(worker.session, worker.before, refreshed)
  /\ Concludes("failed")
  /\ UNCHANGED <<file, config, client, lost>>

WorkerReleases ==
  /\ WorkerAt("tail")
  /\ worker' = NoWorker
  /\ UNCHANGED <<file, config, runner, policy, ops, client, lost>>

WorkerStep ==
  /\ \/ WorkerTakes \/ WorkerRefreshes \/ WorkerRefreshFails
     \/ WorkerDefers \/ WorkerVerifies \/ WorkerDoubts
     \/ WorkerClears \/ WorkerKeepsDomain
     \/ WorkerSaves \/ WorkerSaveFails \/ WorkerPublishes
     \/ WorkerRollsBack \/ WorkerReleases
  /\ UNCHANGED <<found, session, plan, events, unrestored>>

-----------------------------------------------------------------------------
(* optimizer.run *)

\* Without ApplyPolicy a run only holds the slot.
Benchmark(c) ==
  /\ \/ At(c, "idle") /\ TaskFree /\ Accept /\ Goes(c, "benchmark")
     \/ At(c, "benchmark") /\ Ends(c) /\ UNCHANGED events
  /\ UNCHANGED <<file, config, policy, worker, lost>>

RunBegins(c) ==
  /\ At(c, "idle") /\ LockFree /\ TaskFree /\ Accept
  /\ client' = [client EXCEPT ![c] = [Idle EXCEPT !.pc = "run_execute", !.session = session]]
  /\ UNCHANGED <<file, config, policy, worker, lost>>

\* The slot is released with the end of the run, configurationMutex is not.
RunExecutes(c) ==
  /\ At(c, "run_execute")
  /\ Optimizes(c, client[c].session, "run_return")
  /\ UNCHANGED <<file, config, worker, events, lost>>

\* verifiedManualMappings: the report covers every domain that is configured
\* now.
Ready(maps, D) == D \subseteq Mapped(maps)

\* persistVerifiedManualMappings
RunSaves(c) ==
  LET next == [config EXCEPT !.maps = Pruned(client[c].report, config.domains)] IN
  /\ At(c, "run_return")
  /\ Ready(client[c].report, config.domains) /\ next # config
  /\ Saves(c, "run", next, NotInMemory,
           [client[c] EXCEPT !.pc = "run_publish", !.report = next.maps])
  /\ UNCHANGED <<config, policy, events>>

\* Nothing to store, or the save fails, which is a warning of the run.
RunEnds(c) ==
  /\ At(c, "run_return") /\ Ends(c)
  /\ UNCHANGED <<file, config, policy, worker, events, lost>>

RunPublishes(c) ==
  /\ At(c, "run_publish")
  /\ Publishes(c, "run", [config EXCEPT !.maps = client[c].report])
  /\ UNCHANGED <<file, policy, worker, events>>

Run(c) ==
  /\ \/ Benchmark(c) \/ RunBegins(c) \/ RunExecutes(c)
     \/ RunSaves(c) \/ RunEnds(c) \/ RunPublishes(c)
  /\ UNCHANGED <<found, runner, session, ops, plan, unrestored>>

-----------------------------------------------------------------------------
(* Runtime.ApplyManualDomainMapping *)

\* The mappings of the policy, over them those of the configuration, over
\* them the one that is applied.
FullMappings(d, address) ==
  [e \in Domains |->
     IF e = d THEN address
     ELSE IF e \notin config.domains THEN NoAddress
     ELSE IF config.maps[e] # NoAddress THEN config.maps[e] ELSE policy.maps[e]]

ApplySaves(c, d, address) ==
  LET next == [config EXCEPT !.maps = FullMappings(d, address)] IN
  /\ At(c, "idle") /\ ApplyFree /\ Accept
  /\ d \in config.domains
  /\ Saves(c, "apply", next, NotInMemory,
           [Idle EXCEPT !.pc = "apply_refresh", !.next = next, !.before = config,
                        !.session = session])
  /\ UNCHANGED <<config, policy, unrestored>>

\* Applied: the whole policy is refreshed; without a policy, or with one that
\* an adapter that is gone applied, only the mappings are.
Applied(c) ==
  LET maps == client[c].next.maps
      D == runner[client[c].session].domains
  IN  \/ policy.exists /\ Commits(D, maps)
      \/ policy' = [exists |-> TRUE, reported |-> policy.reported,
                    maps |-> [e \in Domains |-> IF e \in D /\ maps[e] # NoAddress
                                                THEN maps[e] ELSE policy.maps[e]]]

ApplySucceeds(c) ==
  /\ At(c, "apply_refresh")
  /\ Applied(c)
  /\ Goes(c, "apply_publish")
  /\ UNCHANGED <<file, config, worker, events, lost, unrestored>>

\* Without an adapter for mappings the request succeeds all the same.
ApplyDefers(c) ==
  /\ At(c, "apply_refresh") /\ Goes(c, "apply_publish")
  /\ UNCHANGED <<file, config, policy, worker, events, lost, unrestored>>

ApplyFails(c) ==
  /\ At(c, "apply_refresh")
  /\ IF policy.exists
       THEN RefreshFails(runner[client[c].session].domains, client[c].next.maps)
       ELSE UNCHANGED policy
  /\ Goes(c, "apply_restore")
  /\ UNCHANGED <<file, config, worker, events, lost, unrestored>>

ApplyPublishes(c) ==
  /\ At(c, "apply_publish")
  /\ Publishes(c, "apply", client[c].next)
  /\ UNCHANGED <<file, policy, worker, events, unrestored>>

ApplyRestores(c) ==
  /\ At(c, "apply_restore")
  /\ \/ Saves(c, "apply", client[c].before, client[c].since, Idle) /\ UNCHANGED unrestored
     \/ Ends(c) /\ unrestored' = TRUE /\ UNCHANGED <<file, worker, lost>>
  /\ UNCHANGED <<config, policy, events>>

Apply(c) ==
  /\ \/ \E d \in Domains, address \in Addresses : ApplySaves(c, d, address)
     \/ ApplySucceeds(c) \/ ApplyDefers(c) \/ ApplyFails(c)
     \/ ApplyPublishes(c) \/ ApplyRestores(c)
  /\ UNCHANGED <<found, runner, session, ops, plan>>

-----------------------------------------------------------------------------
(* Quick start *)

\* planQuickStart: the plan can be run unless the file has changes that are
\* not loaded, and no other plan can.
QuickPlans(c) ==
  /\ At(c, "idle") /\ Accept
  /\ plan' = IF file = config THEN config ELSE NoConfig
  /\ UNCHANGED <<file, config, runner, session, policy, worker, client, lost>>

\* runQuickStart consumes the plan and refuses it when the file or the memory
\* changed.
QuickBegins(c) ==
  /\ At(c, "idle") /\ LockFree /\ Accept /\ session < MaxSessions
  /\ plan # NoConfig
  /\ plan' = NoConfig
  /\ client' = IF config = plan /\ file = config
                 THEN [client EXCEPT ![c] = [Idle EXCEPT !.pc = "quick_build"]] ELSE client
  /\ UNCHANGED <<file, config, runner, session, policy, worker, lost>>

\* BuildManagedSession; the new Runner runs if the slot is free.
QuickBuilds(c) ==
  LET next == [config EXCEPT !.managed = TRUE] IN
  /\ At(c, "quick_build")
  /\ \/ /\ TaskFree
        /\ runner' = [runner EXCEPT ![session + 1] = SettingsOf(next)]
        /\ client' = [client EXCEPT ![c] = [@ EXCEPT !.pc = "quick_execute", !.next = next,
                                       !.session = session + 1, !.since = NotInMemory]]
     \/ Ends(c) /\ UNCHANGED runner
  /\ UNCHANGED <<file, config, session, policy, worker, plan, events, lost>>

QuickExecutes(c) ==
  /\ At(c, "quick_execute")
  /\ Optimizes(c, client[c].session, "quick_return")
  /\ UNCHANGED <<file, config, runner, session, worker, plan, events, lost>>

\* apply_and_remember
QuickSaves(c) ==
  LET next == [client[c].next EXCEPT
                 !.maps = IF Ready(client[c].report, client[c].next.domains)
                            THEN Pruned(client[c].report, client[c].next.domains) ELSE @]
  IN  /\ At(c, "quick_return")
      /\ Saves(c, "quick", next, client[c].since,
               [client[c] EXCEPT !.pc = "quick_activate", !.next = next])
      /\ UNCHANGED <<config, runner, session, policy, plan, events>>

\* apply_once goes on as a run does: the mappings are stored if possible.
QuickOnce(c) ==
  /\ At(c, "quick_return") /\ client' = [client EXCEPT ![c] =
       [Idle EXCEPT !.pc = "run_return", !.report = client[c].report]]
  /\ UNCHANGED <<file, config, runner, session, policy, worker, plan, events,
                 lost>>

\* A mutant of QuickActivates (RunnerFollowsConfiguration): the configuration
\* is published without its Runner.
QuickActivatesConfig(c) ==
  /\ At(c, "quick_activate")
  /\ Publishes(c, "quick", client[c].next)
  /\ UNCHANGED <<file, runner, session, policy, worker, plan, events>>

\* ActivateSession
QuickActivates(c) ==
  /\ At(c, "quick_activate")
  /\ Publishes(c, "quick", client[c].next)
  /\ session' = client[c].session
  /\ UNCHANGED <<file, runner, policy, worker, plan, events>>

Quick(c) ==
  /\ \/ QuickPlans(c) \/ QuickBegins(c) \/ QuickBuilds(c) \/ QuickExecutes(c)
     \/ QuickSaves(c) \/ QuickOnce(c) \/ QuickActivates(c)
  /\ UNCHANGED <<found, ops, unrestored>>

-----------------------------------------------------------------------------
(* The daemon dies and is started again: it loads the file, and the clients *)
(* still have their copies.                                                *)

Restart ==
  /\ Accept
  /\ \E x \in Loaded(file) : config' = x[1] /\ found' = x[2]
  /\ runner' = [s \in 0..MaxSessions |-> SettingsOf(file)] /\ session' = 0
  /\ ops' = [d \in Domains |-> "none"] /\ worker' = NoWorker
  /\ client' = [c \in Clients |-> IF At(c, "edit") THEN client[c] ELSE Idle]
  /\ plan' = NoConfig /\ lost' = {} /\ unrestored' = FALSE
  /\ UNCHANGED <<file, policy>>

Request(c) ==
  \/ Update(c) \/ Run(c) \/ Apply(c) \/ Quick(c) \/ AddPublishes(c)
  \/ \E d \in Domains : Add(c, d) \/ Remove(c, d)

Next == Restart \/ WorkerStep \/ \E c \in Clients : Request(c)

Spec == Init /\ [][Next]_vars

-----------------------------------------------------------------------------
(* Properties *)

TypeOK ==
  /\ file \in Config /\ config \in Config /\ found \in BOOLEAN
  /\ runner \in [0..MaxSessions -> Settings] /\ session \in 0..MaxSessions
  /\ policy \in Policy
  /\ ops \in [Domains -> OpStates] /\ worker \in Worker
  /\ client \in [Clients -> Client] /\ plan \in Config \cup {NoConfig}
  /\ events \in 0..MaxEvents
  /\ lost \subseteq Kinds \X Kinds /\ unrestored \in BOOLEAN

\* What the locks do not keep apart: domain apply takes only
\* accelerationMutex; the copy of a config.update may be older than anything;
\* what waits for a restart is not in the memory that the others write back;
\* and a worker's view may be older than the save of a run or a quick start
\* that it lets pass.
KnownOverwrites ==
  {"apply", "update", "restart"} \X Kinds
    \cup Kinds \X {"apply", "restart"}
    \cup {"verify", "remove"} \X {"run", "quick"}

\* A request writes over the save of another one, which its own view did not
\* have, in these cases only: additions, removals, runs and quick starts lose no
\* change that config.update applied at once, and of each other's only what a
\* run or a quick start saved beside a worker.
OnlyKnownOverwrites == lost \subseteq KnownOverwrites

Quiet ==
  /\ worker.pc = "idle"
  /\ \A c \in Clients : client[c].pc \in {"idle", "edit", "benchmark"}

\* Between requests what config.get shows is what the daemon works with,
\* whichever step of a request failed: the file says what is in memory, but for
\* the Mihomo that was detected, unless it waits for a restart or could not be
\* restored, or a change was written over.
MemoryIsCurrent ==
  Quiet /\ lost = {} /\ ~unrestored /\ ~Waits => Desired = config

\* Between requests the Runner optimizes for the configuration in memory,
\* except for domains whose last operation failed.
RunnerFollowsConfiguration ==
  Quiet /\ lost = {} =>
    /\ runner[session].managed = config.managed
    /\ \A d \in Domains : (d \in config.domains) # (d \in runner[session].domains)
                            => ops[d] = "failed"

\* A domain that was reported as removed is not in the policy any more.
RemovedDomainsLeavePolicy ==
  Quiet /\ lost = {} /\ policy.reported =>
    \A d \in Domains \ config.domains : ops[d] = "removed" => ~InPolicy(d)

\* The slot, configurationMutex and the worker's polling never wait for each
\* other: while a request or an operation on a domain goes on, one of them has
\* a step to take.
NobodyIsStuck ==
  Quiet
  \/ ENABLED WorkerStep
  \/ \E c \in Clients : client[c].pc \notin {"idle", "edit"} /\ ENABLED Request(c)

================================================================================
