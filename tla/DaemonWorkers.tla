----------------------------- MODULE DaemonWorkers -----------------------------
(***************************************************************************)
(* The daemon as a process (daemon.Service): start-up with its two         *)
(* recoveries, the three workers that run beside the requests -- the       *)
(* scheduler, the observer of domains, the policy guard -- the broadcast   *)
(* of configuration changes that they listen to, and the ways it ends.     *)
(*                                                                         *)
(* ConfigChanges returns the channel that the next publication closes: a   *)
(* subscription is the number of publications it knows (sub), and is       *)
(* signalled when there are more (gen).  A worker reads the configuration  *)
(* and subscribes in two steps; the order of the two is the code's.        *)
(*                                                                         *)
(* What an operation does to routes and policy is the matter of            *)
(* RouteController and PolicyTransaction.  Here it holds the gate, and the *)
(* process that ends in its middle leaves journals to recover.             *)
(***************************************************************************)
EXTENDS Naturals, Sequences

CONSTANTS
  Configs,      \* the configurations that are published
  Interval,     \* Schedule.Interval, in seconds
  MaxChanges,   \* bound on publications of a configuration
  MaxNetworks,  \* bound on changes of the physical path
  MaxFailures   \* bound on the failures in a row that are counted

ASSUME ConfigurationType ==
  \A c \in Configs : {c.schedule, c.discover, c.onChange} \subseteq BOOLEAN
ASSUME IntervalPositive == Interval \in Nat \ {0}
ASSUME DaemonBounds == {MaxChanges, MaxNetworks, MaxFailures} \subseteq Nat

VARIABLES
  stage,     \* the stage of StartupStatus, or "stopping", "down"
  journals,  \* the journals that hold unfinished transactions
  gate,      \* who works on routes and policy
  published, \* the configurations published so far; the last is Runtime.Config
  network,   \* NetworkFingerprint of this moment
  sched, disc, guard, \* the local variables of the workers
  status     \* ScheduleStatus

vars == <<stage, journals, gate, published, network, sched, disc, guard, status>>
process == <<stage, journals>>
world == <<published, network>>

Journals == {"routes", "policy"}
config == published[Len(published)]
Operations == {"run", "repair", "discover", "request", "manual"}

initialRunDelay == 2
networkChangeDebounce == 10
minimumRetryDelay == 60

\* exponentialDelay: 60 seconds, doubled with every further failure, at most
\* the interval.
exponentialDelay[failures \in Nat] ==
  IF Interval <= minimumRetryDelay THEN Interval
  ELSE IF failures <= 1 THEN minimumRetryDelay
  ELSE IF 2 * exponentialDelay[failures - 1] > Interval THEN Interval
  ELSE 2 * exponentialDelay[failures - 1]

Delays == {0, initialRunDelay, networkChangeDebounce, Interval}
            \cup {exponentialDelay[n] : n \in 1..MaxFailures} \cup {minimumRetryDelay}

\* timer: the delay the optimization timer was reset to, 0 when it is off.
\* path: the fingerprint of the network, 0 when it is not known.
\* seen: the publication a worker read its configuration of.  sub: the one it
\* subscribed at.  late: history, whether a publication came in between.
Off == [pc |-> "off", seen |-> 1, sub |-> 1, late |-> FALSE]
SchedulerOff == [pc |-> "off", seen |-> 1, sub |-> 1, late |-> FALSE, timer |-> 0,
                 path |-> 0, failures |-> 0]
NoSchedule == [enabled |-> FALSE, next |-> 0]

Init ==
  /\ stage = "starting" /\ journals \in SUBSET Journals
  /\ gate = "free"
  /\ published \in {<<c>> : c \in Configs} /\ network = 1
  /\ sched = SchedulerOff /\ disc = Off /\ guard = Off
  /\ status = NoSchedule

-----------------------------------------------------------------------------
(* Start-up and the end of the process: Service.Run *)

WorkersStay == UNCHANGED <<sched, disc, guard>>

\* The IPC listener is there; its failure ends the process.
Listens ==
  /\ stage = "starting"
  /\ stage' = "routes"
  /\ WorkersStay /\ UNCHANGED <<journals, gate, world, status>>

RecoverRoutes ==
  /\ stage = "routes"
  /\ journals' = journals \ {"routes"} /\ stage' = "policy"
  /\ WorkersStay /\ UNCHANGED <<gate, world, status>>

\* A mutant of RecoverPolicy (OperationsStartClean): the service is ready when
\* the policy's recovery has failed.
RecoverPolicyOrNot ==
  /\ stage = "policy"
  /\ journals' \in {journals, journals \ {"policy"}} /\ stage' = "ready"
  /\ sched' = [SchedulerOff EXCEPT !.pc = "view"]
  /\ disc' = [Off EXCEPT !.pc = "view"] /\ guard' = [Off EXCEPT !.pc = "view"]
  /\ UNCHANGED <<gate, world, status>>

\* The workers are started once the service says that it is ready.
RecoverPolicy ==
  /\ stage = "policy"
  /\ journals' = journals \ {"policy"} /\ stage' = "ready"
  /\ sched' = [SchedulerOff EXCEPT !.pc = "view"]
  /\ disc' = [Off EXCEPT !.pc = "view"] /\ guard' = [Off EXCEPT !.pc = "view"]
  /\ UNCHANGED <<gate, world, status>>

\* The process is gone.  An operation in its middle leaves its journals.
Dies(torn) ==
  /\ stage' = "down" /\ gate' = "free"
  /\ journals' = journals \cup torn
  /\ sched' = SchedulerOff /\ disc' = Off /\ guard' = Off
  /\ status' = NoSchedule
  /\ UNCHANGED world

Torn == IF gate = "free" THEN {{}} ELSE SUBSET Journals

\* A crash; a recovery that fails; a worker that returns an error: Run returns
\* at once, and waits for nobody.
Fails ==
  /\ stage # "down"
  /\ \E torn \in Torn : Dies(torn)

\* The context is cancelled: requests and workers end what they are doing.
Stops ==
  /\ stage \in {"starting", "routes", "policy", "ready"}
  /\ stage' = "stopping"
  /\ WorkersStay /\ UNCHANGED <<journals, gate, world, status>>

\* Run waits for the server's requests and the three workers, not for the
\* goroutine of a manual domain.
Exits ==
  /\ stage = "stopping" /\ gate \in {"free", "manual"}
  /\ sched.pc = "off" /\ disc.pc = "off" /\ guard.pc = "off"
  /\ \E torn \in Torn : Dies(torn)

\* The service manager starts it again, with the configuration of the file.
Restarts ==
  /\ stage = "down" /\ stage' = "starting"
  /\ WorkersStay /\ UNCHANGED <<journals, gate, world, status>>

-----------------------------------------------------------------------------
(* The broadcast *)

Serving == stage = "ready"

\* Every writer publishes and closes the channel under one lock.
Publishes(next) ==
  /\ Len(published) <= MaxChanges
  /\ published' = Append(published, next)

Latest == Len(published)
View(w) == published[w.seen]
Notified(w) == Latest > w.sub

\* A worker reads the configuration first and subscribes afterwards.
Views(w) == [w EXCEPT !.pc = "subscribe", !.seen = Latest, !.late = FALSE]
Subscribes(w, then) ==
  [w EXCEPT !.pc = then, !.sub = Latest, !.late = Latest > w.seen]

-----------------------------------------------------------------------------
(* The scheduler: Service.schedule *)

\* The published promise and the timer, which are set together.
Promises(w, delay) ==
  /\ sched' = [w EXCEPT !.pc = "wait", !.timer = delay]
  /\ status' = [enabled |-> TRUE, next |-> delay]

Disables(w) ==
  /\ sched' = [w EXCEPT !.pc = "wait", !.timer = 0]
  /\ status' = [enabled |-> FALSE, next |-> 0]

SchedulerViews ==
  /\ sched.pc = "view" /\ sched' = Views(sched)
  /\ UNCHANGED <<status>>

SchedulerSubscribes ==
  /\ sched.pc = "subscribe" /\ sched' = Subscribes(sched, "start")
  /\ UNCHANGED status

\* The fingerprint may fail, which leaves it empty.
SchedulerStarts ==
  /\ sched.pc = "start"
  /\ \E path \in {0, network} :
       LET w == [sched EXCEPT !.path = path] IN
       IF View(w).schedule THEN Promises(w, initialRunDelay) ELSE Disables(w)

SchedulerNotified ==
  /\ sched.pc = "wait" /\ Notified(sched)
  /\ sched' = [sched EXCEPT !.pc = "view_again", !.sub = Latest]
  /\ UNCHANGED <<status>>

SchedulerViewsAgain ==
  /\ sched.pc = "view_again"
  /\ sched' = [sched EXCEPT !.pc = "restart", !.seen = Latest, !.late = FALSE]
  /\ UNCHANGED status

\* A mutant of SchedulerRestarts (SchedulePromise): a timer that is armed keeps
\* its time when the schedule is switched off.
SchedulerRestartsAlways ==
  /\ sched.pc = "restart"
  /\ \E path \in {0, network} :
       Promises([sched EXCEPT !.path = path, !.failures = 0], Interval)

SchedulerRestarts ==
  /\ sched.pc = "restart"
  /\ \E path \in {0, network} :
       LET w == [sched EXCEPT !.path = path, !.failures = 0] IN
       IF View(w).schedule THEN Promises(w, Interval) ELSE Disables(w)

\* The optimization timer.  A select that finds several channels ready takes
\* any of them.
SchedulerFires ==
  /\ sched.pc = "wait" /\ sched.timer # 0
  /\ sched' = [sched EXCEPT !.pc = "run", !.timer = 0]
  /\ status' = [enabled |-> TRUE, next |-> 0]

\* The network timer, which is armed whenever the optimization timer is.
SchedulerPolls ==
  /\ sched.pc = "wait" /\ sched.timer # 0
  /\ config.onChange /\ network # sched.path
  /\ IF sched.path # 0
       THEN Promises([sched EXCEPT !.path = network], networkChangeDebounce)
       ELSE sched' = [sched EXCEPT !.path = network] /\ UNCHANGED status

Scheduler ==
  /\ stage \in {"ready", "stopping"}
  /\ \/ SchedulerViews \/ SchedulerSubscribes \/ SchedulerStarts
     \/ SchedulerNotified \/ SchedulerViewsAgain \/ SchedulerRestarts
     \/ SchedulerFires \/ SchedulerPolls
  /\ UNCHANGED <<process, gate, world, disc, guard>>

\* runScheduled: it waits for maintenance that only holds the gate.  It gives
\* up when a task holds the cancel slot or a writer the configuration.
RunBegins ==
  /\ sched.pc = "run" /\ gate = "free" /\ Serving
  /\ gate' = "run" /\ sched' = [sched EXCEPT !.pc = "running"]
  /\ UNCHANGED <<world, status>>

\* A mutant of RunConflicts (RunsComeRound): the timer is not armed again.
RunConflictsForGood ==
  /\ sched.pc = "run" /\ gate \in {"request", "manual"}
  /\ sched' = [sched EXCEPT !.pc = "wait"]
  /\ UNCHANGED <<gate, world, status>>

RunConflicts ==
  /\ sched.pc = "run" /\ gate \in {"request", "manual"}
  /\ Promises(sched, minimumRetryDelay)
  /\ UNCHANGED <<gate, world>>

\* It succeeds, perhaps with a publication of its mappings, or is cancelled by
\* a request or the end of the service.
RunEnds ==
  /\ sched.pc = "running"
  /\ gate' = "free"
  /\ Promises([sched EXCEPT !.failures = 0], Interval)
  /\ UNCHANGED network
  /\ UNCHANGED published \/ Publishes(config)

RunFails ==
  /\ sched.pc = "running" /\ Serving
  /\ gate' = "free"
  /\ LET n == IF sched.failures < MaxFailures THEN sched.failures + 1 ELSE MaxFailures IN
       Promises([sched EXCEPT !.failures = n], exponentialDelay[n])
  /\ UNCHANGED world

ScheduledRun ==
  /\ stage \in {"ready", "stopping"}
  /\ RunBegins \/ RunConflicts \/ RunEnds \/ RunFails
  /\ UNCHANGED <<process, disc, guard>>

-----------------------------------------------------------------------------
(* The observer of domains: Service.observeDomains *)

DiscoveryViews ==
  /\ disc.pc = "view" /\ disc' = Views(disc)
  /\ UNCHANGED <<gate>>

DiscoverySubscribes ==
  /\ disc.pc = "subscribe" /\ disc' = Subscribes(disc, "wait")
  /\ UNCHANGED gate

DiscoveryNotified ==
  /\ disc.pc = "wait" /\ Notified(disc)
  /\ disc' = [disc EXCEPT !.pc = "view"]
  /\ UNCHANGED <<gate>>

\* The discovery of a round that changes the policy asks for the gate once;
\* whatever happens, it starts again from the configuration.
DiscoveryFires ==
  /\ disc.pc = "wait" /\ View(disc).discover
  /\ IF config.discover /\ gate = "free" /\ Serving
       THEN gate' = "discover" /\ disc' = [disc EXCEPT !.pc = "refresh"]
       ELSE UNCHANGED gate /\ disc' = [disc EXCEPT !.pc = "view"]

DiscoveryEnds ==
  /\ disc.pc = "refresh"
  /\ gate' = "free" /\ disc' = [disc EXCEPT !.pc = "view"]

Discovery ==
  /\ stage \in {"ready", "stopping"}
  /\ DiscoveryViews \/ DiscoverySubscribes \/ DiscoveryNotified
       \/ DiscoveryFires \/ DiscoveryEnds
  /\ UNCHANGED <<process, world, sched, guard, status>>

-----------------------------------------------------------------------------
(* The policy guard: Service.guardPolicies *)

\* RuleGuardStrategies: the strategies are built for this configuration.
GuardViews ==
  /\ guard.pc = "view" /\ guard' = Views(guard)
  /\ UNCHANGED <<gate>>

\* The supervisor runs before the subscription.
GuardSubscribes ==
  /\ guard.pc = "subscribe" /\ guard' = Subscribes(guard, "watch")
  /\ UNCHANGED gate

GuardRepairs ==
  /\ guard.pc = "watch" /\ gate = "free" /\ Serving
  /\ gate' = "repair" /\ guard' = [guard EXCEPT !.pc = "repair"]

GuardRepaired ==
  /\ guard.pc = "repair"
  /\ gate' = "free" /\ guard' = [guard EXCEPT !.pc = "watch"]

\* A mutant of GuardNotified (GuardFollowsConfiguration): the supervisor of the
\* old strategies goes on.
GuardGoesOn ==
  /\ guard.pc = "watch" /\ Notified(guard)
  /\ guard' = [guard EXCEPT !.sub = Latest]
  /\ UNCHANGED gate

\* The supervisor is cancelled and waited for.
GuardNotified ==
  /\ guard.pc = "watch" /\ Notified(guard)
  /\ guard' = [guard EXCEPT !.pc = "view"]
  /\ UNCHANGED <<gate>>

Guard ==
  /\ stage \in {"ready", "stopping"}
  /\ GuardViews \/ GuardSubscribes \/ GuardRepairs \/ GuardRepaired \/ GuardNotified
  /\ UNCHANGED <<process, world, sched, disc, status>>

\* A mutant of WorkersEnd (StopEnds): a worker that is about to subscribe, or
\* to run, is not told.
WaitingWorkersEnd ==
  /\ stage = "stopping"
  /\ \/ /\ sched.pc = "wait" /\ sched' = SchedulerOff
        /\ status' = NoSchedule /\ UNCHANGED <<disc, guard>>
     \/ /\ disc.pc = "wait" /\ disc' = Off /\ UNCHANGED <<sched, guard, status>>
     \/ /\ guard.pc = "watch" /\ guard' = Off /\ UNCHANGED <<sched, disc, status>>
  /\ UNCHANGED <<process, gate, world>>

\* A worker that waits sees that the context is cancelled; one that was about
\* to run gets no gate any more.
WorkersEnd ==
  /\ stage = "stopping"
  /\ \/ /\ sched.pc \notin {"off", "running"} /\ sched' = SchedulerOff
        /\ status' = NoSchedule /\ UNCHANGED <<disc, guard>>
     \/ /\ disc.pc \notin {"off", "refresh"} /\ disc' = Off
        /\ UNCHANGED <<sched, guard, status>>
     \/ /\ guard.pc \notin {"off", "repair"} /\ guard' = Off
        /\ UNCHANGED <<sched, disc, status>>
  /\ UNCHANGED <<process, gate, world>>

-----------------------------------------------------------------------------
(* Requests, and the network *)

\* rejectDuringStartup.  A task holds the cancel slot, a refresh does not; the
\* goroutine of a manual domain has a context of its own.
Requested(op) ==
  /\ Serving /\ gate = "free"
  /\ gate' = op
  /\ WorkersStay /\ UNCHANGED <<process, world, status>>

RequestEnds(op) ==
  /\ gate = op /\ gate' = "free"
  /\ WorkersStay /\ UNCHANGED <<process, world, status>>

Request == \E op \in {"request", "manual"} : Requested(op) \/ RequestEnds(op)

Reconfigures ==
  /\ Serving
  /\ \E next \in Configs : Publishes(next)
  /\ WorkersStay /\ UNCHANGED <<process, gate, network, status>>

NetworkChanges ==
  /\ network < 1 + MaxNetworks /\ network' = network + 1
  /\ WorkersStay /\ UNCHANGED <<process, gate, published, status>>

Next ==
  \/ Listens \/ RecoverRoutes \/ RecoverPolicy \/ Restarts
  \/ Fails \/ Stops \/ Exits \/ WorkersEnd
  \/ Scheduler \/ ScheduledRun \/ Discovery \/ Guard
  \/ Request \/ Reconfigures \/ NetworkChanges

\* The service manager restarts the process; the goroutines and the timers go
\* on; an operation ends, since its calls have time-outs.  Nobody has to stop
\* the service, to send a request or to change the network.
Fairness ==
  /\ WF_vars(Listens \/ RecoverRoutes \/ RecoverPolicy \/ Restarts)
  /\ WF_vars(Scheduler) /\ WF_vars(ScheduledRun)
  /\ WF_vars(Exits) /\ WF_vars(WorkersEnd)
  /\ WF_vars(\E op \in {"request", "manual"} : RequestEnds(op))
  /\ WF_vars(DiscoveryEnds /\ Discovery) /\ WF_vars(GuardRepaired /\ Guard)

Spec == Init /\ [][Next]_vars /\ Fairness

-----------------------------------------------------------------------------
(* Properties *)

\* The types of the variables: in particular the timer is only ever reset to
\* one of the delays of the code.
TypeOK ==
  /\ stage \in {"starting", "routes", "policy", "ready", "stopping", "down"}
  /\ journals \subseteq Journals /\ gate \in {"free"} \cup Operations
  /\ published \in Seq(Configs) /\ Latest \in 1..(1 + MaxChanges)
  /\ network \in 1..(1 + MaxNetworks)
  /\ sched.timer \in Delays /\ sched.failures \in 0..MaxFailures
  /\ sched.path \in 0..network /\ status.next \in Delays
  /\ \A w \in {<<sched.seen, sched.sub>>, <<disc.seen, disc.sub>>, <<guard.seen, guard.sub>>} :
       w[1] \in 1..Latest /\ w[2] \in 1..Latest

\* No operation works on routes or policy while transactions of an earlier
\* process are unfinished: start-up recovers before it starts a worker and
\* before it lets a request in, whatever it died of before.
OperationsStartClean == gate # "free" => journals = {}

\* The guard never goes on with the strategies of another configuration than
\* the published one, except for the publications it has yet to be told of and
\* the one it missed between reading and subscribing.
GuardFollowsConfiguration ==
  guard.pc \in {"watch", "repair"} /\ ~Notified(guard) /\ ~guard.late =>
    View(guard) = config

\* What system.status promises is what the timer will do, and no run is armed
\* under a published configuration that switches the schedule off.
SchedulePromise ==
  sched.pc = "wait" /\ ~Notified(sched) /\ ~sched.late =>
    /\ status.enabled = config.schedule /\ status.next = sched.timer
    /\ status.enabled <=> sched.timer # 0

\* As long as the schedule is on the next attempt at a run comes, whatever
\* runs, conflicts, failures, publications and network changes came before.
RunsComeRound ==
  (stage = "ready" /\ config.schedule /\ sched.pc = "wait")
    ~> (sched.pc = "run" \/ ~config.schedule \/ stage # "ready" \/ sched.late)

\* A service that is told to stop does so: nobody it waits for waits for it.
StopEnds == stage = "stopping" ~> stage = "down"
==============================================================================
