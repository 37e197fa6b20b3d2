------------------------- MODULE DaemonWorkersProofs -------------------------
(***************************************************************************)
(* Safety of the daemon's process and its workers, for every set of        *)
(* configurations, every interval and every number of publications,        *)
(* network changes and failures.                                           *)
(*                                                                         *)
(* None of the three invariants is inductive.  IInv adds                   *)
(*   - CleanStart: which stages have recovered which journal, and that     *)
(*     only a service that was ready may have somebody in the gate;        *)
(*   - GuardSeen, SchedulerSeen: unless a publication came in between, a   *)
(*     worker has read what it subscribed at, or something newer;          *)
(*   - TimerPromised: status, timer and the configuration that the         *)
(*     scheduler has read agree, and a run is only begun under a           *)
(*     configuration that schedules it.                                    *)
(*                                                                         *)
(* That the timer of a promised run is set needs the values of a recursive *)
(* function (DelayBounds), and these an induction on the naturals, which   *)
(* NaturalInduction derives for sets.                                      *)
(***************************************************************************)
EXTENDS DaemonWorkers, FiniteSetTheorems, TLAPS

SchedulerSteps == {"off", "view", "subscribe", "start", "wait", "view_again", "restart",
                   "run", "running"}
SchedulerType ==
  [pc : SchedulerSteps, seen : Nat, sub : Nat, late : BOOLEAN, timer : Delays, path : Nat,
   failures : 0..MaxFailures]
WorkerSteps == {"off", "view", "subscribe", "wait", "refresh", "watch", "repair"}
WorkerType ==
  [pc : WorkerSteps, seen : Nat, sub : Nat, late : BOOLEAN]
StatusType == [enabled : BOOLEAN, next : Delays]

\* A worker knows publications that have been made.
Known(w) == w.seen \in 1..Latest /\ w.sub \in 1..Latest

Types ==
  /\ stage \in {"starting", "routes", "policy", "ready", "stopping", "down"}
  /\ journals \subseteq Journals /\ gate \in {"free"} \cup Operations
  /\ published \in Seq(Configs) /\ Latest \in 1..(1 + MaxChanges)
  /\ network \in 1..(1 + MaxNetworks)
  /\ sched \in SchedulerType /\ sched.path \in 0..network /\ status \in StatusType
  /\ disc \in WorkerType /\ guard \in WorkerType
  /\ Known(sched) /\ Known(disc) /\ Known(guard)

CleanStart ==
  /\ gate # "free" => stage \in {"ready", "stopping"} /\ journals = {}
  /\ stage = "policy" => "routes" \notin journals
  /\ stage = "ready" => journals = {}

GuardSeen ==
  guard.pc \in {"watch", "repair"} /\ ~guard.late => guard.seen = guard.sub

SchedulerSeen ==
  sched.pc \in {"start", "wait", "restart", "run", "running"} /\ ~sched.late =>
    sched.sub <= sched.seen

TimerPromised ==
  /\ sched.pc = "wait" =>
       /\ status.next = sched.timer /\ status.enabled = View(sched).schedule
       /\ status.enabled <=> sched.timer # 0
  /\ sched.pc \in {"run", "running"} => View(sched).schedule

IInv == Types /\ CleanStart /\ GuardSeen /\ SchedulerSeen /\ TimerPromised

-----------------------------------------------------------------------------
(* Induction on the naturals, and the delays *)

\* Induction on naturals for a set.
LEMMA NaturalInduction ==
  ASSUME NEW S, 0 \in S, \A n \in Nat : n \in S => n + 1 \in S
  PROVE  Nat \subseteq S
<1> SUFFICES ASSUME NEW m \in Nat, m \notin S PROVE FALSE
  OBVIOUS
<1> DEFINE T == {1..k : k \in {k \in 0..m : k \notin S}}
<1>1. T \subseteq FiniteSubsetsOf(1..m)
  <2> SUFFICES ASSUME NEW k \in 0..m PROVE 1..k \in FiniteSubsetsOf(1..m)
    OBVIOUS
  <2>1. IsFiniteSet(1..k)
    BY FS_Interval
  <2> QED
    BY <2>1 DEF FiniteSubsetsOf
<1>2. 1..m \in T
  OBVIOUS
<1>3. PICK x \in T : \A y \in T : ~(<<y, x>> \in StrictSubsetOrdering(1..m))
  <2> HIDE DEF T
  <2>1. T # {}
    BY <1>2
  <2> QED
    BY <1>1, <2>1, FS_StrictSubsetOrderingWellFounded, WFMin
<1>4. PICK k \in 0..m : k \notin S /\ x = 1..k
  OBVIOUS
<1>5. k # 0 /\ k - 1 \in 0..m /\ k - 1 \notin S
  <2>1. k # 0
    BY <1>4
  <2>2. k - 1 \in Nat /\ (k - 1) + 1 = k
    BY <2>1
  <2> QED
    BY <2>1, <2>2, <1>4
<1>6. 1..(k-1) \in T
  BY <1>5
<1>7. <<1..(k-1), 1..k>> \in StrictSubsetOrdering(1..m)
  <2>1. 1..(k-1) \subseteq 1..k /\ 1..k \subseteq 1..m
    OBVIOUS
  <2>2. k \in 1..k /\ k \notin 1..(k-1)
    BY <1>5
  <2> QED
    BY <2>1, <2>2 DEF StrictSubsetOrdering
<1> QED
  BY <1>3, <1>4, <1>6, <1>7

Iterates(f, V, first, G) ==
  f \in [Nat -> V] /\ f[0] = first /\ \A n \in Nat : f[n + 1] = G[f[n]]

\* What is iterated from a first value is a function on the naturals.
LEMMA Iteration ==
  ASSUME NEW V, NEW first \in V, NEW G \in [V -> V]
  PROVE  \E f : Iterates(f, V, first, G)
<1> DEFINE Prefix(n) == {g \in [0..n -> V] :
                           g[0] = first /\ \A k \in 0..n : k < n => g[k + 1] = G[g[k]]}
<1>1. \A n \in Nat : Prefix(n) # {}
  <2> DEFINE S == {n \in Nat : Prefix(n) # {}}
  <2>1. 0 \in S
    <3>1. [k \in 0..0 |-> first] \in Prefix(0)
      OBVIOUS
    <3> QED
      BY <3>1
  <2>2. ASSUME NEW n \in Nat, n \in S PROVE n + 1 \in S
    <3>1. PICK g \in [0..n -> V] :
             g[0] = first /\ \A k \in 0..n : k < n => g[k + 1] = G[g[k]]
      BY <2>2
    <3> DEFINE h == [k \in 0..(n + 1) |-> IF k = n + 1 THEN G[g[n]] ELSE g[k]]
    <3>2. h \in [0..(n + 1) -> V]
      BY <3>1
    <3>3. h[0] = first
      BY <3>1
    <3>4. \A k \in 0..(n + 1) : k < n + 1 => h[k + 1] = G[h[k]]
      BY <3>1
    <3>5. h \in Prefix(n + 1)
      BY <3>2, <3>3, <3>4
    <3> QED
      BY <3>5
  <2> HIDE DEF S
  <2>3. Nat \subseteq S
    BY <2>1, <2>2, NaturalInduction
  <2> QED
    BY <2>3 DEF S
<1> DEFINE Agree(k) == \A m, n \in Nat : \A g \in Prefix(m), h \in Prefix(n) :
                          k <= m /\ k <= n => g[k] = h[k]
<1>2. \A k \in Nat : Agree(k)
  <2> DEFINE S == {k \in Nat : Agree(k)}
  <2>1. 0 \in S
    OBVIOUS
  <2>2. ASSUME NEW k \in Nat, Agree(k) PROVE Agree(k + 1)
    <3> SUFFICES ASSUME NEW m \in Nat, NEW n \in Nat, NEW g \in Prefix(m), NEW h \in Prefix(n),
                        k + 1 <= m, k + 1 <= n
                 PROVE  g[k + 1] = h[k + 1]
      OBVIOUS
    <3>1. k \in 0..m /\ k < m /\ k \in 0..n /\ k < n /\ k <= m /\ k <= n
      OBVIOUS
    <3>2. g[k] = h[k]
      BY <2>2, <3>1
    <3> QED
      BY <3>1, <3>2
  <2> HIDE DEF Agree
  <2>3. \A k \in Nat : k \in S => k + 1 \in S
    BY <2>2
  <2> HIDE DEF S
  <2>4. Nat \subseteq S
    BY <2>1, <2>3, NaturalInduction
  <2> QED
    BY <2>4 DEF S
<1> DEFINE p == [n \in Nat |-> CHOOSE g \in Prefix(n) : TRUE]
           f == [n \in Nat |-> p[n][n]]
<1>3. \A n \in Nat : p[n] \in Prefix(n)
  BY <1>1
<1> HIDE DEF p
<1>4. f \in [Nat -> V]
  BY <1>3
<1>5. f[0] = first
  BY <1>3
<1>6. ASSUME NEW n \in Nat PROVE f[n + 1] = G[f[n]]
  <2>1. p[n + 1] \in Prefix(n + 1) /\ p[n] \in Prefix(n)
    BY <1>3
  <2>2. p[n + 1][n] = p[n][n]
    BY <2>1, <1>2, n <= n, n <= n + 1, n + 1 \in Nat
  <2>3. p[n + 1][n + 1] = G[p[n + 1][n]]
    BY <2>1
  <2> QED
    BY <2>2, <2>3
<1>7. Iterates(f, V, first, G)
  BY <1>4, <1>5, <1>6 DEF Iterates
<1> QED
  BY <1>7

\* The recursive delay satisfies its definition.
LEMMA DelayDefinition ==
  \A n \in Nat : exponentialDelay[n] =
    IF Interval <= minimumRetryDelay THEN Interval
    ELSE IF n <= 1 THEN minimumRetryDelay
    ELSE IF 2 * exponentialDelay[n - 1] > Interval THEN Interval
    ELSE 2 * exponentialDelay[n - 1]
<1> DEFINE Body(f, n) ==
             IF Interval <= minimumRetryDelay THEN Interval
             ELSE IF n <= 1 THEN minimumRetryDelay
             ELSE IF 2 * f[n - 1] > Interval THEN Interval
             ELSE 2 * f[n - 1]
           G == [d \in Nat |-> IF 2 * d > Interval THEN Interval ELSE 2 * d]
<1> USE IntervalPositive
<1>1. G \in [Nat -> Nat] /\ minimumRetryDelay \in Nat
  BY DEF minimumRetryDelay
<1>2. PICK g \in [Nat -> Nat] : g[0] = minimumRetryDelay /\ \A n \in Nat : g[n + 1] = G[g[n]]
  <2> HIDE DEF G
  <2>1. \E g : Iterates(g, Nat, minimumRetryDelay, G)
    BY <1>1, Iteration
  <2> QED
    BY <2>1 DEF Iterates
<1> DEFINE f == [n \in Nat |-> IF Interval <= minimumRetryDelay THEN Interval
                               ELSE IF n = 0 THEN minimumRetryDelay ELSE g[n - 1]]
<1>3. ASSUME NEW n \in Nat PROVE f[n] = Body(f, n)
  <2>1. CASE Interval <= minimumRetryDelay \/ n <= 1
    BY <2>1, <1>2
  <2>2. CASE ~(Interval <= minimumRetryDelay) /\ n > 1
    <3>1. n - 2 \in Nat /\ (n - 2) + 1 = n - 1
      BY <2>2
    <3>2. g[n - 1] = G[g[n - 2]]
      BY <3>1, <1>2
    <3>3. f[n - 1] = g[n - 2] /\ f[n] = g[n - 1] /\ g[n - 2] \in Nat
      BY <2>2, <1>2
    <3> QED
      BY <2>2, <3>2, <3>3
  <2> QED
    BY <2>1, <2>2, <1>1
<1>4. f = [n \in Nat |-> Body(f, n)]
  BY <1>3
<1> HIDE DEF f
<1>5. \E h : h = [n \in Nat |-> Body(h, n)]
  BY <1>4
<1>6. exponentialDelay = CHOOSE h : h = [n \in Nat |-> Body(h, n)]
  BY DEF exponentialDelay
<1>7. exponentialDelay = [n \in Nat |-> Body(exponentialDelay, n)]
  BY <1>5, <1>6
<1> QED
  BY <1>7

\* The delay after failures is positive and at most the interval.
LEMMA DelayBounds == \A n \in Nat : exponentialDelay[n] \in 1..Interval
<1> DEFINE S == {n \in Nat : exponentialDelay[n] \in 1..Interval}
<1> USE IntervalPositive DEF minimumRetryDelay
<1>1. 0 \in S
  BY DelayDefinition
<1>2. ASSUME NEW n \in Nat, n \in S PROVE n + 1 \in S
  <2>1. (n + 1) - 1 = n /\ n + 1 \in Nat
    OBVIOUS
  <2> QED
    BY <1>2, <2>1, DelayDefinition
<1> HIDE DEF S
<1>3. Nat \subseteq S
  BY <1>1, <1>2, NaturalInduction
<1> QED
  BY <1>3 DEF S

\* Each timer that the scheduler sets is a delay of the type, and runs.
LEMMA DelaysPositive ==
  /\ \A n \in 1..MaxFailures : exponentialDelay[n] \in Delays /\ exponentialDelay[n] # 0
  /\ {initialRunDelay, networkChangeDebounce, Interval, minimumRetryDelay} \subseteq Delays \ {0}
  /\ 0 \in Delays
<1>1. \A n \in 1..MaxFailures : n \in Nat
  BY DaemonBounds
<1> QED
  BY <1>1, DelayBounds, IntervalPositive
  DEF Delays, initialRunDelay, networkChangeDebounce, minimumRetryDelay

-----------------------------------------------------------------------------
(* The records of the workers, one field at a time *)

LEMMA WorkerFields ==
  ASSUME NEW w \in WorkerType
  PROVE  /\ \A x \in WorkerSteps : [w EXCEPT !.pc = x] \in WorkerType
         /\ \A x \in Nat : [w EXCEPT !.seen = x] \in WorkerType
         /\ \A x \in Nat : [w EXCEPT !.sub = x] \in WorkerType
         /\ \A x \in BOOLEAN : [w EXCEPT !.late = x] \in WorkerType
  BY SMT DEF WorkerType

LEMMA SchedulerFields ==
  ASSUME NEW w \in SchedulerType
  PROVE  /\ \A x \in SchedulerSteps : [w EXCEPT !.pc = x] \in SchedulerType
         /\ \A x \in Nat : [w EXCEPT !.seen = x] \in SchedulerType
         /\ \A x \in Nat : [w EXCEPT !.sub = x] \in SchedulerType
         /\ \A x \in BOOLEAN : [w EXCEPT !.late = x] \in SchedulerType
         /\ \A x \in Delays : [w EXCEPT !.timer = x] \in SchedulerType
         /\ \A x \in Nat : [w EXCEPT !.path = x] \in SchedulerType
         /\ \A x \in 0..MaxFailures : [w EXCEPT !.failures = x] \in SchedulerType
  BY SMT DEF SchedulerType

LEMMA OffType ==
  /\ Off \in WorkerType /\ [Off EXCEPT !.pc = "view"] \in WorkerType
  /\ Off.pc = "off" /\ Off.seen = 1 /\ Off.sub = 1
  /\ [Off EXCEPT !.pc = "view"].pc = "view"
  /\ [Off EXCEPT !.pc = "view"].seen = 1 /\ [Off EXCEPT !.pc = "view"].sub = 1
<1>1. Off \in WorkerType /\ Off.pc = "off" /\ Off.seen = 1 /\ Off.sub = 1
  BY SMT DEF Off, WorkerType, WorkerSteps
<1>2. [Off EXCEPT !.pc = "view"] \in WorkerType
  BY <1>1, WorkerFields DEF WorkerSteps
<1>3. /\ [Off EXCEPT !.pc = "view"].pc = "view"
      /\ [Off EXCEPT !.pc = "view"].seen = 1 /\ [Off EXCEPT !.pc = "view"].sub = 1
  BY <1>1, SMT DEF WorkerType
<1> QED
  BY <1>1, <1>2, <1>3

LEMMA SchedulerOffType ==
  ASSUME NEW w, w = SchedulerOff \/ w = [SchedulerOff EXCEPT !.pc = "view"]
  PROVE  /\ w \in SchedulerType /\ w.pc \in {"off", "view"}
         /\ w.seen = 1 /\ w.sub = 1 /\ w.path = 0 /\ w.timer = 0 /\ w.failures = 0
<1> DEFINE v == [SchedulerOff EXCEPT !.pc = "view"]
<1>1. /\ SchedulerOff \in SchedulerType /\ SchedulerOff.pc = "off"
      /\ SchedulerOff.seen = 1 /\ SchedulerOff.sub = 1 /\ SchedulerOff.path = 0
      /\ SchedulerOff.timer = 0 /\ SchedulerOff.failures = 0
  BY DelaysPositive, DaemonBounds, SMT DEF SchedulerOff, SchedulerType, SchedulerSteps
<1>2. v \in SchedulerType
  BY <1>1, SchedulerFields DEF SchedulerSteps
<1>3. /\ v.pc = "view" /\ v.seen = 1 /\ v.sub = 1 /\ v.path = 0 /\ v.timer = 0
      /\ v.failures = 0
  BY <1>1, SMT DEF SchedulerType
<1> QED
  BY <1>1, <1>2, <1>3

LEMMA ViewsType ==
  ASSUME Latest \in Nat
  PROVE  /\ \A w \in WorkerType :
              /\ Views(w) \in WorkerType /\ Views(w).pc = "subscribe"
              /\ Views(w).seen = Latest /\ Views(w).sub = w.sub
         /\ \A w \in SchedulerType :
              /\ Views(w) \in SchedulerType /\ Views(w).pc = "subscribe"
              /\ Views(w).seen = Latest /\ Views(w).sub = w.sub /\ Views(w).path = w.path
              /\ Views(w).timer = w.timer /\ Views(w).failures = w.failures
<1>1. ASSUME NEW w \in WorkerType
      PROVE  /\ Views(w) \in WorkerType /\ Views(w).pc = "subscribe"
             /\ Views(w).seen = Latest /\ Views(w).sub = w.sub
  <2> DEFINE w1 == [w EXCEPT !.pc = "subscribe"]
             w2 == [w1 EXCEPT !.seen = Latest]
             w3 == [w2 EXCEPT !.late = FALSE]
  <2>1. Views(w) = w3
    BY DEF Views
  <2>2. w1 \in WorkerType
    BY WorkerFields DEF WorkerSteps
  <2>3. w2 \in WorkerType
    BY <2>2, WorkerFields
  <2>4. w3 \in WorkerType
    BY <2>3, WorkerFields
  <2>5. w3.pc = "subscribe" /\ w3.seen = Latest /\ w3.sub = w.sub
    BY SMT DEF WorkerType
  <2> QED
    BY <2>1, <2>4, <2>5
<1>2. ASSUME NEW w \in SchedulerType
      PROVE  /\ Views(w) \in SchedulerType /\ Views(w).pc = "subscribe"
             /\ Views(w).seen = Latest /\ Views(w).sub = w.sub /\ Views(w).path = w.path
             /\ Views(w).timer = w.timer /\ Views(w).failures = w.failures
  <2> DEFINE w1 == [w EXCEPT !.pc = "subscribe"]
             w2 == [w1 EXCEPT !.seen = Latest]
             w3 == [w2 EXCEPT !.late = FALSE]
  <2>1. Views(w) = w3
    BY DEF Views
  <2>2. w1 \in SchedulerType
    BY SchedulerFields DEF SchedulerSteps
  <2>3. w2 \in SchedulerType
    BY <2>2, SchedulerFields
  <2>4. w3 \in SchedulerType
    BY <2>3, SchedulerFields
  <2>5. /\ w3.pc = "subscribe" /\ w3.seen = Latest /\ w3.sub = w.sub /\ w3.path = w.path
        /\ w3.timer = w.timer /\ w3.failures = w.failures
    BY SMT DEF SchedulerType
  <2> QED
    BY <2>1, <2>4, <2>5
<1> QED
  BY <1>1, <1>2

LEMMA SubscribesType ==
  ASSUME Latest \in Nat
  PROVE  /\ \A w \in WorkerType, then \in WorkerSteps :
              /\ Subscribes(w, then) \in WorkerType /\ Subscribes(w, then).pc = then
              /\ Subscribes(w, then).seen = w.seen /\ Subscribes(w, then).sub = Latest
              /\ Subscribes(w, then).late <=> Latest > w.seen
         /\ \A w \in SchedulerType, then \in SchedulerSteps :
              /\ Subscribes(w, then) \in SchedulerType /\ Subscribes(w, then).pc = then
              /\ Subscribes(w, then).seen = w.seen /\ Subscribes(w, then).sub = Latest
              /\ Subscribes(w, then).late <=> Latest > w.seen
              /\ Subscribes(w, then).path = w.path
              /\ Subscribes(w, then).timer = w.timer
              /\ Subscribes(w, then).failures = w.failures
<1>1. ASSUME NEW w \in WorkerType, NEW then \in WorkerSteps
      PROVE  /\ Subscribes(w, then) \in WorkerType /\ Subscribes(w, then).pc = then
             /\ Subscribes(w, then).seen = w.seen /\ Subscribes(w, then).sub = Latest
             /\ Subscribes(w, then).late <=> Latest > w.seen
  <2> DEFINE b == Latest > w.seen
             w1 == [w EXCEPT !.pc = then]
             w2 == [w1 EXCEPT !.sub = Latest]
             w3 == [w2 EXCEPT !.late = b]
  <2>1. Subscribes(w, then) = w3
    BY DEF Subscribes
  <2>2. w1 \in WorkerType
    BY WorkerFields
  <2>3. w2 \in WorkerType
    BY <2>2, WorkerFields
  <2>4. b \in BOOLEAN /\ (b <=> Latest > w.seen)
    <3>1. w.seen \in Nat
      BY DEF WorkerType
    <3> QED
      BY <3>1, SMT
  <2> HIDE DEF b
  <2>5. w3 \in WorkerType
    BY <2>3, <2>4, WorkerFields
  <2>6. w3.pc = then /\ w3.seen = w.seen /\ w3.sub = Latest /\ (w3.late <=> b)
    BY <2>4, SMT DEF WorkerType
  <2> QED
    BY <2>1, <2>4, <2>5, <2>6
<1>2. ASSUME NEW w \in SchedulerType, NEW then \in SchedulerSteps
      PROVE  /\ Subscribes(w, then) \in SchedulerType /\ Subscribes(w, then).pc = then
             /\ Subscribes(w, then).seen = w.seen /\ Subscribes(w, then).sub = Latest
             /\ Subscribes(w, then).late <=> Latest > w.seen
             /\ Subscribes(w, then).path = w.path
             /\ Subscribes(w, then).timer = w.timer
             /\ Subscribes(w, then).failures = w.failures
  <2> DEFINE b == Latest > w.seen
             w1 == [w EXCEPT !.pc = then]
             w2 == [w1 EXCEPT !.sub = Latest]
             w3 == [w2 EXCEPT !.late = b]
  <2>1. Subscribes(w, then) = w3
    BY DEF Subscribes
  <2>2. w1 \in SchedulerType
    BY SchedulerFields
  <2>3. w2 \in SchedulerType
    BY <2>2, SchedulerFields
  <2>4. b \in BOOLEAN /\ (b <=> Latest > w.seen)
    <3>1. w.seen \in Nat
      BY DEF SchedulerType
    <3> QED
      BY <3>1, SMT
  <2> HIDE DEF b
  <2>5. w3 \in SchedulerType
    BY <2>3, <2>4, SchedulerFields
  <2>6. /\ w3.pc = then /\ w3.seen = w.seen /\ w3.sub = Latest /\ (w3.late <=> b)
        /\ w3.path = w.path /\ w3.timer = w.timer /\ w3.failures = w.failures
    BY <2>4, SMT DEF SchedulerType
  <2> QED
    BY <2>1, <2>4, <2>5, <2>6
<1> QED
  BY <1>1, <1>2

-----------------------------------------------------------------------------
(* What the steps do, part by part *)

LEMMA TypesOfVariables == Types => TypeOK
<1> SUFFICES ASSUME Types PROVE TypeOK
  OBVIOUS
<1>1. sched.timer \in Delays /\ sched.failures \in 0..MaxFailures /\ status.next \in Delays
  BY DEF Types, SchedulerType, StatusType
<1>2. \A w \in {<<sched.seen, sched.sub>>, <<disc.seen, disc.sub>>, <<guard.seen, guard.sub>>} :
        w[1] \in 1..Latest /\ w[2] \in 1..Latest
  BY DEF Types, Known
<1> QED
  BY <1>1, <1>2 DEF Types, TypeOK

LEMMA InitIInv == Init => IInv
<1> SUFFICES ASSUME Init PROVE IInv
  OBVIOUS
<1> USE DEF Init
<1>1. PICK c \in Configs : published = <<c>>
  OBVIOUS
<1>2. published \in Seq(Configs) /\ Latest = 1
  BY <1>1 DEF Latest
<1>3. Latest \in 1..(1 + MaxChanges) /\ network \in 1..(1 + MaxNetworks)
  BY <1>2, DaemonBounds
<1>4. status \in StatusType
  BY DelaysPositive, SMT DEF NoSchedule, StatusType
<1>5. /\ sched \in SchedulerType /\ sched.path \in 0..network
      /\ sched.seen = 1 /\ sched.sub = 1 /\ sched.pc = "off"
  BY <1>3, SchedulerOffType DEF SchedulerOff
<1>6. Known(sched) /\ Known(disc) /\ Known(guard)
  BY <1>2, <1>5, OffType DEF Known
<1>7. Types
  BY <1>2, <1>3, <1>4, <1>5, <1>6, OffType DEF Types
<1>8. CleanStart
  BY DEF CleanStart
<1>9. GuardSeen /\ SchedulerSeen /\ TimerPromised
  BY <1>5, OffType DEF GuardSeen, SchedulerSeen, TimerPromised
<1> QED
  BY <1>7, <1>8, <1>9 DEF IInv

\* Publications are only ever added, and networks numbered upwards.
LEMMA WorldKept ==
  ASSUME Types, [Next]_vars
  PROVE  /\ published' \in Seq(Configs) /\ Latest' \in 1..(1 + MaxChanges)
         /\ network' \in 1..(1 + MaxNetworks)
         /\ Latest <= Latest' /\ network <= network'
         /\ \A k \in 1..Latest : published'[k] = published[k]
<1>1. /\ published \in Seq(Configs) /\ Latest \in 1..(1 + MaxChanges)
      /\ network \in 1..(1 + MaxNetworks) /\ Latest \in Nat /\ config \in Configs
  BY DaemonBounds DEF Types, Latest, config
<1>2. ASSUME NEW next \in Configs, Publishes(next), UNCHANGED network
      PROVE  /\ published' \in Seq(Configs) /\ Latest' \in 1..(1 + MaxChanges)
             /\ network' \in 1..(1 + MaxNetworks)
             /\ Latest <= Latest' /\ network <= network'
             /\ \A k \in 1..Latest : published'[k] = published[k]
  BY <1>1, <1>2, DaemonBounds DEF Publishes, Latest
<1>3. CASE Reconfigures
  BY <1>2, <1>3 DEF Reconfigures
<1>4. CASE ScheduledRun
  <2>1. CASE UNCHANGED world
    BY <2>1, <1>1, DaemonBounds DEF world, Latest
  <2>2. CASE RunEnds
    <3>1. CASE UNCHANGED published
      BY <3>1, <2>2, <1>1, DaemonBounds DEF RunEnds, Latest
    <3>2. CASE Publishes(config)
      BY <3>2, <2>2, <1>1, <1>2 DEF RunEnds
    <3> QED
      BY <2>2, <3>1, <3>2 DEF RunEnds
  <2> QED
    BY <1>4, <2>1, <2>2 DEF ScheduledRun, RunBegins, RunConflicts, RunFails
<1>5. CASE NetworkChanges
  BY <1>5, <1>1, DaemonBounds DEF NetworkChanges, Latest
<1>6. CASE UNCHANGED world
  BY <1>6, <1>1, DaemonBounds DEF world, Latest
<1> QED
  BY <1>3, <1>4, <1>5, <1>6 DEF Next, Listens, RecoverRoutes, RecoverPolicy, Restarts, Fails,
     Dies, Stops, Exits, WorkersEnd, Scheduler, Discovery, Guard, Request, Requested,
     RequestEnds, vars, world

\* Only a ready service lets anybody into the gate, and it has recovered both
\* journals; whoever is in may still be there when the service stops.
LEMMA CleanStartKept ==
  ASSUME Types, CleanStart, [Next]_vars
  PROVE  /\ CleanStart' /\ journals' \subseteq Journals /\ gate' \in {"free"} \cup Operations
         /\ stage' \in {"starting", "routes", "policy", "ready", "stopping", "down"}
<1> USE DEF Types, CleanStart, Operations
<1>1. CASE Listens \/ RecoverRoutes \/ Restarts \/ Stops
  BY <1>1 DEF Listens, RecoverRoutes, Restarts, Stops
<1>2. CASE RecoverPolicy
  BY <1>2 DEF RecoverPolicy, Journals
<1>3. CASE Fails \/ Exits
  BY <1>3 DEF Fails, Exits, Dies, Torn
<1>4. CASE Scheduler \/ WorkersEnd \/ Reconfigures \/ NetworkChanges
  BY <1>4 DEF Scheduler, WorkersEnd, Reconfigures, NetworkChanges, process
<1>5. CASE ScheduledRun
  BY <1>5 DEF ScheduledRun, RunBegins, RunConflicts, RunEnds, RunFails, Serving, process
<1>6. CASE Discovery
  BY <1>6 DEF Discovery, DiscoveryViews, DiscoverySubscribes, DiscoveryNotified,
     DiscoveryFires, DiscoveryEnds, Serving, process
<1>7. CASE Guard
  BY <1>7 DEF Guard, GuardViews, GuardSubscribes, GuardRepairs, GuardRepaired, GuardNotified,
     Serving, process
<1>8. CASE Request
  BY <1>8 DEF Request, Requested, RequestEnds, Serving, process
<1>9. CASE UNCHANGED vars
  BY <1>9 DEF vars
<1> QED
  BY <1>1, <1>2, <1>3, <1>4, <1>5, <1>6, <1>7, <1>8, <1>9 DEF Next

\* The numbers of the publications and of the networks.
LEMMA WorldNumbers ==
  ASSUME Types, [Next]_vars
  PROVE  /\ Latest \in Nat /\ Latest' \in Nat /\ Latest <= Latest' /\ 1 <= Latest'
         /\ network \in Nat /\ network' \in Nat /\ network <= network'
<1>1. /\ Latest \in 1..(1 + MaxChanges) /\ Latest' \in 1..(1 + MaxChanges)
      /\ network \in 1..(1 + MaxNetworks) /\ network' \in 1..(1 + MaxNetworks)
      /\ Latest <= Latest' /\ network <= network'
  BY WorldKept DEF Types
<1> HIDE DEF Latest
<1> QED
  BY <1>1, DaemonBounds

\* Who changes the local variables of the observer and of the guard.
LEMMA WhoMoves ==
  ASSUME [Next]_vars
  PROVE  /\ \/ UNCHANGED disc \/ disc' = Off \/ disc' = [Off EXCEPT !.pc = "view"]
            \/ Discovery
         /\ \/ UNCHANGED guard \/ guard' = Off \/ guard' = [Off EXCEPT !.pc = "view"]
            \/ Guard
<1>1. CASE Listens \/ RecoverRoutes \/ Restarts \/ Stops
  BY <1>1 DEF Listens, RecoverRoutes, Restarts, Stops, WorkersStay
<1>2. CASE RecoverPolicy
  BY <1>2 DEF RecoverPolicy
<1>3. CASE Fails \/ Exits
  BY <1>3 DEF Fails, Exits, Dies
<1>4. CASE WorkersEnd
  BY <1>4 DEF WorkersEnd
<1>5. CASE Scheduler \/ ScheduledRun \/ Discovery \/ Guard
  BY <1>5 DEF Scheduler, ScheduledRun, Discovery, Guard
<1>6. CASE Request \/ Reconfigures \/ NetworkChanges
  BY <1>6 DEF Request, Requested, RequestEnds, Reconfigures, NetworkChanges, WorkersStay
<1>7. CASE UNCHANGED vars
  BY <1>7 DEF vars
<1> QED
  BY <1>1, <1>2, <1>3, <1>4, <1>5, <1>6, <1>7 DEF Next

\* A record of a worker that it leaves alone stays one.
LEMMA KnownKept ==
  ASSUME Latest \in Nat, Latest' \in Nat, Latest <= Latest', NEW w, Known(w)
  PROVE  w.seen \in 1..Latest' /\ w.sub \in 1..Latest'
  BY DEF Known

LEMMA DiscoveryKept ==
  ASSUME Types, [Next]_vars
  PROVE  disc' \in WorkerType /\ Known(disc)'
<1>1. /\ Latest \in Nat /\ Latest' \in Nat /\ Latest <= Latest' /\ 1 <= Latest'
      /\ disc \in WorkerType /\ Known(disc)
  BY WorldNumbers DEF Types
<1>2. CASE UNCHANGED disc
  BY <1>1, <1>2, KnownKept DEF Known
<1>3. CASE disc' = Off \/ disc' = [Off EXCEPT !.pc = "view"]
  <2>1. disc' \in WorkerType /\ disc'.seen = 1 /\ disc'.sub = 1
    BY <1>3, OffType
  <2> QED
    BY <1>1, <2>1 DEF Known
<1>4. CASE Discovery
  <2>1. Latest' = Latest
    BY <1>4 DEF Discovery, world, Latest
  <2>2. CASE disc' = Views(disc)
    BY <1>1, <2>1, <2>2, ViewsType DEF Known
  <2>3. CASE disc' = Subscribes(disc, "wait")
    BY <1>1, <2>1, <2>3, SubscribesType DEF Known, WorkerSteps
  <2>4. CASE \E x \in {"view", "refresh"} : disc' = [disc EXCEPT !.pc = x]
    <3>1. disc' \in WorkerType
      BY <1>1, <2>4, WorkerFields DEF WorkerSteps
    <3>2. disc'.seen = disc.seen /\ disc'.sub = disc.sub
      BY <1>1, <2>4 DEF WorkerType
    <3> QED
      BY <1>1, <2>1, <3>1, <3>2 DEF Known
  <2> QED
    BY <1>4, <2>2, <2>3, <2>4 DEF Discovery, DiscoveryViews, DiscoverySubscribes,
       DiscoveryNotified, DiscoveryFires, DiscoveryEnds
<1> QED
  BY <1>2, <1>3, <1>4, WhoMoves

\* The guard builds its strategies before it subscribes: what it has missed in
\* between is the only thing it does not know.
LEMMA GuardKept ==
  ASSUME Types, GuardSeen, [Next]_vars
  PROVE  guard' \in WorkerType /\ Known(guard)' /\ GuardSeen'
<1>1. /\ Latest \in Nat /\ Latest' \in Nat /\ Latest <= Latest' /\ 1 <= Latest'
      /\ guard \in WorkerType /\ Known(guard)
  BY WorldNumbers DEF Types
<1>2. CASE UNCHANGED guard
  BY <1>1, <1>2, KnownKept DEF Known, GuardSeen
<1>3. CASE guard' = Off \/ guard' = [Off EXCEPT !.pc = "view"]
  <2>1. /\ guard' \in WorkerType /\ guard'.seen = 1 /\ guard'.sub = 1
        /\ guard'.pc \notin {"watch", "repair"}
    BY <1>3, OffType
  <2> QED
    BY <1>1, <2>1 DEF Known, GuardSeen
<1>4. CASE Guard
  <2>1. Latest' = Latest
    BY <1>4 DEF Guard, world, Latest
  <2>2. CASE guard' = Views(guard)
    BY <1>1, <2>1, <2>2, ViewsType DEF Known, GuardSeen
  <2>3. CASE guard' = Subscribes(guard, "watch")
    <3>1. /\ guard' \in WorkerType /\ guard'.seen = guard.seen /\ guard'.sub = Latest
          /\ (guard'.late <=> Latest > guard.seen)
      BY <1>1, <2>3, SubscribesType DEF WorkerSteps
    <3> QED
      BY <1>1, <2>1, <3>1 DEF Known, GuardSeen
  <2>4. CASE \E x \in {"view", "watch", "repair"} :
               /\ guard' = [guard EXCEPT !.pc = x]
               /\ x # "view" => guard.pc \in {"watch", "repair"}
    <3>1. guard' \in WorkerType
      BY <1>1, <2>4, WorkerFields DEF WorkerSteps
    <3>2. /\ guard'.seen = guard.seen /\ guard'.sub = guard.sub /\ guard'.late = guard.late
          /\ guard'.pc \in {"watch", "repair"} => guard.pc \in {"watch", "repair"}
      BY <1>1, <2>4 DEF WorkerType
    <3> QED
      BY <1>1, <2>1, <3>1, <3>2 DEF Known, GuardSeen
  <2>5. CASE GuardRepairs \/ GuardRepaired \/ GuardNotified
    BY <2>4, <2>5 DEF GuardRepairs, GuardRepaired, GuardNotified
  <2> QED
    BY <1>4, <2>2, <2>3, <2>5 DEF Guard, GuardViews, GuardSubscribes
<1> QED
  BY <1>2, <1>3, <1>4, WhoMoves

-----------------------------------------------------------------------------
(* The scheduler *)

SchedulerInv ==
  /\ sched \in SchedulerType /\ sched.path \in 0..network /\ status \in StatusType
  /\ Known(sched) /\ SchedulerSeen /\ TimerPromised

\* The timer is set together with the promise, to a delay that is not zero.
LEMMA PromiseKept ==
  ASSUME NEW w \in SchedulerType, NEW delay \in Delays, Promises(w, delay)
  PROVE  /\ sched' \in SchedulerType /\ status' \in StatusType
         /\ sched'.pc = "wait" /\ sched'.timer = delay /\ status'.next = delay
         /\ status'.enabled = TRUE
         /\ sched'.seen = w.seen /\ sched'.sub = w.sub /\ sched'.late = w.late
         /\ sched'.path = w.path
<1> DEFINE w1 == [w EXCEPT !.pc = "wait"]
           w2 == [w1 EXCEPT !.timer = delay]
<1>1. sched' = w2
  BY DEF Promises
<1>2. w1 \in SchedulerType
  BY SchedulerFields DEF SchedulerSteps
<1>3. w2 \in SchedulerType
  BY <1>2, SchedulerFields
<1>4. /\ w2.pc = "wait" /\ w2.timer = delay
      /\ w2.seen = w.seen /\ w2.sub = w.sub /\ w2.late = w.late /\ w2.path = w.path
  BY SMT DEF SchedulerType
<1>5. /\ status' \in StatusType /\ status'.next = delay /\ status'.enabled = TRUE
  BY SMT DEF Promises, StatusType
<1> QED
  BY <1>1, <1>3, <1>4, <1>5

LEMMA DisableKept ==
  ASSUME NEW w \in SchedulerType, Disables(w)
  PROVE  /\ sched' \in SchedulerType /\ status' \in StatusType
         /\ sched'.pc = "wait" /\ sched'.timer = 0 /\ status'.next = 0
         /\ status'.enabled = FALSE
         /\ sched'.seen = w.seen /\ sched'.sub = w.sub /\ sched'.late = w.late
         /\ sched'.path = w.path
<1> DEFINE w1 == [w EXCEPT !.pc = "wait"]
           w2 == [w1 EXCEPT !.timer = 0]
<1>1. sched' = w2
  BY DEF Disables
<1>2. w1 \in SchedulerType
  BY SchedulerFields DEF SchedulerSteps
<1>3. w2 \in SchedulerType
  BY <1>2, SchedulerFields, DelaysPositive
<1>4. /\ w2.pc = "wait" /\ w2.timer = 0
      /\ w2.seen = w.seen /\ w2.sub = w.sub /\ w2.late = w.late /\ w2.path = w.path
  BY SMT DEF SchedulerType
<1>5. /\ status' \in StatusType /\ status'.next = 0 /\ status'.enabled = FALSE
  BY DelaysPositive, SMT DEF Disables, StatusType
<1> QED
  BY <1>1, <1>3, <1>4, <1>5

\* Where the scheduler ends up waiting with a promise that is true to the
\* configuration that it has read.
LEMMA WaitsTruly ==
  ASSUME Types, [Next]_vars, SchedulerSeen,
         NEW w \in SchedulerType, w.path \in 0..network,
         w.seen = sched.seen, w.sub = sched.sub, w.late = sched.late,
         sched.pc \in {"start", "wait", "restart", "run", "running"},
         \/ View(w).schedule /\ \E delay \in Delays \ {0} : Promises(w, delay)
         \/ ~View(w).schedule /\ Disables(w)
  PROVE  SchedulerInv'
<1>0. Known(sched) /\ w.seen \in 1..Latest
  BY DEF Types, Known
<1>1. /\ Latest \in Nat /\ Latest' \in Nat /\ Latest <= Latest' /\ network <= network'
      /\ network \in Nat /\ network' \in Nat
      /\ \A k \in 1..Latest : published'[k] = published[k]
      /\ Known(sched) /\ w.seen \in 1..Latest
  BY <1>0, WorldKept, WorldNumbers
<1>2. View(w).schedule \in BOOLEAN
  BY <1>1, ConfigurationType DEF Types, View, Latest
<1>3. /\ sched' \in SchedulerType /\ status' \in StatusType /\ sched'.pc = "wait"
      /\ sched'.seen = w.seen /\ sched'.sub = w.sub /\ sched'.late = w.late
      /\ sched'.path = w.path
      /\ status'.next = sched'.timer /\ status'.enabled = View(w).schedule
      /\ (status'.enabled <=> sched'.timer # 0)
  <2>1. CASE View(w).schedule /\ \E delay \in Delays \ {0} : Promises(w, delay)
    BY <1>2, <2>1, PromiseKept
  <2>2. CASE ~View(w).schedule /\ Disables(w)
    BY <1>2, <2>2, DisableKept
  <2> QED
    BY <2>1, <2>2
<1>4. View(sched)' = View(w)
  BY <1>1, <1>3 DEF View
<1>5. Known(sched)' /\ sched'.path \in 0..network'
  BY <1>1, <1>3 DEF Known
<1>6. SchedulerSeen'
  BY <1>3 DEF SchedulerSeen
<1>7. TimerPromised'
  BY <1>3, <1>4 DEF TimerPromised
<1> QED
  BY <1>3, <1>5, <1>6, <1>7 DEF SchedulerInv

\* Who changes the local variables of the scheduler.
LEMMA SchedulerMoves ==
  ASSUME [Next]_vars
  PROVE  \/ UNCHANGED <<sched, status>>
         \/ /\ sched' = SchedulerOff \/ sched' = [SchedulerOff EXCEPT !.pc = "view"]
            /\ status' = NoSchedule \/ UNCHANGED status
         \/ Scheduler \/ ScheduledRun
<1>1. CASE Listens \/ RecoverRoutes \/ Restarts \/ Stops
  BY <1>1 DEF Listens, RecoverRoutes, Restarts, Stops, WorkersStay
<1>2. CASE RecoverPolicy
  BY <1>2 DEF RecoverPolicy
<1>3. CASE Fails \/ Exits
  BY <1>3 DEF Fails, Exits, Dies
<1>4. CASE WorkersEnd
  BY <1>4 DEF WorkersEnd
<1>5. CASE Discovery \/ Guard
  BY <1>5 DEF Discovery, Guard
<1>6. CASE Request \/ Reconfigures \/ NetworkChanges
  BY <1>6 DEF Request, Requested, RequestEnds, Reconfigures, NetworkChanges, WorkersStay
<1>7. CASE UNCHANGED vars
  BY <1>7 DEF vars
<1> QED
  BY <1>1, <1>2, <1>3, <1>4, <1>5, <1>6, <1>7 DEF Next

\* What there is to know of the state of a scheduler that does not promise.
LEMMA SchedulerFacts ==
  ASSUME Types, [Next]_vars
  PROVE  /\ Latest \in Nat /\ Latest' \in Nat /\ Latest <= Latest' /\ 1 <= Latest'
         /\ network \in Nat /\ network' \in Nat /\ network <= network'
         /\ sched \in SchedulerType /\ sched.path \in 0..network /\ status \in StatusType
         /\ Known(sched)
         /\ published'[sched.seen] = published[sched.seen]
         /\ View(sched).schedule \in BOOLEAN
<1>1. /\ sched \in SchedulerType /\ sched.path \in 0..network /\ status \in StatusType
      /\ Known(sched)
  BY DEF Types
<1>2. published'[sched.seen] = published[sched.seen]
  BY <1>1, WorldKept DEF Known
<1>3. published \in Seq(Configs) /\ sched.seen \in 1..Len(published)
  BY <1>1 DEF Types, Known, Latest
<1>4. View(sched) \in Configs
  BY <1>3 DEF View
<1> QED
  BY <1>1, <1>2, <1>4, ConfigurationType, WorldNumbers

\* The rest of a step of the scheduler: everything but the program counter, the
\* timer and what it knows of the network stays.
LEMMA StaysTrue ==
  ASSUME Types, SchedulerSeen, [Next]_vars, UNCHANGED status,
         sched' \in SchedulerType, sched'.path \in 0..network',
         sched'.seen = sched.seen, sched'.sub = sched.sub, sched'.late = sched.late,
         \/ sched'.pc = "wait" /\ sched.pc = "wait" /\ sched'.timer = sched.timer
         \/ sched'.pc = "running" /\ sched.pc \in {"run", "running"},
         TimerPromised
  PROVE  SchedulerInv'
<1>1. /\ Latest \in Nat /\ Latest' \in Nat /\ Latest <= Latest'
      /\ status \in StatusType /\ Known(sched)
      /\ published'[sched.seen] = published[sched.seen]
  BY SchedulerFacts
<1>2. View(sched)' = View(sched)
  BY <1>1 DEF View
<1>3. Known(sched)'
  BY <1>1 DEF Known
<1>4. SchedulerSeen'
  BY DEF SchedulerSeen
<1>5. TimerPromised'
  BY <1>2 DEF TimerPromised
<1>6. status' \in StatusType
  BY <1>1
<1> QED
  BY <1>3, <1>4, <1>5, <1>6 DEF SchedulerInv

\* Where the scheduler neither waits nor runs, nothing is promised.
LEMMA NothingPromised ==
  ASSUME sched' \in SchedulerType, sched'.path \in 0..network', status' \in StatusType,
         Known(sched)', SchedulerSeen',
         sched'.pc \notin {"wait", "run", "running"}
  PROVE  SchedulerInv'
<1>1. TimerPromised'
  BY DEF TimerPromised
<1> QED
  BY <1>1 DEF SchedulerInv

\* The scheduler's own copy of the state of the path and of the failures.
LEMMA CopyOfSched ==
  ASSUME NEW s \in SchedulerType
  PROVE  /\ \A p \in Nat :
              LET w == [s EXCEPT !.path = p] IN
                /\ w \in SchedulerType /\ w.path = p /\ w.pc = s.pc /\ w.seen = s.seen
                /\ w.sub = s.sub /\ w.late = s.late /\ w.timer = s.timer
         /\ \A n \in 0..MaxFailures :
              LET w == [s EXCEPT !.failures = n] IN
                /\ w \in SchedulerType /\ w.path = s.path /\ w.pc = s.pc /\ w.seen = s.seen
                /\ w.sub = s.sub /\ w.late = s.late
         /\ \A x \in SchedulerSteps :
              LET w == [s EXCEPT !.pc = x] IN
                /\ w \in SchedulerType /\ w.path = s.path /\ w.pc = x /\ w.seen = s.seen
                /\ w.sub = s.sub /\ w.late = s.late /\ w.timer = s.timer
<1>1. ASSUME NEW p \in Nat
      PROVE  LET w == [s EXCEPT !.path = p] IN
                /\ w \in SchedulerType /\ w.path = p /\ w.pc = s.pc /\ w.seen = s.seen
                /\ w.sub = s.sub /\ w.late = s.late /\ w.timer = s.timer
  BY SchedulerFields, SMT DEF SchedulerType
<1>2. ASSUME NEW n \in 0..MaxFailures
      PROVE  LET w == [s EXCEPT !.failures = n] IN
                /\ w \in SchedulerType /\ w.path = s.path /\ w.pc = s.pc /\ w.seen = s.seen
                /\ w.sub = s.sub /\ w.late = s.late
  BY SchedulerFields, SMT DEF SchedulerType
<1>3. ASSUME NEW x \in SchedulerSteps
      PROVE  LET w == [s EXCEPT !.pc = x] IN
                /\ w \in SchedulerType /\ w.path = s.path /\ w.pc = x /\ w.seen = s.seen
                /\ w.sub = s.sub /\ w.late = s.late /\ w.timer = s.timer
  BY SchedulerFields, SMT DEF SchedulerType
<1> QED
  BY <1>1, <1>2, <1>3

\* A step of Service.schedule.
LEMMA SchedulerStepKept ==
  ASSUME Types, SchedulerSeen, TimerPromised, [Next]_vars, Scheduler
  PROVE  SchedulerInv'
<1>1. /\ Latest \in Nat /\ network \in Nat /\ network' = network /\ Latest' = Latest
      /\ sched \in SchedulerType /\ sched.path \in 0..network /\ status \in StatusType
      /\ Known(sched) /\ View(sched).schedule \in BOOLEAN
  BY SchedulerFacts DEF Scheduler, world, Latest
<1>2. CASE SchedulerViews
  <2>1. /\ sched' \in SchedulerType /\ sched'.pc = "subscribe" /\ sched'.seen = Latest
        /\ sched'.sub = sched.sub /\ sched'.path = sched.path
    BY <1>1, <1>2, ViewsType DEF SchedulerViews
  <2>2. Known(sched)' /\ SchedulerSeen'
    BY <1>1, <2>1 DEF Known, SchedulerSeen
  <2>3. sched'.path \in 0..network' /\ status' \in StatusType
    BY <1>1, <1>2, <2>1 DEF SchedulerViews
  <2> QED
    BY <2>1, <2>2, <2>3, NothingPromised
<1>3. CASE SchedulerSubscribes
  <2>1. /\ sched' \in SchedulerType /\ sched'.pc = "start" /\ sched'.seen = sched.seen
        /\ sched'.sub = Latest /\ sched'.path = sched.path
        /\ (sched'.late <=> Latest > sched.seen)
    BY <1>1, <1>3, SubscribesType DEF SchedulerSubscribes, SchedulerSteps
  <2>2. Known(sched)' /\ SchedulerSeen'
    BY <1>1, <2>1 DEF Known, SchedulerSeen
  <2>3. sched'.path \in 0..network' /\ status' \in StatusType
    BY <1>1, <1>3, <2>1 DEF SchedulerSubscribes
  <2> QED
    BY <2>1, <2>2, <2>3, NothingPromised
<1>4. CASE SchedulerStarts
  <2>1. PICK p \in {0, network} :
          LET w == [sched EXCEPT !.path = p] IN
            IF View(w).schedule THEN Promises(w, initialRunDelay) ELSE Disables(w)
    BY <1>4 DEF SchedulerStarts
  <2> DEFINE w == [sched EXCEPT !.path = p]
  <2>2. /\ w \in SchedulerType /\ w.path \in 0..network /\ w.seen = sched.seen
        /\ w.sub = sched.sub /\ w.late = sched.late
    BY <1>1, CopyOfSched
  <2>3. IF View(w).schedule THEN Promises(w, initialRunDelay) ELSE Disables(w)
    BY <2>1
  <2>4. sched.pc = "start" /\ initialRunDelay \in Delays \ {0}
    BY <1>4, DelaysPositive DEF SchedulerStarts
  <2> HIDE DEF w
  <2> QED
    BY <2>2, <2>3, <2>4, WaitsTruly
<1>5. CASE SchedulerNotified
  <2> DEFINE s1 == [sched EXCEPT !.pc = "view_again"]
             s2 == [s1 EXCEPT !.sub = Latest]
  <2>1. s1 \in SchedulerType /\ s1.pc = "view_again" /\ s1.seen = sched.seen
        /\ s1.path = sched.path
    BY <1>1, CopyOfSched DEF SchedulerSteps
  <2>2. s2 \in SchedulerType
    BY <1>1, <2>1, SchedulerFields
  <2>3. s2.pc = "view_again" /\ s2.seen = sched.seen /\ s2.sub = Latest
        /\ s2.path = sched.path
    BY <1>1, SMT DEF SchedulerType
  <2>4. sched' = s2 /\ status' = status
    BY <1>5 DEF SchedulerNotified
  <2> HIDE DEF s1, s2
  <2>5. Known(sched)' /\ SchedulerSeen'
    BY <1>1, <2>3, <2>4 DEF Known, SchedulerSeen
  <2> QED
    BY <1>1, <2>2, <2>3, <2>4, <2>5, NothingPromised
<1>6. CASE SchedulerViewsAgain
  <2> DEFINE s1 == [sched EXCEPT !.pc = "restart"]
             s2 == [s1 EXCEPT !.seen = Latest]
             s3 == [s2 EXCEPT !.late = FALSE]
  <2>1. s1 \in SchedulerType
    BY <1>1, CopyOfSched DEF SchedulerSteps
  <2>2. s2 \in SchedulerType
    BY <1>1, <2>1, SchedulerFields
  <2>3. s3 \in SchedulerType
    BY <2>2, SchedulerFields
  <2>4. s3.pc = "restart" /\ s3.seen = Latest /\ s3.sub = sched.sub
        /\ s3.path = sched.path
    BY <1>1, SMT DEF SchedulerType
  <2>5. sched' = s3 /\ status' = status
    BY <1>6 DEF SchedulerViewsAgain
  <2> HIDE DEF s1, s2, s3
  <2>6. Known(sched)' /\ SchedulerSeen'
    BY <1>1, <2>4, <2>5 DEF Known, SchedulerSeen
  <2> QED
    BY <1>1, <2>3, <2>4, <2>5, <2>6, NothingPromised
<1>7. CASE SchedulerRestarts
  <2>1. PICK p \in {0, network} :
          LET w == [sched EXCEPT !.path = p, !.failures = 0] IN
            IF View(w).schedule THEN Promises(w, Interval) ELSE Disables(w)
    BY <1>7 DEF SchedulerRestarts
  <2> DEFINE v == [sched EXCEPT !.path = p]
             w == [v EXCEPT !.failures = 0]
  <2>2. /\ v \in SchedulerType /\ v.path \in 0..network /\ v.seen = sched.seen
        /\ v.sub = sched.sub /\ v.late = sched.late
    BY <1>1, CopyOfSched
  <2>3. IF View(w).schedule THEN Promises(w, Interval) ELSE Disables(w)
    BY <2>1
  <2>4. sched.pc = "restart" /\ Interval \in Delays \ {0}
    BY <1>7, DelaysPositive DEF SchedulerRestarts
  <2> HIDE DEF v
  <2>5. 0 \in 0..MaxFailures
    BY DaemonBounds
  <2>6. /\ w \in SchedulerType /\ w.path \in 0..network /\ w.seen = sched.seen
        /\ w.sub = sched.sub /\ w.late = sched.late
    BY <2>2, <2>5, CopyOfSched
  <2> HIDE DEF w
  <2> QED
    BY <2>3, <2>4, <2>6, WaitsTruly
<1>8. CASE SchedulerFires
  <2> DEFINE s1 == [sched EXCEPT !.pc = "run"]
             s2 == [s1 EXCEPT !.timer = 0]
  <2>1. s1 \in SchedulerType
    BY <1>1, CopyOfSched DEF SchedulerSteps
  <2>2. s2 \in SchedulerType
    BY <2>1, SchedulerFields, DelaysPositive
  <2>3. s2.pc = "run" /\ s2.seen = sched.seen /\ s2.sub = sched.sub
        /\ s2.late = sched.late /\ s2.path = sched.path
    BY <1>1, SMT DEF SchedulerType
  <2>4. sched' = s2 /\ status' = [enabled |-> TRUE, next |-> 0]
        /\ sched.pc = "wait" /\ sched.timer # 0
    BY <1>8 DEF SchedulerFires
  <2> HIDE DEF s1, s2
  <2>5. status' \in StatusType
    BY <2>4, DelaysPositive, SMT DEF StatusType
  <2>6. Known(sched)' /\ SchedulerSeen'
    BY <1>1, <2>3, <2>4 DEF Known, SchedulerSeen
  <2>7. View(sched)' = View(sched)
    BY <2>3, <2>4, SchedulerFacts DEF View
  <2>8. TimerPromised'
    BY <2>3, <2>4, <2>7 DEF TimerPromised
  <2>9. sched'.path \in 0..network'
    BY <1>1, <2>3, <2>4
  <2> QED
    BY <2>2, <2>4, <2>5, <2>6, <2>8, <2>9 DEF SchedulerInv
<1>9. CASE SchedulerPolls
  <2> DEFINE w == [sched EXCEPT !.path = network]
  <2>1. /\ w \in SchedulerType /\ w.path = network /\ w.seen = sched.seen
        /\ w.sub = sched.sub /\ w.late = sched.late /\ w.pc = sched.pc
        /\ w.timer = sched.timer
    BY <1>1, CopyOfSched
  <2>2. \/ Promises(w, networkChangeDebounce)
        \/ sched' = w /\ UNCHANGED status
    BY <1>9 DEF SchedulerPolls
  <2>3. sched.pc = "wait" /\ sched.timer # 0
    BY <1>9 DEF SchedulerPolls
  <2>4. View(w).schedule /\ w.path \in 0..network
    BY <1>1, <2>1, <2>3 DEF TimerPromised, View
  <2>5. networkChangeDebounce \in Delays \ {0}
    BY DelaysPositive
  <2> HIDE DEF w
  <2>6. CASE Promises(w, networkChangeDebounce)
    BY <2>1, <2>3, <2>4, <2>5, <2>6, WaitsTruly
  <2>7. CASE sched' = w /\ UNCHANGED status
    BY <1>1, <2>1, <2>3, <2>4, <2>7, StaysTrue
  <2> QED
    BY <2>2, <2>6, <2>7
<1> QED
  BY <1>2, <1>3, <1>4, <1>5, <1>6, <1>7, <1>8, <1>9 DEF Scheduler

\* A step of Service.runScheduled: however the run goes, it is promised again.
LEMMA RunStepKept ==
  ASSUME Types, SchedulerSeen, TimerPromised, [Next]_vars, ScheduledRun
  PROVE  SchedulerInv'
<1>1. /\ network \in Nat /\ network' \in Nat /\ network <= network'
      /\ sched \in SchedulerType /\ sched.path \in 0..network
  BY SchedulerFacts
<1>2. CASE RunBegins
  <2> DEFINE w == [sched EXCEPT !.pc = "running"]
  <2>1. /\ w \in SchedulerType /\ w.path = sched.path /\ w.seen = sched.seen
        /\ w.sub = sched.sub /\ w.late = sched.late /\ w.pc = "running"
    BY <1>1, CopyOfSched DEF SchedulerSteps
  <2>2. sched' = w /\ UNCHANGED status /\ sched.pc = "run"
    BY <1>2 DEF RunBegins
  <2> HIDE DEF w
  <2>3. sched'.path \in 0..network'
    BY <1>1, <2>1, <2>2
  <2> QED
    BY <2>1, <2>2, <2>3, StaysTrue
<1>3. sched.pc \in {"run", "running"} => View(sched).schedule
  BY DEF TimerPromised
<1>4. CASE RunConflicts
  BY <1>1, <1>3, <1>4, DelaysPositive, WaitsTruly DEF RunConflicts
<1>5. CASE RunEnds
  <2> DEFINE w == [sched EXCEPT !.failures = 0]
  <2>1. 0 \in 0..MaxFailures
    BY DaemonBounds
  <2>2. /\ w \in SchedulerType /\ w.path = sched.path /\ w.seen = sched.seen
        /\ w.sub = sched.sub /\ w.late = sched.late
    BY <1>1, <2>1, CopyOfSched
  <2>3. Promises(w, Interval) /\ sched.pc = "running" /\ Interval \in Delays \ {0}
    BY <1>5, DelaysPositive DEF RunEnds
  <2>4. View(w).schedule
    BY <1>3, <2>2, <2>3 DEF View
  <2> HIDE DEF w
  <2> QED
    BY <1>1, <2>2, <2>3, <2>4, WaitsTruly
<1>6. CASE RunFails
  <2> DEFINE n == IF sched.failures < MaxFailures THEN sched.failures + 1 ELSE MaxFailures
             w == [sched EXCEPT !.failures = n]
  <2>1. Promises(w, exponentialDelay[n]) /\ sched.pc = "running"
    BY <1>6 DEF RunFails
  <2>2. n \in 0..MaxFailures
    BY <1>1, DaemonBounds DEF SchedulerType
  <2>3. exponentialDelay[n] \in Delays \ {0}
    <3> HIDE DEF n
    <3>1. CASE n \in 1..MaxFailures
      BY <3>1, DelaysPositive
    <3>2. CASE n = 0
      <4>1. \/ exponentialDelay[0] = Interval
            \/ exponentialDelay[0] = minimumRetryDelay
        BY DelayDefinition
      <4> QED
        BY <3>2, <4>1, DelaysPositive
    <3> QED
      BY <2>2, <3>1, <3>2, DaemonBounds
  <2> HIDE DEF n
  <2>4. /\ w \in SchedulerType /\ w.path = sched.path /\ w.seen = sched.seen
        /\ w.sub = sched.sub /\ w.late = sched.late
    BY <1>1, <2>2, CopyOfSched
  <2>5. View(w).schedule
    BY <1>3, <2>1, <2>4 DEF View
  <2> HIDE DEF w
  <2> QED
    BY <1>1, <2>1, <2>3, <2>4, <2>5, WaitsTruly
<1> QED
  BY <1>2, <1>4, <1>5, <1>6 DEF ScheduledRun

LEMMA SchedulerKept ==
  ASSUME Types, SchedulerSeen, TimerPromised, [Next]_vars
  PROVE  SchedulerInv'
<1>1. CASE UNCHANGED <<sched, status>>
  <2>1. /\ Latest \in Nat /\ Latest' \in Nat /\ Latest <= Latest'
        /\ network \in Nat /\ network' \in Nat /\ network <= network'
        /\ sched \in SchedulerType /\ sched.path \in 0..network /\ status \in StatusType
        /\ Known(sched)
        /\ published'[sched.seen] = published[sched.seen]
    BY SchedulerFacts
  <2>2. View(sched)' = View(sched)
    BY <1>1, <2>1 DEF View
  <2>3. Known(sched)' /\ SchedulerSeen'
    BY <1>1, <2>1 DEF Known, SchedulerSeen
  <2>4. TimerPromised'
    BY <1>1, <2>2 DEF TimerPromised
  <2>5. sched' \in SchedulerType /\ sched'.path \in 0..network' /\ status' \in StatusType
    BY <1>1, <2>1
  <2> QED
    BY <2>3, <2>4, <2>5 DEF SchedulerInv
<1>2. CASE /\ sched' = SchedulerOff \/ sched' = [SchedulerOff EXCEPT !.pc = "view"]
           /\ status' = NoSchedule \/ UNCHANGED status
  <2>1. /\ sched' \in SchedulerType /\ sched'.pc \in {"off", "view"}
        /\ sched'.seen = 1 /\ sched'.sub = 1 /\ sched'.path = 0
    BY <1>2, SchedulerOffType
  <2>2. NoSchedule \in StatusType
    BY DelaysPositive, SMT DEF NoSchedule, StatusType
  <2>3. status' \in StatusType
    BY <1>2, <2>2, SchedulerFacts
  <2>4. sched'.path \in 0..network' /\ Known(sched)' /\ SchedulerSeen'
    BY <2>1, WorldNumbers DEF Known, SchedulerSeen
  <2> QED
    BY <2>1, <2>3, <2>4, NothingPromised
<1> QED
  BY <1>1, <1>2, SchedulerMoves, SchedulerStepKept, RunStepKept

-----------------------------------------------------------------------------
(* The theorems *)

\* The invariant holds in every reachable state.
LEMMA Invariance == Spec => []IInv
<1>1. IInv /\ [Next]_vars => IInv'
  <2> SUFFICES ASSUME IInv, [Next]_vars PROVE IInv'
    OBVIOUS
  <2>1. Types /\ CleanStart /\ GuardSeen /\ SchedulerSeen /\ TimerPromised
    BY DEF IInv
  <2>2. /\ CleanStart' /\ journals' \subseteq Journals /\ gate' \in {"free"} \cup Operations
        /\ stage' \in {"starting", "routes", "policy", "ready", "stopping", "down"}
    BY <2>1, CleanStartKept
  <2>3. /\ published' \in Seq(Configs) /\ Latest' \in 1..(1 + MaxChanges)
        /\ network' \in 1..(1 + MaxNetworks)
    BY <2>1, WorldKept
  <2>4. disc' \in WorkerType /\ Known(disc)'
    BY <2>1, DiscoveryKept
  <2>5. guard' \in WorkerType /\ Known(guard)' /\ GuardSeen'
    BY <2>1, GuardKept
  <2>6. SchedulerInv'
    BY <2>1, SchedulerKept
  <2>7. Types'
    BY <2>2, <2>3, <2>4, <2>5, <2>6 DEF Types, SchedulerInv
  <2> QED
    BY <2>2, <2>5, <2>6, <2>7 DEF IInv, SchedulerInv
<1> QED
  BY InitIInv, <1>1, PTL DEF Spec

\* The variables have their types; in particular the timer is only ever reset
\* to a delay of the code, whatever the interval.
THEOREM TypeCorrect == Spec => []TypeOK
<1>1. IInv => TypeOK
  BY TypesOfVariables DEF IInv
<1> QED
  BY <1>1, Invariance, PTL

\* No operation works on routes or policy while transactions of an earlier
\* process are unfinished, whatever it died of and however often.
THEOREM StartsClean == Spec => []OperationsStartClean
<1>1. IInv => OperationsStartClean
  BY DEF IInv, CleanStart, OperationsStartClean
<1> QED
  BY <1>1, Invariance, PTL

\* The guard never goes on with strategies of a configuration that is not the
\* published one, but for the publications it is yet to be told of and the one
\* it missed between reading and subscribing, for every number of publications.
THEOREM GuardFollows == Spec => []GuardFollowsConfiguration
<1>1. IInv => GuardFollowsConfiguration
  <2> SUFFICES ASSUME IInv, guard.pc \in {"watch", "repair"}, ~Notified(guard), ~guard.late
               PROVE  View(guard) = config
    BY DEF GuardFollowsConfiguration
  <2>1. guard.seen = guard.sub /\ Known(guard)
    BY DEF IInv, GuardSeen, Types
  <2>2. guard.seen = Latest
    <3>1. Latest \in 1..(1 + MaxChanges)
      BY DEF IInv, Types
    <3> HIDE DEF Latest
    <3> QED
      BY <2>1, <3>1, DaemonBounds DEF Known, Notified
  <2> QED
    BY <2>2 DEF View, config, Latest
<1> QED
  BY <1>1, Invariance, PTL

\* What system.status promises is what the timer will do, and no run is armed
\* under a published configuration that switches the schedule off.
THEOREM PromiseIsKept == Spec => []SchedulePromise
<1>1. IInv => SchedulePromise
  <2> SUFFICES ASSUME IInv, sched.pc = "wait", ~Notified(sched), ~sched.late
               PROVE  /\ status.enabled = config.schedule /\ status.next = sched.timer
                      /\ status.enabled <=> sched.timer # 0
    BY DEF SchedulePromise
  <2>1. sched.sub <= sched.seen /\ Known(sched)
    BY DEF IInv, SchedulerSeen, Types
  <2>2. sched.seen = Latest
    <3>1. Latest \in 1..(1 + MaxChanges)
      BY DEF IInv, Types
    <3> HIDE DEF Latest
    <3> QED
      BY <2>1, <3>1, DaemonBounds DEF Known, Notified
  <2>3. View(sched) = config
    BY <2>2 DEF View, config, Latest
  <2> QED
    BY <2>3 DEF IInv, TimerPromised
<1> QED
  BY <1>1, Invariance, PTL
==============================================================================
