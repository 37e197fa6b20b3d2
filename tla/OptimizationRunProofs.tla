------------------------ MODULE OptimizationRunProofs ------------------------
(***************************************************************************)
(* Safety and termination of the optimization runs, for every finite set   *)
(* of nodes and of domains and every number of pools, of changes of the    *)
(* configuration, the network and the ranges, of failures and of crashes.  *)
(*                                                                         *)
(* IInv adds to the properties                                             *)
(*   - RunType and Ready: a run has, at each of its steps, what the step   *)
(*     needs: the ranges, the measured network, the pool it reuses;        *)
(*   - Faithful: what holds of the state in memory and of the one in the   *)
(*     file; in particular that neither has evidence left of a plan that   *)
(*     was committed, and that their pools are among those measured;       *)
(*   - PlanIsNew: before its first plan a run has excluded nothing, and    *)
(*     the plan that it is about to apply uses no pair that it excluded.   *)
(* The last is what makes the rank of RunEnds go down with every retry.    *)
(***************************************************************************)
EXTENDS OptimizationRun, FiniteSetTheorems, TLAPS

Beginning == {"ranges", "migrate", "measure", "reuse", "refresh", "domain"}
Steps == Beginning \cup {"allocate", "plan", "apply", "commit", "reinstate", "done",
                         "failing", "idle"}

RunType ==
  [pc : Steps, apply : BOOLEAN, force : BOOLEAN, list : Lists \cup {None},
   pool : 0..MaxPools, unfit : BOOLEAN, good : SUBSET Nodes, bad : SUBSET Nodes,
   plan : Plans \cup {None}, resumed : Evidence \cup {None}, excluded : SUBSET Pairs,
   stage : Stages]
WorldType == [config : Configs, net : Networks, official : Lists, cached : Lists]

AroundType ==
  /\ world \in WorldType /\ active \in Networks \cup {None}
  /\ spent \in BOOLEAN /\ pools \in 0..MaxPools

Ready ==
  /\ run.pc \in {"migrate", "measure", "reuse", "refresh"} => run.list \in Lists
  /\ run.pc \in {"reuse", "refresh"} => active \in Networks
  /\ run.pc = "reuse" => mem.pool # None

Untried(plan) == \A d \in Domains : <<d, plan[d]>> \notin run.excluded
PlanIsNew ==
  /\ run.pc \in Beginning => run.excluded = {}
  /\ run.pc \in {"plan", "apply"} => run.plan \in Plans /\ Untried(run.plan)

RunInv ==
  /\ run \in RunType /\ run.pool \in 0..pools
  /\ Ready /\ PlanIsNew /\ NoPlanTwice /\ CooldownHolds

PoolOf(s) == IF s.pool = None THEN 0 ELSE s.pool.id
OfItsPool(s) ==
  s.checkpoint # None /\ s.checkpoint.evidence # None =>
    s.checkpoint.evidence.pool = s.checkpoint.pool
Forgotten(s) == s.checkpoint # None => s.checkpoint.evidence = None
Faithful(s, measured, committed) ==
  /\ s \in States /\ PoolOf(s) \in 0..measured /\ OfItsPool(s)
  /\ committed => Forgotten(s)
StateInv == Faithful(mem, pools, spent) /\ Faithful(disk, pools, spent)

IInv == AroundType /\ RunInv /\ StateInv

-----------------------------------------------------------------------------
(* The records, one field at a time *)

LEMMA RunFields ==
  ASSUME NEW r \in RunType
  PROVE  /\ \A x \in Steps : [r EXCEPT !.pc = x] \in RunType
         /\ \A x \in BOOLEAN : [r EXCEPT !.apply = x] \in RunType
         /\ \A x \in BOOLEAN : [r EXCEPT !.force = x] \in RunType
         /\ \A x \in Lists : [r EXCEPT !.list = x] \in RunType
         /\ \A x \in 0..MaxPools : [r EXCEPT !.pool = x] \in RunType
         /\ \A x \in BOOLEAN : [r EXCEPT !.unfit = x] \in RunType
         /\ \A x \in SUBSET Nodes : [r EXCEPT !.good = x] \in RunType
         /\ \A x \in SUBSET Nodes : [r EXCEPT !.bad = x] \in RunType
         /\ \A x \in Plans \cup {None} : [r EXCEPT !.plan = x] \in RunType
         /\ \A x \in Evidence \cup {None} : [r EXCEPT !.resumed = x] \in RunType
         /\ \A x \in SUBSET Pairs : [r EXCEPT !.excluded = x] \in RunType
         /\ \A x \in Stages : [r EXCEPT !.stage = x] \in RunType
<1>1. /\ \A x \in Steps : [r EXCEPT !.pc = x] \in RunType
      /\ \A x \in BOOLEAN : [r EXCEPT !.apply = x] \in RunType
      /\ \A x \in BOOLEAN : [r EXCEPT !.force = x] \in RunType
      /\ \A x \in Lists : [r EXCEPT !.list = x] \in RunType
  BY SMT DEF RunType
<1>2. /\ \A x \in 0..MaxPools : [r EXCEPT !.pool = x] \in RunType
      /\ \A x \in BOOLEAN : [r EXCEPT !.unfit = x] \in RunType
      /\ \A x \in SUBSET Nodes : [r EXCEPT !.good = x] \in RunType
      /\ \A x \in SUBSET Nodes : [r EXCEPT !.bad = x] \in RunType
  BY SMT DEF RunType
<1>3. /\ \A x \in Plans \cup {None} : [r EXCEPT !.plan = x] \in RunType
      /\ \A x \in Evidence \cup {None} : [r EXCEPT !.resumed = x] \in RunType
      /\ \A x \in SUBSET Pairs : [r EXCEPT !.excluded = x] \in RunType
      /\ \A x \in Stages : [r EXCEPT !.stage = x] \in RunType
  BY SMT DEF RunType
<1> QED
  BY <1>1, <1>2, <1>3

LEMMA IdleType ==
  /\ Idle \in RunType /\ Idle.pc = "idle" /\ Idle.excluded = {} /\ Idle.pool = 0
  /\ Idle.resumed = None /\ Idle.plan = None
  BY OptimizationBounds, SMT DEF Idle, RunType, Steps, Stages

LEMMA StateFields ==
  ASSUME NEW s \in States
  PROVE  /\ \A x \in NodePools \cup {None} : [s EXCEPT !.pool = x] \in States
         /\ \A x \in Checkpoints \cup {None} : [s EXCEPT !.checkpoint = x] \in States
         /\ \A x \in SUBSET Nodes : [s EXCEPT !.cooling = x] \in States
         /\ \A x \in Nodes \cup {None} : [s EXCEPT !.current = x] \in States
         /\ \A x \in BOOLEAN : [s EXCEPT !.unsafe = x] \in States
  BY SMT DEF States

-----------------------------------------------------------------------------
(* The rank *)

RankAt(r) ==
  IF r.pc \in DOMAIN After THEN After[r.pc]
  ELSE IF r.pc \in DOMAIN Retrying
       THEN 5 + Retrying[r.pc] + 3 * Cardinality(Pairs \ r.excluded)
  ELSE 8 + Before[r.pc] + 3 * Cardinality(Pairs)

LEMMA PairsAreFinite == IsFiniteSet(Pairs) /\ Cardinality(Pairs) \in Nat
  BY FiniteChoices, FS_Product, FS_CardinalityType DEF Pairs

All == Cardinality(Pairs)
Left(r) == Cardinality(Pairs \ r.excluded)

\* The rank at each step.
LEMMA Ranks ==
  ASSUME NEW r \in RunType
  PROVE  /\ Left(r) \in Nat /\ All \in Nat /\ (r.excluded = {} => Left(r) = All)
         /\ r.pc = "idle" => RankAt(r) = 0
         /\ r.pc = "failing" => RankAt(r) = 1
         /\ r.pc = "done" => RankAt(r) = 2
         /\ r.pc = "reinstate" => RankAt(r) = 3
         /\ r.pc = "commit" => RankAt(r) = 4
         /\ r.pc = "apply" => RankAt(r) = 5 + 3 * Left(r)
         /\ r.pc = "plan" => RankAt(r) = 6 + 3 * Left(r)
         /\ r.pc = "allocate" => RankAt(r) = 7 + 3 * Left(r)
         /\ r.pc = "domain" => RankAt(r) = 8 + 3 * All
         /\ r.pc = "refresh" => RankAt(r) = 9 + 3 * All
         /\ r.pc = "reuse" => RankAt(r) = 10 + 3 * All
         /\ r.pc = "measure" => RankAt(r) = 11 + 3 * All
         /\ r.pc = "migrate" => RankAt(r) = 12 + 3 * All
         /\ r.pc = "ranges" => RankAt(r) = 13 + 3 * All
<1>1. Left(r) \in Nat /\ All \in Nat
  BY PairsAreFinite, FS_Difference, FS_CardinalityType DEF Left, All
<1>2. r.excluded = {} => Left(r) = All
  <2>1. Pairs \ {} = Pairs
    OBVIOUS
  <2> QED
    BY <2>1 DEF Left, All
<1>3. RankAt(r) = IF r.pc \in DOMAIN After THEN After[r.pc]
                  ELSE IF r.pc \in DOMAIN Retrying THEN 5 + Retrying[r.pc] + 3 * Left(r)
                  ELSE 8 + Before[r.pc] + 3 * All
  BY DEF RankAt, Left, All
<1>4. /\ DOMAIN After = {"commit", "reinstate", "done", "failing", "idle"}
      /\ DOMAIN Retrying = {"allocate", "plan", "apply"}
  BY SMT DEF After, Retrying
<1>5. /\ After["commit"] = 4 /\ After["reinstate"] = 3 /\ After["done"] = 2
      /\ After["failing"] = 1 /\ After["idle"] = 0
      /\ Retrying["allocate"] = 2 /\ Retrying["plan"] = 1 /\ Retrying["apply"] = 0
      /\ Before["ranges"] = 5 /\ Before["migrate"] = 4 /\ Before["measure"] = 3
      /\ Before["reuse"] = 2 /\ Before["refresh"] = 1 /\ Before["domain"] = 0
  BY SMT DEF After, Retrying, Before
<1>6. /\ r.pc = "idle" => RankAt(r) = 0
      /\ r.pc = "failing" => RankAt(r) = 1
      /\ r.pc = "done" => RankAt(r) = 2
      /\ r.pc = "reinstate" => RankAt(r) = 3
      /\ r.pc = "commit" => RankAt(r) = 4
  BY <1>3, <1>4, <1>5
<1>7. /\ r.pc = "apply" => RankAt(r) = 5 + 3 * Left(r)
      /\ r.pc = "plan" => RankAt(r) = 6 + 3 * Left(r)
      /\ r.pc = "allocate" => RankAt(r) = 7 + 3 * Left(r)
  BY <1>1, <1>3, <1>4, <1>5
<1>8. /\ r.pc = "domain" => RankAt(r) = 8 + 3 * All
      /\ r.pc = "refresh" => RankAt(r) = 9 + 3 * All
      /\ r.pc = "reuse" => RankAt(r) = 10 + 3 * All
      /\ r.pc = "measure" => RankAt(r) = 11 + 3 * All
      /\ r.pc = "migrate" => RankAt(r) = 12 + 3 * All
      /\ r.pc = "ranges" => RankAt(r) = 13 + 3 * All
  BY <1>1, <1>3, <1>4, <1>5
<1> QED
  BY <1>1, <1>2, <1>6, <1>7, <1>8

-----------------------------------------------------------------------------
(* Writes to the store *)

LEMMA SavesKept ==
  ASSUME NEW next, Faithful(next, pools, spent), Saves(next)
  PROVE  StateInv' /\ UNCHANGED <<pools, spent>>
  BY DEF Saves, StateInv

LEMMA SaveFailsKept ==
  ASSUME NEW shared, Faithful(shared, pools, spent), StateInv, SaveFails(shared)
  PROVE  StateInv' /\ UNCHANGED <<pools, spent>>
  BY DEF SaveFails, StateInv

LEMMA KeepsKept ==
  ASSUME StateInv, Keeps
  PROVE  StateInv' /\ UNCHANGED <<pools, spent, mem, disk>>
  BY DEF Keeps, StateInv

\* What does not touch pool and checkpoint.
LEMMA SameEvidence ==
  ASSUME NEW s, NEW n, NEW c, Faithful(s, n, c), NEW t \in States,
         t.pool = s.pool, t.checkpoint = s.checkpoint
  PROVE  Faithful(t, n, c)
  BY DEF Faithful, PoolOf, OfItsPool, Forgotten

LEMMA CoolingKept ==
  ASSUME NEW s, NEW n, NEW c, Faithful(s, n, c), NEW nodes \in SUBSET Nodes
  PROVE  /\ Faithful([s EXCEPT !.cooling = nodes], n, c)
         /\ [s EXCEPT !.cooling = nodes].cooling = nodes
<1> DEFINE t == [s EXCEPT !.cooling = nodes]
<1>1. s \in States
  BY DEF Faithful
<1>2. t \in States
  BY <1>1, StateFields
<1>3. t.pool = s.pool /\ t.checkpoint = s.checkpoint /\ t.cooling = nodes
  BY <1>1, SMT DEF States
<1> HIDE DEF t
<1>4. Faithful(t, n, c) /\ t.cooling = nodes
  BY <1>2, <1>3, SameEvidence
<1> QED
  BY <1>4 DEF t

LEMMA ConfigTypes ==
  ASSUME AroundType
  PROVE  config \in Configs /\ Fingerprint \in Networks /\ world.net \in Networks
  BY PhysicalIsFingerprint DEF AroundType, WorldType, config, Fingerprint

\* A new checkpoint: its evidence is of the pool it names, and if there is any
\* no plan has been committed with it.
LEMMA CheckpointKept ==
  ASSUME AroundType, NEW s, NEW n, NEW c, Faithful(s, n, c),
         NEW st \in Stages, NEW pool \in 0..MaxPools, NEW ev \in Evidence \cup {None},
         ev # None => ev.pool = pool,
         NEW gone, gone => ev = None
  PROVE  Faithful([s EXCEPT !.checkpoint =
                     [stage |-> st, pool |-> pool, config |-> config, net |-> Fingerprint,
                      evidence |-> ev]], n, gone)
<1> DEFINE cp == [stage |-> st, pool |-> pool, config |-> config, net |-> Fingerprint,
                  evidence |-> ev]
           t == [s EXCEPT !.checkpoint = cp]
<1>1. s \in States
  BY DEF Faithful
<1>2. cp \in Checkpoints
  BY ConfigTypes, SMT DEF Checkpoints
<1>3. cp.pool = pool /\ cp.evidence = ev
  BY SMT
<1> HIDE DEF cp
<1>4. t \in States
  BY <1>1, <1>2, StateFields
<1>5. t.pool = s.pool /\ t.checkpoint = cp
  BY <1>1, SMT DEF States
<1> HIDE DEF t
<1>6. Faithful(t, n, gone)
  BY <1>3, <1>4, <1>5 DEF Faithful, PoolOf, OfItsPool, Forgotten
<1> QED
  BY <1>6 DEF t, cp

-----------------------------------------------------------------------------
(* The steps of a run *)

\* What a run knows of itself at the steps that need little.
LEMMA RunKept ==
  ASSUME run' \in RunType, run'.pool \in 0..pools', run'.resumed # None => ~spent',
         run'.pc \in {"allocate", "commit", "reinstate", "failing", "idle"}
  PROVE  RunInv'
<1>1. Ready' /\ PlanIsNew' /\ NoPlanTwice' /\ CooldownHolds'
  BY DEF Ready, PlanIsNew, NoPlanTwice, CooldownHolds, Beginning
<1> QED
  BY <1>1 DEF RunInv

\* At the steps of the beginning nothing is excluded.
LEMMA BeginningKept ==
  ASSUME run' \in RunType, run'.pool \in 0..pools', run'.resumed # None => ~spent',
         run'.pc \in Beginning, run'.excluded = {},
         run'.pc \in {"migrate", "measure", "reuse", "refresh"} => run'.list \in Lists,
         run'.pc \in {"reuse", "refresh"} => active' \in Networks,
         run'.pc = "reuse" => mem'.pool # None
  PROVE  RunInv'
<1>1. Ready' /\ PlanIsNew' /\ NoPlanTwice' /\ CooldownHolds'
  BY DEF Ready, PlanIsNew, NoPlanTwice, CooldownHolds, Beginning
<1> QED
  BY <1>1 DEF RunInv

\* A run that fails has one step left.
LEMMA FailsKept ==
  ASSUME NEW st \in Stages, Fails(st), pools' \in Nat
  PROVE  RunInv' /\ RankAt(run') = 1
<1> DEFINE r1 == [Idle EXCEPT !.pc = "failing"]
           r2 == [r1 EXCEPT !.stage = st]
<1>1. r1 \in RunType
  BY IdleType, RunFields DEF Steps
<1>2. r2 \in RunType
  BY <1>1, RunFields
<1>3. /\ r2.pc = "failing" /\ r2.excluded = {} /\ r2.pool = 0 /\ r2.resumed = None
  BY IdleType, SMT DEF RunType
<1>4. run' = r2
  BY DEF Fails
<1> HIDE DEF r1, r2
<1>5. run' \in RunType /\ run'.pc = "failing" /\ run'.excluded = {} /\ run'.pool = 0
      /\ run'.resumed = None
  BY <1>2, <1>3, <1>4
<1>6. RankAt(run') = 1
  BY <1>5, Ranks
<1> QED
  BY <1>5, <1>6, RunKept

\* The rank of a run that has not ended, and what it says of failing.
LEMMA StillRunning ==
  ASSUME RunInv, run.pc \notin {"idle", "failing"}
  PROVE  1 < RankAt(run)
<1>1. run \in RunType /\ run.pc \in Steps
  BY DEF RunInv, RunType
<1> QED
  BY <1>1, Ranks DEF Steps, Beginning

\* What the steps of a run find.
LEMMA InvParts ==
  ASSUME IInv
  PROVE  /\ AroundType /\ RunInv /\ StateInv /\ pools \in Nat /\ pools \in 0..MaxPools
         /\ run \in RunType /\ run.pool \in 0..pools
         /\ Faithful(mem, pools, spent) /\ Faithful(disk, pools, spent)
         /\ mem \in States /\ disk \in States
         /\ run.pc \in Beginning => run.excluded = {}
         /\ run.resumed # None => ~spent
<1>1. AroundType /\ RunInv /\ StateInv
  BY DEF IInv
<1>2. pools \in Nat /\ pools \in 0..MaxPools
  BY <1>1, OptimizationBounds DEF AroundType
<1>3. run \in RunType /\ run.pool \in 0..pools /\ (run.pc \in Beginning => run.excluded = {})
  BY <1>1 DEF RunInv, PlanIsNew
<1> QED
  BY <1>1, <1>2, <1>3 DEF RunInv, NoPlanTwice, StateInv, Faithful

LEMMA UpdatesRangesKept ==
  ASSUME IInv, UpdatesRanges
  PROVE  IInv' /\ RankAt(run') < RankAt(run)
<1>1. AroundType /\ RunInv /\ StateInv /\ run.pc = "ranges" /\ pools \in Nat
      /\ run \in RunType /\ run.pool \in 0..pools /\ run.excluded = {}
  BY InvParts DEF RunInv, Ready, Beginning, UpdatesRanges
<1>2. StateInv' /\ UNCHANGED <<pools, spent, mem, disk>>
  BY <1>1, KeepsKept DEF UpdatesRanges
<1>3. CASE Fails("pool_refresh") /\ UNCHANGED world
  <2>1. AroundType'
    BY <1>1, <1>2, <1>3 DEF AroundType, UpdatesRanges
  <2> QED
    BY <1>1, <1>2, <1>3, <2>1, FailsKept, StillRunning DEF IInv, Stages
<1>4. ASSUME NEW list \in CatalogUpdate, world' = [world EXCEPT !.cached = list],
             run' = [run EXCEPT !.list = list,
                       !.pc = IF run.apply /\ mem.unsafe THEN "migrate" ELSE "measure"]
      PROVE  IInv' /\ RankAt(run') < RankAt(run)
  <2> DEFINE pc == IF run.apply /\ mem.unsafe THEN "migrate" ELSE "measure"
             r1 == [run EXCEPT !.list = list]
             r2 == [r1 EXCEPT !.pc = pc]
  <2>1. list \in Lists
    BY <1>1 DEF CatalogUpdate, AroundType, WorldType
  <2>2. r1 \in RunType
    BY <1>1, <2>1, RunFields
  <2>3. pc \in {"migrate", "measure"}
    OBVIOUS
  <2> HIDE DEF pc
  <2>4. r2 \in RunType
    BY <2>2, <2>3, RunFields DEF Steps, Beginning
  <2>5. r2.pc = pc /\ r2.list = list /\ r2.excluded = run.excluded /\ r2.pool = run.pool
        /\ r2.resumed = run.resumed
    BY <1>1, SMT DEF RunType
  <2>6. run' = r2
    BY <1>4 DEF pc
  <2> HIDE DEF r1, r2
  <2>7. RunInv'
    BY <1>1, <1>2, <2>1, <2>3, <2>4, <2>5, <2>6, BeginningKept
    DEF RunInv, NoPlanTwice, Beginning
  <2>8. RankAt(run') < RankAt(run)
    BY <1>1, <2>4, <2>3, <2>5, <2>6, Ranks
  <2>9. world' \in WorldType
    BY <1>1, <1>4, <2>1, SMT DEF AroundType, WorldType
  <2> QED
    BY <1>1, <1>2, <2>7, <2>8, <2>9 DEF IInv, AroundType, UpdatesRanges
<1> QED
  BY <1>3, <1>4 DEF UpdatesRanges

\* A step to another program counter alone.
LEMMA GoesToType ==
  ASSUME run \in RunType, NEW pc \in Steps, GoesTo(pc)
  PROVE  /\ run' \in RunType /\ run'.pc = pc /\ run'.list = run.list
         /\ run'.excluded = run.excluded /\ run'.pool = run.pool
         /\ run'.resumed = run.resumed /\ run'.plan = run.plan
<1> DEFINE r == [run EXCEPT !.pc = pc]
<1>1. r \in RunType
  BY RunFields
<1>2. /\ r.pc = pc /\ r.list = run.list /\ r.excluded = run.excluded /\ r.pool = run.pool
      /\ r.resumed = run.resumed /\ r.plan = run.plan
  BY SMT DEF RunType
<1> QED
  BY <1>1, <1>2 DEF GoesTo

LEMMA ReplacesUnsafeMappingsKept ==
  ASSUME IInv, ReplacesUnsafeMappings
  PROVE  IInv' /\ RankAt(run') < RankAt(run)
<1>1. AroundType /\ RunInv /\ StateInv /\ run.pc = "migrate" /\ pools \in Nat
      /\ run \in RunType /\ run.pool \in 0..pools /\ run.excluded = {} /\ run.list \in Lists
      /\ Faithful(mem, pools, spent)
  BY InvParts DEF RunInv, Ready, Beginning, ReplacesUnsafeMappings
<1>2. StateInv' /\ UNCHANGED <<pools, spent>>
  <2> DEFINE next == [mem EXCEPT !.unsafe = FALSE]
  <2>1. next \in States /\ next.pool = mem.pool /\ next.checkpoint = mem.checkpoint
    <3>1. mem \in States
      BY <1>1 DEF Faithful
    <3>2. next.pool = mem.pool /\ next.checkpoint = mem.checkpoint
      BY <3>1, SMT DEF States
    <3> QED
      BY <3>1, <3>2, StateFields
  <2>2. Saves(next) \/ SaveFails(mem) \/ Keeps
    BY DEF ReplacesUnsafeMappings
  <2> HIDE DEF next
  <2>3. Faithful(next, pools, spent)
    BY <1>1, <2>1, SameEvidence
  <2> QED
    BY <1>1, <2>2, <2>3, SavesKept, SaveFailsKept, KeepsKept
<1>3. AroundType'
  BY <1>1, <1>2 DEF AroundType, ReplacesUnsafeMappings
<1>4. CASE Fails("pool_refresh")
  BY <1>1, <1>2, <1>3, <1>4, FailsKept, StillRunning DEF IInv, Stages
<1>5. CASE GoesTo("measure")
  <2>1. /\ run' \in RunType /\ run'.pc = "measure" /\ run'.list = run.list
        /\ run'.excluded = run.excluded /\ run'.pool = run.pool
        /\ run'.resumed = run.resumed
    BY <1>1, <1>5, GoesToType DEF Steps, Beginning
  <2>2. RunInv'
    BY <1>1, <1>2, <2>1, BeginningKept DEF RunInv, NoPlanTwice, Beginning
  <2>3. RankAt(run') < RankAt(run)
    BY <1>1, <2>1, Ranks
  <2> QED
    BY <1>2, <1>3, <2>2, <2>3 DEF IInv
<1> QED
  BY <1>4, <1>5 DEF ReplacesUnsafeMappings

LEMMA MeasuresKept ==
  ASSUME IInv, Measures
  PROVE  IInv' /\ RankAt(run') < RankAt(run)
<1>1. AroundType /\ RunInv /\ StateInv /\ run.pc = "measure" /\ pools \in Nat
      /\ run \in RunType /\ run.pool \in 0..pools /\ run.excluded = {} /\ run.list \in Lists
  BY InvParts DEF RunInv, Ready, Beginning, Measures
<1>2. StateInv' /\ UNCHANGED <<pools, spent, mem, disk>>
  BY <1>1, KeepsKept DEF Measures
<1>3. CASE RoutesFail("pool_refresh") /\ UNCHANGED active
  <2>1. AroundType'
    BY <1>1, <1>2, <1>3 DEF AroundType, Measures
  <2> QED
    BY <1>1, <1>2, <1>3, <2>1, FailsKept, StillRunning DEF IInv, Stages, RoutesFail
<1>4. CASE /\ active' = world.net
           /\ run' = [run EXCEPT !.force = FALSE,
                     !.pc = IF ~run.force /\ nodePoolCompatible(active') /\ mem.pool.fresh
                            THEN "reuse" ELSE "refresh"]
  <2> DEFINE pc == IF ~run.force /\ nodePoolCompatible(active') /\ mem.pool.fresh
                   THEN "reuse" ELSE "refresh"
             r1 == [run EXCEPT !.force = FALSE]
             r2 == [r1 EXCEPT !.pc = pc]
  <2>1. active' \in Networks
    BY <1>1, <1>4, ConfigTypes
  <2>2. r1 \in RunType
    BY <1>1, RunFields
  <2>3. pc \in {"reuse", "refresh"} /\ (pc = "reuse" => mem.pool # None)
    BY DEF nodePoolCompatible
  <2>4. run' = r2
    BY <1>4
  <2> HIDE DEF pc
  <2>5. r2 \in RunType
    BY <2>2, <2>3, RunFields DEF Steps, Beginning
  <2>6. r2.pc = pc /\ r2.list = run.list /\ r2.excluded = run.excluded
        /\ r2.pool = run.pool /\ r2.resumed = run.resumed
    BY <1>1, SMT DEF RunType
  <2> HIDE DEF r1, r2
  <2>7. RunInv'
    BY <1>1, <1>2, <2>1, <2>3, <2>4, <2>5, <2>6, BeginningKept
    DEF RunInv, NoPlanTwice, Beginning
  <2>8. RankAt(run') < RankAt(run)
    BY <1>1, <2>5, <2>3, <2>4, <2>6, Ranks
  <2> QED
    BY <1>1, <1>2, <2>1, <2>7, <2>8 DEF IInv, AroundType, Measures
<1> QED
  BY <1>3, <1>4 DEF Measures

\* resolveNodePool returns a pool that has been measured.
LEMMA ResolvesKept ==
  ASSUME AroundType, RunInv, run.pc \in {"reuse", "refresh"},
         NEW pool \in 0..MaxPools, pool <= pools', pools' \in Nat,
         NEW good \in SUBSET Nodes, NEW bad \in SUBSET Nodes, Resolves(pool, good, bad)
  PROVE  RunInv' /\ RankAt(run') < RankAt(run)
<1>1. run \in RunType /\ run.apply \in BOOLEAN
  BY DEF RunInv, RunType
<1> DEFINE r1 == [Idle EXCEPT !.pc = "domain"]
           r2 == [r1 EXCEPT !.apply = run.apply]
           r3 == [r2 EXCEPT !.pool = pool]
           r4 == [r3 EXCEPT !.good = good]
           r5 == [r4 EXCEPT !.bad = bad]
<1>2. r1 \in RunType
  BY IdleType, RunFields DEF Steps, Beginning
<1>3. r2 \in RunType
  BY <1>1, <1>2, RunFields
<1>4. r3 \in RunType
  BY <1>3, RunFields
<1>5. r4 \in RunType
  BY <1>4, RunFields
<1>6. r5 \in RunType
  BY <1>5, RunFields
<1>7. r5.pc = "domain" /\ r5.excluded = {} /\ r5.pool = pool /\ r5.resumed = None
  BY IdleType, SMT DEF RunType
<1>8. run' = r5
  BY DEF Resolves
<1> HIDE DEF r1, r2, r3, r4, r5
<1>9. RunInv'
  BY <1>6, <1>7, <1>8, BeginningKept DEF Beginning
<1>10. RankAt(run') < RankAt(run)
  BY <1>1, <1>6, <1>7, <1>8, Ranks DEF RunInv, PlanIsNew, Beginning
<1> QED
  BY <1>9, <1>10

LEMMA ValidatesPoolKept ==
  ASSUME IInv, run.pc \in {"reuse", "refresh"}, mem.pool # None, ValidatesPool,
         pools' = pools
  PROVE  RunInv' /\ RankAt(run') < RankAt(run)
<1>1. AroundType /\ RunInv /\ pools \in Nat /\ mem \in States /\ PoolOf(mem) \in 0..pools
  BY DEF IInv, AroundType, StateInv, Faithful
<1>2. mem.pool \in NodePools
  BY <1>1 DEF States
<1>3. mem.pool.id \in 0..MaxPools /\ mem.pool.id <= pools /\ mem.pool.nodes \subseteq Nodes
  BY <1>1, <1>2, OptimizationBounds DEF NodePools, PoolOf
<1>4. PICK good \in Validate(mem.pool.nodes) : Resolves(mem.pool.id, good, {})
  BY DEF ValidatesPool
<1>5. good \in SUBSET Nodes
  BY <1>3, <1>4 DEF Validate
<1> QED
  BY <1>1, <1>3, <1>4, <1>5, ResolvesKept

LEMMA ReusesPoolKept ==
  ASSUME IInv, ReusesPool
  PROVE  IInv' /\ RankAt(run') < RankAt(run)
<1>1. AroundType /\ RunInv /\ StateInv /\ run.pc = "reuse" /\ pools \in Nat
      /\ run \in RunType /\ run.pool \in 0..pools /\ run.excluded = {} /\ run.list \in Lists
      /\ mem.pool # None /\ active \in Networks
  BY InvParts DEF RunInv, Ready, Beginning, ReusesPool
<1>2. StateInv' /\ UNCHANGED <<pools, spent, mem, disk>>
  BY <1>1, KeepsKept DEF ReusesPool
<1>3. AroundType'
  BY <1>1, <1>2 DEF AroundType, ReusesPool
<1>4. CASE Fails("pool_refresh")
  BY <1>1, <1>2, <1>3, <1>4, FailsKept, StillRunning DEF IInv, Stages
<1>5. CASE ValidatesPool
  BY <1>1, <1>2, <1>3, <1>5, ValidatesPoolKept DEF IInv
<1>6. CASE run' = [run EXCEPT !.pc = "refresh", !.unfit = TRUE]
  <2> DEFINE r1 == [run EXCEPT !.pc = "refresh"]
             r2 == [r1 EXCEPT !.unfit = TRUE]
  <2>1. r1 \in RunType
    BY <1>1, RunFields DEF Steps, Beginning
  <2>2. r2 \in RunType
    BY <2>1, RunFields
  <2>3. r2.pc = "refresh" /\ r2.list = run.list /\ r2.excluded = run.excluded
        /\ r2.pool = run.pool /\ r2.resumed = run.resumed
    BY <1>1, SMT DEF RunType
  <2>4. run' = r2 /\ active' = active
    BY <1>6 DEF ReusesPool
  <2> HIDE DEF r1, r2
  <2>5. RunInv'
    BY <1>1, <1>2, <2>2, <2>3, <2>4, BeginningKept DEF RunInv, NoPlanTwice, Beginning
  <2>6. RankAt(run') < RankAt(run)
    BY <1>1, <2>2, <2>3, <2>4, Ranks
  <2> QED
    BY <1>2, <1>3, <2>5, <2>6 DEF IInv
<1> QED
  BY <1>4, <1>5, <1>6 DEF ReusesPool

\* Candidates are nodes, those in cooldown among them only if preferred.
LEMMA CandidateTypes ==
  ASSUME mem \in States, NEW tested \in generateCandidates
  PROVE  tested \in SUBSET Nodes /\ \A good \in BenchmarkRun(tested) : good \in SUBSET Nodes
<1>1. {mem.current} \ {None} \subseteq Nodes
  BY DEF States
<1> QED
  BY <1>1 DEF generateCandidates, Generate, BenchmarkRun

\* A new pool: no evidence of another one is kept beside it.
LEMMA NewPoolKept ==
  ASSUME AroundType, Faithful(mem, pools, spent), pools < MaxPools, active \in Networks,
         run.list \in Lists, NEW good \in SUBSET Nodes
  PROVE  Faithful(persistNodePool(good), pools + 1, spent)
<1> DEFINE pool == [id |-> pools + 1, bench |-> config.bench, net |-> active,
                    list |-> run.list, nodes |-> good, fresh |-> TRUE]
           s1 == [mem EXCEPT !.pool = pool]
           s2 == [s1 EXCEPT !.checkpoint = None]
<1>1. mem \in States /\ pools + 1 \in 1..MaxPools /\ config.bench \in {c.bench : c \in Configs}
  BY ConfigTypes, OptimizationBounds DEF Faithful, AroundType
<1>2. pool \in NodePools
  BY <1>1, SMT DEF NodePools
<1>3. pool.id = pools + 1
  BY SMT
<1> HIDE DEF pool
<1>4. s1 \in States
  BY <1>1, <1>2, StateFields
<1>5. s2 \in States
  BY <1>4, StateFields
<1>6. s2.pool = pool /\ s2.checkpoint = None
  BY <1>1, SMT DEF States
<1>7. persistNodePool(good) = s2
  BY DEF persistNodePool, pool
<1> HIDE DEF s1, s2
<1>8. Faithful(s2, pools + 1, spent)
  BY <1>1, <1>3, <1>5, <1>6 DEF Faithful, PoolOf, OfItsPool, Forgotten
<1> QED
  BY <1>7, <1>8

LEMMA RefreshesPoolKept ==
  ASSUME IInv, RefreshesPool
  PROVE  IInv' /\ RankAt(run') < RankAt(run)
<1>1. /\ AroundType /\ RunInv /\ StateInv /\ run.pc = "refresh" /\ pools \in 0..MaxPools
      /\ pools \in Nat /\ Faithful(mem, pools, spent) /\ mem \in States
      /\ active \in Networks /\ run.list \in Lists
  BY InvParts DEF RunInv, Ready, RefreshesPool
<1>2. PICK tested \in generateCandidates : \E good \in BenchmarkRun(tested) :
        /\ pools < MaxPools
        /\ \/ /\ mem' = persistNodePool(good) /\ disk' = mem'
              /\ pools' = pools + 1 /\ UNCHANGED <<spent, changes, faults>>
              /\ Resolves(pools + 1, good, tested \ good)
           \/ SaveFails(mem) /\ Fails("pool_refresh")
  BY DEF RefreshesPool
<1>3. PICK good \in BenchmarkRun(tested) :
        /\ pools < MaxPools
        /\ \/ /\ mem' = persistNodePool(good) /\ disk' = mem'
              /\ pools' = pools + 1 /\ UNCHANGED <<spent, changes, faults>>
              /\ Resolves(pools + 1, good, tested \ good)
           \/ SaveFails(mem) /\ Fails("pool_refresh")
  BY <1>2
<1>4. good \in SUBSET Nodes /\ tested \ good \in SUBSET Nodes
  BY <1>1, CandidateTypes
<1>5. UNCHANGED <<active, world>> /\ pools + 1 \in 0..MaxPools /\ pools + 1 \in Nat
  BY <1>1, <1>3, OptimizationBounds DEF RefreshesPool
<1>6. CASE SaveFails(mem) /\ Fails("pool_refresh")
  <2>1. StateInv' /\ UNCHANGED <<pools, spent>>
    BY <1>1, <1>6, SaveFailsKept
  <2>2. AroundType'
    BY <1>1, <1>5, <2>1 DEF AroundType
  <2> QED
    BY <1>1, <1>6, <2>1, <2>2, FailsKept, StillRunning DEF IInv, Stages
<1>7. CASE /\ mem' = persistNodePool(good) /\ disk' = mem'
           /\ pools' = pools + 1 /\ UNCHANGED <<spent, changes, faults>>
           /\ Resolves(pools + 1, good, tested \ good)
  <2>1. Faithful(persistNodePool(good), pools + 1, spent)
    BY <1>1, <1>3, <1>4, NewPoolKept
  <2>2. StateInv'
    BY <1>7, <2>1 DEF StateInv
  <2>3. AroundType'
    BY <1>1, <1>5, <1>7 DEF AroundType
  <2>4. RunInv' /\ RankAt(run') < RankAt(run)
    BY <1>1, <1>4, <1>5, <1>7, ResolvesKept
  <2> QED
    BY <2>2, <2>3, <2>4 DEF IInv
<1> QED
  BY <1>3, <1>6, <1>7

LEMMA FailsToRefreshKept ==
  ASSUME IInv, FailsToRefresh
  PROVE  IInv' /\ RankAt(run') < RankAt(run)
<1>1. AroundType /\ RunInv /\ StateInv /\ run.pc = "refresh" /\ pools \in Nat /\ mem \in States
  BY InvParts DEF FailsToRefresh
<1>2. StateInv' /\ UNCHANGED <<pools, spent, mem, disk>>
  BY <1>1, KeepsKept DEF FailsToRefresh
<1>3. AroundType'
  BY <1>1, <1>2 DEF AroundType, FailsToRefresh
<1>4. CASE \E tested \in generateCandidates : Resolves(0, {}, tested)
  <2>1. PICK tested \in generateCandidates : Resolves(0, {}, tested)
    BY <1>4
  <2>2. tested \in SUBSET Nodes /\ 0 \in 0..MaxPools
    BY <1>1, CandidateTypes, OptimizationBounds
  <2>3. RunInv' /\ RankAt(run') < RankAt(run)
    BY <1>1, <1>2, <2>1, <2>2, ResolvesKept
  <2> QED
    BY <1>2, <1>3, <2>3 DEF IInv
<1>5. CASE MayDegrade /\ ValidatesPool
  <2>1. mem.pool # None
    BY <1>5 DEF MayDegrade, nodePoolCompatible
  <2> QED
    BY <1>1, <1>2, <1>3, <1>5, <2>1, ValidatesPoolKept DEF IInv
<1>6. CASE Fails("pool_refresh")
  BY <1>1, <1>2, <1>3, <1>6, FailsKept, StillRunning DEF IInv, Stages
<1> QED
  BY <1>4, <1>5, <1>6 DEF FailsToRefresh, GuardFails

\* The evidence of an earlier run: its plan has not been committed.
LEMMA ResumesDomainsKept ==
  ASSUME IInv, ResumesDomains
  PROVE  IInv' /\ RankAt(run') < RankAt(run)
<1>1. /\ AroundType /\ RunInv /\ StateInv /\ run.pc = "domain" /\ pools \in Nat
      /\ run \in RunType /\ run.pool \in 0..pools /\ run.excluded = {}
      /\ Faithful(mem, pools, spent) /\ mem \in States
      /\ (run.resumed # None => ~spent)
  BY InvParts DEF Beginning, ResumesDomains
<1>2. StateInv' /\ UNCHANGED <<pools, spent, mem, disk>>
  BY <1>1, KeepsKept DEF ResumesDomains
<1>3. AroundType'
  BY <1>1, <1>2 DEF AroundType, ResumesDomains
<1> DEFINE ev == mem.checkpoint.evidence
<1>4. mem.checkpoint # None /\ ev # None
  BY DEF ResumesDomains, resumableDomainCheckpoint
<1>5. ev \in Evidence /\ ev.plan \in Plans /\ ~spent
  <2>1. mem.checkpoint \in Checkpoints
    BY <1>1, <1>4 DEF States
  <2>2. ev \in Evidence
    BY <1>4, <2>1 DEF Checkpoints
  <2> QED
    BY <1>1, <1>4, <2>2 DEF Evidence, Faithful, Forgotten
<1>6. CASE run.apply
  <2> HIDE DEF ev
  <2> DEFINE r1 == [run EXCEPT !.pc = "apply"]
             r2 == [r1 EXCEPT !.stage = "apply_verify"]
             r3 == [r2 EXCEPT !.plan = ev.plan]
             r4 == [r3 EXCEPT !.resumed = ev]
  <2>1. r1 \in RunType
    BY <1>1, RunFields DEF Steps
  <2>2. r2 \in RunType
    BY <2>1, RunFields DEF Stages
  <2>3. r3 \in RunType
    BY <1>5, <2>2, RunFields
  <2>4. r4 \in RunType
    BY <1>5, <2>3, RunFields
  <2>5. r4.pc = "apply" /\ r4.excluded = run.excluded /\ r4.pool = run.pool /\ r4.plan = ev.plan
    BY <1>1, SMT DEF RunType
  <2>6. run' = r4
    BY <1>6 DEF ResumesDomains, ev
  <2> HIDE DEF r1, r2, r3, r4
  <2>7. Ready' /\ PlanIsNew' /\ NoPlanTwice' /\ CooldownHolds'
    BY <1>1, <1>2, <1>5, <2>5, <2>6
    DEF Ready, PlanIsNew, Untried, NoPlanTwice, CooldownHolds, Beginning
  <2>8. RunInv'
    BY <1>1, <1>2, <2>4, <2>5, <2>6, <2>7 DEF RunInv
  <2>9. RankAt(run') < RankAt(run)
    BY <1>1, <2>4, <2>5, <2>6, Ranks
  <2> QED
    BY <1>2, <1>3, <2>8, <2>9 DEF IInv
<1>7. CASE ~run.apply
  <2> DEFINE r1 == [run EXCEPT !.pc = "commit"]
             r2 == [r1 EXCEPT !.stage = "commit"]
  <2>1. r1 \in RunType
    BY <1>1, RunFields DEF Steps
  <2>2. r2 \in RunType
    BY <2>1, RunFields DEF Stages
  <2>3. r2.pc = "commit" /\ r2.pool = run.pool /\ r2.resumed = run.resumed
    BY <1>1, SMT DEF RunType
  <2>4. run' = r2
    BY <1>7 DEF ResumesDomains
  <2> HIDE DEF r1, r2
  <2>5. RunInv'
    BY <1>1, <1>2, <2>2, <2>3, <2>4, RunKept
  <2>6. RankAt(run') < RankAt(run)
    BY <1>1, <2>2, <2>3, <2>4, Ranks
  <2> QED
    BY <1>2, <1>3, <2>5, <2>6 DEF IInv
<1> QED
  BY <1>6, <1>7

\* What is kept of an older checkpoint is evidence of the same pool.
LEMMA RetainedType ==
  ASSUME IInv
  PROVE  /\ run.pool \in 0..MaxPools
         /\ Retained(run.pool) \in Evidence \cup {None}
         /\ Retained(run.pool) # None => Retained(run.pool).pool = run.pool
         /\ spent => Retained(run.pool) = None
<1>1. /\ Faithful(mem, pools, spent) /\ mem \in States /\ run \in RunType
  BY InvParts
<1>2. CASE mem.checkpoint # None
  <2>1. mem.checkpoint \in Checkpoints
    BY <1>1, <1>2 DEF States
  <2>2. mem.checkpoint.evidence \in Evidence \cup {None}
    BY <2>1 DEF Checkpoints
  <2> QED
    BY <1>1, <1>2, <2>2 DEF Retained, Faithful, OfItsPool, Forgotten, RunType
<1> QED
  BY <1>1, <1>2 DEF Retained, RunType

LEMMA QualifiesDomainsKept ==
  ASSUME IInv, QualifiesDomains
  PROVE  IInv' /\ RankAt(run') < RankAt(run)
<1>1. /\ AroundType /\ RunInv /\ StateInv /\ run.pc = "domain" /\ pools \in Nat
      /\ run \in RunType /\ run.pool \in 0..pools /\ run.excluded = {}
      /\ Faithful(mem, pools, spent)
      /\ (run.resumed # None => ~spent)
  BY InvParts DEF Beginning, QualifiesDomains
<1> DEFINE next == updateCheckpoint("domain_qualify", Retained(run.pool))
<1>2. Faithful(next, pools, spent)
  BY <1>1, RetainedType, CheckpointKept DEF updateCheckpoint, Stages
<1> HIDE DEF next
<1>3. \/ /\ Saves(next)
         /\ run' = [run EXCEPT !.pc = IF run.apply THEN "allocate" ELSE "commit",
                       !.stage = IF run.apply THEN "domain_qualify" ELSE "commit"]
      \/ SaveFails(mem) /\ Fails("domain_qualify")
  BY DEF QualifiesDomains, next
<1>4. StateInv' /\ UNCHANGED <<pools, spent>>
  BY <1>1, <1>2, <1>3, SavesKept, SaveFailsKept
<1>5. AroundType'
  BY <1>1, <1>4 DEF AroundType, QualifiesDomains
<1>6. CASE Fails("domain_qualify")
  BY <1>1, <1>4, <1>5, <1>6, FailsKept, StillRunning DEF IInv, Stages
<1>7. CASE run' = [run EXCEPT !.pc = IF run.apply THEN "allocate" ELSE "commit",
                     !.stage = IF run.apply THEN "domain_qualify" ELSE "commit"]
  <2> DEFINE pc == IF run.apply THEN "allocate" ELSE "commit"
             stage == IF run.apply THEN "domain_qualify" ELSE "commit"
             r1 == [run EXCEPT !.pc = pc]
             r2 == [r1 EXCEPT !.stage = stage]
  <2>1. run' = r2
    BY <1>7
  <2>2. pc \in {"allocate", "commit"} /\ stage \in Stages
    BY DEF Stages
  <2> HIDE DEF pc, stage
  <2>3. r1 \in RunType
    BY <1>1, <2>2, RunFields DEF Steps
  <2>4. r2 \in RunType
    BY <2>2, <2>3, RunFields
  <2>5. r2.pc = pc /\ r2.pool = run.pool /\ r2.resumed = run.resumed
        /\ r2.excluded = run.excluded
    BY <1>1, SMT DEF RunType
  <2> HIDE DEF r1, r2
  <2>6. RunInv'
    BY <1>1, <1>4, <2>1, <2>2, <2>4, <2>5, RunKept
  <2>7. RankAt(run') < RankAt(run)
    BY <1>1, <2>1, <2>2, <2>4, <2>5, Ranks
  <2> QED
    BY <1>4, <1>5, <2>6, <2>7 DEF IInv
<1> QED
  BY <1>3, <1>6, <1>7

\* The plan uses no pair of domain and address that has failed in this run.
LEMMA AllocatesKept ==
  ASSUME IInv, Allocates
  PROVE  IInv' /\ RankAt(run') < RankAt(run)
<1>1. /\ AroundType /\ RunInv /\ StateInv /\ run.pc = "allocate" /\ pools \in Nat
      /\ run \in RunType /\ run.pool \in 0..pools
      /\ (run.resumed # None => ~spent)
  BY InvParts DEF Allocates
<1>2. StateInv' /\ UNCHANGED <<pools, spent, mem, disk>>
  BY <1>1, KeepsKept DEF Allocates
<1>3. AroundType'
  BY <1>1, <1>2 DEF AroundType, Allocates
<1>4. CASE Fails("domain_qualify") \/ Fails(run.stage)
  <2>1. run.stage \in Stages /\ "domain_qualify" \in Stages
    BY <1>1 DEF RunType, Stages
  <2> QED
    BY <1>1, <1>2, <1>3, <1>4, <2>1, FailsKept, StillRunning DEF IInv
<1>5. CASE \E plan \in Allocations : run' = [run EXCEPT !.pc = "plan", !.plan = plan]
  <2>1. PICK plan \in Allocations : run' = [run EXCEPT !.pc = "plan", !.plan = plan]
    BY <1>5
  <2>2. plan \in Plans /\ Untried(plan)
    BY DEF Allocations, Untried
  <2> DEFINE r1 == [run EXCEPT !.pc = "plan"]
             r2 == [r1 EXCEPT !.plan = plan]
  <2>3. r1 \in RunType
    BY <1>1, RunFields DEF Steps
  <2>4. r2 \in RunType
    BY <2>2, <2>3, RunFields
  <2>5. r2.pc = "plan" /\ r2.pool = run.pool /\ r2.resumed = run.resumed
        /\ r2.excluded = run.excluded /\ r2.plan = plan
    BY <1>1, SMT DEF RunType
  <2>6. run' = r2
    BY <2>1
  <2> HIDE DEF r1, r2
  <2>7. Ready' /\ PlanIsNew' /\ NoPlanTwice' /\ CooldownHolds'
    BY <1>1, <1>2, <2>2, <2>5, <2>6
    DEF Ready, PlanIsNew, Untried, NoPlanTwice, CooldownHolds, Beginning
  <2>8. RunInv'
    BY <1>1, <1>2, <2>4, <2>5, <2>6, <2>7 DEF RunInv
  <2>9. RankAt(run') < RankAt(run)
    <3>1. Left(run') = Left(run)
      BY <2>5, <2>6 DEF Left
    <3> QED
      BY <1>1, <2>4, <2>5, <2>6, <3>1, Ranks
  <2> QED
    BY <1>2, <1>3, <2>8, <2>9 DEF IInv
<1> QED
  BY <1>4, <1>5 DEF Allocates

LEMMA PersistsPlanKept ==
  ASSUME IInv, PersistsPlan
  PROVE  IInv' /\ RankAt(run') < RankAt(run)
<1>1. /\ AroundType /\ RunInv /\ StateInv /\ run.pc = "plan" /\ pools \in Nat
      /\ run \in RunType /\ run.pool \in 0..pools /\ run.pool \in 0..MaxPools
      /\ Faithful(mem, pools, spent) /\ run.plan \in Plans /\ Untried(run.plan)
      /\ (run.resumed # None => ~spent)
  BY InvParts DEF PersistsPlan, RunInv, PlanIsNew, RunType
<1> DEFINE next == updateCheckpoint("policy_plan", Gathered)
<1>3. Faithful(next, pools, FALSE)
  <2>1. Gathered \in Evidence
    BY <1>1, ConfigTypes, SMT DEF Gathered, Evidence
  <2>2. Gathered.pool = run.pool
    BY SMT DEF Gathered
  <2> QED
    BY <1>1, <2>1, <2>2, CheckpointKept DEF updateCheckpoint, Stages
<1> HIDE DEF next
<1>4. \/ /\ mem' = next /\ disk' = next /\ spent' = FALSE
         /\ \/ run' = [run EXCEPT !.pc = "apply", !.stage = "apply_verify"]
            \/ Fails(run.stage)
         /\ UNCHANGED <<pools, changes>>
      \/ SaveFails(mem) /\ Fails(run.stage)
      \/ Keeps /\ Fails(run.stage)
  BY DEF PersistsPlan, PolicyFails, next
<1>5. StateInv' /\ pools' = pools /\ (spent' = spent \/ spent' = FALSE)
  <2>1. CASE /\ mem' = next /\ disk' = next /\ spent' = FALSE /\ UNCHANGED <<pools, changes>>
    BY <1>3, <2>1 DEF StateInv
  <2> QED
    BY <1>1, <1>4, <2>1, SaveFailsKept, KeepsKept
<1>6. AroundType'
  BY <1>1, <1>5 DEF AroundType, PersistsPlan
<1>7. CASE Fails(run.stage)
  <2>1. run.stage \in Stages
    BY <1>1 DEF RunType
  <2> QED
    BY <1>1, <1>5, <1>6, <1>7, <2>1, FailsKept, StillRunning DEF IInv
<1>8. CASE run' = [run EXCEPT !.pc = "apply", !.stage = "apply_verify"]
  <2> DEFINE r1 == [run EXCEPT !.pc = "apply"]
             r2 == [r1 EXCEPT !.stage = "apply_verify"]
  <2>1. r1 \in RunType
    BY <1>1, RunFields DEF Steps
  <2>2. r2 \in RunType
    BY <2>1, RunFields DEF Stages
  <2>3. r2.pc = "apply" /\ r2.pool = run.pool /\ r2.resumed = run.resumed
        /\ r2.excluded = run.excluded /\ r2.plan = run.plan
    BY <1>1, SMT DEF RunType
  <2>4. run' = r2
    BY <1>8
  <2> HIDE DEF r1, r2
  <2>5. Ready' /\ PlanIsNew' /\ NoPlanTwice' /\ CooldownHolds'
    BY <1>1, <1>5, <2>3, <2>4
    DEF Ready, PlanIsNew, Untried, NoPlanTwice, CooldownHolds, Beginning
  <2>6. RunInv'
    BY <1>1, <1>5, <2>2, <2>3, <2>4, <2>5 DEF RunInv
  <2>7. RankAt(run') < RankAt(run)
    <3>1. Left(run') = Left(run)
      BY <2>3, <2>4 DEF Left
    <3> QED
      BY <1>1, <2>2, <2>3, <2>4, <3>1, Ranks
  <2> QED
    BY <1>5, <1>6, <2>6, <2>7 DEF IInv
<1> QED
  BY <1>4, <1>7, <1>8

LEMMA AppliesKept ==
  ASSUME IInv, Applies
  PROVE  IInv' /\ RankAt(run') < RankAt(run)
<1>1. /\ AroundType /\ RunInv /\ StateInv /\ run.pc = "apply" /\ pools \in Nat
      /\ run \in RunType /\ run.pool \in 0..pools
  BY InvParts DEF Applies
<1>2. StateInv' /\ UNCHANGED <<pools, spent, mem, disk>>
  BY <1>1, KeepsKept DEF Applies
<1>3. AroundType'
  BY <1>1, <1>2 DEF AroundType, Applies
<1> DEFINE r1 == [run EXCEPT !.pc = "commit"]
           r2 == [r1 EXCEPT !.stage = "commit"]
           r3 == [r2 EXCEPT !.plan = None]
           r4 == [r3 EXCEPT !.resumed = None]
<1>4. r1 \in RunType
  BY <1>1, RunFields DEF Steps
<1>5. r2 \in RunType
  BY <1>4, RunFields DEF Stages
<1>6. r3 \in RunType
  BY <1>5, RunFields
<1>7. r4 \in RunType
  BY <1>6, RunFields
<1>8. r4.pc = "commit" /\ r4.pool = run.pool /\ r4.resumed = None
  BY <1>1, SMT DEF RunType
<1>9. run' = r4
  BY DEF Applies
<1> HIDE DEF r1, r2, r3, r4
<1>10. RunInv'
  BY <1>1, <1>2, <1>7, <1>8, <1>9, RunKept
<1>11. RankAt(run') < RankAt(run)
  BY <1>1, <1>7, <1>8, <1>9, Ranks
<1> QED
  BY <1>2, <1>3, <1>10, <1>11 DEF IInv

\* The pair that failed had not been excluded before: the plan was new.
LEMMA FailsVerificationKept ==
  ASSUME IInv, NEW d \in Domains, FailsVerification(d)
  PROVE  IInv' /\ RankAt(run') < RankAt(run)
<1>1. /\ AroundType /\ RunInv /\ StateInv /\ run.pc = "apply" /\ pools \in Nat
      /\ run \in RunType /\ run.pool \in 0..pools
      /\ Faithful(mem, pools, spent) /\ mem \in States
      /\ run.plan \in Plans /\ Untried(run.plan)
  BY InvParts DEF FailsVerification, RunInv, PlanIsNew
<1> DEFINE node == run.plan[d]
           pair == <<d, node>>
           cooler == mem.cooling \cup {node}
           next == [mem EXCEPT !.cooling = cooler]
           more == run.excluded \cup {pair}
           r1 == [run EXCEPT !.pc = "allocate"]
           r2 == [r1 EXCEPT !.resumed = None]
           r3 == [r2 EXCEPT !.plan = None]
           r4 == [r3 EXCEPT !.excluded = more]
<1>2. \/ Keeps /\ run' = r4
      \/ Saves(next) /\ run' = r4
      \/ SaveFails(next) /\ Fails("apply_verify")
  BY DEF FailsVerification
<1>3. node \in Nodes /\ pair \in Pairs /\ pair \notin run.excluded
  BY <1>1 DEF Plans, Pairs, Untried
<1>4. cooler \in SUBSET Nodes /\ more \in SUBSET Pairs
  BY <1>1, <1>3 DEF States, RunType
<1> HIDE DEF cooler
<1>5. Faithful(next, pools, spent)
  BY <1>1, <1>4, CoolingKept
<1> HIDE DEF next
<1>6. StateInv' /\ UNCHANGED <<pools, spent>>
  BY <1>1, <1>2, <1>5, SavesKept, SaveFailsKept, KeepsKept
<1>7. AroundType'
  BY <1>1, <1>6 DEF AroundType, FailsVerification
<1>8. CASE Fails("apply_verify")
  BY <1>1, <1>6, <1>7, <1>8, FailsKept, StillRunning DEF IInv, Stages
<1>9. CASE run' = r4
  <2> HIDE DEF more
  <2>1. r1 \in RunType
    BY <1>1, RunFields DEF Steps
  <2>2. r2 \in RunType
    BY <2>1, RunFields
  <2>3. r3 \in RunType
    BY <2>2, RunFields
  <2>4. r4 \in RunType
    BY <1>4, <2>3, RunFields
  <2>5. r4.pc = "allocate" /\ r4.pool = run.pool /\ r4.resumed = None /\ r4.excluded = more
    BY <1>1, SMT DEF RunType
  <2> HIDE DEF r1, r2, r3, r4
  <2>6. RunInv'
    BY <1>1, <1>6, <1>9, <2>4, <2>5, RunKept
  <2>7. Left(run') = Left(run) - 1
    <3> DEFINE L == Pairs \ run.excluded
    <3>1. pair \in L /\ Pairs \ more = L \ {pair}
      BY <1>3 DEF more
    <3>2. IsFiniteSet(L)
      BY PairsAreFinite, FS_Difference
    <3> HIDE DEF L
    <3>3. Cardinality(L \ {pair}) = Cardinality(L) - 1
      BY <3>1, <3>2, FS_RemoveElement
    <3> QED
      BY <1>9, <2>5, <3>1, <3>3 DEF Left, L
  <2>8. RankAt(run') < RankAt(run)
    BY <1>1, <1>9, <2>4, <2>5, <2>7, Ranks
  <2> QED
    BY <1>6, <1>7, <2>6, <2>8 DEF IInv
<1> QED
  BY <1>2, <1>8, <1>9

LEMMA FailsToApplyKept ==
  ASSUME IInv, FailsToApply
  PROVE  IInv' /\ RankAt(run') < RankAt(run)
<1>1. AroundType /\ RunInv /\ StateInv /\ run.pc = "apply" /\ pools \in Nat
  BY InvParts DEF FailsToApply
<1>2. StateInv' /\ UNCHANGED <<pools, spent, mem, disk>>
  BY <1>1, KeepsKept DEF FailsToApply
<1>3. AroundType'
  BY <1>1, <1>2 DEF AroundType, FailsToApply
<1>4. Fails("apply_verify") /\ "apply_verify" \in Stages
  BY DEF FailsToApply, Stages
<1> QED
  BY <1>1, <1>2, <1>3, <1>4, FailsKept, StillRunning DEF IInv

\* What a commit writes: no checkpoint is left of the plan.
LEMMA CommitTypes ==
  ASSUME IInv, NEW tired \in SUBSET run.bad, NEW decided \in Decide, NEW gone
  PROVE  /\ Faithful(RecordResults(tired), pools, spent)
         /\ Faithful(persistSuccessfulRun(tired, decided), pools, gone)
<1>1. /\ run \in RunType /\ Faithful(mem, pools, spent) /\ mem \in States
  BY InvParts
<1> DEFINE cooler == (mem.cooling \ run.good) \cup tired
           selected == updateSelection(decided)
           s1 == [mem EXCEPT !.cooling = cooler]
           s2 == [s1 EXCEPT !.checkpoint = None]
           s3 == [s2 EXCEPT !.current = selected]
<1>2. cooler \in SUBSET Nodes
  BY <1>1 DEF States, RunType
<1>3. selected \in Nodes \cup {None}
  BY <1>1 DEF States, RunType, updateSelection, Decide
<1>4. RecordResults(tired) = s1 /\ persistSuccessfulRun(tired, decided) = s3
  BY DEF RecordResults, persistSuccessfulRun
<1> HIDE DEF cooler, selected
<1>5. Faithful(s1, pools, spent)
  BY <1>1, <1>2, CoolingKept
<1>6. s1 \in States
  BY <1>1, <1>2, StateFields
<1>7. s2 \in States
  BY <1>6, StateFields
<1>8. s3 \in States
  BY <1>3, <1>7, StateFields
<1>9. s3.pool = mem.pool /\ s3.checkpoint = None
  BY <1>1, SMT DEF States
<1> HIDE DEF s1, s2, s3
<1>10. Faithful(s3, pools, gone)
  BY <1>1, <1>8, <1>9 DEF Faithful, PoolOf, OfItsPool, Forgotten
<1> QED
  BY <1>4, <1>5, <1>10

LEMMA CommitsKept ==
  ASSUME IInv, Commits
  PROVE  IInv' /\ RankAt(run') < RankAt(run)
<1>1. /\ AroundType /\ RunInv /\ StateInv /\ run.pc = "commit" /\ pools \in Nat
      /\ run \in RunType /\ run.pool \in 0..pools /\ Faithful(mem, pools, spent)
  BY InvParts DEF Commits
<1>2. PICK tired \in SUBSET run.bad, decided \in Decide :
        \/ /\ mem' = persistSuccessfulRun(tired, decided) /\ disk' = mem'
           /\ spent' = (spent \/ run.apply) /\ UNCHANGED <<pools, changes, faults>>
           /\ run' = [Idle EXCEPT !.pc = "reinstate", !.excluded = run.excluded]
        \/ /\ \E shared \in {mem, RecordResults(tired)} : SaveFails(shared)
           /\ Fails("apply_verify")
  BY DEF Commits
<1>3. CASE /\ \E shared \in {mem, RecordResults(tired)} : SaveFails(shared)
           /\ Fails("apply_verify")
  <2>1. Faithful(RecordResults(tired), pools, spent)
    BY CommitTypes
  <2>2. StateInv' /\ UNCHANGED <<pools, spent>>
    BY <1>1, <1>3, <2>1, SaveFailsKept
  <2>3. AroundType'
    BY <1>1, <2>2 DEF AroundType, Commits
  <2> QED
    BY <1>1, <1>3, <2>2, <2>3, FailsKept, StillRunning DEF IInv, Stages
<1>4. CASE /\ mem' = persistSuccessfulRun(tired, decided) /\ disk' = mem'
           /\ spent' = (spent \/ run.apply) /\ UNCHANGED <<pools, changes, faults>>
           /\ run' = [Idle EXCEPT !.pc = "reinstate", !.excluded = run.excluded]
  <2>1. Faithful(persistSuccessfulRun(tired, decided), pools, spent')
    BY CommitTypes
  <2>2. StateInv'
    BY <1>4, <2>1 DEF StateInv
  <2>3. AroundType'
    <3>1. spent' \in BOOLEAN
      <4>1. spent \in BOOLEAN /\ run.apply \in BOOLEAN
        BY <1>1 DEF AroundType, RunType
      <4> QED
        BY <1>4, <4>1, Zenon
    <3> QED
      BY <1>1, <1>4, <3>1 DEF AroundType, Commits
  <2> DEFINE r1 == [Idle EXCEPT !.pc = "reinstate"]
             r2 == [r1 EXCEPT !.excluded = run.excluded]
  <2>4. r1 \in RunType
    BY IdleType, RunFields DEF Steps
  <2>5. r2 \in RunType
    <3>1. run.excluded \in SUBSET Pairs
      BY <1>1 DEF RunType
    <3> QED
      BY <2>4, <3>1, RunFields
  <2>6. r2.pc = "reinstate" /\ r2.pool = 0 /\ r2.resumed = None
    BY IdleType, SMT DEF RunType
  <2>7. run' = r2
    BY <1>4
  <2> HIDE DEF r1, r2
  <2>8. RunInv'
    <3>1. pools' = pools /\ 0 \in 0..pools
      BY <1>1, <1>4
    <3>2. run' \in RunType /\ run'.pool \in 0..pools' /\ run'.resumed = None
          /\ run'.pc = "reinstate"
      BY <2>5, <2>6, <2>7, <3>1
    <3> QED
      BY <3>2, RunKept
  <2>9. RankAt(run') < RankAt(run)
    BY <1>1, <2>5, <2>6, <2>7, Ranks
  <2> QED
    BY <2>2, <2>3, <2>8, <2>9 DEF IInv
<1> QED
  BY <1>2, <1>3, <1>4

\* The nodes that failed a verification are in cooldown again, in memory and in
\* the file, before the run reports success.
LEMMA ReinstatesKept ==
  ASSUME IInv, Reinstates
  PROVE  IInv' /\ RankAt(run') < RankAt(run)
<1>1. /\ AroundType /\ RunInv /\ StateInv /\ run.pc = "reinstate" /\ pools \in Nat
      /\ run \in RunType /\ run.pool \in 0..pools /\ Faithful(mem, pools, spent)
      /\ mem \in States /\ (run.resumed # None => ~spent)
  BY InvParts DEF Reinstates
<1> DEFINE cooler == reinstateApplicationFailureCooldown
           next == [mem EXCEPT !.cooling = cooler]
<1>2. cooler \in SUBSET Nodes /\ FailedNodes \subseteq cooler
  <2>1. FailedNodes \subseteq Nodes
    BY <1>1 DEF FailedNodes, RunType, Pairs
  <2> QED
    BY <1>1, <2>1 DEF reinstateApplicationFailureCooldown, States
<1>3. \/ Saves(next) /\ GoesTo("done")
      \/ SaveFails(next) /\ Fails("commit")
  BY DEF Reinstates
<1> HIDE DEF cooler
<1>4. Faithful(next, pools, spent) /\ next.cooling = cooler
  BY <1>1, <1>2, CoolingKept
<1> HIDE DEF next
<1>5. StateInv' /\ UNCHANGED <<pools, spent>>
  BY <1>1, <1>3, <1>4, SavesKept, SaveFailsKept
<1>6. AroundType'
  BY <1>1, <1>5 DEF AroundType, Reinstates
<1>7. CASE SaveFails(next) /\ Fails("commit")
  BY <1>1, <1>5, <1>6, <1>7, FailsKept, StillRunning DEF IInv, Stages
<1>8. CASE Saves(next) /\ GoesTo("done")
  <2>1. /\ run' \in RunType /\ run'.pc = "done" /\ run'.excluded = run.excluded
        /\ run'.pool = run.pool /\ run'.resumed = run.resumed
    BY <1>1, <1>8, GoesToType DEF Steps
  <2>2. mem'.cooling = cooler /\ disk'.cooling = cooler
    BY <1>4, <1>8 DEF Saves
  <2>3. FailedNodes' = FailedNodes
    BY <2>1 DEF FailedNodes
  <2>4. CooldownHolds'
    BY <1>2, <2>2, <2>3 DEF CooldownHolds
  <2>5. Ready' /\ PlanIsNew' /\ NoPlanTwice'
    BY <1>1, <1>5, <2>1 DEF Ready, PlanIsNew, NoPlanTwice, Beginning
  <2>6. RunInv'
    <3>1. run'.pool \in 0..pools'
      BY <1>1, <1>5, <2>1
    <3> QED
      BY <2>1, <2>4, <2>5, <3>1 DEF RunInv
  <2>7. RankAt(run') < RankAt(run)
    BY <1>1, <2>1, Ranks
  <2> QED
    BY <1>5, <1>6, <2>6, <2>7 DEF IInv
<1> QED
  BY <1>3, <1>7, <1>8

\* A run that is over.
LEMMA IdleKept ==
  ASSUME run' = Idle, pools' \in Nat
  PROVE  RunInv' /\ RankAt(run') = 0
  BY IdleType, Ranks, RunKept

\* The evidence stays with the pool it is of.
LEMMA MarkKept ==
  ASSUME IInv, run.pc = "failing"
  PROVE  Faithful(markCheckpointFailure, pools, spent)
<1>1. /\ AroundType /\ run \in RunType /\ Faithful(mem, pools, spent) /\ mem \in States
      /\ run.stage \in Stages
  BY InvParts DEF RunType
<1> DEFINE cp == mem.checkpoint
           pool == IF cp = None THEN 0 ELSE cp.pool
           ev == IF cp = None THEN None ELSE cp.evidence
<1>2. /\ pool \in 0..MaxPools /\ ev \in Evidence \cup {None}
      /\ (ev # None => ev.pool = pool) /\ (spent => ev = None)
  <2>1. CASE cp = None
    BY <2>1, OptimizationBounds
  <2>2. CASE cp # None
    <3>1. cp \in Checkpoints
      BY <1>1, <2>2 DEF States
    <3>2. cp.evidence \in Evidence \cup {None} /\ cp.pool \in 0..MaxPools
      BY <3>1 DEF Checkpoints
    <3> QED
      BY <1>1, <2>2, <3>2 DEF Faithful, OfItsPool, Forgotten
  <2> QED
    BY <2>1, <2>2
<1>3. markCheckpointFailure =
        [mem EXCEPT !.checkpoint =
           [stage |-> run.stage, pool |-> pool, config |-> config, net |-> Fingerprint,
            evidence |-> ev]]
  BY <1>1 DEF markCheckpointFailure, States
<1> HIDE DEF pool, ev
<1>4. Faithful([mem EXCEPT !.checkpoint =
                  [stage |-> run.stage, pool |-> pool, config |-> config, net |-> Fingerprint,
                   evidence |-> ev]], pools, spent)
  BY <1>1, <1>2, CheckpointKept
<1> QED
  BY <1>3, <1>4

LEMMA MarksFailureKept ==
  ASSUME IInv, MarksFailure
  PROVE  IInv' /\ RankAt(run') < RankAt(run)
<1>1. /\ AroundType /\ RunInv /\ StateInv /\ run.pc = "failing" /\ pools \in Nat
      /\ run \in RunType /\ Faithful(mem, pools, spent) /\ run' = Idle
  BY InvParts DEF MarksFailure
<1> DEFINE shared == IF mem.checkpoint = None THEN mem ELSE markCheckpointFailure
<1>2. \/ Saves(markCheckpointFailure) \/ SaveFails(shared)
      \/ mem' = shared /\ disk' = shared /\ UNCHANGED <<spent, pools, changes>>
  BY DEF MarksFailure
<1>3. Faithful(markCheckpointFailure, pools, spent) /\ Faithful(shared, pools, spent)
  BY <1>1, MarkKept
<1> HIDE DEF shared
<1>4. StateInv' /\ UNCHANGED <<pools, spent>>
  <2>1. CASE mem' = shared /\ disk' = shared /\ UNCHANGED <<spent, pools, changes>>
    BY <1>3, <2>1 DEF StateInv
  <2> QED
    BY <1>1, <1>2, <1>3, <2>1, SavesKept, SaveFailsKept
<1>5. AroundType'
  BY <1>1, <1>4 DEF AroundType, MarksFailure
<1>6. RunInv' /\ RankAt(run') = 0 /\ RankAt(run) = 1
  BY <1>1, <1>4, IdleKept, Ranks
<1> QED
  BY <1>4, <1>5, <1>6 DEF IInv

LEMMA FinalizesKept ==
  ASSUME IInv, Finalizes
  PROVE  IInv' /\ RankAt(run') < RankAt(run)
<1>1. /\ AroundType /\ RunInv /\ StateInv /\ run.pc = "done" /\ pools \in Nat
      /\ run \in RunType
  BY InvParts DEF Finalizes
<1>2. StateInv' /\ UNCHANGED <<pools, spent, mem, disk>>
  BY <1>1, KeepsKept DEF Finalizes
<1>3. AroundType'
  BY <1>1, <1>2 DEF AroundType, Finalizes
<1>4. RankAt(run) = 2
  BY <1>1, Ranks
<1>5. RunInv' /\ RankAt(run') \in {0, 1}
  BY <1>1, <1>2, IdleKept, FailsKept DEF Finalizes, RoutesFail, Stages
<1> QED
  BY <1>2, <1>3, <1>4, <1>5 DEF IInv

\* A run ends, step by step.
LEMMA RunStepKept ==
  ASSUME IInv, RunStep
  PROVE  IInv' /\ RankAt(run') < RankAt(run)
  BY UpdatesRangesKept, ReplacesUnsafeMappingsKept, MeasuresKept, ReusesPoolKept,
     RefreshesPoolKept, FailsToRefreshKept, ResumesDomainsKept, QualifiesDomainsKept,
     AllocatesKept, PersistsPlanKept, AppliesKept, FailsVerificationKept, FailsToApplyKept,
     CommitsKept, ReinstatesKept, MarksFailureKept, FinalizesKept DEF RunStep

-----------------------------------------------------------------------------
(* Around the runs *)

LEMMA BeginsKept ==
  ASSUME IInv, NEW apply \in BOOLEAN, NEW force \in BOOLEAN, Begins(apply, force)
  PROVE  IInv'
<1>1. /\ AroundType /\ RunInv /\ StateInv /\ pools \in Nat /\ Faithful(mem, pools, spent)
  BY InvParts
<1>2. StateInv' /\ UNCHANGED <<pools, spent>>
  BY <1>1, SavesKept DEF Begins
<1>3. AroundType'
  BY <1>1, <1>2 DEF AroundType, Begins
<1> DEFINE r1 == [Idle EXCEPT !.pc = "ranges"]
           r2 == [r1 EXCEPT !.apply = apply]
           r3 == [r2 EXCEPT !.force = force]
<1>4. r1 \in RunType
  BY IdleType, RunFields DEF Steps, Beginning
<1>5. r2 \in RunType
  BY <1>4, RunFields
<1>6. r3 \in RunType
  BY <1>5, RunFields
<1>7. r3.pc = "ranges" /\ r3.excluded = {} /\ r3.pool = 0 /\ r3.resumed = None
  BY IdleType, SMT DEF RunType
<1>8. run' = r3
  BY DEF Begins
<1> HIDE DEF r1, r2, r3
<1>9. RunInv'
  BY <1>1, <1>2, <1>6, <1>7, <1>8, BeginningKept DEF Beginning
<1> QED
  BY <1>2, <1>3, <1>9 DEF IInv

\* Between the runs a run needs nothing but that it is one.
LEMMA IdleStays ==
  ASSUME RunInv, run.pc = "idle", UNCHANGED <<run, pools, spent>>
  PROVE  RunInv'
<1>1. run' \in RunType /\ run'.pool \in 0..pools' /\ (run'.resumed # None => ~spent')
  BY DEF RunInv, NoPlanTwice
<1> QED
  BY <1>1, RunKept

LEMMA WorldChangesKept ==
  ASSUME IInv, NEW c \in Configs, NEW w \in Networks, NEW l \in Lists,
         Reconfigures(c) \/ NetworkChanges(w) \/ RangesChange(l)
  PROVE  IInv' /\ run.pc = "idle"
<1>1. AroundType /\ RunInv /\ StateInv
  BY DEF IInv
<1>2. run.pc = "idle" /\ UNCHANGED <<mem, disk, run, spent, pools>>
  BY DEF Reconfigures, NetworkChanges, RangesChange, Changed
<1>3. world' \in WorldType
  BY <1>1, SMT DEF AroundType, WorldType, Reconfigures, NetworkChanges, RangesChange
<1>4. active' \in Networks \cup {None}
  BY <1>1 DEF AroundType, Reconfigures, NetworkChanges, RangesChange
<1>5. AroundType'
  BY <1>1, <1>2, <1>3, <1>4 DEF AroundType
<1>6. StateInv'
  BY <1>1, <1>2 DEF StateInv
<1>7. RunInv'
  BY <1>1, <1>2, IdleStays
<1> QED
  BY <1>2, <1>5, <1>6, <1>7 DEF IInv

LEMMA Ageing ==
  /\ \A p \in NodePools :
       [p EXCEPT !.fresh = FALSE] \in NodePools /\ [p EXCEPT !.fresh = FALSE].id = p.id
  /\ \A ev \in Evidence :
       [ev EXCEPT !.fresh = FALSE] \in Evidence /\ [ev EXCEPT !.fresh = FALSE].pool = ev.pool
<1>1. ASSUME NEW p \in NodePools
      PROVE  [p EXCEPT !.fresh = FALSE] \in NodePools /\ [p EXCEPT !.fresh = FALSE].id = p.id
  <2>1. \A x \in BOOLEAN : [p EXCEPT !.fresh = x] \in NodePools
    BY SMT DEF NodePools
  <2>2. [p EXCEPT !.fresh = FALSE].id = p.id
    BY SMT DEF NodePools
  <2> QED
    BY <2>1, <2>2
<1>2. ASSUME NEW ev \in Evidence
      PROVE  [ev EXCEPT !.fresh = FALSE] \in Evidence /\ [ev EXCEPT !.fresh = FALSE].pool = ev.pool
  <2>1. \A x \in BOOLEAN : [ev EXCEPT !.fresh = x] \in Evidence
    BY SMT DEF Evidence
  <2>2. [ev EXCEPT !.fresh = FALSE].pool = ev.pool
    BY SMT DEF Evidence
  <2> QED
    BY <2>1, <2>2
<1> QED
  BY <1>1, <1>2

\* What expires changes neither pool nor evidence but in their age.
LEMMA AgedKept ==
  ASSUME NEW s, NEW n \in Nat, NEW c, Faithful(s, n, c), NEW node \in Nodes,
         NEW what \in {"pool", "evidence", "cooldown"}
  PROVE  Faithful(Aged(s, what, node), n, c)
<1>1. s \in States
  BY DEF Faithful
<1>2. CASE what = "pool"
  <2>1. CASE s.pool = None
    BY <1>2, <2>1 DEF Aged
  <2>2. CASE s.pool # None
    <3> DEFINE pool == [s.pool EXCEPT !.fresh = FALSE]
               t == [s EXCEPT !.pool = pool]
    <3>1. s.pool \in NodePools
      BY <1>1, <2>2 DEF States
    <3>2. pool \in NodePools /\ pool.id = s.pool.id
      BY <3>1, Ageing
    <3>3. s.pool.id \in 0..n
      BY <2>2 DEF Faithful, PoolOf
    <3>4. Aged(s, what, node) = t
      BY <1>1, <1>2, <2>2 DEF Aged, States
    <3> HIDE DEF pool
    <3>5. t \in States
      BY <1>1, <3>2, StateFields
    <3>6. t.pool = pool /\ t.checkpoint = s.checkpoint
      BY <1>1, SMT DEF States
    <3> HIDE DEF t
    <3>7. PoolOf(t) \in 0..n
      BY <3>2, <3>3, <3>6 DEF PoolOf
    <3> QED
      BY <3>4, <3>5, <3>6, <3>7 DEF Faithful, OfItsPool, Forgotten
  <2> QED
    BY <2>1, <2>2
<1>3. CASE what = "evidence"
  <2>1. CASE s.checkpoint = None \/ s.checkpoint.evidence = None
    BY <1>3, <2>1 DEF Aged
  <2>2. CASE s.checkpoint # None /\ s.checkpoint.evidence # None
    <3> DEFINE cp == s.checkpoint
               ev == [cp.evidence EXCEPT !.fresh = FALSE]
               cq == [cp EXCEPT !.evidence = ev]
               t == [s EXCEPT !.checkpoint = cq]
    <3>1. cp \in Checkpoints
      BY <1>1, <2>2 DEF States
    <3>2. cp.evidence \in Evidence
      BY <2>2, <3>1 DEF Checkpoints
    <3>3. ev \in Evidence /\ ev.pool = cp.evidence.pool
      BY <3>2, Ageing
    <3>4. Aged(s, what, node) = t
      BY <1>1, <1>3, <2>2 DEF Aged, States
    <3> HIDE DEF ev
    <3>5. cq \in Checkpoints /\ cq.evidence = ev /\ cq.pool = cp.pool
      BY <3>1, <3>3, SMT DEF Checkpoints
    <3> HIDE DEF cq
    <3>6. t \in States
      BY <1>1, <3>5, StateFields
    <3>7. t.pool = s.pool /\ t.checkpoint = cq
      BY <1>1, SMT DEF States
    <3> HIDE DEF t
    <3> QED
      BY <2>2, <3>3, <3>4, <3>5, <3>6, <3>7 DEF Faithful, PoolOf, OfItsPool, Forgotten
  <2> QED
    BY <2>1, <2>2
<1>4. CASE what = "cooldown"
  <2> DEFINE cooler == s.cooling \ {node}
  <2>1. cooler \in SUBSET Nodes
    BY <1>1 DEF States
  <2>2. Aged(s, what, node) = [s EXCEPT !.cooling = cooler]
    BY <1>4 DEF Aged
  <2> HIDE DEF cooler
  <2> QED
    BY <2>1, <2>2, CoolingKept
<1> QED
  BY <1>2, <1>3, <1>4

LEMMA ExpiresKept ==
  ASSUME IInv, NEW what \in {"pool", "evidence", "cooldown"}, NEW node \in Nodes,
         Expires(what, node)
  PROVE  IInv' /\ run.pc = "idle"
<1>1. AroundType /\ RunInv /\ StateInv /\ pools \in Nat
  BY InvParts
<1>2. run.pc = "idle" /\ UNCHANGED <<run, active, world, spent, pools>>
  BY DEF Expires, counted
<1>3. StateInv'
  BY <1>1, <1>2, AgedKept DEF StateInv, Expires
<1>4. AroundType' /\ RunInv'
  BY <1>1, <1>2, IdleStays DEF AroundType
<1> QED
  BY <1>2, <1>3, <1>4 DEF IInv

LEMMA CrashesKept ==
  ASSUME IInv, Crashes
  PROVE  IInv' /\ RankAt(run') = 0
<1>1. AroundType /\ RunInv /\ StateInv /\ pools \in Nat
  BY InvParts
<1>2. StateInv'
  BY <1>1 DEF StateInv, Crashes
<1>3. AroundType'
  BY <1>1 DEF AroundType, Crashes
<1>4. RunInv' /\ RankAt(run') = 0
  BY <1>1, IdleKept DEF Crashes
<1> QED
  BY <1>2, <1>3, <1>4 DEF IInv

-----------------------------------------------------------------------------
(* The theorems *)

LEMMA InitIInv == Init => IInv
<1> SUFFICES ASSUME Init PROVE IInv
  OBVIOUS
<1>1. /\ run = Idle /\ active = None /\ spent = FALSE /\ pools = 0 /\ disk = mem
  BY DEF Init
<1>2. AroundType
  <2>1. world \in WorldType
    BY SMT DEF Init, WorldType
  <2> QED
    <3>1. pools \in 0..MaxPools
      BY <1>1, OptimizationBounds
    <3> QED
      BY <1>1, <2>1, <3>1 DEF AroundType
<1>3. StateInv
  <2>1. PICK unsafe \in BOOLEAN, n \in Nodes :
          mem = [pool |-> None, checkpoint |-> None, cooling |-> {},
                 current |-> IF unsafe THEN n ELSE None, unsafe |-> unsafe]
    BY DEF Init
  <2> DEFINE selected == IF unsafe THEN n ELSE None
  <2>2. selected \in Nodes \cup {None}
    OBVIOUS
  <2>3. mem = [pool |-> None, checkpoint |-> None, cooling |-> {},
               current |-> selected, unsafe |-> unsafe]
    BY <2>1
  <2> HIDE DEF selected
  <2>4. mem \in States
    BY <2>2, <2>3, SMT DEF States
  <2>5. mem.pool = None /\ mem.checkpoint = None
    BY <2>3, SMT
  <2>6. Faithful(mem, pools, spent)
    BY <1>1, <2>4, <2>5 DEF Faithful, PoolOf, OfItsPool, Forgotten
  <2> QED
    BY <1>1, <2>6 DEF StateInv
<1>4. RunInv
  <2>1. Ready /\ PlanIsNew /\ NoPlanTwice /\ CooldownHolds
    BY <1>1, IdleType DEF Ready, PlanIsNew, NoPlanTwice, CooldownHolds, Beginning
  <2> QED
    BY <1>1, <2>1, IdleType DEF RunInv
<1> QED
  BY <1>2, <1>3, <1>4 DEF IInv

\* A step keeps the invariant, and a run that has not ended comes closer to it.
LEMMA NextKept ==
  ASSUME IInv, [Next]_vars
  PROVE  IInv' /\ (run' # run /\ run.pc # "idle" => RankAt(run') < RankAt(run))
<1>1. CASE RunStep
  BY <1>1, RunStepKept
<1>2. CASE \E apply, force \in BOOLEAN : Begins(apply, force)
  BY <1>2, BeginsKept DEF Begins
<1>3. CASE \/ \E c \in Configs : Reconfigures(c)
           \/ \E w \in Networks : NetworkChanges(w)
           \/ \E l \in Lists : RangesChange(l)
  <2>1. world \in WorldType
    BY DEF IInv, AroundType
  <2>2. world.config \in Configs /\ world.net \in Networks /\ world.official \in Lists
    BY <2>1 DEF WorldType
  <2> QED
    BY <1>3, <2>2, WorldChangesKept
<1>4. CASE \E what \in {"pool", "evidence", "cooldown"}, n \in Nodes : Expires(what, n)
  BY <1>4, ExpiresKept
<1>5. CASE Crashes
  <2>1. IInv' /\ RankAt(run') = 0
    BY <1>5, CrashesKept
  <2>2. run.pc # "idle" => 0 < RankAt(run)
    <3>1. run \in RunType /\ RunInv
      BY InvParts
    <3>2. run.pc = "failing" => RankAt(run) = 1
      BY <3>1, Ranks
    <3>3. run.pc \notin {"idle", "failing"} => 1 < RankAt(run)
      BY <3>1, StillRunning
    <3>4. run.pc \notin {"idle", "failing"} => RankAt(run) \in Nat
      BY <3>1, Ranks DEF RunType, Steps, Beginning
    <3> QED
      BY <3>2, <3>3, <3>4
  <2> QED
    BY <2>1, <2>2
<1>6. CASE UNCHANGED vars
  <2>1. UNCHANGED <<mem, disk, run, active, world, spent, pools>>
    BY <1>6 DEF vars
  <2>2. AroundType' /\ StateInv'
    BY <2>1 DEF IInv, AroundType, StateInv
  <2>3. RunInv'
    BY <2>1 DEF IInv, RunInv, Ready, PlanIsNew, Untried, NoPlanTwice, CooldownHolds, FailedNodes
  <2> QED
    BY <2>1, <2>2, <2>3 DEF IInv
<1> QED
  BY <1>1, <1>2, <1>3, <1>4, <1>5, <1>6 DEF Next, Around

\* The invariant holds in every reachable state.
LEMMA Invariance == Spec => []IInv
<1>1. IInv /\ [Next]_vars => IInv'
  BY NextKept
<1> QED
  BY InitIInv, <1>1, PTL DEF Spec

\* The states and the local variables of a run have their types, whatever runs
\* came before.
THEOREM TypeCorrect == Spec => []TypeOK
<1>1. IInv => TypeOK
  <2> SUFFICES ASSUME IInv PROVE TypeOK
    OBVIOUS
  <2>1. {mem, disk} \subseteq States /\ run.pool \in 0..pools /\ active \in Networks \cup {None}
    BY InvParts DEF AroundType
  <2>2. run.good \subseteq Nodes /\ run.plan \in Plans \cup {None}
    BY InvParts DEF RunType
  <2> QED
    BY <2>1, <2>2 DEF TypeOK
<1> QED
  BY <1>1, Invariance, PTL

\* The evidence a checkpoint holds was gathered from the pool it names, in
\* memory and in the file, whatever runs failed, found no pool or replaced it.
THEOREM EvidenceIsOfItsPool == Spec => []EvidenceOfItsPool
<1>1. IInv => EvidenceOfItsPool
  BY DEF IInv, StateInv, Faithful, OfItsPool, EvidenceOfItsPool
<1> QED
  BY <1>1, Invariance, PTL

\* No run goes on with the evidence of a plan that was committed, whatever
\* writes failed and whenever the process died.
THEOREM PlansAreCommittedOnce == Spec => []NoPlanTwice
<1>1. IInv => NoPlanTwice
  BY DEF IInv, RunInv
<1> QED
  BY <1>1, Invariance, PTL

\* A run that reports success leaves every address that failed the verification
\* of one of its plans in cooldown, in memory and in the file.
THEOREM FailedNodesCool == Spec => []CooldownHolds
<1>1. IInv => CooldownHolds
  BY DEF IInv, RunInv
<1> QED
  BY <1>1, Invariance, PTL

\* A run ends: every step of it lowers a rank that is a natural number, however
\* many nodes and domains there are and however often a plan is retried.
THEOREM RunsEnd == Spec => RunEnds
<1>1. IInv /\ [Next]_vars => [run.pc # "idle" => Rank' < Rank]_run
  <2> SUFFICES ASSUME IInv, [Next]_vars, run' # run, run.pc # "idle"
               PROVE  Rank' < Rank
    OBVIOUS
  <2>1. RankAt(run') < RankAt(run)
    BY NextKept
  <2>2. Rank = RankAt(run) /\ Rank' = RankAt(run')
    BY DEF Rank, RankAt, After, Retrying, Before, Pairs
  <2> QED
    BY <2>1, <2>2
<1> QED
  BY <1>1, Invariance, PTL DEF Spec, RunEnds
==============================================================================
