------------------------ MODULE DomainDiscoveryProofs ------------------------
(***************************************************************************)
(* Safety of the automatic domains, for every set of domains and of        *)
(* configurations, every limit on the records and every number of rounds,  *)
(* operations, clearings, failures and crashes.                            *)
(*                                                                         *)
(* ManualStays speaks of the configuration of the moment and ClearedIsGone *)
(* of the records and the policies only.  IInv adds                        *)
(*   - Covers for the configuration of the last commit, whichever is in    *)
(*     force, as a failed change brings an older one back, and the same    *)
(*     for the plan of a checkpoint and the configuration that it was made *)
(*     for, whatever it is stamped with: a run commits it unseen;          *)
(*   - OpInv: what the operation at work asks for was not cleared, and     *)
(*     when it comes to apply a policy it has all manual domains;          *)
(*   - RoundInv: what a round has activated was not cleared since, as no   *)
(*     clearing comes in between.                                          *)
(***************************************************************************)
EXTENDS DomainDiscovery, TLAPS

RecordMaps == [Domains -> Records \cup {None}]
RoundType ==
  [pc : {"idle", "write", "refresh", "waiting", "undo"},
   updates : {None} \cup RecordMaps, activated : SUBSET Domains, changed : BOOLEAN,
   overtaken : SUBSET Domains]
OpType ==
  [kind : {"run", "dry", "refresh", "domains", "clear", None},
   pc : {"idle", "pool", "commit", "allocate", "settle", "isolate", "apply"}, drop : SUBSET Domains,
   asked : SUBSET Domains, got : SUBSET Domains, failed : SUBSET Domains,
   suspect : SUBSET Domains, resumed : BOOLEAN, of : Configs \cup {None},
   previous : Configs \cup {None}]

\* What holds of the state in memory and of the one in the file.
Gone(s, domains) ==
  /\ domains \cap Recorded(s.records) = {}
  /\ s.policy # None => domains \cap s.policy = {}
Covers(s, c) == c # None => s.policy # None /\ AccelerationDomains(c) \subseteq s.policy
PlanCovers(s) == s.plan # None => AccelerationDomains(s.plan.of) \subseteq s.plan.domains
Good(s, domains, c) == s \in States /\ Gone(s, domains) /\ Covers(s, c) /\ PlanCovers(s)
StateInv == Good(mem, cleared, settled) /\ Good(disk, cleared, settled)

AroundType ==
  /\ config \in Configs /\ settled \in Configs \cup {None} /\ cleared \in SUBSET Domains
  /\ cleared \cap AccelerationDomains(config) = {}

OpInv ==
  /\ op \in OpType /\ op.got \subseteq op.asked
  /\ op.pc = "idle" => op = NoOp
  /\ op.asked \cap (cleared \cup op.drop) = {}
  /\ op.drop \cap AccelerationDomains(config) = {}
  /\ op.drop # {} => op.kind = "clear"
  /\ op.pc \in {"pool", "commit"} => op.drop = {}
  /\ op.kind = "domains" =>
       op.previous \in Configs /\ cleared \cap AccelerationDomains(op.previous) = {}
  /\ op.pc = "settle" =>
       /\ op.of \in Configs /\ AccelerationDomains(op.of) \subseteq op.asked
       /\ op.of = config \/ op.asked \subseteq op.got
  /\ op.pc = "settle" /\ ~op.resumed => op.of = config
  /\ op.pc = "apply" => op.of \in Configs /\ AccelerationDomains(op.of) \subseteq op.got

Written(r) == {d \in Domains : r.updates[d] # None}
RoundInv ==
  /\ round \in RoundType
  /\ round.pc # "idle" => round.overtaken = {} /\ op.kind # "clear"
  /\ op.kind = "refresh" => round.pc = "waiting"
  /\ round.pc = "write" => round.updates \in RecordMaps /\ round.activated \subseteq Written(round)
  /\ round.pc \in {"refresh", "waiting", "undo"} => round.activated \cap cleared = {}

IInv == AroundType /\ StateInv /\ OpInv /\ RoundInv

-----------------------------------------------------------------------------
(* The records, one field at a time *)

LEMMA StateFields ==
  ASSUME NEW s \in States
  PROVE  /\ s.records \in RecordMaps
         /\ \A x \in RecordMaps : [s EXCEPT !.records = x] \in States
         /\ \A x \in {None} \cup SUBSET Domains : [s EXCEPT !.policy = x] \in States
         /\ \A x \in Checkpoints \cup {None} :
              [s EXCEPT !.plan = x] \in States
<1>1. s.records \in RecordMaps
  BY DEF States, RecordMaps
<1>2. \A x \in RecordMaps : [s EXCEPT !.records = x] \in States
  BY SMT DEF States, RecordMaps
<1>3. \A x \in {None} \cup SUBSET Domains : [s EXCEPT !.policy = x] \in States
  BY SMT DEF States
<1>4. \A x \in Checkpoints \cup {None} :
        [s EXCEPT !.plan = x] \in States
  <2> DEFINE P == Checkpoints \cup {None}
  <2>1. s \in [records : [Domains -> Records \cup {None}],
               policy : {None} \cup SUBSET Domains, plan : P]
    BY DEF States
  <2> HIDE DEF P
  <2>2. \A x \in P : [s EXCEPT !.plan = x] \in
           [records : [Domains -> Records \cup {None}],
            policy : {None} \cup SUBSET Domains, plan : P]
    BY <2>1, SMT
  <2> QED
    BY <2>2 DEF States, P
<1> QED
  BY <1>1, <1>2, <1>3, <1>4

LEMMA RoundFields ==
  ASSUME NEW r \in RoundType
  PROVE  /\ \A x \in {"idle", "write", "refresh", "waiting", "undo"} :
              LET q == [r EXCEPT !.pc = x] IN
                /\ q \in RoundType /\ q.pc = x /\ q.overtaken = r.overtaken
                /\ q.activated = r.activated /\ q.updates = r.updates
         /\ \A x \in SUBSET Domains :
              LET q == [r EXCEPT !.overtaken = x] IN
                /\ q \in RoundType /\ q.pc = r.pc /\ q.overtaken = x
                /\ q.activated = r.activated /\ q.updates = r.updates
         /\ LET q == [r EXCEPT !.updates = None] IN
              /\ q \in RoundType /\ q.pc = r.pc /\ q.overtaken = r.overtaken
              /\ q.activated = r.activated
<1> DEFINE M == {None} \cup RecordMaps
           T == [pc : {"idle", "write", "refresh", "waiting", "undo"},
                 updates : M, activated : SUBSET Domains,
                 changed : BOOLEAN, overtaken : SUBSET Domains]
<1>1. RoundType = T /\ None \in M
  BY DEF RoundType
<1> HIDE DEF M
<1>4. LET q == [r EXCEPT !.updates = None] IN
        /\ q \in T /\ q.pc = r.pc /\ q.overtaken = r.overtaken /\ q.activated = r.activated
  <2>1. [r EXCEPT !.updates = None] \in T
    BY <1>1, SMT
  <2> QED
    BY <1>1, <2>1, SMT
<1>2. ASSUME NEW x \in {"idle", "write", "refresh", "waiting", "undo"}
      PROVE  LET q == [r EXCEPT !.pc = x] IN
                /\ q \in T /\ q.pc = x /\ q.overtaken = r.overtaken
                /\ q.activated = r.activated /\ q.updates = r.updates
  <2>1. \A y \in {"idle", "write", "refresh", "waiting", "undo"} : [r EXCEPT !.pc = y] \in T
    BY <1>1, SMT
  <2> QED
    BY <1>1, <2>1, SMT
<1>3. ASSUME NEW x \in SUBSET Domains
      PROVE  LET q == [r EXCEPT !.overtaken = x] IN
                /\ q \in T /\ q.pc = r.pc /\ q.overtaken = x
                /\ q.activated = r.activated /\ q.updates = r.updates
  <2>1. \A y \in SUBSET Domains : [r EXCEPT !.overtaken = y] \in T
    BY <1>1, SMT
  <2> QED
    BY <1>1, <2>1, SMT
<1> HIDE DEF T
<1> QED
  BY <1>1, <1>2, <1>3, <1>4

LEMMA OpFields ==
  ASSUME NEW o \in OpType
  PROVE  /\ \A x \in {"run", "dry", "refresh", "domains", "clear"} :
              [o EXCEPT !.kind = x] \in OpType
         /\ \A x \in {"idle", "pool", "commit", "allocate", "settle", "isolate", "apply"} :
              [o EXCEPT !.pc = x] \in OpType
         /\ \A x \in SUBSET Domains :
              /\ [o EXCEPT !.drop = x] \in OpType /\ [o EXCEPT !.asked = x] \in OpType
              /\ [o EXCEPT !.got = x] \in OpType /\ [o EXCEPT !.failed = x] \in OpType
              /\ [o EXCEPT !.suspect = x] \in OpType
         /\ \A x \in BOOLEAN : [o EXCEPT !.resumed = x] \in OpType
         /\ \A x \in Configs : [o EXCEPT !.of = x] \in OpType
         /\ \A x \in Configs : [o EXCEPT !.previous = x] \in OpType
<1> DEFINE K == {"run", "dry", "refresh", "domains", "clear", None}
           L == {"idle", "pool", "commit", "allocate", "settle", "isolate", "apply"}
           T == [kind : K, pc : L, drop : SUBSET Domains, asked : SUBSET Domains, got : SUBSET Domains,
                 failed : SUBSET Domains, suspect : SUBSET Domains, resumed : BOOLEAN,
                 of : Configs \cup {None}, previous : Configs \cup {None}]
<1>0. OpType = T /\ \A x \in {"run", "dry", "refresh", "domains", "clear"} : x \in K
  BY DEF OpType
<1> HIDE DEF K, L
<1>1. \A x \in K : [o EXCEPT !.kind = x] \in T
  BY <1>0, SMT
<1>6. \A x \in L : [o EXCEPT !.pc = x] \in T
  BY <1>0, SMT
<1> HIDE DEF T
<1>2. \A x \in SUBSET Domains :
        [o EXCEPT !.drop = x] \in OpType /\ [o EXCEPT !.asked = x] \in OpType
  BY SMT DEF OpType
<1>3. \A x \in SUBSET Domains :
        [o EXCEPT !.got = x] \in OpType /\ [o EXCEPT !.failed = x] \in OpType
  BY SMT DEF OpType
<1>4. \A x \in SUBSET Domains : [o EXCEPT !.suspect = x] \in OpType
  BY SMT DEF OpType
<1>5. /\ \A x \in BOOLEAN : [o EXCEPT !.resumed = x] \in OpType
      /\ \A x \in Configs : [o EXCEPT !.previous = x] \in OpType
  BY SMT DEF OpType
<1>7. \A x \in Configs : [o EXCEPT !.of = x] \in OpType
  BY SMT DEF OpType
<1> QED
  BY <1>0, <1>1, <1>2, <1>3, <1>4, <1>5, <1>6, <1>7 DEF L

LEMMA NoOpType ==
  /\ NoOp \in OpType /\ NoOp.kind = None /\ NoOp.pc = "idle" /\ NoOp.drop = {}
  /\ NoOp.asked = {} /\ NoOp.got = {}
<1> DEFINE K == {"run", "dry", "refresh", "domains", "clear", None}
           C == Configs \cup {None}
           T == [kind : K, pc : {"idle", "pool", "commit", "allocate", "settle", "isolate", "apply"},
                 drop : SUBSET Domains, asked : SUBSET Domains, got : SUBSET Domains,
                 failed : SUBSET Domains, suspect : SUBSET Domains, resumed : BOOLEAN,
                 of : C, previous : C]
<1>1. OpType = T /\ None \in K /\ None \in C
  BY DEF OpType
<1> HIDE DEF K, C
<1>2. NoOp \in OpType
  BY <1>1, SMT DEF NoOp
<1> QED
  BY <1>2 DEF NoOp

LEMMA NoRoundType ==
  NoRound \in RoundType /\ NoRound.pc = "idle" /\ NoRound.overtaken = {}
<1>1. NoRound \in RoundType
  <2> DEFINE M == {None} \cup RecordMaps
  <2>1. RoundType = [pc : {"idle", "write", "refresh", "waiting", "undo"},
                 updates : M, activated : SUBSET Domains,
                 changed : BOOLEAN, overtaken : SUBSET Domains] /\ None \in M
    BY DEF RoundType
  <2> HIDE DEF M
  <2> QED
    BY <2>1, SMT DEF NoRound
<1> QED
  BY <1>1 DEF NoRound

LEMMA RecordType ==
  ASSUME NEW a \in BOOLEAN, NEW b \in BOOLEAN, NEW c \in BOOLEAN, NEW e \in BOOLEAN
  PROVE  [manual |-> a, verified |-> b, active |-> c, resolved |-> e] \in Records
  BY SMT DEF Records

LEMMA RecordFields ==
  ASSUME NEW r \in Records
  PROVE  /\ \A x \in BOOLEAN : [r EXCEPT !.verified = x] \in Records
         /\ \A x \in BOOLEAN : [r EXCEPT !.active = x] \in Records
         /\ \A x \in BOOLEAN : [r EXCEPT !.resolved = x] \in Records
  BY SMT DEF Records

-----------------------------------------------------------------------------
(* States, and writes of them *)

\* A state with other records, none of them of a domain that is gone.
LEMMA GoodRecords ==
  ASSUME NEW s, NEW D, NEW c, Good(s, D, c), NEW r \in RecordMaps, NEW E,
         E \cap Recorded(r) = {}, s.policy # None => E \cap s.policy = {}
  PROVE  /\ Good([s EXCEPT !.records = r], E, c) /\ [s EXCEPT !.records = r].records = r
         /\ [s EXCEPT !.records = r].policy = s.policy
         /\ [s EXCEPT !.records = r].plan = s.plan
<1> DEFINE t == [s EXCEPT !.records = r]
<1>1. s \in States
  BY DEF Good
<1>2. t \in States
  BY <1>1, StateFields
<1>3. t.records = r /\ t.policy = s.policy /\ t.plan = s.plan
  BY <1>1, SMT DEF States
<1> HIDE DEF t
<1>4. Good(t, E, c)
  BY <1>2, <1>3 DEF Good, Gone, Covers, PlanCovers
<1> QED
  BY <1>3, <1>4 DEF t

LEMMA GoodFewer ==
  ASSUME NEW s, NEW D, NEW c, Good(s, D, c), NEW E \in SUBSET D
  PROVE  Good(s, E, c)
  BY DEF Good, Gone

LEMMA SavesKept ==
  ASSUME NEW next, Saves(next), Good(next, cleared', settled')
  PROVE  StateInv'
  BY DEF Saves, StateInv

\* Where the write fails, the records of the next state are in memory.
LEMMA SaveFailsKept ==
  ASSUME StateInv, NEW next, SaveFails(next), next.records \in RecordMaps,
         cleared' \subseteq cleared, settled' = settled,
         cleared' \cap Recorded(next.records) = {}
  PROVE  StateInv'
<1>1. Good(mem, cleared', settled) /\ Good(disk, cleared', settled)
  BY GoodFewer DEF StateInv
<1> DEFINE r == next.records
<1>2. r \in RecordMaps /\ mem' = [mem EXCEPT !.records = r] /\ disk' = disk
  BY DEF SaveFails
<1> HIDE DEF r
<1>3. cleared' \cap Recorded(r) = {} /\ (mem.policy # None => cleared' \cap mem.policy = {})
  BY <1>1 DEF r, Good, Gone
<1>4. Good([mem EXCEPT !.records = r], cleared', settled)
  BY <1>1, <1>2, <1>3, GoodRecords
<1> QED
  BY <1>1, <1>2, <1>4 DEF StateInv

\* Nothing is written, and nothing cleared.
LEMMA StateStays ==
  ASSUME StateInv, UNCHANGED <<mem, disk, settled>>, cleared' \subseteq cleared
  PROVE  StateInv'
  BY GoodFewer DEF StateInv

\* The configuration's domains are domains.
LEMMA ConfigTypes ==
  ASSUME NEW c \in Configs
  PROVE  /\ c.manual \in SUBSET Domains /\ c.excluded \in SUBSET Domains
         /\ AccelerationDomains(c) \in SUBSET Domains
         /\ AccelerationDomains(c) \subseteq c.manual
  BY ConfigsAreRecords DEF AccelerationDomains

-----------------------------------------------------------------------------
(* The end of an operation *)

LEMMA NoOpKept ==
  ASSUME op' = NoOp
  PROVE  OpInv' /\ op'.kind \notin {"clear", "refresh", "domains", "run"}
<1>1. op'.kind = None /\ None \notin {"clear", "refresh", "domains", "run"}
  BY NoOpType, NoneIsNoValue
<1> QED
  BY <1>1, NoOpType DEF OpInv

\* The round that waits for its refresh goes on; clearings have no round beside
\* them.
LEMMA EndsKept ==
  ASSUME RoundInv, NEW ok \in BOOLEAN, Ends(ok), cleared' \subseteq cleared \/ op.kind = "clear"
  PROVE  OpInv' /\ RoundInv'
<1>1. OpInv' /\ op'.kind \notin {"clear", "refresh", "domains", "run"}
  BY NoOpKept DEF Ends
<1>2. CASE round' = NoRound
  BY <1>1, <1>2, NoRoundType DEF RoundInv
<1>3. CASE op.kind = "refresh" /\ round' = [round EXCEPT !.pc = "undo"]
  <2>1. round.pc = "waiting" /\ round.activated \cap cleared = {} /\ round.overtaken = {}
        /\ cleared' \subseteq cleared /\ round \in RoundType
    BY <1>3 DEF RoundInv
  <2>2. round' \in RoundType /\ round'.pc = "undo" /\ round'.overtaken = {}
        /\ round'.activated = round.activated
    BY <1>3, <2>1, RoundFields
  <2> QED
    BY <1>1, <2>1, <2>2 DEF RoundInv
<1>4. CASE op.kind # "refresh" /\ round' = round
  BY <1>1, <1>4 DEF RoundInv, Written
<1> QED
  BY <1>1, <1>2, <1>3, <1>4 DEF Ends

LEMMA FailsKept ==
  ASSUME AroundType, OpInv, RoundInv, Fails, UNCHANGED <<cleared, settled>>
  PROVE  AroundType' /\ OpInv' /\ RoundInv'
<1>1. OpInv' /\ RoundInv'
  BY EndsKept DEF Fails
<1>2. config' \in Configs /\ cleared \cap AccelerationDomains(config') = {}
  BY DEF Fails, OpInv, AroundType
<1> QED
  BY <1>1, <1>2 DEF AroundType

\* Where the operation at work does not move and no lists change.
LEMMA OpStays ==
  ASSUME OpInv, UNCHANGED <<op, config>>, cleared' \subseteq cleared
  PROVE  OpInv'
  BY DEF OpInv

LEMMA AroundStays ==
  ASSUME AroundType, UNCHANGED <<config, settled>>, cleared' \subseteq cleared
  PROVE  AroundType'
  BY DEF AroundType

LEMMA RoundStays ==
  ASSUME RoundInv, UNCHANGED round, op'.kind \in {op.kind, None}, cleared' \subseteq cleared
  PROVE  RoundInv'
  BY NoneIsNoValue DEF RoundInv, Written

LEMMA NoRoundKept ==
  ASSUME round' = NoRound, op'.kind # "refresh"
  PROVE  RoundInv'
  BY NoRoundType DEF RoundInv

-----------------------------------------------------------------------------
(* Rounds *)

LEMMA InitIInv == Init => IInv
<1> SUFFICES ASSUME Init PROVE IInv
  OBVIOUS
<1> DEFINE r == [d \in Domains |-> None]
<1>1. r \in RecordMaps /\ Recorded(r) = {}
  BY DEF RecordMaps, Recorded
<1>2. PICK p \in LeftBehind :
        mem = [records |-> r, policy |-> None, plan |-> p] /\ disk = mem
  BY DEF Init
<1>8. p \in Checkpoints \cup {None}
      /\ (p # None => AccelerationDomains(p.of) \subseteq p.domains)
  BY ConfigTypes, OldConfigsAreConfigs DEF LeftBehind, Checkpoints, Init
<1> HIDE DEF r
<1>3. mem \in States /\ mem.records = r /\ mem.policy = None /\ mem.plan = p
  <2> DEFINE P == Checkpoints \cup {None}
             Q == {None} \cup SUBSET Domains
  <2>1. p \in P /\ None \in Q /\ States = [records : RecordMaps, policy : Q, plan : P]
    BY <1>8 DEF States, RecordMaps
  <2> HIDE DEF P, Q
  <2> QED
    BY <1>1, <1>2, <1>8, <2>1
<1>4. StateInv
  BY <1>1, <1>2, <1>3, <1>8 DEF StateInv, Good, Gone, Covers, PlanCovers, Init
<1>5. AroundType
  BY DEF AroundType, Init
<1>6. OpInv
  BY NoOpType, NoneIsNoValue DEF OpInv, Init
<1>7. RoundInv
  BY NoOpType, NoneIsNoValue, NoRoundType DEF RoundInv, Init
<1> QED
  BY <1>4, <1>5, <1>6, <1>7 DEF IInv

\* What a round writes of a domain is a record, and it writes one where it has
\* activated it.
LEMMA ObservedType ==
  ASSUME NEW d \in Domains, NEW record \in Records \cup {None}, NEW outcome \in Outcomes,
         NEW c \in Configs
  PROVE  /\ Observed(d, record, outcome, c) \in Records \cup {None}
         /\ Activated(d, record, outcome, c) => Observed(d, record, outcome, c) # None
<1> DEFINE base == IF record = None THEN NewRecord ELSE record
           off == record # None /\ record.active /\ (~Allocating(c) \/ d \in c.excluded)
           applied == Allocating(c)
<1>0. applied \in BOOLEAN
  BY DEF Allocating
<1>1. base \in Records
  BY RecordType DEF NewRecord
<1> HIDE DEF base
<1>2. [base EXCEPT !.active = FALSE] \in Records /\ [base EXCEPT !.active = applied] \in Records
  BY <1>0, <1>1, RecordFields
<1>3. [base EXCEPT !.verified = FALSE, !.active = FALSE, !.resolved = TRUE] \in Records
  <2>1. [base EXCEPT !.verified = FALSE] \in Records
    BY <1>1, RecordFields
  <2>2. [[base EXCEPT !.verified = FALSE] EXCEPT !.active = FALSE] \in Records
    BY <2>1, RecordFields
  <2>3. [[[base EXCEPT !.verified = FALSE] EXCEPT !.active = FALSE] EXCEPT !.resolved = TRUE]
          \in Records
    BY <2>2, RecordFields
  <2> QED
    BY <2>3
<1>4. [base EXCEPT !.verified = TRUE, !.active = applied, !.resolved = TRUE] \in Records
  <2>1. [base EXCEPT !.verified = TRUE] \in Records
    BY <1>1, RecordFields
  <2>2. [[base EXCEPT !.verified = TRUE] EXCEPT !.active = applied] \in Records
    BY <1>0, <2>1, RecordFields
  <2>3. [[[base EXCEPT !.verified = TRUE] EXCEPT !.active = applied] EXCEPT !.resolved = TRUE]
          \in Records
    BY <2>2, RecordFields
  <2> QED
    BY <2>3
<1> DEFINE o == Observed(d, record, outcome, c)
<1>5. CASE d \in c.excluded \/ outcome = "unseen"
  <2>1. o = IF off THEN [base EXCEPT !.active = FALSE] ELSE None
    BY <1>5 DEF Observed, base
  <2>2. ~Activated(d, record, outcome, c)
    BY <1>5 DEF Activated
  <2> QED
    BY <2>1, <2>2, <1>2
<1>6. CASE d \notin c.excluded /\ outcome = "unresolved"
  <2>1. o = record
    BY <1>6 DEF Observed
  <2>2. ~Activated(d, record, outcome, c)
    BY <1>6 DEF Activated
  <2> QED
    BY <2>1, <2>2
<1>7. CASE d \notin c.excluded /\ outcome = "bad"
  <2>1. o = [base EXCEPT !.verified = FALSE, !.active = FALSE, !.resolved = TRUE]
    BY <1>7 DEF Observed, base
  <2>2. ~Activated(d, record, outcome, c)
    BY <1>7 DEF Activated
  <2> QED
    BY <2>1, <2>2, <1>3
<1>8. CASE d \notin c.excluded /\ outcome = "same"
  <2>1. o = [base EXCEPT !.active = applied]
    BY <1>8 DEF Observed, base
  <2> QED
    BY <2>1, <1>2, NoneIsNoValue
<1>9. CASE d \notin c.excluded /\ outcome = "verified"
  <2>1. o = [base EXCEPT !.verified = TRUE, !.active = applied, !.resolved = TRUE]
    BY <1>9 DEF Observed, base
  <2> QED
    BY <2>1, <1>4, NoneIsNoValue
<1> HIDE DEF o
<1> QED
  BY <1>5, <1>6, <1>7, <1>8, <1>9 DEF Outcomes, o

LEMMA ObservesKept ==
  ASSUME IInv, Observes
  PROVE  IInv'
<1> USE DEF IInv
<1>1. PICK view \in Views, outcome \in [Domains -> Outcomes] :
        round' =
               [pc |-> "write", overtaken |-> {},
                updates |-> [d \in Domains |-> Observed(d, mem.records[d], outcome[d], view)],
                activated |-> {d \in Domains : Activated(d, mem.records[d], outcome[d], view)},
                changed |->
                  \/ domainPolicyNeedsRefresh(view, mem)
                  \/ \E d \in Domains : \/ Activated(d, mem.records[d], outcome[d], view)
                                        \/ Deactivated(d, mem.records[d], outcome[d], view)]
  BY DEF Observes
<1> DEFINE updates == [d \in Domains |-> Observed(d, mem.records[d], outcome[d], view)]
           activated == {d \in Domains : Activated(d, mem.records[d], outcome[d], view)}
           changed == \/ domainPolicyNeedsRefresh(view, mem)
                      \/ \E d \in Domains : \/ Activated(d, mem.records[d], outcome[d], view)
                                            \/ Deactivated(d, mem.records[d], outcome[d], view)
<1>2. view \in Configs
  BY DEF Views, AroundType, OpInv
<1>3. \A d \in Domains : mem.records[d] \in Records \cup {None}
  BY StateFields DEF StateInv, Good, RecordMaps
<1>4. updates \in RecordMaps
  BY <1>2, <1>3, ObservedType DEF RecordMaps
<1>5. \A d \in activated : updates[d] # None
  BY <1>2, <1>3, ObservedType
<1>6. changed \in BOOLEAN /\ activated \in SUBSET Domains
  BY Zenon
<1>7. round' = [pc |-> "write", overtaken |-> {}, updates |-> updates,
                activated |-> activated, changed |-> changed]
  BY <1>1
<1> HIDE DEF updates, activated, changed
<1>8. round' \in RoundType
  <2> DEFINE M == {None} \cup RecordMaps
  <2>1. updates \in M
    BY <1>4
  <2>2. RoundType = [pc : {"idle", "write", "refresh", "waiting", "undo"},
                 updates : M, activated : SUBSET Domains,
                 changed : BOOLEAN, overtaken : SUBSET Domains]
    BY DEF RoundType
  <2> HIDE DEF M
  <2> QED
    BY <1>2, <1>6, <1>7, <2>1, <2>2
<1>9. op.kind # "clear" /\ op.kind # "refresh"
  BY DEF Observes, MutexFree, RoundInv
<1>10. RoundInv'
  <2>1. round'.pc = "write" /\ round'.overtaken = {} /\ round'.updates = updates
        /\ round'.activated = activated
    BY <1>7
  <2>2. op' = op
    BY DEF Observes
  <2> QED
    BY <1>4, <1>5, <1>6, <1>8, <1>9, <2>1, <2>2 DEF RoundInv, Written
<1>11. UNCHANGED <<mem, disk, config, op, cleared, settled>>
  BY DEF Observes
<1> QED
  BY <1>10, <1>11, StateStays, OpStays, AroundStays

LEMMA TrimmedType ==
  ASSUME NEW records \in RecordMaps, NEW t \in Trimmed(records)
  PROVE  t \in RecordMaps /\ Recorded(t) \subseteq Recorded(records)
<1>1. PICK s : t = [d \in Domains |-> IF d \in s THEN None ELSE records[d]]
  BY DEF Trimmed
<1> QED
  BY <1>1 DEF RecordMaps, Recorded


LEMMA WritesKept ==
  ASSUME IInv, Writes
  PROVE  IInv'
<1> USE DEF IInv
<1> DEFINE written == {d \in Domains : round.updates[d] # None}
           records == [d \in Domains |-> IF d \in written THEN round.updates[d] ELSE mem.records[d]]
           goesOn == IF round.changed THEN [round EXCEPT !.pc = "refresh", !.updates = None]
                     ELSE NoRound
<1>1. round.pc = "write" /\ round \in RoundType /\ round.overtaken = {}
      /\ round.updates \in RecordMaps /\ round.activated \subseteq written
      /\ op.kind # "clear" /\ op.kind # "refresh"
  BY DEF Writes, RoundInv, Written
<1>2. records \in RecordMaps /\ Recorded(records) \subseteq Recorded(mem.records) \cup written
  BY <1>1, StateFields DEF StateInv, Good, RecordMaps, Recorded
<1>3. cleared' = cleared \ written
  BY <1>1 DEF Writes
<1>4. UNCHANGED <<config, op, settled>>
  BY DEF Writes
<1>5. AroundType' /\ OpInv'
  BY <1>3, <1>4, OpStays, AroundStays
<1>6. round' = goesOn \/ round' = NoRound
  BY DEF Writes
<1>7. RoundInv'
  <2>1. CASE round' = NoRound
    BY <1>1, <1>4, <2>1, NoRoundKept
  <2>2. CASE round' = [round EXCEPT !.pc = "refresh", !.updates = None]
    <3>1. round' \in RoundType /\ round'.pc = "refresh" /\ round'.overtaken = {}
          /\ round'.activated = round.activated
      <4> DEFINE q == [round EXCEPT !.pc = "refresh"]
      <4>1. q \in RoundType /\ q.pc = "refresh" /\ q.overtaken = {}
            /\ q.activated = round.activated
        BY <1>1, RoundFields
      <4>2. round' = [q EXCEPT !.updates = None]
        BY <2>2
      <4> HIDE DEF q
      <4> QED
        BY <4>1, <4>2, RoundFields
    <3>2. round'.activated \cap cleared' = {}
      BY <3>1, <1>1, <1>3
    <3> QED
      BY <1>1, <1>4, <3>1, <3>2 DEF RoundInv
  <2> QED
    BY <1>6, <2>1, <2>2
<1>8. StateInv'
  <2>1. CASE UNCHANGED <<mem, disk>>
    BY <1>3, <1>4, <2>1, StateStays
  <2>2. ASSUME NEW trimmed \in Trimmed(records),
               \/ Saves([mem EXCEPT !.records = trimmed])
               \/ SaveFails([mem EXCEPT !.records = trimmed])
        PROVE  StateInv'
    <3>1. trimmed \in RecordMaps /\ Recorded(trimmed) \subseteq Recorded(records)
      BY <1>2, TrimmedType
    <3>2. cleared' \cap Recorded(trimmed) = {}
      BY <1>2, <1>3, <3>1 DEF StateInv, Good, Gone
    <3>3. mem.policy # None => cleared' \cap mem.policy = {}
      BY <1>3 DEF StateInv, Good, Gone
    <3> DEFINE next == [mem EXCEPT !.records = trimmed]
    <3>4. Good(next, cleared', settled) /\ next.records = trimmed
      BY <3>1, <3>2, <3>3, GoodRecords DEF StateInv
    <3> HIDE DEF next
    <3>5. CASE Saves(next)
      BY <1>4, <3>4, <3>5, SavesKept
    <3>6. CASE SaveFails(next)
      BY <1>3, <1>4, <3>1, <3>2, <3>4, <3>6, SaveFailsKept
    <3> QED
      BY <2>2, <3>5, <3>6 DEF next
  <2> HIDE DEF written, records, goesOn
  <2> QED
    BY <2>1, <2>2 DEF Writes, written, records
<1> QED
  BY <1>5, <1>7, <1>8

LEMMA RefreshesKept ==
  ASSUME IInv, Refreshes
  PROVE  IInv'
<1> USE DEF IInv
<1>1. UNCHANGED <<mem, disk, config, cleared, settled>>
  BY DEF Refreshes
<1>2. StateInv' /\ AroundType'
  BY <1>1, StateStays, AroundStays
<1>3. round.pc = "refresh" /\ round \in RoundType /\ round.overtaken = {}
      /\ op.kind # "clear" /\ op.kind # "refresh" /\ round.activated \cap cleared = {}
  BY DEF Refreshes, RoundInv
<1>4. CASE op' = [NoOp EXCEPT !.kind = "refresh", !.pc = "allocate"]
           /\ round' = [round EXCEPT !.pc = "waiting"]
  <2>1. op' \in OpType
    <3>1. [NoOp EXCEPT !.kind = "refresh"] \in OpType
      BY NoOpType, OpFields
    <3>2. [[NoOp EXCEPT !.kind = "refresh"] EXCEPT !.pc = "allocate"] \in OpType
      BY <3>1, OpFields
    <3> QED
      BY <1>4, <3>2
  <2>2. op'.kind = "refresh" /\ op'.pc = "allocate" /\ op'.drop = {} /\ op'.asked = {}
        /\ op'.got = {}
    BY <1>4 DEF NoOp
  <2>3. round' \in RoundType /\ round'.pc = "waiting" /\ round'.overtaken = {}
        /\ round'.activated = round.activated
    BY <1>3, <1>4, RoundFields
  <2>4. OpInv'
    BY <2>1, <2>2 DEF OpInv
  <2>5. RoundInv'
    BY <1>1, <1>3, <2>2, <2>3 DEF RoundInv
  <2> QED
    BY <1>2, <2>4, <2>5
<1>5. CASE op' = op /\ round' = [round EXCEPT !.pc = "undo"]
  <2>1. round' \in RoundType /\ round'.pc = "undo" /\ round'.overtaken = {}
        /\ round'.activated = round.activated
    BY <1>3, <1>5, RoundFields
  <2>2. RoundInv'
    BY <1>1, <1>3, <1>5, <2>1 DEF RoundInv
  <2>3. OpInv'
    BY <1>1, <1>5, OpStays
  <2> QED
    BY <1>2, <2>2, <2>3
<1> QED
  BY <1>4, <1>5 DEF Refreshes

LEMMA UndoesKept ==
  ASSUME IInv, Undoes
  PROVE  IInv'
<1> USE DEF IInv
<1>1. UNCHANGED <<config, op, cleared, settled>> /\ round' = NoRound
  BY DEF Undoes
<1>2. round.pc = "undo" /\ op.kind # "refresh" /\ round.activated \cap cleared = {}
  BY DEF Undoes, RoundInv
<1>3. AroundType' /\ OpInv' /\ RoundInv'
  BY <1>1, <1>2, AroundStays, OpStays, NoRoundKept
<1> DEFINE old(d) == IF mem.records[d] = None THEN NewRecord ELSE mem.records[d]
           records == [d \in Domains |-> IF d \in round.activated
                                         THEN [old(d) EXCEPT !.active = FALSE]
                                         ELSE mem.records[d]]
           next == [mem EXCEPT !.records = records]
<1>4. records \in RecordMaps
  <2>1. ASSUME NEW d \in Domains
        PROVE  mem.records[d] \in Records \cup {None} /\ old(d) \in Records
    BY StateFields, RecordType DEF StateInv, Good, RecordMaps, NewRecord
  <2> HIDE DEF old
  <2>2. \A d \in Domains : [old(d) EXCEPT !.active = FALSE] \in Records
    BY <2>1, RecordFields
  <2> QED
    BY <2>1, <2>2 DEF RecordMaps
<1>5. Recorded(records) \subseteq Recorded(mem.records) \cup round.activated
  BY DEF Recorded
<1>6. Saves(next) \/ SaveFails(next)
  BY DEF Undoes
<1> HIDE DEF records
<1>7. cleared \cap Recorded(records) = {}
  BY <1>2, <1>5 DEF StateInv, Good, Gone
<1>8. Good(next, cleared, settled) /\ next.records = records
  <2>1. mem.policy # None => cleared \cap mem.policy = {}
    BY DEF StateInv, Good, Gone
  <2> QED
    BY <1>4, <1>7, <2>1, GoodRecords DEF StateInv
<1> HIDE DEF next
<1>9. StateInv'
  <2>1. CASE Saves(next)
    BY <1>1, <1>8, <2>1, SavesKept
  <2>2. CASE SaveFails(next)
    BY <1>1, <1>4, <1>7, <1>8, <2>2, SaveFailsKept
  <2> QED
    BY <1>6, <2>1, <2>2
<1> QED
  BY <1>3, <1>9

-----------------------------------------------------------------------------
(* Operations begin *)

LEMMA RunBeginsKept ==
  ASSUME IInv, NEW kind \in {"run", "dry"}, RunBegins(kind)
  PROVE  IInv'
<1> USE DEF IInv
<1>1. UNCHANGED <<mem, disk, config, round, settled, cleared>>
  BY DEF RunBegins
<1>2. StateInv' /\ AroundType'
  BY <1>1, StateStays, AroundStays
<1>3. op' = [NoOp EXCEPT !.kind = kind, !.pc = "pool"]
  BY DEF RunBegins
<1>4. op' \in OpType
  <2>1. [NoOp EXCEPT !.kind = kind] \in OpType
    BY NoOpType, OpFields
  <2>2. [[NoOp EXCEPT !.kind = kind] EXCEPT !.pc = "pool"] \in OpType
    BY <2>1, OpFields
  <2> QED
    BY <1>3, <2>2
<1>5. op'.kind = kind /\ op'.pc = "pool" /\ op'.drop = {} /\ op'.asked = {} /\ op'.got = {}
  BY <1>3 DEF NoOp
<1>6. OpInv'
  BY <1>4, <1>5 DEF OpInv
<1>7. RoundInv'
  BY <1>1, <1>5 DEF RoundInv, Written
<1> QED
  BY <1>2, <1>6, <1>7

LEMMA DomainsBeginKept ==
  ASSUME IInv, NEW c \in Configs, DomainsBegin(c)
  PROVE  IInv'
<1> USE DEF IInv
<1>1. UNCHANGED <<mem, disk, round, settled>> /\ config' = c /\ cleared' = cleared \ c.manual
  BY DEF DomainsBegin
<1>2. StateInv' /\ cleared' \subseteq cleared
  BY <1>1, StateStays
<1>3. AroundType'
  BY <1>1, ConfigTypes DEF AroundType
<1>4. op = NoOp /\ op.drop = {} /\ op.kind = None
  BY NoOpType DEF DomainsBegin, GateFree, OpInv
<1>5. CASE op' = op
  <2>1. OpInv'
    BY <1>4, <1>5, NoOpKept
  <2> QED
    BY <1>1, <1>2, <1>3, <1>5, <2>1, RoundStays
<1>6. CASE op' = [NoOp EXCEPT !.kind = "domains", !.pc = "allocate", !.previous = config]
  <2>1. [NoOp EXCEPT !.kind = "domains"] \in OpType
    BY NoOpType, OpFields
  <2>2. [[NoOp EXCEPT !.kind = "domains"] EXCEPT !.pc = "allocate"] \in OpType
    BY <2>1, OpFields
  <2>3. [[[NoOp EXCEPT !.kind = "domains"] EXCEPT !.pc = "allocate"] EXCEPT !.previous = config]
          \in OpType
    BY <2>2, OpFields DEF AroundType
  <2>4. op' \in OpType /\ op'.kind = "domains" /\ op'.pc = "allocate" /\ op'.drop = {}
        /\ op'.asked = {} /\ op'.got = {} /\ op'.previous = config
    BY <1>6, <2>3 DEF NoOp
  <2>5. OpInv'
    BY <1>1, <2>4 DEF OpInv, AroundType
  <2>6. RoundInv'
    BY <1>1, <2>4 DEF RoundInv, Written
  <2> QED
    BY <1>2, <1>3, <2>5, <2>6
<1> QED
  BY <1>5, <1>6 DEF DomainsBegin

LEMMA ReconfiguresKept ==
  ASSUME IInv, NEW c \in Configs, Reconfigures(c)
  PROVE  IInv'
<1> USE DEF IInv
<1>1. UNCHANGED <<mem, disk, round, op, settled>> /\ config' = c
      /\ cleared' = cleared \ c.manual
  BY DEF Reconfigures
<1>2. StateInv' /\ cleared' \subseteq cleared
  BY <1>1, StateStays
<1>3. AroundType'
  BY <1>1, ConfigTypes DEF AroundType
<1>4. OpInv'
  BY <1>1, NoOpKept DEF Reconfigures, GateFree, OpInv
<1> QED
  BY <1>1, <1>2, <1>3, <1>4, RoundStays


\* The state without some records.
LEMMA WithoutFacts ==
  ASSUME NEW s \in States, NEW dropped
  PROVE  \E r \in RecordMaps :
           /\ Without(s, dropped) = [s EXCEPT !.records = r]
           /\ r = [d \in Domains |-> IF d \in dropped THEN None ELSE s.records[d]]
           /\ Recorded(r) = Recorded(s.records) \ dropped
<1> DEFINE r == [d \in Domains |-> IF d \in dropped THEN None ELSE s.records[d]]
<1>1. r \in RecordMaps /\ Recorded(r) = Recorded(s.records) \ dropped
  BY StateFields DEF RecordMaps, Recorded
<1>2. Without(s, dropped) = [s EXCEPT !.records = r]
  BY DEF Without
<1> QED
  BY <1>1, <1>2

LEMMA ClearsKept ==
  ASSUME IInv, Clears
  PROVE  IInv'
<1> USE DEF IInv
<1>1. UNCHANGED <<config, settled>> /\ ClearingBegins
  BY DEF Clears
<1>2. op = NoOp /\ op.kind = None /\ op.drop = {} /\ round.pc = "idle" /\ round \in RoundType
  BY NoOpType DEF Clears, GateFree, MutexFree, OpInv, RoundInv
<1>3. Automatic \in SUBSET Domains /\ Automatic \cap AccelerationDomains(config) = {}
      /\ Automatic \subseteq Recorded(mem.records)
  BY DEF Automatic, Recorded
<1> HIDE DEF Clears
<1>4. CASE /\ op' = [NoOp EXCEPT !.kind = "clear", !.pc = "allocate", !.drop = Automatic]
           /\ UNCHANGED <<mem, disk, round, cleared>>
  <2>1. [NoOp EXCEPT !.kind = "clear"] \in OpType
    BY NoOpType, OpFields
  <2>2. [[NoOp EXCEPT !.kind = "clear"] EXCEPT !.pc = "allocate"] \in OpType
    BY <2>1, OpFields
  <2>3. [[[NoOp EXCEPT !.kind = "clear"] EXCEPT !.pc = "allocate"] EXCEPT !.drop = Automatic]
          \in OpType
    BY <1>3, <2>2, OpFields
  <2>4. op' \in OpType /\ op'.kind = "clear" /\ op'.pc = "allocate" /\ op'.drop = Automatic
        /\ op'.asked = {} /\ op'.got = {}
    BY <1>4, <2>3 DEF NoOp
  <2>5. OpInv'
    BY <1>1, <1>3, <2>4 DEF OpInv
  <2>6. RoundInv'
    BY <1>2, <1>4, <2>4 DEF RoundInv
  <2>7. StateInv' /\ AroundType'
    BY <1>1, <1>4, StateStays, AroundStays
  <2> QED
    BY <2>5, <2>6, <2>7
<1>5. PICK r \in RecordMaps : /\ Without(mem, Automatic) = [mem EXCEPT !.records = r]
                              /\ Recorded(r) = Recorded(mem.records) \ Automatic
  BY WithoutFacts DEF StateInv, Good
<1>6. CASE /\ op' = op /\ round' = [round EXCEPT !.overtaken = @ \cup Automatic]
           /\ Saves(Without(mem, Automatic)) /\ cleared' = cleared \cup Automatic
           /\ (mem.policy = None \/ Automatic \cap mem.policy = {})
  <2>1. round.overtaken \cup Automatic \in SUBSET Domains
    BY <1>2, <1>3 DEF RoundType
  <2>2. round' \in RoundType /\ round'.pc = "idle"
    BY <1>2, <1>6, <2>1, RoundFields
  <2>3. RoundInv'
    BY <1>2, <1>6, <2>2, NoneIsNoValue DEF RoundInv
  <2>4. OpInv'
    BY <1>2, <1>6, NoOpKept
  <2>5. AroundType'
    BY <1>1, <1>3, <1>6 DEF AroundType
  <2>6. cleared' \cap Recorded(r) = {}
    BY <1>5, <1>6 DEF StateInv, Good, Gone
  <2>7. mem.policy # None => cleared' \cap mem.policy = {}
    BY <1>6 DEF StateInv, Good, Gone
  <2>8. Good(Without(mem, Automatic), cleared', settled')
    BY <1>1, <1>5, <2>6, <2>7, GoodRecords DEF StateInv
  <2>9. StateInv'
    BY <1>6, <2>8, SavesKept
  <2> QED
    BY <2>3, <2>4, <2>5, <2>9
<1>7. CASE SaveFails(Without(mem, Automatic)) /\ UNCHANGED <<cleared, round, op>>
  <2>1. mem \in States
    BY DEF StateInv, Good
  <2>2. Without(mem, Automatic).records = r
    BY <1>5, <2>1, SMT DEF States
  <2>3. cleared' \cap Recorded(r) = {}
    BY <1>5, <1>7 DEF StateInv, Good, Gone
  <2>4. StateInv'
    BY <1>1, <1>7, <2>2, <2>3, SaveFailsKept
  <2>5. AroundType' /\ OpInv' /\ RoundInv'
    BY <1>1, <1>7, AroundStays, OpStays, RoundStays
  <2> QED
    BY <2>4, <2>5
<1> QED
  BY <1>1, <1>4, <1>6, <1>7 DEF ClearingBegins, WasCleared, ClearingOvertakes

-----------------------------------------------------------------------------
(* A run comes to its domains *)

\* Another checkpoint, or none, that is still covered by what it was made for.
LEMMA GoodPlan ==
  ASSUME NEW s, NEW D, NEW c, Good(s, D, c), NEW p \in Checkpoints \cup {None},
         p # None => AccelerationDomains(p.of) \subseteq p.domains
  PROVE  Good([s EXCEPT !.plan = p], D, c) /\ [s EXCEPT !.plan = p].records = s.records
<1> DEFINE t == [s EXCEPT !.plan = p]
<1>1. s \in States
  BY DEF Good
<1>2. t \in States
  BY <1>1, StateFields
<1>3. t.records = s.records /\ t.policy = s.policy /\ t.plan = p
  BY <1>1, SMT DEF States
<1> HIDE DEF t
<1>4. Good(t, D, c)
  BY <1>2, <1>3 DEF Good, Gone, Covers, PlanCovers
<1> QED
  BY <1>3, <1>4 DEF t

LEMMA CheckpointFields ==
  ASSUME NEW p \in Checkpoints, NEW c \in Configs, NEW stage \in {"pool", "domain", "plan"}
  PROVE  LET q == [p EXCEPT !.config = c, !.stage = stage]
             r == [p EXCEPT !.stage = stage]
         IN /\ q \in Checkpoints /\ q.of = p.of /\ q.domains = p.domains
            /\ r \in Checkpoints /\ r.of = p.of /\ r.domains = p.domains
<1> DEFINE L == {"pool", "domain", "plan"}
           S == SUBSET Domains
           T == [domains : S, config : Configs, stage : L, of : Configs]
<1>1. Checkpoints = T /\ stage \in L
  BY DEF Checkpoints
<1> HIDE DEF L, S
<1>2. [p EXCEPT !.stage = stage] \in T
  BY <1>1, SMT
<1>3. [p EXCEPT !.config = c] \in T
  BY <1>1, SMT
<1> DEFINE o == [p EXCEPT !.config = c]
<1>4. [o EXCEPT !.stage = stage] \in T /\ [o EXCEPT !.stage = stage].of = p.of
      /\ [o EXCEPT !.stage = stage].domains = p.domains
  <2>1. o \in T /\ o.of = p.of /\ o.domains = p.domains
    BY <1>1, <1>3, SMT
  <2> HIDE DEF o
  <2>2. [o EXCEPT !.stage = stage] \in T
    BY <1>1, <2>1, SMT
  <2> QED
    BY <2>1, <2>2, SMT
<1>5. [p EXCEPT !.stage = stage].of = p.of /\ [p EXCEPT !.stage = stage].domains = p.domains
  BY <1>1, SMT
<1> HIDE DEF T
<1> QED
  BY <1>1, <1>2, <1>4, <1>5

\* Neither a stamp nor a stage changes what the evidence is of.
LEMMA StampKept ==
  ASSUME NEW s, NEW D, NEW c, Good(s, D, c), config \in Configs,
         NEW stage \in {"pool", "domain", "plan"}
  PROVE  /\ Good(Stamped(s, stage), D, c) /\ Stamped(s, stage).records = s.records
         /\ Good(WithoutPlan(s), D, c) /\ Good(DomainStage(s), D, c)
<1>1. Good(WithoutPlan(s), D, c)
  BY GoodPlan DEF WithoutPlan
<1> DEFINE p == [s.plan EXCEPT !.config = config, !.stage = stage]
           q == [s.plan EXCEPT !.stage = "domain"]
<1>2. ASSUME s.plan # None
      PROVE  /\ Good([s EXCEPT !.plan = p], D, c) /\ [s EXCEPT !.plan = p].records = s.records
             /\ Good([s EXCEPT !.plan = q], D, c)
  <2>1. s.plan \in Checkpoints /\ AccelerationDomains(s.plan.of) \subseteq s.plan.domains
    BY <1>2, SMT DEF Good, States, PlanCovers
  <2>2. p \in Checkpoints /\ p.of = s.plan.of /\ p.domains = s.plan.domains
    BY <2>1, CheckpointFields
  <2>3. q \in Checkpoints /\ q.of = s.plan.of /\ q.domains = s.plan.domains
    BY <2>1, CheckpointFields
  <2> HIDE DEF p, q
  <2> QED
    BY <2>1, <2>2, <2>3, GoodPlan
<1>3. /\ Stamped(s, stage) = IF s.plan = None THEN s ELSE [s EXCEPT !.plan = p]
      /\ DomainStage(s) \in {WithoutPlan(s), [s EXCEPT !.plan = q]}
      /\ s.plan = None => DomainStage(s) = WithoutPlan(s)
  BY DEF Stamped, DomainStage
<1> HIDE DEF p, q
<1> QED
  BY <1>1, <1>2, <1>3

LEMMA FailsInPoolKept ==
  ASSUME IInv, FailsInPool
  PROVE  IInv'
<1> USE DEF IInv
<1>1. UNCHANGED <<config, cleared, settled>> /\ Ends(FALSE)
  BY DEF FailsInPool
<1>2. OpInv' /\ RoundInv' /\ AroundType'
  BY <1>1, EndsKept, AroundStays
<1>3. PICK s \in WithPool, stage \in {"pool", "domain"} :
        \/ Saves(Stamped(s, stage))
        \/ Fault /\ mem' = Stamped(s, stage) /\ disk' \in {disk, s}
  BY DEF FailsInPool
<1>4. config \in Configs /\ Good(mem, cleared, settled) /\ Good(disk, cleared, settled)
  BY DEF AroundType, StateInv
<1>5. Good(s, cleared, settled)
  BY <1>4, StampKept DEF WithPool
<1>6. Good(Stamped(s, stage), cleared, settled)
  BY <1>4, <1>5, StampKept
<1>7. StateInv'
  BY <1>1, <1>3, <1>4, <1>5, <1>6 DEF StateInv, Saves
<1> QED
  BY <1>2, <1>7

LEMMA ComesToDomainsKept ==
  ASSUME IInv, ComesToDomains
  PROVE  IInv'
<1> USE DEF IInv
<1>1. UNCHANGED <<config, round, settled>> /\ cleared' \subseteq cleared /\ op.pc = "pool"
  BY DEF ComesToDomains
<1>2. op \in OpType /\ op.drop \cap AccelerationDomains(config) = {}
      /\ op.asked \cap (cleared \cup op.drop) = {} /\ op.got \subseteq op.asked
      /\ (op.drop # {} => op.kind = "clear")
      /\ (op.kind = "domains" =>
           op.previous \in Configs /\ cleared \cap AccelerationDomains(op.previous) = {})
  BY DEF OpInv
<1>3. AroundType'
  BY <1>1, AroundStays
<1>4. op'.kind = op.kind => RoundInv'
  BY <1>1, RoundStays
<1>5. ASSUME NEW pc \in {"commit", "allocate"}, op' = [op EXCEPT !.pc = pc],
             UNCHANGED cleared
      PROVE  OpInv' /\ op'.kind = op.kind
  <2>1. op' \in OpType
    BY <1>2, <1>5, OpFields
  <2>2. op'.pc = pc /\ op'.asked = op.asked /\ op'.got = op.got /\ op'.kind = op.kind
        /\ op'.drop = op.drop /\ op'.previous = op.previous
    BY <1>2, <1>5, SMT DEF OpType
  <2> QED
    BY <1>1, <1>2, <1>5, <2>1, <2>2 DEF OpInv
<1>6. CASE Resumable /\ UNCHANGED <<mem, disk>> /\ op' = [op EXCEPT !.pc = "commit"]
           /\ UNCHANGED cleared
  BY <1>1, <1>3, <1>4, <1>5, <1>6, StateStays
<1>7. CASE (\E s \in WithPool : Saves(DomainStage(s))) /\ UNCHANGED cleared
           /\ op' = [op EXCEPT !.pc = IF op.kind = "dry" THEN "commit" ELSE "allocate"]
  <2>1. OpInv' /\ op'.kind = op.kind
    BY <1>5, <1>7
  <2>2. PICK s \in WithPool : Saves(DomainStage(s))
    BY <1>7
  <2>3. config \in Configs /\ Good(mem, cleared, settled)
    BY DEF AroundType, StateInv
  <2>4. Good(s, cleared, settled)
    BY <2>3, StampKept DEF WithPool
  <2>5. Good(DomainStage(s), cleared, settled)
    BY <2>3, <2>4, StampKept
  <2>6. StateInv'
    BY <1>1, <1>7, <2>2, <2>5, SavesKept
  <2> QED
    BY <1>3, <1>4, <2>1, <2>6
<1>8. CASE /\ Resumable /\ UNCHANGED <<mem, disk>>
           /\ op' = [op EXCEPT !.pc = "settle", !.resumed = TRUE, !.of = mem.plan.of,
                        !.asked = mem.plan.domains, !.got = mem.plan.domains]
           /\ cleared' = cleared \ mem.plan.domains /\ op.kind # "dry"
  <2> DEFINE plan == mem.plan.domains
             of == mem.plan.of
  <2>1. plan \in SUBSET Domains /\ of \in Configs /\ AccelerationDomains(of) \subseteq plan
    <3>1. mem.plan \in Checkpoints
      BY <1>8, SMT DEF StateInv, Good, States, Resumable
    <3> QED
      BY <1>8, <3>1 DEF StateInv, Good, PlanCovers, Resumable, Checkpoints
  <2> HIDE DEF plan, of
  <2> DEFINE o1 == [op EXCEPT !.pc = "settle"]
             o2 == [o1 EXCEPT !.resumed = TRUE]
             o3 == [o2 EXCEPT !.of = of]
             o4 == [o3 EXCEPT !.asked = plan]
             o5 == [o4 EXCEPT !.got = plan]
  <2>2. op' = o5
    BY <1>8 DEF plan, of
  <2>4. o5 \in OpType
    <3>2. o1 \in OpType
      BY <1>2, OpFields
    <3> HIDE DEF o1
    <3>3. o2 \in OpType
      BY <3>2, OpFields
    <3> HIDE DEF o2
    <3>5. o3 \in OpType
      BY <2>1, <3>3, OpFields
    <3> HIDE DEF o3
    <3>4. o4 \in OpType
      BY <2>1, <3>5, OpFields
    <3> HIDE DEF o4
    <3> QED
      BY <2>1, <3>4, OpFields
  <2>3. o5.kind = op.kind /\ o5.pc = "settle" /\ o5.drop = op.drop /\ o5.asked = plan
        /\ o5.got = plan /\ o5.of = of /\ o5.previous = op.previous /\ o5.resumed
    BY <1>2, SMT DEF OpType
  <2> HIDE DEF o5
  <2>6. op.drop = {}
    BY <1>1 DEF OpInv
  <2>5. OpInv'
    BY <1>1, <1>2, <1>8, <2>1, <2>2, <2>3, <2>4, <2>6 DEF OpInv, plan
  <2>7. StateInv'
    BY <1>1, <1>8, StateStays
  <2> QED
    BY <1>3, <1>4, <2>2, <2>3, <2>5, <2>7
<1> QED
  BY <1>6, <1>7, <1>8 DEF ComesToDomains

LEMMA DryRunEndsKept ==
  ASSUME IInv, DryRunEnds
  PROVE  IInv'
<1> USE DEF IInv
<1>1. UNCHANGED <<config, cleared, settled>> /\ \E ok \in BOOLEAN : Ends(ok)
  BY DEF DryRunEnds
<1>2. OpInv' /\ RoundInv' /\ AroundType'
  BY <1>1, EndsKept, AroundStays
<1>3. config \in Configs /\ Good(mem, cleared, settled) /\ Good(disk, cleared, settled)
  BY DEF AroundType, StateInv
<1>4. Good(Stamped(mem, "plan"), cleared, settled) /\ Good(WithoutPlan(mem), cleared, settled)
  BY <1>3, StampKept
<1>5. StateInv'
  BY <1>1, <1>3, <1>4 DEF StateInv, Saves, DryRunEnds
<1> QED
  BY <1>2, <1>5

-----------------------------------------------------------------------------
(* The loop *)

\* An operation asks for nothing that was cleared, nor for what it clears.
LEMMA AskedFacts ==
  ASSUME IInv
  PROVE  /\ Asked \in SUBSET Domains /\ AccelerationDomains(config) \subseteq Asked
         /\ Asked \cap (cleared \cup op.drop) = {}
<1> USE DEF IInv
<1>1. config \in Configs /\ AccelerationDomains(config) \in SUBSET Domains
  BY ConfigTypes DEF AroundType
<1>2. AccelerationDomains(config) \cap (cleared \cup op.drop) = {}
  BY DEF AroundType, OpInv
<1>3. mem \in States /\ cleared \cap Recorded(mem.records) = {}
  BY DEF StateInv, Good, Gone
<1>4. PICK r \in RecordMaps : /\ Without(mem, op.drop) = [mem EXCEPT !.records = r]
                              /\ Recorded(r) = Recorded(mem.records) \ op.drop
  BY <1>3, WithoutFacts
<1>5. Without(mem, op.drop).records = r
  BY <1>3, <1>4, SMT DEF States
<1>6. Effective(config, r) \subseteq Recorded(r)
  BY DEF Effective
<1>7. Recorded(r) \in SUBSET Domains
  BY DEF Recorded
<1>8. Asked = AccelerationDomains(config) \cup Effective(config, r)
  BY <1>5 DEF Asked
<1> QED
  BY <1>1, <1>2, <1>3, <1>4, <1>6, <1>7, <1>8

\* The operation goes on, the round beside it stays.
LEMMA GoesOn ==
  ASSUME IInv, UNCHANGED <<config, cleared, settled, round>>, StateInv', OpInv',
         op'.kind = op.kind
  PROVE  IInv'
<1> USE DEF IInv
<1>1. AroundType' /\ RoundInv'
  BY AroundStays, RoundStays
<1> QED
  BY <1>1

LEMMA AllocatesKept ==
  ASSUME IInv, Allocates
  PROVE  IInv'
<1> USE DEF IInv
<1>1. UNCHANGED <<mem, disk, cleared, settled>>
  BY DEF Allocates
<1>2. StateInv'
  BY <1>1, StateStays
<1>3. CASE Fails
  BY <1>1, <1>2, <1>3, FailsKept
<1>4. ASSUME NEW got \in SUBSET Asked, op' = Assigned(got), UNCHANGED <<round, config>>
      PROVE  IInv'
  <2> DEFINE asked == Asked
  <2>1. asked \in SUBSET Domains /\ AccelerationDomains(config) \subseteq asked
        /\ asked \cap (cleared \cup op.drop) = {} /\ got \in SUBSET asked /\ got \in SUBSET Domains
    BY AskedFacts
  <2>2. op' = [op EXCEPT !.pc = "settle", !.asked = asked, !.got = got, !.of = config]
    BY <1>4 DEF Assigned
  <2> HIDE DEF asked
  <2>3. op \in OpType /\ op.drop \cap AccelerationDomains(config) = {}
        /\ (op.drop # {} => op.kind = "clear")
        /\ (op.kind = "domains" =>
             op.previous \in Configs /\ cleared \cap AccelerationDomains(op.previous) = {})
    BY DEF OpInv
  <2>4. [op EXCEPT !.pc = "settle"] \in OpType
    BY <2>3, OpFields
  <2>5. [[op EXCEPT !.pc = "settle"] EXCEPT !.asked = asked] \in OpType
    BY <2>1, <2>4, OpFields
  <2>6. [[[op EXCEPT !.pc = "settle"] EXCEPT !.asked = asked] EXCEPT !.got = got] \in OpType
    BY <2>1, <2>5, OpFields
  <2>10. config \in Configs
    BY DEF AroundType
  <2>7. op' \in OpType
    <3> DEFINE o == [[[op EXCEPT !.pc = "settle"] EXCEPT !.asked = asked] EXCEPT !.got = got]
    <3>1. op' = [o EXCEPT !.of = config]
      BY <2>2
    <3>2. o \in OpType
      BY <2>6
    <3> HIDE DEF o
    <3> QED
      BY <3>1, <3>2, <2>10, OpFields
  <2>8. op'.pc = "settle" /\ op'.asked = asked /\ op'.got = got /\ op'.kind = op.kind
        /\ op'.of = config /\ op'.drop = op.drop /\ op'.previous = op.previous
    BY <2>2, <2>3, SMT DEF OpType
  <2>9. OpInv'
    BY <1>1, <1>4, <2>1, <2>3, <2>7, <2>8, <2>10 DEF OpInv
  <2> QED
    BY <1>1, <1>2, <1>4, <2>8, <2>9, GoesOn
<1> QED
  BY <1>3, <1>4 DEF Allocates

LEMMA IsBoolean ==
  ASSUME NEW S, NEW d
  PROVE  (d \in S) \in BOOLEAN
  BY SMT

\* The results of an allocation are records of what was asked for.
LEMMA ResultsFacts ==
  ASSUME NEW s \in States, OpInv, config \in Configs,
         NEW applied \in BOOLEAN, NEW addresses \in BOOLEAN
  PROVE  \E r \in RecordMaps :
           /\ recordDomainAllocationResults(s, applied, addresses) = [s EXCEPT !.records = r]
           /\ Recorded(r) \subseteq Recorded(s.records) \cup op.asked
<1> DEFINE old(d) == IF s.records[d] = None THEN NewRecord ELSE s.records[d]
           present(d) == s.policy # None /\ d \in s.policy
           manual(d) == d \in AccelerationDomains(config)
           verified(d) == IF applied \/ ~present(d) THEN d \in op.got ELSE old(d).verified
           active(d) == IF applied THEN d \in op.got ELSE present(d)
           resolved(d) == d \in op.got \/ addresses
           record(d) == [manual |-> manual(d), verified |-> verified(d),
                         active |-> active(d), resolved |-> resolved(d)]
           r == [d \in Domains |-> IF d \notin op.asked THEN s.records[d] ELSE record(d)]
<1>1. ASSUME NEW d \in Domains
      PROVE  record(d) \in Records /\ s.records[d] \in Records \cup {None}
  <2>1. s.records[d] \in Records \cup {None} /\ old(d) \in Records
    BY StateFields, RecordType DEF RecordMaps, NewRecord
  <2>2. old(d).verified \in BOOLEAN
    BY <2>1, SMT DEF Records
  <2> HIDE DEF old
  <2>3. /\ manual(d) \in BOOLEAN
        /\ present(d) \in BOOLEAN
        /\ resolved(d) \in BOOLEAN
        /\ (d \in op.got) \in BOOLEAN
    <3>1. manual(d) \in BOOLEAN
      BY IsBoolean
    <3>2. present(d) \in BOOLEAN
      BY Zenon
    <3>3. resolved(d) \in BOOLEAN
      BY Zenon
    <3>4. (d \in op.got) \in BOOLEAN
      BY IsBoolean
    <3> QED
      BY <3>1, <3>2, <3>3, <3>4
  <2> HIDE DEF manual, present, resolved
  <2>4. verified(d) \in BOOLEAN /\ active(d) \in BOOLEAN
    BY <2>2, <2>3
  <2> HIDE DEF verified, active
  <2> QED
    BY <2>1, <2>3, <2>4, RecordType
<1>2. recordDomainAllocationResults(s, applied, addresses) = [s EXCEPT !.records = r]
  BY DEF recordDomainAllocationResults
<1> HIDE DEF record
<1>3. r \in RecordMaps /\ Recorded(r) \subseteq Recorded(s.records) \cup op.asked
  BY <1>1 DEF RecordMaps, Recorded
<1> QED
  BY <1>2, <1>3

LEMMA FailsManualKept ==
  ASSUME IInv, FailsManual
  PROVE  IInv'
<1> USE DEF IInv
<1>1. UNCHANGED <<cleared, settled>> /\ Fails
  BY DEF FailsManual
<1>2. AroundType' /\ OpInv' /\ RoundInv'
  BY <1>1, FailsKept
<1>3. PICK addresses \in BOOLEAN :
        LET noted == recordDomainAllocationResults(mem, FALSE, addresses)
            next == IF op.kind = "run" THEN Stamped(noted, "domain") ELSE noted
        IN \/ Saves(next) \/ SaveFails(noted)
           \/ op.kind = "run" /\ Fault /\ mem' = next /\ disk' = noted
  BY DEF FailsManual
<1>4. mem \in States /\ config \in Configs
  BY DEF StateInv, Good, AroundType
<1>5. PICK r \in RecordMaps :
        /\ recordDomainAllocationResults(mem, FALSE, addresses) = [mem EXCEPT !.records = r]
        /\ Recorded(r) \subseteq Recorded(mem.records) \cup op.asked
  BY <1>4, ResultsFacts DEF AroundType
<1>6. cleared \cap Recorded(r) = {}
  BY <1>5 DEF OpInv, StateInv, Good, Gone
<1> DEFINE noted == [mem EXCEPT !.records = r]
           next == IF op.kind = "run" THEN Stamped(noted, "domain") ELSE noted
<1>7. Good(noted, cleared, settled) /\ noted.records = r
  <2>1. mem.policy # None => cleared \cap mem.policy = {}
    BY DEF StateInv, Good, Gone
  <2> QED
    BY <1>6, <2>1, GoodRecords DEF StateInv
<1>8. \/ Saves(next) \/ SaveFails(noted)
      \/ mem' = next /\ disk' = noted
  BY <1>3, <1>5
<1> HIDE DEF noted
<1>9. Good(next, cleared, settled)
  BY <1>4, <1>7, StampKept
<1> HIDE DEF next
<1>10. StateInv'
  <2>1. CASE Saves(next)
    BY <1>1, <1>9, <2>1, SavesKept
  <2>2. CASE SaveFails(noted)
    BY <1>1, <1>6, <1>7, <2>2, SaveFailsKept
  <2>3. CASE mem' = next /\ disk' = noted
    BY <1>1, <1>7, <1>9, <2>3 DEF StateInv
  <2> QED
    BY <1>8, <2>1, <2>2, <2>3
<1> QED
  BY <1>2, <1>10

\* The record of an isolated domain changes; it was there before.
LEMMA IsolatesKept ==
  ASSUME IInv, Isolates
  PROVE  IInv'
<1> USE DEF IInv
<1>1. UNCHANGED <<cleared, settled>>
  BY DEF Isolates
<1>2. PICK d \in Suspects : IsolatesAndRetries(d)
  BY DEF Isolates
<1>3. op \in OpType
  BY DEF OpInv
<1>4. d \in Domains /\ mem.records[d] # None
  BY <1>2, <1>3 DEF Suspects, CanIsolate, OpType
<1> DEFINE x == [mem.records[d] EXCEPT !.active = FALSE, !.verified = FALSE]
           r == [mem.records EXCEPT ![d] = x]
           next == [mem EXCEPT !.records = r]
<1>5. mem \in States /\ mem.records \in RecordMaps
  BY StateFields DEF StateInv, Good
<1>6. x \in Records
  <2>1. mem.records[d] \in Records
    BY <1>4, <1>5 DEF RecordMaps
  <2>2. [mem.records[d] EXCEPT !.active = FALSE] \in Records
    BY <2>1, RecordFields
  <2>3. [[mem.records[d] EXCEPT !.active = FALSE] EXCEPT !.verified = FALSE] \in Records
    BY <2>2, RecordFields
  <2> QED
    BY <2>3
<1>7. Isolated(d) = next
  BY DEF Isolated, WithRecord
<1> HIDE DEF x
<1>8. r \in RecordMaps /\ Recorded(r) \subseteq Recorded(mem.records)
  BY <1>4, <1>5, <1>6 DEF RecordMaps, Recorded
<1> HIDE DEF r
<1>9. cleared \cap Recorded(r) = {} /\ (mem.policy # None => cleared \cap mem.policy = {})
  BY <1>8 DEF StateInv, Good, Gone
<1>10. Good(next, cleared, settled) /\ next.records = r
  BY <1>8, <1>9, GoodRecords DEF StateInv
<1> HIDE DEF next
<1>11. CASE /\ Saves(next) /\ op' = [op EXCEPT !.pc = "allocate", !.suspect = {}]
            /\ UNCHANGED <<round, config>>
  <2>1. [op EXCEPT !.pc = "allocate"] \in OpType
    BY <1>3, OpFields
  <2>2. [[op EXCEPT !.pc = "allocate"] EXCEPT !.suspect = {}] \in OpType
    BY <2>1, OpFields
  <2>3. op' \in OpType
    BY <1>11, <2>2
  <2>4. op'.pc = "allocate" /\ op'.asked = op.asked /\ op'.got = op.got /\ op'.kind = op.kind
        /\ op'.drop = op.drop /\ op'.previous = op.previous
    BY <1>3, <1>11, SMT DEF OpType
  <2>5. OpInv'
    BY <1>1, <1>11, <2>3, <2>4 DEF OpInv
  <2>6. StateInv'
    BY <1>1, <1>10, <1>11, SavesKept
  <2> QED
    BY <1>1, <1>11, <2>4, <2>5, <2>6, GoesOn
<1>12. CASE SaveFails(next) /\ Fails
  <2>1. StateInv'
    BY <1>1, <1>8, <1>9, <1>10, <1>12, SaveFailsKept
  <2>2. AroundType' /\ OpInv' /\ RoundInv'
    BY <1>1, <1>12, FailsKept
  <2> QED
    BY <2>1, <2>2
<1> QED
  BY <1>2, <1>7, <1>11, <1>12 DEF IsolatesAndRetries

\* The operation ends with a failure and has written nothing.
LEMMA GivesUpKept ==
  ASSUME IInv, Fails, UNCHANGED <<mem, disk, cleared, settled>>
  PROVE  IInv'
<1>1. StateInv'
  BY StateStays DEF IInv
<1>2. AroundType' /\ OpInv' /\ RoundInv'
  BY FailsKept DEF IInv
<1> QED
  BY <1>1, <1>2 DEF IInv

\* Every manual domain that was asked for has a place: the plan that is saved
\* and the policy that comes have all of them.
LEMMA PlansKept ==
  ASSUME IInv, Plans
  PROVE  IInv'
<1> USE DEF IInv
<1>1. UNCHANGED <<cleared, settled>>
  BY DEF Plans
<1>2. op \in OpType /\ op.pc = "settle" /\ op.of \in Configs
      /\ AccelerationDomains(op.of) \subseteq op.got /\ op.got \in SUBSET Domains
      /\ (op.got = op.asked => AccelerationDomains(op.of) \subseteq op.got)
  BY DEF Plans, OpInv, ManualFailure, OpType
<1>3. ASSUME op' = [op EXCEPT !.pc = "apply"], UNCHANGED <<round, config>>, StateInv'
      PROVE  IInv'
  <2>1. op' \in OpType
    BY <1>2, <1>3, OpFields
  <2>2. op'.pc = "apply" /\ op'.asked = op.asked /\ op'.got = op.got /\ op'.kind = op.kind
        /\ op'.drop = op.drop /\ op'.previous = op.previous /\ op'.of = op.of
    BY <1>2, <1>3, SMT DEF OpType
  <2>3. OpInv'
    BY <1>1, <1>2, <1>3, <2>1, <2>2 DEF OpInv
  <2> QED
    BY <1>1, <1>3, <2>2, <2>3, GoesOn
<1> DEFINE useful == op.got = op.asked /\ op.got # {}
           p == IF useful THEN [domains |-> op.got, config |-> config,
                                stage |-> "plan", of |-> config] ELSE None
           next == [mem EXCEPT !.plan = p]
<1>4. ~op.resumed => Good(next, cleared, settled)
  <2> SUFFICES ASSUME ~op.resumed
               PROVE  Good(next, cleared, settled)
    OBVIOUS
  <2>1. p \in Checkpoints \cup {None}
    BY <1>2 DEF AroundType, Checkpoints
  <2>2. p # None => AccelerationDomains(p.of) \subseteq p.domains
    BY <1>2 DEF OpInv
  <2> HIDE DEF p
  <2> QED
    BY <2>1, <2>2, GoodPlan DEF StateInv
<1>5. CASE ~op.resumed /\ Saves(next) /\ op' = [op EXCEPT !.pc = "apply"]
           /\ UNCHANGED <<round, config>>
  <2>1. StateInv'
    BY <1>1, <1>4, <1>5, SavesKept
  <2> QED
    BY <1>3, <1>5, <2>1
<1>6. CASE SaveFails(mem) /\ Fails
  <2>1. mem.records \in RecordMaps /\ cleared \cap Recorded(mem.records) = {}
    BY StateFields DEF StateInv, Good, Gone
  <2>2. StateInv'
    BY <1>1, <1>6, <2>1, SaveFailsKept
  <2>3. AroundType' /\ OpInv' /\ RoundInv'
    BY <1>1, <1>6, FailsKept
  <2> QED
    BY <2>2, <2>3
<1>7. CASE op' = [op EXCEPT !.pc = "apply"] /\ UNCHANGED <<mem, disk, round, config>>
  <2>1. StateInv'
    BY <1>1, <1>7, StateStays
  <2> QED
    BY <1>3, <1>7, <2>1
<1> QED
  BY <1>5, <1>6, <1>7 DEF Plans

LEMMA FailsAtAddressKept ==
  ASSUME IInv, NEW d \in Domains, FailsAtAddress(d)
  PROVE  IInv'
<1> USE DEF IInv
<1>1. UNCHANGED <<mem, disk, config, round, cleared, settled>>
  BY DEF FailsAtAddress
<1>2. op \in OpType /\ op.failed \cup {d} \in SUBSET Domains
  BY DEF OpInv, OpType
<1>3. op' = [op EXCEPT !.pc = "allocate", !.resumed = FALSE, !.failed = op.failed \cup {d}]
  BY DEF FailsAtAddress
<1>4. op' \in OpType
  <2>1. [op EXCEPT !.pc = "allocate"] \in OpType
    BY <1>2, OpFields
  <2>2. [[op EXCEPT !.pc = "allocate"] EXCEPT !.resumed = FALSE] \in OpType
    BY <2>1, OpFields
  <2>3. [[[op EXCEPT !.pc = "allocate"] EXCEPT !.resumed = FALSE]
           EXCEPT !.failed = op.failed \cup {d}] \in OpType
    BY <1>2, <2>2, OpFields
  <2> QED
    BY <1>3, <2>3
<1>5. op'.pc = "allocate" /\ op'.asked = op.asked /\ op'.got = op.got /\ op'.kind = op.kind
      /\ op'.drop = op.drop /\ op'.previous = op.previous
  BY <1>2, <1>3, SMT DEF OpType
<1>6. OpInv'
  BY <1>1, <1>4, <1>5 DEF OpInv
<1>7. StateInv'
  BY <1>1, StateStays
<1> QED
  BY <1>1, <1>5, <1>6, <1>7, GoesOn

LEMMA FailsWithoutAddressKept ==
  ASSUME IInv, NEW d \in Domains, FailsWithoutAddress(d)
  PROVE  IInv'
<1> USE DEF IInv
<1>1. UNCHANGED <<mem, disk, config, round, cleared, settled>>
  BY DEF FailsWithoutAddress
<1>2. op \in OpType /\ {d} \in SUBSET Domains
  BY DEF OpInv
<1>3. op' = [op EXCEPT !.pc = "isolate", !.resumed = FALSE, !.suspect = {d}]
  BY DEF FailsWithoutAddress
<1>4. op' \in OpType
  <2>1. [op EXCEPT !.pc = "isolate"] \in OpType
    BY <1>2, OpFields
  <2>2. [[op EXCEPT !.pc = "isolate"] EXCEPT !.resumed = FALSE] \in OpType
    BY <2>1, OpFields
  <2>3. [[[op EXCEPT !.pc = "isolate"] EXCEPT !.resumed = FALSE] EXCEPT !.suspect = {d}]
          \in OpType
    BY <1>2, <2>2, OpFields
  <2> QED
    BY <1>3, <2>3
<1>5. op'.pc = "isolate" /\ op'.asked = op.asked /\ op'.got = op.got /\ op'.kind = op.kind
      /\ op'.drop = op.drop /\ op'.previous = op.previous
  BY <1>2, <1>3, SMT DEF OpType
<1>6. OpInv'
  BY <1>1, <1>4, <1>5 DEF OpInv
<1>7. StateInv'
  BY <1>1, StateStays
<1> QED
  BY <1>1, <1>5, <1>6, <1>7, GoesOn

\* The policy has all manual domains of the configuration that it is for, and
\* the records have lost what was cleared.
LEMMA CommitsKept ==
  ASSUME IInv, Commits
  PROVE  IInv'
<1> USE DEF IInv
<1>1. op \in OpType /\ op.pc = "apply" /\ op.of \in Configs
      /\ AccelerationDomains(op.of) \subseteq op.got
      /\ op.got \subseteq op.asked /\ op.got \in SUBSET Domains
      /\ op.asked \cap (cleared \cup op.drop) = {} /\ op.drop \in SUBSET Domains
  BY DEF Commits, OpInv, OpType
<1>2. PICK addresses \in BOOLEAN :
        LET base == [Without(mem, op.drop) EXCEPT
                       !.policy = op.got, !.plan = IF op.kind = "run" THEN None ELSE @]
            next == recordDomainAllocationResults(base, TRUE, addresses)
        IN \/ /\ \/ Saves(next) /\ Ends(TRUE) /\ UNCHANGED config
                 \/ mem' = next /\ disk' = next /\ Fails
              /\ settled' = op.of /\ cleared' = cleared \cup op.drop
           \/ SaveFails(next) /\ Fails /\ UNCHANGED <<settled, cleared>>
  BY DEF Commits
<1>3. mem \in States
  BY DEF StateInv, Good
<1>4. PICK w \in RecordMaps : /\ Without(mem, op.drop) = [mem EXCEPT !.records = w]
                              /\ Recorded(w) = Recorded(mem.records) \ op.drop
  BY <1>3, WithoutFacts
<1> DEFINE bare == [mem EXCEPT !.records = w]
           mapped == [bare EXCEPT !.policy = op.got]
           p == IF op.kind = "run" THEN None ELSE mem.plan
           base == [mapped EXCEPT !.plan = p]
<1>5. bare \in States /\ bare.records = w /\ bare.plan = mem.plan
  <2>1. bare \in States
    BY <1>3, StateFields
  <2> QED
    BY <1>3, <2>1, SMT DEF States
<1>6. [Without(mem, op.drop) EXCEPT
         !.policy = op.got, !.plan = IF op.kind = "run" THEN None ELSE @] = base
  BY <1>4, <1>5
<1> HIDE DEF bare
<1>7. mapped \in States /\ mapped.records = w /\ mapped.policy = op.got
  <2>1. mapped \in States
    BY <1>1, <1>5, StateFields
  <2> QED
    BY <1>5, <2>1, SMT DEF States
<1> HIDE DEF mapped
<1>8. p \in Checkpoints \cup {None}
      /\ (p # None => p = mem.plan)
  BY <1>3 DEF States
<1> HIDE DEF p
<1>9. base \in States /\ base.records = w /\ base.policy = op.got /\ base.plan = p
  <2>1. base \in States
    BY <1>7, <1>8, StateFields
  <2> QED
    BY <1>7, <2>1, SMT DEF States
<1> HIDE DEF base
<1>10. PICK r \in RecordMaps :
         /\ recordDomainAllocationResults(base, TRUE, addresses) = [base EXCEPT !.records = r]
         /\ Recorded(r) \subseteq Recorded(w) \cup op.asked
  BY <1>9, ResultsFacts DEF AroundType
<1> DEFINE next == [base EXCEPT !.records = r]
           gone == cleared \cup op.drop
<1>11. gone \cap Recorded(r) = {} /\ gone \cap op.got = {}
  BY <1>1, <1>4, <1>10 DEF StateInv, Good, Gone
<1>12. next \in States /\ next.records = r /\ next.policy = op.got /\ next.plan = p
  <2>1. next \in States
    BY <1>9, StateFields
  <2> QED
    BY <1>9, <2>1, SMT DEF States
<1>13. \/ /\ \/ Saves(next) /\ Ends(TRUE) /\ UNCHANGED config
             \/ mem' = next /\ disk' = next /\ Fails
          /\ settled' = op.of /\ cleared' = gone
       \/ SaveFails(next) /\ Fails /\ UNCHANGED <<settled, cleared>>
  BY <1>2, <1>6, <1>10
<1> HIDE DEF next
<1>14. Good(next, gone, op.of)
  <2>1. Gone(next, gone)
    BY <1>11, <1>12 DEF Gone
  <2>2. op.got # None
    BY <1>1, NoneIsNoValue
  <2>3. Covers(next, op.of)
    BY <1>1, <1>12, <2>2 DEF Covers
  <2>4. PlanCovers(next)
    BY <1>8, <1>12 DEF StateInv, Good, PlanCovers
  <2> QED
    BY <1>12, <2>1, <2>3, <2>4 DEF Good
<1>15. CASE /\ \/ Saves(next) /\ Ends(TRUE) /\ UNCHANGED config
               \/ mem' = next /\ disk' = next /\ Fails
            /\ settled' = op.of /\ cleared' = gone
  <2>1. StateInv'
    BY <1>14, <1>15 DEF StateInv, Saves
  <2>2. cleared' \subseteq cleared \/ op.kind = "clear"
    BY <1>15 DEF OpInv
  <2>3. OpInv' /\ RoundInv'
    BY <1>15, <2>2, EndsKept DEF Fails
  <2>4. config' \in Configs /\ gone \cap AccelerationDomains(config') = {}
    <3>1. CASE config' = config
      BY <3>1 DEF AroundType, OpInv
    <3>2. CASE op.kind = "domains" /\ config' = op.previous
      BY <3>2 DEF OpInv
    <3> QED
      BY <1>15, <3>1, <3>2 DEF Fails
  <2>5. AroundType'
    BY <1>1, <1>15, <2>4 DEF AroundType
  <2> QED
    BY <2>1, <2>3, <2>5
<1>16. CASE SaveFails(next) /\ Fails /\ UNCHANGED <<settled, cleared>>
  <2>1. StateInv'
    BY <1>11, <1>12, <1>16, SaveFailsKept
  <2>2. AroundType' /\ OpInv' /\ RoundInv'
    BY <1>16, FailsKept
  <2> QED
    BY <2>1, <2>2
<1> QED
  BY <1>13, <1>15, <1>16

-----------------------------------------------------------------------------
(* Around, and the theorems *)

\* Nothing of it moves.
LEMMA StaysKept ==
  ASSUME IInv, UNCHANGED <<mem, disk, config, round, op, cleared, settled>>
  PROVE  IInv'
<1>1. StateInv' /\ AroundType' /\ OpInv' /\ RoundInv'
  BY StateStays, AroundStays, OpStays, RoundStays DEF IInv
<1> QED
  BY <1>1 DEF IInv

LEMMA CrashesKept ==
  ASSUME IInv, Crashes
  PROVE  IInv'
<1> USE DEF IInv
<1>1. UNCHANGED <<disk, cleared, settled>> /\ mem' = disk /\ round' = NoRound /\ op' = NoOp
  BY DEF Crashes
<1>2. StateInv'
  BY <1>1 DEF StateInv
<1>3. config' \in Configs /\ cleared \cap AccelerationDomains(config') = {}
  BY DEF Crashes, Views, OpInv, AroundType
<1>4. OpInv' /\ RoundInv'
  BY <1>1, NoOpKept, NoRoundKept
<1> QED
  BY <1>1, <1>2, <1>3, <1>4 DEF AroundType

LEMMA Invariance == Spec => []IInv
<1>1. ASSUME IInv, [Next]_vars
      PROVE  IInv'
  <2>1. CASE RoundStep
    <3>1. CASE SeesNothing
      BY <1>1, <3>1, StaysKept DEF SeesNothing, vars
    <3> QED
      BY <1>1, <2>1, <3>1, ObservesKept, WritesKept, RefreshesKept, UndoesKept DEF RoundStep
  <2>2. CASE Progress
    <3>1. CASE CannotIsolate
      BY <1>1, <3>1, GivesUpKept DEF CannotIsolate
    <3> QED
      BY <1>1, <2>2, <3>1, AllocatesKept, FailsManualKept, IsolatesKept, PlansKept, CommitsKept,
         ComesToDomainsKept, DryRunEndsKept DEF Progress
  <2>3. CASE FailsToApply \/ FailsInPool
    BY <1>1, <2>3, GivesUpKept, FailsInPoolKept DEF FailsToApply
  <2>4. CASE \E d \in Domains : FailsAtAddress(d) \/ FailsWithoutAddress(d)
    BY <1>1, <2>4, FailsAtAddressKept, FailsWithoutAddressKept
  <2>5. CASE Around
    <3>1. CASE MihomoChanges
      BY <1>1, <3>1, StaysKept DEF MihomoChanges
    <3> QED
      BY <1>1, <2>5, <3>1, RunBeginsKept, ClearsKept, CrashesKept, DomainsBeginKept,
         ReconfiguresKept DEF Around
  <2>6. CASE UNCHANGED vars
    BY <1>1, <2>6, StaysKept DEF vars
  <2> QED
    BY <1>1, <2>1, <2>2, <2>3, <2>4, <2>5, <2>6 DEF Next, OpStep
<1> QED
  BY <1>1, InitIInv, PTL DEF Spec

\* The manual domains of the configuration whose lists the last commit mapped stay
\* mapped, in memory and in the file, as long as that configuration is in force:
\* no round, clearing, isolation, failed or resumed operation, no stamp of
\* markCheckpointFailure and no crash takes one out of the policy.  A run that goes
\* on with evidence stamped anew maps the lists of an older configuration; the
\* theorem then speaks of that one.
THEOREM ManualDomainsStay == Spec => []ManualStays
<1>1. IInv => ManualStays
  <2> SUFFICES ASSUME IInv, settled = config, NEW s \in {mem, disk}
               PROVE  s.policy # None /\ AccelerationDomains(config) \subseteq s.policy
    BY DEF ManualStays
  <2>1. config # None
    BY NoneIsNoValue DEF IInv, AroundType
  <2> QED
    BY <2>1 DEF IInv, StateInv, Good, Covers
<1> QED
  BY <1>1, Invariance, PTL

\* What Runtime.ClearDiscoveredDomains has dropped has no record and no mapping
\* until a round that began afterwards sees it, a configuration lists it, or a
\* run goes on with a plan of before: no round, refresh or run that was under
\* way, no failed write and no crash brings it back.
THEOREM ClearingsLast == Spec => []ClearedIsGone
<1>1. IInv => ClearedIsGone
  BY DEF IInv, StateInv, Good, Gone, ClearedIsGone
<1> QED
  BY <1>1, Invariance, PTL

==============================================================================
