------------------------ MODULE PolicyTransactionProofs ------------------------
(***************************************************************************)
(* Safety of the policy operations, for every set of adapters, nodes and   *)
(* target policies, every kind of failing call and every number of         *)
(* operations, failures, crashes and uninstalls.                           *)
(*                                                                         *)
(* ChangesAreCovered is not inductive: it speaks of the whole journal in   *)
(* the file of the store, and the journal is written from memory and       *)
(* undone in groups.  IInv says instead, for each adapter without a known  *)
(* gap (exempt) and with C for its committed content:                      *)
(*   - JournalInv: every receipt of a journal changes from C or from what  *)
(*     an older receipt of that journal applied (Linked), and the file has *)
(*     C or what a receipt of the journal applied (Explained): of the      *)
(*     memory and of the file, which a failed write lets drift apart;      *)
(*   - HeldInv, NewInv: what an operation holds is in both journals, but   *)
(*     for the receipt just issued, which goes back to something they      *)
(*     explain;                                                            *)
(*   - UndoInv: while a group is undone without an error, what is left of  *)
(*     it and the receipts outside it explain the file;                    *)
(*   - ChainInv: the oldest change of the committed chain is from the      *)
(*     original content;                                                   *)
(*   - IdInv, FilesInv: identifiers tell the order of issue, and receipts  *)
(*     of an operation follow one another.                                 *)
(* PlanInv, beside it, says that what an operation holds is of its plan,   *)
(* and that the plan ends with the policy it was asked for.  Both together *)
(* make every step one of AtomicPolicy.                                    *)
(***************************************************************************)
EXTENDS PolicyTransaction, FiniteSetTheorems, WellFoundedInduction, TLAPS

-----------------------------------------------------------------------------
(* The inductive invariant *)

Up == proc # "down"
Between == At("adapter") \/ At("record") \/ At("verify") \/ At("applied")
             \/ At("system") \/ At("commit")
Planning == At("begin") \/ Between
Idling == At("idle") \/ At("recover") \/ At("uninstall")

\* Every receipt anybody holds.
Known == mem.pending.receipts \cup mem.policy.receipts \cup disk.pending.receipts
           \cup disk.policy.receipts \cup op.done \cup op.result \cup op.undo \cup op.group

ControlInv ==
  /\ proc = "down" => At("idle") /\ mem = EmptyStore
  /\ At("uninstall") => proc = "cleanup"
  /\ Planning \/ At("undo") => proc = "daemon"
  /\ Planning => op.plan # <<>>
  /\ ~Between => op.result = {}
  /\ Idling => op.done = {}
  /\ Between \/ At("recover") \/ At("uninstall") => mem = disk
  /\ Up => mem.policy = disk.policy
  /\ ~mem.pending.open => mem.pending.receipts = {}
  /\ ~disk.pending.open => disk.pending.receipts = {}
  /\ ~disk.policy.open => disk.policy = NoPolicy

\* Identifiers are given once, in order of time.
IdInv ==
  /\ \A r \in Known : r.id \in 1..issued
  /\ Distinct(Known)
  /\ \A p \in disk.policy.receipts, r \in op.done \cup op.result : p.id < r.id
  /\ \A d \in op.done, r \in op.result : d.id < r.id

\* What an operation holds is in the journal, except the receipt just issued.
HeldInv ==
  /\ op.done \subseteq mem.pending.receipts \cap disk.pending.receipts
  /\ \A r \in op.result : r \in mem.pending.receipts \/ (At("record") /\ r.id = issued)
  /\ At("record") => \E r \in op.result : r.id = issued /\ r \notin mem.pending.receipts
  /\ At("undo") \/ At("recover") =>
       /\ op.group \subseteq mem.pending.receipts
       /\ op.group \cap op.done = {}
  /\ At("recover") => op.group = mem.pending.receipts
  /\ At("uninstall") =>
       /\ ~mem.pending.open /\ op.group = mem.policy.receipts
  /\ \A r \in op.undo, q \in op.group : q.id < r.id => q \in op.undo

\* The receipts and files of the operation in progress.
FilesInv ==
  Planning =>
    /\ \A r, q \in op.result : r.adapter = q.adapter => r = q
    /\ \A r, q \in op.done : r.adapter = q.adapter => r = q
    /\ \A r \in op.result : file[r.adapter] = r.applied /\ r.adapter \notin op.todo
    /\ \A d \in op.done :
         IF \E r \in op.result : r.adapter = d.adapter
         THEN \A r \in op.result : r.adapter = d.adapter => r.previous = d.applied
         ELSE file[d.adapter] = d.applied

\* c is the content base, or one that a receipt of the adapter has applied.
Explained(c, receipts, a, base) ==
  \/ c = base
  \/ \E q \in receipts : q.adapter = a /\ Changed(q) /\ q.applied = c

Linked(receipts, a, base) ==
  \A r \in receipts :
    r.adapter = a /\ Changed(r) =>
      Explained(r.previous, {q \in receipts : q.id < r.id}, a, base)

\* The journal explains the files.
Recording(a) == At("record") /\ \E r \in op.result : r.id = issued /\ r.adapter = a

JournalInv ==
  \A a \in Adapters \ exempt :
    /\ Linked(mem.pending.receipts, a, committed[a]) \/ ~Up
    /\ Linked(disk.pending.receipts, a, committed[a])
    /\ Up /\ ~At("uninstall") /\ ~Recording(a) =>
         Explained(file[a], mem.pending.receipts, a, committed[a])
    /\ ~At("uninstall") /\ a \notin Unrecorded =>
         Explained(file[a], disk.pending.receipts, a, committed[a])

\* The receipt just issued, and the one whose write failed.
NewInv ==
  \A a \in Adapters \ exempt :
    /\ At("record") =>
         \A r \in op.result :
           r.id = issued /\ r.adapter = a =>
             Explained(r.previous, mem.pending.receipts, a, committed[a])
    /\ At("undo") =>
         \A r \in op.undo \ disk.pending.receipts :
           r.adapter = a =>
             /\ file[a] = r.applied
             /\ Explained(r.previous, disk.pending.receipts, a, committed[a])

UndoInv ==
  /\ At("undo") => \A r \in op.undo \ disk.pending.receipts, q \in op.undo : q.id <= r.id
  /\ (At("undo") \/ At("recover")) /\ ~op.bad =>
       \A a \in Adapters \ exempt :
         Explained(file[a], (mem.pending.receipts \ op.group) \cup op.undo, a, committed[a])

\* The chain of the committed policy goes back to the original content.
ChangesOf(receipts, a) == {r \in receipts : r.adapter = a /\ Changed(r)}

ChainInv ==
  \A a \in Adapters \ exempt :
    /\ \A r \in ChangesOf(disk.policy.receipts, a) :
         (\A q \in ChangesOf(disk.policy.receipts, a) : r.id <= q.id) => r.previous = Original
    /\ ChangesOf(disk.policy.receipts, a) = {} => committed[a] = Original
    /\ At("uninstall") /\ ~op.bad /\ ChangesOf(op.undo, a) = {} => file[a] = Original

IInv == /\ TypeOK /\ ControlInv /\ IdInv /\ HeldInv /\ FilesInv
        /\ JournalInv /\ NewInv /\ UndoInv /\ ChainInv

-----------------------------------------------------------------------------
(* Receipts in the order of issue *)

\* Induction on the naturals, for a set of them.
LEMMA NaturalInduction ==
  ASSUME NEW S, 0 \in S, \A n \in Nat : n \in S => n + 1 \in S
  PROVE  Nat \subseteq S
<1> SUFFICES ASSUME NEW m \in Nat, m \notin S PROVE FALSE
  OBVIOUS
<1> DEFINE T == {1..k : k \in {k \in 0..m : k \notin S}}
<1>1. T \subseteq FiniteSubsetsOf(1..m)
  <2> SUFFICES ASSUME NEW k \in 0..m PROVE 1..k \in FiniteSubsetsOf(1..m)
    OBVIOUS
  <2>1. IsFiniteSet(1..k)
    BY FS_Interval
  <2> QED
    BY <2>1 DEF FiniteSubsetsOf
<1>2. 1..m \in T
  OBVIOUS
<1>3. PICK x \in T : \A y \in T : ~(<<y, x>> \in StrictSubsetOrdering(1..m))
  <2> HIDE DEF T
  <2>1. T # {}
    BY <1>2
  <2> QED
    BY <1>1, <2>1, FS_StrictSubsetOrderingWellFounded, WFMin
<1>4. PICK k \in 0..m : k \notin S /\ x = 1..k
  OBVIOUS
<1>5. k # 0 /\ k - 1 \in 0..m /\ k - 1 \notin S
  <2>1. k # 0
    BY <1>4
  <2>2. k - 1 \in Nat /\ (k - 1) + 1 = k
    BY <2>1
  <2> QED
    BY <2>1, <2>2, <1>4
<1>6. 1..(k-1) \in T
  BY <1>5
<1>7. <<1..(k-1), 1..k>> \in StrictSubsetOrdering(1..m)
  <2>1. 1..(k-1) \subseteq 1..k /\ 1..k \subseteq 1..m
    OBVIOUS
  <2>2. k \in 1..k /\ k \notin 1..(k-1)
    BY <1>5
  <2> QED
    BY <2>1, <2>2 DEF StrictSubsetOrdering
<1> QED
  BY <1>3, <1>4, <1>6, <1>7


\* There is a newest one of any receipts that have been issued.
LEMMA NewestIs ==
  ASSUME NEW receipts, receipts # {}, NEW n \in Nat, \A r \in receipts : r.id \in 1..n
  PROVE  Newest(receipts) \in receipts /\ \A q \in receipts : q.id <= Newest(receipts).id
<1>1. \E r \in receipts : \A q \in receipts : q.id <= r.id
  <2> SUFFICES ASSUME \A r \in receipts : \E q \in receipts : ~(q.id <= r.id) PROVE FALSE
    OBVIOUS
  <2> DEFINE S == {k \in Nat : \E r \in receipts : k <= r.id}
  <2>1. 0 \in S
    OBVIOUS
  <2>2. ASSUME NEW k \in Nat, k \in S PROVE k + 1 \in S
    <3>1. PICK r \in receipts : k <= r.id
      BY <2>2
    <3>2. PICK q \in receipts : ~(q.id <= r.id)
      OBVIOUS
    <3>3. q.id \in 1..n /\ r.id \in 1..n
      OBVIOUS
    <3> QED
      BY <3>1, <3>2, <3>3
  <2> HIDE DEF S
  <2>3. n + 1 \in S
    BY <2>1, <2>2, NaturalInduction
  <2>4. PICK r \in receipts : n + 1 <= r.id
    BY <2>3 DEF S
  <2> QED
    BY <2>4
<1> QED
  BY <1>1 DEF Newest

-----------------------------------------------------------------------------
(* The record of the operation *)

\* The fields of an operation that is none.
LEMMA IdleFields ==
  /\ Idle \in Operation
  /\ Idle.pc = "idle" /\ Idle.plan = <<>> /\ Idle.todo = {} /\ Idle.done = {}
  /\ Idle.result = {} /\ Idle.undo = {} /\ Idle.group = {} /\ Idle.bad = FALSE
  BY DEF Idle, Operation, Steps

\* Setting a field keeps the type and the other fields.
LEMMA OperationFields ==
  ASSUME NEW o \in Operation
  PROVE  /\ \A x \in Steps : [o EXCEPT !.pc = x] \in Operation
         /\ \A x \in Kinds \cup {"none"} : [o EXCEPT !.kind = x] \in Operation
         /\ \A x \in Seq(Contents) : [o EXCEPT !.plan = x] \in Operation
         /\ \A x \in SUBSET Adapters : [o EXCEPT !.todo = x] \in Operation
         /\ \A x \in SUBSET Receipt : [o EXCEPT !.done = x] \in Operation
         /\ \A x \in SUBSET Receipt : [o EXCEPT !.result = x] \in Operation
         /\ \A x \in SUBSET Receipt : [o EXCEPT !.undo = x] \in Operation
         /\ \A x \in SUBSET Receipt : [o EXCEPT !.group = x] \in Operation
         /\ \A x \in BOOLEAN : [o EXCEPT !.bad = x] \in Operation
<1> DEFINE R == SUBSET Receipt
           Ks == Kinds \cup {"none"}
           Ps == Seq(Contents)
           Ts == SUBSET Adapters
<1>1. Operation = [pc : Steps, kind : Ks, plan : Ps, todo : Ts, done : R, result : R,
                   undo : R, group : R, bad : BOOLEAN]
  BY DEF Operation
<1> HIDE DEF R, Ks, Ps, Ts
<1>2. /\ \A x \in Steps : [o EXCEPT !.pc = x] \in Operation
      /\ \A x \in Ks : [o EXCEPT !.kind = x] \in Operation
      /\ \A x \in Ps : [o EXCEPT !.plan = x] \in Operation
      /\ \A x \in Ts : [o EXCEPT !.todo = x] \in Operation
      /\ \A x \in R : [o EXCEPT !.done = x] \in Operation
      /\ \A x \in R : [o EXCEPT !.result = x] \in Operation
      /\ \A x \in R : [o EXCEPT !.undo = x] \in Operation
      /\ \A x \in R : [o EXCEPT !.group = x] \in Operation
      /\ \A x \in BOOLEAN : [o EXCEPT !.bad = x] \in Operation
  BY <1>1
<1> QED
  BY <1>2 DEF R, Ks, Ps, Ts

\* An operation that undoes a group, with what is left of it.
IsUndoing(o, G, done, result) ==
  /\ o \in Operation /\ o.pc = "undo" /\ o.undo = G /\ o.group = G /\ o.bad = FALSE
  /\ o.done = done /\ o.result = result

\* An operation that turns to undoing keeps what it does not undo.
LEMMA UndoingFields ==
  ASSUME NEW o \in Operation, NEW G \in SUBSET Receipt
  PROVE  IsUndoing(Undoing(o, G), G, o.done, o.result)
<1> DEFINE o1 == [o EXCEPT !.pc = "undo"]
           o2 == [o1 EXCEPT !.undo = G]
           o3 == [o2 EXCEPT !.group = G]
           o4 == [o3 EXCEPT !.bad = FALSE]
<1>1. "undo" \in Steps /\ FALSE \in BOOLEAN
  BY DEF Steps
<1>2. o1 \in Operation /\ o2 \in Operation /\ o3 \in Operation /\ o4 \in Operation
  <2>1. o1 \in Operation
    BY <1>1, OperationFields
  <2> HIDE DEF o1
  <2>2. o2 \in Operation
    BY <2>1, OperationFields
  <2> HIDE DEF o2
  <2>3. o3 \in Operation
    BY <2>2, OperationFields
  <2> HIDE DEF o3
  <2>4. o4 \in Operation
    BY <2>3, <1>1, OperationFields
  <2> QED
    BY <2>1, <2>2, <2>3, <2>4
<1>3. o1.pc = "undo" /\ o1.done = o.done /\ o1.result = o.result
  BY DEF Operation
<1> HIDE DEF o1
<1>4. o2.pc = "undo" /\ o2.undo = G /\ o2.done = o.done /\ o2.result = o.result
  BY <1>2, <1>3 DEF Operation
<1> HIDE DEF o2
<1>5. /\ o3.pc = "undo" /\ o3.undo = G /\ o3.group = G
      /\ o3.done = o.done /\ o3.result = o.result
  BY <1>2, <1>4 DEF Operation
<1> HIDE DEF o3
<1>6. /\ o4.pc = "undo" /\ o4.undo = G /\ o4.group = G /\ o4.bad = FALSE
      /\ o4.done = o.done /\ o4.result = o.result
  BY <1>2, <1>5 DEF Operation
<1>7. Undoing(o, G) = o4
  BY DEF Undoing, o3, o2, o1
<1> HIDE DEF o4
<1> QED
  BY <1>2, <1>6, <1>7 DEF IsUndoing

\* The transition is undone, if there was one.
LEMMA RollbackDoneFields ==
  ASSUME NEW o \in Operation, o.result = {}
  PROVE  IF o.done = {} THEN RollbackDone(o) = Idle
         ELSE IsUndoing(RollbackDone(o), o.done, {}, {})
<1> DEFINE o1 == [o EXCEPT !.done = {}]
<1>1. o1.done = {} /\ o1.result = {}
  BY DEF Operation
<1>2. o.done \in SUBSET Receipt /\ {} \in SUBSET Receipt
  BY DEF Operation
<1>3. o1 \in Operation
  BY <1>2, OperationFields
<1>4. o.done # {} => RollbackDone(o) = Undoing(o1, o.done)
  BY DEF RollbackDone
<1> HIDE DEF o1
<1>5. IsUndoing(Undoing(o1, o.done), o.done, {}, {})
  BY <1>1, <1>2, <1>3, UndoingFields
<1> QED
  BY <1>4, <1>5 DEF RollbackDone

\* The receipts of this Apply are undone.
LEMMA RollbackAllFields ==
  ASSUME NEW o \in Operation
  PROVE  IsUndoing(rollbackAll(o), o.result, o.done, {})
<1> DEFINE o1 == [o EXCEPT !.result = {}]
<1>1. o1.done = o.done /\ o1.result = {}
  BY DEF Operation
<1>2. o.result \in SUBSET Receipt /\ {} \in SUBSET Receipt
  BY DEF Operation
<1>3. o1 \in Operation
  BY <1>2, OperationFields
<1>4. rollbackAll(o) = Undoing(o1, o.result)
  BY DEF rollbackAll
<1> HIDE DEF o1
<1>5. IsUndoing(Undoing(o1, o.result), o.result, o.done, {})
  BY <1>1, <1>2, <1>3, UndoingFields
<1> QED
  BY <1>4, <1>5

\* All receipts of the operation are undone, if it has any.
LEMMA RollbackCombinedFields ==
  ASSUME NEW o \in Operation
  PROVE  IF o.done \cup o.result = {} THEN RollbackCombined(o) = Idle
         ELSE IsUndoing(RollbackCombined(o), o.done \cup o.result, {}, {})
<1> DEFINE o1 == [o EXCEPT !.done = {}]
           o2 == [o1 EXCEPT !.result = {}]
           G == o.done \cup o.result
<1>1. G \in SUBSET Receipt /\ {} \in SUBSET Receipt
  BY DEF Operation
<1>2. o1 \in Operation /\ o1.done = {}
  <2>1. o1 \in Operation
    BY <1>1, OperationFields
  <2> QED
    BY <2>1 DEF Operation
<1>3. o.done \cup o.result # {} => RollbackCombined(o) = Undoing(o2, G)
  BY DEF RollbackCombined
<1> HIDE DEF o1
<1>4. o2 \in Operation
  BY <1>1, <1>2, OperationFields
<1>5. o2.done = {} /\ o2.result = {}
  BY <1>2, <1>4 DEF Operation
<1> HIDE DEF o2
<1>6. IsUndoing(Undoing(o2, G), G, {}, {})
  BY <1>1, <1>4, <1>5, UndoingFields
<1> QED
  BY <1>3, <1>6 DEF RollbackCombined
-----------------------------------------------------------------------------
(* The store *)

\* Opening the journal and recording a receipt change only the journal.
LEMMA StoreUpdates ==
  ASSUME NEW s \in Store, s.pending.open \/ s.pending.receipts = {}
  PROVE  /\ Begun(s) \in Store /\ Begun(s).policy = s.policy /\ Begun(s).pending.open
         /\ Begun(s).pending.receipts = s.pending.receipts
         /\ \A r \in Receipt :
              /\ Recorded(s, r) \in Store /\ Recorded(s, r).policy = s.policy
              /\ Recorded(s, r).pending.open
              /\ Recorded(s, r).pending.receipts = s.pending.receipts \cup {r}
  BY DEF Store, Begun, Recorded, Holding

\* Removing a group leaves the other receipts, and closes an empty journal.
LEMMA StoreRemoval ==
  ASSUME NEW s \in Store, s.pending.open \/ s.pending.receipts = {},
         Distinct(s.pending.receipts), NEW G, G \subseteq s.pending.receipts
  PROVE  /\ Removed(s, G) \in Store /\ Removed(s, G).policy = s.policy
         /\ Removed(s, G).pending.receipts = s.pending.receipts \ G
         /\ Removed(s, G).pending.open <=> s.pending.receipts \ G # {}
<1> DEFINE left == {r \in s.pending.receipts : r.id \notin {g.id : g \in G}}
<1>1. left = s.pending.receipts \ G
  BY DEF Distinct
<1> DEFINE rest == IF s.pending.open /\ left # {} THEN Holding(left) ELSE Closed
<1>2. Removed(s, G) = [s EXCEPT !.pending = rest]
  BY DEF Removed
<1>3. left \subseteq Receipt
  BY DEF Store
<1>4. s.pending.open \in BOOLEAN
  BY DEF Store
<1> HIDE DEF left
<1>5. /\ rest \in [open : BOOLEAN, receipts : SUBSET Receipt]
      /\ rest.receipts = left /\ (rest.open <=> left # {})
  BY <1>1, <1>3, <1>4 DEF Holding, Closed
<1> HIDE DEF rest
<1> QED
  BY <1>1, <1>2, <1>5 DEF Store

-----------------------------------------------------------------------------
(* What every step relies on *)

\* The types of the fields the steps read.
LEMMA Fields ==
  ASSUME TypeOK
  PROVE  /\ op \in Operation /\ mem \in Store /\ disk \in Store
         /\ op.done \in SUBSET Receipt /\ op.result \in SUBSET Receipt
         /\ op.undo \in SUBSET Receipt /\ op.group \in SUBSET Receipt
         /\ mem.pending.receipts \in SUBSET Receipt /\ mem.policy.receipts \in SUBSET Receipt
         /\ disk.pending.receipts \in SUBSET Receipt /\ disk.policy.receipts \in SUBSET Receipt
         /\ \A r \in Receipt : /\ r.id \in Nat /\ r.adapter \in Adapters
                               /\ r.previous \in Contents /\ r.applied \in Contents
  BY DEF TypeOK, Operation, Store, Receipt

\* The receipt to be recorded is the last one issued, and the only one that is
\* not in the journal.
LEMMA IssuedReceipt ==
  ASSUME IInv, At("record")
  PROVE  LET r == Newest(op.result) IN
           /\ r \in op.result /\ r.id = issued /\ r \notin mem.pending.receipts
           /\ \A q \in op.result : q.id = issued => q = r
           /\ op.result \cup mem.pending.receipts = mem.pending.receipts \cup {r}
<1>1. PICK r \in op.result : r.id = issued /\ r \notin mem.pending.receipts
  BY DEF IInv, HeldInv
<1>2. /\ issued \in Nat /\ \A q \in op.result : q.id \in 1..issued
      /\ \A p, q \in op.result : p.id = q.id => p = q
  BY DEF IInv, TypeOK, IdInv, Known, Distinct
<1>3. /\ Newest(op.result) \in op.result
      /\ \A q \in op.result : q.id <= Newest(op.result).id
  BY <1>1, <1>2, NewestIs
<1>4. Newest(op.result).id = issued
  BY <1>1, <1>2, <1>3
<1>5. Newest(op.result) = r
  BY <1>1, <1>2, <1>3, <1>4
<1>6. \A q \in op.result : q = r \/ q \in mem.pending.receipts
  BY <1>1, <1>2 DEF IInv, HeldInv
<1> QED
  BY <1>1, <1>2, <1>5, <1>6

\* The journal with the receipts of the operation explains every file.
LEMMA JournalWithResult ==
  ASSUME IInv, Planning, NEW a \in Adapters \ exempt,
         NEW receipts, receipts = mem.pending.receipts \cup op.result
  PROVE  /\ Linked(receipts, a, committed[a])
         /\ Explained(file[a], receipts, a, committed[a])
<1> DEFINE M == mem.pending.receipts
<1>1. \A r \in op.result \ M : At("record") /\ r.id = issued
  BY DEF IInv, HeldInv
<1>2. Up /\ ~At("uninstall")
  BY DEF IInv, ControlInv, Up, Planning, Between, At
<1>3. Linked(M, a, committed[a]) /\ (~Recording(a) => Explained(file[a], M, a, committed[a]))
  BY <1>2 DEF IInv, JournalInv
<1>4. \A r \in op.result \ M : r.adapter = a => Explained(r.previous, M, a, committed[a])
  BY <1>1 DEF IInv, NewInv
<1>5. ASSUME NEW r \in receipts, r.adapter = a, Changed(r)
      PROVE  Explained(r.previous, {q \in receipts : q.id < r.id}, a, committed[a])
  <2>1. CASE r \in M
    BY <1>3, <1>5, <2>1 DEF Linked, Explained
  <2>2. CASE r \notin M
    <3>1. r \in op.result \ M /\ r.id = issued
      BY <1>1, <1>5, <2>2
    <3>2. \A q \in M : q.id \in 1..issued /\ q.id # r.id
      BY <3>1 DEF IInv, IdInv, Known, Distinct
    <3>3. issued \in Nat
      BY DEF IInv, TypeOK
    <3>4. \A q \in M : q.id < r.id
      BY <3>1, <3>2, <3>3
    <3> QED
      BY <1>4, <1>5, <3>1, <3>4 DEF Explained
  <2> QED
    BY <2>1, <2>2
<1>6. Explained(file[a], receipts, a, committed[a])
  <2>1. CASE ~Recording(a)
    BY <1>3, <2>1 DEF Explained
  <2>2. CASE Recording(a)
    <3>1. PICK r \in op.result : r.id = issued /\ r.adapter = a /\ At("record")
      BY <2>2 DEF Recording
    <3>2. file[a] = r.applied
      BY <3>1 DEF IInv, FilesInv
    <3>3. Explained(r.previous, M, a, committed[a])
      BY <3>1 DEF IInv, NewInv
    <3> QED
      BY <3>1, <3>2, <3>3 DEF Explained, Changed
  <2> QED
    BY <2>1, <2>2
<1> QED
  BY <1>5, <1>6 DEF Linked

-----------------------------------------------------------------------------
(* An operation starts to undo what it has applied *)

\* Whatever failed, undoing what was applied starts from a covered state.
LEMMA StartsUndoing ==
  ASSUME IInv, Planning,
         NEW G, op.result \subseteq G, G \subseteq op.done \cup op.result,
         NEW D, D \subseteq op.done, D \cap G = {},
         IsUndoing(op', G, D, {}),
         mem' \in Store, mem'.policy = mem.policy,
         mem'.pending.receipts = mem.pending.receipts \cup op.result,
         ~mem'.pending.open => mem'.pending.receipts = {},
         UNCHANGED <<disk, proc, issued, committed>>,
         exempt \subseteq exempt', exempt' \subseteq Adapters,
         file' \in [Adapters -> Contents],
         \A a \in Adapters \ exempt' : file'[a] = file[a],
         ops' \in Nat, uninstalls' \in Nat, faults' \in Nat, crashes' \in Nat
  PROVE  IInv'
<1> USE DEF IsUndoing
<1>1. /\ At("undo")' /\ ~Planning' /\ ~Between' /\ ~Idling'
      /\ ~At("record")' /\ ~At("recover")' /\ ~At("uninstall")' /\ ~At("idle")'
  BY DEF At, Planning, Between, Idling
<1>2. Known' \subseteq Known
  BY DEF Known
<1>3. TypeOK'
  <2>1. Distinct(mem'.pending.receipts) /\ Distinct(mem'.policy.receipts)
    BY DEF IInv, IdInv, Known, Distinct
  <2> QED
    BY <2>1 DEF IInv, TypeOK
<1>4. ControlInv'
  BY <1>1 DEF IInv, ControlInv, Up, Planning, At
<1>5. IdInv'
  BY <1>2 DEF IInv, IdInv, Distinct
<1>6. HeldInv'
  BY <1>1 DEF IInv, HeldInv
<1>7. FilesInv'
  BY <1>1 DEF FilesInv
<1>8. \A r \in op.result \ mem.pending.receipts : At("record") /\ r.id = issued
  BY DEF IInv, HeldInv
<1>9. /\ Up /\ ~At("uninstall") /\ ~At("undo")
      /\ op.result # {} => mem = disk
  BY DEF IInv, ControlInv, Up, Planning, Between, At
<1>10. ASSUME NEW a \in Adapters \ exempt'
       PROVE  /\ Linked(mem'.pending.receipts, a, committed[a])
              /\ Linked(disk.pending.receipts, a, committed[a])
              /\ Explained(file[a], mem'.pending.receipts, a, committed[a])
              /\ a \notin Unrecorded' => Explained(file[a], disk.pending.receipts, a, committed[a])
  <2>1. a \in Adapters \ exempt
    OBVIOUS
  <2>2. /\ Linked(mem'.pending.receipts, a, committed[a])
        /\ Explained(file[a], mem'.pending.receipts, a, committed[a])
    BY <2>1, JournalWithResult
  <2>3. Linked(disk.pending.receipts, a, committed[a])
    BY <2>1 DEF IInv, JournalInv
  <2>4. ASSUME a \notin Unrecorded'
        PROVE  Explained(file[a], disk.pending.receipts, a, committed[a])
    <3>1. a \notin {r.adapter : r \in G \ disk.pending.receipts}
      BY <2>4, <1>1 DEF Unrecorded
    <3>2. a \notin Unrecorded
      <4>1. CASE At("record")
        <5>1. Newest(op.result) \in op.result
          BY <4>1, IssuedReceipt
        <5> QED
          BY <3>1, <4>1, <5>1 DEF Unrecorded
      <4>2. CASE ~At("record")
        BY <1>9, <4>2 DEF Unrecorded
      <4> QED
        BY <4>1, <4>2
    <3> QED
      BY <1>9, <2>1, <3>2 DEF IInv, JournalInv
  <2> QED
    BY <2>2, <2>3, <2>4
<1>11. JournalInv'
  <2>1. \A a \in Adapters \ exempt' : file'[a] = file[a]
    OBVIOUS
  <2> QED
    BY <1>10, <2>1 DEF JournalInv
<1>12. NewInv'
  <2> SUFFICES ASSUME NEW a \in Adapters \ exempt', NEW r \in G \ disk.pending.receipts,
                      r.adapter = a
               PROVE  /\ file[a] = r.applied
                      /\ Explained(r.previous, disk.pending.receipts, a, committed[a])
    BY <1>1 DEF NewInv
  <2>1. r \in op.result \ mem.pending.receipts /\ mem = disk
    BY <1>9 DEF IInv, HeldInv
  <2>2. file[a] = r.applied
    BY <2>1 DEF IInv, FilesInv
  <2>3. Explained(r.previous, mem.pending.receipts, a, committed[a])
    BY <1>8, <2>1 DEF IInv, NewInv
  <2> QED
    BY <2>1, <2>2, <2>3
<1>13. UndoInv'
  <2>1. ASSUME NEW r \in G \ disk.pending.receipts, NEW q \in G PROVE q.id <= r.id
    <3>1. r \in op.result \ mem.pending.receipts
      BY <1>9 DEF IInv, HeldInv
    <3>2. r.id = issued /\ q.id \in 1..issued /\ issued \in Nat
      BY <1>8, <3>1 DEF IInv, IdInv, Known, TypeOK
    <3> QED
      BY <3>2
  <2>2. (mem'.pending.receipts \ G) \cup G = mem'.pending.receipts
    BY DEF IInv, HeldInv
  <2>3. \A a \in Adapters \ exempt' :
          Explained(file[a], (mem'.pending.receipts \ G) \cup G, a, committed[a])
    BY <1>10, <2>2
  <2>4. \A a \in Adapters \ exempt' : file'[a] = file[a]
    OBVIOUS
  <2> QED
    BY <1>1, <2>1, <2>3, <2>4 DEF UndoInv
<1>14. ChainInv'
  BY <1>1 DEF IInv, ChainInv, ChangesOf
<1> QED
  BY <1>3, <1>4, <1>5, <1>6, <1>7, <1>11, <1>12, <1>13, <1>14 DEF IInv

\* Nothing is left of the operation.
LEMMA BecomesIdle ==
  ASSUME IInv, Planning \/ (At("undo") /\ op.undo = {}), op.result = {}, op' = Idle,
         UNCHANGED <<file, mem, disk, proc, issued, committed, exempt>>,
         ops' \in Nat, uninstalls' \in Nat, faults' \in Nat, crashes' \in Nat
  PROVE  IInv'
<1>1. /\ At("idle")' /\ ~Planning' /\ ~Between'
      /\ ~At("record")' /\ ~At("recover")' /\ ~At("uninstall")' /\ ~At("undo")'
  BY IdleFields DEF At, Planning, Between
<1>2. op'.done = {} /\ op'.result = {} /\ op'.undo = {} /\ op'.group = {} /\ op' \in Operation
  BY IdleFields
<1>3. Known' \subseteq Known
  BY <1>2 DEF Known
<1>4. /\ Up /\ ~At("uninstall") /\ ~At("record")
      /\ Unrecorded = {}
  BY DEF IInv, ControlInv, HeldInv, Up, Planning, Between, At, Unrecorded
<1>5. TypeOK'
  BY <1>2 DEF IInv, TypeOK
<1>6. ControlInv'
  BY <1>1, <1>2 DEF IInv, ControlInv, Up
<1>7. IdInv'
  BY <1>2, <1>3 DEF IInv, IdInv, Distinct
<1>8. HeldInv'
  BY <1>1, <1>2 DEF HeldInv
<1>9. FilesInv'
  BY <1>1 DEF FilesInv
<1>10. JournalInv'
  <2>1. ASSUME NEW a \in Adapters \ exempt
        PROVE  /\ Linked(mem.pending.receipts, a, committed[a])
               /\ Linked(disk.pending.receipts, a, committed[a])
               /\ Explained(file[a], mem.pending.receipts, a, committed[a])
               /\ Explained(file[a], disk.pending.receipts, a, committed[a])
    BY <1>4 DEF IInv, JournalInv, Recording
  <2> QED
    BY <2>1 DEF JournalInv
<1>11. NewInv' /\ UndoInv'
  BY <1>1 DEF NewInv, UndoInv
<1>12. ChainInv'
  BY <1>1 DEF IInv, ChainInv, ChangesOf
<1> QED
  BY <1>5, <1>6, <1>7, <1>8, <1>9, <1>10, <1>11, <1>12 DEF IInv

-----------------------------------------------------------------------------
(* Failures of an operation *)

\* With the memory as it is, what was applied is undone.
LEMMA RollsBack ==
  ASSUME IInv, Planning, ~At("record"), NEW G, NEW D,
         op.result \subseteq G, G \subseteq op.done \cup op.result, D \subseteq op.done,
         D \cap G = {}, IsUndoing(op', G, D, {}),
         UNCHANGED <<mem, disk, proc, issued, committed>>,
         exempt \subseteq exempt', exempt' \subseteq Adapters,
         file' \in [Adapters -> Contents],
         \A a \in Adapters \ exempt' : file'[a] = file[a],
         ops' \in Nat, uninstalls' \in Nat, faults' \in Nat, crashes' \in Nat
  PROVE  IInv'
<1>1. mem'.pending.receipts = mem.pending.receipts \cup op.result
  BY DEF IInv, HeldInv
<1>2. mem' \in Store /\ (~mem'.pending.open => mem'.pending.receipts = {})
  BY DEF IInv, TypeOK, ControlInv
<1> QED
  BY <1>1, <1>2, StartsUndoing

\* No adapter is active, or the journal cannot be opened.
LEMMA BeginFailsInv == ASSUME IInv, BeginFails PROVE IInv'
<1>1. Planning /\ ~At("record") /\ op.result = {}
  BY DEF BeginFails, Planning, Between, At, IInv, ControlInv
<1>2. UNCHANGED <<file, mem, disk, proc, issued, committed, exempt>>
  BY DEF BeginFails, UpdateFails
<1>3. op \in Operation /\ op' = RollbackDone(op)
  BY DEF BeginFails, IInv, TypeOK
<1>4. ops' \in Nat /\ uninstalls' \in Nat /\ faults' \in Nat /\ crashes' \in Nat
  BY DEF BeginFails, UpdateFails, Fault, IInv, TypeOK
<1>5. CASE op.done = {}
  BY <1>1, <1>2, <1>3, <1>4, <1>5, BecomesIdle, RollbackDoneFields
<1>6. CASE op.done # {}
  <2>1. IsUndoing(op', op.done, {}, {})
    BY <1>1, <1>3, <1>6, RollbackDoneFields
  <2>2. exempt' \subseteq Adapters /\ file' \in [Adapters -> Contents]
    BY <1>2 DEF IInv, TypeOK
  <2> QED
    BY <1>1, <1>2, <1>4, <2>1, <2>2, RollsBack
<1> QED
  BY <1>5, <1>6

\* An adapter refuses the policy, and may not have restored its file.
LEMMA ApplyFailsInv ==
  ASSUME IInv, NEW x \in Adapters, ApplyAdapterFails(x) PROVE IInv'
<1>1. Planning /\ ~At("record")
  BY DEF ApplyAdapterFails, Planning, Between, At
<1>2. UNCHANGED <<mem, disk, proc, issued, committed>>
  BY DEF ApplyAdapterFails
<1>3. op \in Operation /\ op' = rollbackAll(op)
  BY DEF ApplyAdapterFails, IInv, TypeOK
<1>4. ops' \in Nat /\ uninstalls' \in Nat /\ faults' \in Nat /\ crashes' \in Nat
  BY DEF ApplyAdapterFails, Fault, IInv, TypeOK
<1>5. IsUndoing(op', op.result, op.done, {})
  BY <1>3, RollbackAllFields
<1>6. op.plan[1] \in Contents
  BY DEF IInv, TypeOK, ControlInv, Operation, Planning, Between, ApplyAdapterFails, At
<1>7. /\ exempt \subseteq exempt' /\ exempt' \subseteq Adapters
      /\ file' \in [Adapters -> Contents]
      /\ \A a \in Adapters \ exempt' : file'[a] = file[a]
  BY <1>6 DEF ApplyAdapterFails, IInv, TypeOK
<1>8. op.done \cap op.result = {}
  BY Fields DEF IInv, IdInv
<1> QED
  BY <1>1, <1>2, <1>4, <1>5, <1>7, <1>8, RollsBack

-----------------------------------------------------------------------------
(* Steps of an operation that change neither files nor the journal *)

\* It goes on to another call, or from the transition to the final policy.
LEMMA GoesOn ==
  ASSUME IInv, Between, ~At("record"),
         op' \in Operation, op'.plan # <<>>, op'.todo = op.todo,
         op'.undo = op.undo, op'.group = op.group,
         \/ /\ op'.pc \in {"adapter", "verify", "applied", "system", "commit"}
            /\ op'.done = op.done /\ op'.result = op.result
         \/ op'.pc = "begin" /\ op'.done = op.result /\ op'.result = {},
         UNCHANGED <<file, mem, disk, proc, issued, committed, exempt>>,
         ops' \in Nat, uninstalls' \in Nat, faults' \in Nat, crashes' \in Nat
  PROVE  IInv'
<1>1. /\ Planning' /\ ~At("record")' /\ ~At("recover")' /\ ~At("uninstall")' /\ ~At("undo")'
      /\ ~At("idle")' /\ ~Idling'
      /\ Planning /\ ~At("recover") /\ ~At("uninstall") /\ ~At("undo")
  BY DEF At, Planning, Between, Idling
<1>2. Known' \subseteq Known
  BY DEF Known
<1>3. op.result \subseteq mem.pending.receipts /\ mem = disk /\ Up /\ Unrecorded = {}
  BY <1>1 DEF IInv, ControlInv, HeldInv, Up, Unrecorded
<1>4. TypeOK'
  BY DEF IInv, TypeOK
<1>5. ControlInv'
  BY <1>1, <1>3 DEF IInv, ControlInv, Up, Between, At
<1>6. IdInv'
  BY <1>2 DEF IInv, IdInv, Distinct
<1>7. HeldInv'
  BY <1>1, <1>3 DEF IInv, HeldInv
<1>8. FilesInv'
  <2>1. FilesInv /\ Planning
    BY <1>1 DEF IInv
  <2>2. CASE op'.done = op.done /\ op'.result = op.result
    BY <2>1, <2>2 DEF FilesInv
  <2>3. CASE op'.done = op.result /\ op'.result = {}
    BY <2>1, <2>3 DEF FilesInv
  <2> QED
    BY <2>2, <2>3
<1>9. JournalInv'
  <2>1. ASSUME NEW a \in Adapters \ exempt
        PROVE  /\ Linked(mem.pending.receipts, a, committed[a])
               /\ Linked(disk.pending.receipts, a, committed[a])
               /\ Explained(file[a], mem.pending.receipts, a, committed[a])
               /\ Explained(file[a], disk.pending.receipts, a, committed[a])
    BY <1>1, <1>3 DEF IInv, JournalInv, Recording
  <2> QED
    BY <2>1 DEF JournalInv
<1>10. NewInv' /\ UndoInv'
  BY <1>1 DEF NewInv, UndoInv
<1>11. ChainInv'
  BY <1>1 DEF IInv, ChainInv, ChangesOf
<1> QED
  BY <1>4, <1>5, <1>6, <1>7, <1>8, <1>9, <1>10, <1>11 DEF IInv

\* The adapter is verified, or this Apply is undone.
LEMMA VerifyAdapterInv == ASSUME IInv, VerifyAdapter PROVE IInv'
<1>1. Planning /\ Between /\ ~At("record") /\ op \in Operation
  BY DEF VerifyAdapter, Planning, Between, At, IInv, TypeOK
<1>2. UNCHANGED <<file, mem, disk, proc, issued, committed, exempt>>
  BY DEF VerifyAdapter
<1>3. ops' \in Nat /\ uninstalls' \in Nat /\ faults' \in Nat /\ crashes' \in Nat
  BY DEF VerifyAdapter, NoFault, Fault, IInv, TypeOK
<1>4. CASE op' = rollbackAll(op)
  <2>1. IsUndoing(op', op.result, op.done, {})
    BY <1>1, <1>4, RollbackAllFields
  <2>2. exempt' \subseteq Adapters /\ file' \in [Adapters -> Contents]
    BY <1>2 DEF IInv, TypeOK
  <2>3. op.done \cap op.result = {}
    BY Fields DEF IInv, IdInv
  <2> QED
    BY <1>1, <1>2, <1>3, <2>1, <2>2, <2>3, RollsBack
<1>5. CASE op' = [op EXCEPT !.pc = IF op.todo = {} THEN "applied" ELSE "adapter"]
  <2>1. op' \in Operation
    BY <1>1, <1>5, OperationFields DEF Steps
  <2>2. /\ op'.pc \in {"adapter", "verify", "applied", "system", "commit"}
        /\ op'.done = op.done /\ op'.result = op.result
        /\ op'.plan = op.plan /\ op'.todo = op.todo
        /\ op'.undo = op.undo /\ op'.group = op.group
    BY <1>1, <1>5 DEF Operation
  <2>3. op.plan # <<>>
    BY <1>1 DEF IInv, ControlInv
  <2> QED
    BY <1>1, <1>2, <1>3, <2>1, <2>2, <2>3, GoesOn
<1> QED
  BY <1>4, <1>5 DEF VerifyAdapter

\* The whole system is verified, or the operation is undone.
LEMMA VerifySystemInv == ASSUME IInv, VerifySystem PROVE IInv'
<1>1. Planning /\ Between /\ ~At("record") /\ op \in Operation
  BY DEF VerifySystem, Planning, Between, At, IInv, TypeOK
<1>2. UNCHANGED <<file, mem, disk, proc, issued, committed, exempt>>
  BY DEF VerifySystem
<1>3. ops' \in Nat /\ uninstalls' \in Nat /\ faults' \in Nat /\ crashes' \in Nat
  BY DEF VerifySystem, NoFault, Fault, IInv, TypeOK
<1>4. CASE op' = RollbackCombined(op) /\ op.done \cup op.result = {}
  BY <1>1, <1>2, <1>3, <1>4, BecomesIdle, RollbackCombinedFields
<1>5. CASE op' = RollbackCombined(op) /\ op.done \cup op.result # {}
  <2>1. IsUndoing(op', op.done \cup op.result, {}, {})
    BY <1>1, <1>5, RollbackCombinedFields
  <2>2. exempt' \subseteq Adapters /\ file' \in [Adapters -> Contents]
    BY <1>2 DEF IInv, TypeOK
  <2> QED
    BY <1>1, <1>2, <1>3, <2>1, <2>2, RollsBack
<1>6. CASE op' = [op EXCEPT !.pc = "commit"]
  <2>1. op' \in Operation
    BY <1>1, <1>6, OperationFields DEF Steps
  <2>2. /\ op'.pc \in {"adapter", "verify", "applied", "system", "commit"}
        /\ op'.done = op.done /\ op'.result = op.result
        /\ op'.plan = op.plan /\ op'.todo = op.todo
        /\ op'.undo = op.undo /\ op'.group = op.group
    BY <1>1, <1>6 DEF Operation
  <2>3. op.plan # <<>>
    BY <1>1 DEF IInv, ControlInv
  <2> QED
    BY <1>1, <1>2, <1>3, <2>1, <2>2, <2>3, GoesOn
<1> QED
  BY <1>4, <1>5, <1>6 DEF VerifySystem

\* A plan of more than one policy has one left after the first.
LEMMA TailOfPlan ==
  ASSUME NEW plan \in Seq(Contents), plan # <<>>, Len(plan) # 1
  PROVE  Tail(plan) \in Seq(Contents) /\ Tail(plan) # <<>>
<1>1. Len(plan) \in Nat /\ Len(plan) # 0
  OBVIOUS
<1>2. Len(plan) > 1
  <2>1. \A n \in Nat : n # 0 /\ n # 1 => n > 1
    OBVIOUS
  <2> HIDE DEF Contents
  <2> QED
    BY <1>1, <2>1, Zenon
<1>3. Tail(plan) \in Seq(Contents) /\ Len(Tail(plan)) = Len(plan) - 1
  BY <1>2
<1>4. Len(Tail(plan)) # 0
  BY <1>1, <1>2, <1>3
<1>5. Len(<<>>) = 0
  OBVIOUS
<1> QED
  BY <1>3, <1>4, <1>5

\* The final policy follows the transition, or nothing does.
LEMMA NextPolicyInv == ASSUME IInv, NextPolicy PROVE IInv'
<1>1. Planning /\ Between /\ ~At("record") /\ op \in Operation
  BY DEF NextPolicy, Planning, Between, At, IInv, TypeOK
<1>2. UNCHANGED <<file, mem, disk, proc, issued, committed, exempt>>
  BY DEF NextPolicy
<1>3. ops' \in Nat /\ uninstalls' \in Nat /\ faults' \in Nat /\ crashes' \in Nat
  BY DEF NextPolicy, IInv, TypeOK
<1>4. op.plan # <<>> /\ op.plan \in Seq(Contents)
  BY <1>1 DEF IInv, ControlInv, Operation
<1>5. CASE op' = [op EXCEPT !.pc = "system"]
  <2>1. op' \in Operation
    BY <1>1, <1>5, OperationFields DEF Steps
  <2>2. /\ op'.pc \in {"adapter", "verify", "applied", "system", "commit"}
        /\ op'.done = op.done /\ op'.result = op.result
        /\ op'.plan = op.plan /\ op'.todo = op.todo
        /\ op'.undo = op.undo /\ op'.group = op.group
    BY <1>1, <1>5 DEF Operation
  <2> QED
    BY <1>1, <1>2, <1>3, <1>4, <2>1, <2>2, GoesOn
<1>6. CASE /\ Len(op.plan) # 1
           /\ op' = [op EXCEPT !.pc = "begin", !.plan = Tail(@), !.done = op.result, !.result = {}]
  <2> DEFINE o1 == [op EXCEPT !.pc = "begin"]
             o2 == [o1 EXCEPT !.plan = Tail(op.plan)]
             o3 == [o2 EXCEPT !.done = op.result]
             o4 == [o3 EXCEPT !.result = {}]
  <2>1. op' = o4
    BY <1>1, <1>6 DEF Operation
  <2>2. Tail(op.plan) \in Seq(Contents) /\ Tail(op.plan) # <<>>
    BY <1>4, <1>6, TailOfPlan
  <2>3. op.result \in SUBSET Receipt /\ {} \in SUBSET Receipt /\ "begin" \in Steps
    BY <1>1 DEF Operation, Steps
  <2>4. o4 \in Operation
    <3>1. o1 \in Operation
      BY <1>1, <2>3, OperationFields
    <3> HIDE DEF o1
    <3>2. o2 \in Operation
      BY <2>2, <3>1, OperationFields
    <3> HIDE DEF o2
    <3>3. o3 \in Operation
      BY <2>3, <3>2, OperationFields
    <3> HIDE DEF o3
    <3> QED
      BY <2>3, <3>3, OperationFields
  <2>5. /\ op'.pc = "begin" /\ op'.done = op.result /\ op'.result = {}
        /\ op'.plan = Tail(op.plan) /\ op'.todo = op.todo
        /\ op'.undo = op.undo /\ op'.group = op.group
    BY <1>1, <1>6 DEF Operation
  <2> QED
    BY <1>1, <1>2, <1>3, <2>1, <2>2, <2>4, <2>5, GoesOn
<1> QED
  BY <1>5, <1>6 DEF NextPolicy

-----------------------------------------------------------------------------
(* An operation starts and applies its policies *)

\* The receipt is recorded, or only in memory when the write fails.
LEMMA RecordReceiptInv == ASSUME IInv, RecordReceipt PROVE IInv'
<1> DEFINE n == Newest(op.result)
           recorded == Recorded(mem, n)
<1>1. At("record") /\ Planning /\ Between /\ Up /\ mem = disk /\ op \in Operation
  BY DEF RecordReceipt, Planning, Between, At, Up, IInv, TypeOK, ControlInv
<1>2. /\ n \in op.result /\ n.id = issued
      /\ op.result \cup mem.pending.receipts = mem.pending.receipts \cup {n}
  BY <1>1, IssuedReceipt
<1>3. /\ recorded \in Store /\ recorded.policy = mem.policy /\ recorded.pending.open
      /\ recorded.pending.receipts = mem.pending.receipts \cup op.result
  <2>1. mem.pending.open \/ mem.pending.receipts = {}
    BY DEF IInv, ControlInv
  <2>2. mem \in Store /\ n \in Receipt
    BY <1>2, Fields DEF IInv
  <2>3. /\ recorded \in Store /\ recorded.policy = mem.policy /\ recorded.pending.open
        /\ recorded.pending.receipts = mem.pending.receipts \cup {n}
    BY <2>1, <2>2, StoreUpdates
  <2> QED
    BY <1>2, <2>3
<1>4. UNCHANGED <<file, proc, issued, committed, exempt>>
  BY DEF RecordReceipt
<1>5. ops' \in Nat /\ uninstalls' \in Nat /\ faults' \in Nat /\ crashes' \in Nat
  BY DEF RecordReceipt, Update, UpdateFails, NoFault, Fault, IInv, TypeOK
<1>6. CASE mem' = recorded /\ UNCHANGED disk /\ op' = rollbackAll(op)
  <2> HIDE DEF recorded
  <2>1. IsUndoing(op', op.result, op.done, {})
    BY <1>1, <1>6, RollbackAllFields
  <2>2. exempt' \subseteq Adapters /\ file' \in [Adapters -> Contents]
    BY <1>4 DEF IInv, TypeOK
  <2>3. op.done \cap op.result = {}
    BY Fields DEF IInv, IdInv
  <2> QED
    BY <1>1, <1>3, <1>4, <1>5, <1>6, <2>1, <2>2, <2>3, StartsUndoing
<1>7. CASE mem' = recorded /\ disk' = recorded /\ op' = [op EXCEPT !.pc = "verify"]
  <2> HIDE DEF recorded, n
  <2>1. op' \in Operation
    BY <1>1, <1>7, OperationFields DEF Steps
  <2>2. /\ op'.pc = "verify" /\ op'.done = op.done /\ op'.result = op.result
        /\ op'.plan = op.plan /\ op'.todo = op.todo
        /\ op'.undo = op.undo /\ op'.group = op.group
    BY <1>1, <1>7 DEF Operation
  <2>3. /\ Planning' /\ Between' /\ ~At("record")' /\ ~At("recover")' /\ ~At("uninstall")'
        /\ ~At("undo")' /\ ~At("idle")' /\ ~Idling' /\ Unrecorded' = {}
    BY <2>2 DEF At, Planning, Between, Idling, Unrecorded
  <2>4. Known' \subseteq Known
    BY <1>1, <1>3, <1>7, <2>2 DEF Known
  <2>5. TypeOK'
    <3>1. Distinct(mem'.pending.receipts) /\ Distinct(mem'.policy.receipts)
      BY <1>3, <1>7 DEF IInv, IdInv, Known, Distinct
    <3> QED
      BY <1>3, <1>4, <1>5, <1>7, <2>1, <2>2, <3>1 DEF IInv, TypeOK
  <2>6. ControlInv'
    BY <1>1, <1>3, <1>4, <1>7, <2>2, <2>3 DEF IInv, ControlInv, Up
  <2>7. IdInv'
    BY <1>1, <1>3, <1>4, <1>7, <2>2, <2>4 DEF IInv, IdInv, Distinct
  <2>8. HeldInv'
    BY <1>1, <1>3, <1>7, <2>2, <2>3 DEF IInv, HeldInv
  <2>9. FilesInv'
    BY <1>1, <1>4, <2>2 DEF IInv, FilesInv
  <2>10. JournalInv'
    <3>1. ASSUME NEW a \in Adapters \ exempt
          PROVE  /\ Linked(recorded.pending.receipts, a, committed[a])
                 /\ Explained(file[a], recorded.pending.receipts, a, committed[a])
      BY <1>1, <1>3, JournalWithResult
    <3> QED
      BY <1>4, <1>7, <2>3, <3>1 DEF JournalInv
  <2>11. NewInv' /\ UndoInv'
    BY <2>3 DEF NewInv, UndoInv
  <2>12. ChainInv'
    BY <1>1, <1>3, <1>4, <1>7, <2>3 DEF IInv, ChainInv, ChangesOf
  <2> QED
    BY <2>5, <2>6, <2>7, <2>8, <2>9, <2>10, <2>11, <2>12 DEF IInv
<1> QED
  BY <1>6, <1>7 DEF RecordReceipt, Update, UpdateFails

\* An operation starts with a plan and nothing applied.
LEMMA StartInv ==
  ASSUME IInv, NEW kind \in Kinds, NEW v \in Targets, Start(kind, v) PROVE IInv'
<1>1. PICK plan \in PlansFor(kind, v) :
        op' = [Idle EXCEPT !.pc = "begin", !.kind = kind, !.plan = plan]
  BY DEF Start
<1>2. /\ At("idle") /\ Up /\ proc = "daemon" /\ ~At("record") /\ ~At("uninstall") /\ ~At("undo")
      /\ Unrecorded = {}
  BY DEF Start, At, Up, Unrecorded
<1>3. UNCHANGED <<file, mem, disk, proc, issued, committed, exempt>>
  BY DEF Start
<1>4. ops' \in Nat /\ uninstalls' \in Nat /\ faults' \in Nat /\ crashes' \in Nat
  BY DEF Start, IInv, TypeOK
<1>5. plan \in Seq(Contents) /\ plan # <<>>
  <2>1. v \in Contents /\ mem.policy.nodes \in Contents
    BY TargetsAreNodes DEF IInv, TypeOK, Store, Contents
  <2>2. v \cup mem.policy.nodes \in Contents
    BY <2>1 DEF Contents
  <2> DEFINE transition == v \cup mem.policy.nodes
  <2>3. plan = <<v>> \/ plan = <<transition, v>>
    BY <1>1 DEF PlansFor
  <2> HIDE DEF transition
  <2>4. <<v>> \in Seq(Contents) /\ <<v>> # <<>>
    BY <2>1
  <2>5. transition \in Contents
    BY <2>2 DEF transition
  <2>6. <<transition, v>> \in Seq(Contents) /\ <<transition, v>> # <<>>
    BY <2>1, <2>5
  <2> QED
    BY <2>3, <2>4, <2>6
<1>6. op' \in Operation
  <2> DEFINE o1 == [Idle EXCEPT !.pc = "begin"]
             o2 == [o1 EXCEPT !.kind = kind]
             o3 == [o2 EXCEPT !.plan = plan]
  <2>1. op' = o3
    BY <1>1 DEF Idle
  <2>2. o1 \in Operation
    BY IdleFields, OperationFields DEF Steps
  <2> HIDE DEF o1
  <2>3. o2 \in Operation
    BY <2>2, OperationFields
  <2> HIDE DEF o2
  <2> QED
    BY <1>5, <2>1, <2>3, OperationFields
<1>7. /\ op'.pc = "begin" /\ op'.plan = plan
      /\ op'.done = {} /\ op'.result = {} /\ op'.undo = {} /\ op'.group = {}
  BY <1>1 DEF Idle
<1>8. /\ Planning' /\ ~Between' /\ ~At("record")' /\ ~At("recover")' /\ ~At("uninstall")'
      /\ ~At("undo")' /\ ~At("idle")' /\ ~Idling'
  BY <1>7 DEF At, Planning, Between, Idling
<1>9. Known' \subseteq Known
  BY <1>3, <1>7 DEF Known
<1>10. TypeOK'
  BY <1>3, <1>4, <1>6, <1>7 DEF IInv, TypeOK
<1>11. ControlInv'
  BY <1>2, <1>3, <1>5, <1>7, <1>8 DEF IInv, ControlInv, Up
<1>12. IdInv'
  BY <1>3, <1>7, <1>9 DEF IInv, IdInv, Distinct
<1>13. HeldInv'
  BY <1>7, <1>8 DEF HeldInv
<1>14. FilesInv'
  BY <1>7 DEF FilesInv
<1>15. JournalInv'
  <2>1. ASSUME NEW a \in Adapters \ exempt
        PROVE  /\ Linked(mem.pending.receipts, a, committed[a])
               /\ Linked(disk.pending.receipts, a, committed[a])
               /\ Explained(file[a], mem.pending.receipts, a, committed[a])
               /\ Explained(file[a], disk.pending.receipts, a, committed[a])
    BY <1>2 DEF IInv, JournalInv, Recording
  <2> QED
    BY <1>3, <2>1 DEF JournalInv
<1>16. NewInv' /\ UndoInv'
  BY <1>8 DEF NewInv, UndoInv
<1>17. ChainInv'
  BY <1>3, <1>8 DEF IInv, ChainInv, ChangesOf
<1> QED
  BY <1>10, <1>11, <1>12, <1>13, <1>14, <1>15, <1>16, <1>17 DEF IInv

\* An Apply opens the journal.
LEMMA BeginApplyInv ==
  ASSUME IInv, NEW active \in SUBSET Adapters, BeginApply(active) PROVE IInv'
<1>1. /\ At("begin") /\ Up /\ Planning /\ ~At("record") /\ ~At("uninstall") /\ ~At("undo")
      /\ ~Between /\ op \in Operation
  BY DEF BeginApply, At, Up, Planning, Between, IInv, TypeOK, ControlInv
<1>2. UNCHANGED <<file, proc, issued, committed, exempt>> /\ mem' = Begun(mem) /\ disk' = Begun(mem)
  BY DEF BeginApply
<1>3. ops' \in Nat /\ uninstalls' \in Nat /\ faults' \in Nat /\ crashes' \in Nat
  BY DEF BeginApply, NoFault, Fault, IInv, TypeOK
<1>4. /\ mem' \in Store /\ mem'.policy = mem.policy /\ mem'.pending.open
      /\ mem'.pending.receipts = mem.pending.receipts
  <2>1. mem \in Store /\ (mem.pending.open \/ mem.pending.receipts = {})
    BY DEF IInv, TypeOK, ControlInv
  <2> QED
    BY <1>2, <2>1, StoreUpdates
<1>5. op' \in Operation
  <2> DEFINE o1 == [op EXCEPT !.pc = "adapter"]
             o2 == [o1 EXCEPT !.todo = active]
             o3 == [o2 EXCEPT !.result = {}]
  <2>1. op' = o3
    BY <1>1 DEF BeginApply, Operation
  <2>2. o1 \in Operation
    BY <1>1, OperationFields DEF Steps
  <2> HIDE DEF o1
  <2>3. o2 \in Operation
    BY <2>2, OperationFields
  <2> HIDE DEF o2
  <2> QED
    BY <2>1, <2>3, OperationFields
<1>6. /\ op'.pc = "adapter" /\ op'.plan = op.plan /\ op'.todo = active
      /\ op'.done = op.done /\ op'.result = {} /\ op'.undo = op.undo /\ op'.group = op.group
  BY <1>1 DEF BeginApply, Operation
<1>7. /\ Planning' /\ Between' /\ ~At("record")' /\ ~At("recover")' /\ ~At("uninstall")'
      /\ ~At("undo")' /\ ~At("idle")' /\ ~Idling'
  BY <1>6 DEF At, Planning, Between, Idling
<1>8. mem.policy = disk.policy /\ disk'.policy = disk.policy /\ disk' = mem'
  BY <1>1, <1>2, <1>4 DEF IInv, ControlInv
<1>9. Known' \subseteq Known
  BY <1>4, <1>6, <1>8 DEF Known
<1>10. TypeOK'
  BY <1>2, <1>3, <1>4, <1>5, <1>6, <1>8 DEF IInv, TypeOK
<1>11. ControlInv'
  BY <1>1, <1>2, <1>4, <1>6, <1>7, <1>8 DEF IInv, ControlInv, Up
<1>12. IdInv'
  BY <1>2, <1>6, <1>8, <1>9 DEF IInv, IdInv, Distinct
<1>13. HeldInv'
  BY <1>4, <1>6, <1>7, <1>8 DEF IInv, HeldInv
<1>14. FilesInv'
  <2>1. op.result = {}
    BY <1>1 DEF IInv, ControlInv
  <2> QED
    BY <1>1, <1>2, <1>6, <2>1 DEF IInv, FilesInv
<1>15. JournalInv'
  <2>1. ASSUME NEW a \in Adapters \ exempt
        PROVE  /\ Linked(mem.pending.receipts, a, committed[a])
               /\ Explained(file[a], mem.pending.receipts, a, committed[a])
    BY <1>1 DEF IInv, JournalInv, Recording
  <2> QED
    BY <1>2, <1>4, <1>8, <2>1 DEF JournalInv
<1>16. NewInv' /\ UndoInv'
  BY <1>7 DEF NewInv, UndoInv
<1>17. ChainInv'
  BY <1>2, <1>7, <1>8 DEF IInv, ChainInv, ChangesOf
<1> QED
  BY <1>10, <1>11, <1>12, <1>13, <1>14, <1>15, <1>16, <1>17 DEF IInv

\* An adapter's file changes, and its receipt is newer than all others.
LEMMA ApplyAdapterInv == ASSUME IInv, NEW x \in Adapters, ApplyAdapter(x) PROVE IInv'
<1> DEFINE v == op.plan[1]
           r == [id |-> issued + 1, adapter |-> x, previous |-> file[x], applied |-> v]
           M == mem.pending.receipts
<1>1. /\ At("adapter") /\ x \in op.todo /\ Up /\ Planning /\ Between
      /\ ~At("record") /\ ~At("uninstall") /\ ~At("undo") /\ mem = disk /\ Unrecorded = {}
      /\ op \in Operation
  BY DEF ApplyAdapter, At, Up, Planning, Between, Unrecorded, IInv, TypeOK, ControlInv
<1>2. UNCHANGED <<mem, disk, proc, committed, exempt>> /\ issued' = issued + 1
  BY DEF ApplyAdapter
<1>3. ops' \in Nat /\ uninstalls' \in Nat /\ faults' \in Nat /\ crashes' \in Nat
  BY DEF ApplyAdapter, IInv, TypeOK
<1>4. v \in Contents /\ op.plan # <<>> /\ issued \in Nat /\ file \in [Adapters -> Contents]
  BY <1>1 DEF IInv, TypeOK, ControlInv, Operation
<1>5. r \in Receipt
  BY <1>4 DEF Receipt
<1>6. file' = [file EXCEPT ![x] = v]
  BY DEF ApplyAdapter
<1>7. op' = [op EXCEPT !.pc = "record", !.todo = @ \ {x}, !.result = @ \cup {r}]
  BY <1>2 DEF ApplyAdapter
<1>8. /\ r.id = issued + 1 /\ r.adapter = x /\ r.previous = file[x] /\ r.applied = v
      /\ file'[x] = v /\ \A a \in Adapters : a # x => file'[a] = file[a]
      /\ file' \in [Adapters -> Contents]
  BY <1>4, <1>6
<1> HIDE DEF r, v
<1>9. op' \in Operation
  <2> DEFINE o1 == [op EXCEPT !.pc = "record"]
             o2 == [o1 EXCEPT !.todo = op.todo \ {x}]
             o3 == [o2 EXCEPT !.result = op.result \cup {r}]
  <2>1. op' = o3
    BY <1>1, <1>7 DEF Operation
  <2>2. op.todo \ {x} \in SUBSET Adapters /\ op.result \cup {r} \in SUBSET Receipt
    BY <1>1, <1>5 DEF Operation
  <2>3. o1 \in Operation
    BY <1>1, OperationFields DEF Steps
  <2> HIDE DEF o1
  <2>4. o2 \in Operation
    BY <2>2, <2>3, OperationFields
  <2> HIDE DEF o2
  <2> QED
    BY <2>1, <2>2, <2>4, OperationFields
<1>10. /\ op'.pc = "record" /\ op'.plan = op.plan /\ op'.todo = op.todo \ {x}
       /\ op'.done = op.done /\ op'.result = op.result \cup {r}
       /\ op'.undo = op.undo /\ op'.group = op.group
  BY <1>1, <1>7 DEF Operation
<1>11. /\ Planning' /\ Between' /\ At("record")' /\ ~At("recover")' /\ ~At("uninstall")'
       /\ ~At("undo")' /\ ~At("idle")' /\ ~Idling'
  BY <1>10 DEF At, Planning, Between, Idling
<1>12. Known' = Known \cup {r}
  BY <1>2, <1>10 DEF Known
<1>13. \A q \in Known : q.id \in 1..issued
  BY DEF IInv, IdInv
<1>14. \A q \in Known : q.id < r.id /\ q.id \in 1..issued' /\ q # r
  BY <1>2, <1>4, <1>8, <1>13
<1>15. M \subseteq Known /\ op.result \subseteq Known /\ op.done \subseteq Known
       /\ disk.policy.receipts \subseteq Known
  BY DEF Known
<1>16. TypeOK'
  BY <1>2, <1>3, <1>4, <1>8, <1>9, <1>10 DEF IInv, TypeOK
<1>17. ControlInv'
  BY <1>1, <1>2, <1>4, <1>10, <1>11 DEF IInv, ControlInv, Up
<1>18. IdInv'
  <2>1. \A q \in Known' : q.id \in 1..issued'
    BY <1>2, <1>4, <1>8, <1>12, <1>14
  <2>2. Distinct(Known)'
    <3>1. Distinct(Known)
      BY DEF IInv, IdInv
    <3>2. \A q \in Known : q.id # r.id
      BY <1>4, <1>8, <1>13
    <3> QED
      BY <1>12, <3>1, <3>2 DEF Distinct
  <2>3. \A p \in disk.policy.receipts, q \in op.done \cup op.result \cup {r} : p.id < q.id
    BY <1>14, <1>15 DEF IInv, IdInv
  <2>4. \A d \in op.done, q \in op.result \cup {r} : d.id < q.id
    BY <1>14, <1>15 DEF IInv, IdInv
  <2> QED
    BY <1>2, <1>10, <2>1, <2>2, <2>3, <2>4 DEF IdInv
<1>19. HeldInv'
  <2>1. r \notin M /\ r.id = issued'
    BY <1>2, <1>8, <1>14, <1>15
  <2>2. op.result \subseteq M
    BY <1>1 DEF IInv, HeldInv
  <2> QED
    BY <1>2, <1>10, <1>11, <2>1, <2>2 DEF IInv, HeldInv
<1>20. FilesInv'
  <2>1. \A q \in op.result : q.adapter # x /\ q.adapter \in Adapters
    BY <1>1, Fields DEF IInv, FilesInv
  <2>2. \A q \in op.done : q.adapter \in Adapters
    BY <1>1, Fields DEF IInv
  <2>3. \A q \in op.result \cup {r} : file'[q.adapter] = q.applied /\ q.adapter \notin op.todo \ {x}
    BY <1>1, <1>8, <2>1 DEF IInv, FilesInv
  <2>4. ASSUME NEW d \in op.done
        PROVE  IF \E q \in op.result \cup {r} : q.adapter = d.adapter
               THEN \A q \in op.result \cup {r} : q.adapter = d.adapter => q.previous = d.applied
               ELSE file'[d.adapter] = d.applied
    <3>1. IF \E q \in op.result : q.adapter = d.adapter
          THEN \A q \in op.result : q.adapter = d.adapter => q.previous = d.applied
          ELSE file[d.adapter] = d.applied
      BY <1>1 DEF IInv, FilesInv
    <3>2. CASE d.adapter = x
      BY <1>8, <2>1, <3>1, <3>2
    <3>3. CASE d.adapter # x
      BY <1>8, <2>1, <2>2, <3>1, <3>3
    <3> QED
      BY <3>2, <3>3
  <2>5. \A q, p \in op.result \cup {r} : q.adapter = p.adapter => q = p
    BY <1>1, <1>8, <2>1 DEF IInv, FilesInv
  <2>6. \A q, p \in op.done : q.adapter = p.adapter => q = p
    BY <1>1 DEF IInv, FilesInv
  <2> QED
    BY <1>10, <2>3, <2>4, <2>5, <2>6 DEF FilesInv
<1>21. ASSUME NEW a \in Adapters \ exempt
       PROVE  /\ Linked(M, a, committed[a])
              /\ Explained(file[a], M, a, committed[a])
  BY <1>1 DEF IInv, JournalInv, Recording
<1>22. x \in Unrecorded'
  <2>1. /\ op'.result # {} /\ issued' \in Nat
        /\ \A q \in op'.result : q.id \in 1..issued'
    BY <1>2, <1>4, <1>8, <1>10, <1>14, <1>15
  <2>2. Newest(op'.result) \in op'.result /\ \A q \in op'.result : q.id <= Newest(op'.result).id
    BY <2>1, NewestIs
  <2>3. Newest(op'.result) = r
    <3> DEFINE N == Newest(op'.result)
    <3>1. N \in op.result \cup {r} /\ r.id <= N.id
      BY <1>10, <2>2
    <3> HIDE DEF N
    <3>2. N \in op.result => N.id < r.id /\ N.id \in Nat /\ r.id \in Nat
      BY <1>4, <1>8, <1>14, <1>13, <1>15
    <3>3. N = r
      BY <3>1, <3>2
    <3> QED
      BY <3>3 DEF N
  <2>4. r \notin disk.pending.receipts
    BY <1>1, <1>14, <1>15
  <2> QED
    BY <1>2, <1>8, <1>11, <2>3, <2>4 DEF Unrecorded
<1>23. JournalInv'
  <2>1. ~Recording(x)' => FALSE
    BY <1>2, <1>8, <1>10, <1>11 DEF Recording
  <2>2. \A a \in Adapters : a # x => file'[a] = file[a]
    BY <1>8
  <2> QED
    BY <1>1, <1>2, <1>21, <1>22, <2>1, <2>2 DEF JournalInv
<1>24. NewInv'
  <2>1. \A q \in op.result \cup {r} : q.id = issued' => q = r
    BY <1>2, <1>4, <1>13, <1>15
  <2> QED
    BY <1>2, <1>8, <1>10, <1>11, <1>21, <2>1 DEF NewInv
<1>25. UndoInv'
  BY <1>11 DEF UndoInv
<1>26. ChainInv'
  BY <1>2, <1>11 DEF IInv, ChainInv, ChangesOf
<1> QED
  BY <1>16, <1>17, <1>18, <1>19, <1>20, <1>23, <1>24, <1>25, <1>26 DEF IInv

-----------------------------------------------------------------------------
(* The commit *)

\* The chain with the receipts of the operation, for an adapter they are linked
\* to.
LEMMA ChainGrows ==
  ASSUME IInv, Planning, NEW a \in Adapters \ exempt, a \notin Unlinked,
         NEW P, P = disk.policy.receipts \cup op.done \cup op.result
  PROVE  /\ \A r \in ChangesOf(P, a) :
              (\A q \in ChangesOf(P, a) : r.id <= q.id) => r.previous = Original
         /\ ChangesOf(P, a) = {} =>
              /\ committed[a] = Original
              /\ a \in Touched => file[a] = Original
<1> DEFINE old == disk.policy.receipts
           held == op.done \cup op.result
<1>1. /\ \A p \in old, q \in held : p.id < q.id
      /\ \A d \in op.done, q \in op.result : d.id < q.id
      /\ \A q \in P : q.id \in Nat
  BY Fields DEF IInv, IdInv
<1>2. /\ \A r, q \in op.result : r.adapter = q.adapter => r = q
      /\ \A r, q \in op.done : r.adapter = q.adapter => r = q
      /\ \A r \in op.result : file[r.adapter] = r.applied
      /\ \A d \in op.done, r \in op.result : r.adapter = d.adapter => r.previous = d.applied
  BY DEF IInv, FilesInv
<1>3. \A r \in held : r.adapter = a =>
        r.previous = committed[a] \/ \E q \in held : q.adapter = a /\ ~(r.id <= q.id)
  BY DEF Unlinked
<1>4. /\ \A r \in ChangesOf(old, a) :
           (\A q \in ChangesOf(old, a) : r.id <= q.id) => r.previous = Original
      /\ ChangesOf(old, a) = {} => committed[a] = Original
  BY DEF IInv, ChainInv
<1>5. ASSUME NEW d \in op.done, d.adapter = a PROVE d.previous = committed[a]
  <2> SUFFICES ASSUME NEW q \in held, q.adapter = a, ~(d.id <= q.id) PROVE FALSE
    BY <1>3, <1>5
  <2>1. CASE q \in op.done
    BY <1>1, <1>2, <1>5, <2>1
  <2>2. CASE q \in op.result
    BY <1>1, <2>2
  <2> QED
    BY <2>1, <2>2
<1>6. ASSUME NEW r \in op.result, r.adapter = a
      PROVE  r.previous = committed[a] \/ \E d \in op.done : d.adapter = a /\ r.previous = d.applied
  <2> SUFFICES ASSUME NEW q \in held, q.adapter = a, ~(r.id <= q.id)
               PROVE  \E d \in op.done : d.adapter = a /\ r.previous = d.applied
    BY <1>3, <1>6
  <2>1. q \in op.done
    BY <1>1, <1>2, <1>6
  <2> QED
    BY <1>2, <1>6, <2>1
<1>7. ASSUME NEW r \in ChangesOf(P, a), \A q \in ChangesOf(P, a) : r.id <= q.id
      PROVE  r.previous = Original
  <2>1. CASE ChangesOf(old, a) = {}
    <3>1. committed[a] = Original /\ r \in held /\ r.adapter = a /\ Changed(r)
      BY <1>4, <2>1 DEF ChangesOf
    <3>2. CASE r \in op.done
      BY <1>5, <3>1, <3>2
    <3>3. CASE r \in op.result
      <4>1. \A d \in op.done : d.adapter = a => ~Changed(d)
        BY <1>1, <1>7, <3>3 DEF ChangesOf
      <4> QED
        BY <1>5, <1>6, <3>1, <3>3, <4>1 DEF Changed
    <3> QED
      BY <3>1, <3>2, <3>3
  <2>2. CASE ChangesOf(old, a) # {}
    <3>1. PICK p \in ChangesOf(old, a) : TRUE
      BY <2>2
    <3>2. r.id <= p.id
      BY <1>7, <3>1 DEF ChangesOf
    <3>3. r \in old
      BY <1>1, <3>1, <3>2 DEF ChangesOf
    <3> QED
      BY <1>4, <1>7, <3>3 DEF ChangesOf
  <2> QED
    BY <2>1, <2>2
<1>8. ASSUME ChangesOf(P, a) = {}
      PROVE  committed[a] = Original /\ (a \in Touched => file[a] = Original)
  <2>1. committed[a] = Original
    BY <1>4, <1>8 DEF ChangesOf
  <2>2. \A r \in held : r.adapter = a => ~Changed(r)
    BY <1>8 DEF ChangesOf
  <2>3. ASSUME NEW r \in op.result, r.adapter = a PROVE file[a] = Original
    BY <1>2, <1>5, <1>6, <2>1, <2>2, <2>3 DEF Changed
  <2> QED
    BY <2>1, <2>3 DEF Touched
<1> QED
  BY <1>7, <1>8

\* The commit takes what was applied for committed.
LEMMA CommitInv == ASSUME IInv, Commit PROVE IInv'
<1>1. /\ At("commit") /\ Planning /\ Between /\ Up /\ proc = "daemon"
      /\ ~At("record") /\ ~At("uninstall") /\ ~At("undo")
      /\ mem = disk /\ op \in Operation /\ op.result \subseteq mem.pending.receipts
  BY DEF Commit, Planning, Between, At, Up, IInv, TypeOK, ControlInv, HeldInv
<1>2. UNCHANGED <<file, proc, issued>>
  BY DEF Commit
<1>3. ops' \in Nat /\ uninstalls' \in Nat /\ faults' \in Nat /\ crashes' \in Nat
  BY DEF Commit, Update, UpdateFails, NoFault, Fault, IInv, TypeOK
<1>4. CASE UpdateFails(mem) /\ op' = RollbackCombined(op) /\ UNCHANGED <<committed, exempt>>
  <2>1. UNCHANGED <<file, mem, disk, proc, issued, committed, exempt>>
    BY <1>2, <1>4 DEF UpdateFails
  <2>2. exempt' \subseteq Adapters /\ file' \in [Adapters -> Contents]
    BY <2>1 DEF IInv, TypeOK
  <2>3. CASE op.done \cup op.result = {}
    <3>1. op' = Idle
      BY <1>1, <1>4, <2>3, RollbackCombinedFields
    <3> QED
      BY <1>1, <1>3, <2>1, <2>3, <3>1, BecomesIdle
  <2>4. CASE op.done \cup op.result # {}
    <3>1. IsUndoing(op', op.done \cup op.result, {}, {})
      BY <1>1, <1>4, <2>4, RollbackCombinedFields
    <3> QED
      BY <1>1, <1>3, <2>1, <2>2, <3>1, RollsBack
  <2> QED
    BY <2>3, <2>4
<1>5. CASE /\ Update(CommittedStore(mem))
           /\ committed' = [a \in Adapters |-> IF a \in Touched THEN file[a] ELSE committed[a]]
           /\ exempt' = exempt \cup Forgotten \cup Unlinked
           /\ op' = Idle
  <2> DEFINE P == disk.policy.receipts \cup op.done \cup op.result
  <2>1. /\ mem' = CommittedStore(mem) /\ disk' = CommittedStore(mem)
        /\ op'.done = {} /\ op'.result = {} /\ op'.undo = {} /\ op'.group = {} /\ op' \in Operation
    BY <1>5, IdleFields DEF Update
  <2>2. /\ At("idle")' /\ ~Planning' /\ ~Between' /\ ~At("record")' /\ ~At("recover")'
        /\ ~At("uninstall")' /\ ~At("undo")'
    BY <1>5, IdleFields DEF At, Planning, Between
  <2>3. /\ CommittedStore(mem).policy = Policy(CommittedNodes(mem), P)
        /\ CommittedStore(mem).pending = IF op.kind = "manual" THEN mem.pending ELSE Closed
    BY <1>1 DEF CommittedStore
  <2>4. /\ CommittedStore(mem).policy.receipts = P /\ CommittedStore(mem).policy.open
        /\ CommittedStore(mem).pending.receipts =
             IF op.kind = "manual" THEN mem.pending.receipts ELSE {}
        /\ ~CommittedStore(mem).pending.open => CommittedStore(mem).pending.receipts = {}
    <3>1. ~mem.pending.open => mem.pending.receipts = {}
      BY DEF IInv, ControlInv
    <3> QED
      BY <2>3, <3>1 DEF Policy, Closed
  <2>5. CommittedStore(mem) \in Store
    <3>1. op.plan[1] \in Contents
      BY <1>1 DEF IInv, ControlInv, Operation
    <3>2. /\ mem.policy.nodes \in Contents
          /\ mem.pending \in [open : BOOLEAN, receipts : SUBSET Receipt]
      BY DEF IInv, TypeOK, Store
    <3>3. CommittedNodes(mem) \in Contents
      BY <3>1, <3>2 DEF CommittedNodes, Contents
    <3>4. P \in SUBSET Receipt
      BY Fields DEF IInv
    <3> HIDE DEF P
    <3>5. Policy(CommittedNodes(mem), P) \in
            [open : BOOLEAN, nodes : Contents, receipts : SUBSET Receipt]
      BY <3>3, <3>4 DEF Policy
    <3>6. (IF op.kind = "manual" THEN mem.pending ELSE Closed)
            \in [open : BOOLEAN, receipts : SUBSET Receipt]
      BY <3>2 DEF Closed
    <3>7. CommittedStore(mem) = [policy |-> Policy(CommittedNodes(mem), P),
                                 pending |-> IF op.kind = "manual" THEN mem.pending ELSE Closed]
      BY <1>1 DEF CommittedStore, P
    <3> QED
      BY <3>5, <3>6, <3>7 DEF Store
  <2>6. Known' \subseteq Known
    BY <2>1, <2>4 DEF Known
  <2>7. exempt \subseteq exempt' /\ exempt' \subseteq Adapters
    <3>1. Touched \subseteq Adapters /\ exempt \subseteq Adapters
      BY Fields DEF IInv, Touched, TypeOK
    <3>2. Forgotten \subseteq Adapters /\ Unlinked \subseteq Adapters
      BY <3>1 DEF Forgotten, Unlinked
    <3> QED
      BY <1>5, <3>1, <3>2
  <2>8. committed' \in [Adapters -> Contents]
    BY <1>5 DEF IInv, TypeOK
  <2>9. TypeOK'
    <3>1. Distinct(mem'.pending.receipts) /\ Distinct(mem'.policy.receipts)
      BY <2>1, <2>4 DEF IInv, IdInv, Known, Distinct
    <3> QED
      BY <1>2, <1>3, <2>1, <2>5, <2>7, <2>8, <3>1 DEF IInv, TypeOK
  <2>10. ControlInv'
    BY <1>1, <1>2, <2>1, <2>2, <2>4 DEF ControlInv, Up
  <2>11. IdInv'
    BY <1>2, <2>1, <2>6 DEF IInv, IdInv, Distinct
  <2>12. HeldInv' /\ FilesInv' /\ NewInv' /\ UndoInv'
    BY <2>1, <2>2 DEF HeldInv, FilesInv, NewInv, UndoInv
  <2>13. JournalInv'
    <3>1. ASSUME NEW a \in Adapters \ exempt', op.kind = "manual"
          PROVE  /\ Linked(mem.pending.receipts, a, committed'[a])
                 /\ Explained(file[a], mem.pending.receipts, a, committed'[a])
      <4>1. a \in Adapters \ exempt /\ a \notin Touched
        BY <1>5, <3>1 DEF Forgotten
      <4>2. committed'[a] = committed[a]
        BY <1>5, <4>1
      <4>3. /\ Linked(mem.pending.receipts, a, committed[a])
            /\ Explained(file[a], mem.pending.receipts, a, committed[a])
        BY <1>1, <4>1 DEF IInv, JournalInv, Recording
      <4> QED
        BY <4>2, <4>3
    <3>2. ASSUME NEW a \in Adapters \ exempt', op.kind # "manual"
          PROVE  Linked({}, a, committed'[a]) /\ Explained(file[a], {}, a, committed'[a])
      <4>1. a \in Touched \/ file[a] = committed[a]
        BY <1>5, <3>2 DEF Forgotten
      <4>2. committed'[a] = file[a]
        BY <1>5, <4>1
      <4> QED
        BY <4>2 DEF Linked, Explained
    <3>3. ASSUME NEW a \in Adapters \ exempt'
          PROVE  /\ Linked(mem'.pending.receipts, a, committed'[a])
                 /\ Explained(file[a], mem'.pending.receipts, a, committed'[a])
      BY <2>1, <2>4, <3>1, <3>2
    <3> QED
      BY <1>2, <2>1, <3>3 DEF JournalInv
  <2>14. ChainInv'
    <3>1. ASSUME NEW a \in Adapters \ exempt'
          PROVE  /\ \A r \in ChangesOf(P, a) :
                      (\A q \in ChangesOf(P, a) : r.id <= q.id) => r.previous = Original
                 /\ ChangesOf(P, a) = {} => committed'[a] = Original
      <4>1. a \in Adapters \ exempt /\ a \notin Unlinked
        BY <1>5
      <4>2. committed'[a] = IF a \in Touched THEN file[a] ELSE committed[a]
        BY <1>5
      <4> HIDE DEF P
      <4>3. P = disk.policy.receipts \cup op.done \cup op.result
        BY DEF P
      <4> QED
        BY <1>1, <4>1, <4>2, <4>3, ChainGrows
    <3> HIDE DEF P
    <3>2. disk'.policy.receipts = P
      BY <2>1, <2>4
    <3> QED
      BY <2>2, <3>1, <3>2 DEF ChainInv
  <2> QED
    BY <2>9, <2>10, <2>11, <2>12, <2>13, <2>14 DEF IInv
<1> QED
  BY <1>4, <1>5 DEF Commit

-----------------------------------------------------------------------------
(* Undoing *)

\* One step of undoing changes at most the file of the newest receipt's adapter,
\* and to what that receipt changed from.
LEMMA UndoneFile ==
  ASSUME TypeOK, NEW r \in Receipt, NEW failing \in BOOLEAN, Undo(r, failing)
  PROVE  /\ file' \in [Adapters -> Contents]
         /\ \A a \in Adapters : a # r.adapter => file'[a] = file[a]
         /\ file'[r.adapter] = file[r.adapter]
              \/ (Changed(r) /\ file'[r.adapter] = r.previous)
         /\ ~failing /\ Changed(r) => file'[r.adapter] = r.previous
         /\ faults' \in Nat
  BY DEF Undo, NoFault, Fault, TypeOK, Receipt

\* Undoing the newest receipt, or failing to.
LEMMA UndoOneInv == ASSUME IInv, UndoOne PROVE IInv'
<1> DEFINE r == Newest(op.undo)
           M == mem.pending.receipts
           U == op.undo \ {r}
<1>1. /\ op.pc \in {"undo", "recover", "uninstall"} /\ op \in Operation
      /\ ~Planning /\ ~Between /\ Up
  BY DEF UndoOne, Planning, Between, At, Up, IInv, TypeOK, ControlInv
<1>2. /\ r \in op.undo /\ \A q \in op.undo : q.id <= r.id
      /\ \A p, q \in op.undo : p.id = q.id => p = q
      /\ \A q \in op.undo : q.id \in Nat
  <2>1. /\ issued \in Nat /\ \A q \in op.undo : q.id \in 1..issued
        /\ \A p, q \in op.undo : p.id = q.id => p = q
    BY DEF IInv, IdInv, Known, Distinct, TypeOK
  <2> QED
    BY <2>1, NewestIs DEF UndoOne
<1>3. r \in Receipt /\ r.adapter \in Adapters /\ op.undo \subseteq op.group
  BY <1>2, Fields DEF IInv, TypeOK
<1>4. PICK failing \in BOOLEAN :
        /\ Undo(r, failing)
        /\ IF failing
           THEN /\ op' = [op EXCEPT !.undo = @ \ {r}, !.bad = TRUE]
                /\ exempt' = exempt \cup (IF At("undo") THEN Unrecoverable(r) ELSE {})
           ELSE op' = [op EXCEPT !.undo = @ \ {r}] /\ UNCHANGED exempt
  BY DEF UndoOne
<1>5. UNCHANGED <<mem, disk, proc, issued, ops, uninstalls, crashes, committed>>
  BY DEF UndoOne
<1> HIDE DEF r
<1>6. /\ file' \in [Adapters -> Contents]
      /\ \A a \in Adapters : a # r.adapter => file'[a] = file[a]
      /\ file'[r.adapter] = file[r.adapter] \/ (Changed(r) /\ file'[r.adapter] = r.previous)
      /\ ~failing /\ Changed(r) => file'[r.adapter] = r.previous
      /\ faults' \in Nat
  BY <1>3, <1>4, UndoneFile DEF IInv
<1>7. /\ op'.pc = op.pc /\ op'.plan = op.plan /\ op'.done = op.done /\ op'.result = op.result
      /\ op'.undo = U /\ op'.group = op.group
      /\ op'.bad = IF failing THEN TRUE ELSE op.bad
  BY <1>1, <1>4 DEF Operation
<1>8. op' \in Operation
  <2> DEFINE o1 == [op EXCEPT !.undo = U]
  <2>1. U \in SUBSET Receipt
    BY <1>1 DEF Operation
  <2>2. o1 \in Operation /\ op.undo \ {r} = U
    BY <1>1, <2>1, OperationFields
  <2>3. op' = IF failing THEN [o1 EXCEPT !.bad = TRUE] ELSE o1
    BY <1>1, <1>4 DEF Operation
  <2> HIDE DEF o1
  <2> QED
    BY <2>2, <2>3, OperationFields
<1>9. /\ ~Planning' /\ ~Between' /\ ~At("record")' /\ ~At("idle")' /\ Up'
      /\ (At("undo")' <=> At("undo")) /\ (At("recover")' <=> At("recover"))
      /\ (At("uninstall")' <=> At("uninstall")) /\ (Idling' <=> Idling)
  BY <1>1, <1>5, <1>7 DEF At, Planning, Between, Idling, Up
<1>10. Known' \subseteq Known
  BY <1>5, <1>7 DEF Known
<1>11. exempt \subseteq exempt' /\ exempt' \subseteq Adapters
  BY <1>3, <1>4 DEF IInv, TypeOK, Unrecoverable
<1>12. TypeOK'
  BY <1>3, <1>5, <1>6, <1>7, <1>8, <1>11 DEF IInv, TypeOK
<1>13. ControlInv'
  BY <1>1, <1>5, <1>7, <1>9 DEF IInv, ControlInv, Up
<1>14. IdInv'
  BY <1>5, <1>7, <1>10 DEF IInv, IdInv, Distinct
<1>15. \A s \in U, q \in op.group : q.id < s.id => q \in U
  BY <1>2, Fields DEF IInv, HeldInv
<1>16. HeldInv'
  <2>1. op.result = {}
    BY <1>1 DEF IInv, ControlInv
  <2> QED
    BY <1>5, <1>7, <1>9, <1>15, <2>1 DEF IInv, HeldInv
<1>17. FilesInv'
  BY <1>9 DEF FilesInv
\* Only the newest may be missing from the file of the store.
<1>18. At("undo") => op.undo \ disk.pending.receipts \subseteq {r}
  BY <1>2 DEF IInv, UndoInv
<1>19. At("undo") \/ At("recover") => r \in M /\ op.group \subseteq M
  BY <1>2, <1>3 DEF IInv, HeldInv
<1>20. ASSUME NEW a \in Adapters \ exempt'
       PROVE  /\ Linked(M, a, committed[a]) /\ Linked(disk.pending.receipts, a, committed[a])
              /\ ~At("uninstall") =>
                   /\ Explained(file'[a], M, a, committed[a])
                   /\ a \notin Unrecorded' =>
                        Explained(file'[a], disk.pending.receipts, a, committed[a])
  <2>1. a \in Adapters \ exempt
    BY <1>11
  <2>2. /\ Linked(M, a, committed[a]) /\ Linked(disk.pending.receipts, a, committed[a])
        /\ ~At("uninstall") => Explained(file[a], M, a, committed[a])
        /\ ~At("uninstall") /\ a \notin Unrecorded =>
             Explained(file[a], disk.pending.receipts, a, committed[a])
    BY <1>1, <2>1 DEF IInv, JournalInv, Recording, At
  <2>3. ASSUME ~At("uninstall") PROVE Explained(file'[a], M, a, committed[a])
    <3>1. CASE file'[a] = file[a]
      BY <2>2, <2>3, <3>1
    <3>2. CASE a = r.adapter /\ Changed(r) /\ file'[a] = r.previous
      <4>1. r \in M
        BY <1>1, <1>19, <2>3 DEF At
      <4> QED
        BY <2>2, <3>2, <4>1 DEF Linked, Explained
    <3> QED
      BY <1>6, <3>1, <3>2
  <2>4. ASSUME ~At("uninstall") PROVE Explained(file'[a], disk.pending.receipts, a, committed[a])
    <3>1. CASE r \in disk.pending.receipts
      <4>1. a \notin Unrecorded
        BY <1>1, <1>18, <3>1 DEF Unrecorded, At
      <4>2. Explained(file[a], disk.pending.receipts, a, committed[a])
        BY <2>2, <2>4, <4>1
      <4>3. CASE file'[a] = file[a]
        BY <4>2, <4>3
      <4>4. CASE a = r.adapter /\ Changed(r) /\ file'[a] = r.previous
        BY <2>2, <3>1, <4>4 DEF Linked, Explained
      <4> QED
        BY <1>6, <4>3, <4>4
    <3>2. CASE r \notin disk.pending.receipts
      <4>1. At("undo")
        <5>1. At("recover") => mem = disk
          BY DEF IInv, ControlInv
        <5> QED
          BY <1>1, <1>19, <2>4, <3>2, <5>1 DEF At
      <4>2. CASE a = r.adapter
        <5>1. ~failing
          BY <1>4, <3>2, <4>1, <4>2 DEF Unrecoverable
        <5>2. file[a] = r.applied /\ Explained(r.previous, disk.pending.receipts, a, committed[a])
          BY <1>2, <2>1, <3>2, <4>1, <4>2 DEF IInv, NewInv
        <5>3. file'[a] = r.previous
          BY <1>6, <4>2, <5>1, <5>2 DEF Changed
        <5> QED
          BY <5>2, <5>3
      <4>3. CASE a # r.adapter
        <5>1. a \notin Unrecorded
          BY <1>18, <4>1, <4>3 DEF Unrecorded, At
        <5> QED
          BY <1>6, <2>2, <2>4, <4>3, <5>1
      <4> QED
        BY <4>2, <4>3
    <3> QED
      BY <3>1, <3>2
  <2> QED
    BY <2>2, <2>3, <2>4
<1>21. JournalInv'
  BY <1>5, <1>9, <1>20 DEF JournalInv
<1>22. NewInv'
  BY <1>5, <1>7, <1>9, <1>18 DEF NewInv
<1>23. ASSUME At("undo") \/ At("recover"), ~op'.bad, NEW a \in Adapters \ exempt'
       PROVE  Explained(file'[a], (M \ op.group) \cup U, a, committed[a])
  <2>1. ~failing /\ ~op.bad /\ a \in Adapters \ exempt
    BY <1>7, <1>11, <1>23
  <2>2. Explained(file[a], (M \ op.group) \cup op.undo, a, committed[a])
    BY <1>23, <2>1 DEF IInv, UndoInv
  <2>3. CASE a # r.adapter
    <3>1. file'[a] = file[a]
      BY <1>6, <2>3
    <3> QED
      BY <2>2, <2>3, <3>1 DEF Explained
  <2>4. CASE a = r.adapter /\ ~Changed(r)
    <3>1. file'[a] = file[a]
      BY <1>6, <2>4
    <3> QED
      BY <2>2, <2>4, <3>1 DEF Explained
  <2>5. CASE a = r.adapter /\ Changed(r)
    <3>1. file'[a] = r.previous
      BY <1>6, <2>1, <2>5
    <3>2. Explained(r.previous, {q \in M : q.id < r.id}, a, committed[a])
      BY <1>19, <1>20, <1>23, <2>5 DEF Linked
    <3>3. \A q \in op.group : q.id < r.id => q \in op.undo
      BY <1>2 DEF IInv, HeldInv
    <3>4. r \in M /\ r.id \in Nat
      BY <1>19, <1>23, <1>2
    <3>5. {q \in M : q.id < r.id} \subseteq (M \ op.group) \cup U
      BY <3>3, <3>4
    <3> QED
      BY <3>1, <3>2, <3>5 DEF Explained
  <2> QED
    BY <2>3, <2>4, <2>5
<1>24. UndoInv'
  <2>1. At("undo") => U \ disk.pending.receipts = {}
    BY <1>18
  <2> QED
    BY <1>5, <1>7, <1>9, <1>23, <2>1 DEF UndoInv
<1>25. ASSUME NEW a \in Adapters \ exempt', At("uninstall"), ~op'.bad, ChangesOf(U, a) = {}
       PROVE  file'[a] = Original
  <2>1. ~failing /\ ~op.bad /\ a \in Adapters \ exempt
    BY <1>7, <1>11, <1>25
  <2>2. CASE a # r.adapter \/ ~Changed(r)
    <3>1. ChangesOf(op.undo, a) = {}
      BY <1>25, <2>2 DEF ChangesOf
    <3>2. file[a] = Original
      BY <1>25, <2>1, <3>1 DEF IInv, ChainInv
    <3> QED
      BY <1>6, <2>2, <3>2
  <2>3. CASE a = r.adapter /\ Changed(r)
    <3>1. op.group = disk.policy.receipts
      BY <1>1, <1>25 DEF IInv, HeldInv, ControlInv
    <3>2. \A q \in op.group : q.id < r.id => q \in op.undo
      BY <1>2 DEF IInv, HeldInv
    <3>3. r \in op.group /\ \A q \in op.group : q.id \in Nat
      BY <1>2, <1>3, Fields DEF IInv
    <3>4. r \in ChangesOf(op.group, a) /\ \A q \in ChangesOf(op.group, a) : r.id <= q.id
      BY <1>25, <2>3, <3>2, <3>3 DEF ChangesOf
    <3>5. r.previous = Original
      BY <2>1, <3>1, <3>4 DEF IInv, ChainInv
    <3> QED
      BY <1>6, <2>1, <2>3, <3>5
  <2> QED
    BY <2>2, <2>3
<1>26. ChainInv'
  BY <1>5, <1>7, <1>9, <1>11, <1>25 DEF IInv, ChainInv, ChangesOf
<1> QED
  BY <1>12, <1>13, <1>14, <1>16, <1>17, <1>21, <1>22, <1>24, <1>26 DEF IInv

\* The group leaves the journal, in memory and perhaps in the file.
LEMMA UndoEndsInv == ASSUME IInv, UndoEnds PROVE IInv'
<1> DEFINE M == mem.pending.receipts
           removed == Removed(mem, op.group)
<1>1. /\ At("undo") /\ op.undo = {} /\ op \in Operation /\ op.result = {} /\ Up
      /\ ~At("uninstall") /\ ~At("record") /\ Unrecorded = {} /\ proc = "daemon"
  BY DEF UndoEnds, Planning, Between, At, Up, Unrecorded, IInv, TypeOK, ControlInv
<1>2. /\ removed \in Store /\ removed.policy = mem.policy
      /\ removed.pending.receipts = M \ op.group
      /\ ~removed.pending.open => removed.pending.receipts = {}
  <2>1. /\ mem \in Store /\ (mem.pending.open \/ M = {}) /\ Distinct(M) /\ op.group \subseteq M
    BY <1>1 DEF IInv, TypeOK, ControlInv, HeldInv
  <2> QED
    BY <2>1, StoreRemoval
<1> HIDE DEF removed
<1>3. UNCHANGED <<file, proc, issued, committed>>
  BY DEF UndoEnds
<1>4. ops' \in Nat /\ uninstalls' \in Nat /\ faults' \in Nat /\ crashes' \in Nat
  BY DEF UndoEnds, Update, UpdateFails, NoFault, Fault, IInv, TypeOK
<1>5. \/ op.bad /\ UNCHANGED <<mem, disk, exempt>>
      \/ /\ ~op.bad /\ exempt' = exempt \cup Stranded
         /\ \/ mem' = removed /\ disk' = removed
            \/ mem' \in {removed, mem} /\ disk' = disk
  BY DEF UndoEnds, Update, UpdateFails, removed
<1>6. /\ mem' \in Store /\ mem'.policy = mem.policy
      /\ M \ op.group \subseteq mem'.pending.receipts /\ mem'.pending.receipts \subseteq M
      /\ ~mem'.pending.open => mem'.pending.receipts = {}
  BY <1>2, <1>5 DEF IInv, TypeOK, ControlInv
<1>7. /\ disk' \in Store /\ disk'.policy = disk.policy
      /\ disk'.pending.receipts \subseteq M \cup disk.pending.receipts
      /\ ~disk'.pending.open => disk'.pending.receipts = {}
      /\ op.done \subseteq disk'.pending.receipts
  <2>1. mem.policy = disk.policy
    BY <1>1 DEF IInv, ControlInv
  <2>2. op.done \subseteq disk.pending.receipts /\ op.done \subseteq M \ op.group
    BY <1>1 DEF IInv, HeldInv
  <2> QED
    BY <1>2, <1>5, <2>1, <2>2 DEF IInv, TypeOK, ControlInv
<1>8. op.done \subseteq mem'.pending.receipts
  BY <1>1, <1>6 DEF IInv, HeldInv
<1>9. exempt \subseteq exempt' /\ exempt' \subseteq Adapters
  BY <1>5 DEF Stranded, IInv, TypeOK
<1>10. /\ op' \in Operation /\ op'.pc = IF op.done = {} THEN "idle" ELSE "undo"
       /\ op'.undo = op.done /\ op'.group = op.done /\ op'.done = {} /\ op'.result = {}
  <2>1. op' = RollbackDone(op)
    BY DEF UndoEnds
  <2> QED
    BY <1>1, <2>1, IdleFields, RollbackDoneFields DEF IsUndoing
<1>11. /\ ~Planning' /\ ~Between' /\ ~At("record")' /\ ~At("recover")' /\ ~At("uninstall")'
       /\ Up'
  BY <1>1, <1>3, <1>10 DEF At, Planning, Between, Up
<1>12. Known' \subseteq Known
  BY <1>6, <1>7, <1>10 DEF Known
<1>13. TypeOK'
  <2>1. Distinct(mem'.pending.receipts) /\ Distinct(mem'.policy.receipts)
    BY <1>6 DEF IInv, TypeOK, Distinct
  <2> QED
    BY <1>3, <1>4, <1>6, <1>7, <1>9, <1>10, <2>1 DEF IInv, TypeOK
<1>14. ControlInv'
  <2>1. mem.policy = disk.policy
    BY <1>1 DEF IInv, ControlInv
  <2> QED
    BY <1>1, <1>3, <1>6, <1>7, <1>10, <1>11, <2>1 DEF IInv, ControlInv, Up
<1>15. IdInv'
  BY <1>3, <1>7, <1>10, <1>12 DEF IInv, IdInv, Distinct
<1>16. HeldInv'
  BY <1>7, <1>8, <1>10, <1>11 DEF HeldInv
<1>17. FilesInv'
  BY <1>11 DEF FilesInv
<1>18. ASSUME NEW a \in Adapters \ exempt
       PROVE  /\ Linked(M, a, committed[a]) /\ Linked(disk.pending.receipts, a, committed[a])
              /\ Explained(file[a], M, a, committed[a])
              /\ Explained(file[a], disk.pending.receipts, a, committed[a])
  BY <1>1 DEF IInv, JournalInv, Recording
<1>19. ASSUME NEW a \in Adapters \ exempt', ~op.bad, a \notin Stranded
       PROVE  /\ Linked(removed.pending.receipts, a, committed[a])
              /\ Explained(file[a], removed.pending.receipts, a, committed[a])
  <2>1. Explained(file[a], (M \ op.group) \cup op.undo, a, committed[a])
    BY <1>1, <1>9, <1>19 DEF IInv, UndoInv
  <2>2. Explained(file[a], M \ op.group, a, committed[a])
    BY <1>1, <2>1 DEF Explained
  <2>3. ASSUME NEW s \in M \ op.group, s.adapter = a, Changed(s)
        PROVE  Explained(s.previous, {q \in M \ op.group : q.id < s.id}, a, committed[a])
    <3>1. Explained(s.previous, {q \in M : q.id < s.id}, a, committed[a])
      BY <1>9, <1>18, <2>3 DEF Linked
    <3>2. \A d \in op.group : d.adapter = a /\ Changed(d) => ~(d.id < s.id)
      BY <1>19, <2>3 DEF Stranded
    <3> QED
      BY <3>1, <3>2 DEF Explained
  <2> QED
    BY <1>2, <2>2, <2>3 DEF Linked
<1>20. ASSUME NEW a \in Adapters \ exempt'
       PROVE  /\ Linked(mem'.pending.receipts, a, committed[a])
              /\ Linked(disk'.pending.receipts, a, committed[a])
              /\ Explained(file[a], mem'.pending.receipts, a, committed[a])
              /\ Explained(file[a], disk'.pending.receipts, a, committed[a])
  BY <1>5, <1>9, <1>18, <1>19
<1>21. JournalInv'
  BY <1>3, <1>20 DEF JournalInv
<1>22. op'.undo \ disk'.pending.receipts = {}
  BY <1>7, <1>10
<1>23. NewInv'
  BY <1>11, <1>22 DEF NewInv
<1>24. UndoInv'
  <2>1. (mem'.pending.receipts \ op'.group) \cup op'.undo = mem'.pending.receipts
    BY <1>8, <1>10
  <2> QED
    BY <1>3, <1>20, <1>22, <2>1 DEF UndoInv
<1>25. ChainInv'
  BY <1>3, <1>7, <1>9, <1>11 DEF IInv, ChainInv, ChangesOf
<1> QED
  BY <1>13, <1>14, <1>15, <1>16, <1>17, <1>21, <1>23, <1>24, <1>25 DEF IInv

-----------------------------------------------------------------------------
(* Crash, recovery, uninstall *)

\* The process ends: what is left is the file of the store.
LEMMA ProcessEnds ==
  ASSUME IInv, Up, Exits, UNCHANGED <<file, disk, issued, committed>>,
         exempt \subseteq exempt', exempt' \subseteq Adapters,
         Unrecorded \subseteq exempt',
         At("uninstall") => \A a \in Adapters \ exempt' : file[a] = committed[a],
         ops' \in Nat, uninstalls' \in Nat, faults' \in Nat, crashes' \in Nat
  PROVE  IInv'
<1>1. /\ proc' = "down" /\ mem' = EmptyStore
      /\ op' \in Operation /\ op'.pc = "idle"
      /\ op'.undo = {} /\ op'.group = {} /\ op'.done = {} /\ op'.result = {}
  BY IdleFields DEF Exits
<1>2. /\ ~Planning' /\ ~Between' /\ ~At("record")' /\ ~At("recover")' /\ ~At("uninstall")'
      /\ ~At("undo")' /\ At("idle")' /\ ~Up'
  BY <1>1 DEF At, Planning, Between, Up
<1>3. /\ mem' \in Store /\ mem'.pending.receipts = {} /\ mem'.policy.receipts = {}
  BY <1>1 DEF EmptyStore, Store, NoPolicy, Closed, Contents
<1>4. Known' \subseteq Known
  BY <1>1, <1>3 DEF Known
<1>5. TypeOK'
  BY <1>1, <1>3 DEF IInv, TypeOK, Distinct
<1>6. ControlInv'
  BY <1>1, <1>2, <1>3 DEF IInv, ControlInv
<1>7. IdInv'
  BY <1>1, <1>4 DEF IInv, IdInv, Distinct
<1>8. HeldInv' /\ FilesInv' /\ NewInv' /\ UndoInv'
  BY <1>1, <1>2 DEF HeldInv, FilesInv, NewInv, UndoInv
<1>9. ASSUME NEW a \in Adapters \ exempt'
      PROVE  /\ Linked(disk.pending.receipts, a, committed[a])
             /\ Explained(file[a], disk.pending.receipts, a, committed[a])
  <2>1. Linked(disk.pending.receipts, a, committed[a])
    BY DEF IInv, JournalInv
  <2>2. CASE At("uninstall")
    BY <2>1, <2>2 DEF Explained
  <2>3. CASE ~At("uninstall")
    BY <2>3 DEF IInv, JournalInv
  <2> QED
    BY <2>2, <2>3
<1>10. JournalInv'
  BY <1>2, <1>9 DEF JournalInv
<1>11. ChainInv'
  BY <1>2 DEF IInv, ChainInv, ChangesOf
<1> QED
  BY <1>5, <1>6, <1>7, <1>8, <1>10, <1>11 DEF IInv

\* The process dies.
LEMMA CrashInv == ASSUME IInv, Crash PROVE IInv'
<1>1. Up /\ Exits /\ UNCHANGED <<file, disk, issued, committed>>
  BY DEF Crash, Up
<1>2. exempt' = exempt \cup Unrecorded \cup PartlyUninstalled
  BY DEF Crash
<1>3. Unrecorded \subseteq Adapters
  <2>1. At("record") => Newest(op.result) \in Receipt
    BY IssuedReceipt, Fields DEF IInv
  <2> QED
    BY <2>1, Fields DEF IInv, Unrecorded
<1>4. exempt \subseteq exempt' /\ exempt' \subseteq Adapters /\ Unrecorded \subseteq exempt'
  BY <1>2, <1>3 DEF PartlyUninstalled, IInv, TypeOK
<1>5. At("uninstall") => \A a \in Adapters \ exempt' : file[a] = committed[a]
  BY <1>2 DEF PartlyUninstalled
<1>6. ops' \in Nat /\ uninstalls' \in Nat /\ faults' \in Nat /\ crashes' \in Nat
  BY DEF Crash, IInv, TypeOK
<1> QED
  BY <1>1, <1>4, <1>5, <1>6, ProcessEnds

\* A process starts with the journal of the file to undo.
LEMMA RecoveringInv ==
  ASSUME IInv, NEW p \in {"daemon", "cleanup"}, At("idle"), Recovering(p),
         UNCHANGED <<file, disk, issued, committed, exempt>>,
         ops' \in Nat, uninstalls' \in Nat, faults' \in Nat, crashes' \in Nat
  PROVE  IInv'
<1> DEFINE S == disk.pending.receipts
<1>1. /\ proc' = p /\ mem' = disk
      /\ op' = [Idle EXCEPT !.pc = "recover", !.undo = S, !.group = S]
  BY DEF Recovering
<1>2. S \in SUBSET Receipt /\ disk \in Store
  BY Fields DEF IInv
<1> HIDE DEF S
<1>3. /\ op'.pc = "recover" /\ op'.undo = S /\ op'.group = S
      /\ op'.done = {} /\ op'.result = {}
  BY <1>1 DEF Idle
<1>4. op' \in Operation
  <2> DEFINE o1 == [Idle EXCEPT !.pc = "recover"]
             o2 == [o1 EXCEPT !.undo = S]
             o3 == [o2 EXCEPT !.group = S]
  <2>1. op' = o3
    BY <1>1 DEF Idle
  <2>2. o1 \in Operation
    BY IdleFields, OperationFields DEF Steps
  <2> HIDE DEF o1
  <2>3. o2 \in Operation
    BY <1>2, <2>2, OperationFields
  <2> HIDE DEF o2
  <2> QED
    BY <1>2, <2>1, <2>3, OperationFields
<1>5. /\ ~Planning' /\ ~Between' /\ ~At("record")' /\ ~At("uninstall")' /\ ~At("undo")'
      /\ ~At("idle")' /\ At("recover")' /\ Up' /\ ~At("uninstall") /\ Unrecorded = {}
  BY <1>1, <1>3 DEF At, Planning, Between, Up, Unrecorded
<1> USE DEF S
<1>6. Known' \subseteq Known
  BY <1>1, <1>3 DEF Known
<1>7. TypeOK'
  <2>1. Distinct(disk.pending.receipts) /\ Distinct(disk.policy.receipts)
    BY DEF IInv, IdInv, Known, Distinct
  <2> QED
    BY <1>1, <1>2, <1>3, <1>4, <2>1 DEF IInv, TypeOK
<1>8. ControlInv'
  BY <1>1, <1>3, <1>5 DEF IInv, ControlInv
<1>9. IdInv'
  BY <1>3, <1>6 DEF IInv, IdInv, Distinct
<1>10. HeldInv'
  BY <1>1, <1>3, <1>5 DEF HeldInv
<1>11. FilesInv' /\ NewInv'
  BY <1>5 DEF FilesInv, NewInv
<1>12. ASSUME NEW a \in Adapters \ exempt
       PROVE  /\ Linked(S, a, committed[a])
              /\ Explained(file[a], S, a, committed[a])
  BY <1>5 DEF IInv, JournalInv
<1>13. JournalInv'
  BY <1>1, <1>12 DEF JournalInv
<1>14. UndoInv'
  <2>1. (mem'.pending.receipts \ op'.group) \cup op'.undo = S
    BY <1>1, <1>3
  <2> QED
    BY <1>5, <1>12, <2>1 DEF UndoInv
<1>15. ChainInv'
  BY <1>5 DEF IInv, ChainInv, ChangesOf
<1> QED
  BY <1>7, <1>8, <1>9, <1>10, <1>11, <1>13, <1>14, <1>15 DEF IInv

\* The daemon starts.
LEMMA StartDaemonInv == ASSUME IInv, StartDaemon PROVE IInv'
<1>1. At("idle")
  BY DEF StartDaemon, IInv, ControlInv
<1>2. Recovering("daemon") /\ UNCHANGED <<file, disk, issued, committed, exempt>>
  BY DEF StartDaemon
<1>3. ops' \in Nat /\ uninstalls' \in Nat /\ faults' \in Nat /\ crashes' \in Nat
  BY DEF StartDaemon, IInv, TypeOK
<1> QED
  BY <1>1, <1>2, <1>3, RecoveringInv

\* The uninstaller starts.
LEMMA StartCleanupInv == ASSUME IInv, StartCleanup PROVE IInv'
<1>1. At("idle")
  BY DEF StartCleanup, IInv, ControlInv
<1>2. Recovering("cleanup") /\ UNCHANGED <<file, disk, issued, committed, exempt>>
  BY DEF StartCleanup
<1>3. ops' \in Nat /\ uninstalls' \in Nat /\ faults' \in Nat /\ crashes' \in Nat
  BY DEF StartCleanup, IInv, TypeOK
<1> QED
  BY <1>1, <1>2, <1>3, RecoveringInv

\* The recovery succeeds, or ends the process.
LEMMA RecoverEndsInv == ASSUME IInv, RecoverEnds PROVE IInv'
<1>1. /\ At("recover") /\ op.undo = {} /\ Up /\ mem = disk /\ op.result = {} /\ op.done = {}
      /\ ~At("uninstall") /\ ~At("record") /\ ~At("undo") /\ Unrecorded = {}
  BY DEF RecoverEnds, Planning, Between, Idling, At, Up, Unrecorded, IInv, TypeOK, ControlInv
<1>2. UNCHANGED <<file, issued, committed, exempt>>
  BY DEF RecoverEnds
<1>3. ops' \in Nat /\ uninstalls' \in Nat /\ faults' \in Nat /\ crashes' \in Nat
  BY DEF RecoverEnds, Update, NoFault, Fault, IInv, TypeOK
<1>4. CASE Exits /\ UNCHANGED disk
  <2>1. exempt \subseteq exempt' /\ exempt' \subseteq Adapters /\ Unrecorded \subseteq exempt'
    BY <1>1, <1>2 DEF IInv, TypeOK
  <2> QED
    BY <1>1, <1>2, <1>3, <1>4, <2>1, ProcessEnds
<1>5. CASE /\ ~op.bad /\ Update([mem EXCEPT !.pending = Closed]) /\ UNCHANGED proc
           /\ op' = IF proc = "daemon" THEN Idle
                    ELSE [Idle EXCEPT !.pc = "uninstall", !.undo = mem.policy.receipts,
                                      !.group = mem.policy.receipts]
  <2> DEFINE P == mem.policy.receipts
             ended == [mem EXCEPT !.pending = Closed]
  <2>1. /\ ended \in Store /\ ended.policy = mem.policy
        /\ ~ended.pending.open /\ ended.pending.receipts = {}
    BY DEF IInv, TypeOK, Store, Closed
  <2>2. mem' = ended /\ disk' = ended
    BY <1>5 DEF Update
  <2>3. P \in SUBSET Receipt /\ P = disk.policy.receipts
    BY <1>1, Fields DEF IInv
  <2> HIDE DEF ended, P
  <2>4. /\ op'.done = {} /\ op'.result = {} /\ op'.undo = op'.group
        /\ \/ op'.pc = "idle" /\ op'.undo = {}
           \/ op'.pc = "uninstall" /\ op'.undo = P /\ proc = "cleanup"
    <3>1. proc \in {"daemon", "cleanup"}
      BY <1>1 DEF Up, IInv, TypeOK
    <3>2. op' = IF proc = "daemon" THEN Idle
                ELSE [Idle EXCEPT !.pc = "uninstall", !.undo = P, !.group = P]
      BY <1>5 DEF P
    <3> QED
      BY <3>1, <3>2 DEF Idle
  <2>5. op' \in Operation
    <3> DEFINE o1 == [Idle EXCEPT !.pc = "uninstall"]
               o2 == [o1 EXCEPT !.undo = P]
               o3 == [o2 EXCEPT !.group = P]
    <3>1. op' = IF proc = "daemon" THEN Idle ELSE o3
      BY <1>5 DEF Idle, P
    <3>2. o1 \in Operation
      BY IdleFields, OperationFields DEF Steps
    <3> HIDE DEF o1
    <3>3. o2 \in Operation
      BY <2>3, <3>2, OperationFields
    <3> HIDE DEF o2
    <3>4. o3 \in Operation
      BY <2>3, <3>3, OperationFields
    <3> HIDE DEF o3
    <3> QED
      BY <3>1, <3>4, IdleFields
  <2>6. /\ ~Planning' /\ ~Between' /\ ~At("record")' /\ ~At("undo")' /\ ~At("recover")' /\ Up'
        /\ ~At("uninstall")' \/ (op'.undo = P /\ proc = "cleanup")
    BY <1>1, <1>5, <2>4 DEF At, Planning, Between, Up
  <2>7. disk'.policy = disk.policy /\ mem'.policy = disk.policy
    BY <1>1, <2>1, <2>2
  <2>8. Known' \subseteq Known
    BY <2>1, <2>2, <2>3, <2>4, <2>7 DEF Known
  <2>9. TypeOK'
    <3>1. Distinct(mem'.pending.receipts) /\ Distinct(mem'.policy.receipts)
      BY <2>1, <2>2 DEF IInv, TypeOK, Distinct
    <3> QED
      BY <1>2, <1>3, <1>5, <2>1, <2>2, <2>4, <2>5, <3>1 DEF IInv, TypeOK
  <2>10. ControlInv'
    BY <1>1, <1>5, <2>1, <2>2, <2>4, <2>6, <2>7 DEF IInv, ControlInv, Up
  <2>11. IdInv'
    BY <1>2, <2>4, <2>7, <2>8 DEF IInv, IdInv, Distinct
  <2>12. HeldInv'
    <3>1. At("uninstall")' => op'.group = mem'.policy.receipts
      BY <2>1, <2>2, <2>4, <2>6 DEF P
    <3> QED
      BY <2>1, <2>2, <2>4, <2>6, <3>1 DEF HeldInv
  <2>13. FilesInv' /\ NewInv' /\ UndoInv'
    BY <2>6 DEF FilesInv, NewInv, UndoInv
  <2>14. ASSUME NEW a \in Adapters \ exempt PROVE file[a] = committed[a]
    <3>1. (mem.pending.receipts \ op.group) \cup op.undo = {}
      BY <1>1 DEF IInv, HeldInv
    <3>2. Explained(file[a], {}, a, committed[a])
      BY <1>1, <1>5, <3>1 DEF IInv, UndoInv
    <3> QED
      BY <3>2 DEF Explained
  <2>15. JournalInv'
    BY <1>2, <2>1, <2>2, <2>14 DEF JournalInv, Linked, Explained
  <2>16. ChainInv'
    <3>1. ASSUME NEW a \in Adapters \ exempt
          PROVE  /\ \A r \in ChangesOf(disk.policy.receipts, a) :
                      (\A q \in ChangesOf(disk.policy.receipts, a) : r.id <= q.id)
                        => r.previous = Original
                 /\ ChangesOf(disk.policy.receipts, a) = {} => committed[a] = Original
                 /\ ChangesOf(P, a) = {} => file[a] = Original
      BY <2>3, <2>14 DEF IInv, ChainInv
    <3> QED
      BY <1>2, <2>6, <2>7, <3>1 DEF ChainInv
  <2> QED
    BY <2>9, <2>10, <2>11, <2>12, <2>13, <2>15, <2>16 DEF IInv
<1> QED
  BY <1>4, <1>5 DEF RecoverEnds

\* The uninstaller has undone the whole chain.
LEMMA UninstalledFile ==
  ASSUME IInv, At("uninstall"), op.undo = {}, ~op.bad, NEW a \in Adapters \ exempt
  PROVE  file[a] = Original
<1>1. ChangesOf(op.undo, a) = {}
  BY DEF ChangesOf
<1> QED
  BY <1>1 DEF IInv, ChainInv

\* The policy is forgotten, or kept for another attempt.
LEMMA UninstallEndsInv == ASSUME IInv, UninstallEnds PROVE IInv'
<1>1. At("uninstall") /\ op.undo = {} /\ Up /\ Exits /\ Unrecorded = {}
  BY DEF UninstallEnds, At, Up, Unrecorded, IInv, ControlInv
<1>2. UNCHANGED <<file, issued>>
  BY DEF UninstallEnds
<1>3. ops' \in Nat /\ uninstalls' \in Nat /\ faults' \in Nat /\ crashes' \in Nat
  BY DEF UninstallEnds, NoFault, Fault, IInv, TypeOK
<1>4. CASE exempt' = exempt \cup PartlyUninstalled /\ UNCHANGED <<disk, committed>>
  <2>1. exempt \subseteq exempt' /\ exempt' \subseteq Adapters /\ Unrecorded \subseteq exempt'
    BY <1>1, <1>4 DEF IInv, TypeOK, PartlyUninstalled
  <2>2. \A a \in Adapters \ exempt' : file[a] = committed[a]
    BY <1>1, <1>4 DEF PartlyUninstalled
  <2> QED
    BY <1>1, <1>2, <1>3, <1>4, <2>1, <2>2, ProcessEnds
<1>5. CASE /\ ~op.bad /\ disk' = EmptyStore /\ committed' = [a \in Adapters |-> Original]
           /\ UNCHANGED exempt
  <2>1. /\ proc' = "down" /\ mem' = EmptyStore
        /\ op' \in Operation /\ op'.pc = "idle"
        /\ op'.undo = {} /\ op'.group = {} /\ op'.done = {} /\ op'.result = {}
    BY <1>1, IdleFields DEF Exits
  <2>2. /\ ~Planning' /\ ~Between' /\ ~At("record")' /\ ~At("recover")' /\ ~At("uninstall")'
        /\ ~At("undo")' /\ At("idle")' /\ ~Up'
    BY <2>1 DEF At, Planning, Between, Up
  <2>3. /\ EmptyStore \in Store /\ EmptyStore.pending.receipts = {}
        /\ EmptyStore.policy = NoPolicy /\ NoPolicy.receipts = {}
    BY DEF EmptyStore, Store, NoPolicy, Closed, Contents
  <2>4. Known' = {}
    BY <1>5, <2>1, <2>3 DEF Known
  <2>5. Original \in Contents
    BY DEF Original, Contents
  <2>6. TypeOK'
    BY <1>2, <1>3, <1>5, <2>1, <2>3, <2>5 DEF IInv, TypeOK, Distinct
  <2>7. ControlInv'
    BY <1>5, <2>1, <2>2, <2>3 DEF ControlInv
  <2>8. IdInv'
    BY <1>5, <2>1, <2>3, <2>4 DEF IdInv, Distinct
  <2>9. HeldInv' /\ FilesInv' /\ NewInv' /\ UndoInv'
    BY <2>1, <2>2 DEF HeldInv, FilesInv, NewInv, UndoInv
  <2>10. \A a \in Adapters \ exempt : file[a] = committed'[a] /\ committed'[a] = Original
    BY <1>1, <1>5, UninstalledFile
  <2>11. JournalInv'
    BY <1>2, <1>5, <2>2, <2>3, <2>10 DEF JournalInv, Linked, Explained
  <2>12. ChainInv'
    BY <1>5, <2>2, <2>3, <2>10 DEF ChainInv, ChangesOf
  <2> QED
    BY <2>6, <2>7, <2>8, <2>9, <2>11, <2>12 DEF IInv
<1> QED
  BY <1>4, <1>5 DEF UninstallEnds

-----------------------------------------------------------------------------
(* The invariant *)

\* Nothing was ever applied.
LEMMA InitInv == Init => IInv
<1> SUFFICES ASSUME Init PROVE IInv
  OBVIOUS
<1>1. /\ mem = EmptyStore /\ disk = EmptyStore /\ op \in Operation /\ op.pc = "idle"
      /\ op.undo = {} /\ op.group = {} /\ op.done = {} /\ op.result = {}
  BY IdleFields DEF Init
<1>2. /\ EmptyStore \in Store /\ EmptyStore.pending.receipts = {}
      /\ EmptyStore.policy = NoPolicy /\ NoPolicy.receipts = {}
  BY DEF EmptyStore, Store, NoPolicy, Closed, Contents
<1>3. /\ ~Planning /\ ~Between /\ ~At("record") /\ ~At("recover") /\ ~At("uninstall")
      /\ ~At("undo") /\ At("idle")
  BY <1>1 DEF At, Planning, Between
<1>4. Known = {}
  BY <1>1, <1>2 DEF Known
<1>5. Original \in Contents
  BY DEF Original, Contents
<1>6. /\ file \in [Adapters -> Contents] /\ committed = file
      /\ \A a \in Adapters : file[a] = Original
  BY <1>5 DEF Init
<1>7. proc = "daemon" /\ exempt = {} /\ issued = 0
  BY DEF Init
<1>8. TypeOK
  BY <1>1, <1>2, <1>6, <1>7 DEF Init, TypeOK, Distinct
<1>9. ControlInv
  BY <1>1, <1>2, <1>3, <1>7 DEF ControlInv
<1>10. IdInv
  BY <1>1, <1>2, <1>4 DEF IdInv, Distinct
<1>11. HeldInv /\ FilesInv /\ NewInv /\ UndoInv
  BY <1>1, <1>3 DEF HeldInv, FilesInv, NewInv, UndoInv
<1>12. JournalInv
  BY <1>1, <1>2, <1>6 DEF JournalInv, Linked, Explained
<1>13. ChainInv
  BY <1>1, <1>2, <1>3, <1>6 DEF ChainInv, ChangesOf
<1> QED
  BY <1>8, <1>9, <1>10, <1>11, <1>12, <1>13 DEF IInv

\* Every step of the specification keeps the invariant.
LEMMA StepInv == IInv /\ [Next]_vars => IInv'
<1> SUFFICES ASSUME IInv, [Next]_vars PROVE IInv'
  OBVIOUS
<1>1. CASE \E kind \in Kinds, v \in Targets : Start(kind, v)
  BY <1>1, StartInv
<1>2. CASE \E active \in SUBSET Adapters : BeginApply(active)
  BY <1>2, BeginApplyInv
<1>3. CASE \E a \in Adapters : ApplyAdapter(a)
  BY <1>3, ApplyAdapterInv
<1>4. CASE \E a \in Adapters : ApplyAdapterFails(a)
  BY <1>4, ApplyFailsInv
<1>5. CASE BeginFails \/ RecordReceipt \/ VerifyAdapter \/ NextPolicy \/ VerifySystem \/ Commit
  BY <1>5, BeginFailsInv, RecordReceiptInv, VerifyAdapterInv, NextPolicyInv, VerifySystemInv,
     CommitInv
<1>6. CASE UndoOne \/ UndoEnds \/ RecoverEnds \/ UninstallEnds
  BY <1>6, UndoOneInv, UndoEndsInv, RecoverEndsInv, UninstallEndsInv
<1>7. CASE Crash \/ StartDaemon \/ StartCleanup
  BY <1>7, CrashInv, StartDaemonInv, StartCleanupInv
<1>8. CASE UNCHANGED vars
  <2>1. UNCHANGED <<file, mem, disk, proc, op, issued, committed, exempt>>
    BY <1>8 DEF vars
  <2>2. TypeOK'
    BY <1>8 DEF vars, IInv, TypeOK
  <2>3. /\ At("uninstall")' = At("uninstall") /\ At("undo")' = At("undo")
        /\ At("recover")' = At("recover") /\ At("record")' = At("record")
        /\ Up' = Up /\ Between' = Between /\ Planning' = Planning
        /\ Idling' = Idling /\ At("idle")' = At("idle")
        /\ Known' = Known /\ Unrecorded' = Unrecorded
    BY <2>1 DEF At, Up, Between, Planning, Idling, Known, Unrecorded
  <2>4. ControlInv' /\ IdInv' /\ HeldInv' /\ FilesInv'
    BY <2>1, <2>3 DEF IInv, ControlInv, IdInv, HeldInv, FilesInv, Distinct
  <2>5. JournalInv'
    BY <2>1, <2>3 DEF IInv, JournalInv, Recording
  <2>6. NewInv'
    BY <2>1, <2>3 DEF IInv, NewInv
  <2>7. UndoInv'
    BY <2>1, <2>3 DEF IInv, UndoInv
  <2>8. ChainInv'
    BY <2>1, <2>3 DEF IInv, ChainInv, ChangesOf
  <2> QED
    BY <2>2, <2>4, <2>5, <2>6, <2>7, <2>8 DEF IInv
<1> QED
  BY <1>1, <1>2, <1>3, <1>4, <1>5, <1>6, <1>7, <1>8 DEF Next, OperationStep

\* The invariant of the specification.
LEMMA Invariance == Spec => []IInv
  BY InitInv, StepInv, PTL DEF Spec

-----------------------------------------------------------------------------
(* Replaying a journal *)

\* Undoing linked receipts newest first, refused ones skipped, takes a content
\* they explain back to the content they begin with.
LEMMA ReplayedIsBase ==
  ASSUME NEW receipts, NEW a, NEW base, issued \in Nat,
         \A r \in receipts : r.id \in 1..issued, Distinct(receipts),
         Linked(receipts, a, base), Explained(file[a], receipts, a, base)
  PROVE  Replayed(receipts, a) = base
<1> DEFINE undone(c, i) == {r \in receipts : /\ r.id = issued + 1 - i /\ r.adapter = a
                                              /\ r.applied = c}
           after(c, i) == IF undone(c, i) = {} THEN c
                          ELSE (CHOOSE r \in undone(c, i) : TRUE).previous
           Body(f, i) == IF i = 0 THEN file[a] ELSE after(f[i - 1], i)
           upTo(i) == {q \in receipts : q.id <= issued - i}
<1>1. Replayed(receipts, a) =
        (CHOOSE f : f = [i \in 0..issued |-> Body(f, i)])[issued]
  BY DEF Replayed
<1>2. ASSUME NEW i \in 1..issued, NEW c, Explained(c, upTo(i - 1), a, base)
      PROVE  Explained(after(c, i), upTo(i), a, base)
  <2>1. CASE undone(c, i) = {}
    <3>1. \A q \in upTo(i - 1) : q.adapter = a /\ q.applied = c => q \in upTo(i)
      BY <2>1
    <3> QED
      BY <1>2, <2>1, <3>1 DEF Explained
  <2>2. CASE undone(c, i) # {}
    <3>1. PICK r \in undone(c, i) : after(c, i) = r.previous
      BY <2>2
    <3>2. r \in receipts /\ r.id = issued + 1 - i /\ r.adapter = a /\ r.applied = c
      BY <3>1
    <3> HIDE DEF after
    <3>3. CASE Changed(r)
      <4>1. Explained(r.previous, {q \in receipts : q.id < r.id}, a, base)
        BY <3>2, <3>3 DEF Linked
      <4>2. {q \in receipts : q.id < r.id} \subseteq upTo(i)
        BY <3>2
      <4> QED
        BY <3>1, <4>1, <4>2 DEF Explained
    <3>4. CASE ~Changed(r)
      <4>1. \A q \in upTo(i - 1) : Changed(q) => q \in upTo(i)
        <5>1. \A q \in receipts : q.id = r.id => q = r
          BY <3>2 DEF Distinct
        <5> QED
          BY <3>2, <3>4, <5>1
      <4>2. after(c, i) = c
        BY <3>1, <3>2, <3>4 DEF Changed
      <4> QED
        BY <1>2, <4>1, <4>2 DEF Explained
    <3> QED
      BY <3>3, <3>4
  <2> QED
    BY <2>1, <2>2
<1> HIDE DEF after
<1>3. \E f : f = [i \in 0..issued |-> Body(f, i)]
  <2> DEFINE S == {m \in Nat : \E f : f = [i \in 0..m |-> Body(f, i)]}
  <2>1. 0 \in S
    <3> DEFINE g == [i \in 0..0 |-> file[a]]
    <3>1. g = [i \in 0..0 |-> Body(g, i)]
      OBVIOUS
    <3> QED
      BY <3>1
  <2>2. ASSUME NEW m \in Nat, m \in S PROVE m + 1 \in S
    <3>1. PICK f : f = [i \in 0..m |-> Body(f, i)]
      BY <2>2
    <3> DEFINE g == [i \in 0..(m + 1) |-> IF i = m + 1 THEN after(f[m], i) ELSE f[i]]
    <3>2. ASSUME NEW i \in 0..(m + 1) PROVE g[i] = Body(g, i)
      <4>1. CASE i = 0
        BY <3>1, <4>1
      <4>2. CASE i # 0 /\ i # m + 1
        <5>1. i \in 0..m /\ i - 1 \in 0..m /\ i - 1 # m + 1 /\ i - 1 \in 0..(m + 1)
          BY <4>2
        <5>2. g[i] = f[i] /\ g[i - 1] = f[i - 1]
          BY <4>2, <5>1
        <5>3. f[i] = after(f[i - 1], i)
          BY <3>1, <4>2, <5>1
        <5> QED
          BY <4>2, <5>2, <5>3
      <4>3. CASE i = m + 1
        <5>1. i - 1 = m /\ m \in 0..(m + 1) /\ m # m + 1 /\ i # 0
          BY <4>3
        <5>2. g[m] = f[m] /\ g[i] = after(f[m], i)
          BY <4>3, <5>1
        <5> QED
          BY <5>1, <5>2
      <4> QED
        BY <4>1, <4>2, <4>3
    <3>3. g = [i \in 0..(m + 1) |-> Body(g, i)]
      BY <3>2
    <3> HIDE DEF g, Body
    <3>4. \E h : h = [i \in 0..(m + 1) |-> Body(h, i)]
      BY <3>3
    <3> QED
      BY <3>4
  <2> HIDE DEF S
  <2>3. issued \in S
    BY <2>1, <2>2, NaturalInduction
  <2> QED
    BY <2>3 DEF S
<1>4. PICK f : /\ f = [i \in 0..issued |-> Body(f, i)]
               /\ Replayed(receipts, a) = f[issued]
  BY <1>1, <1>3
<1>5. f[0] = file[a] /\ \A i \in 1..issued : f[i] = after(f[i - 1], i)
  BY <1>4
<1>6. \A i \in Nat : i <= issued => Explained(f[i], upTo(i), a, base)
  <2> DEFINE S == {i \in Nat : i <= issued => Explained(f[i], upTo(i), a, base)}
  <2>1. 0 \in S
    BY <1>5 DEF Explained
  <2>2. ASSUME NEW i \in Nat, i \in S PROVE i + 1 \in S
    <3> SUFFICES ASSUME i + 1 <= issued PROVE Explained(f[i + 1], upTo(i + 1), a, base)
      OBVIOUS
    <3>1. i + 1 \in 1..issued /\ (i + 1) - 1 = i /\ i <= issued
      OBVIOUS
    <3>2. Explained(f[i], upTo((i + 1) - 1), a, base)
      BY <2>2, <3>1
    <3>3. f[i + 1] = after(f[i], i + 1)
      BY <1>5, <3>1
    <3> QED
      BY <1>2, <3>1, <3>2, <3>3
  <2> HIDE DEF S
  <2>3. Nat \subseteq S
    BY <2>1, <2>2, NaturalInduction
  <2> QED
    BY <2>3 DEF S
<1>7. upTo(issued) = {}
  OBVIOUS
<1> QED
  BY <1>4, <1>6, <1>7 DEF Explained

-----------------------------------------------------------------------------
(* The theorems *)

\* The variables keep their types whatever fails and wherever the process dies
\* (proxy.Coordinator, policy_journal.go).
THEOREM TypeCorrect == Spec => []TypeOK
<1>1. IInv => TypeOK
  BY DEF IInv
<1> QED
  BY <1>1, Invariance, PTL

\* Whenever the process may die, undoing the journal in the file of the store
\* newest first gives every adapter the content that was committed.
THEOREM ChangesCovered == Spec => []ChangesAreCovered
<1>1. IInv => ChangesAreCovered
  <2> SUFFICES ASSUME IInv, ~At("uninstall"), NEW a \in Adapters \ (exempt \cup Unrecorded)
               PROVE  Replayed(disk.pending.receipts, a) = committed[a]
    BY DEF ChangesAreCovered
  <2>1. /\ Linked(disk.pending.receipts, a, committed[a])
        /\ Explained(file[a], disk.pending.receipts, a, committed[a])
    BY DEF IInv, JournalInv
  <2>2. /\ issued \in Nat /\ Distinct(disk.pending.receipts)
        /\ \A r \in disk.pending.receipts : r.id \in 1..issued
    BY DEF IInv, TypeOK, IdInv, Known, Distinct
  <2> QED
    BY <2>1, <2>2, ReplayedIsBase
<1> QED
  BY <1>1, Invariance, PTL

\* Settled, the files of the trusted adapters are what is committed.
FilesAreCommitted == \A a \in Adapters \ exempt : file[a] = committed[a]

LEMMA SettledInForce == IInv /\ Settled => FilesAreCommitted
<1> SUFFICES ASSUME IInv, Settled, NEW a \in Adapters \ exempt PROVE file[a] = committed[a]
  BY DEF FilesAreCommitted
<1>1. proc = "daemon" /\ At("idle") /\ ~mem.pending.open
  BY DEF Settled
<1>2. Explained(file[a], mem.pending.receipts, a, committed[a])
  BY <1>1 DEF IInv, JournalInv, Up, Recording, At
<1>3. mem.pending.receipts = {}
  BY <1>1 DEF IInv, ControlInv
<1> QED
  BY <1>2, <1>3 DEF Explained

\* With nothing pending and nothing running, every adapter has exactly what was
\* committed.
THEOREM QuietCommitted == Spec => []QuietIsCommitted
<1>1. IInv => QuietIsCommitted
  BY SettledInForce DEF QuietIsCommitted, Settled, FilesAreCommitted
<1> QED
  BY <1>1, Invariance, PTL

\* A recovery that succeeds (RecoverPendingPolicy) leaves the contents of the
\* last commit.
THEOREM RecoveryRestoresCommitted == Spec => RecoveryRestores
<1> DEFINE A == At("recover") /\ proc' = "daemon" /\ op'.pc = "idle" =>
                  \A a \in Adapters \ exempt : file'[a] = committed[a]
<1>1. IInv /\ [Next]_vars => [A]_vars
  <2> SUFFICES ASSUME IInv, Next, At("recover"), proc' = "daemon", op'.pc = "idle",
                      NEW a \in Adapters \ exempt
               PROVE  file'[a] = committed[a]
    BY DEF vars
  <2>1. RecoverEnds
    <3>1. ~UndoOne
      BY DEF UndoOne, At, IInv, TypeOK, Operation
    <3>2. proc # "down" /\ ~At("idle")
      BY DEF At, IInv, ControlInv
    <3> QED
      BY <3>1, <3>2 DEF Next, OperationStep, Start, BeginApply, BeginFails, ApplyAdapter,
        ApplyAdapterFails, RecordReceipt, VerifyAdapter, NextPolicy, VerifySystem, Commit,
        UndoEnds, UninstallEnds, Crash, Exits, StartDaemon, StartCleanup, Recovering, At
  <2>2. op.undo = {} /\ ~op.bad /\ UNCHANGED file
    BY <2>1 DEF RecoverEnds, Exits
  <2>3. (mem.pending.receipts \ op.group) \cup op.undo = {}
    BY <2>2 DEF IInv, HeldInv
  <2>4. Explained(file[a], {}, a, committed[a])
    BY <2>2, <2>3 DEF IInv, UndoInv
  <2> QED
    BY <2>2, <2>4 DEF Explained
<1>2. Spec => [][A]_vars
  BY <1>1, Invariance, PTL DEF Spec
<1> QED
  BY <1>2 DEF RecoveryRestores

\* An uninstall that succeeds (CleanupManagedPolicy) leaves the contents from
\* before the first policy.
THEOREM UninstallRestoresOriginal == Spec => UninstallRestores
<1> DEFINE A == At("uninstall") /\ ~disk'.policy.open /\ disk.policy.open =>
                  \A a \in Adapters \ exempt : file'[a] = Original
<1>1. IInv /\ [Next]_vars => [A]_vars
  <2> SUFFICES ASSUME IInv, Next, At("uninstall"), ~disk'.policy.open, disk.policy.open,
                      NEW a \in Adapters \ exempt
               PROVE  file'[a] = Original
    BY DEF vars
  <2>1. UninstallEnds
    <3>1. proc = "cleanup" /\ ~At("idle")
      BY DEF At, IInv, ControlInv
    <3> QED
      BY <3>1 DEF Next, OperationStep, Start, BeginApply, BeginFails, ApplyAdapter,
        ApplyAdapterFails, RecordReceipt, VerifyAdapter, NextPolicy, VerifySystem, Commit,
        UndoOne, UndoEnds, RecoverEnds, Crash, StartDaemon, StartCleanup, At
  <2>2. op.undo = {} /\ ~op.bad /\ UNCHANGED file
    BY <2>1 DEF UninstallEnds
  <2> QED
    BY <2>2, UninstalledFile
<1>2. Spec => [][A]_vars
  BY <1>1, Invariance, PTL DEF Spec
<1> QED
  BY <1>2 DEF UninstallRestores

-----------------------------------------------------------------------------
(* The plan of an operation *)

\* An operation keeps the policy it was asked for as the last of its plan; the
\* receipts in hand are those of the first of the plan, and there are some once
\* an adapter was applied.  What is committed is the last one.
PlanInv ==
  /\ Planning => op.plan[Len(op.plan)] \in Targets
  /\ At("system") \/ At("commit") => Len(op.plan) = 1
  /\ Between => \A r \in op.result : r.applied = op.plan[1]
  /\ At("adapter") => op.todo # {}
  /\ Between /\ ~At("adapter") => op.result # {}

\* A step of the operation keeps what was asked for, or gives it up.
KeepsPlan == PlanInv' /\ Requested' \in {Requested, {}}

\* The asked policy, while the operation plans.
LEMMA RequestedIs ==
  Requested = IF Planning THEN {op.plan[Len(op.plan)]} ELSE {}
  BY DEF Requested, Planning, Between, At

\* An operation that ends or turns to undoing gives the policy up.
LEMMA GivesUp == ASSUME ~Planning' PROVE KeepsPlan
<1>1. Requested' = {}
  BY DEF Requested, Planning, Between, At
<1>2. ~Between' /\ ~At("adapter")' /\ ~At("system")' /\ ~At("commit")'
  BY DEF Planning, Between
<1> QED
  BY <1>1, <1>2 DEF KeepsPlan, PlanInv

\* Undoing, and what comes after it, is no planning.
LEMMA NotPlanning ==
  ASSUME op'.pc \in {"idle", "undo", "recover", "uninstall"} PROVE ~Planning'
  BY DEF Planning, Between, At

\* A rollback ends the planning.
LEMMA RollbackGivesUp ==
  ASSUME TypeOK,
         \/ op' = rollbackAll(op) \/ op' = RollbackCombined(op)
         \/ op' = RollbackDone(op) /\ op.result = {}
  PROVE  ~Planning'
<1>1. op \in Operation
  BY DEF TypeOK
<1>2. op'.pc \in {"idle", "undo"}
  <2>1. CASE op' = rollbackAll(op)
    BY <1>1, <2>1, RollbackAllFields DEF IsUndoing
  <2>2. CASE op' = RollbackCombined(op)
    BY <1>1, <2>2, RollbackCombinedFields, IdleFields DEF IsUndoing
  <2>3. CASE op' = RollbackDone(op) /\ op.result = {}
    BY <1>1, <2>3, RollbackDoneFields, IdleFields DEF IsUndoing
  <2> QED
    BY <2>1, <2>2, <2>3
<1> QED
  BY <1>2, NotPlanning

\* A step that goes on with the plan keeps what was asked for.
LEMMA SamePlan ==
  ASSUME PlanInv, Planning, op'.plan = op.plan,
         op'.pc \in {"adapter", "record", "verify", "applied", "system", "commit"},
         op'.pc \in {"system", "commit"} => Len(op.plan) = 1,
         \A r \in op'.result : r.applied = op.plan[1],
         IF op'.pc = "adapter" THEN op'.todo # {} ELSE op'.result # {}
  PROVE  KeepsPlan
<1>1. Requested' = Requested
  BY DEF Requested, Planning, Between, At
<1>2. Between' /\ Planning'
  BY DEF Planning, Between, At
<1>3. PlanInv'
  BY <1>2 DEF PlanInv, At
<1> QED
  BY <1>1, <1>3 DEF KeepsPlan

\* The last of a plan is the last of what follows its first.
LEMMA LastOfTail ==
  ASSUME NEW plan \in Seq(Contents), plan # <<>>, Len(plan) # 1
  PROVE  Tail(plan)[Len(Tail(plan))] = plan[Len(plan)]
<1>1. Len(plan) \in Nat /\ Len(plan) # 0
  OBVIOUS
<1>2. Len(plan) > 1
  <2>1. \A n \in Nat : n # 0 /\ n # 1 => n > 1
    OBVIOUS
  <2> HIDE DEF Contents
  <2> QED
    BY <1>1, <2>1, Zenon
<1>3. /\ Len(Tail(plan)) = Len(plan) - 1
      /\ \A i \in 1..(Len(plan) - 1) : Tail(plan)[i] = plan[i + 1]
  BY <1>2
<1>4. Len(plan) - 1 \in 1..(Len(plan) - 1) /\ (Len(plan) - 1) + 1 = Len(plan)
  BY <1>1, <1>2
<1> QED
  BY <1>3, <1>4

\* An operation starts with the policy it is asked for at the end of its plan.
LEMMA StartPlan ==
  ASSUME NEW kind \in Kinds, NEW v \in Targets, Start(kind, v)
  PROVE  PlanInv' /\ Requested' = {v}
<1>1. PICK plan \in PlansFor(kind, v) :
        op' = [Idle EXCEPT !.pc = "begin", !.kind = kind, !.plan = plan]
  BY DEF Start
<1>2. op'.pc = "begin" /\ op'.plan = plan
  BY <1>1 DEF Idle
<1>3. plan[Len(plan)] = v
  <2> DEFINE transition == v \cup mem.policy.nodes
  <2>1. plan = <<v>> \/ plan = <<transition, v>>
    BY <1>1 DEF PlansFor
  <2> HIDE DEF transition
  <2>2. Len(<<v>>) = 1 /\ Len(<<transition, v>>) = 2
    OBVIOUS
  <2> QED
    BY <2>1, <2>2
<1>4. Planning' /\ ~Between'
  BY <1>2 DEF Planning, Between, At
<1>5. PlanInv'
  BY <1>2, <1>3, <1>4 DEF PlanInv, At
<1>6. Requested' = {v}
  BY <1>2, <1>3 DEF Requested
<1> QED
  BY <1>5, <1>6

\* An Apply begins on the active adapters, of which there are some.
LEMMA BeginApplyPlan ==
  ASSUME TypeOK, PlanInv, NEW active \in SUBSET Adapters, BeginApply(active) PROVE KeepsPlan
<1>1. op' = [op EXCEPT !.pc = "adapter", !.todo = active, !.result = {}]
  BY DEF BeginApply
<1>2. op \in Operation /\ Planning /\ active # {}
  BY DEF BeginApply, TypeOK, Planning
<1>3. op'.pc = "adapter" /\ op'.plan = op.plan /\ op'.todo = active /\ op'.result = {}
  BY <1>1, <1>2 DEF Operation
<1> QED
  BY <1>2, <1>3, SamePlan

\* The receipt of an adapter is of the policy that is being applied.
LEMMA ApplyAdapterPlan ==
  ASSUME TypeOK, PlanInv, NEW x \in Adapters, ApplyAdapter(x) PROVE KeepsPlan
<1> DEFINE r == [id |-> issued', adapter |-> x, previous |-> file[x], applied |-> op.plan[1]]
<1>1. op' = [op EXCEPT !.pc = "record", !.todo = @ \ {x}, !.result = @ \cup {r}]
  BY DEF ApplyAdapter
<1>2. op \in Operation /\ Planning /\ Between
  BY DEF ApplyAdapter, TypeOK, Planning, Between
<1>3. r.applied = op.plan[1]
  OBVIOUS
<1> HIDE DEF r
<1>4. op'.pc = "record" /\ op'.plan = op.plan /\ op'.result = op.result \cup {r}
  BY <1>1, <1>2 DEF Operation
<1>5. \A q \in op'.result : q.applied = op.plan[1]
  BY <1>2, <1>3, <1>4 DEF PlanInv
<1> QED
  BY <1>2, <1>4, <1>5, SamePlan

\* Recording a receipt changes no plan; a failed write gives it up.
LEMMA RecordReceiptPlan == ASSUME TypeOK, PlanInv, RecordReceipt PROVE KeepsPlan
<1>1. op \in Operation /\ Planning /\ Between /\ ~At("adapter")
  BY DEF RecordReceipt, TypeOK, Planning, Between, At
<1>2. CASE op' = [op EXCEPT !.pc = "verify"]
  <2>1. op'.pc = "verify" /\ op'.plan = op.plan /\ op'.result = op.result
    BY <1>1, <1>2 DEF Operation
  <2>2. op'.result # {} /\ \A r \in op'.result : r.applied = op.plan[1]
    BY <1>1, <2>1 DEF PlanInv
  <2> QED
    BY <1>1, <2>1, <2>2, SamePlan
<1>3. CASE op' = rollbackAll(op)
  BY <1>3, RollbackGivesUp, GivesUp
<1> QED
  BY <1>2, <1>3 DEF RecordReceipt

\* The next adapter is applied while there is one.
LEMMA VerifyAdapterPlan == ASSUME TypeOK, PlanInv, VerifyAdapter PROVE KeepsPlan
<1>1. op \in Operation /\ Planning /\ Between /\ ~At("adapter")
  BY DEF VerifyAdapter, TypeOK, Planning, Between, At
<1>2. CASE op' = [op EXCEPT !.pc = IF op.todo = {} THEN "applied" ELSE "adapter"]
  <2>1. /\ op'.pc = IF op.todo = {} THEN "applied" ELSE "adapter"
        /\ op'.plan = op.plan /\ op'.result = op.result /\ op'.todo = op.todo
    BY <1>1, <1>2 DEF Operation
  <2>2. op'.result # {} /\ \A r \in op'.result : r.applied = op.plan[1]
    BY <1>1, <2>1 DEF PlanInv
  <2> QED
    BY <1>1, <2>1, <2>2, SamePlan
<1>3. CASE op' = rollbackAll(op)
  BY <1>3, RollbackGivesUp, GivesUp
<1> QED
  BY <1>2, <1>3 DEF VerifyAdapter

\* The transition gives way to the final policy, and only that is verified.
LEMMA NextPolicyPlan == ASSUME IInv, PlanInv, NextPolicy PROVE KeepsPlan
<1>1. op \in Operation /\ Planning /\ Between /\ ~At("adapter")
  BY DEF NextPolicy, IInv, TypeOK, Planning, Between, At
<1>2. op.plan # <<>> /\ op.plan \in Seq(Contents)
  BY <1>1 DEF IInv, ControlInv, Operation
<1>3. CASE Len(op.plan) = 1 /\ op' = [op EXCEPT !.pc = "system"]
  <2>1. op'.pc = "system" /\ op'.plan = op.plan /\ op'.result = op.result
    BY <1>1, <1>3 DEF Operation
  <2>2. op'.result # {} /\ \A r \in op'.result : r.applied = op.plan[1]
    BY <1>1, <2>1 DEF PlanInv
  <2> QED
    BY <1>1, <1>3, <2>1, <2>2, SamePlan
<1>4. CASE /\ Len(op.plan) # 1
           /\ op' = [op EXCEPT !.pc = "begin", !.plan = Tail(@), !.done = op.result, !.result = {}]
  <2>1. op'.pc = "begin" /\ op'.plan = Tail(op.plan)
    BY <1>1, <1>4 DEF Operation
  <2>2. op'.plan[Len(op'.plan)] = op.plan[Len(op.plan)]
    BY <1>2, <1>4, <2>1, LastOfTail
  <2>3. Planning' /\ ~Between'
    BY <2>1 DEF Planning, Between, At
  <2>4. PlanInv'
    BY <1>1, <2>1, <2>2, <2>3 DEF PlanInv, At
  <2>5. Requested' = {op'.plan[Len(op'.plan)]}
    BY <2>1 DEF Requested
  <2>6. Requested = {op.plan[Len(op.plan)]}
    BY <1>1, RequestedIs
  <2> QED
    BY <2>2, <2>4, <2>5, <2>6 DEF KeepsPlan
<1> QED
  BY <1>3, <1>4 DEF NextPolicy

\* The operation commits after the last policy of its plan.
LEMMA VerifySystemPlan == ASSUME TypeOK, PlanInv, VerifySystem PROVE KeepsPlan
<1>1. op \in Operation /\ Planning /\ Between /\ ~At("adapter")
  BY DEF VerifySystem, TypeOK, Planning, Between, At
<1>2. CASE op' = [op EXCEPT !.pc = "commit"]
  <2>1. op'.pc = "commit" /\ op'.plan = op.plan /\ op'.result = op.result
    BY <1>1, <1>2 DEF Operation
  <2>2. /\ op'.result # {} /\ \A r \in op'.result : r.applied = op.plan[1]
        /\ Len(op.plan) = 1
    BY <1>1, <2>1 DEF PlanInv, VerifySystem
  <2> QED
    BY <1>1, <2>1, <2>2, SamePlan
<1>3. CASE op' = RollbackCombined(op)
  BY <1>3, RollbackGivesUp, GivesUp
<1> QED
  BY <1>2, <1>3 DEF VerifySystem

\* Steps that fail, commit, undo or end a process leave nothing asked for.
LEMMA OtherPlan ==
  ASSUME IInv,
         \/ BeginFails \/ \E a \in Adapters : ApplyAdapterFails(a)
         \/ Commit \/ UndoOne \/ UndoEnds \/ RecoverEnds \/ UninstallEnds
         \/ Crash \/ StartDaemon \/ StartCleanup
  PROVE  KeepsPlan
<1>1. TypeOK /\ op \in Operation
  BY DEF IInv, TypeOK
<1>2. CASE BeginFails \/ UndoEnds
  <2>1. op.result = {}
    BY <1>2 DEF BeginFails, UndoEnds, At, IInv, ControlInv, Between
  <2> QED
    BY <1>1, <1>2, <2>1, RollbackGivesUp, GivesUp DEF BeginFails, UndoEnds
<1>3. CASE \E a \in Adapters : ApplyAdapterFails(a)
  BY <1>1, <1>3, RollbackGivesUp, GivesUp DEF ApplyAdapterFails
<1>4. CASE Commit
  <2>1. CASE op' = Idle
    BY <2>1, IdleFields, NotPlanning, GivesUp
  <2>2. CASE op' = RollbackCombined(op)
    BY <1>1, <2>2, RollbackGivesUp, GivesUp
  <2> QED
    BY <1>4, <2>1, <2>2 DEF Commit
<1>5. CASE UndoOne
  <2>1. op'.pc = op.pc /\ op.pc \in {"undo", "recover", "uninstall"}
    BY <1>1, <1>5 DEF UndoOne, Operation
  <2> QED
    BY <2>1, NotPlanning, GivesUp
<1>6. CASE RecoverEnds \/ UninstallEnds \/ Crash \/ StartDaemon \/ StartCleanup
  <2>1. op'.pc \in {"idle", "recover", "uninstall"}
    BY <1>6, IdleFields DEF RecoverEnds, UninstallEnds, Crash, StartDaemon, StartCleanup,
      Recovering, Exits, Idle
  <2> QED
    BY <2>1, NotPlanning, GivesUp
<1> QED
  BY <1>2, <1>3, <1>4, <1>5, <1>6

\* Every step but the start of an operation keeps what was asked for.
StepPlanned ==
  \/ \E kind \in Kinds, v \in Targets : Start(kind, v) /\ PlanInv'
  \/ KeepsPlan

\* Every step of the specification is one of them.
LEMMA StepPlan == ASSUME IInv, PlanInv, Next PROVE StepPlanned
<1>1. CASE \E kind \in Kinds, v \in Targets : Start(kind, v)
  BY <1>1, StartPlan DEF StepPlanned
<1>2. CASE \/ \E active \in SUBSET Adapters : BeginApply(active)
           \/ \E a \in Adapters : ApplyAdapter(a)
           \/ RecordReceipt \/ VerifyAdapter \/ NextPolicy \/ VerifySystem
  <2>1. TypeOK
    BY DEF IInv
  <2> QED
    BY <1>2, <2>1, BeginApplyPlan, ApplyAdapterPlan, RecordReceiptPlan, VerifyAdapterPlan,
       NextPolicyPlan, VerifySystemPlan DEF StepPlanned
<1>3. CASE \/ BeginFails \/ \E a \in Adapters : ApplyAdapterFails(a)
           \/ Commit \/ UndoOne \/ UndoEnds \/ RecoverEnds \/ UninstallEnds
           \/ Crash \/ StartDaemon \/ StartCleanup
  BY <1>3, OtherPlan DEF StepPlanned
<1> QED
  BY <1>1, <1>2, <1>3 DEF Next, OperationStep

\* The plan's invariant holds beside IInv.
LEMMA PlanInvariance == Spec => []PlanInv
<1>1. Init => PlanInv
  BY IdleFields DEF Init, PlanInv, Planning, Between, At
<1>2. IInv /\ PlanInv /\ [Next]_vars => PlanInv'
  <2> SUFFICES ASSUME IInv, PlanInv, [Next]_vars PROVE PlanInv'
    OBVIOUS
  <2>1. CASE Next
    BY <2>1, StepPlan DEF StepPlanned, KeepsPlan
  <2>2. CASE UNCHANGED vars
    BY <2>2 DEF vars, PlanInv, Planning, Between, At
  <2> QED
    BY <2>1, <2>2
<1> QED
  BY <1>1, <1>2, Invariance, PTL DEF Spec

-----------------------------------------------------------------------------
(* PolicyTransaction implements AtomicPolicy *)

\* The same after a step.
LEMMA SettlesInForce == IInv' /\ Settled' => FilesAreCommitted'
  BY SettledInForce, PTL

\* Nothing is asked for between operations.
LEMMA NothingAsked ==
  ASSUME op.pc \in {"idle", "undo", "recover", "uninstall"} PROVE Requested = {}
  BY DEF Requested

\* A step from an unsettled state that commits nothing works or settles.
LEMMA WorksOrSettles ==
  ASSUME IInv', ~Settled, Requested' \in {Requested, {}}, UNCHANGED committed,
         exempt \subseteq exempt'
  PROVE  Atomic!Work \/ Atomic!Settle
<1>1. file' \in [Adapters -> Contents] /\ Adapters \ exempt' \subseteq Adapters \ exempt
  BY DEF IInv, TypeOK
<1>2. CASE ~Settled'
  BY <1>1, <1>2 DEF Atomic!Work
<1>3. CASE Settled'
  <2>1. \A a \in Adapters \ exempt' : file'[a] = committed'[a]
    BY <1>3, SettlesInForce DEF FilesAreCommitted
  <2>2. Requested' = {}
    BY <1>3 DEF Settled, Requested, At
  <2> QED
    BY <1>1, <1>3, <2>1, <2>2 DEF Atomic!Settle, Atomic!InForce
<1> QED
  BY <1>2, <1>3

\* An operation asks for a policy.
LEMMA StartAsks ==
  ASSUME NEW kind \in Kinds, NEW v \in Targets, Start(kind, v) PROVE Atomic!Ask(v)
<1>1. Requested = {} /\ Requested' = {v}
  BY StartPlan, NothingAsked DEF Start, At
<1>2. UNCHANGED <<file, committed, exempt>>
  BY DEF Start
<1>3. op'.pc = "begin"
  BY DEF Start, Idle
<1>4. ~Settled'
  BY <1>3 DEF Settled, At
<1> QED
  BY <1>1, <1>2, <1>4 DEF Atomic!Ask

\* From a settled state only a start, a crash and a cleanup go on.
LEMMA SettledSteps ==
  ASSUME Settled, Next
  PROVE  (\E kind \in Kinds, v \in Targets : Start(kind, v)) \/ Crash \/ StartCleanup
<1>1. proc = "daemon" /\ op.pc = "idle"
  BY DEF Settled, At
<1> QED
  BY <1>1 DEF Next, OperationStep, BeginApply, BeginFails, ApplyAdapter, ApplyAdapterFails,
    RecordReceipt, VerifyAdapter, NextPolicy, VerifySystem, Commit, UndoOne, UndoEnds,
    RecoverEnds, UninstallEnds, StartDaemon, At

\* A crash and a cleanup of a settled daemon change no file and trust no less.
LEMMA Interrupts ==
  ASSUME IInv, Settled, Crash \/ StartCleanup PROVE Atomic!Interrupt
<1>1. op.pc = "idle"
  BY DEF Settled, At
<1>2. Unrecorded = {} /\ PartlyUninstalled = {}
  BY <1>1 DEF Unrecorded, PartlyUninstalled, At
<1>3. UNCHANGED <<file, committed, exempt>>
  BY <1>2 DEF Crash, StartCleanup
<1>4. proc' # "daemon" /\ op'.pc \in {"idle", "recover"}
  BY IdleFields DEF Crash, Exits, StartCleanup, Recovering, Idle
<1>5. Requested = {} /\ Requested' = {}
  BY <1>1, <1>4 DEF Requested
<1>6. ~Settled'
  BY <1>4 DEF Settled
<1> QED
  BY <1>3, <1>5, <1>6 DEF Atomic!Interrupt

\* A commit puts exactly what was asked for in force, where the last Apply
\* reached.
LEMMA CommitCommits ==
  ASSUME IInv, PlanInv, IInv', KeepsPlan, Commit,
         committed' = [a \in Adapters |-> IF a \in Touched THEN file[a] ELSE committed[a]],
         op' = Idle, exempt \subseteq exempt'
  PROVE  \E on \in SUBSET Adapters : Atomic!Commit(on)
<1> DEFINE v == op.plan[1]
<1>1. /\ At("commit") /\ Between /\ Planning /\ UNCHANGED file
      /\ op.result \in SUBSET Receipt
  BY Fields DEF Commit, Between, Planning, IInv
<1>2. Len(op.plan) = 1 /\ op.result # {} /\ v \in Targets
  BY <1>1 DEF PlanInv, At
<1>3. \A r \in op.result : r.adapter \in Adapters /\ file[r.adapter] = v
  BY <1>1, Fields DEF PlanInv, IInv, FilesInv
<1>4. Requested = {v} /\ Requested' = {}
  <2>1. Requested = {v}
    BY <1>1, <1>2, RequestedIs
  <2>2. op'.pc = "idle"
    BY IdleFields
  <2> QED
    BY <2>1, <2>2 DEF Requested
<1> HIDE DEF v
<1>5. Touched \in SUBSET Adapters /\ Touched # {} /\ \A a \in Touched : file[a] = v
  BY <1>2, <1>3 DEF Touched
<1>6. committed' = [a \in Adapters |-> IF a \in Touched THEN v ELSE committed[a]]
  BY <1>5
<1>7. ~Settled
  BY <1>1 DEF Settled, At
<1>8. Settled' => \A a \in Adapters \ exempt' : file'[a] = committed'[a]
  BY SettlesInForce DEF FilesAreCommitted
<1>9. Atomic!Commit(Touched)
  <2>1. Adapters \ exempt' \subseteq Adapters \ exempt /\ Settled' \in BOOLEAN
    BY DEF Settled
  <2> QED
    BY <1>1, <1>2, <1>4, <1>5, <1>6, <1>7, <1>8, <2>1 DEF Atomic!Commit, Atomic!InForce
<1> QED
  BY <1>5, <1>9

\* An uninstall that succeeds removes everything.
LEMMA UninstallRemoves ==
  ASSUME IInv, UninstallEnds, ~op.bad, committed' = [a \in Adapters |-> Original],
         UNCHANGED exempt
  PROVE  Atomic!Remove
<1>1. At("uninstall") /\ op.undo = {} /\ UNCHANGED file /\ proc' = "down" /\ op' = Idle
  BY DEF UninstallEnds, Exits
<1>2. \A a \in Adapters \ exempt : file[a] = Original
  BY <1>1, UninstalledFile
<1>3. Requested = {} /\ Requested' = {} /\ ~Settled /\ ~Settled'
  BY <1>1, IdleFields DEF Requested, Settled, At
<1> QED
  BY <1>1, <1>2, <1>3 DEF Atomic!Remove, Atomic!Everywhere, Atomic!InForce

\* Every step is a step of AtomicPolicy.
LEMMA StepRefines ==
  ASSUME IInv, PlanInv, Next, IInv' PROVE Atomic!Next
<1> DEFINE Commits == /\ Commit /\ op' = Idle
                      /\ committed' = [a \in Adapters |-> IF a \in Touched THEN file[a] ELSE committed[a]]
           Removes == /\ UninstallEnds /\ ~op.bad /\ UNCHANGED exempt
                      /\ committed' = [a \in Adapters |-> Original]
<1>1. \/ Commits \/ Removes \/ UNCHANGED committed
  BY DEF Next, OperationStep, Start, BeginApply, BeginFails, ApplyAdapter, ApplyAdapterFails,
    RecordReceipt, VerifyAdapter, NextPolicy, VerifySystem, Commit, UndoOne, UndoEnds,
    RecoverEnds, UninstallEnds, Crash, StartDaemon, StartCleanup
<1>2. exempt \subseteq exempt'
  BY DEF Next, OperationStep, Start, BeginApply, BeginFails, ApplyAdapter, ApplyAdapterFails,
    RecordReceipt, VerifyAdapter, NextPolicy, VerifySystem, Commit, UndoOne, UndoEnds,
    RecoverEnds, UninstallEnds, Crash, StartDaemon, StartCleanup
<1>3. StepPlanned
  BY StepPlan
<1>4. CASE \E kind \in Kinds, v \in Targets : Start(kind, v)
  BY <1>4, StartAsks DEF Atomic!Next
<1>5. CASE ~\E kind \in Kinds, v \in Targets : Start(kind, v)
  <2>1. KeepsPlan
    BY <1>3, <1>5 DEF StepPlanned
  <2>2. CASE Commits
    BY <1>2, <2>1, <2>2, CommitCommits DEF Atomic!Next
  <2>3. CASE Removes
    BY <2>3, UninstallRemoves DEF Atomic!Next
  <2>4. CASE UNCHANGED committed /\ Settled
    BY <1>5, <2>4, SettledSteps, Interrupts DEF Atomic!Next
  <2>5. CASE UNCHANGED committed /\ ~Settled
    BY <1>2, <2>1, <2>5, WorksOrSettles DEF Atomic!Next, KeepsPlan
  <2> QED
    BY <1>1, <2>2, <2>3, <2>4, <2>5
<1> QED
  BY <1>4, <1>5

\* The coordinator, the journal, the recovery and the uninstaller implement
\* AtomicPolicy: whatever fails and wherever the process dies, a policy comes
\* into force exactly as asked on adapters that have it, or leaves nothing
\* behind once the daemon is settled (proxy.Coordinator, policy_journal.go).
THEOREM PolicyImplementsAtomic == Spec => ImplementsAtomicPolicy
<1>1. Init => Atomic!Init
  <2> SUFFICES ASSUME Init PROVE Atomic!Init
    OBVIOUS
  <2>1. op.pc = "idle" /\ proc = "daemon" /\ ~mem.pending.open
    BY IdleFields DEF Init, EmptyStore, Closed
  <2>2. Requested = {} /\ Settled
    BY <2>1 DEF Requested, Settled, At
  <2> QED
    BY <2>2 DEF Init, Atomic!Init, Atomic!Everywhere
<1>2. IInv /\ PlanInv /\ IInv' /\ [Next]_vars => [Atomic!Next]_(Atomic!vars)
  <2> SUFFICES ASSUME IInv, PlanInv, IInv', [Next]_vars
               PROVE  Atomic!Next \/ UNCHANGED Atomic!vars
    BY DEF Atomic!vars
  <2>1. CASE Next
    BY <2>1, StepRefines
  <2>2. CASE UNCHANGED vars
    BY <2>2 DEF vars, Atomic!vars, Requested, Settled, At
  <2> QED
    BY <2>1, <2>2
<1> QED
  BY <1>1, <1>2, Invariance, PlanInvariance, PTL DEF Spec, ImplementsAtomicPolicy, Atomic!Spec
=============================================================================
