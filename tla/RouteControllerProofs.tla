------------------------ MODULE RouteControllerProofs ------------------------
(***************************************************************************)
(* Safety of the route transactions, for every set of prefixes and         *)
(* gateways, every initial table, every kind of failing call and every     *)
(* number of transactions, failures and crashes.                           *)
(*                                                                         *)
(* ChangesAreJournaled is not inductive: that recovery finds a transaction *)
(* to undo says nothing of what undoing it brings back.  IInv adds         *)
(*   - Restorable, of the file and, at every step of a running daemon and  *)
(*     not only when idle, of the memory: a table that holds a route       *)
(*     nobody was promised has an unfinished transaction to undo, and what *)
(*     each unfinished transaction puts back was promised, so that any     *)
(*     write of the journal keeps what the file has to cover;              *)
(*   - CurrentTransaction: an operation works on the only unfinished       *)
(*     transaction of its prefix, the file knows that transaction, and the *)
(*     table has the route that the operation believes it has set;         *)
(*   - FileIsOlder: the file is an earlier state of the same journal;      *)
(*   - RecoveredSoFar: a recovery without an error has finished everything *)
(*     up to the transaction it is at.                                     *)
(***************************************************************************)
EXTENDS RouteController, TLAPS

Restorable(journal) ==
  \A p \in Prefixes \ exempt :
    /\ table[p] \notin accepted[p] => OwedOn(journal, p)
    /\ \A i \in Owed(journal, p) : journal[i].previous \in accepted[p]

PlannedSteps == {"replace", "undo_replace", "mark", "delete", "mark_deleted"}
AppliedSteps == {"verify", "undo_mark", "undo_verify", "check_deleted"}

CurrentTransaction ==
  pc \in PlannedSteps \cup AppliedSteps =>
    /\ cur \in DOMAIN mem
    /\ Txn.prefix \notin exempt => Owed(mem, Txn.prefix) \subseteq {cur}
    /\ Txn.state = IF pc \in PlannedSteps THEN "planned" ELSE "applied"
    /\ IF pc = "undo_mark" THEN cur \in Owed(disk, Txn.prefix) ELSE disk = mem
    /\ pc \in {"mark", "verify"} => table[Txn.prefix] = Txn.route
    /\ pc \in {"mark_deleted", "check_deleted"} => table[Txn.prefix] = NoRoute
    /\ pc \in {"delete", "mark_deleted", "check_deleted"} => ~Txn.temporary

FileIsOlder ==
  up => /\ Len(disk) <= Len(mem)
        /\ \A i \in DOMAIN disk : disk[i].previous = mem[i].previous

RecoveredSoFar ==
  pc = "recover" /\ ~failed => \A j \in 1..cur : ~transactionNeedsRecovery(mem[j])

IInv ==
  /\ TypeOK
  /\ Restorable(disk)
  /\ up => Restorable(mem)
  /\ CurrentTransaction /\ FileIsOlder /\ RecoveredSoFar

-----------------------------------------------------------------------------
(* Journals: what appending a transaction and setting its state leave alone *)

\* Only the state of one transaction changes.
LEMMA StateUpdate ==
  ASSUME NEW journal \in Seq(Transaction), WellFormed(journal),
         NEW i \in DOMAIN journal, NEW s \in States
  PROVE  LET next == [journal EXCEPT ![i].state = s] IN
         /\ next \in Seq(Transaction) /\ WellFormed(next)
         /\ Len(next) = Len(journal) /\ DOMAIN next = DOMAIN journal
         /\ \A j \in DOMAIN journal \ {i} : next[j] = journal[j]
         /\ next[i].state = s
         /\ next[i].prefix = journal[i].prefix /\ next[i].route = journal[i].route
         /\ next[i].previous = journal[i].previous
         /\ next[i].temporary = journal[i].temporary
<1> DEFINE new == [journal[i] EXCEPT !.state = s]
           next == [journal EXCEPT ![i].state = s]
<1>1. journal[i] \in Transaction
  OBVIOUS
<1>2. /\ new \in Transaction /\ new.state = s
      /\ new.operation = journal[i].operation
      /\ new.prefix = journal[i].prefix /\ new.route = journal[i].route
      /\ new.previous = journal[i].previous /\ new.temporary = journal[i].temporary
  BY <1>1, SMT DEF Transaction
<1>3. next = [journal EXCEPT ![i] = new]
  OBVIOUS
<1> HIDE DEF new
<1>4. /\ next \in Seq(Transaction)
      /\ Len(next) = Len(journal) /\ DOMAIN next = DOMAIN journal
      /\ \A j \in DOMAIN journal \ {i} : next[j] = journal[j]
      /\ next[i] = new
  BY <1>2, <1>3
<1>5. WellFormed(next)
  BY <1>2, <1>4 DEF WellFormed
<1> QED
  BY <1>2, <1>4, <1>5

\* The unfinished transactions of every prefix, but for that one.
LEMMA OwedUpdate ==
  ASSUME NEW journal \in Seq(Transaction), WellFormed(journal),
         NEW i \in DOMAIN journal, NEW s \in States
  PROVE  LET next == [journal EXCEPT ![i].state = s]
             p == journal[i].prefix IN
         /\ \A q : Owed(next, q) \subseteq DOMAIN journal
         /\ \A q : q # p => Owed(next, q) = Owed(journal, q)
         /\ transactionNeedsRecovery(next[i]) => Owed(next, p) = Owed(journal, p) \cup {i}
         /\ ~transactionNeedsRecovery(next[i]) => Owed(next, p) = Owed(journal, p) \ {i}
<1> DEFINE next == [journal EXCEPT ![i].state = s]
           p == journal[i].prefix
<1>1. /\ DOMAIN next = DOMAIN journal /\ next[i].prefix = p
      /\ \A j \in DOMAIN journal \ {i} : next[j] = journal[j]
  BY StateUpdate
<1> HIDE DEF next
<1> QED
  BY <1>1 DEF Owed, next

\* What a step that sets the state of transaction i keeps.
OnlyStateSet(i, s) ==
  /\ mem' \in Seq(Transaction) /\ WellFormed(mem')
  /\ Len(mem') = Len(mem) /\ DOMAIN mem' = DOMAIN mem
  /\ \A j \in DOMAIN mem : mem'[j].previous = mem[j].previous
  /\ \A j \in DOMAIN mem \ {i} : mem'[j] = mem[j]
  /\ mem'[i].state = s /\ mem'[i].prefix = mem[i].prefix
  /\ mem'[i].route = mem[i].route /\ mem'[i].temporary = mem[i].temporary
  /\ \A q : Owed(mem', q) \subseteq DOMAIN mem
  /\ \A q : q # mem[i].prefix => Owed(mem', q) = Owed(mem, q)
  /\ transactionNeedsRecovery(mem'[i]) =>
       Owed(mem', mem[i].prefix) = Owed(mem, mem[i].prefix) \cup {i}
  /\ ~transactionNeedsRecovery(mem'[i]) =>
       Owed(mem', mem[i].prefix) = Owed(mem, mem[i].prefix) \ {i}

LEMMA JournalUpdate ==
  ASSUME TypeOK, NEW i \in DOMAIN mem, NEW s \in States, mem' = [mem EXCEPT ![i].state = s]
  PROVE  OnlyStateSet(i, s)
<1> DEFINE next == [mem EXCEPT ![i].state = s]
<1>1. mem \in Seq(Transaction) /\ WellFormed(mem)
  BY DEF TypeOK
<1>2. /\ next \in Seq(Transaction) /\ WellFormed(next)
      /\ Len(next) = Len(mem) /\ DOMAIN next = DOMAIN mem
      /\ \A j \in DOMAIN mem \ {i} : next[j] = mem[j]
      /\ next[i].state = s
      /\ next[i].prefix = mem[i].prefix /\ next[i].route = mem[i].route
      /\ next[i].previous = mem[i].previous
      /\ next[i].temporary = mem[i].temporary
  BY <1>1, StateUpdate
<1>3. /\ \A q : Owed(next, q) \subseteq DOMAIN mem
      /\ \A q : q # mem[i].prefix => Owed(next, q) = Owed(mem, q)
      /\ transactionNeedsRecovery(next[i]) =>
           Owed(next, mem[i].prefix) = Owed(mem, mem[i].prefix) \cup {i}
      /\ ~transactionNeedsRecovery(next[i]) =>
           Owed(next, mem[i].prefix) = Owed(mem, mem[i].prefix) \ {i}
  BY <1>1, OwedUpdate
<1> HIDE DEF next
<1>4. mem' = next
  BY DEF next
<1> QED
  BY <1>2, <1>3, <1>4 DEF OnlyStateSet

LEMMA Appended ==
  ASSUME NEW journal \in Seq(Transaction), WellFormed(journal),
         NEW t \in Transaction, t.state = "planned",
         IF t.operation = "replace" THEN t.route # NoRoute
         ELSE t.previous # NoRoute /\ ~t.temporary,
         NEW p
  PROVE  LET next == Append(journal, t) IN
         /\ next \in Seq(Transaction) /\ WellFormed(next)
         /\ Len(next) = Len(journal) + 1 /\ Len(next) \in DOMAIN next
         /\ DOMAIN journal \subseteq DOMAIN next
         /\ next[Len(next)] = t
         /\ \A j \in DOMAIN journal : next[j] = journal[j]
         /\ Owed(next, p) = Owed(journal, p) \cup (IF t.prefix = p THEN {Len(next)} ELSE {})
<1> DEFINE next == Append(journal, t)
<1>1. /\ next \in Seq(Transaction)
      /\ Len(next) = Len(journal) + 1 /\ Len(next) \in DOMAIN next
      /\ DOMAIN next = DOMAIN journal \cup {Len(next)}
      /\ next[Len(next)] = t
      /\ \A j \in DOMAIN journal : next[j] = journal[j]
  OBVIOUS
<1>2. WellFormed(next)
  BY <1>1 DEF WellFormed
<1>3. Owed(next, p) = Owed(journal, p) \cup (IF t.prefix = p THEN {Len(next)} ELSE {})
  BY <1>1 DEF Owed, transactionNeedsRecovery
<1> QED
  BY <1>1, <1>2, <1>3

LEMMA InitIInv == Init => IInv
<1> SUFFICES ASSUME Init PROVE IInv
  OBVIOUS
<1>1. TypeOK
  <2>1. <<>> \in Seq(Transaction) /\ Len(<<>>) = 0 /\ WellFormed(<<>>)
    BY DEF WellFormed
  <2>2. table \in [Prefixes -> Values]
    BY InitialTableType DEF Init, Values
  <2>3. accepted \in [Prefixes -> SUBSET Values]
    BY <2>2 DEF Init
  <2>4. cur \in 0..Len(mem)
    BY <2>1 DEF Init
  <2>5. /\ up \in BOOLEAN /\ failed \in BOOLEAN
        /\ exempt \subseteq Prefixes /\ plans \subseteq ChangePlan
    BY DEF Init
  <2>6. mem \in Seq(Transaction) /\ disk \in Seq(Transaction) /\ WellFormed(mem) /\ WellFormed(disk)
    BY <2>1 DEF Init
  <2> QED
    BY <2>2, <2>3, <2>4, <2>5, <2>6 DEF TypeOK
<1>2. Restorable(disk) /\ Restorable(mem)
  BY InitialTableType DEF Init, Restorable, Owed
<1>3. CurrentTransaction /\ FileIsOlder /\ RecoveredSoFar
  BY DEF Init, CurrentTransaction, FileIsOlder, RecoveredSoFar, PlannedSteps, AppliedSteps
<1> QED
  BY <1>1, <1>2, <1>3 DEF IInv

-----------------------------------------------------------------------------
(* The calls to the system and to the journal's file *)

LEMMA ChangeSets ==
  ASSUME NEW p \in Prefixes, NEW v \in Values, NEW ok \in BOOLEAN,
         table \in [Prefixes -> Values], change(p, v, ok)
  PROVE  /\ table' \in [Prefixes -> Values]
         /\ \A q \in Prefixes \ {p} : table'[q] = table[q]
         /\ table'[p] = v \/ (~ok /\ table'[p] = table[p])
  BY DEF change, MaybeSet

LEMMA RollbackRestores ==
  ASSUME NEW t \in Transaction, NEW ok \in BOOLEAN,
         table \in [Prefixes -> Values], rollback(t, ok)
  PROVE  /\ table' \in [Prefixes -> Values]
         /\ \A q \in Prefixes \ {t.prefix} : table'[q] = table[q]
         /\ table'[t.prefix] = t.previous \/ (~ok /\ table'[t.prefix] = table[t.prefix])
  BY DEF rollback, MaybeSet, Transaction

LEMMA PersistWrites ==
  ASSUME NEW ok \in BOOLEAN, persist(ok)
  PROVE  disk' = mem' \/ (~ok /\ disk' = disk)
  BY DEF persist

-----------------------------------------------------------------------------
(* Apply *)

LEMMA ReplaceRouteKeeps ==
  ASSUME IInv, ReplaceRoute
  PROVE  IInv'
<1> USE DEF IInv
<1>1. /\ Txn \in Transaction /\ cur \in DOMAIN mem
      /\ up /\ pc = "replace" /\ disk = mem /\ cur \in Owed(mem, Txn.prefix)
  BY DEF ReplaceRoute, At, CurrentTransaction, PlannedSteps, TypeOK, Txn, Owed,
         transactionNeedsRecovery
<1>2. /\ table' \in [Prefixes -> Values]
      /\ \A q \in Prefixes \ {Txn.prefix} : table'[q] = table[q]
      /\ (pc' = "mark" /\ table'[Txn.prefix] = Txn.route) \/ pc' = "undo_replace"
  BY <1>1, ChangeSets DEF ReplaceRoute, TypeOK, Transaction
<1>3. UNCHANGED <<plans, mem, disk, up, cur, failed, crashes, accepted, exempt>>
  BY DEF ReplaceRoute
<1>4. TypeOK'
  BY <1>2, <1>3 DEF TypeOK
<1>5. Restorable(disk)' /\ Restorable(mem)'
  BY <1>1, <1>2, <1>3 DEF Restorable, OwedOn, Owed
<1>6. CurrentTransaction'
  BY <1>1, <1>2, <1>3 DEF CurrentTransaction, Txn, PlannedSteps, AppliedSteps, Owed
<1>7. FileIsOlder' /\ RecoveredSoFar'
  BY <1>2, <1>3 DEF FileIsOlder, RecoveredSoFar
<1> QED
  BY <1>4, <1>5, <1>6, <1>7

LEMMA UndoReplaceKeeps ==
  ASSUME IInv, UndoReplace
  PROVE  IInv'
<1> USE DEF IInv
<1>1. /\ Txn \in Transaction /\ cur \in DOMAIN mem /\ mem \in Seq(Transaction) /\ WellFormed(mem)
      /\ up /\ pc = "undo_replace" /\ disk = mem /\ cur \in Owed(mem, Txn.prefix)
  BY DEF UndoReplace, At, CurrentTransaction, PlannedSteps, TypeOK, Txn, Owed,
         transactionNeedsRecovery
<1>2. PICK s \in {"rolled_back", "rollback_failed"} :
        /\ SetState(s)
        /\ table' \in [Prefixes -> Values]
        /\ \A q \in Prefixes \ {Txn.prefix} : table'[q] = table[q]
        /\ \/ table'[Txn.prefix] = Txn.previous
           \/ s = "rollback_failed" /\ table'[Txn.prefix] = table[Txn.prefix]
  BY <1>1, RollbackRestores DEF UndoReplace, TypeOK
<1>3. UNCHANGED <<plans, disk, up, cur, failed, crashes, accepted, exempt>> /\ pc' = "close"
  BY DEF UndoReplace
<1>4. OnlyStateSet(cur, s)
  BY <1>1, <1>2, JournalUpdate DEF SetState, States
<1>5. TypeOK'
  BY <1>2, <1>3, <1>4 DEF TypeOK, OnlyStateSet
<1>6. Restorable(disk)'
  BY <1>1, <1>2, <1>3 DEF Restorable, OwedOn, Owed
<1>7. Restorable(mem)'
  <2> SUFFICES ASSUME NEW p \in Prefixes \ exempt
               PROVE  /\ table'[p] \notin accepted[p] => Owed(mem', p) # {}
                      /\ \A i \in Owed(mem', p) : mem'[i].previous \in accepted[p]
    BY <1>3 DEF Restorable, OwedOn
  <2>1. CASE p = Txn.prefix
    BY <2>1, <1>1, <1>2, <1>4 DEF Restorable, OwedOn, Txn, OnlyStateSet, transactionNeedsRecovery
  <2>2. CASE p # Txn.prefix
    BY <2>2, <1>1, <1>2, <1>4 DEF Restorable, OwedOn, OnlyStateSet, Txn
  <2> QED
    BY <2>1, <2>2
<1>8. CurrentTransaction' /\ FileIsOlder' /\ RecoveredSoFar'
  BY <1>1, <1>3, <1>4 DEF CurrentTransaction, PlannedSteps, AppliedSteps, FileIsOlder, RecoveredSoFar,
     OnlyStateSet
<1> QED
  BY <1>5, <1>6, <1>7, <1>8

LEMMA MarkAppliedKeeps ==
  ASSUME IInv, MarkApplied
  PROVE  IInv'
<1> USE DEF IInv
<1>1. /\ Txn \in Transaction /\ cur \in DOMAIN mem /\ Txn.state = "planned"
      /\ up /\ pc = "mark" /\ disk = mem /\ cur \in Owed(mem, Txn.prefix)
  BY DEF MarkApplied, At, CurrentTransaction, PlannedSteps, TypeOK, Txn, Owed,
         transactionNeedsRecovery
<1>2. OnlyStateSet(cur, "applied")
  BY <1>1, JournalUpdate DEF MarkApplied, SetState, States
<1>3. /\ UNCHANGED <<table, plans, up, cur, failed, crashes, accepted, exempt>>
      /\ (pc' = "verify" /\ disk' = mem') \/ (pc' = "undo_mark" /\ disk' = disk)
  BY DEF MarkApplied, persistOr, persist
<1>4. \A q : Owed(mem', q) = Owed(mem, q)
  BY <1>1, <1>2 DEF OnlyStateSet, transactionNeedsRecovery, Txn
<1>5. TypeOK'
  BY <1>2, <1>3 DEF TypeOK, OnlyStateSet
<1>6. Restorable(mem)'
  BY <1>1, <1>2, <1>3, <1>4 DEF Restorable, OwedOn, OnlyStateSet
<1>7. Restorable(disk)'
  BY <1>3, <1>6 DEF Restorable, OwedOn, Owed
<1>8. CurrentTransaction'
  BY <1>1, <1>2, <1>3, <1>4
  DEF CurrentTransaction, PlannedSteps, AppliedSteps, Txn, OnlyStateSet
<1>9. FileIsOlder' /\ RecoveredSoFar'
  BY <1>1, <1>2, <1>3 DEF FileIsOlder, RecoveredSoFar, OnlyStateSet
<1> QED
  BY <1>5, <1>6, <1>7, <1>8, <1>9

LEMMA UndoMarkKeeps ==
  ASSUME IInv, UndoMark
  PROVE  IInv'
<1> USE DEF IInv
<1>1. /\ Txn \in Transaction /\ cur \in DOMAIN mem /\ up /\ pc = "undo_mark"
      /\ cur \in Owed(mem, Txn.prefix) /\ cur \in Owed(disk, Txn.prefix)
  BY DEF UndoMark, At, CurrentTransaction, PlannedSteps, AppliedSteps, TypeOK, Txn, Owed,
         transactionNeedsRecovery
<1>2. /\ table' \in [Prefixes -> Values]
      /\ \A q \in Prefixes \ {Txn.prefix} : table'[q] = table[q]
  BY <1>1, RollbackRestores DEF UndoMark, TypeOK
<1>3. UNCHANGED <<plans, mem, disk, up, cur, failed, crashes, accepted, exempt>> /\ pc' = "idle"
  BY DEF UndoMark
<1>4. TypeOK'
  BY <1>2, <1>3 DEF TypeOK
<1>5. Restorable(mem)' /\ Restorable(disk)'
  BY <1>1, <1>2, <1>3 DEF Restorable, OwedOn, Owed
<1>6. CurrentTransaction' /\ FileIsOlder' /\ RecoveredSoFar'
  BY <1>3 DEF CurrentTransaction, PlannedSteps, AppliedSteps, FileIsOlder, RecoveredSoFar
<1> QED
  BY <1>4, <1>5, <1>6

LEMMA VerifiedKeeps ==
  ASSUME IInv, Verified
  PROVE  IInv'
<1> USE DEF IInv
<1>1. /\ Txn \in Transaction /\ cur \in DOMAIN mem /\ up /\ pc = "verify" /\ disk = mem
      /\ cur \in Owed(mem, Txn.prefix) /\ table[Txn.prefix] = Txn.route
      /\ Txn.prefix \notin exempt => Owed(mem, Txn.prefix) \subseteq {cur}
  BY DEF Verified, At, CurrentTransaction, PlannedSteps, AppliedSteps, TypeOK, Txn, Owed,
         transactionNeedsRecovery
<1>2. OnlyStateSet(cur, "verified")
  BY <1>1, JournalUpdate DEF Verified, SetState, States
<1>3. UNCHANGED <<table, plans, up, cur, failed, crashes>> /\ pc' = "idle"
  BY DEF Verified
<1>4. CurrentTransaction' /\ FileIsOlder' /\ RecoveredSoFar'
  BY <1>1, <1>2, <1>3
  DEF CurrentTransaction, PlannedSteps, AppliedSteps, FileIsOlder, RecoveredSoFar,
      OnlyStateSet, Verified, persist
<1>5. CASE Txn.temporary
  <2>1. /\ accepted' = accepted /\ exempt' = exempt /\ (disk' = mem' \/ disk' = disk)
    BY <1>5 DEF Verified, persist
  <2>2. \A q : Owed(mem', q) = Owed(mem, q)
    BY <1>1, <1>2, <1>5 DEF OnlyStateSet, transactionNeedsRecovery, Txn
  <2>3. Restorable(mem)'
    BY <1>1, <1>2, <1>3, <2>1, <2>2 DEF Restorable, OwedOn, OnlyStateSet
  <2>4. Restorable(disk)'
    BY <1>3, <2>1, <2>3 DEF Restorable, OwedOn, Owed
  <2>5. TypeOK'
    BY <1>2, <1>3, <2>1 DEF TypeOK, OnlyStateSet
  <2> QED
    BY <1>4, <2>3, <2>4, <2>5
<1>6. CASE ~Txn.temporary
  <2>1. \/ /\ disk' = mem' /\ accepted' = [accepted EXCEPT ![Txn.prefix] = {Txn.route}]
           /\ exempt' = exempt
        \/ disk' = disk /\ accepted' = accepted /\ exempt' = exempt \cup {Txn.prefix}
    BY <1>6 DEF Verified, persist
  <2>2. /\ \A q : q # Txn.prefix => Owed(mem', q) = Owed(mem, q)
        /\ Txn.prefix \notin exempt => Owed(mem', Txn.prefix) = {}
    BY <1>1, <1>2, <1>6 DEF OnlyStateSet, transactionNeedsRecovery, Txn
  <2>3. TypeOK'
    BY <1>1, <1>2, <1>3, <2>1 DEF TypeOK, OnlyStateSet, Transaction
  <2>4. Restorable(mem)'
    <3> SUFFICES ASSUME NEW p \in Prefixes \ exempt'
                 PROVE  /\ table[p] \notin accepted'[p] => Owed(mem', p) # {}
                        /\ \A i \in Owed(mem', p) : mem'[i].previous \in accepted'[p]
      BY <1>3 DEF Restorable, OwedOn
    <3>1. CASE p = Txn.prefix
      BY <3>1, <1>1, <2>1, <2>2 DEF TypeOK
    <3>2. CASE p # Txn.prefix
      BY <3>2, <1>1, <1>2, <2>1, <2>2 DEF Restorable, OwedOn, OnlyStateSet, TypeOK
    <3> QED
      BY <3>1, <3>2
  <2>5. Restorable(disk)'
    BY <1>3, <2>1, <2>4 DEF Restorable, OwedOn, Owed
  <2> QED
    BY <1>4, <2>3, <2>4, <2>5
<1> QED
  BY <1>5, <1>6

LEMMA NotVerifiedKeeps ==
  ASSUME IInv, NotVerified
  PROVE  IInv'
<1> USE DEF IInv
<1>1. /\ UNCHANGED <<table, plans, mem, disk, up, cur, failed, crashes, accepted, exempt>>
      /\ pc = "verify" /\ pc' = "undo_verify"
  BY DEF NotVerified, At
<1>2. TypeOK' /\ FileIsOlder' /\ RecoveredSoFar'
  BY <1>1 DEF TypeOK, FileIsOlder, RecoveredSoFar
<1>3. Restorable(mem)' /\ Restorable(disk)'
  BY <1>1 DEF NotVerified, At, Restorable, OwedOn, Owed
<1>4. CurrentTransaction'
  BY <1>1 DEF CurrentTransaction, PlannedSteps, AppliedSteps, Txn, Owed
<1> QED
  BY <1>2, <1>3, <1>4

LEMMA UndoVerifyKeeps ==
  ASSUME IInv, UndoVerify
  PROVE  IInv'
<1> USE DEF IInv
<1>1. /\ Txn \in Transaction /\ cur \in DOMAIN mem /\ up /\ pc = "undo_verify" /\ disk = mem
      /\ cur \in Owed(mem, Txn.prefix)
  BY DEF UndoVerify, At, CurrentTransaction, PlannedSteps, AppliedSteps, TypeOK, Txn, Owed,
         transactionNeedsRecovery
<1>2. /\ table' \in [Prefixes -> Values]
      /\ \A q \in Prefixes \ {Txn.prefix} : table'[q] = table[q]
  BY <1>1, RollbackRestores DEF UndoVerify, TypeOK
<1>3. OnlyStateSet(cur, "rolled_back")
  BY <1>1, JournalUpdate DEF UndoVerify, SetState, States
<1>4. /\ UNCHANGED <<plans, disk, up, cur, failed, crashes, accepted>> /\ pc' = "close"
      /\ exempt \subseteq exempt' /\ exempt' \subseteq Prefixes
      /\ Txn.prefix \notin exempt' => table'[Txn.prefix] \in accepted[Txn.prefix]
  BY <1>1 DEF UndoVerify, Forgets, TypeOK, Transaction
<1>5. TypeOK'
  BY <1>2, <1>3, <1>4 DEF TypeOK, OnlyStateSet
<1>6. Restorable(disk)'
  BY <1>1, <1>2, <1>4 DEF Restorable, OwedOn, Owed
<1>7. Restorable(mem)'
  BY <1>1, <1>2, <1>3, <1>4 DEF Restorable, OwedOn, OnlyStateSet, transactionNeedsRecovery, Txn
<1>8. CurrentTransaction' /\ FileIsOlder' /\ RecoveredSoFar'
  BY <1>1, <1>3, <1>4 DEF CurrentTransaction, PlannedSteps, AppliedSteps, FileIsOlder,
     RecoveredSoFar, OnlyStateSet
<1> QED
  BY <1>5, <1>6, <1>7, <1>8

LEMMA CloseFailedKeeps ==
  ASSUME IInv, CloseFailed
  PROVE  IInv'
<1> USE DEF IInv
<1>1. /\ UNCHANGED <<table, plans, mem, up, cur, failed, crashes, accepted, exempt>> /\ up
      /\ pc' = "idle" /\ (disk' = mem \/ disk' = disk)
  BY DEF CloseFailed, At, persist
<1>2. TypeOK' /\ FileIsOlder' /\ RecoveredSoFar'
  BY <1>1 DEF TypeOK, FileIsOlder, RecoveredSoFar
<1>3. Restorable(mem)' /\ Restorable(disk)'
  BY <1>1 DEF Restorable, OwedOn, Owed
<1>4. CurrentTransaction'
  BY <1>1 DEF CurrentTransaction, PlannedSteps, AppliedSteps
<1> QED
  BY <1>2, <1>3, <1>4

-----------------------------------------------------------------------------
(* A new transaction of a prefix *)

\* "planned" at the end of the journal: the previous route of the plan and the
\* current one were promised, unless the plan is outdated or an earlier
\* transaction is unfinished.
LEMMA AppendKeeps ==
  ASSUME IInv, NEW t \in Transaction, NEW next \in {"replace", "delete"},
         t.state = "planned", At("idle"),
         IF t.operation = "replace" THEN t.route # NoRoute
         ELSE t.previous # NoRoute /\ ~t.temporary,
         next = "delete" => ~t.temporary,
         appendTransaction(t, next),
         plans' \subseteq plans, UNCHANGED <<table, up, failed, crashes, accepted>>
  PROVE  IInv'
<1> USE DEF IInv
<1>1. /\ mem' = Append(mem, t) /\ cur' = Len(mem') /\ up
      /\ exempt' = exempt \cup Overlaps(mem, t.prefix, 0) \cup Outdated(t)
      /\ (pc' = next /\ disk' = mem') \/ (pc' = "idle" /\ disk' = disk)
  BY DEF appendTransaction, persistOr, persist, At
<1>2. /\ mem' \in Seq(Transaction) /\ WellFormed(mem')
      /\ Len(mem') = Len(mem) + 1 /\ Len(mem') \in DOMAIN mem'
      /\ mem'[Len(mem')] = t
      /\ \A j \in DOMAIN mem : j \in DOMAIN mem' /\ mem'[j] = mem[j]
      /\ \A p : Owed(mem', p) = Owed(mem, p) \cup (IF t.prefix = p THEN {Len(mem')} ELSE {})
  <2>1. mem \in Seq(Transaction) /\ WellFormed(mem)
    BY DEF TypeOK
  <2>2. \A p : Owed(mem', p) = Owed(mem, p) \cup (IF t.prefix = p THEN {Len(mem')} ELSE {})
    BY <2>1, <1>1, Appended
  <2>3. /\ mem' \in Seq(Transaction) /\ WellFormed(mem')
        /\ Len(mem') = Len(mem) + 1 /\ Len(mem') \in DOMAIN mem'
        /\ mem'[Len(mem')] = t
        /\ \A j \in DOMAIN mem : j \in DOMAIN mem' /\ mem'[j] = mem[j]
    BY <2>1, <1>1, Appended
  <2> QED
    BY <2>2, <2>3
<1>3. /\ exempt' \subseteq Prefixes /\ exempt \subseteq exempt'
      /\ t.prefix \notin exempt' =>
           Owed(mem, t.prefix) = {} /\ t.previous \in accepted[t.prefix]
  <2>1. Owed(mem, t.prefix) \ {0} = Owed(mem, t.prefix)
    BY DEF Owed, TypeOK
  <2> QED
    BY <2>1, <1>1 DEF Overlaps, Outdated, TypeOK, Transaction
<1>4. TypeOK'
  <2>1. Len(mem) \in Nat
    BY DEF TypeOK
  <2>2. cur' \in 0..Len(mem')
    BY <2>1, <1>1, <1>2
  <2>3. disk' \in Seq(Transaction) /\ WellFormed(disk')
    BY <1>1, <1>2 DEF TypeOK
  <2> QED
    BY <2>2, <2>3, <1>2, <1>3 DEF TypeOK
<1>5. Restorable(mem)'
  <2> SUFFICES ASSUME NEW p \in Prefixes \ exempt'
               PROVE  /\ table[p] \notin accepted[p] => Owed(mem', p) # {}
                      /\ \A i \in Owed(mem', p) : mem'[i].previous \in accepted[p]
    BY DEF Restorable, OwedOn
  <2>1. CASE p = t.prefix
    <3>1. Owed(mem', p) = {Len(mem')} /\ t.previous \in accepted[p]
      BY <2>1, <1>1, <1>2, <1>3 DEF Restorable, OwedOn
    <3> QED
      BY <3>1, <2>1, <1>2
  <2>2. CASE p # t.prefix
    <3>1. Owed(mem', p) = Owed(mem, p)
      <4>1. Owed(mem', p) = Owed(mem, p) \cup (IF t.prefix = p THEN {Len(mem')} ELSE {})
        BY <1>2
      <4> QED
        BY <4>1, <2>2
    <3>2. Owed(mem, p) \subseteq DOMAIN mem
      BY DEF Owed
    <3> QED
      BY <3>1, <3>2, <1>1, <1>2, <1>3 DEF Restorable, OwedOn
  <2> QED
    BY <2>1, <2>2
<1>6. Restorable(disk)'
  BY <1>1, <1>3, <1>5 DEF Restorable, OwedOn, Owed
<1>7. CurrentTransaction'
  BY <1>1, <1>2, <1>3 DEF CurrentTransaction, PlannedSteps, AppliedSteps, Txn
<1>8. FileIsOlder'
  <2>1. CASE disk' = mem'
    BY <2>1, <1>2 DEF FileIsOlder
  <2>2. CASE disk' = disk
    BY <2>2, <1>1, <1>2 DEF FileIsOlder, TypeOK
  <2> QED
    BY <1>1, <2>1, <2>2
<1>9. RecoveredSoFar'
  BY <1>1 DEF RecoveredSoFar
<1> QED
  BY <1>4, <1>5, <1>6, <1>7, <1>8, <1>9

\* A plan changes nothing that the journal speaks of.
LEMMA PlanKeeps ==
  ASSUME IInv, NEW p \in Prefixes, NEW v \in Gateways, NEW temporary \in BOOLEAN,
         Plan(p, v, temporary)
  PROVE  IInv'
<1> USE DEF IInv
<1>1. /\ UNCHANGED <<table, mem, disk, up, pc, cur, failed, faults, crashes, accepted, exempt>>
      /\ plans' \subseteq ChangePlan /\ up
  BY DEF Plan, ChangePlan, TypeOK
<1>2. TypeOK'
  BY <1>1 DEF TypeOK
<1>3. Restorable(mem)' /\ Restorable(disk)'
  BY <1>1 DEF Restorable, OwedOn, Owed
<1>4. CurrentTransaction' /\ FileIsOlder' /\ RecoveredSoFar'
  BY <1>1 DEF CurrentTransaction, PlannedSteps, AppliedSteps, Txn, Owed, FileIsOlder, RecoveredSoFar
<1> QED
  BY <1>1, <1>2, <1>3, <1>4

LEMMA BeginApplyKeeps ==
  ASSUME IInv, NEW plan \in plans, BeginApply(plan)
  PROVE  IInv'
<1> DEFINE t == NewTransaction("replace", plan)
<1>1. /\ t \in Transaction /\ t.state = "planned"
      /\ t.operation = "replace" /\ t.route # NoRoute
  <2>1. plan \in ChangePlan
    BY DEF IInv, TypeOK
  <2> QED
    BY <2>1, NoRouteIsNoGateway DEF ChangePlan, NewTransaction, Transaction, Values, States
<1> HIDE DEF t
<1>2. appendTransaction(t, "replace") /\ plans' \subseteq plans
  BY DEF BeginApply, t
<1> QED
  BY <1>1, <1>2, AppendKeeps DEF BeginApply

LEMMA BeginRemoveKeeps ==
  ASSUME IInv, NEW p \in Prefixes, BeginRemove(p)
  PROVE  IInv'
<1> DEFINE t == NewTransaction("delete", Removal(p))
<1>1. /\ t \in Transaction /\ t.state = "planned"
      /\ t.operation = "delete" /\ t.previous # NoRoute /\ ~t.temporary
  BY DEF NewTransaction, Removal, Transaction, Values, IInv, TypeOK, States, BeginRemove
<1> HIDE DEF t
<1>2. appendTransaction(t, "delete")
  BY DEF BeginRemove, t
<1> QED
  BY <1>1, <1>2, AppendKeeps DEF BeginRemove

-----------------------------------------------------------------------------
(* Remove *)

LEMMA DeleteRouteKeeps ==
  ASSUME IInv, DeleteRoute
  PROVE  IInv'
<1> USE DEF IInv
<1>1. /\ Txn \in Transaction /\ cur \in DOMAIN mem /\ up /\ pc = "delete" /\ disk = mem
      /\ cur \in Owed(mem, Txn.prefix) /\ Txn.state = "planned" /\ ~Txn.temporary
      /\ Txn.prefix \notin exempt => Owed(mem, Txn.prefix) \subseteq {cur}
  BY DEF DeleteRoute, At, CurrentTransaction, PlannedSteps, AppliedSteps, TypeOK, Txn, Owed,
         transactionNeedsRecovery
<1>2. /\ table' \in [Prefixes -> Values]
      /\ \A q \in Prefixes \ {Txn.prefix} : table'[q] = table[q]
  BY <1>1, ChangeSets DEF DeleteRoute, TypeOK, Transaction, Values
<1>3. /\ UNCHANGED <<plans, disk, up, cur, failed, crashes, accepted>>
      /\ exempt \subseteq exempt' /\ exempt' \subseteq Prefixes
  BY <1>1 DEF DeleteRoute, Forgets, TypeOK, Transaction
<1>4. Restorable(disk)'
  BY <1>1, <1>2, <1>3 DEF Restorable, OwedOn, Owed
<1>5. CASE pc' = "mark_deleted" /\ table'[Txn.prefix] = NoRoute /\ UNCHANGED <<mem, exempt>>
  <2>1. TypeOK' /\ FileIsOlder' /\ RecoveredSoFar'
    BY <1>2, <1>3, <1>5 DEF TypeOK, FileIsOlder, RecoveredSoFar
  <2>2. Restorable(mem)'
    BY <1>1, <1>3, <1>4, <1>5 DEF Restorable, OwedOn, Owed
  <2>3. CurrentTransaction'
    BY <1>1, <1>2, <1>3, <1>5 DEF CurrentTransaction, PlannedSteps, AppliedSteps, Txn, Owed
  <2> QED
    BY <1>4, <2>1, <2>2, <2>3
<1>6. CASE /\ SetState("apply_failed") /\ pc' = "close"
           /\ exempt' = exempt \cup Forgets(Txn.prefix)
  <2>1. OnlyStateSet(cur, "apply_failed")
    BY <1>1, <1>6, JournalUpdate DEF SetState, States
  <2>2. TypeOK' /\ CurrentTransaction' /\ FileIsOlder' /\ RecoveredSoFar'
    BY <1>1, <1>2, <1>3, <1>6, <2>1 DEF TypeOK, FileIsOlder, RecoveredSoFar, OnlyStateSet,
       CurrentTransaction, PlannedSteps, AppliedSteps
  <2>3. Txn.prefix \notin exempt' => table'[Txn.prefix] \in accepted[Txn.prefix]
    BY <1>6 DEF Forgets
  <2>4. Restorable(mem)'
    BY <1>1, <1>2, <1>3, <2>1, <2>3
    DEF Restorable, OwedOn, OnlyStateSet, transactionNeedsRecovery, Txn
  <2> QED
    BY <1>4, <2>2, <2>4
<1> QED
  BY <1>1, <1>5, <1>6, ChangeSets DEF DeleteRoute, change, TypeOK, Transaction, Values

LEMMA MarkDeletedKeeps ==
  ASSUME IInv, MarkDeleted
  PROVE  IInv'
<1> USE DEF IInv
<1>1. /\ Txn \in Transaction /\ cur \in DOMAIN mem /\ Txn.state = "planned" /\ ~Txn.temporary
      /\ up /\ pc = "mark_deleted" /\ disk = mem /\ cur \in Owed(mem, Txn.prefix)
  BY DEF MarkDeleted, At, CurrentTransaction, PlannedSteps, TypeOK, Txn, Owed,
         transactionNeedsRecovery
<1>2. OnlyStateSet(cur, "applied")
  BY <1>1, JournalUpdate DEF MarkDeleted, SetState, States
<1>3. /\ UNCHANGED <<table, plans, up, cur, failed, crashes, accepted, exempt>>
      /\ (pc' = "check_deleted" /\ disk' = mem') \/ (pc' = "idle" /\ disk' = disk)
  BY DEF MarkDeleted, persistOr, persist
<1>4. \A q : Owed(mem', q) = Owed(mem, q)
  BY <1>1, <1>2 DEF OnlyStateSet, transactionNeedsRecovery, Txn
<1>5. TypeOK'
  BY <1>2, <1>3 DEF TypeOK, OnlyStateSet
<1>6. Restorable(mem)'
  BY <1>1, <1>2, <1>3, <1>4 DEF Restorable, OwedOn, OnlyStateSet
<1>7. Restorable(disk)'
  BY <1>3, <1>6 DEF Restorable, OwedOn, Owed
<1>8. CurrentTransaction'
  BY <1>1, <1>2, <1>3, <1>4
  DEF CurrentTransaction, PlannedSteps, AppliedSteps, Txn, OnlyStateSet
<1>9. FileIsOlder' /\ RecoveredSoFar'
  BY <1>1, <1>2, <1>3 DEF FileIsOlder, RecoveredSoFar, OnlyStateSet
<1> QED
  BY <1>5, <1>6, <1>7, <1>8, <1>9

LEMMA DeletionVerifiedKeeps ==
  ASSUME IInv, DeletionVerified
  PROVE  IInv'
<1> USE DEF IInv
<1>1. /\ Txn \in Transaction /\ cur \in DOMAIN mem /\ up /\ pc = "check_deleted" /\ disk = mem
      /\ cur \in Owed(mem, Txn.prefix) /\ table[Txn.prefix] = NoRoute /\ ~Txn.temporary
      /\ Txn.prefix \notin exempt => Owed(mem, Txn.prefix) \subseteq {cur}
  BY DEF DeletionVerified, At, CurrentTransaction, PlannedSteps, AppliedSteps, TypeOK, Txn,
         Owed, transactionNeedsRecovery
<1>2. OnlyStateSet(cur, "verified")
  BY <1>1, JournalUpdate DEF DeletionVerified, SetState, States
<1>3. /\ UNCHANGED <<table, plans, up, cur, failed, crashes>> /\ pc' = "idle"
      /\ \/ /\ disk' = mem' /\ accepted' = [accepted EXCEPT ![Txn.prefix] = {NoRoute}]
            /\ exempt' = exempt
         \/ disk' = disk /\ accepted' = accepted /\ exempt' = exempt \cup {Txn.prefix}
  BY DEF DeletionVerified, persist
<1>4. /\ \A q : q # Txn.prefix => Owed(mem', q) = Owed(mem, q)
      /\ Txn.prefix \notin exempt => Owed(mem', Txn.prefix) = {}
  BY <1>1, <1>2 DEF OnlyStateSet, transactionNeedsRecovery, Txn
<1>5. TypeOK'
  BY <1>1, <1>2, <1>3 DEF TypeOK, OnlyStateSet, Transaction, Values
<1>6. Restorable(mem)'
  <2> SUFFICES ASSUME NEW p \in Prefixes \ exempt'
               PROVE  /\ table[p] \notin accepted'[p] => Owed(mem', p) # {}
                      /\ \A i \in Owed(mem', p) : mem'[i].previous \in accepted'[p]
    BY <1>3 DEF Restorable, OwedOn
  <2>1. CASE p = Txn.prefix
    BY <2>1, <1>1, <1>3, <1>4 DEF TypeOK
  <2>2. CASE p # Txn.prefix
    BY <2>2, <1>1, <1>2, <1>3, <1>4 DEF Restorable, OwedOn, OnlyStateSet, TypeOK
  <2> QED
    BY <2>1, <2>2
<1>7. Restorable(disk)'
  BY <1>1, <1>3, <1>6 DEF Restorable, OwedOn, Owed
<1>8. CurrentTransaction' /\ FileIsOlder' /\ RecoveredSoFar'
  BY <1>1, <1>2, <1>3
  DEF CurrentTransaction, PlannedSteps, AppliedSteps, FileIsOlder, RecoveredSoFar, OnlyStateSet
<1> QED
  BY <1>5, <1>6, <1>7, <1>8

LEMMA DeletionNotVerifiedKeeps ==
  ASSUME IInv, DeletionNotVerified
  PROVE  IInv'
<1> USE DEF IInv
<1>1. /\ Txn \in Transaction /\ cur \in DOMAIN mem /\ up /\ pc = "check_deleted" /\ disk = mem
      /\ cur \in Owed(mem, Txn.prefix)
  BY DEF DeletionNotVerified, At, CurrentTransaction, PlannedSteps, AppliedSteps, TypeOK, Txn,
         Owed, transactionNeedsRecovery
<1>2. /\ table' \in [Prefixes -> Values]
      /\ \A q \in Prefixes \ {Txn.prefix} : table'[q] = table[q]
  BY <1>1 DEF DeletionNotVerified, MaybeSet, TypeOK, Transaction
<1>3. OnlyStateSet(cur, "rolled_back")
  BY <1>1, JournalUpdate DEF DeletionNotVerified, SetState, States
<1>4. /\ UNCHANGED <<plans, disk, up, cur, failed, crashes, accepted>> /\ pc' = "close"
      /\ exempt \subseteq exempt' /\ exempt' \subseteq Prefixes
      /\ Txn.prefix \notin exempt' => table'[Txn.prefix] \in accepted[Txn.prefix]
  BY <1>1 DEF DeletionNotVerified, Forgets, TypeOK, Transaction
<1>5. TypeOK'
  BY <1>2, <1>3, <1>4 DEF TypeOK, OnlyStateSet
<1>6. Restorable(disk)'
  BY <1>1, <1>2, <1>4 DEF Restorable, OwedOn, Owed
<1>7. Restorable(mem)'
  BY <1>1, <1>2, <1>3, <1>4 DEF Restorable, OwedOn, OnlyStateSet, transactionNeedsRecovery, Txn
<1>8. CurrentTransaction' /\ FileIsOlder' /\ RecoveredSoFar'
  BY <1>1, <1>3, <1>4 DEF CurrentTransaction, PlannedSteps, AppliedSteps, FileIsOlder,
     RecoveredSoFar, OnlyStateSet
<1> QED
  BY <1>5, <1>6, <1>7, <1>8

-----------------------------------------------------------------------------
(* Rollback by the owner of a transaction *)

LEMMA RollbackKeeps ==
  ASSUME IInv, NEW i \in 1..MaxTxns, Rollback(i)
  PROVE  IInv'
<1> USE DEF IInv
<1> DEFINE t == mem[i]
           p == t.prefix
           undone == IF t.temporary THEN accepted[p] ELSE {t.previous}
<1>1. i \in DOMAIN mem /\ up /\ pc = "idle" /\ t.state \in {"verified", "rollback_failed"}
  BY DEF Rollback, MayRollback, At
<1>2. t \in Transaction /\ p \in Prefixes /\ undone \subseteq Values /\ t.temporary \in BOOLEAN
  <2>1. t \in Transaction
    BY <1>1 DEF TypeOK
  <2> QED
    BY <2>1 DEF TypeOK, Transaction
<1>3. /\ UNCHANGED <<plans, disk, up, failed, crashes>> /\ cur' = i /\ pc' = "close"
      /\ exempt' = exempt \cup Overlaps(mem, p, i) \cup Overlaps(disk, p, i)
  BY DEF Rollback
<1>4. /\ exempt \subseteq exempt' /\ exempt' \subseteq Prefixes
      /\ p \notin exempt' => Owed(mem, p) \subseteq {i} /\ Owed(disk, p) \subseteq {i}
  BY <1>2, <1>3 DEF Overlaps, TypeOK
\* A temporary transaction, or one that could not be undone before, is owed.
<1>5. p \notin exempt /\ (t.temporary \/ t.state = "rollback_failed") =>
        t.previous \in accepted[p]
  BY <1>1, <1>2 DEF Restorable, Owed, transactionNeedsRecovery
<1>6. i \in DOMAIN disk => disk[i].previous = t.previous
  BY <1>1 DEF FileIsOlder
<1>7. CASE /\ rollback(t, TRUE)
           /\ mem' = [mem EXCEPT ![i].state = "rolled_back"]
           /\ accepted' = [accepted EXCEPT ![p] = undone]
  <2>1. OnlyStateSet(i, "rolled_back")
    BY <1>1, <1>7, JournalUpdate DEF States
  <2>2. /\ table' \in [Prefixes -> Values] /\ table'[p] = t.previous
        /\ \A q \in Prefixes \ {p} : table'[q] = table[q]
    BY <1>2, <1>7, RollbackRestores DEF TypeOK
  <2>3. /\ accepted' \in [Prefixes -> SUBSET Values] /\ accepted'[p] = undone
        /\ \A q \in Prefixes \ {p} : accepted'[q] = accepted[q]
    BY <1>2, <1>7 DEF TypeOK
  <2>4. p \notin exempt => t.previous \in accepted'[p]
    BY <2>3, <1>5
  <2>5. ~transactionNeedsRecovery(mem'[i])
    BY <2>1 DEF OnlyStateSet, transactionNeedsRecovery
  <2>6. Restorable(mem)'
    <3> SUFFICES ASSUME NEW q \in Prefixes \ exempt'
                 PROVE  /\ table'[q] \notin accepted'[q] => Owed(mem', q) # {}
                        /\ \A j \in Owed(mem', q) : mem'[j].previous \in accepted'[q]
      BY DEF Restorable, OwedOn
    <3>1. CASE q = p
      BY <3>1, <1>4, <2>1, <2>2, <2>4, <2>5 DEF OnlyStateSet
    <3>2. CASE q # p
      BY <3>2, <1>1, <1>4, <2>1, <2>2, <2>3 DEF Restorable, OwedOn, OnlyStateSet
    <3> QED
      BY <3>1, <3>2
  <2>7. Restorable(disk)'
    <3> SUFFICES ASSUME NEW q \in Prefixes \ exempt'
                 PROVE  /\ table'[q] \notin accepted'[q] => Owed(disk, q) # {}
                        /\ \A j \in Owed(disk, q) : disk[j].previous \in accepted'[q]
      BY <1>3 DEF Restorable, OwedOn
    <3>1. CASE q = p
      BY <3>1, <1>4, <1>6, <2>2, <2>4 DEF Owed
    <3>2. CASE q # p
      BY <3>2, <1>4, <2>2, <2>3 DEF Restorable, OwedOn
    <3> QED
      BY <3>1, <3>2
  <2>8. TypeOK' /\ CurrentTransaction' /\ FileIsOlder' /\ RecoveredSoFar'
    BY <1>1, <1>3, <1>4, <2>1, <2>2, <2>3 DEF TypeOK, OnlyStateSet, CurrentTransaction,
       PlannedSteps, AppliedSteps, FileIsOlder, RecoveredSoFar
  <2> QED
    BY <2>6, <2>7, <2>8
<1>8. CASE /\ rollback(t, FALSE)
           /\ mem' = [mem EXCEPT ![i].state = "rollback_failed"]
           /\ accepted' = [accepted EXCEPT ![p] = @ \cup undone]
  <2>1. OnlyStateSet(i, "rollback_failed")
    BY <1>1, <1>8, JournalUpdate DEF States
  <2>2. /\ table' \in [Prefixes -> Values] /\ table'[p] \in {table[p], t.previous}
        /\ \A q \in Prefixes \ {p} : table'[q] = table[q]
    BY <1>2, <1>8, RollbackRestores DEF TypeOK
  <2>3. /\ accepted' \in [Prefixes -> SUBSET Values] /\ accepted'[p] = accepted[p] \cup undone
        /\ \A q \in Prefixes \ {p} : accepted'[q] = accepted[q]
    BY <1>2, <1>8 DEF TypeOK
  <2>4. p \notin exempt => t.previous \in accepted'[p]
    BY <2>3, <1>5
  <2>5. transactionNeedsRecovery(mem'[i])
    BY <2>1 DEF OnlyStateSet, transactionNeedsRecovery
  <2>6. Restorable(mem)'
    <3> SUFFICES ASSUME NEW q \in Prefixes \ exempt'
                 PROVE  /\ table'[q] \notin accepted'[q] => Owed(mem', q) # {}
                        /\ \A j \in Owed(mem', q) : mem'[j].previous \in accepted'[q]
      BY DEF Restorable, OwedOn
    <3>1. CASE q = p
      BY <3>1, <1>1, <1>4, <2>1, <2>4, <2>5 DEF OnlyStateSet
    <3>2. CASE q # p
      BY <3>2, <1>1, <1>4, <2>1, <2>2, <2>3 DEF Restorable, OwedOn, OnlyStateSet
    <3> QED
      BY <3>1, <3>2
  <2>7. Restorable(disk)'
    <3> SUFFICES ASSUME NEW q \in Prefixes \ exempt'
                 PROVE  /\ table'[q] \notin accepted'[q] => Owed(disk, q) # {}
                        /\ \A j \in Owed(disk, q) : disk[j].previous \in accepted'[q]
      BY <1>3 DEF Restorable, OwedOn
    <3>1. CASE q = p
      BY <3>1, <1>4, <2>2, <2>3, <2>4 DEF Restorable, OwedOn
    <3>2. CASE q # p
      BY <3>2, <1>4, <2>2, <2>3 DEF Restorable, OwedOn
    <3> QED
      BY <3>1, <3>2
  <2>8. TypeOK' /\ CurrentTransaction' /\ FileIsOlder' /\ RecoveredSoFar'
    BY <1>1, <1>3, <1>4, <2>1, <2>2, <2>3 DEF TypeOK, OnlyStateSet, CurrentTransaction,
       PlannedSteps, AppliedSteps, FileIsOlder, RecoveredSoFar
  <2> QED
    BY <2>6, <2>7, <2>8
<1> QED
  BY <1>7, <1>8 DEF Rollback

-----------------------------------------------------------------------------
(* Crash, restart and recovery *)

LEMMA CrashKeeps ==
  ASSUME IInv, Crash
  PROVE  IInv'
<1> USE DEF IInv
<1>1. /\ mem' = <<>> /\ cur' = 0 /\ up' = FALSE /\ failed' = FALSE /\ pc' = "idle" /\ plans' = {}
      /\ UNCHANGED <<table, disk, accepted, exempt>>
  BY DEF Crash
<1>2. mem' \in Seq(Transaction) /\ WellFormed(mem') /\ cur' \in 0..Len(mem')
  BY <1>1 DEF WellFormed
<1>3. TypeOK'
  <2>1. up' \in BOOLEAN /\ failed' \in BOOLEAN /\ plans' \subseteq ChangePlan
    BY <1>1
  <2>2. UNCHANGED <<table, disk, accepted, exempt>>
    BY <1>1
  <2> QED
    BY <1>2, <2>1, <2>2 DEF TypeOK
<1>4. Restorable(disk)'
  BY <1>1 DEF Restorable, OwedOn, Owed
<1>5. CurrentTransaction' /\ FileIsOlder' /\ RecoveredSoFar'
  BY <1>1 DEF CurrentTransaction, PlannedSteps, AppliedSteps, FileIsOlder, RecoveredSoFar
<1> QED
  BY <1>1, <1>3, <1>4, <1>5

LEMMA StartKeeps ==
  ASSUME IInv, Start
  PROVE  IInv'
<1> USE DEF IInv
<1>1. /\ mem' = disk /\ cur' = 0 /\ up' = TRUE /\ failed' = FALSE /\ pc' = "recover"
      /\ UNCHANGED <<table, plans, disk, accepted, exempt>>
  BY DEF Start
<1>2. TypeOK'
  <2>1. up' \in BOOLEAN /\ failed' \in BOOLEAN
    BY <1>1
  <2>2. /\ mem' \in Seq(Transaction) /\ WellFormed(mem') /\ cur' \in 0..Len(mem')
        /\ disk' \in Seq(Transaction) /\ WellFormed(disk')
    BY <1>1 DEF TypeOK
  <2>3. UNCHANGED <<table, plans, accepted, exempt>>
    BY <1>1
  <2> QED
    BY <2>1, <2>2, <2>3 DEF TypeOK
<1>3. Restorable(disk)' /\ Restorable(mem)'
  BY <1>1 DEF Restorable, OwedOn, Owed
<1>4. CurrentTransaction' /\ FileIsOlder' /\ RecoveredSoFar'
  BY <1>1 DEF CurrentTransaction, PlannedSteps, AppliedSteps, FileIsOlder, RecoveredSoFar, TypeOK
<1> QED
  BY <1>2, <1>3, <1>4

LEMMA RecoverOneKeeps ==
  ASSUME IInv, RecoverOne
  PROVE  IInv'
<1> USE DEF IInv
<1>1. UNCHANGED <<plans, disk, up, pc, crashes, accepted, exempt>> /\ up /\ pc = "recover"
  BY DEF RecoverOne, At
<1>2. PICK i \in RemainingFrom(cur) :
        /\ \A j \in RemainingFrom(cur) : i <= j
        /\ \/ /\ rollback(mem[i], TRUE)
              /\ mem' = [mem EXCEPT ![i].state = "recovered"]
              /\ UNCHANGED failed
           \/ /\ rollback(mem[i], FALSE)
              /\ mem' = [mem EXCEPT ![i].state = "recovery_failed"]
              /\ failed' = TRUE
        /\ cur' = i
  BY DEF RecoverOne
<1> DEFINE p == mem[i].prefix
<1>3. i \in DOMAIN mem /\ i \in cur+1..Len(mem) /\ transactionNeedsRecovery(mem[i])
  BY <1>2 DEF RemainingFrom, TypeOK
<1>4. mem[i] \in Transaction /\ p \in Prefixes /\ i \in Owed(mem, p)
  <2>1. mem[i] \in Transaction
    BY <1>3 DEF TypeOK
  <2> QED
    BY <2>1, <1>3 DEF Transaction, Owed
<1>5. p \notin exempt => mem[i].previous \in accepted[p]
  BY <1>1, <1>4 DEF Restorable
<1>6. /\ table' \in [Prefixes -> Values]
      /\ \A q \in Prefixes \ {p} : table'[q] = table[q]
      /\ table'[p] \in {table[p], mem[i].previous}
  BY <1>2, <1>4, RollbackRestores DEF TypeOK
<1>7. \/ /\ OnlyStateSet(i, "recovered") /\ failed' = failed
         /\ table'[p] = mem[i].previous /\ ~transactionNeedsRecovery(mem'[i])
      \/ /\ OnlyStateSet(i, "recovery_failed") /\ failed' = TRUE
         /\ transactionNeedsRecovery(mem'[i])
  <2>1. CASE rollback(mem[i], TRUE) /\ mem' = [mem EXCEPT ![i].state = "recovered"]
             /\ UNCHANGED failed
    <3>1. OnlyStateSet(i, "recovered")
      BY <2>1, <1>3, JournalUpdate DEF States
    <3>2. table'[p] = mem[i].previous
      BY <2>1, <1>4, RollbackRestores DEF TypeOK
    <3> QED
      BY <2>1, <3>1, <3>2 DEF OnlyStateSet, transactionNeedsRecovery
  <2>2. CASE mem' = [mem EXCEPT ![i].state = "recovery_failed"] /\ failed' = TRUE
    <3>1. OnlyStateSet(i, "recovery_failed")
      BY <2>2, <1>3, JournalUpdate DEF States
    <3> QED
      BY <2>2, <3>1 DEF OnlyStateSet, transactionNeedsRecovery
  <2> QED
    BY <1>2, <2>1, <2>2
<1>8. TypeOK'
  <2>1. failed' \in BOOLEAN
    BY <1>2 DEF TypeOK
  <2>2. mem' \in Seq(Transaction) /\ WellFormed(mem') /\ Len(mem') = Len(mem)
    BY <1>7 DEF OnlyStateSet
  <2>3. cur' \in 0..Len(mem')
    BY <2>2, <1>2, <1>3 DEF TypeOK
  <2> QED
    BY <2>1, <2>2, <2>3, <1>1, <1>6 DEF TypeOK
<1>9. Restorable(disk)'
  <2> SUFFICES ASSUME NEW q \in Prefixes \ exempt
               PROVE  /\ table'[q] \notin accepted[q] => Owed(disk, q) # {}
                      /\ \A j \in Owed(disk, q) : disk[j].previous \in accepted[q]
    BY <1>1 DEF Restorable, OwedOn
  <2> QED
    BY <1>5, <1>6 DEF Restorable, OwedOn
<1>10. Restorable(mem)'
  <2> SUFFICES ASSUME NEW q \in Prefixes \ exempt
               PROVE  /\ table'[q] \notin accepted[q] => Owed(mem', q) # {}
                      /\ \A j \in Owed(mem', q) : mem'[j].previous \in accepted[q]
    BY <1>1 DEF Restorable, OwedOn
  <2>1. CASE q = p
    <3>1. Owed(mem', q) \subseteq Owed(mem, q) /\ Owed(mem, q) \subseteq DOMAIN mem
      BY <2>1, <1>4, <1>7 DEF OnlyStateSet, Owed
    <3>2. \A j \in Owed(mem', q) : mem'[j].previous \in accepted[q]
      BY <3>1, <1>1, <1>7 DEF Restorable, OnlyStateSet
    <3>3. table'[q] \notin accepted[q] => Owed(mem', q) # {}
      BY <2>1, <1>5, <1>7 DEF OnlyStateSet
    <3> QED
      BY <3>2, <3>3
  <2>2. CASE q # p
    BY <2>2, <1>1, <1>6, <1>7 DEF Restorable, OwedOn, OnlyStateSet
  <2> QED
    BY <2>1, <2>2
<1>11. CurrentTransaction' /\ FileIsOlder'
  BY <1>1, <1>7 DEF CurrentTransaction, PlannedSteps, AppliedSteps, FileIsOlder, OnlyStateSet, TypeOK
<1>12. RecoveredSoFar'
  <2> SUFFICES ASSUME ~failed', NEW j \in 1..i
               PROVE  ~transactionNeedsRecovery(mem'[j])
    BY <1>2 DEF RecoveredSoFar
  <2>1. ~failed /\ ~transactionNeedsRecovery(mem'[i]) /\ OnlyStateSet(i, "recovered")
    BY <1>7
  <2>2. CASE j \in 1..cur
    <3>1. ~transactionNeedsRecovery(mem[j])
      BY <2>1, <2>2, <1>1 DEF RecoveredSoFar
    <3>2. j \in DOMAIN mem \ {i}
      BY <2>2, <1>3 DEF TypeOK
    <3> QED
      BY <3>1, <3>2, <2>1 DEF OnlyStateSet
  <2>3. CASE j \in cur+1..i-1
    <3>1. j \in DOMAIN mem \ {i} /\ j \notin RemainingFrom(cur) /\ j \in cur+1..Len(mem)
      BY <2>3, <1>2, <1>3 DEF TypeOK
    <3> QED
      BY <3>1, <2>1 DEF RemainingFrom, OnlyStateSet
  <2> QED
    BY <2>1, <2>2, <2>3, <1>3 DEF TypeOK
<1> QED
  BY <1>8, <1>9, <1>10, <1>11, <1>12

LEMMA RecoverEndsKeeps ==
  ASSUME IInv, RecoverEnds
  PROVE  IInv'
<1> USE DEF IInv
<1>1. /\ UNCHANGED <<table, plans, mem, crashes, accepted, exempt>> /\ up
      /\ pc' = "idle" /\ cur' = 0 /\ failed' = FALSE
      /\ \/ disk' = mem /\ up' = ~failed
         \/ disk' = disk /\ up' = FALSE
  BY DEF RecoverEnds, At, persist
<1>2. TypeOK'
  <2>1. up' \in BOOLEAN /\ failed' \in BOOLEAN
    BY <1>1 DEF TypeOK
  <2> QED
    BY <2>1, <1>1 DEF TypeOK
<1>3. Restorable(mem)' /\ Restorable(disk)'
  BY <1>1 DEF Restorable, OwedOn, Owed
<1>4. CurrentTransaction' /\ FileIsOlder' /\ RecoveredSoFar'
  BY <1>1 DEF CurrentTransaction, PlannedSteps, AppliedSteps, FileIsOlder, RecoveredSoFar, TypeOK
<1> QED
  BY <1>2, <1>3, <1>4

-----------------------------------------------------------------------------

LEMMA NextKeepsIInv == IInv /\ [Next]_vars => IInv'
<1> SUFFICES ASSUME IInv, [Next]_vars PROVE IInv'
  OBVIOUS
<1>0. ASSUME NEW p \in Prefixes, NEW v \in Gateways, NEW temporary \in BOOLEAN,
             Plan(p, v, temporary)
      PROVE  IInv'
  BY <1>0, PlanKeeps
<1>1. ASSUME NEW plan \in plans, BeginApply(plan) PROVE IInv'
  BY <1>1, BeginApplyKeeps
<1>2. ASSUME NEW p \in Prefixes, BeginRemove(p) PROVE IInv'
  BY <1>2, BeginRemoveKeeps
<1>3. ASSUME NEW i \in 1..MaxTxns, Rollback(i) PROVE IInv'
  BY <1>3, RollbackKeeps
<1>4. CASE OperationStep
  BY <1>4, ReplaceRouteKeeps, UndoReplaceKeeps, MarkAppliedKeeps, UndoMarkKeeps, VerifiedKeeps,
     NotVerifiedKeeps, UndoVerifyKeeps, CloseFailedKeeps, DeleteRouteKeeps, MarkDeletedKeeps,
     DeletionVerifiedKeeps, DeletionNotVerifiedKeeps, RecoverOneKeeps, RecoverEndsKeeps
  DEF OperationStep
<1>5. CASE Crash \/ Start
  BY <1>5, CrashKeeps, StartKeeps
<1>6. CASE UNCHANGED vars
  BY <1>6 DEF vars, IInv, TypeOK, Restorable, OwedOn, Owed, CurrentTransaction, PlannedSteps,
     AppliedSteps, Txn, FileIsOlder, RecoveredSoFar
<1> QED
  BY <1>0, <1>1, <1>2, <1>3, <1>4, <1>5, <1>6 DEF Next

LEMMA Invariance == Spec => []IInv
  BY InitIInv, NextKeepsIInv, PTL DEF Spec

\* Every variable keeps its type, and every journaled transaction is one that
\* Apply and Remove of route.go may have planned.
THEOREM TypeCorrect == Spec => []TypeOK
<1>1. IInv => TypeOK
  BY DEF IInv
<1> QED
  BY <1>1, Invariance, PTL

\* Wherever the daemon dies, a prefix whose route is not one its owners were
\* promised has an unfinished transaction in the journal's file: route.go
\* writes the plan before it changes the table, and closes it after.
THEOREM CrashSafety == Spec => []ChangesAreJournaled
<1>1. IInv => ChangesAreJournaled
  BY DEF IInv, Restorable, ChangesAreJournaled
<1> QED
  BY <1>1, Invariance, PTL

\* What a failed operation leaves behind is in the journal in memory too, for
\* the operations and the next start of a daemon that goes on.
THEOREM ResidueSafety == Spec => []ResidueIsRemembered
<1>1. IInv => ResidueIsRemembered
  BY DEF IInv, Restorable, ResidueIsRemembered
<1> QED
  BY <1>1, Invariance, PTL

\* A recovery without an error has undone every unfinished transaction, and
\* what each of them put back was promised.
LEMMA SuccessfulRecovery ==
  ASSUME IInv, [Next]_vars, up, pc = "recover", up', pc' = "idle"
  PROVE  \A p \in Prefixes \ exempt : table'[p] \in accepted'[p]
<1> USE DEF IInv
<1>1. RecoverEnds
  BY DEF Next, OperationStep, At, Plan, BeginApply, BeginRemove, Rollback, ReplaceRoute, UndoReplace,
     MarkApplied, UndoMark, Verified, NotVerified, UndoVerify, CloseFailed, DeleteRoute,
     MarkDeleted, DeletionVerified, DeletionNotVerified, RecoverOne, Crash, Start, vars
<1>2. ~failed /\ RemainingFrom(cur) = {} /\ UNCHANGED <<table, accepted>>
  BY <1>1 DEF RecoverEnds
<1>3. \A j \in DOMAIN mem : ~transactionNeedsRecovery(mem[j])
  BY <1>2 DEF RecoveredSoFar, RemainingFrom, TypeOK
<1> QED
  BY <1>2, <1>3 DEF Restorable, OwedOn, Owed

\* A recovery that reports success leaves no prefix with a temporary or an
\* unfinished route (Recover in route.go, called before anything is served).
THEOREM RecoveryIsComplete == Spec => RecoveryRestores
<1>1. IInv /\ [Next]_vars =>
        [up /\ pc = "recover" /\ up' /\ pc' = "idle" =>
           \A p \in Prefixes \ exempt : table'[p] \in accepted'[p]]_vars
  BY SuccessfulRecovery
<1> QED
  BY <1>1, Invariance, PTL DEF Spec, RecoveryRestores
==============================================================================
