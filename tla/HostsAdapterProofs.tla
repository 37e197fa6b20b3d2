-------------------------- MODULE HostsAdapterProofs --------------------------
(***************************************************************************)
(* Safety of the Hosts adapter, for every set of domains and policies and  *)
(* any number of applications, edits, failing calls and crashes.           *)
(*                                                                         *)
(* The properties speak of the files now; what an undoing will make of     *)
(* them depends on the receipts, so IInv says of them:                     *)
(*   - LinesInv: there is a set G of contents that holds the file's, is    *)
(*     closed under undoing (a receipt that applied one of them found one  *)
(*     of them) and has only contents that lack no line and bring none     *)
(*     back; and each line that is out is owed by a receipt whose undoing  *)
(*     is still to come (OutIsOwed).  A single receipt could not be blamed *)
(*     for its own content: it is what the next one finds that counts;     *)
(*   - EndsInv: the oldest receipt found no block, and the backup of       *)
(*     others;                                                             *)
(*   - ChainInv: each receipt found both files where undoing the ones      *)
(*     before may begin (At), and so does whoever undoes the newest; a     *)
(*     clean-up comes down that chain to what the oldest one found         *)
(*     (Bottom), and is refused only where a marker is left in the file.   *)
(*                                                                         *)
(* Each part is of the states without the gaps that it exempts.  EndsInv   *)
(* and ChainInv hold in spite of "mistaken"; LinesInv in spite of          *)
(* "leftover", which spoils the backup alone.                              *)
(***************************************************************************)
EXTENDS HostsAdapter, SequenceTheorems, FiniteSetTheorems, WellFoundedInduction, TLAPS


-----------------------------------------------------------------------------
(* The inductive invariant *)

Steps == {"idle", "read", "backup", "write", "record", "verify", "undo", "undo_hosts",
          "undo_backup", "next", "conflict"}
Undoing == op.pc \in {"undo", "undo_hosts", "undo_backup"}

\* A receipt: Apply takes lines away and puts a block, or finds it all done.
GoodReceipt(r) ==
  /\ r \in Receipts
  /\ r.applied.user \subseteq r.previous.user
  /\ r.applied.block \in Policies
  /\ r.changed <=> r.applied # r.previous

Recorded == ToSet(pending) \cup ToSet(committed)
\* The receipts a clean-up works on.
Current == IF pending # <<>> THEN pending ELSE committed

\* The local variables of the call in progress, at each of its steps.
OpRecord ==
  [pc : Steps, content : Contents \cup {None}, previous : Contents \cup {None},
   receipt : Receipts \cup {None}, current : Contents \cup {None}, restored : BOOLEAN,
   list : Seq(Receipts), left : Nat, failed : BOOLEAN,
   met : Policies \cup {None, Broken}, since : Nat]

OpType ==
  /\ op.receipt = None \/ GoodReceipt(op.receipt)
  /\ Idle => op = NoOp
  /\ op.pc \in {"idle", "read", "backup", "write", "record", "verify"} => ~Cleaning
  /\ op.pc \in {"next", "conflict"} => Cleaning
  /\ op.pc \notin {"idle", "read"} => op.receipt # None
  /\ op.pc = "read" => op.receipt = None
  /\ op.pc = "verify" => ~unsaved
  /\ op.pc \in {"read", "backup", "write"} =>
       /\ op.previous \in Contents /\ op.content \in Contents
       /\ op.content.user \subseteq op.previous.user /\ op.content.block \in Policies
  /\ op.pc \in {"backup", "write"} =>
       /\ op.receipt.previous = op.previous /\ op.receipt.applied = op.content
       /\ op.receipt.changed
  /\ op.pc \in {"undo_hosts", "undo_backup", "conflict"} => op.receipt.changed
  /\ op.pc = "undo_hosts" => op.current = op.receipt.applied
  /\ (op.pc = "verify" \/ Undoing) /\ ~Cleaning => pending # <<>> /\ op.receipt = Last(pending)
  /\ Cleaning =>
       /\ op.list = Current /\ op.left \in 1..Len(op.list)
       /\ op.since <= faults + edits
  /\ Cleaning /\ (Undoing \/ op.pc = "conflict") => op.receipt = op.list[op.left]

TypeInv ==
  /\ platform \in Platforms /\ hosts \in Contents /\ backup \in Backups
  /\ pending \in Seq(Receipts) /\ committed \in Seq(Receipts)
  /\ \A r \in Recorded : GoodReceipt(r)
  /\ unsaved \in BOOLEAN /\ starting \in BOOLEAN /\ strayed \in BOOLEAN
  /\ unsaved => pending # <<>>
  /\ mine \subseteq Domains /\ forgone \subseteq Domains /\ theirs \in {Missing, Theirs}
  /\ {applies, edits, faults} \subseteq Nat
  /\ op \in OpRecord /\ OpType


Undisturbed ==
  spoiled \cap {"overwritten", "mistaken", "torn", "unrecorded", "dropped"} = {}

\* A content has no line that the user removed, and without a block it has all
\* that he wants.
Fair(content) ==
  /\ content.user \subseteq mine \cup forgone
  /\ content.block = None => mine \subseteq content.user

\* Contents that the file may get by undoing, from what it is.
Closed(G) ==
  /\ hosts \in G
  /\ \A r \in Keepers : r.applied \in G => r.previous \in G
  /\ \A content \in G : Fair(content)

\* Receipts whose undoing is still to come: none that a clean-up has undone, nor
\* the one whose lines a rollback has just put back.
Below == IF op.pc \in {"undo_backup", "next"} THEN op.left - 1 ELSE op.left
Owing ==
  IF op.pc = "record" THEN Recorded \cup {op.receipt}
  ELSE IF op.pc = "undo_backup" /\ ~Cleaning THEN ToSet(committed) \cup ToSet(Front(pending))
  ELSE IF Cleaning /\ ~op.failed
  THEN {op.list[i] : i \in 1..Below} \cup (IF pending = <<>> THEN {} ELSE ToSet(committed))
  ELSE Recorded

\* Each line that is out was taken out by a receipt that is to be undone.
OutIsOwed ==
  \A d \in mine \ hosts.user : \E r \in Owing : d \in r.previous.user \ r.applied.user

LinesInv ==
  Undisturbed =>
    /\ \E G \in SUBSET Contents : Closed(G)
    /\ ~strayed /\ forgone = {} => \A r \in Keepers : Fair(r.previous) /\ Fair(r.applied)
    /\ OutIsOwed

\* The oldest receipt was made where there was no block yet.
Unapplied == pending = <<>> /\ committed = <<>>
First == IF committed = <<>> THEN pending[1] ELSE committed[1]

Unspoiled == spoiled \subseteq {"mistaken"}

EndsInv ==
  /\ op.pc = "undo_backup" /\ op.receipt.previous.block = None => hosts.block = None
  /\ op.pc = "next" /\ op.left = 1 /\ ~op.failed /\ op.list[1].previous.block = None =>
       hosts.block = None
  /\ Unspoiled =>
    /\ Unapplied =>
         /\ op.pc # "record" => hosts.block = None
         /\ op.pc = "read" => op.previous.block = None
         /\ op.receipt # None => op.receipt.previous.block = None
         /\ strayed \/ (op.pc \in {"idle", "read", "backup"} => backup = theirs)
         /\ strayed \/ (op.receipt # None => op.receipt.backup = theirs)
    /\ ~Unapplied => First.previous.block = None /\ (strayed \/ First.backup = theirs)

\* The files h and b as somebody may find them who is to undo the first k receipts
\* of a list: as the oldest found them, as one of them left them or half-way back,
\* or without a block, and then with a backup that a receipt explains.
Explained(content, list, k) ==
  content = list[1].backup \/ \E i \in 1..k : list[i].changed /\ content = list[i].previous
At(h, b, list, k) ==
  \/ h = list[1].previous /\ b = list[1].backup
  \/ h.block = None /\ Explained(b, list, k)
  \/ \E i \in 1..k : /\ list[i].changed /\ b = list[i].previous
                    /\ h \in {list[i].previous, list[i].applied}
\* Each receipt found the files as the receipts before it leave them.
LinkedTo(r, list) == list # <<>> => At(r.previous, r.backup, list, Len(list))
Linked(list) == \A j \in 2..Len(list) : At(list[j].previous, list[j].backup, list, j - 1)

\* A clean-up is where it should be unless an edit or a fault stopped it.
Descends == ~op.failed \/ op.since = faults + edits
Bottom == (hosts = op.list[1].previous \/ hosts.block = None) /\ backup = op.list[1].backup

\* op.since = faults + edits: the clean-up has met neither a fault nor an edit.
ChainInv ==
  ~strayed /\ Unspoiled =>
    /\ Linked(committed) /\ Linked(pending)
    /\ pending # <<>> => LinkedTo(pending[1], committed)
    /\ op.pc \notin {"write", "record"} /\ Current # <<>> => At(hosts, backup, Current, Len(Current))
    /\ op.pc \in {"backup", "write", "record"} => LinkedTo(op.receipt, Current)
    /\ op.pc = "write" => backup = op.previous
    /\ op.pc = "record" =>
         IF op.receipt.changed
         THEN backup = op.receipt.previous /\ (hosts = op.receipt.applied \/ hosts.block = None)
         ELSE backup = op.receipt.backup /\ (hosts = op.receipt.applied \/ hosts.block = None)
    /\ op.pc \in {"undo_hosts", "undo_backup"} =>
         IF op.restored THEN backup = op.receipt.backup ELSE backup = op.receipt.previous
    /\ op.pc = "undo_hosts" => hosts = op.receipt.applied \/ hosts.block = None
    /\ op.pc = "undo_backup" => hosts = op.receipt.previous \/ hosts.block = None
    /\ Cleaning /\ Descends =>
         /\ op.pc \in {"undo", "undo_hosts", "conflict"} => At(hosts, backup, op.list, op.left)
         /\ op.pc = "next" /\ op.left > 1 => At(hosts, backup, op.list, op.left - 1)
         /\ op.pc = "next" /\ op.left = 1 => Bottom
    /\ Cleaning /\ op.since = faults + edits =>
         /\ op.pc = "conflict" => Refuses
         /\ op.pc = "undo_hosts" => hosts = op.receipt.applied
         /\ op.met = None => hosts.block = None /\ ~op.failed

IInv == TypeInv /\ LinesInv /\ EndsInv /\ ChainInv

-----------------------------------------------------------------------------
(* Sequences of receipts *)

LEMMA AppendedReceipt ==
  ASSUME NEW list \in Seq(Receipts), NEW r \in Receipts
  PROVE  /\ Append(list, r) \in Seq(Receipts) /\ Append(list, r) # <<>>
         /\ Len(Append(list, r)) = Len(list) + 1 /\ Len(list) \in Nat
         /\ \A i \in 1..Len(list) : Append(list, r)[i] = list[i]
         /\ Append(list, r)[Len(list) + 1] = r
         /\ ToSet(Append(list, r)) = ToSet(list) \cup {r}
<1>1. /\ Append(list, r) \in Seq(Receipts) /\ Append(list, r) # <<>>
      /\ Len(Append(list, r)) = Len(list) + 1 /\ Len(list) \in Nat
      /\ \A i \in 1..Len(list) : Append(list, r)[i] = list[i]
      /\ Append(list, r)[Len(list) + 1] = r
  BY AppendProperties
<1>2. DOMAIN Append(list, r) = 1..(Len(list) + 1) /\ DOMAIN list = 1..Len(list)
  BY <1>1
<1>3. ToSet(Append(list, r)) = ToSet(list) \cup {r}
  BY <1>1, <1>2 DEF ToSet
<1> QED
  BY <1>1, <1>3

LEMMA ReceiptSequence ==
  ASSUME NEW list \in Seq(Receipts)
  PROVE  /\ Len(list) \in Nat /\ DOMAIN list = 1..Len(list)
         /\ list # <<>> <=> Len(list) >= 1
         /\ ToSet(list) = {list[i] : i \in 1..Len(list)}
         /\ list # <<>> => Last(list) = list[Len(list)] /\ Last(list) \in ToSet(list)
         /\ \A i \in 1..Len(list) : list[i] \in Receipts
  BY DEF ToSet, Last

LEMMA FrontReceipts ==
  ASSUME NEW list \in Seq(Receipts), list # <<>>
  PROVE  /\ Front(list) \in Seq(Receipts) /\ Len(Front(list)) = Len(list) - 1
         /\ \A i \in 1..(Len(list) - 1) : Front(list)[i] = list[i]
         /\ ToSet(Front(list)) = {list[i] : i \in 1..(Len(list) - 1)}
         /\ ToSet(list) = ToSet(Front(list)) \cup {Last(list)}
         /\ Front(list) = <<>> <=> Len(list) = 1
<1>1. Len(list) \in Nat \ {0} /\ DOMAIN list = 1..Len(list)
  OBVIOUS
<1>2. \A i \in 1..(Len(list) - 1) : list[i] \in Receipts
  BY <1>1
<1>3. /\ Front(list) \in Seq(Receipts) /\ Len(Front(list)) = Len(list) - 1
      /\ \A i \in 1..(Len(list) - 1) : Front(list)[i] = list[i]
  <2>1. Len(list) - 1 \in Nat
    BY <1>1
  <2>2. /\ SubSeq(list, 1, Len(list) - 1) \in Seq(Receipts)
        /\ Len(SubSeq(list, 1, Len(list) - 1)) =
             IF 1 <= Len(list) - 1 THEN (Len(list) - 1) - 1 + 1 ELSE 0
        /\ \A i \in 1..((Len(list) - 1) - 1 + 1) :
             SubSeq(list, 1, Len(list) - 1)[i] = list[1 + i - 1]
    BY <1>2, <2>1, SubSeqProperties
  <2>3. \A i \in 1..(Len(list) - 1) : SubSeq(list, 1, Len(list) - 1)[i] = list[i]
    <3> SUFFICES ASSUME NEW i \in 1..(Len(list) - 1)
                 PROVE  SubSeq(list, 1, Len(list) - 1)[i] = list[i]
      OBVIOUS
    <3>1. 1 + i - 1 = i /\ i \in 1..((Len(list) - 1) - 1 + 1)
      BY <2>1
    <3> QED
      BY <2>2, <3>1
  <2>4. Len(SubSeq(list, 1, Len(list) - 1)) = Len(list) - 1
    <3>1. \A n \in Nat : (IF 1 <= n THEN n - 1 + 1 ELSE 0) = n
      OBVIOUS
    <3> QED
      BY <2>1, <2>2, <3>1, Zenon
  <2>5. Front(list) = SubSeq(list, 1, Len(list) - 1)
    BY DEF Front
  <2> DEFINE front == SubSeq(list, 1, Len(list) - 1)
  <2>6. /\ front \in Seq(Receipts) /\ Len(front) = Len(list) - 1
        /\ \A i \in 1..(Len(list) - 1) : front[i] = list[i]
    BY <2>2, <2>3, <2>4
  <2>7. Front(list) = front
    BY <2>5
  <2> HIDE DEF front
  <2> QED
    BY <2>6, <2>7
<1>4. DOMAIN Front(list) = 1..(Len(list) - 1)
  BY <1>1, <1>3
<1>5. ToSet(Front(list)) = {list[i] : i \in 1..(Len(list) - 1)}
  BY <1>3, <1>4 DEF ToSet
<1>6. ToSet(list) = ToSet(Front(list)) \cup {Last(list)}
  <2>1. 1..Len(list) = 1..(Len(list) - 1) \cup {Len(list)}
    BY <1>1
  <2>2. ToSet(list) = {list[i] : i \in 1..Len(list)}
    BY <1>1 DEF ToSet
  <2> QED
    BY <1>5, <2>1, <2>2 DEF Last
<1>7. Front(list) = <<>> <=> Len(list) = 1
  BY <1>1, <1>3
<1> QED
  BY <1>3, <1>5, <1>6, <1>7

\* A set of natural numbers has a least one.
LEMMA LeastPosition ==
  ASSUME NEW n \in Nat, NEW S \in SUBSET (1..n), S # {}
  PROVE  Min(S) \in S /\ \A j \in S : Min(S) <= j
<1> DEFINE T == {1..i : i \in S}
<1>1. T \subseteq FiniteSubsetsOf(1..n)
  <2> SUFFICES ASSUME NEW i \in S PROVE 1..i \in FiniteSubsetsOf(1..n)
    OBVIOUS
  <2>1. i \in 1..n
    OBVIOUS
  <2>2. IsFiniteSet(1..i)
    BY <2>1, FS_Interval
  <2> QED
    BY <2>1, <2>2 DEF FiniteSubsetsOf
<1>2. PICK x \in T : \A y \in T : ~(<<y, x>> \in StrictSubsetOrdering(1..n))
  <2> HIDE DEF T
  <2>1. T # {}
    BY DEF T
  <2> QED
    BY <1>1, <2>1, FS_StrictSubsetOrderingWellFounded, WFMin
<1>3. PICK i \in S : x = 1..i
  OBVIOUS
<1>4. ASSUME NEW j \in S PROVE i <= j
  <2> SUFFICES ASSUME j < i PROVE FALSE
    OBVIOUS
  <2>1. 1..j \in T
    OBVIOUS
  <2>2. 1..j \subseteq 1..i /\ 1..i \subseteq 1..n
    OBVIOUS
  <2>3. i \in 1..i /\ i \notin 1..j
    OBVIOUS
  <2>4. <<1..j, 1..i>> \in StrictSubsetOrdering(1..n)
    BY <2>2, <2>3 DEF StrictSubsetOrdering
  <2> QED
    BY <1>2, <1>3, <2>1, <2>4
<1> QED
  BY <1>4 DEF Min

-----------------------------------------------------------------------------
(* The chain of the receipts *)

LEMMA AtUp ==
  ASSUME NEW h, NEW b, NEW list, NEW k \in Nat, NEW m \in Nat, k <= m, At(h, b, list, k)
  PROVE  At(h, b, list, m)
<1>1. 1..k \subseteq 1..m
  OBVIOUS
<1> QED
  BY <1>1 DEF At, Explained

LEMMA AtPrefix ==
  ASSUME NEW h, NEW b, NEW list, NEW other, NEW k \in Nat \ {0},
         \A i \in 1..k : other[i] = list[i]
  PROVE  /\ At(h, b, list, k) <=> At(h, b, other, k)
         /\ Explained(b, list, k) <=> Explained(b, other, k)
<1>1. 1 \in 1..k
  OBVIOUS
<1> QED
  BY <1>1 DEF At, Explained

LEMMA AtExplains ==
  ASSUME NEW h, NEW b, NEW list, NEW k, At(h, b, list, k)
  PROVE  Explained(b, list, k)
  BY DEF At, Explained

\* The same files without a block.
LEMMA AtWithoutBlock ==
  ASSUME NEW h, NEW b, NEW list, NEW k, At(h, b, list, k), NEW g, g = h \/ g.block = None
  PROVE  At(g, b, list, k)
<1>1. CASE g = h
  BY <1>1
<1>2. CASE g.block = None
  BY <1>2, AtExplains DEF At
<1> QED
  BY <1>1, <1>2

\* What a receipt found.
LEMMA FoundAt ==
  ASSUME NEW list \in Seq(Receipts), Linked(list), NEW k \in 1..Len(list)
  PROVE  /\ At(list[k].previous, list[k].backup, list, k)
         /\ k > 1 => At(list[k].previous, list[k].backup, list, k - 1)
<1>1. CASE k = 1
  BY <1>1 DEF At
<1>2. CASE k > 1
  <2>1. k \in 2..Len(list) /\ k - 1 \in Nat /\ k \in Nat /\ k - 1 <= k
    BY <1>2
  <2>2. At(list[k].previous, list[k].backup, list, k - 1)
    BY <2>1 DEF Linked
  <2> QED
    BY <2>1, <2>2, AtUp
<1> QED
  BY <1>1, <1>2

\* A receipt more.
LEMMA LinkedAppend ==
  ASSUME NEW list \in Seq(Receipts), NEW r \in Receipts, Linked(list), LinkedTo(r, list)
  PROVE  Linked(Append(list, r))
<1> DEFINE more == Append(list, r)
<1>1. /\ Len(more) = Len(list) + 1 /\ Len(list) \in Nat /\ more[Len(list) + 1] = r
      /\ \A i \in 1..Len(list) : more[i] = list[i]
  BY AppendedReceipt
<1> SUFFICES ASSUME NEW j \in 2..Len(more)
             PROVE  At(more[j].previous, more[j].backup, more, j - 1)
  BY DEF Linked
<1>2. j - 1 \in Nat \ {0} /\ \A i \in 1..(j - 1) : more[i] = list[i]
  BY <1>1
<1>3. At(more[j].previous, more[j].backup, list, j - 1)
  <2>1. CASE j <= Len(list)
    <3>1. j \in 2..Len(list) /\ more[j] = list[j]
      BY <1>1, <2>1
    <3> QED
      BY <3>1 DEF Linked
  <2>2. CASE j = Len(list) + 1
    <3>1. list # <<>> /\ more[j] = r /\ j - 1 = Len(list)
      BY <1>1, <2>2
    <3> QED
      BY <3>1 DEF LinkedTo
  <2> QED
    BY <1>1, <2>1, <2>2
<1> QED
  BY <1>2, <1>3, AtPrefix

\* After a receipt that was made where the list ends.
LEMMA AtAppend ==
  ASSUME NEW h, NEW b, NEW list \in Seq(Receipts), NEW r \in Receipts, LinkedTo(r, list),
         \/ h = r.previous /\ b = r.backup
         \/ h.block = None /\ b = r.backup
         \/ r.changed /\ b = r.previous /\ (h \in {r.previous, r.applied} \/ h.block = None)
  PROVE  At(h, b, Append(list, r), Len(Append(list, r)))
<1> DEFINE more == Append(list, r)
           n == Len(list) + 1
<1>1. /\ Len(more) = n /\ Len(list) \in Nat /\ more[n] = r
      /\ \A i \in 1..Len(list) : more[i] = list[i]
  BY AppendedReceipt
<1>2. n \in Nat /\ n \in 1..n /\ Len(list) <= n
  BY <1>1
<1>3. CASE b = r.backup /\ (h = r.previous \/ h.block = None)
  <2>1. CASE list = <<>>
    <3>1. more[1] = r
      BY <1>1, <2>1
    <3> QED
      BY <1>1, <1>3, <3>1 DEF At, Explained
  <2>2. CASE list # <<>>
    <3>1. Len(list) \in Nat \ {0}
      BY <1>1, <2>2
    <3>2. At(r.previous, b, list, Len(list))
      BY <1>3, <2>2 DEF LinkedTo
    <3>3. At(h, b, list, Len(list))
      BY <1>3, <3>2, AtWithoutBlock
    <3>4. At(h, b, more, Len(list))
      BY <1>1, <3>1, <3>3, AtPrefix
    <3> QED
      BY <1>1, <1>2, <3>4, AtUp
  <2> QED
    BY <2>1, <2>2
<1>4. CASE r.changed /\ b = r.previous /\ (h \in {r.previous, r.applied} \/ h.block = None)
  BY <1>1, <1>2, <1>4 DEF At, Explained
<1> QED
  BY <1>3, <1>4

\* The newest receipt changed nothing.
LEMMA AtUnchanged ==
  ASSUME NEW h, NEW b, NEW list, NEW k \in Nat \ {0}, At(h, b, list, k), ~list[k].changed
  PROVE  /\ k > 1 => At(h, b, list, k - 1)
         /\ k = 1 => (h = list[1].previous \/ h.block = None) /\ b = list[1].backup
<1>1. \A i \in 1..k : list[i].changed => i \in 1..(k - 1)
  OBVIOUS
<1>2. k = 1 => 1..(k - 1) = {}
  OBVIOUS
<1> QED
  BY <1>1, <1>2 DEF At, Explained

\* Before the first receipt that changed something, the backup was as the first
\* receipt found it.
LEMMA OldestIsFirst ==
  ASSUME NEW list \in Seq(Receipts), Linked(list), NEW k \in 1..Len(list),
         \A i \in 1..(k - 1) : ~list[i].changed
  PROVE  list[k].backup = list[1].backup
<1>1. CASE k = 1
  BY <1>1
<1>2. CASE k > 1
  <2>1. At(list[k].previous, list[k].backup, list, k - 1)
    BY <1>2, FoundAt
  <2> QED
    BY <2>1 DEF At, Explained
<1> QED
  BY <1>1, <1>2

-----------------------------------------------------------------------------
(* The operation and the lines *)

LEMMA EmptyOp ==
  /\ NoOp \in OpRecord /\ NoOp.pc = "idle" /\ NoOp.receipt = None /\ NoOp.list = <<>>
  /\ NoOp.failed = FALSE
<1>1. <<>> \in Seq(Receipts) /\ 0 \in Nat
  OBVIOUS
<1> QED
  BY <1>1 DEF NoOp, OpRecord, Steps

\* The call in progress ends, its receipt is gone.
LEMMA OpEnds ==
  ASSUME op' = NoOp
  PROVE  (op \in OpRecord /\ OpType)' /\ ~Cleaning'
  BY EmptyOp DEF OpType, Idle, Cleaning, Undoing

LEMMA LinesStay ==
  ASSUME LinesInv, spoiled \subseteq spoiled', hosts' = hosts, mine' = mine,
         forgone' = forgone, strayed' = strayed, Keepers' \subseteq Keepers,
         Undisturbed' =>
           \A d \in mine \ hosts.user : \A r \in Owing :
             d \in r.previous.user \ r.applied.user => r \in Owing'
  PROVE  LinesInv'
<1> SUFFICES ASSUME Undisturbed'
             PROVE  /\ (\E G \in SUBSET Contents : Closed(G))'
                    /\ (~strayed /\ forgone = {} =>
                          \A r \in Keepers : Fair(r.previous) /\ Fair(r.applied))'
                    /\ OutIsOwed'
  BY DEF LinesInv
<1>1. Undisturbed
  BY DEF Undisturbed
<1>2. \A content : Fair(content)' <=> Fair(content)
  BY DEF Fair
<1>3. PICK G \in SUBSET Contents : Closed(G)
  BY <1>1 DEF LinesInv
<1>4. Closed(G)'
  BY <1>2, <1>3 DEF Closed
<1>5. (~strayed /\ forgone = {} => \A r \in Keepers : Fair(r.previous) /\ Fair(r.applied))'
  BY <1>1, <1>2 DEF LinesInv
<1>6. OutIsOwed'
  BY <1>1 DEF LinesInv, OutIsOwed
<1> QED
  BY <1>4, <1>5, <1>6

LEMMA KeepersOf ==
  ASSUME TypeInv
  PROVE  /\ Keepers = Recorded \cup (IF op.receipt = None THEN {} ELSE {op.receipt})
         /\ \A r \in Keepers : GoodReceipt(r)
  BY DEF Keepers, Recorded, TypeInv, OpType

-----------------------------------------------------------------------------
(* The initial states *)

LEMMA InitIInv == Init => IInv
<1> SUFFICES ASSUME Init PROVE IInv
  OBVIOUS
<1>1. TypeInv
  <2>1. op \in OpRecord
    BY EmptyOp DEF Init
  <2>2. OpType
    BY EmptyOp DEF Init, OpType, Idle, Cleaning, Undoing
  <2>3. hosts \in Contents /\ backup \in Backups
    BY DEF Init, Contents, Backups
  <2>4. ToSet(pending) = {} /\ ToSet(committed) = {}
    BY DEF Init, ToSet
  <2>5. Recorded = {} /\ pending \in Seq(Receipts) /\ committed \in Seq(Receipts)
    BY <2>4 DEF Init, Recorded
  <2>6. /\ platform \in Platforms /\ unsaved \in BOOLEAN /\ starting \in BOOLEAN /\ strayed \in BOOLEAN
        /\ mine \subseteq Domains /\ forgone \subseteq Domains /\ theirs \in {Missing, Theirs}
        /\ {applies, edits, faults} \subseteq Nat
    <3>1. platform \in Platforms /\ theirs \in {Missing, Theirs} /\ forgone = {}
          /\ unsaved = FALSE /\ starting = FALSE /\ strayed = FALSE
          /\ applies = 0 /\ edits = 0 /\ faults = 0 /\ mine = hosts.user
      BY DEF Init
    <3>2. mine \subseteq Domains
      BY <2>3, <3>1 DEF Contents
    <3>3. {applies, edits, faults} \subseteq Nat
      BY <3>1
    <3> QED
      BY <3>1, <3>2, <3>3, Zenon
  <2>7. ~unsaved
    BY DEF Init
  <2> QED
    BY <2>1, <2>2, <2>3, <2>5, <2>6, <2>7 DEF TypeInv
<1>2. Keepers = {} /\ hosts \in Contents /\ hosts.user = mine /\ hosts.block = None
  BY EmptyOp DEF Init, Keepers, ToSet, Contents
<1>3. LinesInv
  <2>1. Closed({hosts})
    BY <1>2 DEF Closed, Fair
  <2>2. OutIsOwed
    BY <1>2 DEF OutIsOwed
  <2> QED
    BY <1>2, <2>1, <2>2 DEF LinesInv
<1>4. EndsInv
  BY <1>2, EmptyOp DEF Init, EndsInv, Unapplied, Idle
<1>5. ChainInv
  BY EmptyOp DEF Init, ChainInv, Linked, LinkedTo, Current, Cleaning
<1> QED
  BY <1>1, <1>3, <1>4, <1>5 DEF IInv

-----------------------------------------------------------------------------
(* Apply *)

LEMMA PlansKeeps ==
  ASSUME IInv, NEW policy \in Policies, Plans(policy)
  PROVE  IInv'
<1>1. TypeInv /\ LinesInv /\ EndsInv /\ ChainInv
  BY DEF IInv
<1>2. /\ op = NoOp /\ op.receipt = None /\ op.pc = "idle" /\ op.list = <<>>
      /\ UNCHANGED <<platform, hosts, backup, pending, committed, unsaved, starting, mine,
                     theirs, forgone, strayed, spoiled, edits, faults>>
      /\ applies' \in Nat
  BY <1>1, EmptyOp DEF Plans, files, receipts, history, TypeInv, OpType, Idle
<1>3. Planned(hosts, policy) \in Contents /\ Planned(hosts, policy).user \subseteq hosts.user
      /\ Planned(hosts, policy).block \in Policies
  BY <1>1 DEF Planned, Contents, TypeInv
<1>4. /\ op' \in OpRecord /\ op'.pc = "read" /\ op'.receipt = None /\ op'.list = <<>>
      /\ op'.previous = hosts /\ op'.content = Planned(hosts, policy)
  BY <1>1, <1>3, EmptyOp DEF Plans, NoOp, OpRecord, Steps, TypeInv
<1>5. TypeInv'
  <2>1. OpType'
    BY <1>1, <1>2, <1>3, <1>4 DEF OpType, Idle, Cleaning, Undoing, TypeInv
  <2> QED
    BY <1>1, <1>2, <1>4, <2>1 DEF TypeInv, Recorded, GoodReceipt
<1>6. LinesInv'
  <2>1. Keepers' = Keepers /\ Owing' = Owing
    BY <1>2, <1>4 DEF Keepers, Owing, Recorded, Cleaning
  <2> QED
    BY <1>1, <1>2, <2>1, LinesStay
<1>7. EndsInv'
  BY <1>1, <1>2, <1>4 DEF EndsInv, Unapplied, First, Unspoiled
<1>8. ChainInv'
  BY <1>1, <1>2, <1>4 DEF ChainInv, Linked, LinkedTo, Current, Unspoiled, Cleaning
<1> QED
  BY <1>5, <1>6, <1>7, <1>8 DEF IInv

LEMMA ReadsKeeps ==
  ASSUME IInv, Reads
  PROVE  IInv'
<1>1. TypeInv /\ LinesInv /\ EndsInv /\ ChainInv
  BY DEF IInv
<1>2. /\ op.pc = "read" /\ op.receipt = None /\ op.list = <<>> /\ op \in OpRecord
      /\ op.previous \in Contents /\ op.content \in Contents
      /\ op.content.user \subseteq op.previous.user /\ op.content.block \in Policies
      /\ UNCHANGED <<platform, hosts, backup, pending, committed, unsaved, starting, mine,
                     theirs, forgone, strayed, spoiled, applies, edits, faults>>
      /\ hosts \in Contents /\ backup \in Backups
  BY <1>1 DEF Reads, files, receipts, history, counters, TypeInv, OpType, Cleaning
<1>3. CASE hosts # op.previous
  <2>1. op' = NoOp
    BY <1>3 DEF Reads
  <2>2. TypeInv'
    BY <1>1, <1>2, <2>1, OpEnds DEF TypeInv, Recorded, GoodReceipt
  <2>3. LinesInv'
    <3>1. Keepers' = Keepers /\ Owing' = Owing
      BY <1>2, <2>1, EmptyOp DEF Keepers, Owing, Recorded, Cleaning
    <3> QED
      BY <1>1, <1>2, <3>1, LinesStay
  <2>4. EndsInv'
    BY <1>1, <1>2, <2>1, EmptyOp DEF EndsInv, Unapplied, First, Unspoiled
  <2>5. ChainInv'
    BY <1>1, <1>2, <2>1, EmptyOp
    DEF ChainInv, Linked, LinkedTo, Current, Unspoiled, Cleaning
  <2> QED
    BY <2>2, <2>3, <2>4, <2>5 DEF IInv
<1>4. CASE hosts = op.previous
  <2> DEFINE r == [previous |-> hosts, applied |-> op.content, backup |-> backup,
                   changed |-> op.content # hosts]
  <2>1. /\ r.previous = hosts /\ r.applied = op.content /\ r.backup = backup
        /\ r.changed = (op.content # hosts)
        /\ r \in Receipts /\ GoodReceipt(r) /\ r # None
    <3>1. r.previous = hosts /\ r.applied = op.content /\ r.backup = backup
      OBVIOUS
    <3>2. r.changed = (op.content # hosts)
      BY Zenon
    <3>3. r \in Receipts
      BY <1>2 DEF Receipts
    <3> HIDE DEF r
    <3> QED
      BY <1>2, <1>4, <3>1, <3>2, <3>3, NoneIsNoReceipt DEF GoodReceipt
  <2>2. /\ op' \in OpRecord /\ op'.receipt = r /\ op'.list = <<>>
        /\ op'.previous = op.previous /\ op'.content = op.content
        /\ op'.pc \in {"record", "backup"} /\ (op'.pc = "backup" <=> r.changed)
    <3>1. op' = [op EXCEPT !.pc = IF op.content = hosts THEN "record" ELSE "backup",
                           !.receipt = r]
      BY <1>4 DEF Reads
    <3> HIDE DEF r
    <3> QED
      BY <1>2, <2>1, <3>1 DEF OpRecord, Steps
  <2> HIDE DEF r
  <2>3. TypeInv'
    <3>1. OpType'
      BY <1>1, <1>2, <1>4, <2>1, <2>2 DEF OpType, Idle, Cleaning, Undoing, GoodReceipt
    <3> QED
      BY <1>1, <1>2, <2>2, <3>1 DEF TypeInv, Recorded, GoodReceipt
  <2>4. LinesInv'
    <3> SUFFICES ASSUME Undisturbed'
                 PROVE  /\ (\E G \in SUBSET Contents : Closed(G))'
                        /\ (~strayed /\ forgone = {} =>
                              \A s \in Keepers : Fair(s.previous) /\ Fair(s.applied))'
                        /\ OutIsOwed'
      BY DEF LinesInv
    <3>1. Undisturbed /\ \A content : Fair(content)' <=> Fair(content)
      BY <1>2 DEF Undisturbed, Fair
    <3>2. Keepers' = Keepers \cup {r}
      BY <1>2, <2>1, <2>2 DEF Keepers
    <3>3. PICK G \in SUBSET Contents : Closed(G)
      BY <1>1, <3>1 DEF LinesInv
    <3>4. Closed(G)'
      BY <1>2, <2>1, <3>1, <3>2, <3>3 DEF Closed
    <3>5. Fair(hosts) /\ Fair(op.content)
      BY <1>2, <1>4, <3>3, NoneIsNoPolicy DEF Closed, Fair
    <3>6. (~strayed /\ forgone = {} => \A s \in Keepers : Fair(s.previous) /\ Fair(s.applied))'
      BY <1>1, <1>2, <2>1, <3>1, <3>2, <3>5 DEF LinesInv
    <3>7. Owing \subseteq Owing'
      BY <1>2, <2>2 DEF Owing, Recorded, Cleaning
    <3>8. OutIsOwed'
      BY <1>1, <1>2, <3>1, <3>7 DEF LinesInv, OutIsOwed
    <3> QED
      BY <3>4, <3>6, <3>8
  <2>5. EndsInv'
    BY <1>1, <1>2, <1>4, <2>1, <2>2 DEF EndsInv, Unapplied, First, Unspoiled
  <2>6. ChainInv'
    BY <1>1, <1>2, <2>1, <2>2 DEF ChainInv, Linked, LinkedTo, Current, Unspoiled, Cleaning
  <2> QED
    BY <2>3, <2>4, <2>5, <2>6 DEF IInv
<1> QED
  BY <1>3, <1>4

\* A file that a failing write leaves is a content; it is another one only if
\* that is named.
LEMMA TornFile ==
  ASSUME NEW written \in Contents, hosts \in Contents, Tears(written)
  PROVE  hosts' \in Contents
<1>1. \A content \in Contents : Torn(content) \subseteq Contents
  BY DEF Torn, Contents
<1> QED
  BY <1>1 DEF Tears

LEMMA CallTears ==
  ASSUME IInv, op' = NoOp, hosts' \in Contents,
         UNCHANGED <<platform, backup, pending, committed, unsaved, starting, mine, theirs,
                     forgone, strayed, applies, edits>>,
         faults' \in Nat, spoiled \subseteq spoiled', "torn" \in spoiled'
  PROVE  IInv'
<1>1. TypeInv
  BY DEF IInv
<1>2. TypeInv'
  BY <1>1, OpEnds DEF TypeInv, Recorded, GoodReceipt
<1>3. ~Unspoiled' /\ ~Undisturbed'
  BY DEF Unspoiled, Undisturbed
<1>4. LinesInv' /\ EndsInv' /\ ChainInv'
  BY <1>3, EmptyOp DEF LinesInv, EndsInv, ChainInv
<1> QED
  BY <1>2, <1>4 DEF IInv

\* A call that ends and leaves the files and the receipts alone.
LEMMA CallEnds ==
  ASSUME IInv, op' = NoOp,
         UNCHANGED <<platform, hosts, backup, pending, committed, mine, theirs, forgone, strayed>>,
         unsaved' \in BOOLEAN, unsaved' => unsaved, starting' \in BOOLEAN,
         applies' \in Nat, edits' \in Nat, faults' \in Nat, spoiled \subseteq spoiled',
         op.pc \in {"write", "record"} => ~Unspoiled',
         op.pc = "record" => ~Undisturbed'
  PROVE  IInv'
<1>1. TypeInv /\ LinesInv /\ EndsInv /\ ChainInv
  BY DEF IInv
<1>2. TypeInv'
  BY <1>1, OpEnds DEF TypeInv, Recorded, GoodReceipt
<1>3. Unapplied => op.pc \in {"idle", "read", "backup", "write", "record"}
  <2>1. Unapplied => ~Cleaning
    BY <1>1 DEF TypeInv, OpType, Unapplied, Current, Cleaning
  <2> QED
    BY <1>1, <2>1 DEF TypeInv, OpType, OpRecord, Steps, Unapplied, Undoing
<1>4. LinesInv'
  <2>1. Keepers' \subseteq Keepers
    BY EmptyOp DEF Keepers
  <2>2. Owing' = Recorded
    BY EmptyOp DEF Owing, Recorded, Cleaning
  <2>3. op.pc # "record" => Owing \subseteq Recorded
    <3>1. ASSUME Cleaning PROVE {op.list[i] : i \in 1..Below} \subseteq Recorded
      <4>1. op.list = Current /\ op.left \in 1..Len(op.list) /\ op.list \in Seq(Receipts)
        BY <1>1, <3>1 DEF TypeInv, OpType, Current
      <4>2. 1..Below \subseteq 1..Len(op.list)
        BY <4>1 DEF Below
      <4>3. ToSet(op.list) \subseteq Recorded
        BY <4>1 DEF Recorded, Current
      <4> QED
        BY <4>1, <4>2, <4>3, ReceiptSequence
    <3>2. ASSUME op.pc = "undo_backup", ~Cleaning
          PROVE  ToSet(committed) \cup ToSet(Front(pending)) \subseteq Recorded
      <4>1. pending # <<>> /\ pending \in Seq(Receipts)
        BY <1>1, <3>2 DEF TypeInv, OpType, Undoing
      <4> QED
        BY <4>1, FrontReceipts DEF Recorded
    <3>3. ToSet(committed) \subseteq Recorded
      BY DEF Recorded
    <3> QED
      BY <3>1, <3>2, <3>3 DEF Owing
  <2> QED
    BY <1>1, <2>1, <2>2, <2>3, LinesStay
<1>5. EndsInv'
  BY <1>1, <1>3, EmptyOp DEF EndsInv, Unapplied, First, Unspoiled
<1>6. ChainInv'
  BY <1>1, EmptyOp DEF ChainInv, Linked, LinkedTo, Current, Unspoiled, Cleaning
<1> QED
  BY <1>2, <1>4, <1>5, <1>6 DEF IInv

LEMMA WritesBackupKeeps ==
  ASSUME IInv, WritesBackup
  PROVE  IInv'
<1>1. TypeInv /\ LinesInv /\ EndsInv /\ ChainInv
  BY DEF IInv
<1>2. /\ op.pc = "backup" /\ op \in OpRecord /\ op.list = <<>>
      /\ op.receipt # None /\ op.previous \in Contents
      /\ UNCHANGED <<platform, hosts, pending, committed, unsaved, starting, mine,
                     theirs, forgone, strayed, applies, edits>>
      /\ faults' \in Nat /\ spoiled \subseteq spoiled'
  BY <1>1 DEF WritesBackup, receipts, history, counters, TypeInv, OpType, Cleaning, Fault,
              NoFault, Gap
<1>3. CASE op' = NoOp /\ backup' = backup
  BY <1>1, <1>2, <1>3, CallEnds DEF TypeInv
<1>4. CASE backup' = op.previous /\ op' = [op EXCEPT !.pc = "write"]
  <2>1. /\ op' \in OpRecord /\ op'.pc = "write" /\ op'.receipt = op.receipt /\ op'.list = <<>>
        /\ op'.previous = op.previous /\ op'.content = op.content
    BY <1>2, <1>4 DEF OpRecord, Steps
  <2>2. TypeInv'
    <3>1. OpType'
      BY <1>1, <1>2, <2>1 DEF TypeInv, OpType, Idle, Cleaning, Undoing, GoodReceipt
    <3>2. backup' \in Backups
      BY <1>2, <1>4 DEF Backups
    <3> QED
      BY <1>1, <1>2, <2>1, <3>1, <3>2 DEF TypeInv, Recorded, GoodReceipt
  <2>3. LinesInv'
    <3>1. Keepers' = Keepers /\ Owing' = Owing
      BY <1>2, <2>1 DEF Keepers, Owing, Recorded, Cleaning
    <3> QED
      BY <1>1, <1>2, <3>1, LinesStay
  <2>4. EndsInv'
    BY <1>1, <1>2, <1>4, <2>1 DEF EndsInv, Unapplied, First, Unspoiled
  <2>5. ChainInv'
    BY <1>1, <1>2, <1>4, <2>1
    DEF ChainInv, Linked, LinkedTo, Current, Unspoiled, Cleaning
  <2> QED
    BY <2>2, <2>3, <2>4, <2>5 DEF IInv
<1> QED
  BY <1>3, <1>4 DEF WritesBackup

LEMMA WritesHostsKeeps ==
  ASSUME IInv, WritesHosts
  PROVE  IInv'
<1>1. TypeInv /\ LinesInv /\ EndsInv /\ ChainInv
  BY DEF IInv
<1>2. /\ op.pc = "write" /\ op \in OpRecord /\ op.list = <<>>
      /\ op.receipt # None /\ GoodReceipt(op.receipt) /\ op.receipt.changed
      /\ op.previous \in Contents /\ op.content \in Contents
      /\ op.receipt.previous = op.previous /\ op.receipt.applied = op.content
      /\ op.content.user \subseteq op.previous.user /\ op.content.block \in Policies
      /\ UNCHANGED <<platform, backup, pending, committed, unsaved, starting, mine,
                     theirs, forgone, strayed, applies, edits>>
      /\ faults' \in Nat /\ spoiled \subseteq spoiled'
  BY <1>1 DEF WritesHosts, receipts, history, counters, TypeInv, OpType, Cleaning, Fault,
              NoFault, Gap
<1>3. CASE op' = NoOp /\ hosts' = hosts /\ "leftover" \in spoiled'
  <2>1. ~Unspoiled'
    BY <1>3 DEF Unspoiled
  <2> QED
    BY <1>1, <1>2, <1>3, <2>1, CallEnds DEF TypeInv
<1>4. CASE /\ Compares(op.previous) /\ hosts' = op.content /\ op' = [op EXCEPT !.pc = "record"]
           /\ Gap(Overwritten(op.previous) \cup MistakenWrite)
  <2>1. /\ op' \in OpRecord /\ op'.pc = "record" /\ op'.receipt = op.receipt /\ op'.list = <<>>
        /\ op'.previous = op.previous /\ op'.content = op.content
    BY <1>2, <1>4 DEF OpRecord, Steps
  <2>2. TypeInv'
    <3>1. OpType'
      BY <1>1, <1>2, <2>1 DEF TypeInv, OpType, Idle, Cleaning, Undoing, GoodReceipt
    <3> QED
      BY <1>1, <1>2, <1>4, <2>1, <3>1 DEF TypeInv, Recorded, GoodReceipt
  <2>3. LinesInv'
    <3> SUFFICES ASSUME Undisturbed'
                 PROVE  /\ (\E G \in SUBSET Contents : Closed(G))'
                        /\ (~strayed /\ forgone = {} =>
                              \A s \in Keepers : Fair(s.previous) /\ Fair(s.applied))'
                        /\ OutIsOwed'
      BY DEF LinesInv
    <3>1. Undisturbed /\ \A content : Fair(content)' <=> Fair(content)
      BY <1>2 DEF Undisturbed, Fair
    <3>2. hosts = op.previous
      <4>1. "overwritten" \notin spoiled'
        BY DEF Undisturbed
      <4>2. platform \in {"windows", "other"}
        BY <1>1, PlatformsKnown DEF TypeInv
      <4> QED
        BY <1>4, <4>1, <4>2 DEF Gap, Overwritten, Compares
    <3>3. Keepers' = Keepers /\ op.receipt \in Keepers
      BY <1>2, <2>1 DEF Keepers
    <3>4. PICK G \in SUBSET Contents : Closed(G)
      BY <1>1, <3>1 DEF LinesInv
    <3>5. Fair(op.content)
      BY <1>2, <3>2, <3>4, NoneIsNoPolicy DEF Closed, Fair
    <3>6. (\E H \in SUBSET Contents : Closed(H))'
      <4>1. CASE strayed \/ forgone # {}
        <5>1. \A r \in ToSet(pending) \cup ToSet(committed) : r.changed => op.content # r.applied
          <6>1. "mistaken" \notin spoiled' /\ MistakenWrite \subseteq spoiled'
            BY <1>4 DEF Undisturbed, Gap
          <6>2. MistakenWrite = Mistaken(op.content, ToSet(pending) \cup ToSet(committed))
            BY <4>1 DEF MistakenWrite
          <6> QED
            BY <6>1, <6>2 DEF Mistaken
        <5>2. \A r \in ToSet(pending) \cup ToSet(committed) :
                r.applied = op.content => r.previous = op.content
          BY <1>1, <5>1 DEF TypeInv, Recorded, GoodReceipt
        <5>3. op.receipt.previous \in G
          BY <1>2, <3>2, <3>4 DEF Closed
        <5>4. \A r \in Keepers : r \in ToSet(pending) \cup ToSet(committed) \/ r = op.receipt
          BY DEF Keepers
        <5>5. \A r \in Keepers : r.applied \in G \cup {op.content} => r.previous \in G \cup {op.content}
          BY <3>4, <5>2, <5>3, <5>4 DEF Closed
        <5>6. PICK H \in SUBSET Contents : H = G \cup {op.content}
          BY <1>2
        <5>7. Closed(H)'
          BY <1>4, <3>1, <3>3, <3>4, <3>5, <5>5, <5>6 DEF Closed
        <5> QED
          BY <5>7
      <4>2. CASE ~strayed /\ forgone = {}
        <5> DEFINE H == {content \in Contents : Fair(content)}
        <5>1. \A r \in Keepers : r.previous \in H
          BY <1>1, <3>1, <4>2, KeepersOf DEF LinesInv, GoodReceipt, Receipts
        <5>2. op.content \in H
          BY <1>2, <3>5
        <5>3. Closed(H)'
          BY <1>4, <3>1, <3>3, <5>1, <5>2 DEF Closed
        <5>4. H \in SUBSET Contents
          OBVIOUS
        <5> QED
          BY <5>3, <5>4
      <4> QED
        BY <4>1, <4>2
    <3>7. (~strayed /\ forgone = {} => \A s \in Keepers : Fair(s.previous) /\ Fair(s.applied))'
      BY <1>1, <1>2, <3>1, <3>3 DEF LinesInv
    <3>8. OutIsOwed'
      <4>1. Owing = Recorded /\ Owing' = Recorded \cup {op.receipt}
        BY <1>2, <2>1 DEF Owing, Recorded, Cleaning
      <4> QED
        BY <1>1, <1>2, <1>4, <3>1, <3>2, <4>1 DEF LinesInv, OutIsOwed
    <3> QED
      BY <3>6, <3>7, <3>8
  <2>4. EndsInv'
    BY <1>1, <1>2, <2>1 DEF EndsInv, Unapplied, First, Unspoiled
  <2>5. ChainInv'
    BY <1>1, <1>2, <1>4, <2>1
    DEF ChainInv, Linked, LinkedTo, Current, Unspoiled, Cleaning
  <2> QED
    BY <2>2, <2>3, <2>4, <2>5 DEF IInv
<1>5. CASE op' = NoOp /\ Tears(op.content) /\ Gap({"leftover"} \cup TornGap)
  <2>1. CASE hosts' = hosts
    BY <1>3, <1>5, <2>1 DEF Gap
  <2>2. CASE hosts' # hosts
    <3>1. "torn" \in spoiled' /\ hosts' \in Contents
      BY <1>1, <1>2, <1>5, <2>2, TornFile DEF Gap, TornGap, TypeInv
    <3> QED
      BY <1>2, <1>5, <3>1, CallTears
  <2> QED
    BY <2>1, <2>2
<1> QED
  BY <1>3, <1>4, <1>5 DEF WritesHosts, Gap

LEMMA RecordsKeeps ==
  ASSUME IInv, Records
  PROVE  IInv'
<1>1. TypeInv /\ LinesInv /\ EndsInv /\ ChainInv
  BY DEF IInv
<1>2. /\ op.pc = "record" /\ op \in OpRecord /\ op.list = <<>>
      /\ op.receipt # None /\ GoodReceipt(op.receipt) /\ op.receipt \in Receipts
      /\ pending' = Append(pending, op.receipt) /\ unsaved' \in BOOLEAN
      /\ UNCHANGED <<platform, hosts, backup, committed, starting, mine, theirs, forgone,
                     strayed, spoiled, applies, edits>>
      /\ faults' \in Nat /\ pending \in Seq(Receipts) /\ committed \in Seq(Receipts)
  <2>1. unsaved' \in BOOLEAN
    <3>1. unsaved' = FALSE \/ unsaved' = TRUE
      BY DEF Records
    <3> QED
      BY <3>1
  <2> QED
    BY <1>1, <2>1 DEF Records, files, history, counters, TypeInv, OpType, Cleaning, Fault,
                      NoFault, GoodReceipt
<1>3. /\ op' \in OpRecord /\ op'.pc \in {"verify", "undo"} /\ op'.receipt = op.receipt
      /\ op'.list = <<>>
      /\ op'.pc = "verify" => ~unsaved'
  <2>1. CASE op' = [op EXCEPT !.pc = "verify"] /\ unsaved' = FALSE
    BY <1>2, <2>1 DEF OpRecord, Steps
  <2>2. CASE op' = [op EXCEPT !.pc = "undo"]
    BY <1>2, <2>2 DEF OpRecord, Steps
  <2> QED
    BY <2>1, <2>2 DEF Records
<1>4. /\ pending' \in Seq(Receipts) /\ pending' # <<>> /\ Len(pending') = Len(pending) + 1
      /\ Len(pending) \in Nat /\ pending'[Len(pending')] = op.receipt
      /\ \A i \in 1..Len(pending) : pending'[i] = pending[i]
      /\ Recorded' = Recorded \cup {op.receipt} /\ Last(pending') = op.receipt
  BY <1>2, AppendedReceipt DEF Recorded, Last
<1>5. TypeInv'
  <2>1. OpType'
    BY <1>2, <1>3, <1>4 DEF OpType, Idle, Cleaning, Undoing, GoodReceipt
  <2> QED
    BY <1>1, <1>2, <1>3, <1>4, <2>1 DEF TypeInv, GoodReceipt
<1>6. LinesInv'
  <2>1. Keepers' = Keepers /\ Owing' = Owing
    BY <1>1, <1>2, <1>3, <1>4, <1>5, KeepersOf DEF Keepers, Owing, Recorded, Cleaning
  <2> QED
    BY <1>1, <1>2, <2>1, LinesStay
<1>7. EndsInv'
  <2>1. ~Unapplied'
    BY <1>4 DEF Unapplied
  <2>2. CASE Unapplied
    <3>1. First' = op.receipt
      BY <1>2, <1>4, <2>2 DEF First, Unapplied
    <3> QED
      BY <1>1, <1>2, <1>3, <2>1, <2>2, <3>1 DEF EndsInv, Unspoiled
  <2>3. CASE ~Unapplied
    <3>1. First' = First
      <4>1. CASE committed = <<>>
        <5>1. 1 \in 1..Len(pending)
          BY <1>2, <2>3, <4>1 DEF Unapplied
        <5> QED
          BY <1>2, <1>4, <4>1, <5>1 DEF First
      <4>2. CASE committed # <<>>
        BY <1>2, <4>2 DEF First
      <4> QED
        BY <4>1, <4>2
    <3> QED
      BY <1>1, <1>2, <1>3, <2>1, <2>3, <3>1 DEF EndsInv, Unspoiled
  <2> QED
    BY <2>2, <2>3
<1>8. ChainInv'
  <2> SUFFICES ASSUME ~strayed, Unspoiled
               PROVE  /\ Linked(committed)' /\ Linked(pending)'
                      /\ LinkedTo(pending[1], committed)'
                      /\ At(hosts, backup, Current, Len(Current))'
    BY <1>2, <1>3, <1>4 DEF ChainInv, Unspoiled, Cleaning
  <2>1. /\ Linked(committed) /\ Linked(pending) /\ LinkedTo(op.receipt, Current)
        /\ pending # <<>> => LinkedTo(pending[1], committed)
        /\ IF op.receipt.changed
           THEN backup = op.receipt.previous /\ (hosts = op.receipt.applied \/ hosts.block = None)
           ELSE backup = op.receipt.backup /\ (hosts = op.receipt.applied \/ hosts.block = None)
    BY <1>1, <1>2 DEF ChainInv
  <2>2. LinkedTo(op.receipt, pending)
    BY <2>1 DEF Current, LinkedTo
  <2>3. Linked(committed)' /\ Linked(pending)'
    BY <1>2, <2>1, <2>2, LinkedAppend DEF Linked
  <2>4. LinkedTo(pending[1], committed)'
    <3>1. CASE pending = <<>>
      <4>1. pending'[1] = op.receipt /\ Current = committed
        BY <1>2, <1>4, <3>1 DEF Current
      <4> QED
        BY <1>2, <2>1, <4>1 DEF LinkedTo
    <3>2. CASE pending # <<>>
      <4>1. 1 \in 1..Len(pending)
        BY <1>2, <3>2
      <4> QED
        BY <1>2, <1>4, <2>1, <3>2, <4>1 DEF LinkedTo
    <3> QED
      BY <3>1, <3>2
  <2>5. At(hosts, backup, Current, Len(Current))'
    <3>1. \/ hosts = op.receipt.previous /\ backup = op.receipt.backup
          \/ hosts.block = None /\ backup = op.receipt.backup
          \/ /\ op.receipt.changed /\ backup = op.receipt.previous
             /\ hosts \in {op.receipt.previous, op.receipt.applied} \/ hosts.block = None
      BY <1>2, <2>1 DEF GoodReceipt
    <3>2. At(hosts, backup, pending', Len(pending'))
      BY <1>2, <2>2, <3>1, AtAppend
    <3>3. Current' = pending'
      BY <1>4 DEF Current
    <3> QED
      BY <1>2, <3>2, <3>3
  <2> QED
    BY <2>3, <2>4, <2>5
<1> QED
  BY <1>5, <1>6, <1>7, <1>8 DEF IInv

LEMMA VerifiesKeeps ==
  ASSUME IInv, Verifies
  PROVE  IInv'
<1>1. TypeInv /\ LinesInv /\ EndsInv /\ ChainInv
  BY DEF IInv
<1>2. /\ op.pc = "verify" /\ op \in OpRecord /\ op.list = <<>> /\ pending # <<>>
      /\ op.receipt = Last(pending) /\ GoodReceipt(op.receipt) /\ op.receipt # None
      /\ UNCHANGED <<platform, hosts, backup, unsaved, starting, mine, theirs, forgone,
                     strayed, applies, edits>>
      /\ faults' \in Nat /\ pending \in Seq(Receipts) /\ committed \in Seq(Receipts)
      /\ spoiled \subseteq spoiled'
  BY <1>1 DEF Verifies, files, receipts, history, counters, TypeInv, OpType, Cleaning, Fault,
              NoFault, Gap, Undoing
<1>3. CASE op' = [op EXCEPT !.pc = "undo"] /\ UNCHANGED <<pending, committed, spoiled>>
  <2>1. /\ op' \in OpRecord /\ op'.pc = "undo" /\ op'.receipt = op.receipt /\ op'.list = <<>>
    BY <1>2, <1>3 DEF OpRecord, Steps
  <2>2. TypeInv'
    <3>1. OpType'
      BY <1>2, <1>3, <2>1 DEF OpType, Idle, Cleaning, Undoing, GoodReceipt
    <3> QED
      BY <1>1, <1>2, <1>3, <2>1, <3>1 DEF TypeInv, Recorded, GoodReceipt
  <2>3. LinesInv'
    <3>1. Keepers' = Keepers /\ Owing' = Owing
      BY <1>2, <1>3, <2>1 DEF Keepers, Owing, Recorded, Cleaning
    <3> QED
      BY <1>1, <1>2, <3>1, LinesStay
  <2>4. EndsInv'
    BY <1>1, <1>2, <1>3, <2>1 DEF EndsInv, Unapplied, First, Unspoiled
  <2>5. ChainInv'
    BY <1>1, <1>2, <1>3, <2>1
    DEF ChainInv, Linked, LinkedTo, Current, Unspoiled, Cleaning
  <2> QED
    BY <2>2, <2>3, <2>4, <2>5 DEF IInv
<1>4. CASE /\ committed' = Append(committed, op.receipt) /\ pending' = <<>> /\ op' = NoOp
           /\ Gap(IF Len(pending) > 1 THEN {"dropped"} ELSE {}) /\ UNCHANGED faults
  <2>1. /\ committed' \in Seq(Receipts) /\ committed' # <<>> /\ pending' \in Seq(Receipts)
        /\ Len(committed') = Len(committed) + 1 /\ committed'[Len(committed')] = op.receipt
        /\ Len(committed) \in Nat /\ \A i \in 1..Len(committed) : committed'[i] = committed[i]
        /\ ToSet(committed') = ToSet(committed) \cup {op.receipt} /\ ToSet(pending') = {}
    <3>1. op.receipt \in Receipts
      BY <1>2 DEF GoodReceipt
    <3>2. ToSet(<<>>) = {}
      BY DEF ToSet
    <3> QED
      BY <1>2, <1>4, <3>1, <3>2, AppendedReceipt
  <2>2. Len(pending) \in Nat /\ Len(pending) >= 1 /\ ToSet(pending) = {pending[i] : i \in 1..Len(pending)}
        /\ op.receipt = pending[Len(pending)] /\ op.receipt \in ToSet(pending)
    BY <1>2, ReceiptSequence
  <2>3. "dropped" \notin spoiled' => Len(pending) = 1
    <3>1. Len(pending) > 1 => "dropped" \in spoiled'
      BY <1>4 DEF Gap
    <3>2. Len(pending) \in Nat /\ Len(pending) >= 1
      BY <2>2
    <3>3. Len(pending) > 1 \/ Len(pending) = 1
      <4>1. \A n \in Nat : n >= 1 => n > 1 \/ n = 1
        OBVIOUS
      <4> QED
        BY <3>2, <4>1, Zenon
    <3> QED
      BY <3>1, <3>3, Zenon
  <2>5. TypeInv'
    <3>1. (op \in OpRecord /\ OpType)'
      BY <1>4, OpEnds
    <3>2. unsaved' \in BOOLEAN /\ ~unsaved'
      BY <1>1, <1>2 DEF TypeInv, OpType
    <3> QED
      BY <1>1, <1>2, <1>4, <2>1, <3>1, <3>2 DEF TypeInv, Recorded, GoodReceipt
  <2>6. LinesInv'
    <3>1. Keepers' \subseteq Keepers
      BY <1>4, <2>1, <2>2, EmptyOp DEF Keepers
    <3>2. Owing = Recorded /\ Owing' = Recorded'
      BY <1>2, <1>4, EmptyOp DEF Owing, Recorded, Cleaning
    <3>3. Undisturbed' => Recorded' = Recorded
      <4> SUFFICES ASSUME Undisturbed' PROVE Recorded' = Recorded
        OBVIOUS
      <4>1. Len(pending) = 1
        BY <2>3 DEF Undisturbed
      <4>2. ToSet(pending) = {op.receipt}
        BY <2>2, <4>1
      <4> QED
        BY <2>1, <4>2 DEF Recorded
    <3> QED
      BY <1>1, <1>2, <3>1, <3>2, <3>3, LinesStay
  <2>7. Unspoiled' => Unspoiled /\ Len(pending) = 1 /\ pending[1] = op.receipt
    BY <1>2, <2>2, <2>3 DEF Unspoiled
  <2>8. EndsInv'
    <3>1. ~Unapplied' /\ ~Unapplied
      BY <1>2, <2>1 DEF Unapplied
    <3>2. Unspoiled' => First' = First
      <4>1. CASE committed = <<>>
        <5>1. committed'[1] = op.receipt
          BY <2>1, <4>1
        <5> QED
          BY <1>2, <2>1, <2>7, <4>1, <5>1 DEF First
      <4>2. CASE committed # <<>>
        <5>1. 1 \in 1..Len(committed)
          BY <1>2, <4>2
        <5> QED
          BY <1>2, <2>1, <4>2, <5>1 DEF First
      <4> QED
        BY <4>1, <4>2
    <3> QED
      BY <1>1, <1>2, <1>4, <2>7, <3>1, <3>2, EmptyOp DEF EndsInv
  <2>9. ChainInv'
    <3> SUFFICES ASSUME ~strayed, Unspoiled'
                 PROVE  /\ Linked(committed)' /\ Linked(pending)'
                        /\ At(hosts, backup, Current, Len(Current))'
      BY <1>2, <1>4, <2>1, EmptyOp DEF ChainInv, Cleaning
    <3>1. /\ Linked(committed) /\ LinkedTo(op.receipt, committed)
          /\ At(hosts, backup, pending, Len(pending))
      BY <1>1, <1>2, <2>7 DEF ChainInv, Current
    <3>2. op.receipt \in Receipts
      BY <1>2 DEF GoodReceipt
    <3>3. Linked(committed)'
      BY <1>2, <1>4, <3>1, <3>2, LinkedAppend
    <3>4. Linked(pending)'
      BY <1>4 DEF Linked
    <3>5. \/ hosts = op.receipt.previous /\ backup = op.receipt.backup
          \/ hosts.block = None /\ backup = op.receipt.backup
          \/ /\ op.receipt.changed /\ backup = op.receipt.previous
             /\ hosts \in {op.receipt.previous, op.receipt.applied} \/ hosts.block = None
      <4>1. At(hosts, backup, pending, 1) /\ pending[1] = op.receipt
        BY <2>7, <3>1
      <4> QED
        BY <4>1 DEF At, Explained
    <3>6. At(hosts, backup, committed', Len(committed'))
      BY <1>2, <1>4, <3>1, <3>2, <3>5, AtAppend
    <3>7. Current' = committed'
      BY <1>4 DEF Current
    <3> QED
      BY <1>2, <3>3, <3>4, <3>6, <3>7
  <2> QED
    BY <2>5, <2>6, <2>8, <2>9 DEF IInv
<1> QED
  BY <1>3, <1>4 DEF Verifies, receipts, NoFault, counters

-----------------------------------------------------------------------------
(* Rollback *)

\* Where a receipt that is undone stands.
Place == IF Cleaning THEN op.left ELSE Len(pending)

LEMMA PlaceOf ==
  ASSUME TypeInv, Undoing \/ op.pc = "conflict"
  PROVE  /\ op \in OpRecord /\ Current \in Seq(Receipts) /\ Current # <<>> /\ ~Unapplied
         /\ Place \in 1..Len(Current) /\ Len(Current) \in Nat
         /\ op.receipt = Current[Place] /\ op.receipt \in Recorded /\ op.receipt # None
         /\ GoodReceipt(op.receipt)
         /\ Cleaning => op.list = Current /\ op.left = Place
         /\ ~Cleaning => op.list = <<>> /\ pending # <<>> /\ Current = pending
                           /\ Place = Len(pending)
<1>1. /\ op \in OpRecord /\ pending \in Seq(Receipts) /\ committed \in Seq(Receipts)
      /\ op.receipt # None /\ GoodReceipt(op.receipt)
  BY DEF TypeInv, OpType, Undoing
<1>2. CASE Cleaning
  <2>1. /\ op.list = Current /\ op.left \in 1..Len(op.list) /\ op.receipt = op.list[op.left]
        /\ op.list # <<>>
    BY <1>2 DEF TypeInv, OpType, Undoing, Cleaning
  <2>2. Current \in Seq(Receipts) /\ Current # <<>> /\ ToSet(Current) \subseteq Recorded
    BY <1>1, <2>1 DEF Current, Recorded
  <2>3. op.receipt \in ToSet(Current)
    BY <2>1, <2>2, ReceiptSequence
  <2>4. ~Unapplied
    BY <2>2 DEF Current, Unapplied
  <2> QED
    BY <1>1, <1>2, <2>1, <2>2, <2>3, <2>4 DEF Place
<1>3. CASE ~Cleaning
  <2>1. pending # <<>> /\ op.receipt = Last(pending) /\ op.list = <<>>
    BY <1>3 DEF TypeInv, OpType, Cleaning, Undoing
  <2>2. Len(pending) \in 1..Len(pending) /\ op.receipt = pending[Len(pending)]
        /\ op.receipt \in ToSet(pending)
    BY <1>1, <2>1, ReceiptSequence
  <2> QED
    BY <1>1, <1>3, <2>1, <2>2 DEF Place, Current, Recorded, Unapplied
<1> QED
  BY <1>2, <1>3

\* The files are as they were before the receipt at k.
Before(h, b, list, k) ==
  IF k > 1 THEN At(h, b, list, k - 1)
  ELSE (h = list[1].previous \/ h.block = None) /\ b = list[1].backup

LEMMA UndoneKeeps ==
  ASSUME IInv, Undone, op.pc \in {"undo", "undo_backup"},
         op.pc = "undo" => ~op.receipt.changed,
         UNCHANGED <<platform, hosts, committed, starting, mine, theirs, forgone, strayed,
                     applies, edits, faults>>,
         backup' \in Backups, spoiled \subseteq spoiled',
         op.receipt.previous.block = None => hosts.block = None,
         ~strayed /\ Unspoiled' /\ (~Cleaning \/ Descends) =>
           Before(hosts, backup', Current, Place),
         ~strayed /\ Unspoiled' /\ Cleaning => At(hosts, backup', Current, Len(Current))
  PROVE  IInv'
<1>1. TypeInv /\ LinesInv /\ EndsInv /\ ChainInv
  BY DEF IInv
<1>2. /\ op \in OpRecord /\ Current \in Seq(Receipts) /\ Current # <<>> /\ ~Unapplied
      /\ Place \in 1..Len(Current) /\ Len(Current) \in Nat
      /\ op.receipt = Current[Place] /\ op.receipt \in Recorded /\ op.receipt # None
      /\ GoodReceipt(op.receipt)
      /\ Cleaning => op.list = Current /\ op.left = Place
      /\ ~Cleaning => op.list = <<>> /\ pending # <<>> /\ Current = pending
                        /\ Place = Len(pending)
  BY <1>1, PlaceOf DEF Undoing
<1>3. ~op.receipt.changed => op.receipt.previous = op.receipt.applied
  BY <1>2 DEF GoodReceipt
<1>4. CASE Cleaning
  <2>1. UNCHANGED <<pending, unsaved>> /\ op' = [op EXCEPT !.pc = "next"]
    BY <1>4 DEF Undone
  <2>2. /\ op' \in OpRecord /\ op'.pc = "next" /\ op'.receipt = op.receipt /\ op'.list = op.list
        /\ op'.left = op.left /\ op'.failed = op.failed /\ op'.since = op.since
        /\ op'.met = op.met /\ Cleaning'
    BY <1>2, <1>4, <2>1 DEF OpRecord, Steps, Cleaning
  <2>3. TypeInv'
    <3>1. OpType'
      BY <1>1, <1>2, <1>4, <2>1, <2>2
      DEF TypeInv, OpType, Idle, Cleaning, Undoing, GoodReceipt, Current
    <3> QED
      BY <1>1, <1>2, <2>1, <2>2, <3>1 DEF TypeInv, Recorded, GoodReceipt
  <2>4. LinesInv'
    <3>1. Keepers' = Keepers
      BY <2>1, <2>2 DEF Keepers
    <3>2. ASSUME NEW d, NEW r \in Owing, d \in r.previous.user \ r.applied.user
          PROVE  r \in Owing'
      <4>1. CASE op.failed
        BY <1>4, <2>1, <2>2, <4>1 DEF Owing, Recorded
      <4>2. CASE ~op.failed
        <5>1. Owing = {op.list[i] : i \in 1..Below} \cup (IF pending = <<>> THEN {} ELSE ToSet(committed))
          BY <1>4, <4>2 DEF Owing
        <5>2. Owing' = {op.list[i] : i \in 1..(op.left - 1)}
                         \cup (IF pending = <<>> THEN {} ELSE ToSet(committed))
          BY <2>1, <2>2, <4>2 DEF Owing, Below
        <5>3. CASE r \in {op.list[i] : i \in 1..Below}
          <6>1. PICK i \in 1..Below : r = op.list[i]
            BY <5>3
          <6>2. i # op.left \/ op.pc = "undo_backup"
            BY <1>2, <1>3, <1>4, <3>2, <6>1
          <6>3. i \in 1..(op.left - 1)
            BY <1>2, <1>4, <6>1, <6>2 DEF Below
          <6> QED
            BY <5>2, <6>1, <6>3
        <5> QED
          BY <5>1, <5>2, <5>3
      <4> QED
        BY <4>1, <4>2
    <3> QED
      BY <1>1, <3>1, <3>2, LinesStay
  <2>5. EndsInv'
    <3>1. op.left = 1 => op.receipt = op.list[1]
      BY <1>2, <1>4
    <3> QED
      BY <1>1, <1>2, <2>1, <2>2, <3>1 DEF EndsInv, Unapplied, First, Unspoiled
  <2>6. ChainInv'
    <3> SUFFICES ASSUME ~strayed, Unspoiled'
                 PROVE  /\ At(hosts, backup, Current, Len(Current))'
                        /\ Descends /\ op.left > 1 => At(hosts, backup', op.list, op.left - 1)
                        /\ Descends /\ op.left = 1 => Bottom'
      <4>1. Unspoiled' => Unspoiled
        BY DEF Unspoiled
      <4>2. Linked(committed)' /\ Linked(pending)' <=> Linked(committed) /\ Linked(pending)
        BY <2>1 DEF Linked
      <4>3. Current' = Current
        BY <2>1 DEF Current
      <4>4. ~strayed /\ Unspoiled =>
              /\ Linked(committed) /\ Linked(pending)
              /\ pending # <<>> => LinkedTo(pending[1], committed)
              /\ op.since = faults + edits /\ op.met = None => hosts.block = None /\ ~op.failed
        BY <1>1, <1>4 DEF ChainInv
      <4>5. LinkedTo(pending[1], committed)' <=> LinkedTo(pending[1], committed)
        BY <2>1 DEF LinkedTo
      <4> QED
        BY <2>1, <2>2, <4>1, <4>2, <4>3, <4>4, <4>5 DEF ChainInv, Descends
    <3>1. Descends => Before(hosts, backup', Current, Place)
      OBVIOUS
    <3>2. Descends /\ op.left > 1 => At(hosts, backup', op.list, op.left - 1)
      BY <1>2, <1>4, <3>1 DEF Before
    <3>3. Descends /\ op.left = 1 => Bottom'
      BY <1>2, <1>4, <2>2, <3>1 DEF Before, Bottom
    <3>4. Current' = Current
      BY <2>1 DEF Current
    <3> QED
      BY <1>4, <3>2, <3>3, <3>4
  <2> QED
    BY <2>3, <2>4, <2>5, <2>6 DEF IInv
<1>5. CASE ~Cleaning
  <2>1. op' = NoOp /\ unsaved' = FALSE /\ pending' = Front(pending)
    BY <1>5 DEF Undone
  <2>2. /\ pending' \in Seq(Receipts) /\ Len(pending') = Len(pending) - 1 /\ Len(pending) \in Nat
        /\ \A i \in 1..(Len(pending) - 1) : pending'[i] = pending[i]
        /\ ToSet(pending') = {pending[i] : i \in 1..(Len(pending) - 1)}
        /\ ToSet(pending) = ToSet(pending') \cup {op.receipt}
        /\ pending' = <<>> <=> Len(pending) = 1
    <3>1. pending \in Seq(Receipts) /\ op.receipt = Last(pending)
      BY <1>1, <1>2, <1>5 DEF TypeInv, Last
    <3> QED
      BY <1>2, <1>5, <2>1, <3>1, FrontReceipts
  <2>3. TypeInv'
    <3>1. (op \in OpRecord /\ OpType)'
      BY <2>1, OpEnds
    <3>2. \A r \in Recorded' : GoodReceipt(r)'
      BY <1>1, <2>2 DEF TypeInv, Recorded, GoodReceipt
    <3> QED
      BY <1>1, <2>1, <2>2, <3>1, <3>2 DEF TypeInv
  <2>4. LinesInv'
    <3>1. Keepers' \subseteq Keepers
      BY <2>1, <2>2, EmptyOp DEF Keepers
    <3>2. Owing' = ToSet(committed) \cup ToSet(pending')
      BY <2>1, EmptyOp DEF Owing, Recorded, Cleaning
    <3>3. ASSUME NEW d, NEW r \in Owing, d \in r.previous.user \ r.applied.user
          PROVE  r \in Owing'
      <4>1. CASE op.pc = "undo_backup"
        BY <1>5, <2>1, <3>2, <4>1 DEF Owing
      <4>2. CASE op.pc = "undo"
        <5>1. r # op.receipt
          BY <1>3, <3>3, <4>2
        <5>2. r \in ToSet(pending) \cup ToSet(committed)
          BY <1>5, <4>2 DEF Owing, Recorded
        <5> QED
          BY <2>2, <3>2, <5>1, <5>2
      <4> QED
        BY <4>1, <4>2
    <3> QED
      BY <1>1, <3>1, <3>3, LinesStay
  <2>5. EndsInv'
    <3> SUFFICES ASSUME Unspoiled'
                 PROVE  /\ Unapplied' => hosts.block = None /\ (strayed \/ backup' = theirs)
                        /\ ~Unapplied' => First'.previous.block = None
                                            /\ (strayed \/ First'.backup = theirs)
      BY <2>1, EmptyOp DEF EndsInv
    <3>1. Unspoiled /\ First.previous.block = None /\ (strayed \/ First.backup = theirs)
      BY <1>1, <1>2 DEF EndsInv, Unspoiled
    <3>2. ASSUME Unapplied'
          PROVE  hosts.block = None /\ (strayed \/ backup' = theirs)
      <4>1. Len(pending) = 1 /\ committed = <<>>
        BY <2>2, <3>2 DEF Unapplied
      <4>2. First = op.receipt /\ Place = 1 /\ Current[1] = op.receipt
        BY <1>2, <1>5, <4>1 DEF First
      <4>3. ~strayed => backup' = op.receipt.backup
        <5>1. ~strayed => Before(hosts, backup', Current, 1)
          BY <1>5, <4>2
        <5>2. ~(1 > 1)
          OBVIOUS
        <5> QED
          BY <4>2, <5>1, <5>2 DEF Before
      <4> QED
        BY <3>1, <4>2, <4>3
    <3>3. ASSUME ~Unapplied'
          PROVE  First' = First
      <4>1. CASE committed = <<>>
        <5>1. 1 \in 1..(Len(pending) - 1)
          BY <1>2, <1>5, <2>2, <3>3, <4>1 DEF Unapplied
        <5> QED
          BY <2>2, <4>1, <5>1 DEF First
      <4>2. CASE committed # <<>>
        BY <4>2 DEF First
      <4> QED
        BY <4>1, <4>2
    <3> QED
      BY <3>1, <3>2, <3>3
  <2>6. ChainInv'
    <3> SUFFICES ASSUME ~strayed, Unspoiled'
                 PROVE  /\ Linked(committed)' /\ Linked(pending)'
                        /\ pending' # <<>> => LinkedTo(pending'[1], committed)
                        /\ Current' # <<>> => At(hosts, backup', Current', Len(Current'))
      BY <2>1, EmptyOp DEF ChainInv, Cleaning, LinkedTo, At, Explained
    <3>1. /\ Before(hosts, backup', pending, Len(pending)) /\ Linked(pending) /\ Linked(committed)
          /\ LinkedTo(pending[1], committed)
      BY <1>1, <1>2, <1>5 DEF ChainInv, Unspoiled
    <3>2. Linked(pending')
      <4> SUFFICES ASSUME NEW j \in 2..Len(pending')
                   PROVE  At(pending'[j].previous, pending'[j].backup, pending', j - 1)
        BY DEF Linked
      <4>1. /\ j \in 2..Len(pending) /\ j \in 1..(Len(pending) - 1) /\ j - 1 \in Nat \ {0}
            /\ \A i \in 1..(j - 1) : pending'[i] = pending[i]
        BY <2>2
      <4>2. At(pending[j].previous, pending[j].backup, pending, j - 1)
        BY <3>1, <4>1 DEF Linked
      <4> QED
        BY <2>2, <4>1, <4>2, AtPrefix
    <3>3. pending' # <<>> => LinkedTo(pending'[1], committed)
      <4>1. pending' # <<>> => 1 \in 1..(Len(pending) - 1)
        BY <2>2
      <4> QED
        BY <2>2, <3>1, <4>1
    <3>4. CASE pending' # <<>>
      <4>1. Len(pending) > 1 /\ Len(pending') \in Nat \ {0} /\ Len(pending) - 1 = Len(pending')
        BY <2>2, <3>4
      <4>2. At(hosts, backup', pending, Len(pending'))
        BY <3>1, <4>1 DEF Before
      <4>3. At(hosts, backup', pending', Len(pending'))
        BY <2>2, <4>1, <4>2, AtPrefix
      <4> QED
        BY <3>1, <3>2, <3>3, <3>4, <4>3 DEF Current, Linked
    <3>5. CASE pending' = <<>> /\ committed # <<>>
      <4>1. /\ hosts = pending[1].previous \/ hosts.block = None
            /\ backup' = pending[1].backup
        <5>1. Len(pending) = 1
          BY <2>2, <3>5, Zenon
        <5> QED
          BY <3>1, <5>1 DEF Before
      <4>2. At(pending[1].previous, backup', committed, Len(committed))
        BY <3>1, <3>5, <4>1 DEF LinkedTo
      <4>3. At(hosts, backup', committed, Len(committed))
        BY <4>1, <4>2, AtWithoutBlock
      <4> QED
        BY <3>1, <3>2, <3>3, <3>5, <4>3 DEF Current, Linked
    <3>6. CASE pending' = <<>> /\ committed = <<>>
      BY <3>1, <3>2, <3>3, <3>6 DEF Current, Linked
    <3> QED
      BY <3>4, <3>5, <3>6
  <2> QED
    BY <2>3, <2>4, <2>5, <2>6 DEF IInv
<1> QED
  BY <1>4, <1>5

LEMMA NotUndoneKeeps ==
  ASSUME IInv, NotUndone, Undoing, Cleaning => op.receipt.changed,
         UNCHANGED <<platform, committed, starting, mine, theirs, forgone, strayed,
                     applies, edits>>,
         hosts' \in Contents, hosts' = hosts \/ "torn" \in spoiled',
         faults' \in Nat, faults <= faults', backup' \in Backups, spoiled \subseteq spoiled',
         ~strayed /\ Unspoiled' => At(hosts, backup', Current, Len(Current)),
         ~strayed /\ Unspoiled' /\ Cleaning =>
           /\ ~op.failed \/ op.since = faults' + edits' => At(hosts, backup', op.list, op.left)
           /\ op.since = faults' + edits' => Refuses' /\ UNCHANGED faults
  PROVE  IInv'
<1>1. TypeInv /\ LinesInv /\ EndsInv /\ ChainInv
  BY DEF IInv
<1>2. /\ op \in OpRecord /\ Current \in Seq(Receipts) /\ Current # <<>> /\ ~Unapplied
      /\ Place \in 1..Len(Current) /\ Len(Current) \in Nat
      /\ op.receipt = Current[Place] /\ op.receipt \in Recorded /\ op.receipt # None
      /\ GoodReceipt(op.receipt)
      /\ Cleaning => op.list = Current /\ op.left = Place
      /\ ~Cleaning => op.list = <<>> /\ pending # <<>> /\ Current = pending
                        /\ Place = Len(pending)
  BY <1>1, PlaceOf
<1>3. UNCHANGED <<pending, unsaved>>
  BY DEF NotUndone
<1>4. /\ Recorded' = Recorded /\ Current' = Current /\ Unapplied' = Unapplied /\ First' = First
      /\ Linked(committed)' <=> Linked(committed)
      /\ Linked(pending)' <=> Linked(pending)
      /\ LinkedTo(pending[1], committed)' <=> LinkedTo(pending[1], committed)
      /\ Unspoiled' => Unspoiled /\ hosts' = hosts
      /\ Undisturbed' => hosts' = hosts
  BY <1>3 DEF Recorded, Current, Unapplied, First, Linked, LinkedTo, Unspoiled, Undisturbed
<1>5. edits \in Nat /\ faults \in Nat
  BY <1>1 DEF TypeInv
<1>6. CASE Cleaning
  <2>1. op' = [op EXCEPT !.pc = "conflict"]
    BY <1>6 DEF NotUndone
  <2>2. /\ op' \in OpRecord /\ op'.pc = "conflict" /\ op'.receipt = op.receipt
        /\ op'.list = op.list /\ op'.left = op.left /\ op'.failed = op.failed
        /\ op'.since = op.since /\ op'.met = op.met /\ Cleaning'
    BY <1>2, <1>6, <2>1 DEF OpRecord, Steps, Cleaning
  <2>3. TypeInv'
    <3>1. Cleaning => op.since <= faults' + edits'
      <4>1. op.since \in Nat /\ (Cleaning => op.since <= faults + edits)
        BY <1>1, <1>2 DEF TypeInv, OpType, OpRecord
      <4> QED
        BY <1>5, <4>1
    <3>2. OpType'
      BY <1>1, <1>2, <1>3, <1>4, <1>6, <2>2, <3>1
      DEF TypeInv, OpType, Idle, Cleaning, Undoing, GoodReceipt
    <3> QED
      BY <1>1, <1>2, <1>3, <1>4, <2>2, <3>2 DEF TypeInv, GoodReceipt
  <2>4. LinesInv'
    <3>1. Keepers' = Keepers
      BY <1>3, <2>2 DEF Keepers
    <3>2. Owing \subseteq Owing'
      <4>1. CASE op.failed
        BY <1>4, <1>6, <2>2, <4>1 DEF Owing, Undoing
      <4>2. CASE ~op.failed
        <5>1. Owing = {op.list[i] : i \in 1..Below} \cup (IF pending = <<>> THEN {} ELSE ToSet(committed))
          BY <1>6, <4>2 DEF Owing, Undoing
        <5>2. Owing' = {op.list[i] : i \in 1..op.left}
                         \cup (IF pending = <<>> THEN {} ELSE ToSet(committed))
          BY <1>3, <2>2, <4>2 DEF Owing, Below
        <5>3. 1..Below \subseteq 1..op.left
          BY <1>2, <1>6 DEF Below
        <5> QED
          BY <5>1, <5>2, <5>3
      <4> QED
        BY <4>1, <4>2
    <3>3. CASE hosts' = hosts
      BY <1>1, <3>1, <3>2, <3>3, LinesStay
    <3> QED
      BY <1>4, <3>3 DEF LinesInv
  <2>5. EndsInv'
    BY <1>1, <1>2, <1>4, <2>2 DEF EndsInv
  <2>6. ChainInv'
    <3> SUFFICES ASSUME ~strayed, Unspoiled'
                 PROVE  /\ At(hosts, backup', Current, Len(Current))
                        /\ ~op.failed \/ op.since = faults' + edits' =>
                             At(hosts, backup', op.list, op.left)
                        /\ op.since = faults' + edits' =>
                             /\ Refuses'
                             /\ op.met = None => hosts.block = None /\ ~op.failed
      <4>1. ~strayed /\ Unspoiled =>
              /\ Linked(committed) /\ Linked(pending)
              /\ pending # <<>> => LinkedTo(pending[1], committed)
        BY <1>1 DEF ChainInv
      <4> QED
        BY <1>3, <1>4, <2>2, <4>1 DEF ChainInv, Descends
    <3>1. op.since = faults + edits /\ op.met = None => hosts.block = None /\ ~op.failed
      BY <1>1, <1>4, <1>6 DEF ChainInv
    <3> QED
      BY <1>6, <3>1
  <2> QED
    BY <2>3, <2>4, <2>5, <2>6 DEF IInv
<1>7. CASE ~Cleaning
  <2>1. op' = NoOp
    BY <1>7 DEF NotUndone
  <2>2. TypeInv'
    BY <1>1, <1>3, <1>4, <2>1, OpEnds DEF TypeInv, GoodReceipt
  <2>3. LinesInv'
    <3>1. Keepers' \subseteq Keepers /\ Owing' = Recorded
      BY <1>3, <1>4, <2>1, EmptyOp DEF Keepers, Owing, Cleaning
    <3>2. Owing \subseteq Recorded
      <4>1. pending \in Seq(Receipts) /\ pending # <<>>
        BY <1>1, <1>2, <1>7 DEF TypeInv
      <4> QED
        BY <1>7, <4>1, FrontReceipts DEF Owing, Recorded, Undoing
    <3>3. CASE hosts' = hosts
      BY <1>1, <3>1, <3>2, <3>3, LinesStay
    <3> QED
      BY <1>4, <3>3 DEF LinesInv
  <2>4. EndsInv'
    BY <1>1, <1>2, <1>4, <2>1, EmptyOp DEF EndsInv
  <2>5. ChainInv'
    <3>1. ~strayed /\ Unspoiled =>
            /\ Linked(committed) /\ Linked(pending)
            /\ pending # <<>> => LinkedTo(pending[1], committed)
      BY <1>1 DEF ChainInv
    <3> QED
      BY <1>3, <1>4, <2>1, <3>1, EmptyOp DEF ChainInv, Cleaning
  <2> QED
    BY <2>2, <2>3, <2>4, <2>5 DEF IInv
<1> QED
  BY <1>6, <1>7

LEMMA RollbackReadsKeeps ==
  ASSUME IInv, RollbackReads
  PROVE  IInv'
<1>1. TypeInv /\ LinesInv /\ EndsInv /\ ChainInv
  BY DEF IInv
<1>2. op.pc = "undo" /\ Undoing
      /\ UNCHANGED <<platform, hosts, backup, committed, starting, mine, theirs, forgone,
                     strayed, spoiled, applies, edits>>
      /\ faults' \in Nat /\ faults <= faults'
  BY <1>1 DEF RollbackReads, Undoing, files, history, counters, Fault, NoFault, TypeInv
<1>3. /\ op \in OpRecord /\ Current \in Seq(Receipts) /\ Current # <<>> /\ ~Unapplied
      /\ Place \in 1..Len(Current) /\ Len(Current) \in Nat
      /\ op.receipt = Current[Place] /\ op.receipt \in Recorded /\ op.receipt # None
      /\ GoodReceipt(op.receipt)
      /\ Cleaning => op.list = Current /\ op.left = Place
      /\ ~Cleaning => op.list = <<>> /\ pending # <<>> /\ Current = pending
                        /\ Place = Len(pending)
  BY <1>1, <1>2, PlaceOf
<1>4. /\ backup \in Backups /\ hosts \in Contents /\ edits \in Nat /\ faults \in Nat
      /\ Unspoiled' => Unspoiled
  BY <1>1, <1>2 DEF TypeInv, Unspoiled
<1>5. CASE Refuses /\ NotUndone /\ UNCHANGED faults
  <2>1. op.receipt.changed
    BY <1>5 DEF Refuses
  <2>2. Cleaning => Refuses'
    <3>1. Cleaning => op'.receipt = op.receipt
      BY <1>3, <1>5 DEF NotUndone, OpRecord
    <3> QED
      BY <1>2, <1>5, <3>1 DEF Refuses, HostsRestored, BackupRestored
  <2> QED
    BY <1>1, <1>2, <1>3, <1>4, <1>5, <2>1, <2>2, NotUndoneKeeps
    DEF ChainInv, Descends
<1>6. CASE ~op.receipt.changed /\ Undone /\ UNCHANGED faults
  <2>1. op.receipt.previous.block # None
    BY <1>3, <1>6, NoneIsNoPolicy DEF GoodReceipt
  <2>2. ~strayed /\ Unspoiled /\ (~Cleaning \/ Descends) => Before(hosts, backup, Current, Place)
    <3> SUFFICES ASSUME ~strayed, Unspoiled, ~Cleaning \/ Descends
                 PROVE  Before(hosts, backup, Current, Place)
      OBVIOUS
    <3>1. At(hosts, backup, Current, Place)
      <4>1. CASE Cleaning
        BY <1>1, <1>2, <1>3, <4>1 DEF ChainInv
      <4>2. CASE ~Cleaning
        BY <1>1, <1>2, <1>3, <4>2 DEF ChainInv
      <4> QED
        BY <4>1, <4>2
    <3>2. Place \in Nat \ {0} /\ ~Current[Place].changed
      BY <1>3, <1>6
    <3> QED
      BY <1>3, <3>1, <3>2, AtUnchanged DEF Before
  <2>3. ~strayed /\ Unspoiled => At(hosts, backup, Current, Len(Current))
    BY <1>1, <1>2, <1>3 DEF ChainInv
  <2> QED
    BY <1>2, <1>4, <1>6, <2>1, <2>2, <2>3, UndoneKeeps
<1>7. CASE /\ ~Refuses /\ op.receipt.changed /\ UNCHANGED <<pending, unsaved, faults>>
           /\ op' = [op EXCEPT !.pc = IF HostsRestored THEN "undo_backup" ELSE "undo_hosts",
                               !.current = hosts, !.restored = BackupRestored]
  <2>1. /\ op' \in OpRecord /\ op'.pc = IF HostsRestored THEN "undo_backup" ELSE "undo_hosts"
        /\ op'.current = hosts /\ op'.restored = BackupRestored /\ op'.receipt = op.receipt
        /\ op'.list = op.list /\ op'.left = op.left /\ op'.failed = op.failed
        /\ op'.since = op.since /\ op'.met = op.met
    <3> DEFINE pc == IF HostsRestored THEN "undo_backup" ELSE "undo_hosts"
               restored == BackupRestored
    <3>1. pc \in Steps /\ restored \in BOOLEAN
      BY DEF Steps, BackupRestored
    <3>2. op' = [op EXCEPT !.pc = pc, !.current = hosts, !.restored = restored]
      BY <1>7
    <3> HIDE DEF pc, restored
    <3>3. /\ op' \in OpRecord /\ op'.pc = pc
          /\ op'.current = hosts /\ op'.restored = restored /\ op'.receipt = op.receipt
          /\ op'.list = op.list /\ op'.left = op.left /\ op'.failed = op.failed
          /\ op'.since = op.since /\ op'.met = op.met
      BY <1>3, <1>4, <3>1, <3>2 DEF OpRecord
    <3> QED
      BY <3>3 DEF pc, restored
  <2>2. /\ HostsRestored \/ hosts = op.receipt.applied
        /\ BackupRestored \/ backup = op.receipt.previous
    BY <1>7 DEF Refuses
  <2>3. /\ Recorded' = Recorded /\ Current' = Current /\ Unapplied' = Unapplied /\ First' = First
        /\ Linked(committed)' <=> Linked(committed)
        /\ Linked(pending)' <=> Linked(pending)
        /\ LinkedTo(pending[1], committed)' <=> LinkedTo(pending[1], committed)
    BY <1>2, <1>7 DEF Recorded, Current, Unapplied, First, Linked, LinkedTo
  <2>4. Cleaning' <=> Cleaning
    BY <2>1 DEF Cleaning
  <2>5. op'.pc = "undo_backup" => HostsRestored
    BY <2>1
  <2>6. op'.pc = "undo_hosts" => hosts = op.receipt.applied
    BY <2>1, <2>2
  <2>7. op'.pc \in {"undo_backup", "undo_hosts"} /\ op'.pc # "conflict" /\ op'.pc # "next"
        /\ op'.pc # "undo" /\ op'.pc # "write" /\ op'.pc # "record"
    BY <2>1
  <2> HIDE DEF HostsRestored
  <2>8. TypeInv'
    <3>1. OpType'
      BY <1>1, <1>2, <1>3, <1>4, <1>7, <2>1, <2>3, <2>4, <2>6, <2>7
      DEF TypeInv, OpType, Idle, Undoing, GoodReceipt
    <3> QED
      BY <1>1, <1>2, <1>7, <2>1, <2>3, <3>1 DEF TypeInv, GoodReceipt
  <2>9. LinesInv'
    <3>1. Keepers' = Keepers
      BY <1>2, <1>7, <2>1 DEF Keepers
    <3>2. ASSUME NEW d \in mine \ hosts.user, NEW r \in Owing, d \in r.previous.user \ r.applied.user
          PROVE  r \in Owing'
      <4>1. HostsRestored => r # op.receipt
        BY <3>2 DEF HostsRestored
      <4>2. CASE ~Cleaning
        <5>1. r \in ToSet(committed) \cup ToSet(pending)
          BY <1>2, <4>2 DEF Owing, Recorded
        <5>2. pending # <<>> /\ pending \in Seq(Receipts) /\ op.receipt = Last(pending)
          BY <1>1, <1>3, <4>2 DEF TypeInv, Last
        <5>3. r # op.receipt => r \in ToSet(committed) \cup ToSet(Front(pending))
          BY <5>1, <5>2, FrontReceipts
        <5> QED
          BY <1>2, <1>7, <2>4, <2>5, <2>7, <4>1, <4>2, <5>1, <5>3 DEF Owing, Recorded
      <4>3. CASE Cleaning /\ op.failed
        BY <1>2, <2>1, <2>3, <2>4, <2>7, <4>3 DEF Owing
      <4>4. CASE Cleaning /\ ~op.failed
        <5>1. Owing = {op.list[i] : i \in 1..op.left} \cup (IF pending = <<>> THEN {} ELSE ToSet(committed))
          BY <1>2, <4>4 DEF Owing, Below
        <5>2. Owing' = {op.list[i] : i \in 1..Below'} \cup (IF pending = <<>> THEN {} ELSE ToSet(committed))
          BY <1>2, <1>7, <2>1, <2>4, <2>7, <4>4 DEF Owing
        <5>3. CASE r \in {op.list[i] : i \in 1..op.left}
          <6>1. PICK i \in 1..op.left : r = op.list[i]
            BY <5>3
          <6>2. i # op.left \/ op'.pc = "undo_hosts"
            BY <1>3, <2>5, <2>7, <4>1, <4>4, <6>1
          <6>3. i \in 1..Below'
            BY <1>3, <2>1, <2>7, <4>4, <6>1, <6>2 DEF Below
          <6> QED
            BY <5>2, <6>1, <6>3
        <5> QED
          BY <5>1, <5>2, <5>3
      <4> QED
        BY <4>2, <4>3, <4>4
    <3> QED
      BY <1>1, <1>2, <3>1, <3>2, LinesStay
  <2>10. EndsInv'
    BY <1>1, <1>2, <1>3, <2>1, <2>3, <2>5, <2>7 DEF EndsInv, HostsRestored, Unspoiled
  <2>11. ChainInv'
    <3> SUFFICES ASSUME ~strayed, Unspoiled
                 PROVE  /\ At(hosts, backup, Current, Len(Current))
                        /\ Cleaning /\ Descends => At(hosts, backup, op.list, op.left)
                        /\ Cleaning /\ op.since = faults + edits /\ op.met = None =>
                             hosts.block = None /\ ~op.failed
      <4>1. ~strayed /\ Unspoiled =>
              /\ Linked(committed) /\ Linked(pending)
              /\ pending # <<>> => LinkedTo(pending[1], committed)
        BY <1>1 DEF ChainInv
      <4>2. IF op'.restored THEN backup = op.receipt.backup ELSE backup = op.receipt.previous
        BY <2>1, <2>2 DEF BackupRestored
      <4>3. op'.pc = "undo_backup" => hosts = op.receipt.previous
        BY <2>5 DEF HostsRestored
      <4> QED
        BY <1>2, <1>3, <1>4, <1>7, <2>1, <2>3, <2>4, <2>6, <2>7, <4>1, <4>2, <4>3
        DEF ChainInv, Descends
    <3> QED
      BY <1>1, <1>2, <1>3 DEF ChainInv
  <2> QED
    BY <2>8, <2>9, <2>10, <2>11 DEF IInv
<1>8. CASE ~op.receipt.changed /\ ~Cleaning /\ NotUndone /\ Fault
  <2>1. ~strayed /\ Unspoiled' => At(hosts, backup', Current, Len(Current))
    BY <1>1, <1>2, <1>3, <1>4 DEF ChainInv
  <2> QED
    BY <1>2, <1>4, <1>8, <2>1, NotUndoneKeeps
<1> QED
  BY <1>5, <1>6, <1>7, <1>8 DEF RollbackReads, NoFault, counters

LEMMA RestoresHostsKeeps ==
  ASSUME IInv, RestoresHosts
  PROVE  IInv'
<1>1. TypeInv /\ LinesInv /\ EndsInv /\ ChainInv
  BY DEF IInv
<1>2. /\ op.pc = "undo_hosts" /\ Undoing /\ op.receipt.changed /\ op.current = op.receipt.applied
      /\ UNCHANGED <<platform, backup, committed, starting, mine, theirs, forgone, strayed,
                     applies, edits>>
      /\ faults' \in Nat /\ faults <= faults' /\ spoiled \subseteq spoiled'
  BY <1>1 DEF RestoresHosts, Undoing, history, counters, TypeInv, OpType, Fault, NoFault, Gap
<1>3. /\ op \in OpRecord /\ Current \in Seq(Receipts) /\ Current # <<>> /\ ~Unapplied
      /\ Place \in 1..Len(Current) /\ Len(Current) \in Nat
      /\ op.receipt = Current[Place] /\ op.receipt \in Recorded /\ op.receipt # None
      /\ GoodReceipt(op.receipt)
      /\ Cleaning => op.list = Current /\ op.left = Place
      /\ ~Cleaning => op.list = <<>> /\ pending # <<>> /\ Current = pending
                        /\ Place = Len(pending)
  BY <1>1, <1>2, PlaceOf
<1>4. /\ backup \in Backups /\ hosts \in Contents /\ edits \in Nat /\ faults \in Nat
      /\ op.since \in Nat /\ (Cleaning => op.since <= faults + edits)
      /\ Unspoiled' => Unspoiled
      /\ op.receipt.applied.block # None
  BY <1>1, <1>2, <1>3, NoneIsNoPolicy
  DEF TypeInv, Unspoiled, OpType, OpRecord, GoodReceipt
<1>5. CASE /\ NotUndone
           /\ \/ ~Compares(op.current) /\ NoFault /\ hosts' = hosts
              \/ Fault /\ Tears(op.receipt.previous) /\ Gap(TornGap)
  <2>0. hosts' \in Contents /\ (hosts' = hosts \/ "torn" \in spoiled')
    BY <1>3, <1>4, <1>5, TornFile DEF Gap, TornGap, GoodReceipt, Receipts
  <2>1. ~strayed /\ Unspoiled' => At(hosts, backup', Current, Len(Current))
    BY <1>1, <1>2, <1>3, <1>4 DEF ChainInv
  <2>2. ASSUME Fault PROVE faults' = faults + 1
    BY <2>2 DEF Fault
  <2>3. ASSUME ~strayed, Unspoiled, Cleaning, op.since = faults + edits
        PROVE  hosts = op.receipt.applied
    BY <1>1, <1>2, <2>3 DEF ChainInv
  <2>4. ASSUME ~strayed, Unspoiled', Cleaning, op.since = faults' + edits'
        PROVE  FALSE
    <3>1. op.since = faults + edits /\ ~Fault
      <4>1. op.since <= faults + edits /\ faults' \in Nat /\ faults <= faults'
        BY <1>2, <1>4, <2>4
      <4>2. faults' = faults
        <5>1. \A a, b, c, n \in Nat : n <= a + c /\ a <= b /\ n = b + c => a = b
          OBVIOUS
        <5>2. edits' = edits
          BY <1>2
        <5> QED
          BY <1>4, <2>4, <4>1, <5>1, <5>2
      <4> QED
        BY <1>2, <1>4, <2>2, <2>4, <4>2
    <3>2. hosts = op.receipt.applied /\ ~Compares(op.current)
      BY <1>4, <1>5, <2>3, <2>4, <3>1
    <3> QED
      BY <1>2, <3>2 DEF Compares
  <2>5. ASSUME ~strayed, Unspoiled', Cleaning, ~op.failed
        PROVE  At(hosts, backup', op.list, op.left)
    BY <1>1, <1>2, <1>4, <2>5 DEF ChainInv, Descends
  <2> QED
    BY <1>1, <1>2, <1>4, <1>5, <2>0, <2>1, <2>4, <2>5, NotUndoneKeeps
<1>6. CASE /\ Compares(op.current) /\ hosts' = op.receipt.previous
           /\ op' = [op EXCEPT !.pc = "undo_backup"]
           /\ Gap(Overwritten(op.current)) /\ UNCHANGED <<pending, unsaved>> /\ NoFault
  <2>1. /\ op' \in OpRecord /\ op'.pc = "undo_backup" /\ op'.current = op.current
        /\ op'.restored = op.restored /\ op'.receipt = op.receipt
        /\ op'.list = op.list /\ op'.left = op.left /\ op'.failed = op.failed
        /\ op'.since = op.since /\ op'.met = op.met
    BY <1>3, <1>6 DEF OpRecord, Steps
  <2>2. UNCHANGED <<pending, unsaved, faults>>
    BY <1>6 DEF NoFault, counters
  <2>3. /\ Recorded' = Recorded /\ Current' = Current /\ Unapplied' = Unapplied /\ First' = First
        /\ Linked(committed)' <=> Linked(committed)
        /\ Linked(pending)' <=> Linked(pending)
        /\ LinkedTo(pending[1], committed)' <=> LinkedTo(pending[1], committed)
    BY <1>2, <2>2 DEF Recorded, Current, Unapplied, First, Linked, LinkedTo
  <2>4. Cleaning' <=> Cleaning
    BY <2>1 DEF Cleaning
  <2>5. "overwritten" \notin spoiled' => hosts = op.receipt.applied
    <3>1. platform \in {"windows", "other"}
      BY <1>1, PlatformsKnown DEF TypeInv
    <3> QED
      BY <1>2, <1>6, <3>1 DEF Gap, Overwritten, Compares
  <2>6. TypeInv'
    <3>1. OpType'
      BY <1>1, <1>2, <1>3, <1>4, <1>6, <2>1, <2>2, <2>3, <2>4
      DEF TypeInv, OpType, Idle, Undoing, GoodReceipt
    <3>2. hosts' \in Contents
      BY <1>3, <1>6 DEF GoodReceipt, Receipts
    <3> QED
      BY <1>1, <1>2, <2>1, <2>2, <2>3, <3>1, <3>2 DEF TypeInv, GoodReceipt
  <2>7. LinesInv'
    <3> SUFFICES ASSUME Undisturbed'
                 PROVE  /\ (\E G \in SUBSET Contents : Closed(G))'
                        /\ (~strayed /\ forgone = {} =>
                              \A s \in Keepers : Fair(s.previous) /\ Fair(s.applied))'
                        /\ OutIsOwed'
      BY DEF LinesInv
    <3>1. Undisturbed /\ \A content : Fair(content)' <=> Fair(content)
      BY <1>2 DEF Undisturbed, Fair
    <3>2. hosts = op.receipt.applied
      BY <2>5 DEF Undisturbed
    <3>3. Keepers' = Keepers /\ op.receipt \in Keepers
      BY <1>2, <1>3, <2>1, <2>2 DEF Keepers
    <3>4. PICK G \in SUBSET Contents : Closed(G)
      BY <1>1, <3>1 DEF LinesInv
    <3>5. Closed(G)'
      BY <1>6, <3>1, <3>2, <3>3, <3>4 DEF Closed
    <3>6. (~strayed /\ forgone = {} => \A s \in Keepers : Fair(s.previous) /\ Fair(s.applied))'
      BY <1>1, <1>2, <3>1, <3>3 DEF LinesInv
    <3>7. ASSUME NEW d \in mine \ hosts'.user
          PROVE  \E r \in Owing' : d \in r.previous.user \ r.applied.user
      <4>1. d \in mine \ hosts.user /\ d \notin op.receipt.previous.user
        BY <1>3, <1>6, <3>2, <3>7 DEF GoodReceipt
      <4>2. PICK r \in Owing : d \in r.previous.user \ r.applied.user
        BY <1>1, <3>1, <4>1 DEF LinesInv, OutIsOwed
      <4>3. r # op.receipt
        BY <4>1, <4>2
      <4>4. r \in Owing'
        <5>1. CASE ~Cleaning
          <6>1. r \in ToSet(committed) \cup ToSet(pending)
            BY <1>2, <4>2, <5>1 DEF Owing, Recorded
          <6>2. pending # <<>> /\ pending \in Seq(Receipts) /\ op.receipt = Last(pending)
            BY <1>1, <1>3, <5>1 DEF TypeInv, Last
          <6>3. r \in ToSet(committed) \cup ToSet(Front(pending))
            BY <4>3, <6>1, <6>2, FrontReceipts
          <6> QED
            BY <1>2, <2>1, <2>2, <2>4, <5>1, <6>3 DEF Owing
        <5>2. CASE Cleaning /\ op.failed
          BY <1>2, <2>1, <2>3, <2>4, <4>2, <5>2 DEF Owing
        <5>3. CASE Cleaning /\ ~op.failed
          <6>1. Owing = {op.list[i] : i \in 1..op.left} \cup (IF pending = <<>> THEN {} ELSE ToSet(committed))
            BY <1>2, <5>3 DEF Owing, Below
          <6>2. Owing' = {op.list[i] : i \in 1..(op.left - 1)}
                           \cup (IF pending = <<>> THEN {} ELSE ToSet(committed))
            BY <1>2, <2>1, <2>2, <2>4, <5>3 DEF Owing, Below
          <6>3. CASE r \in {op.list[i] : i \in 1..op.left}
            <7>1. PICK i \in 1..op.left : r = op.list[i]
              BY <6>3
            <7>2. i # op.left
              BY <1>3, <4>3, <5>3, <7>1
            <7>3. i \in 1..(op.left - 1)
              BY <1>3, <5>3, <7>1, <7>2
            <7> QED
              BY <6>2, <7>1, <7>3
          <6> QED
            BY <4>2, <6>1, <6>2, <6>3
        <5> QED
          BY <5>1, <5>2, <5>3
      <4> QED
        BY <4>2, <4>4
    <3>8. OutIsOwed'
      BY <1>2, <3>7 DEF OutIsOwed
    <3> QED
      BY <3>5, <3>6, <3>8
  <2>8. EndsInv'
    BY <1>1, <1>2, <1>3, <1>4, <1>6, <2>1, <2>3 DEF EndsInv
  <2>9. ChainInv'
    <3> SUFFICES ASSUME ~strayed, Unspoiled'
                 PROVE  At(hosts', backup, Current, Len(Current))
      <4>1. ~strayed /\ Unspoiled =>
              /\ Linked(committed) /\ Linked(pending)
              /\ pending # <<>> => LinkedTo(pending[1], committed)
              /\ IF op.restored THEN backup = op.receipt.backup ELSE backup = op.receipt.previous
              /\ Cleaning /\ op.since = faults + edits => hosts = op.receipt.applied
              /\ Cleaning /\ op.since = faults + edits /\ op.met = None => hosts.block = None
        BY <1>1, <1>2 DEF ChainInv
      <4> QED
        BY <1>2, <1>3, <1>4, <1>6, <2>1, <2>2, <2>3, <2>4, <4>1 DEF ChainInv
    <3>1. /\ Linked(Current)
          /\ IF op.restored THEN backup = op.receipt.backup ELSE backup = op.receipt.previous
      BY <1>1, <1>2, <1>4 DEF ChainInv, Current
    <3>2. CASE op.restored
      <4>1. At(hosts', backup, Current, Place) /\ Place \in Nat /\ Place <= Len(Current)
        BY <1>3, <1>6, <3>1, <3>2, FoundAt
      <4> QED
        BY <1>3, <4>1, AtUp
    <3>3. CASE ~op.restored
      BY <1>2, <1>3, <1>6, <3>1, <3>3 DEF At
    <3> QED
      BY <3>2, <3>3
  <2> QED
    BY <2>6, <2>7, <2>8, <2>9 DEF IInv
<1> QED
  BY <1>5, <1>6 DEF RestoresHosts

LEMMA RestoresBackupKeeps ==
  ASSUME IInv, RestoresBackup
  PROVE  IInv'
<1>1. TypeInv /\ LinesInv /\ EndsInv /\ ChainInv
  BY DEF IInv
<1> DEFINE restored == IF op.restored THEN backup ELSE op.receipt.backup
<1>2. /\ op.pc = "undo_backup" /\ Undoing /\ op.receipt.changed
      /\ UNCHANGED <<platform, hosts, committed, starting, mine, theirs, forgone, strayed,
                     applies, edits>>
      /\ faults' \in Nat /\ faults <= faults' /\ spoiled \subseteq spoiled'
      /\ \/ backup' = restored /\ Undone /\ NoFault
         \/ backup' \in {backup, restored} /\ NotUndone /\ Fault
  BY <1>1 DEF RestoresBackup, Undoing, history, counters, TypeInv, OpType, Fault, NoFault, Gap
<1>3. /\ op \in OpRecord /\ Current \in Seq(Receipts) /\ Current # <<>> /\ ~Unapplied
      /\ Place \in 1..Len(Current) /\ Len(Current) \in Nat
      /\ op.receipt = Current[Place] /\ op.receipt \in Recorded /\ op.receipt # None
      /\ GoodReceipt(op.receipt)
      /\ Cleaning => op.list = Current /\ op.left = Place
      /\ ~Cleaning => op.list = <<>> /\ pending # <<>> /\ Current = pending
                        /\ Place = Len(pending)
  BY <1>1, <1>2, PlaceOf
<1>4. /\ backup \in Backups /\ hosts \in Contents /\ edits \in Nat /\ faults \in Nat
      /\ op.since \in Nat /\ (Cleaning => op.since <= faults + edits)
      /\ Unspoiled' => Unspoiled
      /\ restored \in Backups
  BY <1>1, <1>2, <1>3 DEF TypeInv, Unspoiled, OpType, OpRecord, GoodReceipt, Receipts
<1>5. ~strayed /\ Unspoiled =>
        /\ Linked(Current) /\ restored = op.receipt.backup
        /\ backup = op.receipt.backup \/ backup = op.receipt.previous
        /\ hosts = op.receipt.previous \/ hosts.block = None
  BY <1>1, <1>2 DEF ChainInv, Current
<1> HIDE DEF restored
<1>6. ASSUME ~strayed, Unspoiled
      PROVE  /\ Before(hosts, restored, Current, Place)
             /\ At(hosts, restored, Current, Place)
             /\ At(hosts, backup, Current, Place)
  <2>1. /\ At(op.receipt.previous, restored, Current, Place)
        /\ Place > 1 => At(op.receipt.previous, restored, Current, Place - 1)
    BY <1>3, <1>5, <1>6, FoundAt
  <2>2. At(hosts, restored, Current, Place)
    BY <1>5, <1>6, <2>1, AtWithoutBlock
  <2>3. Place > 1 => At(hosts, restored, Current, Place - 1)
    BY <1>5, <1>6, <2>1, AtWithoutBlock
  <2>4. Place = 1 \/ Place > 1
    BY <1>3
  <2>5. Before(hosts, restored, Current, Place)
    BY <1>3, <1>5, <1>6, <2>3, <2>4 DEF Before
  <2>6. At(hosts, backup, Current, Place)
    <3>1. CASE backup = op.receipt.backup
      BY <1>5, <1>6, <2>2, <3>1
    <3>2. CASE backup = op.receipt.previous
      <4>1. Place \in 1..Place /\ Current[Place].changed /\ backup = Current[Place].previous
        BY <1>2, <1>3, <3>2
      <4>2. hosts = Current[Place].previous \/ hosts.block = None
        BY <1>3, <1>5, <1>6
      <4> QED
        BY <4>1, <4>2 DEF At, Explained
    <3> QED
      BY <1>5, <1>6, <3>1, <3>2
  <2> QED
    BY <2>2, <2>5, <2>6
<1>7. Place \in Nat /\ Place <= Len(Current)
  BY <1>3
<1>8. CASE backup' = restored /\ Undone /\ NoFault
  <2>1. UNCHANGED faults
    BY <1>8 DEF NoFault, counters
  <2>2. ~strayed /\ Unspoiled' => At(hosts, backup', Current, Len(Current))
    BY <1>3, <1>4, <1>6, <1>7, <1>8, AtUp
  <2>3. op.receipt.previous.block = None => hosts.block = None
    BY <1>1, <1>2 DEF EndsInv
  <2> QED
    BY <1>2, <1>4, <1>6, <1>8, <2>1, <2>2, <2>3, UndoneKeeps
<1>9. CASE backup' \in {backup, restored} /\ NotUndone /\ Fault
  <2>1. ~strayed /\ Unspoiled' => At(hosts, backup', Current, Place)
    BY <1>4, <1>6, <1>9
  <2>2. ~strayed /\ Unspoiled' => At(hosts, backup', Current, Len(Current))
    BY <1>3, <1>7, <2>1, AtUp
  <2>3. Cleaning => op.since # faults' + edits'
    BY <1>2, <1>4, <1>9 DEF Fault
  <2>4. backup' \in Backups
    BY <1>4, <1>9
  <2> QED
    BY <1>2, <1>3, <1>4, <1>9, <2>1, <2>2, <2>3, <2>4, NotUndoneKeeps
<1> QED
  BY <1>2, <1>8, <1>9

-----------------------------------------------------------------------------
(* Cleanup *)

LEMMA CleansKeeps ==
  ASSUME IInv, NEW list, list = Current, Cleans(list)
  PROVE  IInv'
<1>1. TypeInv /\ LinesInv /\ EndsInv /\ ChainInv
  BY DEF IInv
<1>2. /\ op = NoOp /\ op.pc = "idle" /\ op.list = <<>> /\ op.receipt = None /\ list # <<>>
      /\ UNCHANGED <<platform, hosts, backup, pending, committed, unsaved, starting, mine,
                     theirs, forgone, strayed, spoiled, applies, edits, faults>>
  BY <1>1, EmptyOp DEF Cleans, Idle, TypeInv, OpType, files, receipts, history, counters
<1>3. /\ list \in Seq(Receipts) /\ Len(list) \in 1..Len(list) /\ Last(list) = list[Len(list)]
      /\ Last(list) \in ToSet(list) /\ ToSet(list) = {list[i] : i \in 1..Len(list)}
      /\ ToSet(list) \subseteq Recorded /\ Last(list) \in Receipts /\ GoodReceipt(Last(list))
      /\ Last(list) # None
  <2>1. list \in Seq(Receipts)
    BY <1>1 DEF TypeInv, Current
  <2>2. /\ Len(list) \in 1..Len(list) /\ Last(list) = list[Len(list)]
        /\ Last(list) \in ToSet(list) /\ ToSet(list) = {list[i] : i \in 1..Len(list)}
        /\ Last(list) \in Receipts
    BY <1>2, <2>1, ReceiptSequence
  <2>3. ToSet(list) \subseteq Recorded
    BY DEF Current, Recorded
  <2> QED
    BY <1>1, <2>1, <2>2, <2>3, NoneIsNoReceipt DEF TypeInv
<1>4. hosts.block \in Policies \cup {None, Broken} /\ faults + edits \in Nat
  BY <1>1 DEF TypeInv, Contents
<1>5. /\ op' \in OpRecord /\ op'.pc = "undo" /\ op'.list = list /\ op'.left = Len(list)
      /\ op'.receipt = Last(list) /\ op'.met = hosts.block /\ op'.since = faults + edits
      /\ op'.failed = FALSE /\ Cleaning'
  <2>1. op' = [NoOp EXCEPT !.pc = "undo", !.list = list, !.left = Len(list),
                           !.receipt = Last(list), !.met = hosts.block, !.since = faults + edits]
    BY DEF Cleans
  <2>2. Len(list) \in Nat /\ "undo" \in Steps
    BY <1>3 DEF Steps
  <2>3. /\ op' \in OpRecord /\ op'.pc = "undo" /\ op'.list = list /\ op'.left = Len(list)
        /\ op'.receipt = Last(list) /\ op'.met = hosts.block /\ op'.since = faults + edits
        /\ op'.failed = NoOp.failed
    BY <1>3, <1>4, <2>1, <2>2, EmptyOp DEF OpRecord
  <2> QED
    BY <1>2, <2>3, EmptyOp DEF Cleaning
<1>6. /\ Recorded' = Recorded /\ Current' = Current /\ Unapplied' = Unapplied /\ First' = First
      /\ Linked(committed)' <=> Linked(committed)
      /\ Linked(pending)' <=> Linked(pending)
      /\ LinkedTo(pending[1], committed)' <=> LinkedTo(pending[1], committed)
      /\ ~Unapplied
  BY <1>2 DEF Recorded, Current, Unapplied, First, Linked, LinkedTo
<1>7. TypeInv'
  <2>1. OpType'
    BY <1>2, <1>3, <1>4, <1>5, <1>6 DEF OpType, Idle, Undoing, GoodReceipt
  <2> QED
    BY <1>1, <1>2, <1>5, <1>6, <2>1 DEF TypeInv, GoodReceipt
<1>8. LinesInv'
  <2>1. Keepers' \subseteq Keepers
    <3>1. Recorded \subseteq Keepers
      BY DEF Recorded, Keepers
    <3>2. Keepers' = Recorded \cup {Last(list)}
      BY <1>2, <1>3, <1>5 DEF Recorded, Keepers
    <3> QED
      BY <1>3, <3>1, <3>2
  <2>2. Owing = Recorded
    BY <1>2 DEF Owing, Cleaning
  <2>3. Owing' = ToSet(list) \cup (IF pending = <<>> THEN {} ELSE ToSet(committed))
    BY <1>2, <1>3, <1>5 DEF Owing, Below
  <2>4. pending = <<>> => ToSet(pending) = {}
    BY DEF ToSet
  <2>5. Owing \subseteq Owing'
    BY <2>2, <2>3, <2>4 DEF Recorded, Current
  <2> QED
    BY <1>1, <1>2, <2>1, <2>5, LinesStay
<1>9. EndsInv'
  BY <1>1, <1>2, <1>5, <1>6 DEF EndsInv, Unspoiled
<1>10. ChainInv'
  <2>1. ~strayed /\ Unspoiled =>
          /\ Linked(committed) /\ Linked(pending)
          /\ pending # <<>> => LinkedTo(pending[1], committed)
          /\ At(hosts, backup, list, Len(list))
    BY <1>1, <1>2 DEF ChainInv
  <2> QED
    BY <1>2, <1>5, <1>6, <2>1 DEF ChainInv, Unspoiled
<1> QED
  BY <1>7, <1>8, <1>9, <1>10 DEF IInv

LEMMA CleansNextKeeps ==
  ASSUME IInv, CleansNext
  PROVE  IInv'
<1>1. TypeInv /\ LinesInv /\ EndsInv /\ ChainInv
  BY DEF IInv
<1>2. /\ op.pc = "next" /\ op \in OpRecord /\ Cleaning /\ op.list = Current
      /\ op.left \in 1..Len(op.list) /\ op.list \in Seq(Receipts) /\ op.list # <<>>
      /\ UNCHANGED <<platform, hosts, backup, mine, theirs, forgone, strayed, spoiled, applies,
                     edits>>
      /\ faults' \in Nat
      /\ pending \in Seq(Receipts) /\ committed \in Seq(Receipts) /\ ~Unapplied
  BY <1>1 DEF CleansNext, TypeInv, OpType, Current, Cleaning, Unapplied, files, history, counters,
              Fault, NoFault
<1>3. /\ Len(op.list) \in Nat /\ ToSet(op.list) \subseteq Recorded
      /\ \A i \in 1..Len(op.list) :
           op.list[i] \in Recorded /\ GoodReceipt(op.list[i]) /\ op.list[i] \in Receipts
  <2>1. ToSet(op.list) \subseteq Recorded
    BY <1>2 DEF Current, Recorded
  <2>2. Len(op.list) \in Nat /\ ToSet(op.list) = {op.list[i] : i \in 1..Len(op.list)}
    BY <1>2, ReceiptSequence
  <2> QED
    BY <1>1, <2>1, <2>2 DEF TypeInv, GoodReceipt
<1>4. CASE /\ op.left > 1 /\ UNCHANGED <<pending, committed, unsaved, starting, faults>>
           /\ op' = [op EXCEPT !.pc = "undo", !.left = @ - 1, !.receipt = op.list[op.left - 1]]
  <2>1. op.left - 1 \in 1..Len(op.list) /\ op.left - 1 \in Nat
    BY <1>2, <1>3, <1>4
  <2>2. /\ op' \in OpRecord /\ op'.pc = "undo" /\ op'.list = op.list /\ op'.left = op.left - 1
        /\ op'.receipt = op.list[op.left - 1] /\ op'.met = op.met /\ op'.since = op.since
        /\ op'.failed = op.failed /\ Cleaning'
    BY <1>2, <1>3, <1>4, <2>1 DEF OpRecord, Steps, Cleaning
  <2>3. op'.receipt \in Recorded /\ GoodReceipt(op'.receipt) /\ op'.receipt # None
    BY <1>3, <2>1, <2>2, NoneIsNoReceipt
  <2>4. /\ Recorded' = Recorded /\ Current' = Current /\ Unapplied' = Unapplied /\ First' = First
        /\ Linked(committed)' <=> Linked(committed)
        /\ Linked(pending)' <=> Linked(pending)
        /\ LinkedTo(pending[1], committed)' <=> LinkedTo(pending[1], committed)
    BY <1>4 DEF Recorded, Current, Unapplied, First, Linked, LinkedTo
  <2>5. TypeInv'
    <3>1. OpType'
      BY <1>1, <1>2, <1>4, <2>1, <2>2, <2>3, <2>4
      DEF TypeInv, OpType, Idle, Undoing, GoodReceipt
    <3> QED
      BY <1>1, <1>2, <1>4, <2>2, <2>4, <3>1 DEF TypeInv, GoodReceipt
  <2>6. LinesInv'
    <3>1. Keepers' \subseteq Keepers
      BY <1>4, <2>2, <2>3 DEF Recorded, Keepers
    <3>2. Owing' = Owing
      BY <1>2, <1>4, <2>2, <2>4 DEF Owing, Below
    <3> QED
      BY <1>1, <1>2, <3>1, <3>2, LinesStay
  <2>7. EndsInv'
    BY <1>1, <1>2, <2>2, <2>4 DEF EndsInv, Unspoiled
  <2>8. ChainInv'
    <3>1. ~strayed /\ Unspoiled =>
            /\ Linked(committed) /\ Linked(pending)
            /\ pending # <<>> => LinkedTo(pending[1], committed)
            /\ At(hosts, backup, Current, Len(Current))
            /\ Descends => At(hosts, backup, op.list, op.left - 1)
            /\ op.since = faults + edits /\ op.met = None => hosts.block = None /\ ~op.failed
      BY <1>1, <1>2, <1>4 DEF ChainInv
    <3> QED
      BY <1>2, <1>4, <2>2, <2>4, <3>1 DEF ChainInv, Unspoiled, Descends
  <2> QED
    BY <2>5, <2>6, <2>7, <2>8 DEF IInv
<1>5. CASE op.left = 1 /\ op' = NoOp /\ UNCHANGED <<pending, committed, unsaved, starting>>
  BY <1>1, <1>2, <1>5, CallEnds DEF TypeInv
<1>6. CASE /\ op.left = 1 /\ op' = NoOp /\ ~op.failed /\ UNCHANGED faults
           /\ \/ /\ pending # <<>> /\ pending' = <<>> /\ unsaved' = FALSE /\ starting' = FALSE
                 /\ UNCHANGED committed
              \/ pending = <<>> /\ committed' = <<>> /\ UNCHANGED <<pending, unsaved, starting>>
  <2>1. /\ ToSet(<<>>) = {} /\ <<>> \in Seq(Receipts) /\ op.list[1] = Current[1]
    BY <1>2 DEF ToSet
  <2>2. /\ pending' \in Seq(Receipts) /\ committed' \in Seq(Receipts) /\ pending' = <<>>
        /\ Recorded' = IF pending = <<>> THEN {} ELSE ToSet(committed)
        /\ committed' = IF pending = <<>> THEN <<>> ELSE committed
    BY <1>2, <1>6, <2>1 DEF Recorded
  <2>3. Recorded' \subseteq Recorded
    BY <2>2 DEF Recorded
  <2>4. TypeInv'
    <3>1. (op \in OpRecord /\ OpType)'
      BY <1>6, OpEnds
    <3>2. unsaved' \in BOOLEAN /\ starting' \in BOOLEAN /\ ~unsaved'
      <4>1. CASE unsaved' = FALSE /\ starting' = FALSE
        BY <4>1
      <4>2. CASE pending = <<>> /\ unsaved' = unsaved /\ starting' = starting
        BY <1>1, <4>2 DEF TypeInv
      <4> QED
        BY <1>6, <4>1, <4>2
    <3> QED
      BY <1>1, <1>2, <2>2, <2>3, <3>1, <3>2 DEF TypeInv, GoodReceipt
  <2>5. LinesInv'
    <3>1. Keepers' \subseteq Keepers
      <4>1. Keepers' = Recorded'
        BY <1>6, EmptyOp DEF Keepers, Recorded
      <4> QED
        BY <2>3, <4>1 DEF Keepers, Recorded
    <3>2. Owing' = Recorded'
      BY <1>6, EmptyOp DEF Owing, Cleaning
    <3>3. Owing = IF pending = <<>> THEN {} ELSE ToSet(committed)
      <4>1. 1..Below = {}
        BY <1>2, <1>6 DEF Below
      <4> QED
        BY <1>2, <1>6, <4>1 DEF Owing
    <3> QED
      BY <1>1, <1>2, <2>2, <3>1, <3>2, <3>3, LinesStay
  <2>6. Descends /\ Unspoiled' = Unspoiled
    BY <1>2, <1>6 DEF Descends, Unspoiled
  <2>7. ~strayed /\ Unspoiled =>
          /\ Linked(committed) /\ Linked(pending) /\ Bottom
          /\ pending # <<>> => LinkedTo(pending[1], committed)
    BY <1>1, <1>2, <1>6, <2>6 DEF ChainInv
  <2>8. EndsInv'
    <3> SUFFICES ASSUME Unspoiled
                 PROVE  /\ Unapplied' => hosts.block = None /\ (strayed \/ backup = theirs)
                        /\ ~Unapplied' => First'.previous.block = None
                                            /\ (strayed \/ First'.backup = theirs)
      BY <1>2, <1>6, <2>6, EmptyOp DEF EndsInv
    <3>1. First.previous.block = None /\ (strayed \/ First.backup = theirs)
      BY <1>1, <1>2 DEF EndsInv
    <3>2. ASSUME Unapplied'
          PROVE  hosts.block = None /\ (strayed \/ backup = theirs)
      <4>1. committed = <<>> \/ pending = <<>>
        BY <2>2, <3>2 DEF Unapplied
      <4>2. First = op.list[1]
        BY <1>2, <2>1, <4>1 DEF First, Current, Unapplied
      <4> QED
        BY <1>1, <1>2, <1>6, <2>7, <3>1, <4>2 DEF EndsInv, Bottom
    <3>3. ASSUME ~Unapplied'
          PROVE  First' = First
      BY <2>2, <3>3 DEF Unapplied, First
    <3> QED
      BY <3>1, <3>2, <3>3
  <2>9. ChainInv'
    <3> SUFFICES ASSUME ~strayed, Unspoiled
                 PROVE  /\ Linked(committed') /\ Linked(pending')
                        /\ committed' # <<>> => At(hosts, backup, committed', Len(committed'))
      BY <1>2, <1>6, <2>2, <2>6, EmptyOp DEF ChainInv, Cleaning, Linked, Current
    <3>1. Linked(<<>>)
      BY DEF Linked
    <3>2. ASSUME committed' # <<>>
          PROVE  At(hosts, backup, committed', Len(committed'))
      <4>1. pending # <<>> /\ committed' = committed /\ committed # <<>>
        BY <2>2, <3>2
      <4>2. /\ hosts = pending[1].previous \/ hosts.block = None
            /\ backup = pending[1].backup
        BY <2>1, <2>7, <4>1 DEF Bottom, Current
      <4>3. At(pending[1].previous, backup, committed, Len(committed))
        BY <2>7, <4>1, <4>2 DEF LinkedTo
      <4> QED
        BY <4>1, <4>2, <4>3, AtWithoutBlock
    <3> QED
      BY <2>2, <2>7, <3>1, <3>2
  <2> QED
    BY <2>4, <2>5, <2>8, <2>9 DEF IInv
<1> QED
  <2>1. CASE \/ op.left = 1 /\ op.failed /\ op' = NoOp /\ NoFault /\ UNCHANGED <<receipts, starting>>
             \/ op.left = 1 /\ ~op.failed /\ op' = NoOp /\ Fault /\ UNCHANGED <<receipts, starting>>
    BY <1>5, <2>1 DEF receipts
  <2>2. CASE /\ op.left = 1 /\ ~op.failed /\ op' = NoOp /\ NoFault
             /\ IF pending # <<>>
                THEN pending' = <<>> /\ unsaved' = FALSE /\ starting' = FALSE /\ UNCHANGED committed
                ELSE committed' = <<>> /\ UNCHANGED <<pending, unsaved, starting>>
    BY <1>6, <2>2 DEF NoFault, counters
  <2>3. CASE /\ op.left > 1 /\ NoFault /\ UNCHANGED <<receipts, starting>>
             /\ op' = [op EXCEPT !.pc = "undo", !.left = @ - 1, !.receipt = op.list[op.left - 1]]
    BY <1>4, <2>3 DEF NoFault, counters, receipts
  <2> QED
    BY <2>1, <2>2, <2>3 DEF CleansNext

LEMMA CleanupConflictKeeps ==
  ASSUME IInv, CleanupConflict
  PROVE  IInv'
<1>1. TypeInv /\ LinesInv /\ EndsInv /\ ChainInv
  BY DEF IInv
<1>2. /\ op.pc = "conflict" /\ op.receipt.changed /\ Cleaning
      /\ UNCHANGED <<platform, hosts, pending, committed, unsaved, starting, mine, theirs,
                     forgone, strayed, spoiled, applies, edits>>
      /\ faults' \in Nat /\ faults <= faults'
  BY <1>1 DEF CleanupConflict, history, receipts, counters, TypeInv, OpType, Fault, NoFault
<1>3. /\ op \in OpRecord /\ Current \in Seq(Receipts) /\ Current # <<>> /\ ~Unapplied
      /\ Place \in 1..Len(Current) /\ Len(Current) \in Nat
      /\ op.receipt = Current[Place] /\ op.receipt \in Recorded /\ op.receipt # None
      /\ GoodReceipt(op.receipt) /\ op.list = Current /\ op.left = Place
  BY <1>1, <1>2, PlaceOf
<1>4. /\ backup \in Backups /\ hosts \in Contents /\ edits \in Nat /\ faults \in Nat
      /\ op.since \in Nat /\ op.since <= faults + edits
  BY <1>1, <1>2, <1>3 DEF TypeInv, OpType, OpRecord
<1>5. /\ Recorded' = Recorded /\ Current' = Current /\ Unapplied' = Unapplied /\ First' = First
      /\ Linked(committed)' <=> Linked(committed)
      /\ Linked(pending)' <=> Linked(pending)
      /\ LinkedTo(pending[1], committed)' <=> LinkedTo(pending[1], committed)
      /\ Unspoiled' <=> Unspoiled
  BY <1>2 DEF Recorded, Current, Unapplied, First, Linked, LinkedTo, Unspoiled
<1>6. ~strayed /\ Unspoiled =>
        /\ Linked(committed) /\ Linked(pending) /\ Linked(Current)
        /\ pending # <<>> => LinkedTo(pending[1], committed)
        /\ At(hosts, backup, Current, Len(Current))
        /\ Descends => At(hosts, backup, op.list, op.left)
        /\ op.since = faults + edits =>
             Refuses /\ (op.met = None => hosts.block = None /\ ~op.failed)
  BY <1>1, <1>2, <1>3 DEF ChainInv, Current
\* The oldest receipt that changed something.
<1>7. /\ OldestBackup \in Backups
      /\ ~strayed /\ Unspoiled => OldestBackup = op.list[1].backup
  <2>1. DOMAIN op.list = 1..Len(op.list) /\ \A i \in 1..Len(op.list) : op.list[i] \in Receipts
    BY <1>3
  <2>2. ChangedAt \in SUBSET (1..Len(op.list)) /\ Place \in ChangedAt
    BY <1>2, <1>3, <2>1 DEF ChangedAt
  <2>3. Min(ChangedAt) \in ChangedAt /\ \A j \in ChangedAt : Min(ChangedAt) <= j
    BY <1>3, <2>2, LeastPosition
  <2>4. PICK k \in 1..Len(op.list) : k = Min(ChangedAt)
    BY <2>2, <2>3
  <2>5. \A i \in 1..(k - 1) : ~op.list[i].changed
    <3> SUFFICES ASSUME NEW i \in 1..(k - 1), op.list[i].changed PROVE FALSE
      OBVIOUS
    <3>1. i \in ChangedAt
      BY <2>1, <2>4 DEF ChangedAt
    <3>2. k <= i
      BY <2>3, <2>4, <3>1
    <3> QED
      BY <3>2
  <2>6. OldestBackup = op.list[k].backup
    BY <2>4 DEF OldestBackup
  <2>7. ~strayed /\ Unspoiled => op.list[k].backup = op.list[1].backup
    BY <1>3, <1>6, <2>4, <2>5, OldestIsFirst
  <2>8. op.list[k].backup \in Backups
    BY <2>1 DEF Receipts
  <2> QED
    BY <2>6, <2>7, <2>8
<1>8. ASSUME op' = [op EXCEPT !.pc = "next", !.failed = TRUE], backup' = backup,
             \/ faults' > faults
             \/ hosts.block # None
             \/ backup # OldestBackup /\ ~Provable
      PROVE  IInv'
  <2>1. /\ op' \in OpRecord /\ op'.pc = "next" /\ op'.receipt = op.receipt /\ op'.list = op.list
        /\ op'.left = op.left /\ op'.failed = TRUE /\ op'.since = op.since
        /\ op'.met = op.met /\ Cleaning'
    BY <1>2, <1>3, <1>8 DEF OpRecord, Steps, Cleaning
  <2>2. TypeInv'
    <3>1. op.since <= faults' + edits'
      BY <1>2, <1>4
    <3>2. OpType'
      BY <1>1, <1>2, <1>3, <1>5, <2>1, <3>1 DEF TypeInv, OpType, Idle, Undoing, GoodReceipt
    <3> QED
      BY <1>1, <1>2, <1>5, <1>8, <2>1, <3>2 DEF TypeInv, GoodReceipt
  <2>3. LinesInv'
    <3>1. Keepers' = Keepers
      BY <1>2, <2>1 DEF Keepers
    <3>2. Owing' = Recorded
      BY <1>5, <2>1 DEF Owing
    <3>3. Owing \subseteq Recorded
      <4>1. CASE op.failed
        BY <1>2, <4>1 DEF Owing
      <4>2. CASE ~op.failed
        <5>1. Owing = {op.list[i] : i \in 1..op.left} \cup (IF pending = <<>> THEN {} ELSE ToSet(committed))
          BY <1>2, <4>2 DEF Owing, Below
        <5>2. 1..op.left \subseteq 1..Len(op.list)
          BY <1>3
        <5>3. ToSet(op.list) = {op.list[i] : i \in 1..Len(op.list)} /\ ToSet(op.list) \subseteq Recorded
          <6>1. ToSet(op.list) \subseteq Recorded
            BY <1>3 DEF Recorded, Current
          <6> QED
            BY <1>3, <6>1, ReceiptSequence
        <5>4. (IF pending = <<>> THEN {} ELSE ToSet(committed)) \subseteq Recorded
          BY DEF Recorded
        <5> QED
          BY <5>1, <5>2, <5>3, <5>4
      <4> QED
        BY <4>1, <4>2
    <3> QED
      BY <1>1, <1>2, <3>1, <3>2, <3>3, LinesStay
  <2>4. EndsInv'
    BY <1>1, <1>2, <1>3, <1>5, <1>8, <2>1 DEF EndsInv
  <2>5. ChainInv'
    <3>1. ASSUME ~strayed, Unspoiled, op.since = faults' + edits'
          PROVE  /\ op.left > 1 => At(hosts, backup, op.list, op.left - 1)
                 /\ op.left = 1 => Bottom
                 /\ op.met # None
      <4>1. faults' = faults /\ op.since = faults + edits
        <5>1. \A a, b, c, n \in Nat : n <= a + c /\ a <= b /\ n = b + c => a = b
          OBVIOUS
        <5>2. edits' = edits
          BY <1>2
        <5>3. faults' = faults
          BY <1>2, <1>4, <3>1, <5>1, <5>2
        <5> QED
          BY <3>1, <5>2, <5>3
      <4>2. At(hosts, backup, op.list, op.left) /\ Refuses
        BY <1>6, <3>1, <4>1 DEF Descends
      <4>3. ~(faults' > faults)
        BY <1>4, <4>1
      <4>4. hosts.block # None
        <5> SUFFICES ASSUME backup # OldestBackup, ~Provable
                     PROVE  FALSE
          BY <1>8, <4>3
        <5>1. Explained(backup, op.list, op.left)
          BY <4>2, AtExplains
        <5>2. backup # op.list[1].backup
          BY <1>7, <3>1
        <5>3. PICK i \in 1..op.left : op.list[i].changed /\ backup = op.list[i].previous
          BY <5>1, <5>2 DEF Explained
        <5>4. i \in DOMAIN op.list
          BY <1>3
        <5> QED
          BY <5>3, <5>4 DEF Provable, ChangedAt
      <4>5. op.met # None
        BY <1>6, <3>1, <4>1, <4>4
      <4>6. ~(op.list[op.left].changed /\ backup = op.list[op.left].previous
                /\ hosts \in {op.list[op.left].previous, op.list[op.left].applied})
        BY <1>3, <4>2 DEF Refuses, HostsRestored, BackupRestored
      <4>7. op.left = 1 => ~(hosts = op.list[1].previous /\ backup = op.list[1].backup)
        BY <1>3, <4>2 DEF Refuses, HostsRestored, BackupRestored
      <4>8. \A i \in 1..op.left : i = op.left \/ i \in 1..(op.left - 1)
        BY <1>3
      <4>9. At(hosts, backup, op.list, op.left - 1) /\ op.left # 1
        <5>1. CASE hosts = op.list[1].previous /\ backup = op.list[1].backup
          BY <4>7, <5>1 DEF At
        <5>2. CASE \E i \in 1..op.left : /\ op.list[i].changed /\ backup = op.list[i].previous
                                         /\ hosts \in {op.list[i].previous, op.list[i].applied}
          <6>1. PICK i \in 1..op.left : /\ op.list[i].changed /\ backup = op.list[i].previous
                                        /\ hosts \in {op.list[i].previous, op.list[i].applied}
            BY <5>2
          <6>2. i \in 1..(op.left - 1)
            BY <4>6, <4>8, <6>1
          <6>3. op.left # 1
            BY <1>3, <6>2
          <6> QED
            BY <6>1, <6>2, <6>3 DEF At
        <5> QED
          BY <4>2, <4>4, <5>1, <5>2 DEF At
      <4> QED
        BY <4>5, <4>9
    <3>2. Bottom' <=> Bottom
      BY <1>2, <1>8, <2>1 DEF Bottom
    <3> QED
      BY <1>2, <1>3, <1>5, <1>6, <1>8, <2>1, <3>1, <3>2 DEF ChainInv, Descends
  <2> QED
    BY <2>2, <2>3, <2>4, <2>5 DEF IInv
<1>9. ASSUME op' = [op EXCEPT !.pc = "next", !.left = 1], hosts.block = None,
             backup' = OldestBackup, faults' = faults
      PROVE  IInv'
  <2>1. /\ op' \in OpRecord /\ op'.pc = "next" /\ op'.receipt = op.receipt /\ op'.list = op.list
        /\ op'.left = 1 /\ op'.failed = op.failed /\ op'.since = op.since
        /\ op'.met = op.met /\ Cleaning'
    BY <1>2, <1>3, <1>9 DEF OpRecord, Steps, Cleaning
  <2>2. TypeInv'
    <3>1. 1 \in 1..Len(op.list)
      BY <1>3
    <3>2. OpType'
      BY <1>1, <1>2, <1>3, <1>4, <1>5, <1>9, <2>1, <3>1
      DEF TypeInv, OpType, Idle, Undoing, GoodReceipt
    <3> QED
      BY <1>1, <1>2, <1>5, <1>7, <1>9, <2>1, <3>2 DEF TypeInv, GoodReceipt
  <2>3. LinesInv'
    <3>1. Keepers' = Keepers
      BY <1>2, <2>1 DEF Keepers
    <3>2. Undisturbed' => mine \subseteq hosts.user
      BY <1>1, <1>2, <1>9 DEF Undisturbed, LinesInv, Closed, Fair
    <3> QED
      BY <1>1, <1>2, <3>1, <3>2, LinesStay
  <2>4. EndsInv'
    BY <1>1, <1>2, <1>3, <1>5, <1>9, <2>1 DEF EndsInv
  <2>5. ChainInv'
    <3>1. ~strayed /\ Unspoiled => Bottom'
      BY <1>2, <1>7, <1>9, <2>1 DEF Bottom
    <3>2. ~strayed /\ Unspoiled => At(hosts, backup', Current, Len(Current))
      BY <1>3, <1>7, <1>9 DEF At, Explained
    <3> QED
      BY <1>2, <1>3, <1>5, <1>6, <1>9, <2>1, <3>1, <3>2 DEF ChainInv, Descends
  <2> QED
    BY <2>2, <2>3, <2>4, <2>5 DEF IInv
<1> QED
  <2>1. NoFault => faults' = faults
    BY DEF NoFault, counters
  <2>2. Fault => faults' > faults
    BY <1>4 DEF Fault
  <2> DEFINE goesOn == op' = [op EXCEPT !.pc = "next", !.failed = TRUE]
             done == op' = [op EXCEPT !.pc = "next", !.left = 1]
  <2>3. \/ hosts.block # None /\ goesOn /\ backup' = backup
        \/ /\ hosts.block = None /\ NoFault
           /\ IF backup = OldestBackup THEN done /\ backup' = backup
              ELSE IF Provable THEN done /\ backup' = OldestBackup
              ELSE goesOn /\ backup' = backup
        \/ hosts.block = None /\ Fault /\ goesOn /\ backup' = backup
    BY DEF CleanupConflict
  <2>4. goesOn => op' = [op EXCEPT !.pc = "next", !.failed = TRUE]
    BY Zenon DEF goesOn
  <2>5. done => op' = [op EXCEPT !.pc = "next", !.left = 1]
    BY Zenon DEF done
  <2> HIDE DEF goesOn, done
  <2>6. CASE hosts.block # None /\ goesOn /\ backup' = backup
    BY <1>8, <2>4, <2>6
  <2>7. CASE hosts.block = None /\ Fault /\ goesOn /\ backup' = backup
    BY <1>8, <2>2, <2>4, <2>7
  <2>8. CASE hosts.block = None /\ faults' = faults /\ done /\ backup' = OldestBackup
    BY <1>9, <2>5, <2>8
  <2>9. CASE hosts.block = None /\ backup # OldestBackup /\ ~Provable /\ goesOn /\ backup' = backup
    BY <1>8, <2>4, <2>9
  <2> QED
    BY <2>1, <2>3, <2>6, <2>7, <2>8, <2>9

-----------------------------------------------------------------------------
(* The user and the process *)

\* An edit that the adapter must refuse, or one before there is anything of it.
LEMMA StrayEnds ==
  ASSUME IInv, Strays, UNCHANGED <<platform, pending, committed, unsaved, starting, op, applies,
                                   faults>>,
         hosts' \in Contents, hosts.block = None => hosts'.block = None,
         backup' \in Backups, theirs' \in {Missing, Theirs},
         mine' \subseteq Domains, forgone' = forgone, edits' = edits + 1, spoiled \subseteq spoiled',
         (backup' = backup /\ theirs' = theirs) \/ backup' = theirs',
         LinesInv'
  PROVE  IInv'
<1>1. TypeInv /\ LinesInv /\ EndsInv /\ ChainInv
  BY DEF IInv
<1>2. /\ Recorded' = Recorded /\ Current' = Current /\ Unapplied' = Unapplied /\ First' = First
      /\ Unspoiled' => Unspoiled
      /\ Cleaning' = Cleaning /\ Undoing' = Undoing /\ Idle' = Idle
  BY DEF Recorded, Current, Unapplied, First, Unspoiled, Cleaning, Undoing, Idle
<1>3. edits \in Nat /\ faults \in Nat /\ op.since \in Nat /\ (Cleaning => op.since <= faults + edits)
  BY <1>1 DEF TypeInv, OpType, OpRecord
<1>4. strayed' \in BOOLEAN /\ (strayed => strayed') /\ (~strayed' => Idle /\ Unapplied)
  <2>1. ~strayed' => Idle /\ pending = <<>> /\ committed = <<>>
    <3>1. ~strayed' => Idle /\ pending \o committed = <<>>
      BY DEF Strays
    <3>2. pending \in Seq(Receipts) /\ committed \in Seq(Receipts)
      BY <1>1 DEF TypeInv
    <3> QED
      BY <3>1, <3>2, ConcatEqualIffEmpty
  <2>2. strayed' \in BOOLEAN
    BY DEF Strays
  <2> QED
    BY <2>1, <2>2 DEF Strays, Unapplied
<1>5. TypeInv'
  <2>1. Cleaning => op.since <= faults + edits'
    BY <1>3
  <2>2. OpType'
    BY <1>1, <1>2, <2>1 DEF TypeInv, OpType, GoodReceipt
  <2>3. edits' \in Nat
    BY <1>3
  <2> QED
    BY <1>1, <1>2, <1>4, <2>2, <2>3 DEF TypeInv, GoodReceipt
<1>6. EndsInv'
  <2>1. op' = op /\ (backup = theirs => backup' = theirs')
    OBVIOUS
  <2>2. CASE strayed'
    BY <1>1, <1>2, <2>1, <2>2 DEF EndsInv
  <2>3. CASE ~strayed'
    <3>1. ~strayed /\ Idle /\ Unapplied
      BY <1>4, <2>3
    <3>2. op.pc = "idle" /\ op.receipt = None
      BY <1>1, <3>1 DEF Idle, TypeInv, OpType, NoOp
    <3> QED
      BY <1>1, <1>2, <2>1, <3>1, <3>2 DEF EndsInv
  <2> QED
    BY <2>2, <2>3
<1>7. ChainInv'
  <2> SUFFICES ASSUME ~strayed' PROVE ChainInv'
    BY DEF ChainInv
  <2>1. op = NoOp /\ pending = <<>> /\ committed = <<>>
    BY <1>1, <1>4 DEF TypeInv, OpType, Unapplied
  <2> QED
    BY <2>1, EmptyOp DEF ChainInv, Linked, LinkedTo, Current, Cleaning
<1> QED
  BY <1>5, <1>6, <1>7 DEF IInv

\* Lines after an edit that leaves no content but its own.
LEMMA EditedLines ==
  ASSUME TypeInv, LinesInv, UNCHANGED <<pending, committed, op>>,
         hosts' \in Contents, spoiled \subseteq spoiled',
         Undisturbed' =>
           /\ \A r \in Keepers : r.applied = hosts' => r.previous = hosts'
           /\ Fair(hosts)'
           /\ mine' \ hosts'.user \subseteq mine \ hosts.user
           /\ ~strayed' /\ forgone' = {} =>
                \A r \in Keepers : Fair(r.previous)' /\ Fair(r.applied)'
  PROVE  LinesInv'
<1> SUFFICES ASSUME Undisturbed'
             PROVE  /\ (\E G \in SUBSET Contents : Closed(G))'
                    /\ (~strayed /\ forgone = {} =>
                          \A r \in Keepers : Fair(r.previous) /\ Fair(r.applied))'
                    /\ OutIsOwed'
  BY DEF LinesInv
<1>1. Keepers' = Keepers /\ Owing' = Owing
  BY DEF Keepers, Owing, Recorded, Below, Cleaning
<1>2. PICK G \in SUBSET Contents : G = {hosts'}
  OBVIOUS
<1>3. Closed(G)'
  BY <1>1, <1>2 DEF Closed
<1>4. (~strayed /\ forgone = {} => \A r \in Keepers : Fair(r.previous) /\ Fair(r.applied))'
  BY <1>1 DEF Fair
<1>5. OutIsOwed'
  <2>1. Undisturbed
    BY DEF Undisturbed
  <2> QED
    BY <1>1, <2>1 DEF LinesInv, OutIsOwed
<1> QED
  BY <1>3, <1>4, <1>5

LEMMA NobodyKeeps ==
  ASSUME TypeInv, Strays, ~strayed'
  PROVE  Keepers = {}
<1>1. Idle /\ pending \o committed = <<>>
  BY DEF Strays
<1>2. pending \in Seq(Receipts) /\ committed \in Seq(Receipts) /\ op = NoOp
  BY <1>1 DEF TypeInv, OpType
<1>3. pending = <<>> /\ committed = <<>>
  BY <1>1, <1>2, ConcatEqualIffEmpty
<1> QED
  BY <1>2, <1>3, EmptyOp DEF Keepers, ToSet

LEMMA EditsLineKeeps ==
  ASSUME IInv, NEW d \in Domains, EditsLine(d)
  PROVE  IInv'
<1>1. TypeInv /\ LinesInv
  BY DEF IInv
<1>2. /\ Strays /\ hosts \in Contents /\ edits' = edits + 1
      /\ UNCHANGED <<platform, backup, pending, committed, unsaved, starting, op, theirs,
                     forgone, applies, faults>>
      /\ Gap(Mistaken(hosts', Keepers)) /\ spoiled \subseteq spoiled'
      /\ mine \subseteq Domains /\ backup \in Backups /\ theirs \in {Missing, Theirs}
  BY <1>1 DEF EditsLine, Edits, receipts, Gap, TypeInv
<1>3. /\ hosts' \in Contents /\ hosts'.block = hosts.block /\ mine' \subseteq Domains
      /\ \/ hosts'.user = hosts.user \ {d} /\ mine' = mine \ {d}
         \/ hosts'.user = hosts.user \cup {d} /\ mine' = mine \cup {d}
  <2>1. CASE d \in hosts.user
    BY <1>2, <2>1 DEF EditsLine, Contents
  <2>2. CASE d \notin hosts.user
    BY <1>2, <2>2 DEF EditsLine, Contents
  <2> QED
    BY <2>1, <2>2
<1>4. LinesInv'
  <2> SUFFICES ASSUME Undisturbed'
               PROVE  /\ \A r \in Keepers : r.applied = hosts' => r.previous = hosts'
                      /\ Fair(hosts)'
                      /\ mine' \ hosts'.user \subseteq mine \ hosts.user
    BY <1>1, <1>2, <1>3, NobodyKeeps, EditedLines
  <2>1. \A r \in Keepers : r.applied = hosts' => r.previous = hosts'
    <3>1. Mistaken(hosts', Keepers) = {}
      <4>1. "mistaken" \notin spoiled' /\ Mistaken(hosts', Keepers) \subseteq spoiled'
        BY <1>2 DEF Undisturbed, Gap
      <4> QED
        BY <4>1 DEF Mistaken
    <3>2. \A r \in Keepers : ~(r.changed /\ hosts' = r.applied)
      BY <3>1 DEF Mistaken
    <3> QED
      BY <1>1, <3>2, KeepersOf DEF GoodReceipt
  <2>2. Fair(hosts)
    BY <1>1, <1>2 DEF LinesInv, Closed, Undisturbed
  <2>3. Fair(hosts)'
    BY <1>2, <1>3, <2>2 DEF Fair
  <2>4. mine' \ hosts'.user \subseteq mine \ hosts.user
    BY <1>3
  <2> QED
    BY <2>1, <2>3, <2>4
<1> QED
  BY <1>2, <1>3, <1>4, StrayEnds

LEMMA BreaksBlockKeeps ==
  ASSUME IInv, BreaksBlock
  PROVE  IInv'
<1>1. TypeInv /\ LinesInv
  BY DEF IInv
<1>2. /\ Strays /\ hosts \in Contents /\ edits' = edits + 1 /\ hosts.block # None
      /\ UNCHANGED <<platform, backup, pending, committed, unsaved, starting, op, mine, theirs,
                     forgone, spoiled, applies, faults>>
      /\ mine \subseteq Domains /\ backup \in Backups /\ theirs \in {Missing, Theirs}
  BY <1>1 DEF BreaksBlock, Edits, receipts, TypeInv
<1>3. hosts' \in Contents /\ hosts'.block = Broken /\ hosts'.user = hosts.user
  BY <1>2 DEF BreaksBlock, Contents
<1>4. LinesInv'
  <2>1. \A r \in Keepers : r.applied # hosts'
    BY <1>1, <1>3, KeepersOf, NoneIsNoPolicy DEF GoodReceipt
  <2>2. Undisturbed' => Fair(hosts)'
    BY <1>1, <1>2, <1>3, NoneIsNoPolicy DEF LinesInv, Closed, Undisturbed, Fair
  <2> QED
    BY <1>1, <1>2, <1>3, <2>1, <2>2, NobodyKeeps, EditedLines
<1> QED
  BY <1>2, <1>3, <1>4, StrayEnds

LEMMA EditsBackupKeeps ==
  ASSUME IInv, NEW content \in {Missing, Theirs}, EditsBackup(content)
  PROVE  IInv'
<1>1. TypeInv /\ LinesInv
  BY DEF IInv
<1>2. /\ Strays /\ hosts \in Contents /\ edits' = edits + 1 /\ backup' = content
      /\ theirs' = content
      /\ UNCHANGED <<platform, hosts, pending, committed, unsaved, starting, op, mine,
                     forgone, spoiled, applies, faults>>
      /\ mine \subseteq Domains /\ content \in Backups
  BY <1>1 DEF EditsBackup, Edits, receipts, TypeInv, Backups
<1>3. LinesInv'
  <2>1. Keepers' = Keepers /\ Owing' = Owing
    BY <1>2 DEF Keepers, Owing, Recorded, Below, Cleaning
  <2>2. ~strayed' => ~strayed
    BY <1>2 DEF Strays
  <2>3. Undisturbed' = Undisturbed /\ \A c : Fair(c)' <=> Fair(c)
    BY <1>2 DEF Undisturbed, Fair
  <2> SUFFICES ASSUME Undisturbed'
               PROVE  /\ (\E G \in SUBSET Contents : Closed(G))'
                      /\ (~strayed /\ forgone = {} =>
                            \A r \in Keepers : Fair(r.previous) /\ Fair(r.applied))'
                      /\ OutIsOwed'
    BY DEF LinesInv
  <2>4. PICK G \in SUBSET Contents : Closed(G)
    BY <1>1, <2>3 DEF LinesInv
  <2>5. Closed(G)'
    BY <1>2, <2>1, <2>3, <2>4 DEF Closed
  <2>6. (~strayed /\ forgone = {} => \A r \in Keepers : Fair(r.previous) /\ Fair(r.applied))'
    BY <1>1, <1>2, <2>1, <2>2, <2>3 DEF LinesInv
  <2>7. OutIsOwed'
    BY <1>1, <1>2, <2>1, <2>3 DEF LinesInv, OutIsOwed
  <2> QED
    BY <2>5, <2>6, <2>7
<1> QED
  BY <1>2, <1>3, StrayEnds

LEMMA RemovesBlockKeeps ==
  ASSUME IInv, RemovesBlock
  PROVE  IInv'
<1>1. TypeInv /\ LinesInv /\ EndsInv /\ ChainInv
  BY DEF IInv
<1>2. /\ hosts \in Contents /\ edits' = edits + 1
      /\ UNCHANGED <<platform, backup, pending, committed, unsaved, starting, op, theirs, strayed,
                     spoiled, applies, faults>>
      /\ mine' = hosts.user /\ forgone' = forgone \cup (mine \ hosts.user)
      /\ mine \subseteq Domains /\ forgone \subseteq Domains
  BY <1>1 DEF RemovesBlock, Edits, receipts, TypeInv
<1>3. hosts' \in Contents /\ hosts'.block = None /\ hosts'.user = hosts.user
      /\ mine' \subseteq Domains /\ forgone' \subseteq Domains
  BY <1>2 DEF RemovesBlock, Contents
<1>4. /\ Recorded' = Recorded /\ Current' = Current /\ Unapplied' = Unapplied /\ First' = First
      /\ Unspoiled' = Unspoiled /\ Cleaning' = Cleaning /\ Undoing' = Undoing /\ Idle' = Idle
      /\ Linked(committed)' <=> Linked(committed)
      /\ Linked(pending)' <=> Linked(pending)
      /\ LinkedTo(pending[1], committed)' <=> LinkedTo(pending[1], committed)
      /\ LinkedTo(op.receipt, Current)' <=> LinkedTo(op.receipt, Current)
  BY <1>2
  DEF Recorded, Current, Unapplied, First, Unspoiled, Cleaning, Undoing, Idle, Linked, LinkedTo
<1>5. edits \in Nat /\ faults \in Nat /\ op.since \in Nat /\ (Cleaning => op.since <= faults + edits)
  BY <1>1 DEF TypeInv, OpType, OpRecord
<1>6. TypeInv'
  <2>1. (Cleaning => op.since <= faults + edits') /\ edits' \in Nat
    BY <1>2, <1>5
  <2>2. OpType'
    BY <1>1, <1>2, <1>4, <2>1 DEF TypeInv, OpType, GoodReceipt
  <2> QED
    BY <1>1, <1>2, <1>3, <1>4, <2>1, <2>2 DEF TypeInv, GoodReceipt
<1>7. LinesInv'
  <2> SUFFICES ASSUME Undisturbed'
               PROVE  /\ \A r \in Keepers : r.applied = hosts' => r.previous = hosts'
                      /\ Fair(hosts)'
                      /\ ~strayed' /\ forgone' = {} =>
                           \A r \in Keepers : Fair(r.previous)' /\ Fair(r.applied)'
    BY <1>1, <1>2, <1>3, EditedLines
  <2>1. \A r \in Keepers : r.applied # hosts'
    BY <1>1, <1>3, KeepersOf, NoneIsNoPolicy DEF GoodReceipt
  <2>2. Undisturbed /\ Fair(hosts)
    BY <1>1, <1>2 DEF LinesInv, Closed, Undisturbed
  <2>3. Fair(hosts)'
    BY <1>2, <1>3, <2>2 DEF Fair
  <2>4. ASSUME ~strayed', forgone' = {}
        PROVE  \A r \in Keepers : Fair(r.previous)' /\ Fair(r.applied)'
    <3>1. forgone = {} /\ mine' = mine /\ ~strayed /\ forgone' = forgone
      BY <1>2, <2>2, <2>4 DEF Fair
    <3> QED
      BY <1>1, <2>2, <3>1 DEF LinesInv, Fair
  <2> QED
    BY <2>1, <2>3, <2>4
<1>8. EndsInv'
  BY <1>1, <1>2, <1>3, <1>4 DEF EndsInv
<1>9. ChainInv'
  <2> SUFFICES ASSUME ~strayed, Unspoiled PROVE ChainInv'
    BY <1>2, <1>4 DEF ChainInv
  <2>1. /\ Linked(committed) /\ Linked(pending)
        /\ pending # <<>> => LinkedTo(pending[1], committed)
        /\ op.pc \notin {"write", "record"} /\ Current # <<>> =>
             At(hosts', backup, Current, Len(Current))
        /\ op.pc \in {"backup", "write", "record"} => LinkedTo(op.receipt, Current)
        /\ op.pc = "write" => backup = op.previous
        /\ op.pc = "record" =>
             IF op.receipt.changed THEN backup = op.receipt.previous ELSE backup = op.receipt.backup
        /\ op.pc \in {"undo_hosts", "undo_backup"} =>
             IF op.restored THEN backup = op.receipt.backup ELSE backup = op.receipt.previous
    BY <1>1, <1>3, AtWithoutBlock DEF ChainInv
  <2>2. Cleaning => op.since # faults + edits'
    BY <1>2, <1>5
  <2>3. ASSUME Cleaning, ~op.failed
        PROVE  /\ op.pc \in {"undo", "undo_hosts", "conflict"} => At(hosts', backup, op.list, op.left)
               /\ op.pc = "next" /\ op.left > 1 => At(hosts', backup, op.list, op.left - 1)
               /\ op.pc = "next" /\ op.left = 1 => backup = op.list[1].backup
    <3>1. Descends
      BY <2>3 DEF Descends
    <3> QED
      BY <1>1, <1>3, <2>3, <3>1, AtWithoutBlock DEF ChainInv, Bottom
  <2> QED
    BY <1>2, <1>3, <1>4, <2>1, <2>2, <2>3 DEF ChainInv, Descends, Bottom
<1> QED
  BY <1>6, <1>7, <1>8, <1>9 DEF IInv

LEMMA CrashesKeeps ==
  ASSUME IInv, Crashes
  PROVE  IInv'
<1>1. TypeInv /\ LinesInv /\ EndsInv /\ ChainInv
  BY DEF IInv
<1>2. /\ op' = NoOp /\ faults' \in Nat
      /\ UNCHANGED <<platform, backup, committed, mine, theirs, forgone, strayed, applies, edits>>
      /\ unsaved' = FALSE /\ starting' \in BOOLEAN /\ spoiled \subseteq spoiled'
      /\ pending' = (IF unsaved THEN Front(pending) ELSE pending)
      /\ hosts' # hosts => "torn" \in spoiled'
      /\ op.pc = "write" => "leftover" \in spoiled'
      /\ unsaved \/ op.pc = "record" => "unrecorded" \in spoiled'
      /\ hosts' \in Contents
  <2>1. /\ op.pc = "write" => op.content \in Contents
        /\ op.pc = "undo_hosts" => op.receipt.previous \in Contents
    BY <1>1 DEF TypeInv, OpType, OpRecord, GoodReceipt, Receipts
  <2>2. hosts' \in Contents
    BY <1>1, <2>1, TornFile DEF Crashes, TypeInv
  <2> QED
    BY <1>1, <2>2 DEF Crashes, Fault, history, Gap, TornGap, TypeInv
<1>3. CASE ~unsaved /\ hosts' = hosts
  <2>1. /\ op.pc \in {"write", "record"} => ~Unspoiled'
        /\ op.pc = "record" => ~Undisturbed'
    BY <1>2 DEF Unspoiled, Undisturbed
  <2> QED
    BY <1>1, <1>2, <1>3, <2>1, CallEnds DEF TypeInv
<1>4. CASE unsaved \/ hosts' # hosts
  <2>1. ~Unspoiled' /\ ~Undisturbed'
    BY <1>2, <1>4 DEF Unspoiled, Undisturbed
  <2>2. hosts' \in Contents
    BY <1>2
  <2>3. pending' \in Seq(Receipts) /\ ToSet(pending') \subseteq ToSet(pending)
    <3>1. CASE unsaved
      <4>1. pending # <<>> /\ pending \in Seq(Receipts)
        BY <1>1, <3>1 DEF TypeInv
      <4> QED
        BY <1>2, <3>1, <4>1, FrontReceipts
    <3>2. CASE ~unsaved
      BY <1>1, <1>2, <3>2 DEF TypeInv
    <3> QED
      BY <3>1, <3>2
  <2>4. TypeInv'
    <3>1. (op \in OpRecord /\ OpType)'
      BY <1>2, OpEnds
    <3>2. unsaved' \in BOOLEAN /\ ~unsaved'
      BY <1>2
    <3> QED
      BY <1>1, <1>2, <2>2, <2>3, <3>1, <3>2 DEF TypeInv, Recorded, GoodReceipt
  <2>5. LinesInv'
    BY <2>1 DEF LinesInv
  <2>6. EndsInv'
    BY <1>2, <2>1, EmptyOp DEF EndsInv
  <2>7. ChainInv'
    BY <2>1 DEF ChainInv
  <2> QED
    BY <2>4, <2>5, <2>6, <2>7 DEF IInv
<1> QED
  BY <1>3, <1>4

-----------------------------------------------------------------------------
(* The theorems *)

LEMMA StepKeeps ==
  ASSUME IInv, [Next]_vars
  PROVE  IInv'
<1>1. CASE UNCHANGED vars
  <2>1. UNCHANGED <<platform, hosts, backup, pending, committed, unsaved, starting, op, mine,
                    theirs, forgone, strayed, spoiled, applies, edits, faults>>
    BY <1>1 DEF vars, files, receipts, history, counters
  <2> QED
    BY <2>1
    DEF IInv, TypeInv, OpType, LinesInv, EndsInv, ChainInv, GoodReceipt, Recorded, Current,
        Undisturbed, Fair, Closed, Keepers, Owing, Below, OutIsOwed, Unapplied, First, Unspoiled,
        Linked, LinkedTo, Descends, Bottom, Cleaning, Undoing, Idle, Refuses, HostsRestored,
        BackupRestored
<1>2. CASE \E policy \in Policies : Plans(policy)
  BY <1>2, PlansKeeps
<1>3. CASE Reads
  BY <1>3, ReadsKeeps
<1>4. CASE WritesBackup
  BY <1>4, WritesBackupKeeps
<1>5. CASE WritesHosts
  BY <1>5, WritesHostsKeeps
<1>6. CASE Records
  BY <1>6, RecordsKeeps
<1>7. CASE Verifies
  BY <1>7, VerifiesKeeps
<1>8. CASE RollbackReads
  BY <1>8, RollbackReadsKeeps
<1>9. CASE RestoresHosts
  BY <1>9, RestoresHostsKeeps
<1>10. CASE RestoresBackup
  BY <1>10, RestoresBackupKeeps
<1>11. CASE Cleans(pending)
  <2>1. pending = Current
    BY <1>11 DEF Cleans, Current
  <2> QED
    BY <1>11, <2>1, CleansKeeps
<1>12. CASE pending = <<>> /\ Cleans(committed)
  <2>1. committed = Current
    BY <1>12 DEF Current
  <2> QED
    BY <1>12, <2>1, CleansKeeps
<1>13. CASE CleansNext
  BY <1>13, CleansNextKeeps
<1>14. CASE CleanupConflict
  BY <1>14, CleanupConflictKeeps
<1>15. CASE User
  <2>1. CASE \E d \in Domains : EditsLine(d)
    BY <2>1, EditsLineKeeps
  <2>2. CASE BreaksBlock
    BY <2>2, BreaksBlockKeeps
  <2>3. CASE RemovesBlock
    BY <2>3, RemovesBlockKeeps
  <2>4. CASE \E content \in {Missing, Theirs} : EditsBackup(content)
    BY <2>4, EditsBackupKeeps
  <2> QED
    BY <1>15, <2>1, <2>2, <2>3, <2>4 DEF User
<1>16. CASE Crashes
  BY <1>16, CrashesKeeps
<1> QED
  BY <1>1, <1>2, <1>3, <1>4, <1>5, <1>6, <1>7, <1>8, <1>9, <1>10, <1>11, <1>12, <1>13, <1>14,
     <1>15, <1>16
  DEF Next

\* The inductive invariant holds in every state that applications, rollbacks,
\* clean-ups, the user and crashes reach.
THEOREM Invariance == Spec => []IInv
<1>1. Init => IInv
  BY InitIInv
<1>2. IInv /\ [Next]_vars => IInv'
  BY StepKeeps
<1> QED
  BY <1>1, <1>2, PTL DEF Spec

\* The two files are contents, and every receipt is one.
THEOREM TypeCorrect == Spec => []TypeOK
<1>1. IInv => TypeOK
  BY DEF IInv, TypeInv, TypeOK, Recorded, GoodReceipt
<1> QED
  BY <1>1, Invariance, PTL

\* Without the gaps that spoiled names, no line of the user's is lost or
\* brought back, whatever he edits, and wherever Apply, Rollback and Cleanup
\* fail or are interrupted.
THEOREM LinesKept == Spec => []UserLinesKept
<1>1. IInv => UserLinesKept
  <2> SUFFICES ASSUME IInv, Undisturbed
               PROVE  /\ hosts.user \subseteq mine \cup forgone
                      /\ \A d \in mine \ hosts.user : \E r \in Keepers : d \in r.previous.user
    BY DEF UserLinesKept, Undisturbed
  <2>1. TypeInv /\ LinesInv
    BY DEF IInv
  <2>2. hosts.user \subseteq mine \cup forgone
    BY <2>1 DEF LinesInv, Closed, Fair
  <2>3. Owing \subseteq Keepers
    <3>1. Recorded \subseteq Keepers /\ (op.receipt # None => op.receipt \in Keepers)
      BY DEF Recorded, Keepers
    <3>2. op.pc = "record" => op.receipt # None
      BY <2>1 DEF TypeInv, OpType
    <3>3. ASSUME op.pc = "undo_backup", ~Cleaning
          PROVE  ToSet(Front(pending)) \subseteq ToSet(pending)
      <4>1. pending \in Seq(Receipts) /\ pending # <<>>
        BY <2>1, <3>3 DEF TypeInv, OpType, Undoing
      <4> QED
        BY <4>1, FrontReceipts
    <3>4. ASSUME Cleaning
          PROVE  {op.list[i] : i \in 1..Below} \subseteq Recorded
      <4>1. op.list = Current /\ op.left \in 1..Len(op.list) /\ Current \in Seq(Receipts)
        BY <2>1, <3>4 DEF TypeInv, OpType, Current
      <4>2. 1..Below \subseteq 1..Len(op.list) /\ ToSet(Current) \subseteq Recorded
        BY <4>1 DEF Below, Current, Recorded
      <4> QED
        BY <4>1, <4>2, ReceiptSequence
    <3> QED
      BY <3>1, <3>2, <3>3, <3>4 DEF Owing, Recorded
  <2>4. OutIsOwed
    BY <2>1 DEF LinesInv
  <2> QED
    BY <2>2, <2>3, <2>4 DEF OutIsOwed
<1> QED
  BY <1>1, Invariance, PTL

\* When every receipt is gone, by rollbacks or by a clean-up, nothing of the
\* program's is left: no block, and the backup file is as others left it.
THEOREM FilesRestored == Spec => []FilesAreRestored
<1>1. IInv => FilesAreRestored
  BY DEF IInv, EndsInv, FilesAreRestored, Unapplied, Unspoiled, Idle
<1> QED
  BY <1>1, Invariance, PTL

\* A clean-up that meets neither a fault nor an edit restores what the oldest
\* receipt found, however many there are and wherever the last one stopped.
THEOREM CleanupsRestoreAll == Spec => []CleanupsRestore
<1>1. IInv => CleanupsRestore
  <2> SUFFICES ASSUME IInv, op.pc = "next", op.left = 1, op.since = faults + edits, ~strayed,
                      Unspoiled
               PROVE  /\ hosts = op.list[1].previous \/ hosts.block = None
                      /\ backup = op.list[1].backup
                      /\ op.met = None => ~op.failed
    BY DEF CleanupsRestore, Unspoiled
  <2>1. Cleaning /\ Descends
    BY DEF IInv, TypeInv, OpType, Descends
  <2> QED
    BY <2>1 DEF IInv, ChainInv, Bottom
<1> QED
  BY <1>1, Invariance, PTL
===============================================================================
