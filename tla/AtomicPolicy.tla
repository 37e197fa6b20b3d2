---------------------------- MODULE AtomicPolicy ----------------------------
(***************************************************************************)
(* What a policy change promises, without receipts, journals or recovery:  *)
(* an adapter has the content of the policy in force whenever nothing is   *)
(* in progress; a change that was asked for is either given up, and        *)
(* whatever was written for it is gone before the system settles, or it    *)
(* comes into force exactly as asked, on adapters that all have it; only   *)
(* removing everything gives the original contents back.                   *)
(*                                                                         *)
(* A failure or a crash may not be noticed from outside: between two       *)
(* settled states contents are not promised.  An adapter that is no longer *)
(* trusted (it has one of the known gaps) is promised nothing.             *)
(*                                                                         *)
(* PolicyTransaction implements this specification                         *)
(* (ImplementsAtomicPolicy).                                               *)
(***************************************************************************)
CONSTANTS
  Adapters,
  Contents,   \* what an adapter may have
  Original,   \* what every adapter has before the first policy
  Targets     \* the contents that may be asked for

VARIABLES
  policy,     \* for each adapter, the content in force
  content,    \* for each adapter, the content it has
  asked,      \* the content asked for and not given up: at most one
  settled,    \* nothing is in progress and nothing is left to undo
  trusted     \* the adapters that are promised something

vars == <<policy, content, asked, settled, trusted>>

Everywhere(c) == [a \in Adapters |-> c]
InForce == \A a \in trusted' : content'[a] = policy'[a]

Init ==
  /\ policy = Everywhere(Original) /\ content = policy
  /\ asked = {} /\ settled = TRUE
  /\ trusted = Adapters

\* A change is asked for while none is.
Ask(c) ==
  /\ asked = {} /\ asked' = {c} /\ settled' = FALSE
  /\ UNCHANGED <<policy, content, trusted>>

\* The process ends, or the removal of everything begins.
Interrupt ==
  /\ settled /\ settled' = FALSE
  /\ UNCHANGED <<policy, content, asked, trusted>>

\* Contents are written or taken back; the change may be given up.
Work ==
  /\ ~settled /\ settled' = FALSE
  /\ content' \in [Adapters -> Contents]
  /\ asked' \in {asked, {}} /\ trusted' \subseteq trusted
  /\ UNCHANGED policy

\* What is in force is what the adapters have.
Settle ==
  /\ ~settled /\ settled' = TRUE
  /\ content' \in [Adapters -> Contents]
  /\ asked' = {} /\ trusted' \subseteq trusted
  /\ UNCHANGED policy
  /\ InForce

\* What was asked for comes into force on some adapters; they all have it.
Commit(on) ==
  /\ ~settled /\ on # {}
  /\ \E c \in Targets :
       /\ asked = {c} /\ asked' = {}
       /\ \A a \in on : content[a] = c
       /\ policy' = [a \in Adapters |-> IF a \in on THEN c ELSE policy[a]]
  /\ settled' \in BOOLEAN /\ trusted' \subseteq trusted
  /\ UNCHANGED content
  /\ settled' => InForce

\* Everything was removed.
Remove ==
  /\ ~settled /\ settled' = FALSE /\ asked = {}
  /\ policy' = Everywhere(Original)
  /\ UNCHANGED <<content, asked, trusted>>
  /\ InForce

Next ==
  \/ \E c \in Targets : Ask(c)
  \/ Interrupt \/ Work \/ Settle \/ Remove
  \/ \E on \in SUBSET Adapters : Commit(on)

Spec == Init /\ [][Next]_vars
=============================================================================
