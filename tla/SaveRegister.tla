----------------------------- MODULE SaveRegister -----------------------------
(***************************************************************************)
(* What the cloud-save service promises its clients: one compare-and-set   *)
(* register per account (one title is enough: titles never interact).      *)
(*                                                                         *)
(* The rule is the one FakeCloudSaveClient::push, the in-memory stand-in   *)
(* of the service, gives the rest of the program: a push names the         *)
(* revision it replaces, it is accepted only when that is the current      *)
(* revision (0 for a slot that does not exist), and it moves the slot to   *)
(* the next revision.  The accepted pushes of the slot's present life are  *)
(* remembered, so that "accepted" means something after the fact.          *)
(***************************************************************************)
EXTENDS Naturals

CONSTANTS Users,      \* accounts
          Contents,   \* save packages a client may push
          Absent      \* what a register without a slot holds

VARIABLES reg,        \* reg[u]: revision (0: no slot) and content
          accepted    \* pushes acknowledged since the slot was created

vars == <<reg, accepted>>

Init == /\ reg = [u \in Users |-> [rev |-> 0, content |-> Absent]]
        /\ accepted = {}

\* FakeCloudSaveClient::push, whose revision argument is the current one.
Push(u, c) ==
    LET base == reg[u].rev IN
    /\ reg' = [reg EXCEPT ![u] = [rev |-> base + 1, content |-> c]]
    /\ accepted' = accepted \cup
           {[user |-> u, content |-> c, base |-> base, new |-> base + 1]}

\* The slot is deleted: the next push starts again from revision 0.
Remove(u) ==
    /\ reg[u].rev # 0
    /\ reg' = [reg EXCEPT ![u] = [rev |-> 0, content |-> Absent]]
    /\ accepted' = {a \in accepted : a.user # u}

Next == \E u \in Users : Remove(u) \/ \E c \in Contents : Push(u, c)

Spec == Init /\ [][Next]_vars
===============================================================================
