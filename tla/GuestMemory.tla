---------------------------- MODULE GuestMemory -----------------------------
(***************************************************************************)
(* What the extended page tables of vmx/ept.c promise the guest ("we only  *)
(* do identity mapping with rwx permissions", ept.h:36-38): every access   *)
(* that a CPU makes to a guest-physical page ends, and ends in the machine *)
(* page of the same number.                                                *)
(***************************************************************************)
CONSTANTS CPU, Page,
    NoPage      \* no page was reached yet

VARIABLES
    waiting,    \* CPU -> is an access under way
    target,     \* CPU -> the page of the CPU's last access, or NoPage
    touched     \* CPU -> the machine page that access reached, or NoPage

vars == <<waiting, target, touched>>

Init ==
    /\ waiting = [c \in CPU |-> FALSE]
    /\ target = [c \in CPU |-> NoPage]
    /\ touched = [c \in CPU |-> NoPage]

Issue(c, p) ==
    /\ ~ waiting[c]
    /\ waiting' = [waiting EXCEPT ![c] = TRUE]
    /\ target' = [target EXCEPT ![c] = p]
    /\ touched' = [touched EXCEPT ![c] = NoPage]

Complete(c) ==
    /\ waiting[c]
    /\ waiting' = [waiting EXCEPT ![c] = FALSE]
    /\ touched' = [touched EXCEPT ![c] = target[c]]
    /\ UNCHANGED target

Next == \E c \in CPU : Complete(c) \/ \E p \in Page : Issue(c, p)

Spec == Init /\ [][Next]_vars

FairSpec == Spec /\ \A c \in CPU : WF_vars(Complete(c))
=============================================================================
