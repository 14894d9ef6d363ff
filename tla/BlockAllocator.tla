--------------------------- MODULE BlockAllocator ---------------------------
(***************************************************************************)
(* What mm/pmm.c promises: every call of palloc and its variants gets a    *)
(* block of memory that shares no byte with a block handed out before.     *)
(* Nothing is ever taken back: pfree() is declared and not implemented.    *)
(***************************************************************************)
EXTENDS Integers, Sequences

VARIABLE
    granted        \* the blocks [first, size] in the order of the grants

\* Half-open byte ranges that share no byte.
Disjoint(a, b) ==
    a.first + a.size <= b.first \/ b.first + b.size <= a.first

Init == granted = <<>>

\* The block b handed out last shares nothing with those before it.
Grant ==
    /\ Len(granted') = Len(granted) + 1
    /\ \E b \in {granted'[Len(granted')]} :
          /\ b.first \in Nat /\ b.size \in Nat \ {0}
          /\ \A i \in 1 .. Len(granted) : Disjoint(granted[i], b)
          /\ granted' = Append(granted, b)

Spec == Init /\ [][Grant]_granted
=============================================================================
