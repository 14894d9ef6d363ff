---------------------------- MODULE MCTicketLock ----------------------------
(* TicketLock for TLC: CPUs are model values and can be permuted in the    *)
(* runs that check safety alone.                                           *)
EXTENDS TicketLock, TLC

Symmetry == Permutations(CPU)
=============================================================================
