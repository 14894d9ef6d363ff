------------------------------- MODULE MCEpt --------------------------------
(* Ept for TLC: a tree of three levels with two entries per table, and two *)
(* pages that share the entry of the root and part below it.               *)
EXTENDS Ept

One == <<0, 0, 0>>
Two == <<0, 1, 0>>

TwoPages == {One, Two}
MixedAccesses == {<<One, "r">>, <<One, "w">>, <<Two, "w">>}
=============================================================================
