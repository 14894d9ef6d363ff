------------------------------ MODULE FifoLock ------------------------------
(***************************************************************************)
(* What sync/lock.h promises its users, with nothing of how it is done:    *)
(* a lock that admits one execution context at a time, in the order in     *)
(* which the contexts joined.  ahead[x] is the set of contexts that joined *)
(* before x did and have not left yet.                                     *)
(***************************************************************************)
CONSTANT Context

VARIABLES
    phase,      \* [Context -> {"out", "waiting", "inside"}]
    ahead       \* [Context -> SUBSET Context]

vars == <<phase, ahead>>

Engaged == {x \in Context : phase[x] # "out"}

Init ==
    /\ phase = [x \in Context |-> "out"]
    /\ ahead = [x \in Context |-> {}]

Join(x) ==
    /\ phase[x] = "out"
    /\ phase' = [phase EXCEPT ![x] = "waiting"]
    /\ ahead' = [ahead EXCEPT ![x] = Engaged]

Take(x) ==
    /\ phase[x] = "waiting"
    /\ ahead[x] = {}
    /\ phase' = [phase EXCEPT ![x] = "inside"]
    /\ UNCHANGED ahead

Leave(x) ==
    /\ phase[x] = "inside"
    /\ phase' = [phase EXCEPT ![x] = "out"]
    /\ ahead' = [y \in Context |-> ahead[y] \ {x}]

Next == \E x \in Context : Join(x) \/ Take(x) \/ Leave(x)

Spec == Init /\ [][Next]_vars
=============================================================================
