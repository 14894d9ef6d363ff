-------------------------- MODULE TicketLockProofs --------------------------
(***************************************************************************)
(* Theorems about sync/lock.c for any finite set of CPUs, any size of a    *)
(* ticket that exceeds the number of contexts, and any interrupts.         *)
(***************************************************************************)
EXTENDS TicketLock, FiniteSetTheorems, TLAPS

\* What the tickets say: those drawn and not yet served lie right after
\* now_serving, one per waiting context, and next_ticket ends the range.
TicketInv ==
    /\ Distance(next_ticket) = Cardinality(Ticketed)
    /\ \A x \in Ticketed : Distance(ticket[x]) < Cardinality(Ticketed)
    /\ \A x, y \in Ticketed : ticket[x] = ticket[y] => x = y
    /\ \A x \in Context : pc[x] = "inside" => ticket[x] = now_serving

\* Where the main program of a CPU keeps interrupts off.
Closed == {"draw", "test", "window", "inside"}

IrqInv ==
    DisableInterrupts =>
        \A c \in CPU :
            pc[Main(c)] \in Closed => pc[Handler(c)] = "off" /\ ~ intFlag[c]

-----------------------------------------------------------------------------
\* A context is the main program or the handler of a CPU, not both.
LEMMA ContextForm ==
    ASSUME NEW x \in Context
    PROVE  /\ Cpu(x) \in CPU
           /\ x = Main(Cpu(x)) \/ x = Handler(Cpu(x))
    BY DEF Context, Main, Handler, Cpu

LEMMA ContextOf ==
    ASSUME NEW c \in CPU
    PROVE  /\ Main(c) \in Context /\ Handler(c) \in Context
           /\ Cpu(Main(c)) = c /\ Cpu(Handler(c)) = c
           /\ \A d \in CPU : Main(c) # Handler(d)
    BY DEF Context, Main, Handler, Cpu

LEMMA ContextFinite == IsFiniteSet(Context)
    <1>1. IsFiniteSet({"main"}) /\ IsFiniteSet({"irq"})
        BY FS_Singleton
    <1>2. IsFiniteSet({"main"} \cup {"irq"})
        BY <1>1, FS_Union
    <1>3. {"main"} \cup {"irq"} = {"main", "irq"}
        OBVIOUS
    <1> QED
        BY <1>2, <1>3, CPUAssumption, FS_Product DEF Context

LEMMA TicketModPositive == TicketMod \in Nat /\ TicketMod > 0
    BY TicketModAssumption, ContextFinite, FS_CardinalityType

-----------------------------------------------------------------------------
\* Type correctness of the lock, its callers and the handlers.
THEOREM TypeCorrect == Spec => []TypeOK
    <1>1. Init => TypeOK
        <2> SUFFICES ASSUME Init PROVE TypeOK
            OBVIOUS
        <2>1. \A c \in CPU : pc[Main(c)] = "idle" /\ pc[Handler(c)] = "off"
            BY ContextOf DEF Init, Main, Handler
        <2>2. pc \in [Context -> Labels]
            BY DEF Init, Labels
        <2>3. intFlag \in [CPU -> BOOLEAN]
            BY FlagAssumption DEF Init
        <2>4. 0 \in 0 .. TicketMod - 1
            BY TicketModPositive
        <2>5. ticket \in [Context -> 0 .. TicketMod - 1]
            BY <2>4 DEF Init
        <2>6. /\ next_ticket \in 0 .. TicketMod - 1
              /\ now_serving \in 0 .. TicketMod - 1
              /\ interrupts \in BOOLEAN /\ delivered \in Nat
              /\ homeIF \in [CPU -> BootIF]
            BY <2>4 DEF Init
        <2> QED
            BY <2>1, <2>2, <2>3, <2>5, <2>6 DEF TypeOK
    <1>2. TypeOK /\ [Next]_vars => TypeOK'
        <2> SUFFICES ASSUME TypeOK, [Next]_vars PROVE TypeOK'
            OBVIOUS
        <2> USE DEF TypeOK, Labels, Goto, SetIF, lockVars
        <2>1. ASSUME NEW x \in Context, Runs(x), Call(x) PROVE TypeOK'
            BY <2>1, ContextForm, ContextOf, FlagAssumption DEF Call
        <2>2. ASSUME NEW x \in Context, Step(x) PROVE TypeOK'
            <3>1. CASE Save(x)
                BY <3>1, ContextForm, ContextOf DEF Save
            <3>2. CASE Cli(x)
                BY <3>2, ContextForm, ContextOf DEF Cli
            <3>3. CASE Draw(x)
                BY <3>3, ContextForm, ContextOf, TicketModPositive
                DEF Draw, Successor
            <3>4. CASE Test(x)
                BY <3>4, ContextForm, ContextOf DEF Test
            <3>5. CASE Window(x)
                BY <3>5, ContextForm, ContextOf DEF Window
            <3>6. CASE Pause(x)
                BY <3>6, ContextForm, ContextOf DEF Pause
            <3>7. CASE Release(x)
                BY <3>7, ContextForm, ContextOf, TicketModPositive
                DEF Release, Successor
            <3>8. CASE Restore(x)
                BY <3>8, ContextForm, ContextOf DEF Restore
            <3> QED
                BY <2>2, <3>1, <3>2, <3>3, <3>4, <3>5, <3>6, <3>7, <3>8
                DEF Step
        <2>3. ASSUME NEW c \in CPU, Interrupt(c) PROVE TypeOK'
            BY <2>3, ContextForm, ContextOf DEF Interrupt
        <2>4. ASSUME NEW c \in CPU, Return(c) PROVE TypeOK'
            BY <2>4, ContextForm, ContextOf DEF Return
        <2>5. CASE UNCHANGED vars
            BY <2>5 DEF vars
        <2> QED
            BY <2>1, <2>2, <2>3, <2>4, <2>5 DEF Next
    <1> QED
        BY <1>1, <1>2, PTL DEF Spec

-----------------------------------------------------------------------------
\* The contexts with a ticket are fewer than the tickets there are.
LEMMA TicketedFinite ==
    /\ Ticketed \subseteq Context
    /\ IsFiniteSet(Ticketed)
    /\ Cardinality(Ticketed) \in Nat
    /\ Cardinality(Ticketed) < TicketMod
    /\ \A x \in Context \ Ticketed :
          /\ Cardinality(Ticketed \cup {x}) = Cardinality(Ticketed) + 1
          /\ Cardinality(Ticketed) + 1 < TicketMod
    <1>1. Ticketed \subseteq Context
        BY DEF Ticketed
    <1>2. IsFiniteSet(Ticketed) /\ Cardinality(Ticketed) <= Cardinality(Context)
        BY <1>1, ContextFinite, FS_Subset
    <1>3. Cardinality(Ticketed) \in Nat /\ Cardinality(Context) \in Nat
        BY <1>2, ContextFinite, FS_CardinalityType
    <1>4. ASSUME NEW x \in Context \ Ticketed
          PROVE  /\ Cardinality(Ticketed \cup {x}) = Cardinality(Ticketed) + 1
                 /\ Cardinality(Ticketed \cup {x}) <= Cardinality(Context)
        <2>1. Cardinality(Ticketed \cup {x}) = Cardinality(Ticketed) + 1
            BY <1>2, FS_AddElement
        <2>2. Ticketed \cup {x} \subseteq Context
            BY <1>1
        <2> QED
            BY <2>1, <2>2, ContextFinite, FS_Subset
    <1> QED
        BY <1>1, <1>2, <1>3, <1>4, TicketModAssumption

\* Steps that neither draw a ticket nor serve the next one.
LEMMA TicketFrame ==
    ASSUME TicketInv, Ticketed' = Ticketed,
           UNCHANGED <<ticket, next_ticket, now_serving>>,
           \A x \in Context : pc'[x] = "inside" => ticket[x] = now_serving
    PROVE  TicketInv'
    BY DEF TicketInv, Distance

LEMMA DrawKeepsTickets ==
    ASSUME TypeOK, TicketInv, NEW x \in Context, Draw(x)
    PROVE  TicketInv'
    <1> DEFINE N == Cardinality(Ticketed)
    <1>1. x \notin Ticketed /\ Ticketed' = Ticketed \cup {x}
        BY DEF Draw, Goto, Ticketed, TypeOK
    <1>2. N \in Nat /\ N + 1 < TicketMod /\ Cardinality(Ticketed') = N + 1
        BY <1>1, TicketedFinite
    <1>3. /\ next_ticket \in 0 .. TicketMod - 1
          /\ now_serving \in 0 .. TicketMod - 1 /\ now_serving' = now_serving
          /\ \A y \in Context : ticket[y] \in 0 .. TicketMod - 1
          /\ ticket'[x] = next_ticket
          /\ \A y \in Ticketed : ticket'[y] = ticket[y]
        BY <1>1, TicketedFinite DEF TypeOK, Draw
    <1>4. Distance(next_ticket) = N
        BY DEF TicketInv
    <1>5. Distance(next_ticket)' = N + 1
        BY <1>2, <1>3, <1>4, TicketModPositive DEF Distance, Draw, Successor
    <1>6. ASSUME NEW y \in Ticketed'
          PROVE  Distance(ticket[y])' < N + 1
        <2>1. CASE y = x
            BY <2>1, <1>2, <1>3, <1>4 DEF Distance
        <2>2. CASE y \in Ticketed
            <3>1. Distance(ticket[y]) < N /\ Distance(ticket[y])' = Distance(ticket[y])
                BY <2>2, <1>3 DEF TicketInv, Distance
            <3>2. Distance(ticket[y]) \in Int
                BY <2>2, <1>3, TicketedFinite, TicketModPositive DEF Distance
            <3> QED
                BY <3>1, <3>2, <1>2
        <2> QED
            BY <2>1, <2>2, <1>1
    <1>7. ASSUME NEW y \in Ticketed PROVE ticket[y] # next_ticket
        BY <1>2, <1>4 DEF TicketInv
    <1>8. \A y, z \in Ticketed' : ticket'[y] = ticket'[z] => y = z
        BY <1>1, <1>3, <1>7 DEF TicketInv
    <1>9. \A y \in Context : pc'[y] = "inside" => ticket'[y] = now_serving'
        BY <1>3 DEF TicketInv, Draw, Goto, TypeOK
    <1> QED
        BY <1>2, <1>5, <1>6, <1>8, <1>9 DEF TicketInv

LEMMA ReleaseKeepsTickets ==
    ASSUME TypeOK, TicketInv, NEW x \in Context, Release(x)
    PROVE  TicketInv'
    <1> DEFINE N == Cardinality(Ticketed)
    <1>1. x \in Ticketed /\ Ticketed' = Ticketed \ {x}
        BY DEF Release, Goto, Ticketed, TypeOK
    <1>2. N \in Nat /\ N < TicketMod /\ Cardinality(Ticketed') = N - 1
        BY <1>1, TicketedFinite, FS_RemoveElement
    <1>3. /\ next_ticket \in 0 .. TicketMod - 1
          /\ now_serving \in 0 .. TicketMod - 1
          /\ now_serving' = Successor(now_serving)
          /\ \A y \in Context : ticket[y] \in 0 .. TicketMod - 1
          /\ ticket[x] = now_serving
          /\ ticket' = ticket /\ next_ticket' = next_ticket
        BY DEF TypeOK, Release, TicketInv
    <1>4. Distance(next_ticket) = N /\ N > 0
        BY <1>1, <1>2, <1>3 DEF TicketInv, Distance
    <1>5. Distance(next_ticket)' = N - 1
        BY <1>2, <1>3, <1>4, TicketModPositive DEF Distance, Successor
    <1>6. ASSUME NEW y \in Ticketed'
          PROVE  Distance(ticket[y])' < N - 1
        <2>1. ticket[y] # now_serving /\ Distance(ticket[y]) < N /\ y \in Context
            BY <1>1, <1>3, TicketedFinite DEF TicketInv
        <2> QED
            BY <2>1, <1>2, <1>3, TicketModPositive DEF Distance, Successor
    <1>7. \A y, z \in Ticketed' : ticket'[y] = ticket'[z] => y = z
        BY <1>1, <1>3 DEF TicketInv
    <1>8. \A y \in Context : pc'[y] # "inside"
        BY <1>1, <1>3 DEF TicketInv, Release, Goto, Ticketed, TypeOK
    <1> QED
        BY <1>2, <1>5, <1>6, <1>7, <1>8 DEF TicketInv

-----------------------------------------------------------------------------
\* The tickets in use stay a contiguous range after now_serving, one for
\* each context that waits or holds, the holder's being the one served.
THEOREM TicketsInOrder == Spec => []TicketInv
    <1>1. Init => TicketInv
        <2> SUFFICES ASSUME Init PROVE TicketInv
            OBVIOUS
        <2>1. Ticketed = {} /\ \A x \in Context : pc[x] # "inside"
            BY DEF Init, Ticketed
        <2>2. Distance(next_ticket) = 0
            BY DEF Init, Distance
        <2> QED
            BY <2>1, <2>2, FS_EmptySet DEF TicketInv
    <1>2. TypeOK /\ TicketInv /\ [Next]_vars => TicketInv'
        <2> SUFFICES ASSUME TypeOK, TicketInv, [Next]_vars PROVE TicketInv'
            OBVIOUS
        <2> USE DEF TypeOK, Goto, lockVars, Ticketed
        <2>1. ASSUME NEW x \in Context, Call(x) PROVE TicketInv'
            BY <2>1, TicketFrame DEF Call, TicketInv
        <2>2. ASSUME NEW x \in Context, Step(x) PROVE TicketInv'
            <3>1. CASE Save(x)
                BY <3>1, TicketFrame DEF Save, TicketInv
            <3>2. CASE Cli(x)
                BY <3>2, TicketFrame DEF Cli, TicketInv
            <3>3. CASE Draw(x)
                BY <3>3, DrawKeepsTickets
            <3>4. CASE Test(x)
                BY <3>4, TicketFrame DEF Test, TicketInv
            <3>5. CASE Window(x)
                BY <3>5, TicketFrame DEF Window, TicketInv
            <3>6. CASE Pause(x)
                BY <3>6, TicketFrame DEF Pause, TicketInv
            <3>7. CASE Release(x)
                BY <3>7, ReleaseKeepsTickets
            <3>8. CASE Restore(x)
                BY <3>8, TicketFrame DEF Restore, TicketInv
            <3> QED
                BY <2>2, <3>1, <3>2, <3>3, <3>4, <3>5, <3>6, <3>7, <3>8
                DEF Step
        <2>3. ASSUME NEW c \in CPU, Interrupt(c) PROVE TicketInv'
            BY <2>3, ContextOf, TicketFrame DEF Interrupt, TicketInv
        <2>4. ASSUME NEW c \in CPU, Return(c) PROVE TicketInv'
            BY <2>4, ContextOf, TicketFrame DEF Return, TicketInv
        <2>5. CASE UNCHANGED vars
            BY <2>5, TicketFrame DEF vars, TicketInv
        <2> QED
            BY <2>1, <2>2, <2>3, <2>4, <2>5 DEF Next
    <1> QED
        BY <1>1, <1>2, TypeCorrect, PTL DEF Spec

\* At most one context is between lock() and unlock(), for any number of
\* CPUs and however often the tickets wrap around.
THEOREM Mutex == Spec => []MutualExclusion
    <1>1. TypeOK /\ TicketInv => MutualExclusion
        BY DEF TypeOK, TicketInv, Ticketed, MutualExclusion
    <1> QED
        BY <1>1, TypeCorrect, TicketsInOrder, PTL

-----------------------------------------------------------------------------
\* The holder of an IRQ lock is not interrupted on its own CPU: the main
\* program keeps interrupts off from the draw of its ticket to unlock(),
\* but for the pause, which no holder executes.
THEOREM Uninterrupted == Spec => []HolderUninterrupted
    <1>1. Init => IrqInv
        BY ContextOf DEF Init, IrqInv, Closed, Main, Handler
    <1>2. TypeOK /\ IrqInv /\ [Next]_vars => IrqInv'
        <2> SUFFICES ASSUME TypeOK, IrqInv, [Next]_vars, DisableInterrupts,
                            NEW c \in CPU, pc'[Main(c)] \in Closed
                     PROVE  pc'[Handler(c)] = "off" /\ ~ intFlag'[c]
            BY DEF IrqInv
        <2> USE DEF TypeOK, Goto, SetIF, lockVars, Closed
        <2>1. ASSUME NEW x \in Context, Runs(x), Call(x) \/ Step(x)
              PROVE  pc'[Handler(c)] = "off" /\ ~ intFlag'[c]
            <3>1. CASE Cpu(x) # c
                <4>1. x # Main(c) /\ x # Handler(c)
                    BY <3>1, ContextOf
                <4>2. pc'[Main(c)] = pc[Main(c)] /\ pc'[Handler(c)] = pc[Handler(c)]
                    BY <2>1, <4>1, ContextOf
                    DEF Call, Step, Save, Cli, Draw, Test, Window, Pause,
                        Release, Restore
                <4>3. intFlag'[c] = intFlag[c]
                    BY <2>1, <3>1, ContextForm
                    DEF Call, Step, Save, Cli, Draw, Test, Window, Pause,
                        Release, Restore
                <4> QED
                    BY <4>2, <4>3 DEF IrqInv
            <3>2. CASE x = Handler(c)
                <4>1. pc'[Main(c)] = pc[Main(c)] /\ pc[Handler(c)] # "off"
                    BY <2>1, <3>2, ContextOf
                    DEF Call, Step, Save, Cli, Draw, Test, Window, Pause,
                        Release, Restore
                <4> QED
                    BY <4>1 DEF IrqInv
            <3>3. CASE x = Main(c)
                <4>1. pc[Handler(c)] = "off" /\ pc'[Handler(c)] = "off"
                    BY <2>1, <3>3, ContextOf
                    DEF Runs, Call, Step, Save, Cli, Draw, Test, Window, Pause,
                        Release, Restore
                <4>2. CASE Cli(x) \/ Pause(x)
                    BY <4>2, <3>3, <4>1, ContextOf DEF Cli, Pause
                <4>3. CASE Draw(x) \/ Test(x)
                    BY <4>3, <3>3, <4>1, ContextOf DEF Draw, Test, IrqInv
                <4>4. CASE Call(x) \/ Save(x) \/ Window(x) \/ Release(x) \/ Restore(x)
                    BY <4>4, <3>3, ContextOf
                    DEF Call, Save, Window, Release, Restore
                <4> QED
                    BY <2>1, <4>2, <4>3, <4>4 DEF Step
            <3> QED
                BY <3>1, <3>2, <3>3, ContextForm
        <2>2. ASSUME NEW d \in CPU, Interrupt(d) \/ Return(d)
              PROVE  pc'[Handler(c)] = "off" /\ ~ intFlag'[c]
            <3>1. pc'[Main(c)] = pc[Main(c)]
                BY <2>2, ContextOf DEF Interrupt, Return
            <3>2. d # c
                BY <2>2, <3>1 DEF Interrupt, Return, IrqInv
            <3> QED
                BY <2>2, <3>1, <3>2, ContextOf DEF Interrupt, Return, IrqInv
        <2>3. CASE UNCHANGED vars
            BY <2>3 DEF vars, IrqInv
        <2> QED
            BY <2>1, <2>2, <2>3 DEF Next, Step
    <1>3. IrqInv => HolderUninterrupted
        BY DEF IrqInv, HolderUninterrupted, Closed
    <1> QED
        BY <1>1, <1>2, <1>3, TypeCorrect, PTL DEF Spec

-----------------------------------------------------------------------------
LEMMA FifoStutter ==
    ASSUME TypeOK, Ticketed' = Ticketed,
           \A x \in Ticketed : pc'[x] = "inside" <=> pc[x] = "inside",
           UNCHANGED <<ticket, now_serving>>
    PROVE  UNCHANGED Fifo!vars
    <1>1. Phase' = Phase
        BY DEF Phase
    <1>2. Ahead' = Ahead
        BY DEF Ahead, Distance
    <1> QED
        BY <1>1, <1>2 DEF Fifo!vars

LEMMA DrawJoins ==
    ASSUME TypeOK, TicketInv, NEW x \in Context, Draw(x)
    PROVE  Fifo!Join(x)
    <1> DEFINE N == Cardinality(Ticketed)
    <1>1. x \notin Ticketed /\ Ticketed' = Ticketed \cup {x}
        BY DEF Draw, Goto, Ticketed, TypeOK
    <1>2. N \in Nat /\ N + 1 < TicketMod
        BY <1>1, TicketedFinite
    <1>3. /\ now_serving' = now_serving /\ ticket'[x] = next_ticket
          /\ \A y \in Ticketed : ticket'[y] = ticket[y] /\ pc'[y] = pc[y]
        BY <1>1, TicketedFinite DEF TypeOK, Draw, Goto
    <1>4. Distance(ticket[x])' = N
        BY <1>3 DEF TicketInv, Distance
    <1>5. \A y \in Ticketed : /\ Distance(ticket[y])' = Distance(ticket[y])
                              /\ Distance(ticket[y]) < N
        BY <1>3 DEF Distance, TicketInv
    <1>6. Phase' = [Phase EXCEPT ![x] = "waiting"] /\ Phase[x] = "out"
        <2>1. Phase[x] = "out" /\ Phase'[x] = "waiting"
            BY <1>1 DEF Phase, Draw, Goto, TypeOK
        <2>2. ASSUME NEW y \in Context, y # x PROVE Phase'[y] = Phase[y]
            BY <2>2, <1>1, <1>3 DEF Phase
        <2> QED
            BY <2>1, <2>2 DEF Phase
    <1>7. Fifo!Engaged = Ticketed
        BY TicketedFinite DEF Fifo!Engaged, Phase
    <1>8. Ahead' = [Ahead EXCEPT ![x] = Ticketed]
        <2>1. ~ (N < N)
            BY <1>2
        <2>2. Ahead'[x] = Ticketed
            BY <1>1, <1>4, <1>5, <2>1 DEF Ahead
        <2>3. ASSUME NEW y \in Context, y # x PROVE Ahead'[y] = Ahead[y]
            <3>1. CASE y \in Ticketed
                <4>1. ~ (N < Distance(ticket[y]))
                    BY <3>1, <1>2, <1>5, TicketedFinite, TicketModPositive
                    DEF Distance, TypeOK
                <4> QED
                    BY <3>1, <4>1, <1>1, <1>4, <1>5 DEF Ahead
            <3>2. CASE y \notin Ticketed
                BY <2>3, <3>2, <1>1 DEF Ahead
            <3> QED
                BY <3>1, <3>2
        <2> QED
            BY <2>2, <2>3 DEF Ahead
    <1> QED
        BY <1>6, <1>7, <1>8 DEF Fifo!Join

LEMMA TestTakes ==
    ASSUME TypeOK, TicketInv, NEW x \in Context, Test(x),
           now_serving = ticket[x]
    PROVE  Fifo!Take(x)
    <1>1. /\ x \in Ticketed /\ Ticketed' = Ticketed
          /\ pc[x] = "test" /\ pc' = [pc EXCEPT ![x] = "inside"]
          /\ ticket' = ticket /\ now_serving' = now_serving
        BY DEF Test, Goto, Ticketed, TypeOK, lockVars
    <1>2. ASSUME NEW y \in Ticketed
          PROVE  ~ (Distance(ticket[y]) < Distance(ticket[x]))
        <2>1. Distance(ticket[x]) = 0
            BY DEF Distance, TypeOK
        <2>2. Distance(ticket[y]) \in Nat
            BY TicketedFinite, TicketModPositive DEF Distance, TypeOK
        <2> QED
            BY <2>1, <2>2
    <1>3. Ahead[x] = {} /\ Ahead' = Ahead
        BY <1>1, <1>2 DEF Ahead, Distance
    <1>4. Phase[x] = "waiting" /\ Phase' = [Phase EXCEPT ![x] = "inside"]
        BY <1>1 DEF Phase, TypeOK
    <1> QED
        BY <1>3, <1>4 DEF Fifo!Take

LEMMA ReleaseLeaves ==
    ASSUME TypeOK, TicketInv, NEW x \in Context, Release(x)
    PROVE  Fifo!Leave(x)
    <1>1. /\ x \in Ticketed /\ Ticketed' = Ticketed \ {x}
          /\ pc[x] = "inside" /\ pc' = [pc EXCEPT ![x] = "restore"]
          /\ ticket' = ticket /\ now_serving' = Successor(now_serving)
          /\ ticket[x] = now_serving
        BY DEF Release, Goto, Ticketed, TypeOK, TicketInv
    <1>2. ASSUME NEW y \in Ticketed, y # x
          PROVE  /\ Distance(ticket[y])' = Distance(ticket[y]) - 1
                 /\ Distance(ticket[y]) \in Int
        <2>1. ticket[y] # now_serving
            BY <1>1, <1>2 DEF TicketInv
        <2> QED
            BY <1>1, <2>1, TicketedFinite, TicketModPositive
            DEF Distance, Successor, TypeOK
    <1>3. Phase[x] = "inside" /\ Phase' = [Phase EXCEPT ![x] = "out"]
        BY <1>1 DEF Phase, TypeOK
    <1>4. Ahead' = [y \in Context |-> Ahead[y] \ {x}]
        <2>1. ASSUME NEW y \in Context PROVE Ahead'[y] = Ahead[y] \ {x}
            <3>1. CASE y \in Ticketed /\ y # x
                <4>1. Ahead'[y] = {z \in Ticketed' : Distance(ticket[z])' < Distance(ticket[y])'}
                    BY <3>1, <1>1 DEF Ahead
                <4>2. Ahead[y] = {z \in Ticketed : Distance(ticket[z]) < Distance(ticket[y])}
                    BY <3>1 DEF Ahead
                <4> QED
                    BY <3>1, <4>1, <4>2, <1>1, <1>2
            <3>2. CASE y = x
                <4>1. Distance(ticket[x]) = 0
                    BY <1>1 DEF Distance, TypeOK
                <4>2. ASSUME NEW z \in Ticketed PROVE ~ (Distance(ticket[z]) < 0)
                    BY TicketedFinite, TicketModPositive DEF Distance, TypeOK
                <4>3. Ahead[x] = {}
                    BY <4>1, <4>2 DEF Ahead
                <4> QED
                    BY <3>2, <4>3, <1>1 DEF Ahead
            <3>3. CASE y \notin Ticketed
                BY <3>3, <1>1 DEF Ahead
            <3> QED
                BY <3>1, <3>2, <3>3
        <2> QED
            BY <2>1 DEF Ahead
    <1> QED
        BY <1>3, <1>4 DEF Fifo!Leave

\* The ticket lock implements the first-come first-served lock.
THEOREM Refinement == Spec => ImplementsFifo
    <1>1. Init => Fifo!Init
        BY DEF Init, Fifo!Init, Phase, Ahead, Ticketed
    <1>2. TypeOK /\ TicketInv /\ [Next]_vars => [Fifo!Next]_(Fifo!vars)
        <2> SUFFICES ASSUME TypeOK, TicketInv, [Next]_vars
                     PROVE  Fifo!Next \/ UNCHANGED Fifo!vars
            OBVIOUS
        <2>1. ASSUME NEW x \in Context, Step(x)
              PROVE  Fifo!Next \/ UNCHANGED Fifo!vars
            <3>1. CASE Draw(x)
                BY <3>1, DrawJoins DEF Fifo!Next
            <3>2. CASE Test(x) /\ now_serving = ticket[x]
                BY <3>2, TestTakes DEF Fifo!Next
            <3>3. CASE Test(x) /\ now_serving # ticket[x]
                BY <3>3, FifoStutter DEF Test, Ticketed, Goto, TypeOK, lockVars
            <3>4. CASE Release(x)
                BY <3>4, ReleaseLeaves DEF Fifo!Next
            <3>5. CASE Save(x) \/ Cli(x) \/ Restore(x)
                BY <3>5, FifoStutter
                DEF Save, Cli, Restore, Ticketed, Goto, TypeOK, lockVars
            <3>6. CASE Window(x) \/ Pause(x)
                BY <3>6, FifoStutter
                DEF Window, Pause, Ticketed, Goto, TypeOK, lockVars
            <3> QED
                BY <2>1, <3>1, <3>2, <3>3, <3>4, <3>5, <3>6 DEF Step
        <2>2. ASSUME NEW x \in Context, Call(x) PROVE UNCHANGED Fifo!vars
            BY <2>2, FifoStutter DEF Call, Ticketed, Goto, TypeOK, lockVars
        <2>3. ASSUME NEW c \in CPU, Interrupt(c) \/ Return(c)
              PROVE  UNCHANGED Fifo!vars
            BY <2>3, ContextOf, FifoStutter
            DEF Interrupt, Return, Ticketed, TypeOK, lockVars
        <2>4. CASE UNCHANGED vars
            BY <2>4, FifoStutter DEF vars, Ticketed
        <2> QED
            BY <2>1, <2>2, <2>3, <2>4 DEF Next
    <1> QED
        BY <1>1, <1>2, TypeCorrect, TicketsInOrder, PTL
        DEF Spec, ImplementsFifo, Fifo!Spec
=============================================================================
