----------------------------- MODULE TicketLock -----------------------------
(***************************************************************************)
(* The ticket lock of sync/lock.c, with the interrupt flag of every CPU    *)
(* and the interrupt handlers that take the same lock: INTERRUPT_HANDLER   *)
(* (arch/idt.c) reports through WARN and ERROR, which take g_trace_lock.   *)
(*                                                                         *)
(* A context is what executes lock() and unlock(): the main program of a   *)
(* CPU or the interrupt handler running on top of it.  One handler at most *)
(* runs on a CPU (nesting is bounded to one), and MaxInterrupts bounds the *)
(* interrupts of a behaviour.                                              *)
(***************************************************************************)
EXTENDS Integers, FiniteSets

CONSTANTS
    CPU,
    TicketMod,          \* size of size_t: 2^64 in the build
    DisableInterrupts,  \* INIT_IRQ_LOCK() if TRUE, INIT_LOCK() if FALSE
    BootIF,             \* the interrupt flags a CPU may start with
    MaxInterrupts       \* bound: interrupts delivered in a behaviour

Context == CPU \X {"main", "irq"}

ASSUME CPUAssumption == IsFiniteSet(CPU)
ASSUME TicketModAssumption ==
    TicketMod \in Nat /\ TicketMod > Cardinality(Context)
ASSUME FlagAssumption ==
    DisableInterrupts \in BOOLEAN /\ BootIF \subseteq BOOLEAN
ASSUME MaxInterruptsAssumption == MaxInterrupts \in Nat

VARIABLES
    pc,             \* where each context is in lock()/unlock()
    ticket,         \* lock()'s local variable
    next_ticket,    \* lock_t
    now_serving,    \* lock_t
    interrupts,     \* lock_t: shared by every context that calls lock()
    intFlag,        \* RFLAGS.IF of each CPU
    homeIF,         \* IF of each CPU's main program outside the lock
    delivered       \* interrupts delivered so far

lockVars == <<next_ticket, now_serving, interrupts>>
vars == <<pc, ticket, next_ticket, now_serving, interrupts, intFlag, homeIF,
          delivered>>

Cpu(x) == x[1]
Main(c) == <<c, "main">>
Handler(c) == <<c, "irq">>

\* A handler suspends the main program of its CPU until it returns.
Runs(x) == x = Handler(Cpu(x)) \/ pc[Handler(Cpu(x))] = "off"

\* The contexts that hold a ticket.
Ticketed == {x \in Context : pc[x] \in {"test", "window", "pause", "inside"}}

\* Mutant of Successor: a counter that does not wrap around.
Wide_Successor(t) == t + 1

Successor(t) == IF t + 1 = TicketMod THEN 0 ELSE t + 1

\* How many unlock() calls come before ticket t is served.
Distance(t) == IF t >= now_serving THEN t - now_serving
                                   ELSE t + TicketMod - now_serving

Goto(x, label) == pc' = [pc EXCEPT ![x] = label]
SetIF(x, value) == intFlag' = [intFlag EXCEPT ![Cpu(x)] = value]

Init ==
    /\ pc = [x \in Context |-> IF x[2] = "main" THEN "idle" ELSE "off"]
    /\ ticket = [x \in Context |-> 0]
    /\ next_ticket = 0
    /\ now_serving = 0
    /\ interrupts = FALSE
    /\ homeIF \in [CPU -> BootIF]
    /\ intFlag = homeIF
    /\ delivered = 0

-----------------------------------------------------------------------------
(* lock()                                                                  *)

Call(x) ==
    /\ pc[x] \in {"idle", "entry"}
    /\ Goto(x, IF DisableInterrupts THEN "save" ELSE "draw")
    /\ UNCHANGED <<ticket, lockVars, intFlag, homeIF, delivered>>

\* The flag is stored in the lock before the lock is held.
Save(x) ==
    /\ pc[x] = "save"
    /\ interrupts' = intFlag[Cpu(x)]
    /\ Goto(x, "cli")
    /\ UNCHANGED <<ticket, next_ticket, now_serving, intFlag, homeIF, delivered>>

Cli(x) ==
    /\ pc[x] = "cli"
    /\ SetIF(x, FALSE)
    /\ Goto(x, "draw")
    /\ UNCHANGED <<ticket, lockVars, homeIF, delivered>>

Draw(x) ==
    /\ pc[x] = "draw"
    /\ ticket' = [ticket EXCEPT ![x] = next_ticket]
    /\ next_ticket' = Successor(next_ticket)
    /\ Goto(x, "test")
    /\ UNCHANGED <<now_serving, interrupts, intFlag, homeIF, delivered>>

\* Mutant of Test: the tickets are compared by order instead of equality.
Order_Test(x) ==
    /\ pc[x] = "test"
    /\ Goto(x, IF now_serving >= ticket[x] THEN "inside" ELSE "window")
    /\ UNCHANGED <<ticket, lockVars, intFlag, homeIF, delivered>>

Test(x) ==
    /\ pc[x] = "test"
    /\ Goto(x, IF now_serving = ticket[x] THEN "inside" ELSE "window")
    /\ UNCHANGED <<ticket, lockVars, intFlag, homeIF, delivered>>

\* The waiter lets interrupts in while it pauses, with its ticket drawn.
Window(x) ==
    /\ pc[x] = "window"
    /\ intFlag' = IF DisableInterrupts /\ interrupts
                  THEN [intFlag EXCEPT ![Cpu(x)] = TRUE]
                  ELSE intFlag
    /\ Goto(x, "pause")
    /\ UNCHANGED <<ticket, lockVars, homeIF, delivered>>

\* Mutant of Pause: the cli after the pause is lost.
Open_Pause(x) ==
    /\ pc[x] = "pause"
    /\ Goto(x, "test")
    /\ UNCHANGED <<ticket, lockVars, intFlag, homeIF, delivered>>

\* cpu_pause() and a disable_interrupts() that no condition guards.
Pause(x) ==
    /\ pc[x] = "pause"
    /\ SetIF(x, FALSE)
    /\ Goto(x, "test")
    /\ UNCHANGED <<ticket, lockVars, homeIF, delivered>>

-----------------------------------------------------------------------------
(* unlock()                                                                *)

\* Mutant of Release: one waiter is skipped.
Skip_Release(x) ==
    /\ pc[x] = "inside"
    /\ now_serving' = IF next_ticket = Successor(now_serving)
                      THEN next_ticket
                      ELSE Successor(Successor(now_serving))
    /\ Goto(x, "restore")
    /\ UNCHANGED <<ticket, next_ticket, interrupts, intFlag, homeIF, delivered>>

\* Mutant of Release: now_serving is wider than next_ticket.
Wide_Release(x) ==
    /\ pc[x] = "inside"
    /\ now_serving' = now_serving + 1
    /\ Goto(x, "restore")
    /\ UNCHANGED <<ticket, next_ticket, interrupts, intFlag, homeIF, delivered>>

Release(x) ==
    /\ pc[x] = "inside"
    /\ now_serving' = Successor(now_serving)
    /\ Goto(x, "restore")
    /\ UNCHANGED <<ticket, next_ticket, interrupts, intFlag, homeIF, delivered>>

\* The flag is read back from the lock after the lock was given away.
Restore(x) ==
    /\ pc[x] = "restore"
    /\ intFlag' = IF DisableInterrupts /\ interrupts
                  THEN [intFlag EXCEPT ![Cpu(x)] = TRUE]
                  ELSE intFlag
    /\ Goto(x, IF x = Handler(Cpu(x)) THEN "exit" ELSE "idle")
    /\ UNCHANGED <<ticket, lockVars, homeIF, delivered>>

-----------------------------------------------------------------------------
(* Interrupts: init_idt() installs interrupt gates, which clear IF on      *)
(* entry; iretq restores the IF of the interrupted program.                *)

Interrupt(c) ==
    /\ delivered < MaxInterrupts
    /\ intFlag[c]
    /\ pc[Handler(c)] = "off"
    /\ pc' = [pc EXCEPT ![Handler(c)] = "entry"]
    /\ intFlag' = [intFlag EXCEPT ![c] = FALSE]
    /\ delivered' = delivered + 1
    /\ UNCHANGED <<ticket, lockVars, homeIF>>

\* A handler that found its interrupt handled returns without a report.
Return(c) ==
    /\ pc[Handler(c)] \in {"entry", "exit"}
    /\ pc' = [pc EXCEPT ![Handler(c)] = "off"]
    /\ intFlag' = [intFlag EXCEPT ![c] = TRUE]
    /\ UNCHANGED <<ticket, lockVars, homeIF, delivered>>

-----------------------------------------------------------------------------
Step(x) ==
    /\ Runs(x)
    /\ \/ Save(x) \/ Cli(x) \/ Draw(x) \/ Test(x) \/ Window(x) \/ Pause(x)
       \/ Release(x) \/ Restore(x)

Next ==
    \/ \E x \in Context : Step(x) \/ (Runs(x) /\ Call(x))
    \/ \E c \in CPU : Interrupt(c) \/ Return(c)

Spec == Init /\ [][Next]_vars

\* A CPU keeps executing the code it runs; nothing obliges a program to call
\* lock() or a device to interrupt.
Fairness ==
    /\ \A x \in Context : WF_vars(Step(x))
    /\ \A c \in CPU : WF_vars(Return(c))

FairSpec == Spec /\ Fairness

-----------------------------------------------------------------------------
(* Properties                                                              *)

Labels == {"off", "entry", "exit", "idle", "save", "cli", "draw", "test",
           "window", "pause", "inside", "restore"}

\* Types of the variables; main programs are never in a handler's labels.
TypeOK ==
    /\ pc \in [Context -> Labels]
    /\ \A c \in CPU : pc[Main(c)] \notin {"off", "entry", "exit"}
    /\ \A c \in CPU : pc[Handler(c)] # "idle"
    /\ ticket \in [Context -> 0 .. TicketMod - 1]
    /\ next_ticket \in 0 .. TicketMod - 1
    /\ now_serving \in 0 .. TicketMod - 1
    /\ interrupts \in BOOLEAN
    /\ intFlag \in [CPU -> BOOLEAN]
    /\ homeIF \in [CPU -> BootIF]
    /\ delivered \in Nat

\* Two contexts, on one CPU or on two, are never both between lock() and
\* unlock(), the wrap-around of the tickets included.
MutualExclusion ==
    \A x, y \in Context :
        pc[x] = "inside" /\ pc[y] = "inside" => x = y

\* A lock made with INIT_IRQ_LOCK() keeps the handlers of its holder's CPU
\* out until unlock(): no handler is suspended there, and none can start.
HolderUninterrupted ==
    DisableInterrupts =>
        \A c \in CPU :
            pc[Main(c)] = "inside" =>
                pc[Handler(c)] = "off" /\ ~ intFlag[c]

\* "restore interrupts" (lock.c:27): outside the lock, a main program finds
\* the interrupt flag as it was before it called lock().
InterruptsRestored ==
    \A c \in CPU :
        pc[Main(c)] = "idle" /\ pc[Handler(c)] = "off" =>
            intFlag[c] = homeIF[c]

Phase ==
    [x \in Context |-> IF x \notin Ticketed THEN "out"
                       ELSE IF pc[x] = "inside" THEN "inside" ELSE "waiting"]

Ahead ==
    [x \in Context |->
        IF x \notin Ticketed THEN {}
        ELSE {y \in Ticketed : Distance(ticket[y]) < Distance(ticket[x])}]

Fifo == INSTANCE FifoLock WITH phase <- Phase, ahead <- Ahead

\* Every step of lock() and unlock() is a step of a first-come first-served
\* lock: contexts enter in the order in which they drew their tickets.
ImplementsFifo == Fifo!Spec

\* A context that drew a ticket gets the lock, unless an interrupt arrived
\* while a main program was pausing with its ticket: its handler may then
\* be waiting behind the ticket of the program it suspends.
WaitEndsUnlessInterrupted ==
    \A x \in Context :
        pc[x] = "test" ~>
            \/ pc[x] = "inside"
            \/ \E c \in CPU : pc[Main(c)] = "pause" /\ pc[Handler(c)] # "off"
=============================================================================
