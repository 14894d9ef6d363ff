----------------------------- MODULE Exceptions -----------------------------
(***************************************************************************)
(* Exceptions and interrupts of virtdbg itself, as arch/idt.c takes them:  *)
(* the CPU pushes the interrupted program's state, a stub completes it to  *)
(* an exception_context_t, common_exception_handler() runs the hooks,      *)
(* which may change the context, and an exception that was handled returns *)
(* to what the context then says.  A hook may take an exception of its     *)
(* own.  An interrupt runs the hooks of a list of its own.                 *)
(*                                                                         *)
(* The stack grows to the right; a word is <<origin, name, number>>.  The  *)
(* lists of hooks are the rings of util/list.c, written store by store, as *)
(* an exception may come between any two stores of the program.            *)
(***************************************************************************)
EXTENDS Integers, Sequences

CONSTANTS
    Raised,         \* the exceptions that are raised
    Interrupts,     \* the interrupts that arrive
    HookVectors,    \* what hook_interrupt_handler() is called for
    MaxHooks,       \* bound: hooks registered
    MaxDepth,       \* bound: exceptions within exceptions
    MaxExceptions   \* bound: exceptions and interrupts in a behaviour

\* The vectors whose gate leads to a stub, and to an INTERRUPT_HANDLER.
ExceptionGate == 0 .. 31
InterruptGate == 32 .. 255

\* The lists that m_interrupt_handlers has room for.
InterruptLists == 0 .. 223

ASSUME RaisedAssumption == Raised \subseteq ExceptionGate
ASSUME InterruptAssumption == Interrupts \subseteq InterruptGate
ASSUME HookAssumption == HookVectors \subseteq (InterruptGate \cap InterruptLists)
ASSUME BoundAssumption == {MaxHooks, MaxDepth, MaxExceptions} \subseteq Nat

\* The nodes of the rings: the heads of those lists that are used, and the
\* links of the hooks.
ExceptionList == <<"exceptions", 0>>
HandlerList(v) == <<"interrupts", v - 32>>
HookList(v) == <<"interrupts", v>>
List == {ExceptionList} \cup {HandlerList(v) : v \in Interrupts}
                        \cup {HookList(v) : v \in HookVectors}
Link == {"hook"} \X (1 .. MaxHooks)
Null == <<"null", 0>>
Node == List \cup Link

\* Mutant of ErrorStub: the stub of the general protection fault is a plain one.
Plain_ErrorStub == {8, 10, 11, 12, 14, 16}

\* Vectors for which the CPU pushes an error code, and those whose stub
\* expects it to.
HasErrorCode == {8, 10, 11, 12, 13, 14, 17, 21}
ErrorStub == {8, 10, 11, 12, 13, 14, 16}

General == {"rax", "rbx", "rcx", "rdx", "rsi", "rdi", "rbp", "r8", "r9",
            "r10", "r11", "r12", "r13", "r14", "r15"}
Register == General \cup {"ds", "rip", "cs", "rflags", "ss"}

\* Mutant of PopOrder: rsi and rdi in the order of the pushes.
Swapped_PopOrder == <<"ds", "r15", "r14", "r13", "r12", "r11", "r10", "r9", "r8",
                      "rbp", "rsi", "rdi", "rdx", "rcx", "rbx", "rax">>

\* What common_exception_stub pushes, in order, and pops, in order.
PushOrder == <<"rax", "rbx", "rcx", "rdx", "rsi", "rdi", "rbp", "r8", "r9",
               "r10", "r11", "r12", "r13", "r14", "r15", "ds">>
PopOrder == <<"ds", "r15", "r14", "r13", "r12", "r11", "r10", "r9", "r8",
              "rbp", "rdi", "rsi", "rdx", "rcx", "rbx", "rax">>

\* The fields of exception_context_t, from its address up.
Context == <<"ds", "r15", "r14", "r13", "r12", "r11", "r10", "r9", "r8", "rbp",
             "rdi", "rsi", "rdx", "rcx", "rbx", "rax", "int_num", "error_code",
             "rip", "cs", "rflags", "rsp", "ss">>

Field == {Context[i] : i \in 1 .. Len(Context)}
Place(order, f) == CHOOSE i \in 1 .. Len(order) : order[i] = f

Number(n) == <<"number", "", n>>
Rsp(n) == <<"stack", "rsp", n>>
Fresh(origin, n) == [r \in Register |-> <<origin, r, n>>]

VARIABLES
    pc,             \* what the CPU executes
    regs,           \* its registers but rsp
    stack,          \* the stack; rsp is its length
    acts,           \* exceptions and interrupts in progress, the innermost last
    next, prev,     \* the pointers of the rings
    push,           \* the list_push() that the program is in
    registered,     \* for each list, the hooks whose list_push() is over
    count           \* exceptions and interrupts so far

vars == <<pc, regs, stack, acts, next, prev, push, registered, count>>
rings == <<next, prev, push, registered>>

Idle == [stage |-> "idle", list |-> Null, entry |-> Null]

\* The innermost exception, and the stack position of a field of a context.
act == acts[Len(acts)]

\* What a hook leaves in the registers; it does not touch ds.
HookRegisters == [r \in Register |->
    IF r = "ds" /\ act.kind = "interrupt" THEN regs[r] ELSE <<"hook", r, count>>]

At(a, f) == a.ctx - Place(Context, f) + 1

\* An address on the stack is a multiple of 16 where a frame begins.
Aligned(s) == IF Len(s) % 2 = 1 THEN Append(s, <<"pad", "", 0>>) ELSE s

Init ==
    /\ pc = "run"
    /\ regs = Fresh("program", 0)
    /\ stack \in {<<>>, <<<<"program", "local", 0>>>>}
    /\ acts = <<>>
    /\ next = [n \in Node |-> IF n \in List THEN n ELSE Null]
    /\ prev = next
    /\ push = Idle
    /\ registered = [l \in List |-> <<>>]
    /\ count = 0

-----------------------------------------------------------------------------
(* hook_exception_handler() and hook_interrupt_handler(): list_push()       *)

\* The program passes a hook that is in no list.
Unused(e) == next[e] = Null

\* The two stores into the entry, which nobody else has a pointer to.
PushLink(list, e) ==
    /\ pc = "run" /\ push = Idle /\ Unused(e)
    /\ \A e2 \in Link : e2[2] < e[2] => ~Unused(e2)
    /\ prev' = [prev EXCEPT ![e] = prev[list]]
    /\ next' = [next EXCEPT ![e] = list]
    /\ push' = [stage |-> "append", list |-> list, entry |-> e]
    /\ UNCHANGED <<pc, regs, stack, acts, registered, count>>

\* prev->next = entry
PushAppend ==
    /\ pc = "run" /\ push.stage = "append"
    /\ next' = [next EXCEPT ![prev[push.entry]] = push.entry]
    /\ push' = [push EXCEPT !.stage = "close"]
    /\ UNCHANGED <<pc, regs, stack, acts, prev, registered, count>>

\* Mutant of PushClose: list->prev = entry is forgotten.
Open_PushClose ==
    /\ pc = "run" /\ push.stage = "close"
    /\ registered' = [registered EXCEPT ![push.list] = Append(@, push.entry)]
    /\ push' = Idle
    /\ UNCHANGED <<pc, regs, stack, acts, next, prev, count>>

\* list->prev = entry
PushClose ==
    /\ pc = "run" /\ push.stage = "close"
    /\ prev' = [prev EXCEPT ![push.list] = push.entry]
    /\ registered' = [registered EXCEPT ![push.list] = Append(@, push.entry)]
    /\ push' = Idle
    /\ UNCHANGED <<pc, regs, stack, acts, next, count>>

-----------------------------------------------------------------------------
(* The CPU, the stub and the compiler's entry to an INTERRUPT_HANDLER       *)

\* What the CPU pushes for an exception of the program with these registers.
Frame(v) ==
    <<regs["ss"], Rsp(Len(stack)), regs["rflags"], regs["cs"], regs["rip"]>>
        \o (IF v \in HasErrorCode THEN <<<<"error", "code", v>>>> ELSE <<>>)

\* EXCEPTION_STUB pushes a 0 where the error code would be.
Stub(v) ==
    (IF v \in ErrorStub THEN <<>> ELSE <<Number(0)>>) \o <<Number(v)>>
        \o [i \in 1 .. Len(PushOrder) |-> regs[PushOrder[i]]]

\* The context that the hooks are to see.
Interrupted(v) ==
    [f \in Field |->
        CASE f \in Register -> regs[f]
          [] f = "rsp" -> Rsp(Len(stack))
          [] f = "int_num" -> Number(v)
          [] f = "error_code" ->
                IF v \in HasErrorCode THEN <<"error", "code", v>> ELSE Number(0)]

\* Enter the handler that walks this list, with the stack as pushed so far.
Dispatch(kind, v, list, pushed) ==
    /\ Len(acts) < MaxDepth /\ count < MaxExceptions
    /\ stack' = Aligned(stack) \o pushed
    /\ acts' = Append(acts, [kind |-> kind, ctx |-> Len(stack'),
                             list |-> list, entry |-> next[list],
                             handled |-> FALSE, failed |-> FALSE,
                             expect |-> Interrupted(v),
                             due |-> registered[list], called |-> <<>>])
    /\ count' = count + 1
    /\ pc' = "dispatch"
    /\ UNCHANGED <<regs, rings>>

Raise(v) ==
    /\ pc \in {"run", "hook"}
    /\ Dispatch("exception", v, ExceptionList, Frame(v) \o Stub(v))

\* The gates are interrupt gates: no interrupt comes while a hook runs.  The
\* compiler has the handler save the registers that it uses.
Saved == [i \in 1 .. Len(PushOrder) - 1 |-> regs[PushOrder[i]]]

Interrupt(v) ==
    /\ pc = "run"
    /\ Dispatch("interrupt", v, HandlerList(v), Frame(v) \o Saved)

-----------------------------------------------------------------------------
(* common_exception_handler() and INTERRUPT_HANDLER                         *)

\* The hook uses the registers, and the stack above the context.
CallHook ==
    /\ pc = "dispatch" /\ act.entry # act.list /\ ~act.failed
    /\ regs' = HookRegisters
    /\ stack' = SubSeq(stack, 1, act.ctx) \o <<<<"hook", "local", count>>>>
    /\ acts' = [acts EXCEPT ![Len(acts)].called = Append(@, act.entry)]
    /\ pc' = "hook"
    /\ UNCHANGED <<rings, count>>

\* The hook of an exception may mark it as handled and write to the context;
\* any hook may fail.
ReturnHook(handles, fails, edits) ==
    /\ pc = "hook"
    /\ act.kind = "interrupt" => ~handles /\ edits = {}
    /\ LET new(f) == <<"edited", f, count>> IN
          /\ stack' = [i \in 1 .. act.ctx |->
                          IF \E f \in edits : i = At(act, f)
                             THEN new(CHOOSE f \in edits : i = At(act, f))
                             ELSE stack[i]]
          /\ acts' = [acts EXCEPT ![Len(acts)] =
                 [act EXCEPT !.entry = IF fails THEN @ ELSE next[@],
                             !.failed = fails,
                             !.handled = @ \/ handles,
                             !.expect = [f \in Field |->
                                 IF f \in edits THEN new(f) ELSE act.expect[f]]]]
    /\ pc' = "dispatch"
    /\ UNCHANGED <<regs, rings, count>>

\* An exception without a hook that handled it, or with one that failed, ends
\* in kernel_exception_handler(); a failed hook ends an interrupt as well.
Finish ==
    /\ pc = "dispatch" /\ (act.entry = act.list \/ act.failed)
    /\ pc' = IF act.failed \/ (act.kind = "exception" /\ ~act.handled)
                THEN "halted" ELSE "return"
    /\ UNCHANGED <<regs, stack, acts, rings, count>>

-----------------------------------------------------------------------------
(* The way back                                                            *)

\* iretq with its frame under the n words above it.
Iretq(n, pops) ==
    LET top(k) == stack[act.ctx - n - k]
    IN  /\ regs' = [r \in Register |->
              CASE r = "rip" -> top(0)
                [] r = "cs" -> top(1)
                [] r = "rflags" -> top(2)
                [] r = "ss" -> top(4)
                [] OTHER -> pops[r]]
        /\ stack' = IF top(3)[1] = "stack"
                    THEN SubSeq(stack, 1, top(3)[3]) ELSE <<>>
        /\ acts' = SubSeq(acts, 1, Len(acts) - 1)
        /\ pc' = IF Len(acts) = 1 THEN "run" ELSE "hook"
        /\ UNCHANGED <<rings, count>>

Popped(order) == [r \in General \cup {"ds"} |->
    IF \E i \in 1 .. Len(order) : order[i] = r
       THEN stack[act.ctx - Place(order, r) + 1] ELSE regs[r]]

\* The pops of the stub, and the two words that it skips.
Return ==
    /\ pc = "return" /\ act.kind = "exception"
    /\ Iretq(Len(PopOrder) + 2, Popped(PopOrder))

\* The compiler restores what it saved.
ReturnInterrupt ==
    /\ pc = "return" /\ act.kind = "interrupt"
    /\ LET order == SubSeq(PopOrder, 2, Len(PopOrder))
       IN  Iretq(Len(order), Popped(order))

Next ==
    \/ \E e \in Link : PushLink(ExceptionList, e)
    \/ \E e \in Link, v \in HookVectors : PushLink(HookList(v), e)
    \/ PushAppend \/ PushClose
    \/ \E v \in Raised : Raise(v)
    \/ \E v \in Interrupts : Interrupt(v)
    \/ CallHook
    \/ \E handles, fails \in BOOLEAN, edits \in SUBSET {"rip", "rflags"} :
          ReturnHook(handles, fails, edits)
    \/ Finish \/ Return \/ ReturnInterrupt

Spec == Init /\ [][Next]_vars

-----------------------------------------------------------------------------
(* Properties                                                              *)

\* Every field of the context of every exception in progress holds what it
\* is named for, as the program left it or the last hook wrote it, while
\* further exceptions come and go above it.
ContextIntact ==
    \A k \in 1 .. Len(acts), f \in Field : acts[k].kind = "exception" =>
        stack[At(acts[k], f)] = acts[k].expect[f]

\* A handler that walked to the end of its list has called every hook that
\* was registered in it before, in the order of their registration and once,
\* and at most the one besides whose registration it interrupted.
WalkMeetsHooks ==
    pc = "return" =>
        \/ act.called = act.due
        \/ push.list = act.list /\ act.called = Append(act.due, push.entry)

\* An exception that was handled returns to the program as its context says:
\* all registers, and the stack pointer from before the alignment.  An
\* interrupt returns to it as it was.
ResumesInterrupted ==
    [][pc = "return" =>
          /\ \A r \in Register : regs'[r] = act.expect[r]
          /\ Rsp(Len(stack')) = act.expect["rsp"]]_vars
=============================================================================
