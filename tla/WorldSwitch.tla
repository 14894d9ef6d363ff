---------------------------- MODULE WorldSwitch -----------------------------
(***************************************************************************)
(* The world switch of vmx/vmx.asm: how one CPU goes from virtdbg to the   *)
(* guest and back with one set of general registers.  vmlaunch_first()     *)
(* enters the guest for the first time and is left at hexit, vm_resume()   *)
(* enters it again and is left at res.  An action is a run of instructions *)
(* that nothing observes from outside; the VM entry, which may fail and    *)
(* then goes on behind the instruction, is an action of its own.           *)
(*                                                                         *)
(* A value is <<origin, register or name, number>>; a guest_state_t is a   *)
(* function on the registers; the stack grows to the right.                *)
(***************************************************************************)
EXTENDS Integers, Sequences

CONSTANT MaxEntries     \* bound: VM entries in a behaviour

ASSUME MaxEntriesAssumption == MaxEntries \in Nat

\* The order in which vm_resume() pushes the registers.
PushOrder == <<"rax", "rbx", "rcx", "rdx", "rsi", "rdi", "rbp", "r8", "r9",
               "r10", "r11", "r12", "r13", "r14", "r15">>

\* Mutant of PopOrder: rdi and rsi in the order of the pushes.
Swapped_PopOrder == <<"r15", "r14", "r13", "r12", "r11", "r10", "r9", "r8",
                      "rbp", "rsi", "rdi", "rdx", "rcx", "rbx", "rax">>

\* The order in which it pops them.
PopOrder == <<"r15", "r14", "r13", "r12", "r11", "r10", "r9", "r8", "rbp",
              "rdi", "rsi", "rdx", "rcx", "rbx", "rax">>

Register == {PushOrder[i] : i \in 1 .. Len(PushOrder)}

Place(order, r) == CHOOSE i \in 1 .. Len(order) : order[i] = r

\* Addresses: &state->gprstate, and where vmlaunch_first() and vm_resume()
\* would return to.
State == <<"address", "gprstate", 0>>
AfterLaunch == <<"address", "init_vmcs", 0>>
AfterResume == <<"address", "exit_handler", 0>>

\* What a ret to an address executes; there is nothing to execute elsewhere.
Target(address) ==
    CASE address = AfterLaunch -> "init_vmcs"
      [] address = AfterResume -> "exit_handler"
      [] OTHER -> "lost"

VARIABLES
    pc,         \* the code the CPU executes
    regs,       \* its general registers
    stack,      \* the host stack; rsp is its length
    areas,      \* memory used as guest_state_t, by address
    vmcs,       \* fields of the VMCS that the switch writes
    launched,   \* launch state of the VMCS
    argument,   \* exit_handler()'s parameter s
    entries,    \* VM entries so far
    called,     \* history: registers and stack at the call of vm_resume()
    left        \* history: the way and the registers of the last guest exit

vars == <<pc, regs, stack, areas, vmcs, launched, argument, entries, called, left>>
history == <<called, left>>

Fresh(origin, n) == [r \in Register |-> <<origin, r, n>>]

Top(n) == stack[Len(stack) - n]                 \* [rsp + 8 * n]
Popped(n) == SubSeq(stack, 1, Len(stack) - n)

\* init_vmcs() wrote the guest's rip and rsp from the initial state.
Init ==
    /\ pc = "init_vmcs"
    /\ regs = Fresh("host", 0)
    /\ stack = <<>>
    /\ areas = [a \in {State, AfterLaunch} |->
                   Fresh(IF a = State THEN "initial" ELSE "code", 0)]
    /\ vmcs = [host_rsp |-> 0, host_rip |-> "unset",
               guest_rip |-> "state->rip", guest_rsp |-> "state->rsp"]
    /\ launched = FALSE
    /\ argument = State
    /\ entries = 0
    /\ called = [regs |-> regs, stack |-> stack]
    /\ left = [by |-> "none", regs |-> areas[State]]

-----------------------------------------------------------------------------
(* vmlaunch_first()                                                        *)

CallLaunch ==
    /\ pc = "init_vmcs"
    /\ regs' = [regs EXCEPT !["rdi"] = State]
    /\ stack' = Append(stack, AfterLaunch)
    /\ pc' = "vmlaunch_first"
    /\ UNCHANGED <<areas, vmcs, launched, argument, entries, history>>

SetupLaunch ==
    /\ pc = "vmlaunch_first"
    /\ stack' = Append(stack, regs["rdi"])
    /\ vmcs' = [host_rsp |-> Len(stack'), guest_rsp |-> Len(stack'),
                host_rip |-> "hexit", guest_rip |-> "cont"]
    /\ pc' = "load"
    /\ UNCHANGED <<regs, areas, launched, argument, entries, history>>

-----------------------------------------------------------------------------
(* vm_resume()                                                             *)

\* exit_handler() has used the registers for its own ends and passes s.
CallResume ==
    /\ pc = "exit_handler"
    /\ regs' = [Fresh("host", entries) EXCEPT !["rdi"] = argument]
    /\ called' = [regs |-> regs', stack |-> stack]
    /\ stack' = Append(stack, AfterResume)
    /\ pc' = "vm_resume"
    /\ UNCHANGED <<areas, vmcs, launched, argument, entries, left>>

\* Mutant of SetupResume: HOST_RSP is written before the push of the area.
Early_SetupResume ==
    /\ pc = "vm_resume"
    /\ stack' = stack \o [i \in 1 .. Len(PushOrder) |-> regs[PushOrder[i]]]
                      \o <<regs["rdi"]>>
    /\ vmcs' = [vmcs EXCEPT !.host_rsp = Len(stack') - 1, !.host_rip = "res"]
    /\ pc' = "load"
    /\ UNCHANGED <<regs, areas, launched, argument, entries, history>>

SetupResume ==
    /\ pc = "vm_resume"
    /\ stack' = stack \o [i \in 1 .. Len(PushOrder) |-> regs[PushOrder[i]]]
                      \o <<regs["rdi"]>>
    /\ vmcs' = [vmcs EXCEPT !.host_rsp = Len(stack'), !.host_rip = "res"]
    /\ pc' = "load"
    /\ UNCHANGED <<regs, areas, launched, argument, entries, history>>

\* Both functions load every register from the area on top of the stack.
Load ==
    /\ pc = "load"
    /\ regs' = areas[Top(0)]
    /\ pc' = "entry"
    /\ UNCHANGED <<stack, areas, vmcs, launched, argument, entries, history>>

-----------------------------------------------------------------------------
(* The hardware: vmlaunch if the VMCS is clear, vmresume if it is launched *)

Enter ==
    /\ pc = "entry"
    /\ entries < MaxEntries
    /\ vmcs.host_rip = "hexit" \/ launched
    /\ launched' = TRUE
    /\ entries' = entries + 1
    /\ pc' = "guest"
    /\ UNCHANGED <<regs, stack, areas, vmcs, argument, history>>

\* A failed vmlaunch or vmresume goes on with the next instruction, which is
\* the code at the host's rip.
FailEntry ==
    /\ pc = "entry"
    /\ entries < MaxEntries
    /\ entries' = entries + 1
    /\ pc' = vmcs.host_rip
    /\ UNCHANGED <<regs, stack, areas, vmcs, launched, argument, history>>

\* The guest changes some register, or all, or none, and exits.
GuestExit(S) ==
    /\ pc = "guest"
    /\ regs' = [r \in Register |-> IF r \in S THEN <<"guest", r, entries>> ELSE regs[r]]
    /\ stack' = SubSeq(stack, 1, vmcs.host_rsp)
    /\ left' = [by |-> vmcs.host_rip, regs |-> regs']
    /\ pc' = vmcs.host_rip
    /\ UNCHANGED <<areas, vmcs, launched, argument, entries, called>>

-----------------------------------------------------------------------------
(* hexit and res                                                           *)

\* push rdi; the area's address is below it; all registers but rdi go there.
Save ==
    /\ pc \in {"hexit", "res"}
    /\ stack' = Append(stack, regs["rdi"])
    /\ LET area == Top(0) IN
          /\ areas' = [areas EXCEPT ![area] =
                          [regs EXCEPT !["rdi"] = areas[area]["rdi"]]]
          /\ regs' = [regs EXCEPT !["rdi"] = area]
    /\ pc' = IF pc = "hexit" THEN "hexit_rdi" ELSE "res_rdi"
    /\ UNCHANGED <<vmcs, launched, argument, entries, history>>

\* Mutant of SaveRdi: the area keeps the rdi of an earlier exit.
Stale_SaveRdi ==
    /\ pc \in {"hexit_rdi", "res_rdi"}
    /\ regs' = [regs EXCEPT !["r8"] = Top(0), !["r9"] = Top(1)]
    /\ stack' = Popped(2)
    /\ pc' = IF pc = "hexit_rdi" THEN "hexit_jump" ELSE "res_pop"
    /\ UNCHANGED <<areas, vmcs, launched, argument, entries, history>>

\* pop r8; pop r9; the guest's rdi goes to the area as well.
SaveRdi ==
    /\ pc \in {"hexit_rdi", "res_rdi"}
    /\ regs' = [regs EXCEPT !["r8"] = Top(0), !["r9"] = Top(1)]
    /\ areas' = [areas EXCEPT ![Top(1)]["rdi"] = Top(0)]
    /\ stack' = Popped(2)
    /\ pc' = IF pc = "hexit_rdi" THEN "hexit_jump" ELSE "res_pop"
    /\ UNCHANGED <<vmcs, launched, argument, entries, history>>

\* pop rdi; jmp exit_handler: what is left on the stack is the address that
\* vmlaunch_first() would return to.
JumpToHandler ==
    /\ pc = "hexit_jump"
    /\ regs' = [regs EXCEPT !["rdi"] = Top(0)]
    /\ argument' = Top(0)
    /\ stack' = Popped(1)
    /\ pc' = "exit_handler"
    /\ UNCHANGED <<areas, vmcs, launched, entries, history>>

\* Mutant of PopAndReturn: the return address stays on the stack.
Leaking_PopAndReturn ==
    /\ pc = "res_pop"
    /\ regs' = [r \in Register |-> Top(Place(PopOrder, r) - 1)]
    /\ stack' = Popped(Len(PopOrder))
    /\ pc' = Target(Top(Len(PopOrder)))
    /\ UNCHANGED <<areas, vmcs, launched, argument, entries, history>>

PopAndReturn ==
    /\ pc = "res_pop"
    /\ regs' = [r \in Register |-> Top(Place(PopOrder, r) - 1)]
    /\ stack' = Popped(Len(PopOrder) + 1)
    /\ pc' = Target(Top(Len(PopOrder)))
    /\ UNCHANGED <<areas, vmcs, launched, argument, entries, history>>

Next ==
    \/ CallLaunch \/ SetupLaunch \/ CallResume \/ SetupResume \/ Load
    \/ Enter \/ FailEntry
    \/ \E S \in {{r} : r \in Register} \cup {{}, Register} : GuestExit(S)
    \/ Save \/ SaveRdi \/ JumpToHandler \/ PopAndReturn

Spec == Init /\ [][Next]_vars

-----------------------------------------------------------------------------
(* Properties                                                              *)

Value == {"host", "initial", "code", "guest", "address"}
           \X (Register \cup {"gprstate", "init_vmcs", "exit_handler"})
           \X (0 .. MaxEntries)

\* Types of the variables; the areas written are the two that there are.
TypeOK ==
    /\ pc \in {"init_vmcs", "vmlaunch_first", "vm_resume", "load", "entry",
               "guest", "hexit", "hexit_rdi", "hexit_jump", "res", "res_rdi",
               "res_pop", "exit_handler"}
    /\ \A r \in Register : regs[r] \in Value
    /\ \A a \in DOMAIN areas, r \in Register : areas[a][r] \in Value
    /\ DOMAIN areas = {State, AfterLaunch}
    /\ Len(stack) <= 18
    /\ argument \in {State, AfterLaunch}
    /\ entries \in 0 .. MaxEntries

\* vm_resume() returns to exit_handler() with every register and the stack
\* as they were at the call, whether the guest ran in between or the entry
\* failed: exit_handler() is compiled C that keeps its locals there.
HostPreserved ==
    pc = "exit_handler" /\ vmcs.host_rip = "res" =>
        regs = called.regs /\ stack = called.stack

\* From the second exit on the guest finds its registers, when it is
\* entered, as it left them, rdi and the scratch registers of the switch
\* included.
GuestPreserved ==
    pc = "guest" /\ left.by = "res" => regs = left.regs

\* At a VM entry the word on the host stack that the exit code will find
\* above the guest's rdi is the area the guest's registers came from.
AreaOnStack ==
    pc \in {"entry", "guest"} =>
        /\ vmcs.host_rsp = Len(stack)
        /\ Top(0) \in DOMAIN areas
        /\ regs = areas[Top(0)] \/ pc = "guest"

\* "launch the VM, execution will resume at exit_handler" (vmm.c:301), whose
\* parameter is a guest_state_t (vmm.c:374): the state it was launched with.
HandlerGetsState == pc = "exit_handler" => argument = State
=============================================================================
