---------------------------- MODULE SwitchProofs ----------------------------
(***************************************************************************)
(* Theorems about vmx/vmx.asm for any number of VM entries, any of which   *)
(* may fail, and any registers that the guest changes.                     *)
(***************************************************************************)
EXTENDS WorldSwitch, TLAPS

Registers == [Register -> Value]

\* The registers r on the host stack, above the return address.
Frame(r) == <<AfterResume, r["rax"], r["rbx"], r["rcx"], r["rdx"], r["rsi"],
              r["rdi"], r["rbp"], r["r8"], r["r9"], r["r10"], r["r11"],
              r["r12"], r["r13"], r["r14"], r["r15"]>>

\* What the way out finds on the stack, under the area of the registers.
Base == IF vmcs.host_rip = "hexit" THEN <<AfterLaunch>> ELSE Frame(called.regs)
Area == IF vmcs.host_rip = "hexit" THEN State ELSE AfterLaunch

TypeInv ==
    /\ entries \in 0 .. MaxEntries
    /\ argument \in {State, AfterLaunch}
    /\ regs \in Registers
    /\ areas \in [{State, AfterLaunch} -> Registers]
    /\ called \in [regs : Registers, stack : {<<>>}]
    /\ vmcs \in [host_rsp : Nat, host_rip : {"unset", "hexit", "res"},
                 guest_rip : {"state->rip", "cont"},
                 guest_rsp : Nat \cup {"state->rsp"}]
    /\ left \in [by : {"none", "hexit", "res"}, regs : Registers]

\* The CPU comes out of the guest where it was told to.
PcInv ==
    \/ pc \in {"init_vmcs", "vmlaunch_first"} /\ vmcs.host_rip = "unset"
    \/ pc \in {"load", "entry", "guest", "exit_handler", "vm_resume"}
           /\ vmcs.host_rip \in {"hexit", "res"}
    \/ pc \in {"hexit", "hexit_rdi", "hexit_jump"} /\ vmcs.host_rip = "hexit"
    \/ pc \in {"res", "res_rdi", "res_pop"} /\ vmcs.host_rip = "res"

\* What lies on the host stack depends on the place in the code alone.
StackInv ==
    /\ pc \in {"init_vmcs", "exit_handler"} => stack = <<>>
    /\ pc = "vmlaunch_first" => stack = <<AfterLaunch>> /\ regs["rdi"] = State
    /\ pc = "vm_resume" => stack = <<AfterResume>> /\ regs = called.regs
    /\ pc \in {"load", "entry", "guest", "hexit", "res"} => stack = Append(Base, Area)
    /\ pc \in {"load", "entry", "guest"} => vmcs.host_rsp = Len(stack)
    /\ pc \in {"hexit_rdi", "res_rdi"} =>
          /\ \E rdi \in Value : stack = Append(Append(Base, Area), rdi)
          /\ regs["rdi"] = Area
    /\ pc \in {"hexit_jump", "res_pop"} => stack = Base

\* exit_handler() has its registers back, and passes the area it was given.
HostInv ==
    /\ pc = "exit_handler" /\ vmcs.host_rip = "res" => regs = called.regs
    /\ pc \in {"exit_handler", "vm_resume"} => argument = AfterLaunch
    /\ vmcs.host_rip = "res" => argument = AfterLaunch
    /\ pc = "vm_resume" \/ vmcs.host_rip = "res" => called.regs["rdi"] = AfterLaunch

\* The area holds what the guest left, but while it is being written.
GuestInv ==
    /\ pc = "entry" => regs = areas[Area]
    /\ left.by = "res" =>
          /\ vmcs.host_rip = "res"
          /\ pc \notin {"res", "res_rdi"} => areas[AfterLaunch] = left.regs
          /\ pc \in {"guest", "res"} => regs = left.regs
          /\ pc = "res_rdi" =>
                /\ areas[AfterLaunch] = [left.regs EXCEPT !["rdi"] =
                                             areas[AfterLaunch]["rdi"]]
                /\ Top(0) = left.regs["rdi"]

SwitchInv == TypeInv /\ PcInv /\ StackInv /\ HostInv /\ GuestInv

-----------------------------------------------------------------------------
(* Lemmas about the registers, their order and the stack                   *)

LEMMA Names ==
    Register = {"rax", "rbx", "rcx", "rdx", "rsi", "rdi", "rbp", "r8", "r9",
                "r10", "r11", "r12", "r13", "r14", "r15"}
    <1>1. Len(PushOrder) = 15 /\ \A i \in 1 .. 15 : PushOrder[i] \in
               {"rax", "rbx", "rcx", "rdx", "rsi", "rdi", "rbp", "r8", "r9",
                "r10", "r11", "r12", "r13", "r14", "r15"}
        BY DEF PushOrder
    <1>2. /\ PushOrder[1] = "rax" /\ PushOrder[2] = "rbx" /\ PushOrder[3] = "rcx"
          /\ PushOrder[4] = "rdx" /\ PushOrder[5] = "rsi" /\ PushOrder[6] = "rdi"
          /\ PushOrder[7] = "rbp" /\ PushOrder[8] = "r8" /\ PushOrder[9] = "r9"
          /\ PushOrder[10] = "r10" /\ PushOrder[11] = "r11" /\ PushOrder[12] = "r12"
          /\ PushOrder[13] = "r13" /\ PushOrder[14] = "r14" /\ PushOrder[15] = "r15"
        BY DEF PushOrder
    <1> QED
        BY <1>1, <1>2 DEF Register

\* Each register is popped from where it was pushed.
LEMMA Order ==
    ASSUME NEW r \in Register
    PROVE  /\ Place(PopOrder, r) \in 1 .. 15
           /\ PushOrder[16 - Place(PopOrder, r)] = r
    <1>1. Len(PopOrder) = 15 /\ \E i \in 1 .. 15 : PopOrder[i] = r
        BY Names DEF PopOrder
    <1>2. Place(PopOrder, r) \in 1 .. 15 /\ PopOrder[Place(PopOrder, r)] = r
        BY <1>1 DEF Place
    <1>3. \A i \in 1 .. 15 : PushOrder[16 - i] = PopOrder[i]
        BY DEF PopOrder, PushOrder
    <1> QED
        BY <1>2, <1>3

LEMMA PushPop ==
    ASSUME NEW V, NEW s \in Seq(V), NEW a \in V
    PROVE  /\ Append(s, a) \in Seq(V) /\ Len(Append(s, a)) = Len(s) + 1
           /\ Append(s, a)[Len(s) + 1] = a
           /\ \A i \in 1 .. Len(s) : Append(s, a)[i] = s[i]
           /\ SubSeq(Append(s, a), 1, Len(s)) = s
           /\ SubSeq(s, 1, Len(s)) = s
    OBVIOUS

LEMMA SameSeq ==
    ASSUME NEW V, NEW s \in Seq(V), NEW t \in Seq(V), Len(s) = Len(t),
           \A i \in 1 .. Len(s) : s[i] = t[i]
    PROVE  s = t
    OBVIOUS

LEMMA Concat ==
    ASSUME NEW V, NEW s \in Seq(V), NEW t \in Seq(V), NEW u, u = s \o t
    PROVE  /\ u \in Seq(V) /\ Len(u) = Len(s) + Len(t)
           /\ \A i \in 1 .. Len(s) : u[i] = s[i]
           /\ \A i \in 1 .. Len(t) : u[Len(s) + i] = t[i]
    OBVIOUS

LEMMA PushAll ==
    ASSUME NEW V, NEW a \in V, NEW f \in Seq(V), NEW x \in V, NEW F \in Seq(V),
           Len(F) = Len(f) + 1, F[1] = a, \A i \in 1 .. Len(f) : F[i + 1] = f[i]
    PROVE  <<a>> \o f \o <<x>> = Append(F, x)
    <1>0. <<a>> \in Seq(V)
        OBVIOUS
    <1>1. PICK s \in Seq(V) : s = <<a>>
        BY <1>0, Zenon
    <1>2. Len(s) = 1 /\ s[1] = a
        BY <1>1
    <1>c. s \o f \in Seq(V)
        OBVIOUS
    <1>3. PICK t \in Seq(V) : t = s \o f
        BY <1>c, Zenon
    <1>4. /\ Len(t) = Len(f) + 1 /\ t[1] = a
          /\ \A i \in 1 .. Len(f) : t[1 + i] = f[i]
        <2>1. /\ Len(t) = Len(s) + Len(f)
              /\ \A i \in 1 .. Len(s) : t[i] = s[i]
              /\ \A i \in 1 .. Len(f) : t[Len(s) + i] = f[i]
            BY <1>3, Concat
        <2>2. Len(f) \in Nat
            OBVIOUS
        <2>3. t[1] = s[1] /\ Len(t) = Len(f) + 1
            BY <2>1, <2>2, <1>2
        <2> QED
            BY <2>1, <2>3, <1>2
    <1>5. ASSUME NEW i \in 1 .. Len(t) PROVE t[i] = F[i]
        <2>1. CASE i = 1
            BY <2>1, <1>4
        <2>2. CASE i \in 2 .. Len(t)
            <3>1. i - 1 \in 1 .. Len(f) /\ i = 1 + (i - 1) /\ i = (i - 1) + 1
                BY <2>2, <1>4
            <3> QED
                BY <3>1, <1>4
        <2> QED
            BY <2>1, <2>2
    <1>6. t = F
        BY <1>4, <1>5, SameSeq
    <1>7. t \o <<x>> = Append(t, x)
        OBVIOUS
    <1> QED
        BY <1>1, <1>3, <1>6, <1>7

LEMMA FrameFacts ==
    ASSUME NEW r \in Registers
    PROVE  /\ Frame(r) \in Seq(Value) /\ Len(Frame(r)) = 16
           /\ Frame(r)[1] = AfterResume
           /\ \A i \in 1 .. 15 : Frame(r)[i + 1] = r[PushOrder[i]]
    <1>1. AfterResume \in Value /\ \A n \in Register : r[n] \in Value
        BY MaxEntriesAssumption DEF AfterResume, Value, Registers
    <1>2. Frame(r) \in Seq(Value) /\ Len(Frame(r)) = 16 /\ Frame(r)[1] = AfterResume
        BY <1>1, Names DEF Frame
    <1>3. \A i \in 1 .. 15 : Frame(r)[i + 1] = r[PushOrder[i]]
        BY DEF Frame, PushOrder
    <1> QED
        BY <1>2, <1>3

LEMMA Pushed ==
    ASSUME NEW r \in Registers, NEW x \in Value
    PROVE  <<AfterResume>> \o [i \in 1 .. Len(PushOrder) |-> r[PushOrder[i]]] \o <<x>>
               = Append(Frame(r), x)
    <1>1. Len(PushOrder) = 15 /\ AfterResume \in Value
        BY MaxEntriesAssumption DEF PushOrder, AfterResume, Value
    <1>2. [i \in 1 .. 15 |-> r[PushOrder[i]]] \in Seq(Value)
        <2>1. \A i \in 1 .. 15 : PushOrder[i] \in Register
            BY <1>1 DEF Register
        <2> QED
            BY <2>1 DEF Registers
    <1>3. PICK f \in Seq(Value) : f = [i \in 1 .. 15 |-> r[PushOrder[i]]]
        BY <1>2
    <1>4. PICK F \in Seq(Value) : F = Frame(r)
        BY FrameFacts
    <1>5. Len(F) = 16 /\ F[1] = AfterResume /\ \A i \in 1 .. 15 : F[i + 1] = r[PushOrder[i]]
        BY <1>4, FrameFacts
    <1>6. Len(f) = 15 /\ \A i \in 1 .. 15 : f[i] = r[PushOrder[i]]
        BY <1>3
    <1>7. /\ Len(F) = Len(f) + 1 /\ F[1] = AfterResume
          /\ \A i \in 1 .. Len(f) : F[i + 1] = f[i]
        <2>1. Len(F) = Len(f) + 1
            BY <1>5, <1>6
        <2>2. \A i \in 1 .. 15 : F[i + 1] = f[i]
            BY <1>5, <1>6
        <2> QED
            BY <2>1, <2>2, <1>5, <1>6
    <1>8. <<AfterResume>> \o f \o <<x>> = Append(F, x)
        BY <1>1, <1>7, PushAll
    <1> QED
        BY <1>1, <1>3, <1>4, <1>8

LEMMA Constants ==
    /\ {State, AfterLaunch, AfterResume} \subseteq Value
    /\ State # AfterLaunch /\ Target(AfterResume) = "exit_handler"
    /\ {"rdi", "r8", "r9"} \subseteq Register
    <1>1. {State, AfterLaunch, AfterResume} \subseteq Value
        BY MaxEntriesAssumption DEF State, AfterLaunch, AfterResume, Value
    <1>2. State[2] = "gprstate" /\ AfterLaunch[2] = "init_vmcs" /\ AfterResume[2] = "exit_handler"
        BY DEF State, AfterLaunch, AfterResume
    <1>3. State # AfterLaunch /\ AfterResume # AfterLaunch
        BY <1>2
    <1>4. Target(AfterResume) = "exit_handler"
        BY <1>3 DEF Target
    <1> QED
        BY <1>1, <1>3, <1>4, Names

LEMMA BaseFacts ==
    ASSUME TypeInv
    PROVE  Base \in Seq(Value) /\ Area \in {State, AfterLaunch} /\ Area \in Value
    BY Constants, FrameFacts DEF TypeInv, Base, Area

\* The area is on top while the CPU enters, runs and leaves the guest.
LEMMA AreaOnTop ==
    ASSUME TypeInv, stack = Append(Base, Area)
    PROVE  /\ stack \in Seq(Value) /\ Len(stack) \in Nat
           /\ Top(0) = Area /\ SubSeq(stack, 1, Len(stack)) = stack
    <1>1. Base \in Seq(Value) /\ Area \in Value
        BY BaseFacts
    <1>2. /\ stack \in Seq(Value) /\ Len(stack) = Len(Base) + 1
          /\ stack[Len(Base) + 1] = Area
        BY <1>1, PushPop
    <1>3. SubSeq(stack, 1, Len(stack)) = stack
        BY <1>2, PushPop
    <1>4. Len(stack) \in Nat /\ Len(Base) \in Nat
        BY <1>1, <1>2
    <1> QED
        BY <1>2, <1>3, <1>4 DEF Top

\* Then the guest's rdi is, with the area below it.
LEMMA RdiOnTop ==
    ASSUME TypeInv, NEW rdi \in Value, stack = Append(Append(Base, Area), rdi)
    PROVE  Top(0) = rdi /\ Top(1) = Area /\ Popped(2) = Base
    <1>1. Base \in Seq(Value) /\ Area \in Value
        BY BaseFacts
    <1>2. PICK s \in Seq(Value) : s = Append(Base, Area)
        <2>1. Append(Base, Area) \in Seq(Value)
            BY <1>1, PushPop
        <2> QED
            BY <2>1, Zenon
    <1>3. Len(s) = Len(Base) + 1 /\ s[Len(Base) + 1] = Area /\ SubSeq(s, 1, Len(Base)) = Base
        BY <1>1, <1>2, PushPop
    <1>4. /\ stack \in Seq(Value) /\ Len(stack) = Len(s) + 1 /\ stack[Len(s) + 1] = rdi
          /\ \A i \in 1 .. Len(s) : stack[i] = s[i]
        BY <1>2, PushPop
    <1>5. Len(Base) \in Nat /\ Len(s) \in Nat
        BY <1>1
    <1>6. Top(0) = rdi /\ Top(1) = Area
        BY <1>3, <1>4, <1>5 DEF Top
    <1>7. Popped(2) = SubSeq(stack, 1, Len(Base))
        BY <1>3, <1>4, <1>5 DEF Popped
    <1>8. SubSeq(stack, 1, Len(Base)) = SubSeq(s, 1, Len(Base))
        BY <1>3, <1>4, <1>5
    <1> QED
        BY <1>3, <1>6, <1>7, <1>8

-----------------------------------------------------------------------------
(* The invariant, one action at a time                                     *)

LEMMA FreshType ==
    ASSUME NEW o \in {"host", "initial", "code", "guest"}, NEW n \in 0 .. MaxEntries
    PROVE  Fresh(o, n) \in Registers
    BY DEF Fresh, Registers, Value

LEMMA SwitchInit == Init => SwitchInv
    <1> SUFFICES ASSUME Init PROVE SwitchInv
        OBVIOUS
    <1>1. TypeInv
        <2>1. 0 \in 0 .. MaxEntries
            BY MaxEntriesAssumption
        <2>2. regs \in Registers /\ areas \in [{State, AfterLaunch} -> Registers]
            BY <2>1, FreshType DEF Init
        <2> QED
            BY <2>1, <2>2, Constants DEF Init, TypeInv
    <1> QED
        BY <1>1 DEF Init, SwitchInv, PcInv, StackInv, HostInv, GuestInv

LEMMA CallLaunchKeeps == SwitchInv /\ CallLaunch => SwitchInv'
    <1> SUFFICES ASSUME SwitchInv, CallLaunch PROVE SwitchInv'
        OBVIOUS
    <1> USE DEF SwitchInv, CallLaunch, history
    <1>1. TypeInv'
        BY Constants DEF TypeInv, Registers
    <1>2. stack' = <<AfterLaunch>> /\ regs'["rdi"] = State
        BY Constants DEF StackInv, TypeInv, Registers
    <1> QED
        BY <1>1, <1>2 DEF PcInv, StackInv, HostInv, GuestInv

LEMMA SetupLaunchKeeps == SwitchInv /\ SetupLaunch => SwitchInv'
    <1> SUFFICES ASSUME SwitchInv, SetupLaunch PROVE SwitchInv'
        OBVIOUS
    <1> USE DEF SwitchInv, SetupLaunch, history
    <1>1. stack' = Append(<<AfterLaunch>>, State)
        BY DEF StackInv
    <1>2. Len(stack') \in Nat
        BY <1>1
    <1>3. TypeInv'
        BY <1>2 DEF TypeInv
    <1>4. vmcs'.host_rip = "hexit"
        OBVIOUS
    <1>5. Base' = <<AfterLaunch>> /\ Area' = State
        BY <1>4 DEF Base, Area
    <1> QED
        BY <1>1, <1>3, <1>4, <1>5 DEF PcInv, StackInv, HostInv, GuestInv

LEMMA CallResumeKeeps == SwitchInv /\ CallResume => SwitchInv'
    <1> SUFFICES ASSUME SwitchInv, CallResume PROVE SwitchInv'
        OBVIOUS
    <1> USE DEF SwitchInv, CallResume
    <1>1. stack = <<>> /\ stack' = <<AfterResume>> /\ argument = AfterLaunch
        BY DEF StackInv, HostInv
    <1>2. regs' \in Registers /\ regs'["rdi"] = AfterLaunch
        <2>1. Fresh("host", entries) \in Registers
            BY FreshType DEF TypeInv
        <2> QED
            BY <2>1, <1>1, Constants DEF Registers
    <1>3. called' = [regs |-> regs', stack |-> <<>>]
        BY <1>1
    <1>4. TypeInv'
        BY <1>2, <1>3 DEF TypeInv
    <1> QED
        BY <1>1, <1>2, <1>3, <1>4 DEF PcInv, StackInv, HostInv, GuestInv

LEMMA SetupResumeKeeps == SwitchInv /\ SetupResume => SwitchInv'
    <1> SUFFICES ASSUME SwitchInv, SetupResume PROVE SwitchInv'
        OBVIOUS
    <1> USE DEF SwitchInv, SetupResume, history
    <1>1. stack = <<AfterResume>> /\ regs = called.regs /\ regs \in Registers
          /\ regs["rdi"] = AfterLaunch
        BY DEF StackInv, HostInv, TypeInv
    <1>2. stack' = Append(Frame(regs), AfterLaunch)
        BY <1>1, Pushed, Constants
    <1>3. Frame(regs) \in Seq(Value) /\ AfterLaunch \in Value
        BY <1>1, FrameFacts, Constants
    <1>4. Len(stack') \in Nat
        BY <1>2, <1>3, PushPop
    <1>5. vmcs'.host_rip = "res" /\ vmcs'.host_rsp = Len(stack')
        BY DEF TypeInv
    <1>6. TypeInv'
        BY <1>4 DEF TypeInv
    <1>7. Base' = Frame(regs) /\ Area' = AfterLaunch
        BY <1>1, <1>5 DEF Base, Area
    <1> QED
        BY <1>1, <1>2, <1>5, <1>6, <1>7 DEF PcInv, StackInv, HostInv, GuestInv

LEMMA LoadKeeps == SwitchInv /\ Load => SwitchInv'
    <1> SUFFICES ASSUME SwitchInv, Load PROVE SwitchInv'
        OBVIOUS
    <1> USE DEF SwitchInv, Load, history
    <1>1. stack = Append(Base, Area)
        BY DEF StackInv
    <1>2. regs' = areas[Area] /\ Area \in {State, AfterLaunch}
        BY <1>1, AreaOnTop, BaseFacts
    <1>3. TypeInv'
        BY <1>2 DEF TypeInv
    <1>4. Base' = Base /\ Area' = Area
        BY DEF Base, Area
    <1> QED
        BY <1>1, <1>2, <1>3, <1>4 DEF PcInv, StackInv, HostInv, GuestInv

LEMMA EnterKeeps == SwitchInv /\ (Enter \/ FailEntry) => SwitchInv'
    <1> SUFFICES ASSUME SwitchInv, Enter \/ FailEntry PROVE SwitchInv'
        OBVIOUS
    <1> USE DEF SwitchInv, history
    <1>1. /\ pc = "entry" /\ UNCHANGED <<regs, stack, areas, vmcs, argument, called, left>>
          /\ pc' = "guest" \/ pc' = vmcs.host_rip
          /\ entries' \in 0 .. MaxEntries
        BY MaxEntriesAssumption DEF Enter, FailEntry, TypeInv
    <1>2. TypeInv'
        BY <1>1 DEF TypeInv
    <1>3. Base' = Base /\ Area' = Area
        BY <1>1 DEF Base, Area
    <1>4. PcInv'
        BY <1>1 DEF PcInv
    <1>5. StackInv' /\ HostInv'
        BY <1>1, <1>3 DEF PcInv, StackInv, HostInv
    <1>6. GuestInv'
        BY <1>1, <1>3 DEF PcInv, GuestInv, Area
    <1> QED
        BY <1>2, <1>4, <1>5, <1>6

LEMMA GuestExitKeeps ==
    ASSUME SwitchInv, NEW S, GuestExit(S)
    PROVE  SwitchInv'
    <1> USE DEF SwitchInv, GuestExit
    <1>1. stack = Append(Base, Area) /\ vmcs.host_rsp = Len(stack)
        BY DEF StackInv
    <1>2. stack' = stack
        BY <1>1, AreaOnTop
    <1>3. regs' \in Registers
        BY DEF TypeInv, Registers, Value
    <1>4. /\ pc' = vmcs.host_rip /\ vmcs.host_rip \in {"hexit", "res"}
          /\ left' = [by |-> vmcs.host_rip, regs |-> regs']
          /\ UNCHANGED <<areas, vmcs, argument, entries, called>>
        BY DEF PcInv
    <1>5. TypeInv'
        BY <1>3, <1>4 DEF TypeInv
    <1>6. Base' = Base /\ Area' = Area
        BY <1>4 DEF Base, Area
    <1>7. PcInv' /\ StackInv' /\ HostInv'
        BY <1>1, <1>2, <1>4, <1>6 DEF PcInv, StackInv, HostInv
    <1>8. GuestInv'
        BY <1>4 DEF GuestInv
    <1> QED
        BY <1>5, <1>7, <1>8

LEMMA SaveKeeps == SwitchInv /\ Save => SwitchInv'
    <1> SUFFICES ASSUME SwitchInv, Save PROVE SwitchInv'
        OBVIOUS
    <1> USE DEF SwitchInv, Save, history
    <1>1. stack = Append(Base, Area)
        BY DEF StackInv
    <1>2. Top(0) = Area /\ Area \in {State, AfterLaunch} /\ Area \in Value
        BY <1>1, AreaOnTop, BaseFacts
    <1>3. regs["rdi"] \in Value /\ regs \in Registers /\ areas[Area] \in Registers
        BY <1>2, Constants DEF TypeInv, Registers
    <1>4. /\ stack' = Append(Append(Base, Area), regs["rdi"])
          /\ areas' = [areas EXCEPT ![Area] = [regs EXCEPT !["rdi"] = areas[Area]["rdi"]]]
          /\ regs' = [regs EXCEPT !["rdi"] = Area]
        BY <1>1, <1>2
    <1>5. regs' \in Registers /\ [regs EXCEPT !["rdi"] = areas[Area]["rdi"]] \in Registers
        BY <1>2, <1>3, <1>4, Constants DEF Registers
    <1>6. TypeInv'
        <2>1. areas' \in [{State, AfterLaunch} -> Registers]
            BY <1>2, <1>4, <1>5, ZenonT(60) DEF TypeInv
        <2> QED
            BY <2>1, <1>5 DEF TypeInv
    <1>7. Base' = Base /\ Area' = Area
        BY DEF Base, Area
    <1>8. regs'["rdi"] = Area
        BY <1>3, <1>4, Constants DEF Registers
    <1>9. PcInv' /\ HostInv'
        BY DEF PcInv, HostInv
    <1>10. StackInv'
        BY <1>3, <1>4, <1>7, <1>8 DEF StackInv
    <1>11. GuestInv'
        <2> SUFFICES ASSUME left.by = "res"
                     PROVE  /\ vmcs.host_rip = "res"
                            /\ areas'[AfterLaunch] = [left.regs EXCEPT !["rdi"] =
                                                          areas'[AfterLaunch]["rdi"]]
                            /\ Top(0)' = left.regs["rdi"]
            BY DEF GuestInv, PcInv
        <2>1. /\ pc = "res" /\ vmcs.host_rip = "res" /\ regs = left.regs /\ Area = AfterLaunch
              /\ areas'[AfterLaunch] = [regs EXCEPT !["rdi"] = areas[AfterLaunch]["rdi"]]
            BY <1>4 DEF GuestInv, PcInv, Area, TypeInv
        <2>2. areas'[AfterLaunch]["rdi"] = areas[AfterLaunch]["rdi"]
            BY <2>1, <1>3, Constants DEF Registers
        <2>3. Top(0)' = regs["rdi"]
            <3>1. stack \in Seq(Value) /\ Len(stack) \in Nat
                BY <1>1, AreaOnTop
            <3>2. /\ stack' = Append(stack, regs["rdi"]) /\ Len(stack') = Len(stack) + 1
                  /\ stack'[Len(stack) + 1] = regs["rdi"]
                BY <3>1, <1>3, PushPop
            <3> QED
                BY <3>1, <3>2 DEF Top
        <2> QED
            BY <2>1, <2>2, <2>3
    <1> QED
        BY <1>6, <1>9, <1>10, <1>11

LEMMA SaveRdiKeeps == SwitchInv /\ SaveRdi => SwitchInv'
    <1> SUFFICES ASSUME SwitchInv, SaveRdi PROVE SwitchInv'
        OBVIOUS
    <1> USE DEF SwitchInv, SaveRdi, history
    <1>1. PICK rdi \in Value : stack = Append(Append(Base, Area), rdi)
        BY DEF StackInv
    <1>2. Top(0) = rdi /\ Top(1) = Area /\ Popped(2) = Base
        BY <1>1, RdiOnTop
    <1>3. Area \in {State, AfterLaunch} /\ Area \in Value /\ regs \in Registers
        BY BaseFacts DEF TypeInv
    <1>4. /\ regs' = [regs EXCEPT !["r8"] = rdi, !["r9"] = Area]
          /\ areas' = [areas EXCEPT ![Area]["rdi"] = rdi]
          /\ stack' = Base
        BY <1>2
    <1>5. regs' \in Registers
        BY <1>3, <1>4, Constants DEF Registers
    <1>6. areas' \in [{State, AfterLaunch} -> Registers]
        <2>1. [areas[Area] EXCEPT !["rdi"] = rdi] \in Registers
            BY <1>3 DEF TypeInv, Registers
        <2> QED
            BY <2>1, <1>3, <1>4 DEF TypeInv
    <1>7. TypeInv'
        BY <1>5, <1>6 DEF TypeInv
    <1>8. Base' = Base
        BY DEF Base
    <1>9. PcInv' /\ StackInv' /\ HostInv'
        BY <1>4, <1>8 DEF PcInv, StackInv, HostInv
    <1>10. GuestInv'
        <2> SUFFICES ASSUME left.by = "res"
                     PROVE  vmcs.host_rip = "res" /\ areas'[AfterLaunch] = left.regs
            BY DEF GuestInv, PcInv
        <2>1. /\ pc = "res_rdi" /\ vmcs.host_rip = "res" /\ Area = AfterLaunch
              /\ rdi = left.regs["rdi"] /\ left.regs \in Registers
              /\ areas[AfterLaunch] = [left.regs EXCEPT !["rdi"] =
                                           areas[AfterLaunch]["rdi"]]
            BY <1>2 DEF GuestInv, PcInv, Area, TypeInv
        <2>2. areas'[AfterLaunch] = [areas[AfterLaunch] EXCEPT !["rdi"] = rdi]
            BY <2>1, <1>4 DEF TypeInv
        <2>3. areas'[AfterLaunch] \in Registers
            BY <1>6
        <2>4. \A r \in Register : areas'[AfterLaunch][r] = left.regs[r]
            BY <2>1, <2>2, Constants DEF Registers
        <2> QED
            BY <2>1, <2>3, <2>4 DEF Registers
    <1> QED
        BY <1>7, <1>9, <1>10

LEMMA JumpToHandlerKeeps == SwitchInv /\ JumpToHandler => SwitchInv'
    <1> SUFFICES ASSUME SwitchInv, JumpToHandler PROVE SwitchInv'
        OBVIOUS
    <1> USE DEF SwitchInv, JumpToHandler, history
    <1>1. stack = <<AfterLaunch>> /\ vmcs.host_rip = "hexit"
        BY DEF StackInv, PcInv, Base
    <1>2. Top(0) = AfterLaunch /\ Popped(1) = <<>>
        BY <1>1 DEF Top, Popped
    <1>3. regs' \in Registers
        BY <1>2, Constants DEF TypeInv, Registers
    <1>4. TypeInv'
        BY <1>2, <1>3 DEF TypeInv
    <1> QED
        BY <1>1, <1>2, <1>4 DEF PcInv, StackInv, HostInv, GuestInv

LEMMA PopAndReturnKeeps == SwitchInv /\ PopAndReturn => SwitchInv'
    <1> SUFFICES ASSUME SwitchInv, PopAndReturn PROVE SwitchInv'
        OBVIOUS
    <1> USE DEF SwitchInv, PopAndReturn, history
    <1>1. /\ stack = Frame(called.regs) /\ vmcs.host_rip = "res"
          /\ called.regs \in Registers
        BY DEF StackInv, PcInv, Base, TypeInv
    <1>2. /\ stack \in Seq(Value) /\ Len(stack) = 16 /\ stack[1] = AfterResume
          /\ \A i \in 1 .. 15 : stack[i + 1] = called.regs[PushOrder[i]]
        BY <1>1, FrameFacts
    <1>3. Len(PopOrder) = 15
        BY DEF PopOrder
    <1>4. stack' = <<>> /\ pc' = "exit_handler"
        <2>1. Top(Len(PopOrder)) = AfterResume
            BY <1>2, <1>3 DEF Top
        <2>2. Popped(Len(PopOrder) + 1) = <<>>
            BY <1>2, <1>3 DEF Popped
        <2> QED
            BY <2>1, <2>2, Constants
    <1>5. regs' = called.regs
        <2>1. ASSUME NEW r \in Register PROVE Top(Place(PopOrder, r) - 1) = called.regs[r]
            <3> DEFINE i == 16 - Place(PopOrder, r)
            <3>1. i \in 1 .. 15 /\ PushOrder[i] = r /\ 16 - (Place(PopOrder, r) - 1) = i + 1
                BY Order, SMTT(60)
            <3>2. Top(Place(PopOrder, r) - 1) = stack[i + 1]
                BY <3>1, <1>2 DEF Top
            <3> HIDE DEF i
            <3> QED
                BY <3>1, <3>2, <1>2
        <2>2. regs' = [r \in Register |-> Top(Place(PopOrder, r) - 1)]
            OBVIOUS
        <2>3. regs' = [r \in Register |-> called.regs[r]]
            BY <2>1, <2>2
        <2> QED
            BY <2>3, <1>1 DEF Registers
    <1>6. TypeInv'
        BY <1>1, <1>5 DEF TypeInv
    <1> QED
        BY <1>1, <1>4, <1>5, <1>6 DEF PcInv, StackInv, HostInv, GuestInv

LEMMA SwitchStep == SwitchInv /\ [Next]_vars => SwitchInv'
    <1> SUFFICES ASSUME SwitchInv, [Next]_vars PROVE SwitchInv'
        OBVIOUS
    <1>1. CASE UNCHANGED vars
        <2>1. UNCHANGED <<Base, Area, Top(0)>>
            BY <1>1 DEF vars, Base, Area, Top
        <2> QED
            BY <1>1, <2>1
            DEF vars, SwitchInv, TypeInv, PcInv, StackInv, HostInv, GuestInv
    <1>2. ASSUME NEW S, GuestExit(S) PROVE SwitchInv'
        BY <1>2, GuestExitKeeps
    <1>3. CASE CallLaunch \/ SetupLaunch \/ CallResume \/ SetupResume
        BY <1>3, CallLaunchKeeps, SetupLaunchKeeps, CallResumeKeeps, SetupResumeKeeps
    <1>4. CASE Load \/ Enter \/ FailEntry
        BY <1>4, LoadKeeps, EnterKeeps
    <1>5. CASE Save \/ SaveRdi \/ JumpToHandler \/ PopAndReturn
        BY <1>5, SaveKeeps, SaveRdiKeeps, JumpToHandlerKeeps, PopAndReturnKeeps
    <1> QED
        BY <1>1, <1>2, <1>3, <1>4, <1>5 DEF Next

LEMMA SwitchInvariant == Spec => []SwitchInv
    BY SwitchInit, SwitchStep, PTL DEF Spec

-----------------------------------------------------------------------------
(* Theorems                                                                *)

\* Type correctness: in particular the host stack never grows beyond one
\* frame, however often the guest is entered, and only the two areas that
\* there are are written.
THEOREM TypeCorrect == Spec => []TypeOK
    <1>1. SwitchInv => TypeOK
        <2> SUFFICES ASSUME SwitchInv PROVE TypeOK
            OBVIOUS
        <2> USE DEF SwitchInv
        <2>1. Len(stack) <= 18
            <3>1. Base \in Seq(Value) /\ Len(Base) <= 16
                <4>1. called.regs \in Registers
                    BY DEF TypeInv
                <4>2. Len(Frame(called.regs)) = 16 /\ Len(<<AfterLaunch>>) = 1
                    BY <4>1, FrameFacts
                <4>3. Base = <<AfterLaunch>> \/ Base = Frame(called.regs)
                    BY DEF Base
                <4>4. Len(Base) = 1 \/ Len(Base) = 16
                    BY <4>2, <4>3, Zenon
                <4>5. Base \in Seq(Value)
                    BY BaseFacts
                <4>6. \A n : n = 1 \/ n = 16 => n <= 16
                    OBVIOUS
                <4>7. Len(Base) <= 16
                    BY <4>4, <4>6, Zenon
                <4> QED
                    BY <4>5, <4>7, Zenon
            <3>2. Area \in Value
                BY BaseFacts
            <3>3. CASE pc \in {"load", "entry", "guest", "hexit", "res"}
                BY <3>1, <3>2, <3>3 DEF StackInv
            <3>4. CASE pc \in {"hexit_rdi", "res_rdi"}
                BY <3>1, <3>2, <3>4 DEF StackInv
            <3>5. CASE pc \in {"hexit_jump", "res_pop"}
                BY <3>1, <3>5 DEF StackInv
            <3>6. CASE pc \in {"init_vmcs", "exit_handler", "vmlaunch_first", "vm_resume"}
                <4>1. stack \in {<<>>, <<AfterLaunch>>, <<AfterResume>>}
                    BY <3>6 DEF StackInv
                <4>2. \A x : Len(<<x>>) = 1
                    OBVIOUS
                <4> QED
                    BY <4>1, <4>2
            <3> QED
                BY <3>3, <3>4, <3>5, <3>6 DEF PcInv
        <2> QED
            BY <2>1 DEF TypeOK, TypeInv, PcInv, Registers
    <1> QED
        BY <1>1, SwitchInvariant, PTL

\* vm_resume() gives exit_handler() its registers and its stack back.
THEOREM Host == Spec => []HostPreserved
    <1>1. SwitchInv => HostPreserved
        BY DEF SwitchInv, HostInv, StackInv, TypeInv, HostPreserved
    <1> QED
        BY <1>1, SwitchInvariant, PTL

\* The guest is entered with the registers that it left.
THEOREM Guest == Spec => []GuestPreserved
    <1>1. SwitchInv => GuestPreserved
        BY DEF SwitchInv, GuestInv, GuestPreserved
    <1> QED
        BY <1>1, SwitchInvariant, PTL

\* The way out of the guest finds the area that the way in has used.
THEOREM AreaFound == Spec => []AreaOnStack
    <1>1. SwitchInv => AreaOnStack
        <2> SUFFICES ASSUME SwitchInv, pc \in {"entry", "guest"}
                     PROVE  /\ vmcs.host_rsp = Len(stack) /\ Top(0) \in DOMAIN areas
                            /\ regs = areas[Top(0)] \/ pc = "guest"
            BY DEF AreaOnStack
        <2>1. Top(0) = Area /\ Area \in {State, AfterLaunch}
            BY AreaOnTop, BaseFacts DEF SwitchInv, StackInv
        <2> QED
            BY <2>1 DEF SwitchInv, StackInv, TypeInv, GuestInv
    <1> QED
        BY <1>1, SwitchInvariant, PTL
=============================================================================
