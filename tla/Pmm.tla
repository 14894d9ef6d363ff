-------------------------------- MODULE Pmm ---------------------------------
(***************************************************************************)
(* The physical memory allocator of mm/pmm.c: a pointer that only moves    *)
(* up, moved under m_pmm_lock by every CPU that allocates.  The calls are  *)
(* modelled store by store; the block is cleared after the lock was given  *)
(* back, and the caller then keeps its data in it.                         *)
(*                                                                         *)
(* The lock is taken as FifoLock describes it: one holder at a time.       *)
(***************************************************************************)
EXTENDS Integers, FiniteSets, Sequences

CONSTANTS
    CPU,
    VirtdbgEnds,        \* values of args->virtdbg_end, the base given to init_pmm()
    PageSize,           \* 4096 in the build
    Requests,           \* [size, align] pairs that callers ask for
    Memory,             \* the bytes whose content is observed
    MaxBlocks           \* bound: blocks allocated in a behaviour

NoCPU == "none"

ASSUME CPUAssumption == NoCPU \notin CPU
ASSUME AddressAssumption ==
    /\ VirtdbgEnds \subseteq Nat \ {0}
    /\ PageSize \in Nat \ {0}
    /\ Memory \subseteq Nat
ASSUME RequestAssumption ==
    Requests \subseteq [size : Nat \ {0}, align : Nat \ {0}]
ASSUME MaxBlocksAssumption == MaxBlocks \in Nat

VARIABLES
    virtdbg_end,    \* what init_pmm() was given; 0 before
    m_base,         \* first free byte
    holder,         \* the CPU that holds m_pmm_lock, or NoCPU
    pc,             \* where each CPU is in palloc...()
    req,            \* the size and align of each CPU's call
    zeroed,         \* whether the call is one of the pallocz variants
    res,            \* palloc_aligned()'s local variable
    content,        \* what each byte of memory holds: Zero, Junk or its writer
    granted,        \* blocks [first, size] in the order in which m_base moved
    blocks          \* blocks returned to callers: [first, size, owner, state]

vars == <<virtdbg_end, m_base, holder, pc, req, zeroed, res, content, granted,
          blocks>>

Junk == "junk"       \* what a byte holds before anyone wrote it
Zero == "zero"

AlignUp(num, align) == ((num + align - 1) \div align) * align

Bytes(b) == b.first .. b.first + b.size - 1

Goto(c, label) == pc' = [pc EXCEPT ![c] = label]

\* content after value is stored in every byte of a block
Stored(b, value) == [a \in Memory |-> IF a \in Bytes(b) THEN value ELSE content[a]]

\* The block that the call of c is to return.
Block(c) == [first |-> res[c], size |-> req[c].size]

\* The block as its caller sees it.
Owned(c, state) ==
    [first |-> res[c], size |-> req[c].size, owner |-> c, state |-> state]

Init ==
    /\ virtdbg_end = 0
    /\ m_base = 0
    /\ holder = NoCPU
    /\ pc = [c \in CPU |-> "idle"]
    /\ req = [c \in CPU |-> [size |-> 1, align |-> 1]]
    /\ zeroed = [c \in CPU |-> FALSE]
    /\ res = [c \in CPU |-> 0]
    /\ content = [a \in Memory |-> Junk]
    /\ granted = <<>>
    /\ blocks = {}

\* The size of the stolen memory is a parameter that nothing reads.
InitPmm(end) ==
    /\ virtdbg_end = 0
    /\ virtdbg_end' = end
    /\ m_base' = AlignUp(end, PageSize)
    /\ UNCHANGED <<holder, pc, req, zeroed, res, content, granted, blocks>>

\* Calls in progress that have not moved m_base yet.
Pending == {c \in CPU : pc[c] \in {"lock", "align", "read", "bump"}}

\* Mutant of Call: the mask is passed instead of the alignment.
Mask_Call(c, r, z) ==
    /\ pc[c] = "idle" /\ virtdbg_end # 0
    /\ Len(granted) + Cardinality(Pending) < MaxBlocks
    /\ req' = [req EXCEPT ![c] = [r EXCEPT !.align = @ - 1]]
    /\ zeroed' = [zeroed EXCEPT ![c] = z]
    /\ Goto(c, "lock")
    /\ UNCHANGED <<virtdbg_end, m_base, holder, res, content, granted, blocks>>

Call(c, r, z) ==
    /\ pc[c] = "idle" /\ virtdbg_end # 0
    /\ Len(granted) + Cardinality(Pending) < MaxBlocks
    /\ req' = [req EXCEPT ![c] = r]
    /\ zeroed' = [zeroed EXCEPT ![c] = z]
    /\ Goto(c, "lock")
    /\ UNCHANGED <<virtdbg_end, m_base, holder, res, content, granted, blocks>>

\* Mutant of Lock: the allocator takes no lock.
Free_Lock(c) ==
    /\ pc[c] = "lock"
    /\ holder' = c
    /\ Goto(c, "align")
    /\ UNCHANGED <<virtdbg_end, m_base, req, zeroed, res, content, granted, blocks>>

Lock(c) ==
    /\ pc[c] = "lock"
    /\ holder = NoCPU
    /\ holder' = c
    /\ Goto(c, "align")
    /\ UNCHANGED <<virtdbg_end, m_base, req, zeroed, res, content, granted, blocks>>

Align(c) ==
    /\ pc[c] = "align"
    /\ m_base' = AlignUp(m_base, req[c].align)
    /\ Goto(c, "read")
    /\ UNCHANGED <<virtdbg_end, holder, req, zeroed, res, content, granted, blocks>>

Read(c) ==
    /\ pc[c] = "read"
    /\ res' = [res EXCEPT ![c] = m_base]
    /\ Goto(c, "bump")
    /\ UNCHANGED <<virtdbg_end, m_base, holder, req, zeroed, content, granted, blocks>>

\* Mutant of Bump: the base stops at the last byte of the block.
Short_Bump(c) ==
    /\ pc[c] = "bump"
    /\ m_base' = res[c] + req[c].size - 1
    /\ granted' = Append(granted, Block(c))
    /\ Goto(c, "unlock")
    /\ UNCHANGED <<virtdbg_end, holder, req, zeroed, res, content, blocks>>

Bump(c) ==
    /\ pc[c] = "bump"
    /\ m_base' = m_base + req[c].size
    /\ granted' = Append(granted, Block(c))
    /\ Goto(c, "unlock")
    /\ UNCHANGED <<virtdbg_end, holder, req, zeroed, res, content, blocks>>

\* palloc() and palloc_aligned() return here, with the memory as it was.
Unlock(c) ==
    /\ pc[c] = "unlock"
    /\ holder' = NoCPU
    /\ IF zeroed[c]
       THEN Goto(c, "clear") /\ UNCHANGED blocks
       ELSE Goto(c, "idle") /\ blocks' = blocks \cup {Owned(c, "raw")}
    /\ UNCHANGED <<virtdbg_end, m_base, req, zeroed, res, content, granted>>

\* pallocz() and pallocz_aligned(): memset() after the lock was released.
Clear(c) ==
    /\ pc[c] = "clear"
    /\ content' = Stored(Block(c), Zero)
    /\ blocks' = blocks \cup {Owned(c, "clear")}
    /\ Goto(c, "idle")
    /\ UNCHANGED <<virtdbg_end, m_base, holder, req, zeroed, res, granted>>

\* The caller puts its own data in a block it was given.
Fill(b) ==
    /\ b \in blocks
    /\ b.state # "filled"
    /\ content' = Stored(b, b.owner)
    /\ blocks' = (blocks \ {b}) \cup {[b EXCEPT !.state = "filled"]}
    /\ UNCHANGED <<virtdbg_end, m_base, holder, pc, req, zeroed, res, granted>>

Operate ==
    \/ \E c \in CPU :
          \/ \E r \in Requests, z \in BOOLEAN : Call(c, r, z)
          \/ Lock(c) \/ Align(c) \/ Read(c) \/ Bump(c) \/ Unlock(c) \/ Clear(c)
    \/ \E b \in blocks : Fill(b)

Next == (\E end \in VirtdbgEnds : InitPmm(end)) \/ Operate

Spec == Init /\ [][Next]_vars

-----------------------------------------------------------------------------
(* Properties                                                              *)

Labels == {"idle", "lock", "align", "read", "bump", "unlock", "clear"}

Demand == [size : Nat \ {0}, align : Nat \ {0}]

\* Types of the variables.
TypeOK ==
    /\ virtdbg_end \in Nat
    /\ m_base \in Nat
    /\ holder \in CPU \cup {NoCPU}
    /\ pc \in [CPU -> Labels]
    /\ req \in [CPU -> Demand]
    /\ zeroed \in [CPU -> BOOLEAN]
    /\ res \in [CPU -> Nat]
    /\ content \in [Memory -> CPU \cup {Zero, Junk}]
    /\ granted \in Seq([first : Nat, size : Nat \ {0}])
    /\ \A b \in blocks :
          b \in [first : Nat, size : Nat \ {0}, owner : CPU,
                 state : {"raw", "clear", "filled"}]

\* Every call of palloc...() on any CPU gets memory of its own: the steps of
\* concurrent calls amount to grants of blocks that share no byte.
Allocator == INSTANCE BlockAllocator
ImplementsAllocator == Allocator!Spec

\* A block of pallocz() is all zero when its caller gets it, and what a
\* caller keeps in a block stays there: no memset() that runs outside the
\* lock, on another CPU, reaches into it.
ContentIntact ==
    \A b \in blocks :
        \A a \in Bytes(b) \cap Memory :
            /\ b.state = "clear" => content[a] = Zero
            /\ b.state = "filled" => content[a] = b.owner

\* A block starts at a multiple of the alignment asked for, although other
\* CPUs move the base between this call's steps and other calls.
BlockAligned ==
    \A c \in CPU :
        pc[c] \in {"unlock", "clear"} => res[c] % req[c].align = 0
=============================================================================
