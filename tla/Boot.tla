-------------------------------- MODULE Boot --------------------------------
(***************************************************************************)
(* From the boot loader to virtdbg's allocator: Loader runs on the boot    *)
(* CPU, and what it says in virtdbg_args is what init_pmm() is told        *)
(* (entry.c); from then on every CPU allocates as Pmm has it.  The memory  *)
(* that the loader took and the memory that palloc() hands out are the     *)
(* same, and only args keeps the one out of the other.                     *)
(***************************************************************************)
EXTENDS Pmm

CONSTANTS Fan, Levels, IdentityPages, PhysOffset, KernelOffset, StackSize,
          StateSize, Reserve, Machines

VARIABLES machine, at, base, reserved, tables, image, pagemap, loaded, todo,
          walk, args

L == INSTANCE Loader

ASSUME LoaderAssumption ==
    /\ {Fan, Levels, StackSize, StateSize, Reserve} \subseteq Nat \ {0}
    /\ {IdentityPages, PhysOffset, KernelOffset} \subseteq Nat
    /\ Machines \subseteq L!Machine

\* The arithmetic of the tables, which the prover does not know.
ASSUME PowerAssumption ==
    /\ Fan ^ 0 = 1
    /\ \A l \in 0 .. Levels : Fan ^ l \in Nat \ {0} /\ Fan ^ (l + 1) = Fan * Fan ^ l

loader_vars == <<machine, at, base, reserved, tables, image, pagemap, loaded,
                 todo, walk, args>>

boot_vars == <<vars, loader_vars>>

BootInit == L!Init /\ Init

Load == L!Next /\ UNCHANGED vars

\* _start() of entry.c up to init_pmm().
Start ==
    /\ at = "jump"
    /\ args.virtdbg_end > args.stolen_memory_base
    /\ args.stolen_memory_end > args.virtdbg_end
    /\ InitPmm(args.virtdbg_end)
    /\ at' = "virtdbg"
    /\ UNCHANGED <<machine, base, reserved, tables, image, pagemap, loaded,
                   todo, walk, args>>

Run == at = "virtdbg" /\ Operate /\ UNCHANGED loader_vars

BootNext == Load \/ Start \/ Run

BootSpec == BootInit /\ [][BootNext]_boot_vars

-----------------------------------------------------------------------------
(* Properties                                                              *)

\* Pages that lie wholly or partly in a block.
Covered(b) == L!PagesOf(b.first, b.size)

\* The block that the next step allocates, if any.
Upcoming ==
    CASE at = "map" /\ todo # <<>> /\ walk.level > 1
         /\ L!Entry(walk.table, L!Slot(Head(todo).page, walk.level)) = {} ->
            {L!Block(PageSize, PageSize)}
      [] at = "map" /\ todo = <<>> /\ loaded -> {L!Block(StackSize, 16)}
      [] at = "state" -> {L!Block(StateSize, 1)}
      [] OTHER -> {}

\* The pages that the next step of the loader reads or writes under the tables
\* it has built.
Accessed ==
    (UNION {Covered(b) : b \in Upcoming}) \cup
    CASE at = "map" /\ todo # <<>> -> {walk.table}
      [] at = "copy" ->
            LET Copy == 0 .. L!PageCount(machine.size) - 1
            IN  {KernelOffset + n : n \in Copy} \cup {machine.begin \div PageSize + n : n \in Copy}
      [] at = "args" -> {1} \cup machine.fb
      [] OTHER -> {}

\* The loader goes on working under its own page tables after it has loaded
\* them: each access it makes must find a page, and the blocks it allocates,
\* clears and links, its tables among them, and the binary it copies must be at
\* their own addresses.  When it jumps, all of low and of allocatable memory is
\* where map_page was told to put it, and KERNEL_OFFSET leads to the binary,
\* page by page, at the base of the stolen memory.
AddressSpace ==
    /\ L!Accessible(Accessed)
    /\ loaded =>
          \A p \in (UNION {Covered(b) : b \in reserved})
                   \cup L!PagesOf(machine.begin, machine.size) :
              L!Translate(p) = {p}
    /\ at = "jump" =>
          /\ \A p \in 0 .. IdentityPages - 1 : L!Translate(p) = {p}
          /\ \A i \in DOMAIN machine.memmap :
                LET r == machine.memmap[i]
                IN  r.type \in L!Allocatable =>
                        \A p \in L!PagesOf(r.base, r.length) :
                            L!Translate(p) = {p} /\ L!Translate(p + PhysOffset) = {p}
          /\ \A n \in 0 .. L!PageCount(machine.size) - 1 :
                LET f == args.stolen_memory_base \div PageSize + n
                IN  /\ L!Translate(KernelOffset + n) = {f}
                    /\ f \in DOMAIN image /\ image[f] = n

\* What args says when the loader jumps (virtdbg.h:61-75): every block of the
\* loader lies between stolen_memory_base, where the binary is, and
\* virtdbg_end, none on top of another; the CHECKs of _start() hold; and, on a
\* machine with that much room, all of it is one region of free memory.
ArgsDescribe ==
    at = "jump" =>
        /\ \A b \in reserved :
              /\ args.stolen_memory_base <= b.first
              /\ b.first + b.size <= args.virtdbg_end
              /\ \A d \in reserved \ {b} : Bytes(b) \cap Bytes(d) = {}
        /\ args.stolen_memory_base < args.virtdbg_end
        /\ args.virtdbg_end < args.stolen_memory_end
        /\ \E i \in DOMAIN machine.memmap :
              LET r == machine.memmap[i]
              IN  /\ r.type \in L!Allocatable
                  /\ r.base <= args.stolen_memory_base
                  /\ args.stolen_memory_end <= r.base + r.length

\* Nothing that virtdbg's CPUs allocate, clear and fill reaches into what the
\* loader left for them: the running image, the page tables in CR3, the guest's
\* initial state.
LoaderIntact ==
    \A b \in reserved : \A a \in Bytes(b) \cap Memory : content[a] = Junk
=============================================================================
