------------------------------- MODULE Loader -------------------------------
(***************************************************************************)
(* The loader (loader/kernel.c, pmm.c, vmm.c): on the boot CPU alone, it   *)
(* takes memory from the longest free region of the memory map, builds     *)
(* page tables in it and switches to them while it goes on allocating,     *)
(* copies virtdbg's image through them, and jumps to it.                   *)
(*                                                                         *)
(* Memory is seen in pages.  A page may hold a page table or a page of     *)
(* virtdbg's binary; what else it holds is left out, and so are the flags  *)
(* of an entry other than its presence.                                    *)
(***************************************************************************)
EXTENDS Integers, Sequences, SequencesExt, Functions

CONSTANTS
    PageSize,       \* 4096 in the build
    Fan,            \* entries of a page table: 512
    Levels,         \* levels of page tables: 4
    IdentityPages,  \* pages mapped to themselves whatever the map says: 4 GiB
    PhysOffset,     \* MEM_PHYS_OFFSET, in pages
    KernelOffset,   \* KERNEL_OFFSET, in pages
    StackSize,      \* 8 KiB
    StateSize,      \* sizeof(initial_guest_state_t)
    Reserve,        \* bytes left to virtdbg's allocator: 2 MiB
    Machines        \* what the boot loader may hand over, see Machine

\* A region's type is its own name, or "other" for what is never allocated from.
Allocatable == {"usable", "bootloader_reclaimable", "kernel_and_modules"}

Region == [base : Nat, length : Nat \ {0}, type : Allocatable \cup {"other"}]

\* The memory map, virtdbg's binary, and the frame buffer's page, if any.
Machine == [memmap : Seq(Region), begin : Nat, size : Nat \ {0}, fb : SUBSET Nat]

VARIABLES
    machine,        \* the machine that boots
    at,             \* what _start does next
    base,           \* first free byte of pmm.c
    reserved,       \* the blocks allocated so far: [first, size]
    tables,         \* the entries of each zeroed page or page table
    image,          \* the pages that hold a page of the binary, and which
    pagemap,        \* the page of the root table
    loaded,         \* whether CR3 points to pagemap
    todo,           \* the calls of map_page still to come: [frame, page]
    walk,           \* the call being executed: [level, table]
    args            \* struct virtdbg_args

vars == <<machine, at, base, reserved, tables, image, pagemap, loaded, todo,
          walk, args>>

\* For the powers of two that it is used with.
Align(x, a) == ((x + a - 1) \div a) * a

PagesOf(first, size) == first \div PageSize .. (first + size - 1) \div PageSize

PageCount(size) == (size + PageSize - 1) \div PageSize

-----------------------------------------------------------------------------
(* Page tables                                                             *)

Slot(page, level) == (page \div Fan ^ (level - 1)) % Fan

\* What an entry points to: nothing, or one page.
Entry(table, slot) ==
    IF table \in DOMAIN tables /\ slot \in DOMAIN tables[table]
    THEN {tables[table][slot]} ELSE {}

\* The hardware's walk from the root: a page, or none.
Translate(page) ==
    LET reached[level \in 0 .. Levels] ==
            IF level = Levels THEN {pagemap}
            ELSE UNION {Entry(t, Slot(page, level + 1)) : t \in reached[level + 1]}
    IN  reached[0]

\* Where an access of the loader goes; the boot loader's tables are the identity.
Reach(page) == IF loaded THEN Translate(page) ELSE {page}

Reached(pages) == UNION {Reach(p) : p \in pages}
Accessible(pages) == \A p \in pages : Reach(p) # {}

-----------------------------------------------------------------------------
(* pmm.c                                                                   *)

\* Mutant of Longest: biggest is never updated.
Last_Longest(memmap) ==
    LET Fit == {i \in DOMAIN memmap : memmap[i].type \in Allocatable}
    IN  {i \in Fit : \A j \in Fit : j <= i}

\* The first of the longest regions that may be allocated from.
Longest(memmap) ==
    LET Fit == {i \in DOMAIN memmap : memmap[i].type \in Allocatable}
    IN  {i \in Fit : \A j \in Fit :
            \/ memmap[j].length < memmap[i].length
            \/ memmap[j].length = memmap[i].length /\ j >= i}

PmmInit ==
    /\ at = "pmm_init"
    /\ base' = IF Longest(machine.memmap) = {} THEN base
               ELSE machine.memmap[CHOOSE i \in Longest(machine.memmap) : TRUE].base
    /\ at' = "image"
    /\ UNCHANGED <<machine, reserved, tables, image, pagemap, loaded, todo, walk, args>>

Block(size, align) == [first |-> Align(base, align), size |-> size]

\* tables after memset() has cleared the pages.
Cleared(pages) ==
    [p \in pages \cup DOMAIN tables |-> IF p \in pages THEN <<>> ELSE tables[p]]

\* pmm_allocz_aligned(); its caller says what becomes of tables.
Allocz(b) ==
    LET pages == PagesOf(b.first, b.size)
    IN  /\ Accessible(pages)
        /\ base' = b.first + b.size
        /\ reserved' = reserved \cup {b}
        /\ image' = Restrict(image, DOMAIN image \ Reached(pages))

-----------------------------------------------------------------------------
(* vmm.c                                                                   *)

\* Mutant of VmmMappings: the memory map is left to the identity of 4 GiB.
Low_VmmMappings(memmap) ==
    [n \in 1 .. IdentityPages |-> [frame |-> n - 1, page |-> n - 1]]

\* The calls of map_page in vmm_init(): the low pages, then each region, page
\* by page, at its own address and at MEM_PHYS_OFFSET.
VmmMappings(memmap) ==
    LET Low == [n \in 1 .. IdentityPages |-> [frame |-> n - 1, page |-> n - 1]]
        Of(r) ==
            [n \in 1 .. 2 * PageCount(r.length) |->
                LET f == (r.base + ((n - 1) \div 2) * PageSize) \div PageSize
                IN  [frame |-> f, page |-> IF n % 2 = 1 THEN f ELSE f + PhysOffset]]
    IN  Low \o FlattenSeq([i \in DOMAIN memmap |-> Of(memmap[i])])

\* The calls of map_page in _start(): virtdbg's image.
ImageMappings ==
    LET first == args.stolen_memory_base \div PageSize
    IN  [n \in 1 .. PageCount(machine.size) |->
            [frame |-> first + n - 1, page |-> KernelOffset + n - 1]]

Root == [level |-> Levels, table |-> pagemap]

\* A store to an entry.
Stored(table, slot, page) ==
    [s \in DOMAIN table \cup {slot} |-> IF s = slot THEN page ELSE table[s]]

\* One of the first three steps of map_page(): to the next table, which is
\* allocated, cleared and linked if there is none.
Descend ==
    LET slot == Slot(Head(todo).page, walk.level)
        t == CHOOSE f \in Reach(walk.table) : TRUE
    IN  /\ at = "map" /\ todo # <<>> /\ walk.level > 1
        /\ Accessible({walk.table})
        /\ IF Entry(t, slot) # {}
           THEN /\ walk' = [level |-> walk.level - 1,
                            table |-> CHOOSE f \in Entry(t, slot) : TRUE]
                /\ UNCHANGED <<base, reserved, tables, image>>
           ELSE LET b == Block(PageSize, PageSize)
                    new == b.first \div PageSize
                    cleared == Cleared(Reached({new}))
                IN  /\ Allocz(b)
                    /\ tables' = [cleared EXCEPT ![t] = Stored(@, slot, new)]
                    /\ walk' = [level |-> walk.level - 1, table |-> new]
        /\ UNCHANGED <<machine, at, pagemap, loaded, todo, args>>

\* The last step of map_page(), over whatever the entry held.
MapLeaf ==
    LET t == CHOOSE f \in Reach(walk.table) : TRUE
    IN  /\ at = "map" /\ todo # <<>> /\ walk.level = 1
        /\ Accessible({walk.table})
        /\ tables' = [tables EXCEPT
              ![t] = Stored(@, Slot(Head(todo).page, 1), Head(todo).frame)]
        /\ todo' = Tail(todo)
        /\ walk' = Root
        /\ UNCHANGED <<machine, at, base, reserved, image, pagemap, loaded, args>>

\* The end of vmm_init(): CR3, and on to the image.
LoadCr3 ==
    /\ at = "map" /\ todo = <<>> /\ ~loaded
    /\ loaded' = TRUE
    /\ todo' = ImageMappings
    /\ UNCHANGED <<machine, at, base, reserved, tables, image, pagemap, walk, args>>

-----------------------------------------------------------------------------
(* _start() of kernel.c                                                    *)

NoArgs == [stolen_memory_base |-> 0, virtdbg_end |-> 0, stolen_memory_end |-> 0,
           initial_guest_state |-> 0]

Init ==
    /\ machine \in Machines
    /\ at = "pmm_init"
    /\ base = 0
    /\ reserved = {}
    /\ tables = <<>>
    /\ image = [p \in PagesOf(machine.begin, machine.size) |->
                   p - machine.begin \div PageSize]
    /\ pagemap = 0
    /\ loaded = FALSE
    /\ todo = <<>>
    /\ walk = [level |-> Levels, table |-> 0]
    /\ args = NoArgs

\* virtdbg_phys, which _start() stores in args at the end.
AllocImage ==
    LET b == Block(machine.size, PageSize)
    IN  /\ at = "image"
        /\ Allocz(b)
        /\ tables' = Cleared(PagesOf(b.first, b.size))
        /\ args' = [args EXCEPT !.stolen_memory_base = b.first]
        /\ at' = "pagemap"
        /\ UNCHANGED <<machine, pagemap, loaded, todo, walk>>

AllocPagemap ==
    LET b == Block(PageSize, PageSize)
    IN  /\ at = "pagemap"
        /\ Allocz(b)
        /\ tables' = Cleared(PagesOf(b.first, b.size))
        /\ pagemap' = b.first \div PageSize
        /\ walk' = [level |-> Levels, table |-> pagemap']
        /\ todo' = VmmMappings(machine.memmap)
        /\ at' = "map"
        /\ UNCHANGED <<machine, loaded, args>>

\* The stack, which the jump does not use: rsp is set to where the loader
\* keeps its address.
AllocStack ==
    LET b == Block(StackSize, 16)
    IN  /\ at = "map" /\ todo = <<>> /\ loaded
        /\ Allocz(b)
        /\ tables' = Cleared(Reached(PagesOf(b.first, b.size)))
        /\ at' = "state"
        /\ UNCHANGED <<machine, pagemap, loaded, todo, walk, args>>

\* Mutant of AllocState: the end is taken where the comment says
\* "this is where virtdbg_end should be set".
Early_AllocState ==
    LET b == Block(StateSize, 1)
    IN  /\ at = "state"
        /\ Allocz(b)
        /\ tables' = Cleared(Reached(PagesOf(b.first, b.size)))
        /\ args' = [args EXCEPT !.initial_guest_state = b.first, !.virtdbg_end = base]
        /\ at' = "copy"
        /\ UNCHANGED <<machine, pagemap, loaded, todo, walk>>

\* The initial guest state, and allocation_end, which becomes virtdbg_end.
AllocState ==
    LET b == Block(StateSize, 1)
    IN  /\ at = "state"
        /\ Allocz(b)
        /\ tables' = Cleared(Reached(PagesOf(b.first, b.size)))
        /\ args' = [args EXCEPT !.initial_guest_state = b.first, !.virtdbg_end = base']
        /\ at' = "copy"
        /\ UNCHANGED <<machine, pagemap, loaded, todo, walk>>

\* memcpy() of the binary from its module to KERNEL_OFFSET.
CopyImage ==
    LET from == machine.begin \div PageSize
        Copy == 0 .. PageCount(machine.size) - 1
        to == [n \in Copy |-> CHOOSE f \in Reach(KernelOffset + n) : TRUE]
        source == [n \in Copy |-> CHOOSE f \in Reach(from + n) : TRUE]
        whole == {n \in Copy : source[n] \in DOMAIN image}
        copied == {to[n] : n \in whole}
    IN  /\ at = "copy"
        /\ Accessible({KernelOffset + n : n \in Copy} \cup {from + n : n \in Copy})
        /\ image' = [f \in copied \cup (DOMAIN image \ Range(to)) |->
                        IF f \in copied
                        THEN image[source[CHOOSE n \in whole : to[n] = f]]
                        ELSE image[f]]
        /\ tables' = Restrict(tables, DOMAIN tables \ Range(to))
        /\ at' = IF machine.fb = {} THEN "halt" ELSE "args"
        /\ UNCHANGED <<machine, base, reserved, pagemap, loaded, todo, walk, args>>

\* The rest of args, a hlt instruction at address 0x1000 and some white on
\* the screen.
HandOver ==
    LET written == Reached({1} \cup machine.fb)
    IN  /\ at = "args"
        /\ Accessible({1} \cup machine.fb)
        /\ args' = [args EXCEPT !.stolen_memory_end = args.virtdbg_end + Reserve]
        /\ tables' = Restrict(tables, DOMAIN tables \ written)
        /\ image' = Restrict(image, DOMAIN image \ written)
        /\ at' = "jump"
        /\ UNCHANGED <<machine, base, reserved, pagemap, loaded, todo, walk>>

Next ==
    \/ PmmInit \/ AllocImage \/ AllocPagemap
    \/ Descend \/ MapLeaf \/ LoadCr3
    \/ AllocStack \/ AllocState \/ CopyImage \/ HandOver
=============================================================================
