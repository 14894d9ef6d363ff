# A TLA+ verification project for virtdbg

virtdbg is a small hypervisor that a loader places in memory taken away from
the operating system ("stolen memory"). It switches the processor into VMX
operation, runs the machine it was started on as a guest whose memory is mapped
on demand by extended page tables, and carries a GDB stub that talks over a
serial line. This directory models its core in TLA+, checks the models with TLC
and proves theorems about them with TLAPS.

## 1. Inventory

| component | source | state | operations | hard behaviour | what makes it correct |
|---|---|---|---|---|---|
| ticket lock | `sync/lock.c` | two counters, a saved interrupt flag, per lock | `lock`, `unlock` | CPUs and interrupt handlers interleave; the flag is shared; tickets wrap | one holder, first come first served, the holder is not interrupted, the caller's interrupt flag comes back |
| physical memory | `mm/pmm.c` | `m_base` | `init_pmm`, `palloc`, `palloc_aligned`, `pallocz`, `pallocz_aligned` | concurrent callers, clearing outside the lock, no bound | blocks are separate, aligned, cleared, inside the stolen memory |
| extended page tables | `vmx/ept.c` | the tree under `g_root_pa`, `m_ept_lock` | `init_ept`, `ept_map`, `invept` | hardware walkers read while entries are stored field by field; TLBs | identity map, never a half-made path, what is mapped stays mapped, accesses end |
| world switch | `vmx/vmx.asm` | registers, the host stack, `HOST_RSP`/`HOST_RIP`/`GUEST_*` in the VMCS | `vmlaunch_first`, `hexit`, `vm_resume` | two exits of one switch, register save areas, stack balance over a jump made by hardware | host registers and stack preserved, guest registers preserved |
| VMX life cycle | `vmx/vmm.c` | VMX operation, current VMCS, launch state, controls | `vmxon`, `vmptrld`, `vmread`, `vmwrite`, `validate_controls`, `init_vmcs`, `exit_handler` | every VMX instruction may fail; entry can fail late | VMCS complete and valid before launch, failures stop the CPU |
| exceptions and interrupts | `arch/idt.c`, `arch/idt.h` | handler lists, the stack frame of the stub | stubs, `common_exception_handler`, `hook_*`, `INTERRUPT_HANDLER` | frames with and without error code, order of handlers, errors inside handlers | the frame matches the context, every exception reaches its handlers |
| GDB stub | `gdb/gdb.c` | packet buffers, the trapped context | `gdb_send_packet`, `gdb_receive_packet`, `gdb_exception_handler` | lost and corrupt bytes, retransmission, limits of the buffer | a packet is delivered once or refused, commands are answered |
| formatted output | `util/trace.c`, `trace.h` | the buffers of `num_fmt` and `kvsnprintf`, `g_trace_lock` | `kvcprintf`, `kvsnprintf`, `kprintf`, the line macros | buffer limits, number conversion, lines of several CPUs, an exception inside a line | output fits, numbers denote their arguments, lines stay whole, the report of an exception comes out |
| linked list | `util/list.c` | next and prev pointers | `init_list`, `list_push`, `list_pop`, `list_remove` | pointer surgery in a ring | a ring that represents a sequence |
| serial line | `drivers/serial.c` | UART registers, shared by the stub's packets and all log output | `serial_init`, `serial_putc`, `serial_getc` | polling a device | bytes in order |
| start-up | `entry.c` | what is initialised | `_start` | order of initialisation | nothing is used before it is initialised |
| descriptor tables | `arch/gdt.c` | GDT, TSS | `init_gdt` | - | - |
| loader | `loader/*.c` | page tables, an allocator's base, `virtdbg_args` | `pmm_init`, `pmm_allocz_aligned`, `vmm_init`, `map_page`, `_start` | it switches to page tables that are still growing; what it allocated is protected by nothing but the numbers it passes on | its tables map what it uses, the arguments describe what it took, virtdbg leaves that alone |

Thin wrappers (`arch/io.c`, `arch/cpu.c`, `arch/intrin.c`), `memcpy`/`memset`,
and the error macros of `util/except.h` appear in the models as the effect they
have where they are called. `cpp_magic.h`, the build files and the
artifacts are vendored or generated and are left aside; of `stivale2.h`, what the
loader reads.

How the components interact: every allocation, `ept_map` and every
TRACE/WARN/ERROR goes through a ticket lock, the EPT lock being held while the
allocator's lock is taken; `exit_handler` calls `ept_map` and then `vm_resume`,
and the guest's next fault brings it back; interrupt and exception handlers run
on top of anything that runs with interrupts on and take the trace lock
themselves; the report of an unhandled exception is printed without the lock; the
GDB stub is an exception handler that reads and writes the
context its stub saved. The loader and virtdbg share memory and `virtdbg_args`,
nothing else.

Today only the boot CPU runs virtdbg, with interrupts off. The locks, their
comments ("to protect against multi-core allocations", `pmm.c:28-30`) and the
per-CPU guest states of `virtdbg.h:78-80` are written for several CPUs; the
models take the code at that word and check it on several CPUs.

`PROJECT.json` lists every component with what is modelled of it, and every
hazard the code has, at its line, with the properties that guard against it.

## 2. Plan

The order of the work, most important behaviour first. Steps 1 to 8 are done.

1. **Mutual exclusion.** `TicketLock`, and `FifoLock`, the abstract lock that it
   implements. Every other component relies on it, so the modules above it use
   the abstract lock (one holder, first come first served) in place of the
   counters.
2. **Memory.** `Pmm` on top of the lock, and `BlockAllocator`, the promise it
   implements.
3. **Guest memory.** `Ept` on top of lock and allocator, and `GuestMemory`, the
   promise it implements.
4. **Guest execution.** `WorldSwitch` (registers and stacks) and `Vmm` (life
   cycle and exit handling), two views of the same loop that meet at
   `vmlaunch_first`, `vm_resume` and `exit_handler`.
5. **Exceptions of the hypervisor.** `Exceptions`.
6. **Debugging.** `Gdb`, the hook that `Exceptions` runs, with the serial line
   and a client.
7. **Boot.** `Loader`, and `Boot`, which runs it in front of `Pmm`: the two
   allocators use one memory.
8. **Output.** `Trace`: the conversions, the lines, and exceptions inside them.
9. **Next.** A composition of `Exceptions` with `Gdb`, in which a fault inside a
   session comes back to the stub; the rest of `util/list.c`.

## 3. Modules and the code

| module | models | how state and actions correspond to the code |
|---|---|---|
| `TicketLock` | `sync/lock.c` | One action per access to `lock_t` or to RFLAGS.IF: `Save` and `Cli` (the interrupt flag), `Draw` (the atomic increment), `Test`, `Window` and `Pause` (one turn of the waiting loop, with interrupts let in between), `Release`, `Restore`. A *context* is the program of a CPU or the interrupt handler on top of it. |
| `FifoLock` | - | Contexts join a queue, the head takes the lock and leaves. |
| `Pmm` | `mm/pmm.c`, `ALIGN_UP`, `memset` | `InitPmm` once, then `Call`, `Lock`, `Align`, `Read`, `Bump`, `Unlock`, `Clear` for each CPU; `content` is the memory that callers see. |
| `BlockAllocator` | - | Grants of disjoint blocks. |
| `Loader` | `loader/kernel.c`, `pmm.c`, `vmm.c` | `_start` step by step; `PmmInit` and one action per allocation, `Descend` for each of the three table steps of `map_page` and `MapLeaf` for its store, `LoadCr3`, `CopyImage`, `HandOver`. Memory is pages that hold a page table, a page of the binary, or something of no interest. Each access goes where the page tables in use send it (`Reach`); an access that they do not map leaves the action disabled, which `AddressSpace` forbids. |
| `Boot` | `entry.c` up to `init_pmm` | `Load` is a step of `Loader`, `Start` passes `virtdbg_args` on, `Run` is a step of `Pmm`. |
| `Ept` | `vmx/ept.c`, the EPT case of `exit_handler` | Every store to an entry is an action (`StoreFrame`, `StoreRead`, ...), because the hardware walkers of other CPUs read between them; `WalkDown`, `WalkEnd`, `WalkFault`, `Hit`, `Deny` are the hardware. |
| `GuestMemory` | - | An access to a page ends in the page of that number. |
| `WorldSwitch` | `vmx/vmx.asm` | Actions are runs of instructions between points where something else can happen: the pushes, the loads, the VM entry and its failure, the guest, the stores, the pops. Registers, the host stack and the register areas hold symbolic values that say where they came from. |
| `Vmm` | `entry.c`, `vmx/vmm.c` | `_start` step by step, then one action per write of `init_vmcs` to the VMCS (`Setup` is their order), then one per case of `exit_handler`. A control word is the set of its bits; the capability MSRs are a constant of the CPU it runs on. |
| `Exceptions` | `arch/idt.c`, `init_list` and `list_push` of `util/list.c` | `PushLink`, `PushAppend` and `PushClose` are the stores of a registration, which an exception may come between. `Raise` is the CPU's frame and the stub's pushes, `Interrupt` the entry to an `INTERRUPT_HANDLER`, `CallHook` and `ReturnHook` a hook that may handle, fail and change the context, `Finish` the end of the handlers, `Return` and `ReturnInterrupt` the ways back. The stack is a sequence of symbolic words, the lists are pointers. |
| `Gdb` | `gdb/gdb.c`, `drivers/serial.c` | The stub reads one character per action (`Skip`, `Begin`, `Data`, `EndData`, `FirstDigit`, `Accept`, `Refuse`, `Acknowledged`, `SendAgain`, `GiveUp`) and executes one command per action. The client is external: it does one thing at a time, acknowledges packets, and repeats itself when the line is quiet. |
| `Trace` | `util/trace.c`, `trace.h`, `kernel_exception_handler` | `Line` and `String` begin a print; `ConvertText`, `ConvertNumber` and `ConvertSize` are the cases of `kvcprintf`'s switch, `Digit`, `Pad` and `Sign` the loops of `num_fmt`, `Put` one call of the callback; `Scaled` is the loop of `%S`, whose count may lead `Unit` past the table of units. `Draw` and `Lock` are the two halves of `lock()`. `Except` is an exception no hook handles, at any of these steps; what its CPU had drawn goes to `lost`. |

`MC*` modules give the constants their values for TLC; `*Proofs` modules hold the
theorems. What is not code of the repository - page walks, TLBs, VM entries and
exits, exception delivery, the GDB client, the serial line - is marked external
in `PROJECT.json`. What a definition marked `Mutant of` says is a bug the code
might have; it is used to see that the property it belongs to would notice.

### Where a model follows the code away from its intention

- `lock()` saves the caller's interrupt flag in the lock before it owns it
  (`lock.c:10-12`), so the flag is anyone's: run `lock_restore`.
- `vmlaunch_first` overwrites the guest's `rip` and `rsp` that `init_vmcs` took
  from the initial state: the guest starts in a `hlt` on the host's stack.
  `WorldSwitch` has it so; the first exit of every behaviour is one of that code.
- The exits behind the first VM entry go through `hexit`, which loses the state
  pointer (run `switch_argument`) and does not restore the limits of GDT and IDT;
  `GuestPreserved` and `TablesRestored` are therefore stated from the second exit on.
- `init_vmcs` sets neither HLT nor NMI exiting: their cases in `exit_handler` are
  reached on CPUs that demand the bit, or by way of the zero reason of a fresh VMCS
  (run `vmm_failure`).
- A `gdb` session opens only for exceptions without a signal, `c` halts the
  machine, `s` stays in the session, and a full buffer ends in a divide error that
  is repeated for ever (`Overflow`). `Gdb` models all four as they are.
- Commands whose checksum has a letter in it are never accepted (`str_to_hex`).
  The runs use commands without one; with another one `AnsweredUnlessRefused`
  still holds, as the stub refuses the packet.
- The stubs of vectors 16, 17 and 21 disagree with the CPU about the error code.
  The run `exceptions` raises vectors whose stub is right; with one of those three
  in `Raised`, TLC finds `ContextIntact` violated at once.
- `hook_interrupt_handler(h, v)` puts `h` into the list that vector `v + 0x20` walks.
  The run hooks 0x20 and interrupts with 0x40; `HookAssumption` leaves out the vectors
  from 0xe0 on, whose list is outside the array.
- `num_fmt` decides on the sign by the lower 32 bits and `%u` sign-extends: `Trace`
  has both; `NumberDenoted` excuses the arguments that are printed wrong (`Printable`).
- `common_exception_handler` reports a hook's failure with ERROR before it calls
  `kernel_exception_handler`, which avoids the lock: a CPU that took the exception
  inside a line of its own, or while it waited in `lock()` to begin one, draws a second
  ticket behind its first and stands still there. `DumpReported` excuses that.
- `%S` of a number from 1024^4 on, and of a negative int, reads behind its table of
  units (`trace.c:208`, `234`): the model then prints any of `Beyond`, or an exception
  comes.
- `kvsnprintf` terminates only the strings that it cuts off, although `trace.h:34` counts
  a terminator into the size. `WithinBuffers` claims none for the others.
- `vmxon` locks IA32_FEATURE_CONTROL before it enables VMX in it (`vmm.c:26`); `Vmm`
  stops on such a CPU, as the machine would.
- The jump to virtdbg sets `rsp` to the address of a local variable (`kernel.c:145`):
  the stack that `AllocStack` took is a block that nobody uses.
- The stores of `list_push` are taken in the order of the source, which the compiler
  need not keep.

## 4. Runs

"States" are distinct states. Every property of a passing run has a mutant of the
code that it refutes.

| run | question | bounds | states |
|---|---|---|---|
| `lock` | Do contexts of two CPUs exclude each other, in the order of their tickets, undisturbed by interrupts, and does every wait end? | two CPUs, one interrupt, tickets modulo 5 | 385,813 |
| `lock_restore` (violation) | Does a CPU get its interrupt flag back? | two CPUs, no interrupts | - |
| `boot` | Does the loader hand over a working address space and describe it correctly, and are concurrent allocations then separate, aligned, and apart from everything the loader made? | three machines; pages of 4 bytes, three levels of 16 entries; three CPUs, three blocks, three requests | 79,598 |
| `ept` | Do walkers only see a sound identity map while it is being built, and does every access end? | two CPUs, three levels of two entries, two pages, reads and writes, a TLB of one | 577,642 |
| `switch` | What do host and guest find in their registers after a switch? | four VM entries | 487k |
| `switch_argument` (violation) | Does `exit_handler` get its argument? | four VM entries | - |
| `vmm` | From `_start` to the exits: are controls valid, is the guest confined, is every exit answered? | a CPU with all features and each CPU that lacks or demands one more; four VM entries | 5,948 |
| `vmm_failure` (violation) | Does a failed VM entry stop the CPU? | as `vmm` | - |
| `exceptions` | Does a hook see the interrupted program, is every registered hook called, also while another is being registered, and does the program resume as the hook left it? | exceptions 3 and 13, interrupt 64, two hooks, three exceptions or interrupts, two of them nested | 131k |
| `gdb` | Does a session survive a fault on the line, with every command and reply where it belongs? | two commands of five, one fault of any kind at any place, to any character; a buffer of 10, three tries | 224,352 |
| `gdb_resend` (violation) | Is a packet that the stub asked for again ever taken? | as `gdb` | - |
| `trace` | Are numbers printed as what they are, within the buffers, in lines that stay whole, and does the report of an exception come out unless its CPU waits for itself? | two CPUs, two lines, one string of 51; ints of 4 bits, longs of 8; a unit of `%S` is 3 of the last; one exception | 1,012,308 |

Why these bounds are enough to mean something:

- *Tickets* modulo 5 wrap around within a behaviour; the modulus only has to exceed
  the number of contexts (four), which is an assumption of the module and true of
  2^64. One interrupt is enough to put a handler behind, between and in front of the
  programs; with two, the state space outgrows the runs, and the proofs of section 6
  hold for any number.
- *Blocks*: three callers with alignments 1, 2 and 4 from an odd base meet every case
  of rounding; three blocks make an allocation between two others.
- *Machines*: the longest region lies below "4 GiB", where it is mapped twice, or
  above, where only the walk over the memory map reaches it; it is the first of two of
  equal length, or memory of the boot loader; one machine has no frame buffer, which
  stops the loader. Assumed, because nothing in the code checks it: the region is free
  memory and has room for everything. A page of which `memset` clears a part counts
  as cleared, and a region that begins inside a page as the whole page.
- *Numbers*: with ints of 4 bits and longs of 8, the arguments are on both sides of
  each sign and width; the widest, a binary long, fills the buffer. Paddings are
  shorter and longer than the digits. A `Kilo` of 3 has a long reach every unit of `%S`,
  and the one behind them. The buffers of `kvsnprintf` have every size
  from 0 to one more than the string needs, and room for any number.
- *Page tables*: two pages that share the root's entry and part at the next level let
  two CPUs race for a shared table and for separate ones; three levels are the least
  with a table that is neither root nor leaf. A TLB of one forces eviction.
- *VM entries*: the first, the second and the third take different ways (launch,
  first resume, resume after a resume); a fourth repeats the third's.
- *CPUs of `vmm`*: control bits are independent of each other in the code, so CPUs
  that differ from the good one in one bit reach every check.
- *Exceptions*: two hooks are the least whose order can be wrong and whose second
  registration depends on the first; two levels put a frame above a context in use;
  the third exception finds what the first two left on the stack.
- *Line faults*: one fault is the most a checksum of eight bits is sure to notice;
  with two, damages may cancel out. The buffer of 10 is filled by two joined copies of
  the longest command; three tries let `GiveUp` happen within a command.

Deadlock is checked for the locks and the page tables, whose CPUs always have
something to do. The other systems may stop: `boot` at its bound of blocks, `switch`
and `vmm` at their bound of entries and behind `hlt`, `exceptions` and
`trace` in `kernel_exception_handler`, and `gdb` there too or when client and stub wait for each
other, which after a lost stop reply they do for ever.

## 5. Liveness and fairness

- `lock` (`FairSpec`): weak fairness of each context's steps inside `lock` and
  `unlock` and of the return from a handler - a CPU goes on executing. Nothing
  obliges anyone to call `lock()`. `WaitEndsUnlessInterrupted` excuses one case: a
  handler that arrived while its own CPU's program was waiting with a ticket stands
  behind that ticket for ever. This is a property of the code (`lock.c:16-19` lets
  interrupts in while it waits), stated and not hidden.
- `ept` (`FairSpec`): weak fairness of each CPU's hardware and of its steps inside
  `ept_map`, strong fairness of taking `m_ept_lock`: the ticket lock is first come
  first served (`Refinement` in `TicketLockProofs`), so a CPU that waits is passed
  over a bounded number of times only.
- `vmm` (`FairSpec`): weak fairness of the host's steps except behind `hlt`, after
  which only an interrupt would wake the CPU; none of the guest's.
- `gdb` (`FairSpec`): weak fairness of the stub and of the client, which repeats
  itself as GDB does; none of faults, exceptions or new commands.
  `AnsweredUnlessRefused` excuses sessions in which the stub refused a packet, which
  `gdb_resend` shows to be lost.

- `trace` (`FairSpec`): weak fairness of each CPU's steps - it goes on executing;
  none of prints or exceptions. With a bounded number of lines that is enough for
  the lock, which serves its tickets in order. `DumpReported` is about the CPU with the
  exception alone: another one may wait for a lock that it took along.
  It excuses one case: a hook failed, and the CPU had a ticket when the exception came,
  which makes its own ERROR wait for ever.

## 6. Proofs

TLAPS checks the following for every value of the constants that meets the modules'
named assumptions; in particular for any number of CPUs, interrupts, blocks, VM
entries, and for both kinds of lock.

- **`TicketLockProofs`** (`TypeCorrect`, `TicketsInOrder`, `Mutex`, `Uninterrupted`,
  `Refinement`). `MutualExclusion` is not inductive: that one context is inside says
  nothing of the tickets of the others. `TicketInv` adds that the drawn tickets are
  pairwise different and lie in the window of `Cardinality(Ticketed)` numbers from
  `now_serving` up, and that who is inside holds `now_serving`. The size of the
  window is below the modulus by assumption, so the argument survives the wrap-around.
  `Uninterrupted` needs `IrqInv`: where the code has executed `cli` and not yet
  restored the flag, interrupts are off and no handler runs. `Refinement` maps a
  context to its phase and to the set of contexts with an earlier ticket.
- **`MemoryProofs`**, first part (`TypeCorrect`, `Alignment`, `Contents`, `Refinement`): the
  allocator by itself. `LockInv` ties
  the holder to the labels inside the lock; `BaseInv` says the base is past every
  block granted and is aligned where the running call relies on it; `AboveInv`, that
  base and blocks are above what `init_pmm` was given; `ApartInv`, that returned blocks
  and those of calls still to clear theirs lie below the base and never overlap, which
  is what keeps a `memset` outside the lock harmless. The proof needs
  that `AlignUp` neither goes down nor off the alignment, a lemma of its own. The
  lemmas are stated for a step of any kind, so that the second part can use them.
- **`MemoryProofs`**, second part (`Intact`, `Custody`, `Allocation`, `Described`): from the
  loader to the allocator. `Boot` after `Start` is `Pmm`, before it
  `Pmm` stands still; the invariant adds that the loader's blocks end at or below
  `args.virtdbg_end`, so that `AboveInv` separates the two allocators. Nothing is
  assumed of the machines but their types: a loader that runs out of its region
  still does not get its blocks back. `Described` is about what the loader tells: by
  `PlacedInv` each block lies above all earlier ones, the binary's first, and none below
  the region. That the end of the stolen memory is inside the region is not a fact about
  the code, which never looks at the region's length; the theorem has it for the states
  in which the region has the room (`HasRoom`), as those of the run do.
- **`MemoryProofs`**, third part (`Space`): `AddressSpace` for every machine that the loader
  can boot (`Bootable`) and as long as what it takes stays in its region (`Fits`). The code
  checks none of this, and the three machines of the run satisfy all of it: the identity of
  low memory, the window at `MEM_PHYS_OFFSET` and the image at `KERNEL_OFFSET` do not
  overlap, and the tables reach the end of the image; what may be allocated from begins
  with a page; the binary, page 1 and the frame buffer are mapped, and lie outside of the
  region that the loader allocates from. On a machine with its binary inside that region
  the loader clears what it is about to copy (see the hazards). `SpaceInv` gives each page
  table a level and a number, the part of the address that all pages mapped through it
  share: an entry leads to the table of its number one level down, or maps a page as some
  call of `map_page` asked (`Shape`), and each table but the root has an entry that leads
  to it, so that the hardware's walk can be followed from a leaf up to the root and then
  down again (`TranslateMapped`). `Tree` adds that all tables lie between the binary's copy
  and the free memory, that the running call is at the table of its page's number, and that
  all calls that are not still to come have been executed. Then a new block, which lies in
  the region and therefore among the pages mapped to themselves, is cleared and linked at
  its own address (`AllocFacts`), a store to a leaf disturbs no other page
  (`LeafStored`, since no two calls map one page differently, `CallsAgree`), and neither the
  copy nor `HandOver` writes to a table. The prover knows nothing of powers: `PowerAssumption`
  of `Boot` defines those of `Fan` for it, and TLC evaluates it.
- **`VmmProofs`** (`TypeCorrect`, `Controls`, `Confinement`, `Faultless`, `Tables`,
  `Handling`). `IInv` joins the progress through `Setup` (what was written so far is
  written well), the order of `_start`, and what `exit_handler` has examined where.
  `Handling` is about the history `exits` of the exits that were taken: an entry that
  fails before it begins is not one, leaves the reason of an earlier exit, and is the
  matter of `vmm_failure`.
- **`EptProofs`** (`TypeCorrect`, `Soundness`, `FlatMemory`, `Configuration`,
  `Persistence`, `Refinement`). `EptInv` has a part about the tree (the root is there,
  `TreeShape`, `NoMisconfiguration`) and two parts for each CPU. `MapperInv`: a CPU
  between `lock()` and `unlock()` of `ept_map` is the holder; its table serves its page
  at its level; the frame it is about to store is the page or the table made for the
  next level, and is in the entry from the store of `r` on; and above the leaves the
  entry is not present before its frame is there. `GuestInv`: a hardware walk stands in a
  table that serves its page, and what is cached or was touched is the identity. A
  step is the step of one CPU: `StepKeeps` shows once for all that the parts of the
  others survive a growing tree, for which `OneMapper` (the lock) is needed. The
  refinement to `GuestMemory` leaves out its fairness.
- **`SwitchProofs`** (`TypeCorrect`, `Host`, `Guest`, `AreaFound`). `StackInv` says what
  is on the host stack at each place in the code: nothing between two calls, one
  `Frame` of registers and the area's address while the guest runs. `HostInv` adds
  that `exit_handler` gets its registers back and passes on the area it was given,
  `GuestInv`, that this area holds what the guest left except between `Save` and
  `SaveRdi`. The lemma `Order` is why pushes and pops belong together.
- **`ExceptionsProofs`** (`Contexts`, `HooksMet`, `Resumption`). Any vectors, lists and
  hooks, to any depth. `FrameInv` says where on the stack the words of each exception in
  progress lie and that the frames of the later ones are above it; `DsInv`, that `ds`, the
  one register that an `INTERRUPT_HANDLER` does not save, still comes back, because an
  interrupt only interrupts the program and every exception on top of it restores it.
  `RingInv` says what the pointers of a list are between any two stores of `list_push`:
  `next` leads around the hooks, with the new one from the store `PushAppend` on, and
  `prev` to the last that is registered. `WalkInv` adds that a walk has called a beginning
  of that chain; the chain may grow at its end below a walk, never in front of it. All
  three theorems assume `StubsRight`: the stubs of the vectors raised agree with the CPU
  about the error code. They do for all exceptions but 16, 17 and 21, for which the
  theorems would be false (section 3).
- **`TraceProofs`** (`Types`, `Tickets`, `LinesHeld`, `NoOverlap`, `Buffers`, `Numbers`).
  Any number of CPUs and formats, any widths. `TicketInv`: those who wait have different
  tickets, and none has the one that is served while the lock is taken; so the lock is
  free when `Lock` takes it, also with tickets in the queue that nobody has any more.
  `LineInv`: who prints a line holds the lock
  from its first character on, the last conversion that is left ends in the newline, and
  behind it the serial line is free; so the lock is never given back inside a line, and
  an exception that abandons a line keeps the lock. `BufferInv` says what the buffer of
  `kvsnprintf` holds at any time; `Buffers` leaves open what is behind a string that is
  shorter than it. `NumberInv` bounds the number that is left by a power of two of the
  binary digits that may still come, and what is in `num_buf` by those and the padding:
  a number in base 2, 10 or 16 halves at least with each digit. `Buffers` assumes
  `NumBufFits`: `num_buf` has room for a long in binary, as its 65 bytes do, and for
  every padding that a format asks for, with a sign; the code itself checks neither, and
  a negative number padded to 64 would begin in front of it. The prover knows nothing of
  powers: `PowerAssumption` of `Trace` states that 2^0 is 1 and that each further power
  is twice the last, and TLC evaluates it. That powers grow (`Monotone`) is then proved
  by induction. `Numbers` is `NumberDenoted`, and its invariant `ValueInv` says what the
  half-written number is at each step of the loop: what is still to be divided, with the
  digits behind it, denotes the argument (`ToCome`). Where a length limits the digits,
  only as many low bits of the quotient count as the length has room for; above them
  there is nothing, or the sign extension of an int, and then the last bit that counts
  is set, so that the loop does not end early. Padding in front changes nothing. The
  theorem assumes `WholeDigits`: the widths of int and long are multiples of the four
  bits of a hexadecimal digit, as 32 and 64 are; otherwise the length that cuts off the
  sign extension keeps bits of it. `Denoted` is a recursive function of the digits; that
  such a function exists (`SumsExist`) is proved by the least counterexample, since the
  library's theorem about it takes an operator.
- **`GdbProofs`** (`Types`, `Intact`, `Matching`, `Unrefused`). Any commands, sizes, numbers
  of retries and of faults. `Types` is for every fault. `CommandIntact` and `ReplyMatches`
  are not: the one-byte checksum does not notice two damages that cancel out, which is why
  the run has one fault of any kind and the theorems have any number of faults that satisfy
  `Spares`: packets and acknowledgements of the stub are lost and damaged at will, those
  that the client sends as long as it has no command under way; no fault makes a `$` of
  an acknowledgement. `PlainCommands` adds what the protocol asks of a command (no `#`, no
  `$`) and that its checksum has no letters, which `str_to_hex` misreads. All commands of
  the run are plain. `PacketInv` says that there is a number p such that the last copy of
  the command's packet lies behind the next p characters to the stub, or began -p
  characters ago; that no other packet begins there; that, inside a packet, what was read
  is the beginning of the command and has its sum; and that until the whole packet is
  read, or swallowed by `gdb_send_packet`, there is no `+` under way and the client waits
  for one. `ReplyInv` says that behind a `+` there are only replies to the command it
  acknowledges (`Fresh`), and that the stub sends no other again; in front of it there may
  be stale ones, which the client drops as it waits for the `+`. `Unrefused` follows: the
  session that `gdb_resend` shows to end needs a damaged command.

Only model-checked: `CommandIntact` and `ReplyMatches` of `Gdb` where a fault hits a
command, as above; and, since the prover has neither ENABLED nor fairness, all liveness
(`WaitEndsUnlessInterrupted`, `ImplementsFairMemory`, `ExitsAnswered`,
`AnsweredUnlessRefused`, `DumpReported`). Induction over numbers is within reach, by way
of the least counterexample (`Least` in `TraceProofs`, `GdbProofs` and `MemoryProofs`),
and so is what a recursive function of this project computes; what the library's folds
compute is not, as the theorems about them take operators.

## 7. Findings

`PROJECT.json` quotes the lines. In short: the interrupt flag of `lock()` is kept in
shared memory (`lock_restore`); the first exit hands `exit_handler` a code address
(`switch_argument`); a VM entry that fails is taken for an NMI and resumed for ever
(`vmm_failure`); a packet that is sent again is never taken (`gdb_resend`). The hazards
with a note are further defects that a run would only restate, such as an allocator
without a bound (`pmm.c:43`). Three of them met in `Trace` contradict what stands beside
them: a string that fits has no terminator, `%S` reads behind its table, and "reset the
lock so we can print" (`idt.c:242`) resets nothing, so that an exception inside `lock()` or
a line leaves a ticket that nobody gives back, and every later line waits. Code without
a caller has two more: `list_pop` takes the last entry where `list.h:41-44` promises the
first, and `hook_interrupt_handler` indexes its array 0x20 too high.

## 8. Not modelled

The half of `util/list.c` without a caller. The descriptor tables, the one-instruction
wrappers and the string functions have no behaviour beyond the effect they have where
they are called. The values of guest and host fields of the VMCS, the text of messages
(of which `Trace` has the conversions, but not upper
case, `%R` of an error without a name, or lines printed by an interrupt handler), the
flags of the loader's page table entries, the initialisation of the UART, and the
commented-out buddy allocator
(`pmm.c:64-183`) are left out.

## 9. Running it

    tlc -config ept.cfg MCEpt          # the run `ept`; the others likewise
    tlapm TicketLockProofs.tla         # checks a proof module

A run's configuration is `<run>.cfg`; its module is named in `PROJECT.json`.
