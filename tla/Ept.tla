-------------------------------- MODULE Ept ---------------------------------
(***************************************************************************)
(* The extended page tables of vmx/ept.c, filled on demand: a CPU whose    *)
(* guest touches an unmapped page leaves the guest with an EPT violation,  *)
(* exit_handler() (vmx/vmm.c) calls ept_map() and resumes the guest, which *)
(* repeats the access.  All CPUs share one tree; ept_map() changes it      *)
(* under m_ept_lock, one store after the other, while the page walkers of  *)
(* the other CPUs read it without any lock.                                *)
(*                                                                         *)
(* A guest-physical page is its path of indices, one per level: page p     *)
(* selects entry p[l] of the table of level l.  palloc never returns NULL, *)
(* so the out-of-memory exit of ept_map() is unreachable and left out.     *)
(***************************************************************************)
EXTENDS Integers, FiniteSets

CONSTANTS
    CPU,
    Levels,         \* EPT_LEVELS: 4 in the build
    Index,          \* 0..511 in the build
    Page,           \* the guest-physical pages that the guest touches
    Table,          \* the page frames the allocator may hand out for tables
    Root,           \* g_root_pa
    Accesses,       \* the accesses that the guest makes: pairs of page and kind
    NoPage,         \* no page was accessed yet
    Junk,           \* what a frame field holds before it is written
    TlbSize         \* bound: translations a CPU keeps

Access == {"r", "w", "x"}
NoCPU == "none"

ASSUME LevelsAssumption == Levels \in Nat /\ Levels >= 2
ASSUME PageAssumption ==
    /\ Page \subseteq [1 .. Levels -> Index]
    /\ NoPage \notin Page
ASSUME TableAssumption == Root \in Table
ASSUME CPUAssumption == NoCPU \notin CPU
ASSUME AccessesAssumption == Accesses \subseteq Page \X Access
ASSUME TlbAssumption == TlbSize \in Nat \ {0}

VARIABLES
    entry,      \* [Table -> [Index -> entry]]: the content of the tables
    used,       \* tables allocated so far
    home,       \* history: the level and page for which a table was made
    holder,     \* the CPU that holds m_ept_lock, or NoCPU
    pc,         \* where each CPU is, in the guest or in the hypervisor
    page,       \* the guest-physical page of the CPU's access
    kind,       \* and its kind
    level,      \* level of the walk, by the hardware or by ept_map()
    cur,        \* table of the walk
    allowed,    \* the access allowed by the entries walked so far
    target,     \* the frame ept_map() is about to store
    tlb,        \* translations each CPU has cached: [page, frame, access]
    touched     \* the frame the CPU's last access reached, or NoPage

tree == <<entry, used, home>>
walk == <<level, cur, allowed, target>>
guest == <<page, kind, touched>>
vars == <<tree, holder, pc, guest, walk, tlb>>

Empty == [frame |-> Junk, access |-> {}, wb |-> FALSE]

\* A page that was not allocated and cleared holds anything.
Garbage == [frame |-> Junk, access |-> Access, wb |-> TRUE]

Goto(c, label) == pc' = [pc EXCEPT ![c] = label]
Entry(c) == entry[cur[c]][page[c][level[c]]]
Store(c, e) == entry' = [entry EXCEPT ![cur[c]][page[c][level[c]]] = e]

\* init_ept(): the root is a cleared page.
Init ==
    /\ entry = [t \in Table |-> [i \in Index |-> IF t = Root THEN Empty ELSE Garbage]]
    /\ used = {Root}
    /\ home = [t \in Table |-> [level |-> Levels, page |-> NoPage]]
    /\ holder = NoCPU
    /\ pc = [c \in CPU |-> "run"]
    /\ page = [c \in CPU |-> NoPage]
    /\ kind = [c \in CPU |-> "r"]
    /\ level = [c \in CPU |-> Levels]
    /\ cur = [c \in CPU |-> Root]
    /\ allowed = [c \in CPU |-> Access]
    /\ target = [c \in CPU |-> Junk]
    /\ tlb = [c \in CPU |-> {}]
    /\ touched = [c \in CPU |-> NoPage]

-----------------------------------------------------------------------------
(* The guest, and the hardware that translates its accesses.               *)

Issue(c, p, k) ==
    /\ pc[c] = "run"
    /\ page' = [page EXCEPT ![c] = p]
    /\ kind' = [kind EXCEPT ![c] = k]
    /\ touched' = [touched EXCEPT ![c] = NoPage]
    /\ Goto(c, "access")
    /\ UNCHANGED <<tree, holder, walk, tlb>>

Cached(c) == {m \in tlb[c] : m.page = page[c]}

Hit(c) ==
    /\ pc[c] = "access"
    /\ \E m \in Cached(c) :
          /\ kind[c] \in m.access
          /\ touched' = [touched EXCEPT ![c] = m.frame]
    /\ Goto(c, "run")
    /\ UNCHANGED <<tree, holder, page, kind, walk, tlb>>

\* An EPT violation drops what is cached for its page.
Violation(c) ==
    /\ tlb' = [tlb EXCEPT ![c] = @ \ Cached(c)]
    /\ Goto(c, "lock")
    /\ UNCHANGED <<tree, holder, guest, walk>>

\* The cached translation was read before the entry got all its access bits.
Deny(c) ==
    /\ pc[c] = "access"
    /\ \E m \in Cached(c) : kind[c] \notin m.access
    /\ Violation(c)

StartWalk(c) ==
    /\ pc[c] = "access"
    /\ level' = [level EXCEPT ![c] = Levels]
    /\ cur' = [cur EXCEPT ![c] = Root]
    /\ allowed' = [allowed EXCEPT ![c] = Access]
    /\ Goto(c, "walk")
    /\ UNCHANGED <<tree, holder, guest, target, tlb>>

WalkDown(c) ==
    /\ pc[c] = "walk" /\ level[c] > 1
    /\ "r" \in Entry(c).access
    /\ allowed' = [allowed EXCEPT ![c] = @ \cap Entry(c).access]
    /\ cur' = [cur EXCEPT ![c] = Entry(c).frame]
    /\ level' = [level EXCEPT ![c] = @ - 1]
    /\ UNCHANGED <<tree, holder, pc, guest, target, tlb>>

\* The walk ends in a page; the CPU may have to evict to remember it.
WalkEnd(c) ==
    /\ pc[c] = "walk" /\ level[c] = 1
    /\ kind[c] \in allowed[c] \cap Entry(c).access
    /\ touched' = [touched EXCEPT ![c] = Entry(c).frame]
    /\ \E keep \in SUBSET (tlb[c] \ Cached(c)) :
          /\ Cardinality(keep) < TlbSize
          /\ tlb' = [tlb EXCEPT ![c] = keep \cup
                        {[page |-> page[c], frame |-> Entry(c).frame,
                          access |-> allowed[c] \cap Entry(c).access]}]
    /\ Goto(c, "run")
    /\ UNCHANGED <<tree, holder, page, kind, walk>>

WalkFault(c) ==
    /\ pc[c] = "walk"
    /\ \/ "r" \notin Entry(c).access
       \/ level[c] = 1 /\ kind[c] \notin allowed[c] \cap Entry(c).access
    /\ Violation(c)

-----------------------------------------------------------------------------
(* exit_handler() for VMEXIT_REASON_EPT_VIOLATION, and ept_map().          *)

\* Mutant of Lock: ept_map() takes no lock.
Free_Lock(c) ==
    /\ pc[c] = "lock"
    /\ holder' = c
    /\ level' = [level EXCEPT ![c] = Levels]
    /\ cur' = [cur EXCEPT ![c] = Root]
    /\ Goto(c, "visit")
    /\ UNCHANGED <<tree, guest, allowed, target, tlb>>

Lock(c) ==
    /\ pc[c] = "lock"
    /\ holder = NoCPU
    /\ holder' = c
    /\ level' = [level EXCEPT ![c] = Levels]
    /\ cur' = [cur EXCEPT ![c] = Root]
    /\ Goto(c, "visit")
    /\ UNCHANGED <<tree, guest, allowed, target, tlb>>

\* Mutant of Descend: the loop runs one level too far.
Deep_Descend(c, t) ==
    /\ cur' = [cur EXCEPT ![c] = t]
    /\ level' = [level EXCEPT ![c] = @ - 1]
    /\ IF level[c] = 1
       THEN Goto(c, "frame") /\ target' = [target EXCEPT ![c] = page[c]]
       ELSE Goto(c, "visit") /\ UNCHANGED target

\* Mutant of Descend: the frame of a leaf is left as the loop had it.
Stale_Descend(c, t) ==
    /\ cur' = [cur EXCEPT ![c] = t]
    /\ level' = [level EXCEPT ![c] = @ - 1]
    /\ Goto(c, IF level[c] = 2 THEN "frame" ELSE "visit")
    /\ UNCHANGED target

\* ept_map() goes on in table t: to the leaf, or to the next level.
Descend(c, t) ==
    /\ cur' = [cur EXCEPT ![c] = t]
    /\ level' = [level EXCEPT ![c] = @ - 1]
    /\ IF level[c] = 2
       THEN Goto(c, "frame") /\ target' = [target EXCEPT ![c] = page[c]]
       ELSE Goto(c, "visit") /\ UNCHANGED target

Follow(c) ==
    /\ pc[c] = "visit"
    /\ "r" \in Entry(c).access
    /\ Descend(c, Entry(c).frame)
    /\ UNCHANGED <<tree, holder, guest, allowed, tlb>>

\* Mutant of Allocate: palloc_aligned(), which does not clear the page.
Dirty_Allocate(c, t) ==
    /\ pc[c] = "visit"
    /\ "r" \notin Entry(c).access
    /\ t \in Table \ used
    /\ used' = used \cup {t}
    /\ home' = [home EXCEPT ![t] = [level |-> level[c] - 1, page |-> page[c]]]
    /\ target' = [target EXCEPT ![c] = t]
    /\ Goto(c, "frame")
    /\ UNCHANGED <<entry, holder, guest, level, cur, allowed, tlb>>

\* pallocz_aligned(): a cleared page that nothing else uses.
Allocate(c, t) ==
    /\ pc[c] = "visit"
    /\ "r" \notin Entry(c).access
    /\ t \in Table \ used
    /\ used' = used \cup {t}
    /\ home' = [home EXCEPT ![t] = [level |-> level[c] - 1, page |-> page[c]]]
    /\ entry' = [entry EXCEPT ![t] = [i \in Index |-> Empty]]
    /\ target' = [target EXCEPT ![c] = t]
    /\ Goto(c, "frame")
    /\ UNCHANGED <<holder, guest, level, cur, allowed, tlb>>

\* The stores to an entry, in the order of the code: frame, r, w, x and, in
\* a leaf, mem_type.
StoreFrame(c) ==
    /\ pc[c] = "frame"
    /\ Store(c, [Entry(c) EXCEPT !.frame = target[c]])
    /\ Goto(c, "r")
    /\ UNCHANGED <<used, home, holder, guest, walk, tlb>>

\* Mutant of StoreRead: w is set before r.
Swapped_StoreRead(c) ==
    /\ pc[c] = "r"
    /\ Store(c, [Entry(c) EXCEPT !.access = @ \cup {"w"}])
    /\ Goto(c, "w")
    /\ UNCHANGED <<used, home, holder, guest, walk, tlb>>

StoreRead(c) ==
    /\ pc[c] = "r"
    /\ Store(c, [Entry(c) EXCEPT !.access = @ \cup {"r"}])
    /\ Goto(c, "w")
    /\ UNCHANGED <<used, home, holder, guest, walk, tlb>>

StoreWrite(c) ==
    /\ pc[c] = "w"
    /\ Store(c, [Entry(c) EXCEPT !.access = @ \cup {"w"}])
    /\ Goto(c, "x")
    /\ UNCHANGED <<used, home, holder, guest, walk, tlb>>

StoreExecute(c) ==
    /\ pc[c] = "x"
    /\ Store(c, [Entry(c) EXCEPT !.access = @ \cup {"x"}])
    /\ IF level[c] > 1
       THEN Descend(c, target[c])
       ELSE Goto(c, "mem_type") /\ UNCHANGED <<level, cur, target>>
    /\ UNCHANGED <<used, home, holder, guest, allowed, tlb>>

StoreType(c) ==
    /\ pc[c] = "mem_type"
    /\ Store(c, [Entry(c) EXCEPT !.wb = TRUE])
    /\ Goto(c, "invept")
    /\ UNCHANGED <<used, home, holder, guest, walk, tlb>>

\* invept drops the translations of the CPU that executes it, no others.
Invept(c) ==
    /\ pc[c] = "invept"
    /\ tlb' = [tlb EXCEPT ![c] = {}]
    /\ Goto(c, "unlock")
    /\ UNCHANGED <<tree, holder, guest, walk>>

\* Mutant of Unlock: an exit path without the unlock().
Kept_Unlock(c) ==
    /\ pc[c] = "unlock"
    /\ Goto(c, "access")
    /\ UNCHANGED <<tree, holder, guest, walk, tlb>>

\* unlock(), then vm_resume(): the guest repeats its access.
Unlock(c) ==
    /\ pc[c] = "unlock"
    /\ holder' = NoCPU
    /\ Goto(c, "access")
    /\ UNCHANGED <<tree, guest, walk, tlb>>

-----------------------------------------------------------------------------
Hardware(c) == Hit(c) \/ Deny(c) \/ StartWalk(c) \/ WalkDown(c) \/ WalkEnd(c) \/ WalkFault(c)

Map(c) ==
    \/ Follow(c) \/ \E t \in Table : Allocate(c, t)
    \/ StoreFrame(c) \/ StoreRead(c) \/ StoreWrite(c) \/ StoreExecute(c)
    \/ StoreType(c) \/ Invept(c) \/ Unlock(c)

Next ==
    \E c \in CPU :
        \/ \E a \in Accesses : Issue(c, a[1], a[2])
        \/ Hardware(c) \/ Lock(c) \/ Map(c)

Spec == Init /\ [][Next]_vars

\* CPUs keep running; m_ept_lock is first-come first-served (TicketLock), so
\* a CPU that waits for it again and again gets it.
Fairness ==
    \A c \in CPU : WF_vars(Hardware(c)) /\ SF_vars(Lock(c)) /\ WF_vars(Map(c))

FairSpec == Spec /\ Fairness

-----------------------------------------------------------------------------
(* Properties                                                              *)

Labels == {"run", "access", "walk", "lock", "visit", "frame", "r", "w", "x",
           "mem_type", "invept", "unlock"}

EntryType == [frame : Table \cup Page \cup {Junk}, access : SUBSET Access,
              wb : BOOLEAN]

Translation == [page : Page, frame : Table \cup Page \cup {Junk},
                access : SUBSET Access]

\* Types of the variables.
TypeOK ==
    /\ entry \in [Table -> [Index -> EntryType]]
    /\ used \subseteq Table
    /\ home \in [Table -> [level : 1 .. Levels, page : Page \cup {NoPage}]]
    /\ holder \in CPU \cup {NoCPU}
    /\ pc \in [CPU -> Labels]
    /\ page \in [CPU -> Page \cup {NoPage}]
    /\ kind \in [CPU -> Access]
    /\ level \in [CPU -> 1 .. Levels]
    /\ cur \in [CPU -> Table]
    /\ allowed \in [CPU -> SUBSET Access]
    /\ target \in [CPU -> Table \cup Page \cup {Junk}]
    /\ tlb \in [CPU -> SUBSET Translation]
    /\ touched \in [CPU -> Table \cup Page \cup {Junk, NoPage}]

\* Pages p and q take the same way from the root down to level l.
Agree(p, q, l) == \A i \in l + 1 .. Levels : p[i] = q[i]

\* Table t is where a walk for page p stands at level l.
Serves(t, p, l) ==
    /\ t \in used
    /\ home[t].level = l
    /\ Agree(p, home[t].page, l)

\* What the walker may rely on at any moment between two stores of
\* ept_map(): an entry that is present already points to the table of the
\* next level made for it, and in a leaf to the page of the same address.
TreeShape ==
    \A t \in used, i \in Index :
        "r" \in entry[t][i].access =>
            LET l == home[t].level
                f == entry[t][i].frame
            IN  IF l = 1
                THEN f \in Page /\ f[1] = i /\ Agree(f, home[t].page, 1)
                ELSE /\ f \in used /\ home[f].level = l - 1
                     /\ home[f].page[l] = i
                     /\ Agree(home[f].page, home[t].page, l)

\* The hardware walker of every CPU stays inside the tree, on the path of
\* the page its guest accesses, while other CPUs change the tables.
WalkerOnPath ==
    \A c \in CPU :
        pc[c] = "walk" => Serves(cur[c], page[c], level[c])

\* Walks are sound: both of these together, the first of which the hardware
\* walkers rely on and the second of which they then keep.
WalksSound == TreeShape /\ WalkerOnPath

\* An access reaches the machine page of its own number, through the tables
\* and through whatever a TLB kept from an earlier moment.
Identity ==
    \A c \in CPU :
        /\ touched[c] # NoPage => touched[c] = page[c]
        /\ \A m \in tlb[c] : m.frame = m.page

\* No walker ever sees an entry that is writable or executable but not
\* readable, which the CPU reports as an EPT misconfiguration: an exit for
\* which exit_handler() has no case (vmm.c:399-405).
NoMisconfiguration ==
    \A t \in used, i \in Index :
        entry[t][i].access # {} => "r" \in entry[t][i].access

\* What is mapped stays mapped: no call of ept_map(), on any CPU, redirects
\* a present entry or takes an access away from it.
StaysMapped ==
    [][\A t \in used, i \in Index :
          "r" \in entry[t][i].access =>
              /\ entry'[t][i].frame = entry[t][i].frame
              /\ entry[t][i].access \subseteq entry'[t][i].access]_vars

\* The guest sees flat memory: its accesses end, each in its own page.
Memory == INSTANCE GuestMemory WITH
    waiting <- [c \in CPU |-> pc[c] # "run"],
    target <- page

ImplementsFairMemory == Memory!FairSpec
=============================================================================
