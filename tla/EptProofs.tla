----------------------------- MODULE EptProofs ------------------------------
(***************************************************************************)
(* Theorems about vmx/ept.c for any set of CPUs, pages, levels and tables. *)
(*                                                                         *)
(* The invariant has a part about the tree and a part for each CPU.  A     *)
(* step is the step of one CPU: its own part and the tree's are shown to   *)
(* be kept action by action, those of the other CPUs once and for all.     *)
(***************************************************************************)
EXTENDS Ept, TLAPS

\* Between lock() and unlock() of ept_map(), and where it works on an entry.
Mapping == {"visit", "frame", "r", "w", "x", "mem_type", "invept", "unlock"}
Visiting == {"visit", "frame", "r", "w", "x", "mem_type"}
Storing == {"frame", "r", "w", "x"}

TreeInv ==
    /\ Root \in used /\ home[Root].level = Levels
    /\ TreeShape
    /\ NoMisconfiguration

\* What the entry that ept_map() works on will point to: the next table, made
\* for it, or in a leaf the page.
TargetInv(c) ==
    IF level[c] = 1
    THEN target[c] = page[c]
    ELSE /\ target[c] \in used
         /\ home[target[c]].level = level[c] - 1
         /\ home[target[c]].page = page[c]

\* An entry above the leaves is not present before its frame is there.
MapperInv(c) ==
    /\ pc[c] \in Mapping => holder = c
    /\ pc[c] \in Visiting => Serves(cur[c], page[c], level[c])
    /\ pc[c] = "visit" => level[c] > 1
    /\ pc[c] = "mem_type" => level[c] = 1
    /\ pc[c] \in Storing => TargetInv(c)
    /\ pc[c] \in {"frame", "r"} /\ level[c] > 1 => "r" \notin Entry(c).access
    /\ pc[c] \in {"r", "w", "x"} => Entry(c).frame = target[c]
    /\ pc[c] \in {"w", "x"} => "r" \in Entry(c).access

GuestInv(c) ==
    /\ pc[c] # "run" => page[c] \in Page
    /\ pc[c] = "walk" => Serves(cur[c], page[c], level[c])
    /\ touched[c] # NoPage => touched[c] = page[c]
    /\ \A m \in tlb[c] : m.frame = m.page

EptInv == TypeOK /\ TreeInv /\ \A c \in CPU : MapperInv(c) /\ GuestInv(c)

\* The types of a CPU's variables.
CPUType(c) ==
    /\ pc[c] \in Labels
    /\ page[c] \in Page \cup {NoPage}
    /\ kind[c] \in Access
    /\ level[c] \in 1 .. Levels
    /\ cur[c] \in Table
    /\ allowed[c] \in SUBSET Access
    /\ target[c] \in Table \cup Page \cup {Junk}
    /\ tlb[c] \subseteq Translation
    /\ touched[c] \in Table \cup Page \cup {Junk, NoPage}

\* The types of what the CPUs share.
TreeType ==
    /\ entry \in [Table -> [Index -> EntryType]]
    /\ used \subseteq Table
    /\ home \in [Table -> [level : 1 .. Levels, page : Page \cup {NoPage}]]
    /\ holder \in CPU \cup {NoCPU}

\* The variables of every CPU are functions of the CPU.
Shape ==
    /\ pc = [c \in CPU |-> pc[c]] /\ page = [c \in CPU |-> page[c]]
    /\ kind = [c \in CPU |-> kind[c]] /\ level = [c \in CPU |-> level[c]]
    /\ cur = [c \in CPU |-> cur[c]] /\ allowed = [c \in CPU |-> allowed[c]]
    /\ target = [c \in CPU |-> target[c]] /\ tlb = [c \in CPU |-> tlb[c]]
    /\ touched = [c \in CPU |-> touched[c]]

\* A step leaves a CPU's variables alone.
Same(c) ==
    /\ pc'[c] = pc[c] /\ page'[c] = page[c] /\ kind'[c] = kind[c]
    /\ level'[c] = level[c] /\ cur'[c] = cur[c] /\ allowed'[c] = allowed[c]
    /\ target'[c] = target[c] /\ tlb'[c] = tlb[c] /\ touched'[c] = touched[c]

\* A step leaves the tables in use where they are.
TreeGrows ==
    /\ used \subseteq used'
    /\ \A t \in used : home'[t] = home[t]

-----------------------------------------------------------------------------
(* Lemmas about paths and steps                                            *)

LEMMA TypeParts == TypeOK <=> TreeType /\ Shape /\ \A c \in CPU : CPUType(c)
    BY DEF TypeOK, TreeType, Shape, CPUType

\* The entry that a CPU looks at is an entry.
LEMMA EntryTyped ==
    ASSUME TypeOK, NEW c \in CPU, page[c] \in Page
    PROVE  page[c][level[c]] \in Index /\ Entry(c) \in EntryType
    BY PageAssumption DEF TypeOK, Entry

\* Two pages that agree on every index are the same page.
LEMMA SamePage ==
    ASSUME NEW p \in Page, NEW q \in Page, NEW i, p[1] = i, q[1] = i,
           NEW r, Agree(p, r, 1), Agree(q, r, 1)
    PROVE  p = q
    <1>1. p \in [1 .. Levels -> Index] /\ q \in [1 .. Levels -> Index]
        BY PageAssumption
    <1>2. ASSUME NEW j \in 1 .. Levels PROVE p[j] = q[j]
        <2>1. CASE j = 1
            BY <2>1
        <2>2. CASE j \in 2 .. Levels
            BY <2>2 DEF Agree
        <2> QED
            BY <2>1, <2>2, LevelsAssumption
    <1>3. /\ p = [j \in 1 .. Levels |-> p[j]]
          /\ q = [j \in 1 .. Levels |-> q[j]]
        BY <1>1
    <1> QED
        BY <1>2, <1>3

\* What TreeShape says of one entry above the leaves.
LEMMA Present ==
    ASSUME TreeShape, NEW t \in used, NEW i \in Index, NEW l, home[t].level = l,
           l # 1, "r" \in entry[t][i].access
    PROVE  LET f == entry[t][i].frame
           IN  /\ f \in used /\ home[f].level = l - 1
               /\ home[f].page[l] = i
               /\ Agree(home[f].page, home[t].page, l)
    BY DEF TreeShape

\* A present entry on the way of a page leads to the next table of that way.
LEMMA NextTable ==
    ASSUME TypeOK, TreeInv, NEW c \in CPU, page[c] \in Page,
           Serves(cur[c], page[c], level[c]), level[c] > 1,
           "r" \in Entry(c).access
    PROVE  Serves(Entry(c).frame, page[c], level[c] - 1)
    <1> DEFINE t == cur[c]
               i == page[c][level[c]]
               f == entry[t][i].frame
    <1>1. i \in Index /\ Entry(c) = entry[t][i] /\ level[c] \in 1 .. Levels
        BY EntryTyped DEF Entry, TypeOK
    <1>2. t \in used /\ home[t].level = level[c] /\ Agree(page[c], home[t].page, level[c])
        BY DEF Serves
    <1>3. /\ f \in used /\ home[f].level = level[c] - 1
          /\ home[f].page[level[c]] = i
          /\ Agree(home[f].page, home[t].page, level[c])
        <2>1. TreeShape /\ level[c] # 1 /\ "r" \in entry[t][i].access
            BY <1>1 DEF TreeInv
        <2> HIDE DEF t, i
        <2> QED
            BY <2>1, <1>1, <1>2, Present
    <1> HIDE DEF t, f
    <1>4. ASSUME NEW j \in level[c] - 1 + 1 .. Levels
          PROVE  page[c][j] = home[f].page[j]
        <2>1. CASE j = level[c]
            BY <2>1, <1>3
        <2>2. CASE j \in level[c] + 1 .. Levels
            BY <2>2, <1>2, <1>3 DEF Agree
        <2> QED
            BY <2>1, <2>2, <1>1, LevelsAssumption
    <1> QED
        BY <1>1, <1>3, <1>4 DEF Serves, Agree, t, f

\* A present entry of a leaf on the way of a page holds that page.
LEMMA LeafPage ==
    ASSUME TypeOK, TreeInv, NEW c \in CPU, page[c] \in Page,
           Serves(cur[c], page[c], level[c]), level[c] = 1,
           "r" \in Entry(c).access
    PROVE  Entry(c).frame = page[c]
    <1> DEFINE t == cur[c]
               i == page[c][1]
               f == entry[t][i].frame
    <1>1. i \in Index /\ Entry(c) = entry[t][i]
        BY EntryTyped DEF Entry
    <1>2. t \in used /\ home[t].level = 1 /\ Agree(page[c], home[t].page, 1)
        BY DEF Serves
    <1>3. f \in Page /\ f[1] = i /\ Agree(f, home[t].page, 1)
        BY <1>1, <1>2 DEF TreeInv, TreeShape
    <1> QED
        BY <1>1, <1>2, <1>3, SamePage

\* While the tree grows, what serves a page goes on serving it.
LEMMA ServesStays ==
    ASSUME TreeGrows, NEW t, NEW p, NEW l, Serves(t, p, l)
    PROVE  t \in used' /\ home'[t].level = l /\ Agree(p, home'[t].page, l)
    BY DEF TreeGrows, Serves

\* The CPUs that do not take the step keep their parts of the invariant.
LEMMA OthersKeep ==
    ASSUME EptInv, TreeGrows, NEW d \in CPU, Same(d),
           \/ entry' = entry /\ holder' = holder
           \/ pc[d] \notin Mapping
    PROVE  CPUType(d)' /\ MapperInv(d)' /\ GuestInv(d)'
    <1>1. CPUType(d) /\ MapperInv(d) /\ GuestInv(d)
        BY TypeParts DEF EptInv
    <1>2. CPUType(d)'
        BY <1>1 DEF CPUType, Same
    <1>3. GuestInv(d)'
        BY <1>1, ServesStays DEF GuestInv, Same, Serves
    <1>4. CASE pc[d] \notin Mapping
        BY <1>4, <1>2, <1>3 DEF Same, MapperInv, Mapping, Visiting, Storing
    <1>5. CASE pc[d] \in Mapping /\ entry' = entry /\ holder' = holder
        <2>1. Entry(d)' = Entry(d)
            BY <1>5 DEF Entry, Same
        <2>2. pc[d] \in Storing => TargetInv(d)'
            BY <1>1 DEF MapperInv, TargetInv, Same, TreeGrows
        <2>3. pc[d] \in Visiting => Serves(cur[d], page[d], level[d])'
            BY <1>1, ServesStays DEF MapperInv, Same, Serves
        <2> QED
            BY <1>1, <1>2, <1>3, <1>5, <2>1, <2>2, <2>3 DEF MapperInv, Same
    <1> QED
        BY <1>2, <1>3, <1>4, <1>5

\* The shape of an invariance proof: a step of CPU c.
LEMMA StepKeeps ==
    ASSUME EptInv, NEW c \in CPU, TreeGrows, TreeType', Shape', TreeInv',
           CPUType(c)', MapperInv(c)', GuestInv(c)',
           \A d \in CPU \ {c} : Same(d),
           \/ entry' = entry /\ holder' = holder
           \/ \A d \in CPU \ {c} : pc[d] \notin Mapping
    PROVE  EptInv'
    <1>1. ASSUME NEW d \in CPU \ {c}
          PROVE  CPUType(d)' /\ MapperInv(d)' /\ GuestInv(d)'
        BY OthersKeep
    <1>2. ASSUME NEW d \in CPU
          PROVE  CPUType(d)' /\ MapperInv(d)' /\ GuestInv(d)'
        BY <1>1
    <1>3. TypeOK'
        BY <1>2 DEF TypeOK, TreeType, Shape, CPUType
    <1> QED
        BY <1>2, <1>3 DEF EptInv

\* One CPU maps at a time.
LEMMA OneMapper ==
    ASSUME EptInv, NEW c \in CPU, holder \in {c, NoCPU}
    PROVE  \A d \in CPU \ {c} : pc[d] \notin Mapping
    BY CPUAssumption DEF EptInv, MapperInv

LEMMA TreeKept ==
    ASSUME EptInv, UNCHANGED tree
    PROVE  TreeInv' /\ TreeGrows
    BY DEF EptInv, TreeInv, TreeShape, NoMisconfiguration, TreeGrows, Agree, tree

-----------------------------------------------------------------------------
(* Steps that leave the tree alone                                         *)

LEMMA IssueKeeps ==
    ASSUME EptInv, NEW c \in CPU, NEW p \in Page, NEW k \in Access, Issue(c, p, k)
    PROVE  EptInv'
    <1> USE DEF Issue, Goto, walk
    <1>1. TreeInv' /\ TreeGrows
        BY TreeKept
    <1>2. TreeType' /\ Shape'
        BY TypeParts DEF EptInv, TreeType, Shape, tree
    <1>3. CPUType(c)'
        BY DEF EptInv, TypeOK, CPUType, Labels
    <1>4. MapperInv(c)' /\ GuestInv(c)'
        BY DEF EptInv, TypeOK, MapperInv, GuestInv, Mapping, Visiting, Storing
    <1>5. \A d \in CPU \ {c} : Same(d)
        BY DEF EptInv, TypeOK, Same
    <1> QED
        BY <1>1, <1>2, <1>3, <1>4, <1>5, StepKeeps DEF tree

LEMMA HitKeeps ==
    ASSUME EptInv, NEW c \in CPU, Hit(c)
    PROVE  EptInv'
    <1> USE DEF Hit, Goto, walk
    <1>1. TreeInv' /\ TreeGrows
        BY TreeKept
    <1>2. TreeType' /\ Shape'
        BY TypeParts DEF EptInv, TreeType, Shape, tree
    <1>3. PICK m \in Cached(c) : touched' = [touched EXCEPT ![c] = m.frame]
        OBVIOUS
    <1>4. m \in tlb[c] /\ m.page = page[c] /\ m.frame = m.page /\ page[c] \in Page
        BY <1>3 DEF Cached, EptInv, GuestInv
    <1>5. CPUType(c)'
        BY <1>3, <1>4 DEF EptInv, TypeOK, CPUType, Labels
    <1>6. MapperInv(c)' /\ GuestInv(c)'
        BY <1>3, <1>4 DEF EptInv, TypeOK, MapperInv, GuestInv, Mapping, Visiting, Storing
    <1>7. \A d \in CPU \ {c} : Same(d)
        BY <1>3 DEF EptInv, TypeOK, Same
    <1> QED
        BY <1>1, <1>2, <1>5, <1>6, <1>7, StepKeeps DEF tree

LEMMA ViolationKeeps ==
    ASSUME EptInv, NEW c \in CPU, pc[c] \in {"access", "walk"}, Violation(c)
    PROVE  EptInv'
    <1> USE DEF Violation, Goto, guest, walk
    <1>1. TreeInv' /\ TreeGrows
        BY TreeKept
    <1>2. TreeType' /\ Shape'
        BY TypeParts DEF EptInv, TreeType, Shape, tree
    <1>3. CPUType(c)'
        BY DEF EptInv, TypeOK, CPUType, Labels
    <1>4. MapperInv(c)' /\ GuestInv(c)'
        BY DEF EptInv, TypeOK, MapperInv, GuestInv, Mapping, Visiting, Storing
    <1>5. \A d \in CPU \ {c} : Same(d)
        BY DEF EptInv, TypeOK, Same
    <1> QED
        BY <1>1, <1>2, <1>3, <1>4, <1>5, StepKeeps DEF tree

LEMMA StartWalkKeeps ==
    ASSUME EptInv, NEW c \in CPU, StartWalk(c)
    PROVE  EptInv'
    <1> USE DEF StartWalk, Goto, guest
    <1>1. TreeInv' /\ TreeGrows
        BY TreeKept
    <1>2. TreeType' /\ Shape'
        BY TypeParts DEF EptInv, TreeType, Shape, tree
    <1>3. CPUType(c)'
        BY TableAssumption, LevelsAssumption DEF EptInv, TypeOK, CPUType, Labels
    <1>4. Serves(Root, page[c], Levels)'
        BY <1>1, LevelsAssumption DEF TreeInv, Serves, Agree
    <1>5. MapperInv(c)' /\ GuestInv(c)'
        BY <1>4 DEF EptInv, TypeOK, MapperInv, GuestInv, Mapping, Visiting, Storing
    <1>6. \A d \in CPU \ {c} : Same(d)
        BY DEF EptInv, TypeOK, Same
    <1> QED
        BY <1>1, <1>2, <1>3, <1>5, <1>6, StepKeeps DEF tree

LEMMA WalkDownKeeps ==
    ASSUME EptInv, NEW c \in CPU, WalkDown(c)
    PROVE  EptInv'
    <1> USE DEF WalkDown, guest
    <1>1. TreeInv' /\ TreeGrows
        BY TreeKept
    <1>2. TreeType' /\ Shape'
        BY TypeParts DEF EptInv, TreeType, Shape, tree
    <1>3. Serves(Entry(c).frame, page[c], level[c] - 1)
        BY NextTable DEF EptInv, GuestInv
    <1>5. CPUType(c)'
        BY <1>3, LevelsAssumption DEF EptInv, TypeOK, CPUType, Labels, Serves
    <1>6. MapperInv(c)' /\ GuestInv(c)'
        BY <1>3 DEF EptInv, TypeOK, MapperInv, GuestInv, Mapping, Visiting, Storing,
                    Serves, Agree, tree
    <1>7. \A d \in CPU \ {c} : Same(d)
        BY DEF EptInv, TypeOK, Same
    <1> QED
        BY <1>1, <1>2, <1>5, <1>6, <1>7, StepKeeps DEF tree

LEMMA WalkEndKeeps ==
    ASSUME EptInv, NEW c \in CPU, WalkEnd(c)
    PROVE  EptInv'
    <1> USE DEF WalkEnd, Goto, walk
    <1>1. TreeInv' /\ TreeGrows
        BY TreeKept
    <1>2. TreeType' /\ Shape'
        BY TypeParts DEF EptInv, TreeType, Shape, tree
    <1>3. page[c] \in Page /\ Entry(c) \in EntryType
        BY EntryTyped DEF EptInv, GuestInv
    <1>4. "r" \in Entry(c).access
        BY <1>3, EntryTyped DEF EptInv, TreeInv, NoMisconfiguration, GuestInv, Serves, Entry
    <1>5. Entry(c).frame = page[c]
        BY <1>3, <1>4, LeafPage DEF EptInv, GuestInv
    <1> DEFINE new == [page |-> page[c], frame |-> page[c],
                       access |-> allowed[c] \cap Entry(c).access]
    <1>6. PICK keep \in SUBSET (tlb[c] \ Cached(c)) :
              tlb' = [tlb EXCEPT ![c] = keep \cup {new}]
        BY <1>5
    <1>7. new \in Translation
        BY <1>3 DEF EptInv, TypeOK, Translation, EntryType
    <1>8. CPUType(c)'
        <2>1. tlb'[c] \subseteq Translation
            BY <1>6, <1>7 DEF EptInv, TypeOK
        <2>2. touched'[c] = page[c]
            BY <1>5 DEF EptInv, TypeOK
        <2> QED
            BY <1>3, <2>1, <2>2 DEF EptInv, TypeOK, CPUType, Labels
    <1>9. MapperInv(c)' /\ GuestInv(c)'
        BY <1>3, <1>5, <1>6 DEF EptInv, TypeOK, MapperInv, GuestInv, Mapping, Visiting, Storing
    <1>10. \A d \in CPU \ {c} : Same(d)
        BY <1>6 DEF EptInv, TypeOK, Same
    <1> QED
        BY <1>1, <1>2, <1>8, <1>9, <1>10, StepKeeps DEF tree

LEMMA LockKeeps ==
    ASSUME EptInv, NEW c \in CPU, Lock(c)
    PROVE  EptInv'
    <1> USE DEF Lock, Goto, guest
    <1>1. TreeInv' /\ TreeGrows
        BY TreeKept
    <1>2. TreeType' /\ Shape'
        BY TypeParts DEF EptInv, TreeType, Shape, tree
    <1>3. CPUType(c)'
        BY TableAssumption, LevelsAssumption DEF EptInv, TypeOK, CPUType, Labels
    <1>4. Serves(Root, page[c], Levels)'
        BY <1>1, LevelsAssumption DEF TreeInv, Serves, Agree
    <1>5. MapperInv(c)' /\ GuestInv(c)'
        BY <1>4, LevelsAssumption
        DEF EptInv, TypeOK, MapperInv, GuestInv, Mapping, Visiting, Storing
    <1>6. \A d \in CPU \ {c} : Same(d)
        BY DEF EptInv, TypeOK, Same
    <1>7. \A d \in CPU \ {c} : pc[d] \notin Mapping
        BY OneMapper
    <1> QED
        BY <1>1, <1>2, <1>3, <1>5, <1>6, <1>7, StepKeeps DEF tree

\* ept_map() arrives in a table that serves its page.
LEMMA DescendKeeps ==
    ASSUME EptInv, NEW c \in CPU, NEW t, Descend(c, t), level[c] > 1,
           pc[c] \in {"visit", "x"}, holder' = holder,
           used' = used, home' = home, UNCHANGED <<guest, tlb>>,
           Serves(t, page[c], level[c] - 1), TreeInv'
    PROVE  MapperInv(c)' /\ GuestInv(c)'
    <1> USE DEF Descend, Goto, guest
    <1>1. holder = c /\ page[c] \in Page /\ level[c] \in 1 .. Levels
        BY DEF EptInv, TypeOK, MapperInv, GuestInv, Mapping
    <1>2. Serves(cur[c], page[c], level[c])'
        BY <1>1 DEF EptInv, TypeOK, Serves, Agree
    <1>3. CASE level[c] = 2
        BY <1>1, <1>2, <1>3
        DEF EptInv, TypeOK, MapperInv, TargetInv, GuestInv, Mapping, Visiting, Storing
    <1>4. CASE level[c] # 2
        <2>1. pc'[c] = "visit" /\ level'[c] = level[c] - 1 /\ level[c] - 1 > 1
            BY <1>1, <1>4 DEF EptInv, TypeOK
        <2>2. MapperInv(c)'
            BY <1>1, <1>2, <2>1 DEF MapperInv, Storing
        <2>3. GuestInv(c)'
            BY <1>1, <2>1 DEF EptInv, GuestInv
        <2> QED
            BY <2>2, <2>3
    <1> QED
        BY <1>3, <1>4

LEMMA FollowKeeps ==
    ASSUME EptInv, NEW c \in CPU, Follow(c)
    PROVE  EptInv'
    <1> USE DEF Follow
    <1>1. TreeInv' /\ TreeGrows
        BY TreeKept
    <1>2. TreeType' /\ Shape'
        BY TypeParts DEF EptInv, TreeType, Shape, tree, Descend, Goto, guest
    <1>3. Serves(Entry(c).frame, page[c], level[c] - 1) /\ page[c] \in Page /\ level[c] > 1
        BY NextTable DEF EptInv, MapperInv, GuestInv, Visiting
    <1>4. MapperInv(c)' /\ GuestInv(c)'
        BY <1>1, <1>3, DescendKeeps DEF tree
    <1>5. CPUType(c)'
        BY <1>3, LevelsAssumption
        DEF EptInv, TypeOK, CPUType, Labels, Serves, Descend, Goto, guest
    <1>6. \A d \in CPU \ {c} : Same(d)
        BY DEF EptInv, TypeOK, Same, Descend, Goto, guest
    <1> QED
        BY <1>1, <1>2, <1>4, <1>5, <1>6, StepKeeps DEF tree

LEMMA InveptKeeps ==
    ASSUME EptInv, NEW c \in CPU, Invept(c)
    PROVE  EptInv'
    <1> USE DEF Invept, Goto, guest, walk
    <1>1. TreeInv' /\ TreeGrows
        BY TreeKept
    <1>2. TreeType' /\ Shape'
        BY TypeParts DEF EptInv, TreeType, Shape, tree
    <1>3. CPUType(c)'
        BY DEF EptInv, TypeOK, CPUType, Labels
    <1>4. MapperInv(c)' /\ GuestInv(c)'
        BY DEF EptInv, TypeOK, MapperInv, GuestInv, Mapping, Visiting, Storing
    <1>5. \A d \in CPU \ {c} : Same(d)
        BY DEF EptInv, TypeOK, Same
    <1> QED
        BY <1>1, <1>2, <1>3, <1>4, <1>5, StepKeeps DEF tree

LEMMA UnlockKeeps ==
    ASSUME EptInv, NEW c \in CPU, Unlock(c)
    PROVE  EptInv'
    <1> USE DEF Unlock, Goto, guest, walk
    <1>1. TreeInv' /\ TreeGrows
        BY TreeKept
    <1>2. TreeType' /\ Shape'
        BY TypeParts DEF EptInv, TreeType, Shape, tree
    <1>3. CPUType(c)'
        BY DEF EptInv, TypeOK, CPUType, Labels
    <1>4. MapperInv(c)' /\ GuestInv(c)'
        BY DEF EptInv, TypeOK, MapperInv, GuestInv, Mapping, Visiting, Storing
    <1>5. \A d \in CPU \ {c} : Same(d)
        BY DEF EptInv, TypeOK, Same
    <1>6. \A d \in CPU \ {c} : pc[d] \notin Mapping
        BY OneMapper DEF EptInv, MapperInv, Mapping
    <1> QED
        BY <1>1, <1>2, <1>3, <1>4, <1>5, <1>6, StepKeeps DEF tree

-----------------------------------------------------------------------------
(* Steps that change the tree                                              *)

LEMMA AllocateKeeps ==
    ASSUME EptInv, NEW c \in CPU, NEW t \in Table, Allocate(c, t)
    PROVE  EptInv'
    <1> USE DEF Allocate, Goto, guest
    <1>1. /\ page[c] \in Page /\ holder = c /\ level[c] > 1 /\ level[c] \in 1 .. Levels
          /\ Serves(cur[c], page[c], level[c]) /\ cur[c] \in used /\ cur[c] # t
        BY DEF EptInv, TypeOK, MapperInv, GuestInv, Mapping, Visiting, Serves
    <1>2. Empty \in EntryType
        BY DEF Empty, EntryType
    <1>3. TreeType' /\ Shape'
        <2>1. entry' \in [Table -> [Index -> EntryType]]
            BY <1>2 DEF EptInv, TypeOK
        <2>2. home' \in [Table -> [level : 1 .. Levels, page : Page \cup {NoPage}]]
            BY <1>1, LevelsAssumption DEF EptInv, TypeOK
        <2> QED
            BY <2>1, <2>2, TypeParts DEF EptInv, TreeType, Shape
    <1>4. TreeGrows
        BY DEF EptInv, TypeOK, TreeGrows
    <1>5. \A u \in used : u # t /\ entry'[u] = entry[u] /\ home'[u] = home[u]
        BY DEF EptInv, TypeOK
    <1>6. \A i \in Index : entry'[t][i].access = {}
        BY DEF EptInv, TypeOK, Empty
    <1>7. TreeInv'
        <2>1. (Root \in used /\ home[Root].level = Levels)'
            BY <1>5 DEF EptInv, TreeInv
        <2>2. TreeShape'
            <3> SUFFICES ASSUME NEW u \in used', NEW i \in Index, "r" \in entry'[u][i].access
                         PROVE  LET l == home'[u].level
                                    f == entry'[u][i].frame
                                IN  IF l = 1
                                    THEN f \in Page /\ f[1] = i /\ Agree(f, home'[u].page, 1)
                                    ELSE /\ f \in used' /\ home'[f].level = l - 1
                                         /\ home'[f].page[l] = i
                                         /\ Agree(home'[f].page, home'[u].page, l)
                BY DEF TreeShape, Agree
            <3>1. u \in used
                BY <1>6
            <3>2. entry'[u] = entry[u] /\ home'[u] = home[u] /\ used \subseteq used'
                BY <3>1, <1>5
            <3>3. LET l == home[u].level
                      f == entry[u][i].frame
                  IN  IF l = 1
                      THEN f \in Page /\ f[1] = i /\ Agree(f, home[u].page, 1)
                      ELSE /\ f \in used /\ home[f].level = l - 1
                           /\ home[f].page[l] = i
                           /\ Agree(home[f].page, home[u].page, l)
                BY <3>1, <3>2 DEF EptInv, TreeInv, TreeShape
            <3> HIDE DEF Allocate
            <3>4. CASE home[u].level = 1
                BY <3>2, <3>3, <3>4
            <3>5. CASE home[u].level # 1
                BY <3>2, <3>3, <3>5, <1>5
            <3> QED
                BY <3>4, <3>5
        <2>3. NoMisconfiguration'
            BY <1>5, <1>6 DEF EptInv, TreeInv, NoMisconfiguration
        <2> QED
            BY <2>1, <2>2, <2>3 DEF TreeInv
    <1>8. CPUType(c)'
        BY DEF EptInv, TypeOK, CPUType, Labels
    <1>9. Entry(c)' = Entry(c)
        BY <1>1, <1>5 DEF Entry
    <1>10. Serves(cur[c], page[c], level[c])'
        BY <1>1, <1>5 DEF Serves, Agree
    <1>11. TargetInv(c)'
        BY <1>1 DEF EptInv, TypeOK, TargetInv
    <1>12. MapperInv(c)' /\ GuestInv(c)'
        <2>1. MapperInv(c)'
            BY <1>1, <1>9, <1>10, <1>11 DEF EptInv, TypeOK, MapperInv, Mapping
        <2>2. GuestInv(c)'
            BY <1>1 DEF EptInv, TypeOK, GuestInv
        <2> QED
            BY <2>1, <2>2
    <1>13. \A d \in CPU \ {c} : Same(d)
        BY DEF EptInv, TypeOK, Same
    <1>14. \A d \in CPU \ {c} : pc[d] \notin Mapping
        BY <1>1, OneMapper
    <1> QED
        BY <1>3, <1>4, <1>7, <1>8, <1>12, <1>13, <1>14, StepKeeps

\* A store to the entry that ept_map() works on, of an entry that is right.
LEMMA StoreInTree ==
    ASSUME EptInv, NEW c \in CPU, pc[c] \in Visiting, NEW e \in EntryType,
           Store(c, e), used' = used, home' = home,
           e.access # {} => "r" \in e.access,
           "r" \in e.access =>
               IF level[c] = 1
               THEN e.frame = page[c]
               ELSE /\ e.frame \in used
                    /\ home[e.frame].level = level[c] - 1
                    /\ home[e.frame].page = page[c]
    PROVE  /\ entry' \in [Table -> [Index -> EntryType]]
           /\ TreeInv' /\ TreeGrows
           /\ entry'[cur[c]][page[c][level[c]]] = e
    <1> DEFINE t == cur[c]
               l == level[c]
               i == page[c][l]
    <1>1. /\ page[c] \in Page /\ i \in Index /\ t \in used /\ t \in Table
          /\ home[t].level = l /\ Agree(page[c], home[t].page, l)
        BY EntryTyped DEF EptInv, TypeOK, MapperInv, GuestInv, Visiting, Serves
    <1>2. /\ entry' \in [Table -> [Index -> EntryType]] /\ entry'[t][i] = e
          /\ \A u \in Table, j \in Index : u # t \/ j # i => entry'[u][j] = entry[u][j]
        BY <1>1 DEF Store, EptInv, TypeOK
    <1>3. used \subseteq Table
        BY DEF EptInv, TypeOK
    <1>4. TreeShape'
        <2> SUFFICES ASSUME NEW u \in used, NEW j \in Index, "r" \in entry'[u][j].access
                     PROVE  LET f == entry'[u][j].frame
                            IN  IF home[u].level = 1
                                THEN f \in Page /\ f[1] = j /\ Agree(f, home[u].page, 1)
                                ELSE /\ f \in used /\ home[f].level = home[u].level - 1
                                     /\ home[f].page[home[u].level] = j
                                     /\ Agree(home[f].page, home[u].page, home[u].level)
            BY DEF TreeShape, Agree
        <2>1. CASE u = t /\ j = i
            BY <2>1, <1>1, <1>2
        <2>2. CASE u # t \/ j # i
            <3>1. entry'[u][j] = entry[u][j]
                BY <2>2, <1>2, <1>3
            <3> QED
                BY <3>1 DEF EptInv, TreeInv, TreeShape
        <2> QED
            BY <2>1, <2>2
    <1>5. NoMisconfiguration'
        BY <1>2, <1>3 DEF EptInv, TreeInv, NoMisconfiguration
    <1> QED
        BY <1>2, <1>4, <1>5 DEF EptInv, TreeInv, TreeGrows

\* What holds whenever ept_map() stores to an entry.
LEMMA StoringFacts ==
    ASSUME EptInv, NEW c \in CPU, pc[c] \in Storing \cup {"mem_type"}
    PROVE  /\ holder = c /\ page[c] \in Page /\ Entry(c) \in EntryType
           /\ pc[c] \in Visiting /\ level[c] \in 1 .. Levels
           /\ Serves(cur[c], page[c], level[c])
           /\ Entry(c).access # {} => "r" \in Entry(c).access
           /\ pc[c] \in Storing => TargetInv(c)
           /\ \A d \in CPU \ {c} : pc[d] \notin Mapping
    <1>1. pc[c] \in Visiting /\ pc[c] \in Mapping /\ pc[c] # "run"
        BY DEF Storing, Visiting, Mapping
    <1>2. /\ holder = c /\ page[c] \in Page
          /\ Serves(cur[c], page[c], level[c])
          /\ pc[c] \in Storing => TargetInv(c)
        BY <1>1 DEF EptInv, MapperInv, GuestInv
    <1>3. Entry(c) \in EntryType /\ page[c][level[c]] \in Index
        BY <1>2, EntryTyped DEF EptInv
    <1>4. Entry(c).access # {} => "r" \in Entry(c).access
        BY <1>2, <1>3 DEF EptInv, TreeInv, NoMisconfiguration, Serves, Entry
    <1>5. level[c] \in 1 .. Levels
        BY DEF EptInv, TypeOK
    <1> QED
        BY <1>1, <1>2, <1>3, <1>4, <1>5, OneMapper

\* A store of a field that changes nothing but the tree and the label.
LEMMA FieldKeeps ==
    ASSUME EptInv, NEW c \in CPU, pc[c] \in Storing \cup {"mem_type"},
           NEW e \in EntryType, Store(c, e),
           NEW label \in {"r", "w", "x", "invept"}, Goto(c, label),
           UNCHANGED <<used, home, holder, guest, walk, tlb>>,
           e.access # {} => "r" \in e.access,
           "r" \in e.access =>
               IF level[c] = 1
               THEN e.frame = page[c]
               ELSE /\ e.frame \in used
                    /\ home[e.frame].level = level[c] - 1
                    /\ home[e.frame].page = page[c],
           label \in Storing => pc[c] \in Storing,
           label = "r" /\ level[c] > 1 => "r" \notin e.access,
           label \in {"r", "w", "x"} => e.frame = target[c],
           label \in {"w", "x"} => "r" \in e.access
    PROVE  EptInv'
    <1> USE DEF guest, walk
    <1>1. /\ entry' \in [Table -> [Index -> EntryType]]
          /\ TreeInv' /\ TreeGrows /\ Entry(c)' = e
        BY StoringFacts, StoreInTree DEF Entry
    <1>2. TreeType' /\ Shape'
        BY <1>1, TypeParts DEF EptInv, TreeType, Shape, Goto
    <1>3. CPUType(c)'
        BY DEF EptInv, TypeOK, CPUType, Labels, Goto
    <1>4. pc'[c] = label
        BY DEF EptInv, TypeOK, Goto
    <1>5. GuestInv(c)'
        BY <1>4, StoringFacts DEF EptInv, GuestInv
    <1>6. MapperInv(c)'
        <2>1. Serves(cur[c], page[c], level[c])'
            BY StoringFacts DEF Serves, Agree
        <2>2. pc'[c] \in Storing => TargetInv(c)'
            BY <1>4, StoringFacts DEF TargetInv
        <2> QED
            BY <1>1, <1>4, <2>1, <2>2, StoringFacts DEF MapperInv
    <1>7. \A d \in CPU \ {c} : Same(d)
        BY DEF EptInv, TypeOK, Same, Goto
    <1> QED
        BY <1>1, <1>2, <1>3, <1>5, <1>6, <1>7, StoringFacts, StepKeeps

LEMMA StoreFrameKeeps ==
    ASSUME EptInv, NEW c \in CPU, StoreFrame(c)
    PROVE  EptInv'
    <1> DEFINE e == [Entry(c) EXCEPT !.frame = target[c]]
    <1>1. /\ pc[c] = "frame" /\ pc[c] \in Storing /\ Store(c, e) /\ Goto(c, "r")
          /\ UNCHANGED <<used, home, holder, guest, walk, tlb>>
        BY DEF StoreFrame, Storing
    <1>2. TargetInv(c) /\ (level[c] > 1 => "r" \notin Entry(c).access)
        BY <1>1, StoringFacts DEF EptInv, MapperInv
    <1>3. e \in EntryType /\ e.access = Entry(c).access /\ e.frame = target[c]
        BY <1>1, StoringFacts DEF EntryType, EptInv, TypeOK
    <1> HIDE DEF e
    <1>4. level[c] \in 1 .. Levels /\ (e.access # {} => "r" \in e.access)
        BY <1>1, <1>3, StoringFacts
    <1>5. "r" \in e.access => level[c] = 1 /\ e.frame = page[c]
        BY <1>2, <1>3, <1>4, LevelsAssumption DEF TargetInv
    <1> QED
        BY <1>1, <1>2, <1>3, <1>4, <1>5, FieldKeeps

\* From the second store on, what is stored leaves the frame as it is.
LEMMA StoreReadKeeps ==
    ASSUME EptInv, NEW c \in CPU, StoreRead(c)
    PROVE  EptInv'
    <1> DEFINE e == [Entry(c) EXCEPT !.access = @ \cup {"r"}]
    <1>1. /\ pc[c] = "r" /\ pc[c] \in Storing /\ Store(c, e) /\ Goto(c, "w")
          /\ UNCHANGED <<used, home, holder, guest, walk, tlb>>
        BY DEF StoreRead, Storing
    <1>2. TargetInv(c) /\ Entry(c).frame = target[c]
        BY <1>1, StoringFacts DEF EptInv, MapperInv
    <1>3. e \in EntryType /\ "r" \in e.access /\ e.frame = target[c]
        BY <1>1, <1>2, StoringFacts DEF EntryType, Access
    <1> HIDE DEF e
    <1> QED
        BY <1>1, <1>2, <1>3, FieldKeeps DEF TargetInv

LEMMA StoreWriteKeeps ==
    ASSUME EptInv, NEW c \in CPU, StoreWrite(c)
    PROVE  EptInv'
    <1> DEFINE e == [Entry(c) EXCEPT !.access = @ \cup {"w"}]
    <1>1. /\ pc[c] = "w" /\ pc[c] \in Storing /\ Store(c, e) /\ Goto(c, "x")
          /\ UNCHANGED <<used, home, holder, guest, walk, tlb>>
        BY DEF StoreWrite, Storing
    <1>2. TargetInv(c) /\ Entry(c).frame = target[c] /\ "r" \in Entry(c).access
        BY <1>1, StoringFacts DEF EptInv, MapperInv
    <1>3. e \in EntryType /\ "r" \in e.access /\ e.frame = target[c]
        BY <1>1, <1>2, StoringFacts DEF EntryType, Access
    <1> HIDE DEF e
    <1> QED
        BY <1>1, <1>2, <1>3, FieldKeeps DEF TargetInv

LEMMA StoreTypeKeeps ==
    ASSUME EptInv, NEW c \in CPU, StoreType(c)
    PROVE  EptInv'
    <1> DEFINE e == [Entry(c) EXCEPT !.wb = TRUE]
    <1>1. /\ pc[c] = "mem_type" /\ Store(c, e) /\ Goto(c, "invept")
          /\ UNCHANGED <<used, home, holder, guest, walk, tlb>>
        BY DEF StoreType
    <1>2. e \in EntryType /\ e.access = Entry(c).access /\ e.frame = Entry(c).frame
        BY <1>1, StoringFacts DEF EntryType
    <1> HIDE DEF e
    <1>3. "r" \in e.access => Entry(c).frame = page[c] /\ level[c] = 1
        BY <1>1, <1>2, StoringFacts, LeafPage DEF EptInv, MapperInv
    <1> QED
        BY <1>1, <1>2, <1>3, StoringFacts, FieldKeeps DEF Storing

LEMMA StoreExecuteKeeps ==
    ASSUME EptInv, NEW c \in CPU, StoreExecute(c)
    PROVE  EptInv'
    <1> USE DEF guest
    <1> DEFINE e == [Entry(c) EXCEPT !.access = @ \cup {"x"}]
    <1>1. /\ pc[c] = "x" /\ pc[c] \in Storing /\ Store(c, e)
          /\ UNCHANGED <<used, home, holder, guest, allowed, tlb>>
        BY DEF StoreExecute, Storing
    <1>2. TargetInv(c) /\ Entry(c).frame = target[c] /\ "r" \in Entry(c).access
        BY <1>1, StoringFacts DEF EptInv, MapperInv
    <1>3. e \in EntryType /\ "r" \in e.access /\ e.frame = target[c]
        BY <1>1, <1>2, StoringFacts DEF EntryType, Access
    <1> HIDE DEF e
    <1>4. /\ entry' \in [Table -> [Index -> EntryType]]
          /\ TreeInv' /\ TreeGrows
        BY <1>1, <1>2, <1>3, StoringFacts, StoreInTree DEF TargetInv
    <1>5. level[c] \in 1 .. Levels /\ page[c] \in Page /\ holder = c
        BY <1>1, StoringFacts
    <1>6. CASE level[c] > 1
        <2>1. Descend(c, target[c])
            BY <1>6 DEF StoreExecute
        <2>2. Serves(target[c], page[c], level[c] - 1)
            BY <1>2, <1>5, <1>6 DEF TargetInv, Serves, Agree
        <2>3. MapperInv(c)' /\ GuestInv(c)'
            BY <1>1, <1>4, <1>6, <2>1, <2>2, DescendKeeps
        <2>4. CPUType(c)'
            BY <1>1, <1>5, <1>6, <2>1, <2>2
            DEF EptInv, TypeOK, CPUType, Labels, Descend, Goto, Serves
        <2>5. TreeType' /\ Shape'
            BY <1>1, <1>4, <2>1, TypeParts DEF EptInv, TreeType, Shape, Descend, Goto
        <2>6. \A d \in CPU \ {c} : Same(d)
            BY <1>1, <2>1 DEF EptInv, TypeOK, Same, Descend, Goto
        <2> QED
            BY <1>1, <1>4, <2>3, <2>4, <2>5, <2>6, StoringFacts, StepKeeps
    <1>7. CASE level[c] = 1
        <2>1. Goto(c, "mem_type") /\ UNCHANGED <<level, cur, target>>
            BY <1>7 DEF StoreExecute
        <2>2. pc'[c] = "mem_type" /\ Serves(cur[c], page[c], level[c])'
            BY <1>1, <2>1, StoringFacts DEF EptInv, TypeOK, Goto, Serves, Agree
        <2>3. MapperInv(c)'
            BY <1>1, <1>5, <1>7, <2>1, <2>2 DEF MapperInv, Storing
        <2>4. GuestInv(c)'
            BY <1>1, <1>5, <2>2 DEF EptInv, GuestInv
        <2>5. CPUType(c)'
            BY <1>1, <2>1 DEF EptInv, TypeOK, CPUType, Labels, Goto
        <2>6. TreeType' /\ Shape'
            BY <1>1, <1>4, <2>1, TypeParts DEF EptInv, TreeType, Shape, Goto
        <2>7. \A d \in CPU \ {c} : Same(d)
            BY <1>1, <2>1 DEF EptInv, TypeOK, Same, Goto
        <2> QED
            BY <1>1, <1>4, <2>3, <2>4, <2>5, <2>6, <2>7, StoringFacts, StepKeeps
    <1> QED
        BY <1>5, <1>6, <1>7

-----------------------------------------------------------------------------
(* The theorems                                                            *)

LEMMA EptInit == Init => EptInv
    <1> SUFFICES ASSUME Init PROVE EptInv
        OBVIOUS
    <1> USE LevelsAssumption, TableAssumption DEF Init
    <1>1. TypeOK
        <2>1. Empty \in EntryType /\ Garbage \in EntryType
            BY DEF Empty, Garbage, EntryType
        <2> QED
            BY <2>1 DEF TypeOK, Labels, Access
    <1>2. TreeInv
        BY DEF TreeInv, TreeShape, NoMisconfiguration, Empty
    <1>3. ASSUME NEW c \in CPU PROVE MapperInv(c) /\ GuestInv(c)
        BY DEF MapperInv, GuestInv, Mapping, Visiting, Storing
    <1> QED
        BY <1>1, <1>2, <1>3 DEF EptInv

LEMMA EptStep == EptInv /\ [Next]_vars => EptInv'
    <1> SUFFICES ASSUME EptInv, [Next]_vars PROVE EptInv'
        OBVIOUS
    <1>1. ASSUME NEW c \in CPU, NEW a \in Accesses, Issue(c, a[1], a[2])
          PROVE  EptInv'
        <2>1. a[1] \in Page /\ a[2] \in Access
            BY AccessesAssumption
        <2> QED
            BY <1>1, <2>1, IssueKeeps
    <1>2. ASSUME NEW c \in CPU, Hardware(c) PROVE EptInv'
        BY <1>2, HitKeeps, ViolationKeeps, StartWalkKeeps, WalkDownKeeps, WalkEndKeeps
        DEF Hardware, Deny, WalkFault
    <1>3. ASSUME NEW c \in CPU, Map(c) PROVE EptInv'
        BY <1>3, FollowKeeps, AllocateKeeps, StoreFrameKeeps, StoreReadKeeps,
           StoreWriteKeeps, StoreExecuteKeeps, StoreTypeKeeps, InveptKeeps, UnlockKeeps
        DEF Map
    <1>4. CASE UNCHANGED vars
        <2>1. TreeInv' /\ TreeGrows
            BY <1>4, TreeKept DEF vars
        <2>2. TypeOK'
            BY <1>4 DEF EptInv, TypeOK, vars, tree, walk, guest
        <2>3. ASSUME NEW c \in CPU PROVE MapperInv(c)' /\ GuestInv(c)'
            BY <1>4, <2>1, OthersKeep DEF vars, tree, walk, guest, Same
        <2> QED
            BY <2>1, <2>2, <2>3 DEF EptInv
    <1> QED
        BY <1>1, <1>2, <1>3, <1>4, LockKeeps DEF Next

LEMMA EptInvariant == Spec => []EptInv
    BY EptInit, EptStep, PTL DEF Spec

\* The variables of the tables keep their types, and so do those of the CPUs.
THEOREM TypeCorrect == Spec => []TypeOK
    <1>1. EptInv => TypeOK
        BY DEF EptInv
    <1> QED
        BY <1>1, EptInvariant, PTL

\* Whatever ept_map() is doing on other CPUs, the hardware walker of a CPU
\* meets only tables made for the page that its guest accesses, and every
\* entry that is present leads to the right place.
THEOREM Soundness == Spec => []WalksSound
    <1>1. EptInv => WalksSound
        BY DEF EptInv, TreeInv, GuestInv, WalksSound, WalkerOnPath
    <1> QED
        BY <1>1, EptInvariant, PTL

\* The guest reaches the machine page that it addresses, through the tables
\* and through the TLBs, on any number of CPUs and in any number of levels.
THEOREM FlatMemory == Spec => []Identity
    <1>1. EptInv => Identity
        BY DEF EptInv, GuestInv, Identity
    <1> QED
        BY <1>1, EptInvariant, PTL

\* ept_map() causes no EPT misconfiguration on any CPU, for which
\* exit_handler() has no case.
THEOREM Configuration == Spec => []NoMisconfiguration
    <1>1. EptInv => NoMisconfiguration
        BY DEF EptInv, TreeInv
    <1> QED
        BY <1>1, EptInvariant, PTL

\* What StaysMapped says of a step.
Stays ==
    \A t \in used, i \in Index :
        "r" \in entry[t][i].access =>
            /\ entry'[t][i].frame = entry[t][i].frame
            /\ entry[t][i].access \subseteq entry'[t][i].access

LEMMA StoreStays ==
    ASSUME EptInv, NEW c \in CPU, NEW e, Store(c, e),
           "r" \in Entry(c).access =>
               e.frame = Entry(c).frame /\ Entry(c).access \subseteq e.access
    PROVE  Stays
    <1> SUFFICES ASSUME NEW t \in used, NEW i \in Index, "r" \in entry[t][i].access
                 PROVE  /\ entry'[t][i].frame = entry[t][i].frame
                        /\ entry[t][i].access \subseteq entry'[t][i].access
        BY DEF Stays
    <1>1. t \in Table
        BY DEF EptInv, TypeOK
    <1>2. CASE t = cur[c] /\ i = page[c][level[c]]
        <2>1. entry'[t][i] = e /\ Entry(c) = entry[t][i]
            BY <1>1, <1>2 DEF Store, Entry, EptInv, TypeOK
        <2> QED
            BY <2>1
    <1>3. CASE t # cur[c] \/ i # page[c][level[c]]
        <2>1. entry'[t][i] = entry[t][i]
            BY <1>1, <1>3 DEF Store, EptInv, TypeOK
        <2> QED
            BY <2>1
    <1> QED
        BY <1>2, <1>3

LEMMA StepStays == EptInv /\ [Next]_vars => Stays
    <1> SUFFICES ASSUME EptInv, [Next]_vars PROVE Stays
        OBVIOUS
    <1>1. ASSUME entry' = entry PROVE Stays
        BY <1>1 DEF Stays
    <1>2. ASSUME NEW c \in CPU, NEW t \in Table, Allocate(c, t) PROVE Stays
        BY <1>2 DEF Allocate, Stays, EptInv, TypeOK
    <1>3. ASSUME NEW c \in CPU, StoreFrame(c) PROVE Stays
        <2>1. pc[c] = "frame" /\ pc[c] \in Storing
            BY <1>3 DEF StoreFrame, Storing
        <2>2. Entry(c) \in EntryType /\ level[c] \in 1 .. Levels /\ TargetInv(c)
              /\ page[c] \in Page /\ Serves(cur[c], page[c], level[c])
            BY <2>1, StoringFacts
        <2>3. "r" \in Entry(c).access => level[c] = 1
            BY <2>1, <2>2 DEF EptInv, MapperInv
        <2>4. "r" \in Entry(c).access => Entry(c).frame = target[c]
            BY <2>2, <2>3, LeafPage DEF EptInv, TargetInv
        <2> DEFINE e == [Entry(c) EXCEPT !.frame = target[c]]
        <2>5. Store(c, e) /\ e.frame = target[c] /\ e.access = Entry(c).access
            BY <1>3, <2>2 DEF StoreFrame, EntryType
        <2> QED
            BY <2>4, <2>5, StoreStays
    <1>4. ASSUME NEW c \in CPU,
                 StoreRead(c) \/ StoreWrite(c) \/ StoreExecute(c) \/ StoreType(c)
          PROVE  Stays
        <2>1. pc[c] \in Storing \cup {"mem_type"}
            BY <1>4 DEF StoreRead, StoreWrite, StoreExecute, StoreType, Storing
        <2>2. Entry(c) \in EntryType
            BY <2>1, StoringFacts
        <2>3. ASSUME NEW k, Store(c, [Entry(c) EXCEPT !.access = @ \cup {k}])
              PROVE  Stays
            BY <2>2, <2>3, StoreStays DEF EntryType
        <2>4. ASSUME Store(c, [Entry(c) EXCEPT !.wb = TRUE])
              PROVE  Stays
            BY <2>2, <2>4, StoreStays DEF EntryType
        <2> QED
            BY <1>4, <2>3, <2>4 DEF StoreRead, StoreWrite, StoreExecute, StoreType
    <1> QED
        BY <1>1, <1>2, <1>3, <1>4
        DEF Next, Issue, Hardware, Hit, Deny, StartWalk, WalkDown, WalkEnd, WalkFault,
            Violation, Lock, Map, Follow, Invept, Unlock, tree, vars

\* No store of ept_map(), on any CPU, takes a mapping away or redirects it.
THEOREM Persistence == Spec => StaysMapped
    <1>1. EptInv /\ [Next]_vars => [Stays]_vars
        BY StepStays
    <1> QED
        BY <1>1, EptInvariant, PTL DEF Spec, StaysMapped, Stays

\* The two steps that end an access end it in the page of the access.
LEMMA AccessEnds ==
    ASSUME EptInv, NEW c \in CPU, Hit(c) \/ WalkEnd(c)
    PROVE  /\ pc[c] # "run" /\ pc' = [pc EXCEPT ![c] = "run"] /\ page' = page
           /\ touched' = [touched EXCEPT ![c] = page[c]]
    <1>1. CASE Hit(c)
        <2>1. PICK m \in Cached(c) : touched' = [touched EXCEPT ![c] = m.frame]
            BY <1>1 DEF Hit
        <2>2. m.frame = page[c]
            BY DEF Cached, EptInv, GuestInv
        <2> QED
            BY <1>1, <2>1, <2>2 DEF Hit, Goto
    <1>2. CASE WalkEnd(c)
        <2>1. page[c] \in Page /\ Serves(cur[c], page[c], level[c]) /\ level[c] = 1
            BY <1>2 DEF WalkEnd, EptInv, GuestInv
        <2>2. "r" \in Entry(c).access
            BY <1>2, <2>1, EntryTyped
            DEF WalkEnd, EptInv, TreeInv, NoMisconfiguration, Serves, Entry
        <2>3. Entry(c).frame = page[c]
            BY <2>1, <2>2, LeafPage DEF EptInv
        <2> QED
            BY <1>2, <2>3 DEF WalkEnd, Goto
    <1> QED
        BY <1>1, <1>2

\* A step that neither issues nor ends an access leaves every CPU in the guest
\* or out of it, as it was.
LEMMA AccessGoesOn ==
    ASSUME EptInv, NEW c \in CPU,
           \/ Deny(c) \/ StartWalk(c) \/ WalkDown(c) \/ WalkFault(c)
           \/ Lock(c) \/ Map(c)
    PROVE  /\ page' = page /\ touched' = touched
           /\ \A d \in CPU : pc'[d] # "run" <=> pc[d] # "run"
    <1> USE DEF EptInv, TypeOK, Goto, guest, walk
    <1>1. CASE Deny(c) \/ StartWalk(c) \/ WalkDown(c) \/ WalkFault(c) \/ Lock(c)
        BY <1>1 DEF Deny, StartWalk, WalkDown, WalkFault, Violation, Lock
    <1>2. CASE Follow(c)
        BY <1>2 DEF Follow, Descend
    <1>3. CASE StoreExecute(c)
        BY <1>3 DEF StoreExecute, Descend
    <1>4. CASE \/ \E t \in Table : Allocate(c, t)
               \/ StoreFrame(c) \/ StoreRead(c) \/ StoreWrite(c)
        BY <1>4 DEF Allocate, StoreFrame, StoreRead, StoreWrite
    <1>5. CASE StoreType(c) \/ Invept(c) \/ Unlock(c)
        BY <1>5 DEF StoreType, Invept, Unlock
    <1> QED
        BY <1>1, <1>2, <1>3, <1>4, <1>5 DEF Map

\* Accesses end in their own pages: page tables, TLBs and ept_map() together
\* implement what GuestMemory promises, but for its fairness.
THEOREM Refinement == Spec => Memory!Spec
    <1>1. Init => Memory!Init
        BY DEF Init, Memory!Init
    <1>2. EptInv /\ [Next]_vars => [Memory!Next]_Memory!vars
        <2> SUFFICES ASSUME EptInv, [Next]_vars
                     PROVE  [Memory!Next]_Memory!vars
            OBVIOUS
        <2> USE DEF EptInv, TypeOK
        <2>1. ASSUME NEW c \in CPU, NEW a \in Accesses, Issue(c, a[1], a[2])
              PROVE  Memory!Next
            <3>1. a[1] \in Page
                BY AccessesAssumption
            <3>2. Memory!Issue(c, a[1])
                BY <2>1 DEF Issue, Goto, Memory!Issue
            <3> QED
                BY <3>1, <3>2 DEF Memory!Next
        <2>2. ASSUME NEW c \in CPU, Hit(c) \/ WalkEnd(c)
              PROVE  Memory!Next
            <3>1. Memory!Complete(c)
                BY <2>2, AccessEnds, ZenonT(60) DEF Memory!Complete
            <3> QED
                BY <3>1 DEF Memory!Next
        <2>3. ASSUME NEW c \in CPU,
                     \/ Deny(c) \/ StartWalk(c) \/ WalkDown(c) \/ WalkFault(c)
                     \/ Lock(c) \/ Map(c)
              PROVE  UNCHANGED Memory!vars
            BY <2>3, AccessGoesOn DEF Memory!vars
        <2>4. CASE UNCHANGED vars
            BY <2>4 DEF vars, guest, Memory!vars
        <2> QED
            BY <2>1, <2>2, <2>3, <2>4 DEF Next, Hardware
    <1> QED
        BY <1>1, <1>2, EptInvariant, PTL DEF Spec, Memory!Spec
=============================================================================
