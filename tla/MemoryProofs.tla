---------------------------- MODULE MemoryProofs ----------------------------
(***************************************************************************)
(* Theorems about mm/pmm.c, for any set of CPUs, any requests and any      *)
(* base, about the way from the loader to palloc(), for every machine and  *)
(* every size of pages and tables, and about the page tables that the      *)
(* loader builds and goes on working under.                                *)
(***************************************************************************)
EXTENDS Boot, WellFoundedInduction, TLAPS

-----------------------------------------------------------------------------
(* The allocator                                                           *)

Holding == {"align", "read", "bump", "unlock"}

\* The CPU whose call is between lock() and unlock() is the holder.
LockInv == \A c \in CPU : pc[c] \in Holding <=> holder = c

\* The base is past every block, and where the running call expects it.
BaseInv ==
    /\ virtdbg_end = 0 => granted = <<>> /\ \A c \in CPU : pc[c] = "idle"
    /\ m_base >= virtdbg_end
    /\ \A i \in 1 .. Len(granted) : granted[i].first + granted[i].size <= m_base
    /\ \A c \in CPU :
          /\ pc[c] \in {"read", "bump"} => m_base % req[c].align = 0
          /\ pc[c] = "bump" => res[c] = m_base
          /\ pc[c] \in {"unlock", "clear"} => res[c] % req[c].align = 0

\* Nothing below virtdbg_end is handed out, cleared or filled.
AboveInv ==
    /\ virtdbg_end = 0 => blocks = {}
    /\ \A c \in CPU : pc[c] \in {"bump", "unlock", "clear"} => res[c] >= virtdbg_end
    /\ \A b \in blocks : b.first >= virtdbg_end
    /\ \A a \in Memory : content[a] # Junk => a >= virtdbg_end /\ virtdbg_end # 0

\* Blocks, and the calls whose block is past the base but not returned yet.
Apart(b, d) == b.first + b.size <= d.first \/ d.first + d.size <= b.first
Granting == {c \in CPU : pc[c] \in {"unlock", "clear"}}

\* All of these lie below the base, and no two of them overlap.
ApartInv ==
    /\ \A c \in Granting : res[c] + req[c].size <= m_base
    /\ \A b \in blocks : b.first + b.size <= m_base
    /\ \A c, d \in Granting : c # d => Apart(Block(c), Block(d))
    /\ \A c \in Granting, b \in blocks : Apart(Block(c), b)
    /\ \A b, d \in blocks : b # d => Apart(b, d)

PmmInv == TypeOK /\ LockInv /\ BaseInv /\ AboveInv /\ ApartInv /\ ContentIntact

\* The steps of the allocator, wherever virtdbg_end comes from.
Step == (\E end \in Nat \ {0} : InitPmm(end)) \/ Operate

LEMMA NextIsStep == [Next]_vars => [Step]_vars
    BY AddressAssumption DEF Next, Step

\* Entries of a sequence, the first ones of an extended sequence included.
LEMMA SeqEntries ==
    ASSUME NEW S, NEW s \in Seq(S), NEW i \in 1 .. Len(s)
    PROVE  /\ s[i] \in S
           /\ \A e \in S : Append(s, e)[i] = s[i]
    OBVIOUS

\* ALIGN_UP gives a multiple of the alignment that is not below the number.
LEMMA AlignUpFacts ==
    ASSUME NEW num \in Nat, NEW align \in Nat \ {0}
    PROVE  /\ AlignUp(num, align) \in Nat
           /\ AlignUp(num, align) >= num
           /\ AlignUp(num, align) % align = 0
    <1> DEFINE q == (num + align - 1) \div align
               r == (num + align - 1) % align
    <1>1. /\ q \in Int /\ r \in 0 .. align - 1
          /\ num + align - 1 = align * q + r
        BY SMT
    <1>2. q >= 0
        BY <1>1, SMT
    <1> HIDE DEF q, r
    <1>3. q * align \in Nat /\ q * align >= num
        BY <1>1, <1>2, SMT
    <1>4. (q * align) % align = 0
        BY <1>1, <1>2, SMT
    <1> QED
        BY <1>3, <1>4 DEF AlignUp, q

-----------------------------------------------------------------------------
LEMMA TypeInit == Init => TypeOK
    <1> SUFFICES ASSUME Init PROVE TypeOK
        OBVIOUS
    <1>1. req \in [CPU -> Demand] /\ res \in [CPU -> Nat]
        BY DEF Init, Demand
    <1>2. granted \in Seq([first : Nat, size : Nat \ {0}])
        BY DEF Init
    <1> QED
        BY <1>1, <1>2 DEF Init, TypeOK, Labels

LEMMA TypeStep == TypeOK /\ [Step]_vars => TypeOK'
    <1> SUFFICES ASSUME TypeOK, [Step]_vars PROVE TypeOK'
        OBVIOUS
    <1> USE DEF TypeOK, Labels, Goto
    <1>1. ASSUME NEW c \in CPU, NEW r \in Requests, NEW z \in BOOLEAN, Call(c, r, z)
          PROVE  TypeOK'
        <2>1. r \in Demand
            BY RequestAssumption DEF Demand
        <2> QED
            BY <1>1, <2>1 DEF Call
    <1>2. ASSUME NEW c \in CPU, Lock(c) PROVE TypeOK'
        BY <1>2 DEF Lock
    <1>3. ASSUME NEW c \in CPU, Align(c) PROVE TypeOK'
        <2>1. req[c].align \in Nat \ {0}
            BY DEF Demand
        <2>2. m_base' \in Nat
            BY <1>3, <2>1, AlignUpFacts DEF Align
        <2> QED
            BY <1>3, <2>2 DEF Align
    <1>4. ASSUME NEW c \in CPU, Read(c) PROVE TypeOK'
        BY <1>4 DEF Read
    <1>5. ASSUME NEW c \in CPU, Bump(c) PROVE TypeOK'
        <2>1. req[c].size \in Nat \ {0}
            BY DEF Demand
        <2>2. Block(c) \in [first : Nat, size : Nat \ {0}]
            BY <2>1 DEF Block
        <2>3. granted' \in Seq([first : Nat, size : Nat \ {0}])
            BY <1>5, <2>2 DEF Bump
        <2>4. m_base' \in Nat
            BY <1>5, <2>1 DEF Bump
        <2> QED
            BY <1>5, <2>3, <2>4 DEF Bump
    <1>6. ASSUME NEW c \in CPU, Unlock(c) PROVE TypeOK'
        <2>1. Owned(c, "raw") \in [first : Nat, size : Nat \ {0}, owner : CPU,
                                   state : {"raw", "clear", "filled"}]
            BY DEF Owned, Demand
        <2>2. \A b \in blocks' : b \in blocks \/ b = Owned(c, "raw")
            BY <1>6 DEF Unlock
        <2>3. pc' \in [CPU -> Labels] /\ holder' \in CPU \cup {NoCPU}
            BY <1>6 DEF Unlock
        <2> QED
            BY <1>6, <2>1, <2>2, <2>3 DEF Unlock
    <1>7. ASSUME NEW c \in CPU, Clear(c) PROVE TypeOK'
        <2>1. Owned(c, "clear") \in [first : Nat, size : Nat \ {0}, owner : CPU,
                                     state : {"raw", "clear", "filled"}]
            BY DEF Owned, Demand
        <2>2. content' \in [Memory -> CPU \cup {Zero, Junk}]
            BY <1>7 DEF Clear, Stored
        <2>3. \A b \in blocks' : b \in blocks \/ b = Owned(c, "clear")
            BY <1>7 DEF Clear
        <2>4. pc' \in [CPU -> Labels]
            BY <1>7 DEF Clear
        <2> QED
            BY <1>7, <2>1, <2>2, <2>3, <2>4 DEF Clear
    <1>8. ASSUME NEW b \in blocks, Fill(b) PROVE TypeOK'
        <2>1. content' \in [Memory -> CPU \cup {Zero, Junk}]
            BY <1>8 DEF Fill, Stored
        <2> QED
            BY <1>8, <2>1 DEF Fill
    <1>9. ASSUME NEW end \in Nat \ {0}, InitPmm(end) PROVE TypeOK'
        <2>1. m_base' \in Nat
            BY <1>9, AlignUpFacts, AddressAssumption DEF InitPmm
        <2> QED
            BY <1>9, <2>1 DEF InitPmm
    <1>10. CASE UNCHANGED vars
        BY <1>10 DEF vars
    <1> QED
        BY <1>1, <1>2, <1>3, <1>4, <1>5, <1>6, <1>7, <1>8, <1>9, <1>10 DEF Step, Operate

\* At most one call is between lock() and unlock().
LEMMA LockInit == Init => LockInv
    BY CPUAssumption DEF Init, LockInv, Holding

LEMMA LockStep == TypeOK /\ LockInv /\ [Step]_vars => LockInv'
    BY CPUAssumption
    DEF TypeOK, LockInv, Step, Operate, vars, Goto, Holding, InitPmm, Call, Lock,
        Align, Read, Bump, Unlock, Clear, Fill

-----------------------------------------------------------------------------
LEMMA BumpKeepsBase ==
    ASSUME TypeOK, LockInv, BaseInv, NEW c \in CPU, Bump(c)
    PROVE  BaseInv'
    <1>1. req[c].size \in Nat \ {0} /\ m_base \in Nat /\ virtdbg_end \in Nat
        BY AddressAssumption DEF TypeOK, Demand
    <1>2. /\ pc[c] = "bump" /\ res[c] = m_base /\ m_base % req[c].align = 0
          /\ pc' = [pc EXCEPT ![c] = "unlock"]
          /\ m_base' = m_base + req[c].size
          /\ granted' = Append(granted, Block(c)) /\ req' = req /\ res' = res
        BY DEF Bump, BaseInv, Goto
    <1>0. virtdbg_end' = virtdbg_end /\ virtdbg_end # 0
        BY DEF Bump, BaseInv
    <1>3. m_base' >= virtdbg_end'
        BY <1>0, <1>1, <1>2 DEF BaseInv
    <1>6. granted \in Seq([first : Nat, size : Nat \ {0}])
        BY DEF TypeOK
    <1>4. ASSUME NEW i \in 1 .. Len(granted')
          PROVE  granted'[i].first + granted'[i].size <= m_base'
        <2>1. CASE i \in 1 .. Len(granted)
            <3>1. granted'[i] = granted[i] /\ granted[i] \in [first : Nat, size : Nat \ {0}]
                <4>1. Block(c) \in [first : Nat, size : Nat \ {0}]
                    BY <1>1, <1>2 DEF Block
                <4> DEFINE S == [first : Nat, size : Nat \ {0}]
                <4>2. Block(c) \in S /\ granted \in Seq(S)
                    BY <4>1, <1>6
                <4> HIDE DEF S
                <4>3. granted'[i] = granted[i] /\ granted[i] \in S
                    BY <2>1, <4>2, <1>2, SeqEntries
                <4> QED
                    BY <4>3 DEF S
            <3>2. granted[i].first + granted[i].size <= m_base
                BY <2>1 DEF BaseInv
            <3> QED
                BY <3>1, <3>2, <1>1, <1>2
        <2>2. CASE i = Len(granted) + 1
            <3>1. granted'[i] = Block(c)
                BY <2>2, <1>2 DEF TypeOK
            <3> QED
                BY <3>1, <1>1, <1>2 DEF Block
        <2> QED
            BY <2>1, <2>2, <1>2 DEF TypeOK
    <1>5. ASSUME NEW d \in CPU
          PROVE  /\ pc'[d] \in {"read", "bump"} => m_base' % req'[d].align = 0
                 /\ pc'[d] = "bump" => res'[d] = m_base'
                 /\ pc'[d] \in {"unlock", "clear"} => res'[d] % req'[d].align = 0
        <2>1. CASE d = c
            BY <2>1, <1>2 DEF TypeOK
        <2>2. CASE d # c
            <3>1. pc'[d] = pc[d] /\ pc[d] \notin Holding
                BY <2>2, <1>2 DEF TypeOK, LockInv, Holding
            <3> QED
                BY <3>1, <1>2 DEF BaseInv, Holding
        <2> QED
            BY <2>1, <2>2
    <1> QED
        BY <1>0, <1>3, <1>4, <1>5 DEF BaseInv

LEMMA AlignKeepsBase ==
    ASSUME TypeOK, LockInv, BaseInv, NEW c \in CPU, Align(c)
    PROVE  BaseInv'
    <1>1. req[c].align \in Nat \ {0} /\ m_base \in Nat /\ virtdbg_end \in Nat
        BY AddressAssumption DEF TypeOK, Demand
    <1>2. m_base' \in Nat /\ m_base' >= m_base /\ m_base' % req[c].align = 0
        BY <1>1, AlignUpFacts DEF Align
    <1>3. ASSUME NEW i \in 1 .. Len(granted)
          PROVE  granted[i].first + granted[i].size <= m_base'
        <2>0. granted \in Seq([first : Nat, size : Nat \ {0}])
            BY DEF TypeOK
        <2>1. granted[i] \in [first : Nat, size : Nat \ {0}]
            BY <2>0, SeqEntries
        <2>2. granted[i].first + granted[i].size <= m_base
            BY DEF BaseInv
        <2> QED
            BY <2>1, <2>2, <1>1, <1>2
    <1>4. ASSUME NEW d \in CPU, d # c
          PROVE  pc'[d] = pc[d] /\ pc[d] \notin {"read", "bump"}
        BY <1>4 DEF TypeOK, LockInv, Holding, Align, Goto
    <1>5. pc'[c] = "read"
        BY DEF TypeOK, Align, Goto
    <1>6. UNCHANGED <<granted, req, res>>
        BY DEF Align
    <1>0. virtdbg_end' = virtdbg_end /\ virtdbg_end # 0
        BY DEF Align, BaseInv
    <1>7. m_base' >= virtdbg_end'
        BY <1>0, <1>1, <1>2 DEF BaseInv
    <1> QED
        BY <1>0, <1>2, <1>3, <1>4, <1>5, <1>6, <1>7 DEF BaseInv

\* The base lies past all that was handed out.
LEMMA BaseInit == Init => BaseInv
    BY DEF Init, BaseInv

LEMMA BaseStep == TypeOK /\ LockInv /\ BaseInv /\ [Step]_vars => BaseInv'
    <1> SUFFICES ASSUME TypeOK, LockInv, BaseInv, [Step]_vars PROVE BaseInv'
        OBVIOUS
    <1>1. ASSUME NEW c \in CPU, NEW r \in Requests, NEW z \in BOOLEAN, Call(c, r, z)
          PROVE  BaseInv'
        BY <1>1 DEF Call, Goto, BaseInv, TypeOK
    <1>2. ASSUME NEW c \in CPU, Lock(c) PROVE BaseInv'
        BY <1>2 DEF Lock, Goto, BaseInv, TypeOK
    <1>3. ASSUME NEW c \in CPU, Align(c) PROVE BaseInv'
        BY <1>3, AlignKeepsBase
    <1>4. ASSUME NEW c \in CPU, Read(c) PROVE BaseInv'
        BY <1>4 DEF Read, Goto, BaseInv, TypeOK
    <1>5. ASSUME NEW c \in CPU, Bump(c) PROVE BaseInv'
        BY <1>5, BumpKeepsBase
    <1>6. ASSUME NEW c \in CPU, Unlock(c) PROVE BaseInv'
        BY <1>6 DEF Unlock, Goto, BaseInv, TypeOK
    <1>7. ASSUME NEW c \in CPU, Clear(c) PROVE BaseInv'
        BY <1>7 DEF Clear, Goto, BaseInv, TypeOK
    <1>8. ASSUME NEW b \in blocks, Fill(b) PROVE BaseInv'
        BY <1>8 DEF Fill, BaseInv
    <1>9. ASSUME NEW end \in Nat \ {0}, InitPmm(end) PROVE BaseInv'
        <2>1. m_base' >= virtdbg_end'
            <3>1. AlignUp(end, PageSize) >= end
                BY AlignUpFacts, AddressAssumption
            <3> QED
                BY <1>9, <3>1 DEF InitPmm
        <2>2. granted' = <<>> /\ \A c \in CPU : pc'[c] = "idle"
            BY <1>9 DEF InitPmm, BaseInv
        <2> QED
            BY <2>1, <2>2 DEF BaseInv
    <1>10. CASE UNCHANGED vars
        BY <1>10 DEF vars, BaseInv
    <1> QED
        BY <1>1, <1>2, <1>3, <1>4, <1>5, <1>6, <1>7, <1>8, <1>9, <1>10 DEF Step, Operate

\* What lies below virtdbg_end stays as the loader left it.
LEMMA AboveInit == Init => AboveInv
    BY DEF Init, AboveInv

LEMMA AboveStep == TypeOK /\ BaseInv /\ AboveInv /\ [Step]_vars => AboveInv'
    <1> SUFFICES ASSUME TypeOK, BaseInv, AboveInv, [Step]_vars PROVE AboveInv'
        OBVIOUS
    <1>0. virtdbg_end \in Nat /\ Memory \subseteq Nat
        BY AddressAssumption DEF TypeOK
    <1>1. ASSUME NEW c \in CPU, NEW r \in Requests, NEW z \in BOOLEAN, Call(c, r, z)
          PROVE  AboveInv'
        BY <1>1 DEF Call, Goto, AboveInv, TypeOK
    <1>2. ASSUME NEW c \in CPU, Lock(c) PROVE AboveInv'
        BY <1>2 DEF Lock, Goto, AboveInv, TypeOK
    <1>3. ASSUME NEW c \in CPU, Align(c) PROVE AboveInv'
        BY <1>3 DEF Align, Goto, AboveInv, TypeOK
    <1>4. ASSUME NEW c \in CPU, Read(c) PROVE AboveInv'
        BY <1>4 DEF Read, Goto, AboveInv, TypeOK, BaseInv
    <1>5. ASSUME NEW c \in CPU, Bump(c) PROVE AboveInv'
        BY <1>5 DEF Bump, Goto, AboveInv, TypeOK
    <1>6. ASSUME NEW c \in CPU, Unlock(c) PROVE AboveInv'
        <2>1. pc[c] = "unlock" /\ virtdbg_end # 0 /\ virtdbg_end' = virtdbg_end
            BY <1>6 DEF Unlock, BaseInv
        <2>2. \A b \in blocks' : b \in blocks \/ b.first = res[c]
            BY <1>6 DEF Unlock, Owned
        <2>3. \A d \in CPU : pc'[d] \in {"bump", "unlock", "clear"}
                                 => pc[d] \in {"bump", "unlock", "clear"}
            BY <1>6, <2>1 DEF Unlock, Goto, TypeOK
        <2> QED
            BY <1>6, <2>1, <2>2, <2>3 DEF Unlock, AboveInv
    <1>7. ASSUME NEW c \in CPU, Clear(c) PROVE AboveInv'
        <2>1. pc[c] = "clear" /\ virtdbg_end # 0 /\ virtdbg_end' = virtdbg_end
            BY <1>7 DEF Clear, BaseInv
        <2>2. \A b \in blocks' : b \in blocks \/ b.first = res[c]
            BY <1>7 DEF Clear, Owned
        <2>3. \A d \in CPU : pc'[d] \in {"bump", "unlock", "clear"}
                                 => pc[d] \in {"bump", "unlock", "clear"}
            BY <1>7 DEF Clear, Goto, TypeOK
        <2>4. res[c] \in Nat /\ res[c] >= virtdbg_end /\ req[c].size \in Nat
            BY <2>1 DEF TypeOK, AboveInv, Demand
        <2>5. ASSUME NEW a \in Memory, content'[a] # Junk PROVE a >= virtdbg_end
            <3>1. a \in Bytes(Block(c)) \/ content'[a] = content[a]
                BY <1>7 DEF Clear, Stored
            <3>2. a \in Bytes(Block(c)) => a >= res[c]
                BY <2>4, <1>0 DEF Bytes, Block
            <3> QED
                BY <3>1, <3>2, <2>4, <2>5, <1>0 DEF AboveInv
        <2> QED
            BY <1>7, <2>1, <2>2, <2>3, <2>5 DEF Clear, AboveInv
    <1>8. ASSUME NEW b \in blocks, Fill(b) PROVE AboveInv'
        <2>1. virtdbg_end # 0 /\ virtdbg_end' = virtdbg_end /\ UNCHANGED <<pc, res>>
            BY <1>8 DEF Fill, AboveInv
        <2>2. b.first \in Nat /\ b.size \in Nat /\ b.first >= virtdbg_end
            BY DEF TypeOK, AboveInv
        <2>3. \A d \in blocks' : d \in blocks \/ d.first = b.first
            <3>1. [b EXCEPT !.state = "filled"].first = b.first
                BY DEF TypeOK
            <3> QED
                BY <1>8, <3>1 DEF Fill
        <2>4. ASSUME NEW a \in Memory, content'[a] # Junk PROVE a >= virtdbg_end
            <3>1. a \in Bytes(b) \/ content'[a] = content[a]
                BY <1>8 DEF Fill, Stored
            <3>2. a \in Bytes(b) => a >= b.first
                BY <2>2, <1>0 DEF Bytes
            <3> QED
                BY <3>1, <3>2, <2>2, <2>4, <1>0 DEF AboveInv
        <2> QED
            BY <2>1, <2>2, <2>3, <2>4 DEF AboveInv
    <1>9. ASSUME NEW end \in Nat \ {0}, InitPmm(end) PROVE AboveInv'
        BY <1>9 DEF InitPmm, AboveInv, BaseInv
    <1>10. CASE UNCHANGED vars
        BY <1>10 DEF vars, AboveInv
    <1> QED
        BY <1>1, <1>2, <1>3, <1>4, <1>5, <1>6, <1>7, <1>8, <1>9, <1>10
        DEF Step, Operate

-----------------------------------------------------------------------------
\* Blocks stay apart, and what was granted stays below the base.
LEMMA ApartInit == Init => ApartInv
    BY DEF Init, ApartInv, Granting

\* A call gives its block to the caller.
LEMMA ReturnKeepsApart ==
    ASSUME TypeOK, ApartInv, NEW c \in Granting, NEW state,
           UNCHANGED <<m_base, req, res>>,
           \A d \in CPU \ {c} : pc'[d] = pc[d],
           \/ blocks' = blocks /\ pc'[c] = "clear"
           \/ blocks' = blocks \cup {Owned(c, state)} /\ pc'[c] = "idle"
    PROVE  ApartInv'
    <1> DEFINE new == Owned(c, state)
    <1>1. c \in CPU /\ new.first = res[c] /\ new.size = req[c].size
          /\ Block(c).first = res[c] /\ Block(c).size = req[c].size
        BY DEF Granting, Owned, Block
    <1>2. Granting' \subseteq Granting /\ (new \in blocks' \ blocks => c \notin Granting')
        BY <1>1 DEF Granting
    <1>3. \A d \in CPU : Block(d)' = Block(d)
        BY DEF Block
    <1>4. \A b \in blocks' : b \in blocks \/ (b = new /\ c \notin Granting')
        BY <1>1 DEF Granting
    <1> HIDE DEF new
    <1>5. \A d \in Granting' : res'[d] + req'[d].size <= m_base'
        BY <1>2 DEF ApartInv
    <1>6. \A b \in blocks' : b.first + b.size <= m_base'
        BY <1>1, <1>4 DEF ApartInv
    <1>7. \A d, e \in Granting' : d # e => Apart(Block(d)', Block(e)')
        BY <1>2, <1>3 DEF ApartInv, Granting
    <1>8. ASSUME NEW d \in Granting', NEW b \in blocks' PROVE Apart(Block(d)', b)
        <2>1. d \in Granting /\ d \in CPU /\ Block(d)' = Block(d)
            BY <1>2, <1>3 DEF Granting
        <2>2. CASE b \in blocks
            BY <2>1, <2>2 DEF ApartInv
        <2>3. CASE b = new /\ c \notin Granting'
            <3>1. Apart(Block(d), Block(c))
                BY <2>1, <2>3 DEF ApartInv
            <3> QED
                BY <2>1, <2>3, <3>1, <1>1 DEF Apart
        <2> QED
            BY <1>4, <2>2, <2>3
    <1>9. ASSUME NEW b \in blocks' , NEW d \in blocks', b # d PROVE Apart(b, d)
        <2>1. \A e \in blocks : Apart(new, e) /\ Apart(e, new)
            <3>1. \A e \in blocks : Apart(Block(c), e)
                BY DEF ApartInv
            <3> QED
                BY <3>1, <1>1 DEF Apart
        <2> QED
            BY <1>4, <1>9, <2>1 DEF ApartInv
    <1> QED
        BY <1>5, <1>6, <1>7, <1>8, <1>9 DEF ApartInv, Apart, Block

LEMMA BumpKeepsApart ==
    ASSUME TypeOK, LockInv, BaseInv, ApartInv, NEW c \in CPU, Bump(c)
    PROVE  ApartInv'
    <1>1. /\ res[c] = m_base /\ m_base \in Nat /\ req[c].size \in Nat \ {0}
          /\ m_base' = m_base + req[c].size /\ m_base' >= m_base
          /\ UNCHANGED <<req, res, blocks>>
        BY DEF Bump, BaseInv, TypeOK, Demand
    <1>2. Granting' = Granting \cup {c} /\ c \notin Granting
        BY DEF Bump, Goto, Granting, TypeOK
    <1>3. \A d \in CPU : /\ Block(d)' = Block(d)
                         /\ Block(d).first = res[d] /\ Block(d).size = req[d].size
                         /\ res[d] \in Nat /\ req[d].size \in Nat
        BY <1>1 DEF Block, TypeOK, Demand
    <1>4. Granting \subseteq CPU /\ \A b \in blocks : b.first \in Nat /\ b.size \in Nat
        BY DEF Granting, TypeOK
    <1>5. \A d \in Granting : Apart(Block(d), Block(c)) /\ Apart(Block(c), Block(d))
        BY <1>1, <1>3, <1>4 DEF ApartInv, Apart
    <1>6. \A b \in blocks : Apart(Block(c), b)
        BY <1>1, <1>3 DEF ApartInv, Apart
    <1>7. \A d \in Granting' : res'[d] + req'[d].size <= m_base'
        BY <1>1, <1>2, <1>3, <1>4 DEF ApartInv
    <1>8. \A b \in blocks' : b.first + b.size <= m_base'
        BY <1>1, <1>4 DEF ApartInv
    <1>9. \A d, e \in Granting' : d # e => Apart(Block(d)', Block(e)')
        BY <1>2, <1>3, <1>4, <1>5 DEF ApartInv
    <1>10. \A d \in Granting', b \in blocks' : Apart(Block(d)', b)
        BY <1>1, <1>2, <1>3, <1>4, <1>6 DEF ApartInv
    <1> QED
        BY <1>1, <1>7, <1>8, <1>9, <1>10 DEF ApartInv, Apart, Block

\* Filling a block changes neither its place nor its size.
LEMMA FillKeepsApart ==
    ASSUME TypeOK, ApartInv, NEW b \in blocks, Fill(b)
    PROVE  ApartInv'
    <1> DEFINE new == [b EXCEPT !.state = "filled"]
    <1>1. new.first = b.first /\ new.size = b.size
        BY DEF TypeOK
    <1>2. blocks' = (blocks \ {b}) \cup {new} /\ UNCHANGED <<m_base, pc, req, res>>
        BY DEF Fill
    <1> HIDE DEF new
    <1>3. Granting' = Granting /\ \A c \in Granting : Block(c)' = Block(c)
        BY <1>2 DEF Granting, Block
    <1>4. \A c \in Granting : Apart(Block(c), new)
        BY <1>1 DEF ApartInv, Apart
    <1>5. \A d \in blocks \ {b} : Apart(new, d) /\ Apart(d, new)
        BY <1>1 DEF ApartInv, Apart
    <1> QED
        BY <1>1, <1>2, <1>3, <1>4, <1>5 DEF ApartInv, Apart, Block

LEMMA ApartStep ==
    TypeOK /\ LockInv /\ BaseInv /\ AboveInv /\ ApartInv /\ [Step]_vars => ApartInv'
    <1> SUFFICES ASSUME TypeOK, LockInv, BaseInv, AboveInv, ApartInv, [Step]_vars
                 PROVE  ApartInv'
        OBVIOUS
    <1>1. ASSUME NEW c \in CPU, NEW r \in Requests, NEW z \in BOOLEAN, Call(c, r, z)
          PROVE  ApartInv'
        <2>1. /\ Granting' = Granting /\ c \notin Granting
              /\ \A d \in Granting : req'[d] = req[d] /\ Block(d)' = Block(d)
            BY <1>1 DEF Call, Goto, Granting, TypeOK, Block
        <2>2. UNCHANGED <<m_base, res, blocks>>
            BY <1>1 DEF Call
        <2> QED
            BY <2>1, <2>2 DEF ApartInv
    <1>2. ASSUME NEW c \in CPU, Lock(c) PROVE ApartInv'
        BY <1>2 DEF Lock, Goto, ApartInv, Granting, Block, TypeOK
    <1>3. ASSUME NEW c \in CPU, Align(c) PROVE ApartInv'
        <2>1. m_base' >= m_base /\ m_base' \in Nat /\ m_base \in Nat
            BY <1>3, AlignUpFacts DEF Align, TypeOK, Demand
        <2>2. Granting' = Granting /\ UNCHANGED <<req, res, blocks>>
            BY <1>3 DEF Align, Goto, Granting, TypeOK
        <2>3. \A d \in Granting : res[d] \in Nat /\ req[d].size \in Nat
            BY DEF Granting, TypeOK, Demand
        <2>4. \A b \in blocks : b.first \in Nat /\ b.size \in Nat
            BY DEF TypeOK
        <2>5. \A d \in Granting : res[d] + req[d].size <= m_base'
            BY <2>1, <2>3 DEF ApartInv
        <2>6. \A b \in blocks : b.first + b.size <= m_base'
            BY <2>1, <2>4 DEF ApartInv
        <2> QED
            BY <2>2, <2>5, <2>6 DEF ApartInv, Block
    <1>4. ASSUME NEW c \in CPU, Read(c) PROVE ApartInv'
        <2>1. /\ Granting' = Granting /\ c \notin Granting
              /\ \A d \in Granting : res'[d] = res[d] /\ Block(d)' = Block(d)
            BY <1>4 DEF Read, Goto, Granting, TypeOK, Block
        <2>2. UNCHANGED <<m_base, req, blocks>>
            BY <1>4 DEF Read
        <2> QED
            BY <2>1, <2>2 DEF ApartInv
    <1>5. ASSUME NEW c \in CPU, Bump(c) PROVE ApartInv'
        BY <1>5, BumpKeepsApart
    <1>6. ASSUME NEW c \in CPU, Unlock(c) PROVE ApartInv'
        <2>1. c \in Granting /\ UNCHANGED <<m_base, req, res>>
              /\ \A d \in CPU \ {c} : pc'[d] = pc[d]
            BY <1>6 DEF Unlock, Goto, Granting, TypeOK
        <2>2. \/ blocks' = blocks /\ pc'[c] = "clear"
              \/ blocks' = blocks \cup {Owned(c, "raw")} /\ pc'[c] = "idle"
            BY <1>6 DEF Unlock, Goto, TypeOK
        <2> QED
            BY <2>1, <2>2, ReturnKeepsApart
    <1>7. ASSUME NEW c \in CPU, Clear(c) PROVE ApartInv'
        <2>1. c \in Granting /\ UNCHANGED <<m_base, req, res>>
              /\ \A d \in CPU \ {c} : pc'[d] = pc[d]
            BY <1>7 DEF Clear, Goto, Granting, TypeOK
        <2>2. blocks' = blocks \cup {Owned(c, "clear")} /\ pc'[c] = "idle"
            BY <1>7 DEF Clear, Goto, TypeOK
        <2> QED
            BY <2>1, <2>2, ReturnKeepsApart
    <1>8. ASSUME NEW b \in blocks, Fill(b) PROVE ApartInv'
        BY <1>8, FillKeepsApart
    <1>9. ASSUME NEW end \in Nat \ {0}, InitPmm(end) PROVE ApartInv'
        BY <1>9 DEF InitPmm, BaseInv, TypeOK, AboveInv, ApartInv, Granting
    <1>10. CASE UNCHANGED vars
        BY <1>10 DEF vars, ApartInv, Granting, Block
    <1> QED
        BY <1>1, <1>2, <1>3, <1>4, <1>5, <1>6, <1>7, <1>8, <1>9, <1>10 DEF Step, Operate

\* A store to a block leaves the bytes of the blocks apart from it.
LEMMA StoredApart ==
    ASSUME NEW b, NEW d, NEW value, NEW a \in Bytes(d) \cap Memory, Apart(b, d),
           b.first \in Nat, b.size \in Nat, d.first \in Nat, d.size \in Nat
    PROVE  Stored(b, value)[a] = content[a]
    BY DEF Stored, Bytes, Apart

LEMMA ContentInit == Init => ContentIntact
    BY DEF Init, ContentIntact

LEMMA ContentStep == TypeOK /\ ApartInv /\ ContentIntact /\ [Step]_vars => ContentIntact'
    <1> SUFFICES ASSUME TypeOK, ApartInv, ContentIntact, [Step]_vars
                 PROVE  ContentIntact'
        OBVIOUS
    <1>0. \A b \in blocks : b.first \in Nat /\ b.size \in Nat
        BY DEF TypeOK
    <1>1. CASE UNCHANGED <<content, blocks>>
        BY <1>1 DEF ContentIntact
    <1>2. ASSUME NEW c \in CPU, Unlock(c) PROVE ContentIntact'
        <2>1. content' = content /\ \A b \in blocks' : b \in blocks \/ b.state = "raw"
            BY <1>2 DEF Unlock, Owned
        <2> QED
            BY <2>1 DEF ContentIntact
    <1>3. ASSUME NEW c \in CPU, Clear(c) PROVE ContentIntact'
        <2>1. c \in Granting /\ Block(c).first \in Nat /\ Block(c).size \in Nat
            BY <1>3 DEF Clear, Granting, Block, TypeOK, Demand
        <2>2. content' = Stored(Block(c), Zero) /\ blocks' = blocks \cup {Owned(c, "clear")}
            BY <1>3 DEF Clear
        <2>3. ASSUME NEW b \in blocks, NEW a \in Bytes(b) \cap Memory
              PROVE  content'[a] = content[a]
            <3>1. Apart(Block(c), b)
                BY <2>1 DEF ApartInv
            <3> QED
                BY <3>1, <2>1, <2>2, <1>0, StoredApart
        <2>4. /\ Owned(c, "clear").state = "clear"
              /\ \A a \in Bytes(Owned(c, "clear")) \cap Memory : content'[a] = Zero
            BY <2>2 DEF Owned, Block, Stored, Bytes
        <2> QED
            BY <2>2, <2>3, <2>4 DEF ContentIntact
    <1>4. ASSUME NEW b \in blocks, Fill(b) PROVE ContentIntact'
        <2> DEFINE new == [b EXCEPT !.state = "filled"]
        <2>1. new.first = b.first /\ new.size = b.size /\ new.owner = b.owner
              /\ new.state = "filled"
            BY DEF TypeOK
        <2>2. content' = Stored(b, b.owner) /\ blocks' = (blocks \ {b}) \cup {new}
            BY <1>4 DEF Fill
        <2> HIDE DEF new
        <2>3. ASSUME NEW d \in blocks \ {b}, NEW a \in Bytes(d) \cap Memory
              PROVE  content'[a] = content[a]
            <3>1. Apart(b, d)
                BY DEF ApartInv
            <3> QED
                BY <3>1, <2>2, <1>0, StoredApart
        <2>4. \A a \in Bytes(new) \cap Memory : content'[a] = new.owner
            BY <2>1, <2>2 DEF Stored, Bytes
        <2> QED
            BY <2>1, <2>2, <2>3, <2>4 DEF ContentIntact
    <1> QED
        BY <1>1, <1>2, <1>3, <1>4
        DEF Step, Operate, vars, InitPmm, Call, Lock, Align, Read, Bump

-----------------------------------------------------------------------------
\* The parts together, from Init and over every step.
LEMMA PmmInvInit == Init => PmmInv
    BY TypeInit, LockInit, BaseInit, AboveInit, ApartInit, ContentInit DEF PmmInv

LEMMA PmmInvStep == PmmInv /\ [Step]_vars => PmmInv'
    BY TypeStep, LockStep, BaseStep, AboveStep, ApartStep, ContentStep DEF PmmInv

LEMMA PmmInvariant == Spec => []PmmInv
    BY PmmInvInit, PmmInvStep, NextIsStep, PTL DEF Spec

\* Type correctness.
THEOREM TypeCorrect == Spec => []TypeOK
    <1>1. PmmInv => TypeOK
        BY DEF PmmInv
    <1> QED
        BY <1>1, PmmInvariant, PTL

\* Blocks start where their callers asked.
THEOREM Alignment == Spec => []BlockAligned
    <1>1. PmmInv => BlockAligned
        BY DEF PmmInv, BaseInv, BlockAligned
    <1> QED
        BY <1>1, PmmInvariant, PTL

\* A cleared block is zero when its caller gets it and keeps what is put into it,
\* although every other call clears its block outside the lock.
THEOREM Contents == Spec => []ContentIntact
    <1>1. PmmInv => ContentIntact
        BY DEF PmmInv
    <1> QED
        BY <1>1, PmmInvariant, PTL

\* Concurrent calls never hand out a byte twice: palloc_aligned() implements
\* the allocator of BlockAllocator, taking effect when m_base moves.
LEMMA GrantInit == Init => Allocator!Init
    BY DEF Init, Allocator!Init

LEMMA GrantStep == PmmInv /\ [Step]_vars => [Allocator!Grant]_granted
    <1> SUFFICES ASSUME TypeOK, BaseInv, NEW c \in CPU, Bump(c)
                 PROVE  Allocator!Grant
        BY DEF PmmInv, Step, Operate, vars, InitPmm, Call, Lock, Align, Read,
               Unlock, Clear, Fill
    <1>1. Block(c).first \in Nat /\ Block(c).size \in Nat \ {0}
        BY DEF Block, TypeOK, Demand
    <1>2. granted' = Append(granted, Block(c)) /\ granted \in Seq([first : Nat, size : Nat \ {0}])
        BY DEF Bump, TypeOK
    <1>3. Len(granted') = Len(granted) + 1 /\ granted'[Len(granted')] = Block(c)
        BY <1>1, <1>2 DEF Block
    <1>4. ASSUME NEW i \in 1 .. Len(granted)
          PROVE  Allocator!Disjoint(granted[i], Block(c))
        BY DEF BaseInv, Bump, Block, Allocator!Disjoint
    <1> QED
        BY <1>1, <1>2, <1>3, <1>4 DEF Allocator!Grant

\* Any CPUs, any sizes and any alignments: each call of palloc() and its relatives is a
\* step of the abstract allocator, which hands out no byte twice, or none at all.
THEOREM Refinement == Spec => ImplementsAllocator
    BY GrantInit, GrantStep, PmmInvariant, NextIsStep, PTL
    DEF Spec, ImplementsAllocator, Allocator!Spec

-----------------------------------------------------------------------------
(* From the loader to the allocator                                        *)

\* Before _start() has called init_pmm().
Loading == at # "virtdbg"

\* The loader's blocks lie below its base, and virtdbg_end is that base once
\* the last of them was allocated.
LoaderInv ==
    /\ machine \in L!Machine
    /\ base \in Nat
    /\ \A b \in reserved :
          /\ b.first \in Nat /\ b.size \in Nat \ {0}
          /\ b.first + b.size <= base
    /\ at = "pmm_init" => reserved = {}
    /\ args \in [stolen_memory_base : Nat, virtdbg_end : Nat,
                 stolen_memory_end : Nat, initial_guest_state : Nat]
    /\ at \in {"copy", "args", "halt", "jump", "virtdbg"} => args.virtdbg_end = base

\* init_pmm() was told what args says.
HandedOver ==
    /\ Loading => virtdbg_end = 0
    /\ ~Loading => virtdbg_end = args.virtdbg_end

\* The loader's ALIGN does not go down either.
LEMMA LoaderAlign ==
    ASSUME NEW x \in Nat, NEW a \in Nat \ {0}
    PROVE  L!Align(x, a) \in Nat /\ L!Align(x, a) >= x
    BY AlignUpFacts DEF AlignUp, L!Align

\* An allocation keeps all blocks below the base.
LEMMA AlloczKeeps ==
    ASSUME LoaderInv, NEW size \in Nat \ {0}, NEW align \in Nat \ {0},
           L!Allocz(L!Block(size, align))
    PROVE  /\ base' \in Nat /\ L!Block(size, align).first \in Nat
           /\ \A b \in reserved' :
                 /\ b.first \in Nat /\ b.size \in Nat \ {0}
                 /\ b.first + b.size <= base'
    <1> DEFINE new == L!Block(size, align)
    <1>1. new.first \in Nat /\ new.size = size /\ new.first >= base
        BY LoaderAlign DEF L!Block, LoaderInv
    <1>2. base' = new.first + new.size /\ reserved' = reserved \cup {new}
        BY DEF L!Allocz
    <1> HIDE DEF new
    <1>3. base' \in Nat /\ base' >= base
        BY <1>1, <1>2 DEF LoaderInv
    <1>4. ASSUME NEW b \in reserved'
          PROVE  /\ b.first \in Nat /\ b.size \in Nat \ {0}
                 /\ b.first + b.size <= base'
        <2>1. CASE b \in reserved
            BY <2>1, <1>3 DEF LoaderInv
        <2>2. CASE b = new
            BY <2>2, <1>1, <1>2
        <2> QED
            BY <2>1, <2>2, <1>2
    <1> QED
        BY <1>1, <1>3, <1>4 DEF new

LEMMA LoaderInit == BootInit => LoaderInv
    BY LoaderAssumption DEF BootInit, L!Init, L!NoArgs, LoaderInv

LEMMA LoaderStep == LoaderInv /\ [BootNext]_boot_vars => LoaderInv'
    <1> SUFFICES ASSUME LoaderInv, [BootNext]_boot_vars PROVE LoaderInv'
        OBVIOUS
    <1>0. /\ PageSize \in Nat \ {0} /\ StackSize \in Nat \ {0} /\ StateSize \in Nat \ {0}
          /\ Reserve \in Nat /\ machine.size \in Nat \ {0} /\ 16 \in Nat \ {0} /\ 1 \in Nat \ {0}
        BY AddressAssumption, LoaderAssumption DEF LoaderInv, L!Machine
    <1>1. ASSUME L!PmmInit PROVE LoaderInv'
        <2>1. base' \in Nat
            <3>1. CASE L!Longest(machine.memmap) = {}
                BY <1>1, <3>1 DEF L!PmmInit, LoaderInv
            <3>2. CASE L!Longest(machine.memmap) # {}
                <4>1. PICK i \in L!Longest(machine.memmap) :
                          base' = machine.memmap[i].base
                    BY <1>1, <3>2 DEF L!PmmInit
                <4>2. i \in DOMAIN machine.memmap /\ machine.memmap \in Seq(L!Region)
                    BY <4>1 DEF L!Longest, LoaderInv, L!Machine
                <4>3. machine.memmap[i] \in L!Region
                    BY <4>2
                <4> QED
                    BY <4>1, <4>3 DEF L!Region
            <3> QED
                BY <3>1, <3>2
        <2>2. reserved' = {} /\ at' = "image" /\ UNCHANGED <<machine, args>>
            BY <1>1 DEF L!PmmInit, LoaderInv
        <2> QED
            BY <2>1, <2>2 DEF LoaderInv
    <1>2. ASSUME L!AllocImage PROVE LoaderInv'
        BY <1>0, <1>2, AlloczKeeps DEF L!AllocImage, LoaderInv
    <1>3. ASSUME L!AllocPagemap PROVE LoaderInv'
        BY <1>0, <1>3, AlloczKeeps DEF L!AllocPagemap, LoaderInv
    <1>4. ASSUME L!Descend PROVE LoaderInv'
        <2>1. at = "map" /\ UNCHANGED <<machine, at, args>>
            BY <1>4 DEF L!Descend
        <2>2. L!Allocz(L!Block(PageSize, PageSize)) \/ UNCHANGED <<base, reserved>>
            BY <1>4 DEF L!Descend
        <2> QED
            BY <1>0, <2>1, <2>2, AlloczKeeps DEF LoaderInv
    <1>5. ASSUME L!MapLeaf \/ L!LoadCr3 PROVE LoaderInv'
        BY <1>5 DEF L!MapLeaf, L!LoadCr3, LoaderInv
    <1>6. ASSUME L!AllocStack PROVE LoaderInv'
        BY <1>0, <1>6, AlloczKeeps DEF L!AllocStack, LoaderInv
    <1>7. ASSUME L!AllocState PROVE LoaderInv'
        BY <1>0, <1>7, AlloczKeeps DEF L!AllocState, LoaderInv
    <1>8. ASSUME L!CopyImage PROVE LoaderInv'
        <2>1. at = "copy" /\ at' \in {"halt", "args"}
              /\ UNCHANGED <<machine, base, reserved, args>>
            BY <1>8 DEF L!CopyImage
        <2> QED
            BY <2>1 DEF LoaderInv
    <1>9. ASSUME L!HandOver PROVE LoaderInv'
        BY <1>0, <1>9 DEF L!HandOver, LoaderInv
    <1>10. ASSUME Start PROVE LoaderInv'
        BY <1>10 DEF Start, LoaderInv
    <1>11. CASE UNCHANGED loader_vars
        BY <1>11 DEF loader_vars, LoaderInv
    <1> QED
        BY <1>1, <1>2, <1>3, <1>4, <1>5, <1>6, <1>7, <1>8, <1>9, <1>10, <1>11
        DEF BootNext, boot_vars, Load, L!Next, Run

\* Each step of the composed system is a step of the allocator or none at all.
LEMMA BootIsPmmStep == LoaderInv /\ [BootNext]_boot_vars => [Step]_vars
    <1> SUFFICES ASSUME LoaderInv, Start PROVE Step
        BY DEF BootNext, boot_vars, Load, Run, Step
    <1>1. args.virtdbg_end \in Nat \ {0}
        BY DEF Start, LoaderInv
    <1> QED
        BY <1>1 DEF Start, Step

LEMMA HandedOverStep ==
    LoaderInv /\ HandedOver /\ [BootNext]_boot_vars => HandedOver'
    <1> SUFFICES ASSUME LoaderInv, HandedOver, [BootNext]_boot_vars PROVE HandedOver'
        OBVIOUS
    <1>1. CASE Load
        <2>1. at # "virtdbg" /\ at' # "virtdbg"
            BY <1>1 DEF Load, L!Next, L!PmmInit, L!AllocImage, L!AllocPagemap,
               L!Descend, L!MapLeaf, L!LoadCr3, L!AllocStack, L!AllocState,
               L!CopyImage, L!HandOver
        <2> QED
            BY <1>1, <2>1 DEF Load, vars, HandedOver, Loading
    <1>2. CASE Start
        BY <1>2 DEF Start, InitPmm, HandedOver, Loading
    <1>3. CASE Run
        <2>1. virtdbg_end' = virtdbg_end
            BY <1>3 DEF Run, Operate, Call, Lock, Align, Read, Bump, Unlock, Clear, Fill
        <2> QED
            BY <1>3, <2>1 DEF Run, loader_vars, HandedOver, Loading
    <1>4. CASE UNCHANGED boot_vars
        BY <1>4 DEF boot_vars, vars, loader_vars, HandedOver, Loading
    <1> QED
        BY <1>1, <1>2, <1>3, <1>4 DEF BootNext

LEMMA BootInvariant == BootSpec => [](PmmInv /\ LoaderInv /\ HandedOver)
    <1>1. BootInit => PmmInv /\ LoaderInv /\ HandedOver
        BY PmmInvInit, LoaderInit DEF BootInit, L!Init, Init, HandedOver, Loading
    <1>2. PmmInv /\ LoaderInv /\ HandedOver /\ [BootNext]_boot_vars
              => (PmmInv /\ LoaderInv /\ HandedOver)'
        BY PmmInvStep, LoaderStep, BootIsPmmStep, HandedOverStep
    <1> QED
        BY <1>1, <1>2, PTL DEF BootSpec

\* The blocks of the loader lie one above the other, the first of them, with the
\* binary, at the base of the stolen memory and none below the region.
PlacedInv ==
    /\ \A b, d \in reserved :
          b # d => b.first + b.size <= d.first \/ d.first + d.size <= b.first
    /\ at = "image" => reserved = {}
    /\ at # "pmm_init" => \A i \in L!Longest(machine.memmap) : machine.memmap[i].base <= base
    /\ at \notin {"pmm_init", "image"} =>
          /\ args.stolen_memory_base < base
          /\ \A b \in reserved : args.stolen_memory_base <= b.first
          /\ \A i \in L!Longest(machine.memmap) :
                machine.memmap[i].base <= args.stolen_memory_base
    /\ at = "jump" => args.stolen_memory_end = args.virtdbg_end + Reserve

\* The region that the loader allocates from is the first of the longest.
LEMMA OneLongest ==
    ASSUME machine \in L!Machine, NEW i \in L!Longest(machine.memmap),
           NEW j \in L!Longest(machine.memmap)
    PROVE  /\ i = j /\ machine.memmap[i] \in L!Region
           /\ machine.memmap[i].type \in L!Allocatable /\ i \in DOMAIN machine.memmap
    <1>1. /\ i \in DOMAIN machine.memmap /\ j \in DOMAIN machine.memmap
          /\ machine.memmap[i].type \in L!Allocatable
          /\ \/ machine.memmap[j].length < machine.memmap[i].length
             \/ machine.memmap[j].length = machine.memmap[i].length /\ j >= i
          /\ \/ machine.memmap[i].length < machine.memmap[j].length
             \/ machine.memmap[i].length = machine.memmap[j].length /\ i >= j
        BY DEF L!Longest
    <1>2. machine.memmap \in Seq(L!Region)
        BY DEF L!Machine
    <1>3. /\ machine.memmap[i] \in L!Region /\ machine.memmap[j] \in L!Region
          /\ i \in Nat /\ j \in Nat
        BY <1>1, <1>2
    <1>4. machine.memmap[i].length \in Nat /\ machine.memmap[j].length \in Nat
        BY <1>3 DEF L!Region
    <1> QED
        BY <1>1, <1>3, <1>4

\* An allocation is placed above all others.
LEMMA AlloczPlaces ==
    ASSUME LoaderInv, PlacedInv, NEW size \in Nat \ {0}, NEW align \in Nat \ {0},
           L!Allocz(L!Block(size, align))
    PROVE  LET new == L!Block(size, align)
           IN  /\ reserved' = reserved \cup {new} /\ base' = new.first + size
               /\ new.first \in Nat /\ new.first >= base /\ base' > base /\ base' > new.first
               /\ \A b, d \in reserved' :
                     b # d => b.first + b.size <= d.first \/ d.first + d.size <= b.first
    <1> DEFINE new == L!Block(size, align)
    <1>1. new.first \in Nat /\ new.size = size /\ new.first >= base /\ base \in Nat
        BY LoaderAlign DEF L!Block, LoaderInv
    <1>2. base' = new.first + new.size /\ reserved' = reserved \cup {new}
        BY DEF L!Allocz
    <1> HIDE DEF new
    <1>3. base' = new.first + size /\ base' > base /\ base' > new.first
        BY <1>1, <1>2
    <1>4. ASSUME NEW b \in reserved' PROVE b = new \/ b.first + b.size <= new.first
        <2>1. ASSUME b \in reserved PROVE b.first + b.size <= new.first
            <3>1. b.first \in Nat /\ b.size \in Nat /\ b.first + b.size <= base
                BY <2>1 DEF LoaderInv
            <3> QED
                BY <3>1, <1>1
        <2> QED
            BY <2>1, <1>2
    <1>5. ASSUME NEW b \in reserved', NEW d \in reserved', b # d
          PROVE  b.first + b.size <= d.first \/ d.first + d.size <= b.first
        <2>1. CASE b = new
            BY <2>1, <1>4, <1>5
        <2>2. CASE d = new
            BY <2>2, <1>4, <1>5
        <2>3. CASE b # new /\ d # new
            BY <2>3, <1>2, <1>5 DEF PlacedInv
        <2> QED
            BY <2>1, <2>2, <2>3
    <1> QED
        BY <1>1, <1>2, <1>3, <1>5 DEF new

LEMMA PlacedInit == BootInit => PlacedInv
    BY DEF BootInit, L!Init, PlacedInv

LEMMA PlacedStep == LoaderInv /\ PlacedInv /\ [BootNext]_boot_vars => PlacedInv'
    <1> SUFFICES ASSUME LoaderInv, PlacedInv, [BootNext]_boot_vars PROVE PlacedInv'
        OBVIOUS
    <1>0. /\ PageSize \in Nat \ {0} /\ StackSize \in Nat \ {0} /\ StateSize \in Nat \ {0}
          /\ Reserve \in Nat /\ machine.size \in Nat \ {0} /\ 16 \in Nat \ {0} /\ 1 \in Nat \ {0}
        BY AddressAssumption, LoaderAssumption DEF LoaderInv, L!Machine
    <1> DEFINE Bases == {machine.memmap[i].base : i \in L!Longest(machine.memmap)}
    <1>1. /\ base \in Nat /\ args.stolen_memory_base \in Nat
          /\ \A m \in Bases : m \in Nat
        <2>1. \A i \in L!Longest(machine.memmap) : machine.memmap[i].base \in Nat
            BY OneLongest DEF LoaderInv, L!Region
        <2> QED
            BY <2>1 DEF LoaderInv
    \* An allocation after the binary's.
    <1>2. ASSUME NEW size \in Nat \ {0}, NEW align \in Nat \ {0},
                 L!Allocz(L!Block(size, align)), machine' = machine,
                 at \notin {"pmm_init", "image"}, at' \notin {"image", "jump"},
                 args'.stolen_memory_base = args.stolen_memory_base
          PROVE  PlacedInv'
        <2> DEFINE new == L!Block(size, align)
        <2>1. /\ reserved' = reserved \cup {new} /\ base' = new.first + size
              /\ new.first \in Nat /\ new.first >= base /\ base' > base
              /\ \A b, d \in reserved' :
                    b # d => b.first + b.size <= d.first \/ d.first + d.size <= b.first
            BY <1>2, AlloczPlaces
        <2> HIDE DEF new
        <2>2. /\ args.stolen_memory_base < base
              /\ \A b \in reserved : args.stolen_memory_base <= b.first
              /\ \A m \in Bases : m <= args.stolen_memory_base /\ m <= base
            BY <1>2 DEF PlacedInv
        <2>3. base' \in Nat /\ args.stolen_memory_base < base'
              /\ args.stolen_memory_base <= new.first /\ \A m \in Bases : m <= base'
            <3> HIDE DEF Bases
            <3>1. base' \in Nat /\ args.stolen_memory_base < base'
                  /\ args.stolen_memory_base <= new.first
                BY <1>0, <1>1, <1>2, <2>1, <2>2
            <3>2. ASSUME NEW m \in Bases PROVE m <= base'
                <4>1. m \in Nat /\ m <= base
                    BY <1>1, <2>2
                <4> QED
                    BY <4>1, <3>1, <1>1, <2>1
            <3> QED
                BY <3>1, <3>2
        <2>4. \A b \in reserved' : args.stolen_memory_base <= b.first
            BY <2>1, <2>2, <2>3
        <2> QED
            BY <1>2, <2>1, <2>2, <2>3, <2>4 DEF PlacedInv
    \* A step that allocates nothing.
    <1>3. ASSUME UNCHANGED <<machine, base, reserved>>, at # "pmm_init",
                 at = "image" <=> at' = "image", at' # "pmm_init",
                 args'.stolen_memory_base = args.stolen_memory_base,
                 at' = "jump" => args'.stolen_memory_end = args'.virtdbg_end + Reserve
          PROVE  PlacedInv'
        BY <1>3 DEF PlacedInv
    <1>4. ASSUME L!PmmInit PROVE PlacedInv'
        <2>1. /\ machine' = machine /\ reserved' = {} /\ at' = "image"
              /\ base' = IF L!Longest(machine.memmap) = {} THEN base
                         ELSE machine.memmap[CHOOSE i \in L!Longest(machine.memmap) : TRUE].base
            BY <1>4 DEF L!PmmInit, LoaderInv
        <2>2. ASSUME NEW i \in L!Longest(machine.memmap)
              PROVE  machine.memmap[i].base <= base'
            <3>1. (CHOOSE j \in L!Longest(machine.memmap) : TRUE) \in L!Longest(machine.memmap)
                OBVIOUS
            <3>2. (CHOOSE j \in L!Longest(machine.memmap) : TRUE) = i
                BY <3>1, OneLongest DEF LoaderInv
            <3>3. base' = machine.memmap[i].base
                BY <2>1, <3>2
            <3>4. machine.memmap[i].base \in Nat
                BY OneLongest DEF LoaderInv, L!Region
            <3> QED
                BY <3>3, <3>4
        <2> QED
            BY <2>1, <2>2 DEF PlacedInv
    <1>5. ASSUME L!AllocImage PROVE PlacedInv'
        <2> DEFINE new == L!Block(machine.size, PageSize)
        <2>1. /\ at = "image" /\ at' = "pagemap" /\ machine' = machine /\ L!Allocz(new)
              /\ args' = [args EXCEPT !.stolen_memory_base = new.first]
            BY <1>5 DEF L!AllocImage
        <2>2. /\ reserved' = reserved \cup {new}
              /\ new.first \in Nat /\ new.first >= base /\ base' > base /\ base' > new.first
              /\ \A b, d \in reserved' :
                    b # d => b.first + b.size <= d.first \/ d.first + d.size <= b.first
            BY <1>0, <2>1, AlloczPlaces
        <2>3. base' \in Nat
            BY <1>0, <2>1, AlloczKeeps
        <2> HIDE DEF new
        <2>4. args'.stolen_memory_base = new.first
            BY <2>1 DEF LoaderInv
        <2>5. reserved' = {new}
            BY <2>1, <2>2 DEF PlacedInv
        <2>6. \A m \in Bases : m <= base
            BY <2>1 DEF PlacedInv
        <2>7. \A m \in Bases : m <= base' /\ m <= new.first
            <3> HIDE DEF Bases
            <3>1. ASSUME NEW m \in Bases PROVE m <= base' /\ m <= new.first
                <4>1. m \in Nat /\ m <= base
                    BY <1>1, <2>6
                <4> QED
                    BY <4>1, <1>1, <2>2, <2>3
            <3> QED
                BY <3>1
        <2> QED
            BY <2>1, <2>2, <2>4, <2>5, <2>7 DEF PlacedInv
    <1>6. ASSUME L!AllocPagemap PROVE PlacedInv'
        BY <1>0, <1>2, <1>6 DEF L!AllocPagemap
    <1>7. ASSUME L!Descend PROVE PlacedInv'
        <2>1. at = "map" /\ UNCHANGED <<machine, at, args>>
            BY <1>7 DEF L!Descend
        <2>2. L!Allocz(L!Block(PageSize, PageSize)) \/ UNCHANGED <<base, reserved>>
            BY <1>7 DEF L!Descend
        <2> QED
            BY <1>0, <1>2, <1>3, <2>1, <2>2
    <1>8. ASSUME L!MapLeaf \/ L!LoadCr3 PROVE PlacedInv'
        BY <1>3, <1>8 DEF L!MapLeaf, L!LoadCr3
    <1>9. ASSUME L!AllocStack PROVE PlacedInv'
        BY <1>0, <1>2, <1>9 DEF L!AllocStack
    <1>10. ASSUME L!AllocState PROVE PlacedInv'
        <2>1. args'.stolen_memory_base = args.stolen_memory_base
            BY <1>10 DEF L!AllocState, LoaderInv
        <2> QED
            BY <1>0, <1>2, <1>10, <2>1 DEF L!AllocState
    <1>11. ASSUME L!CopyImage PROVE PlacedInv'
        <2>1. at = "copy" /\ at' \in {"halt", "args"}
              /\ UNCHANGED <<machine, base, reserved, args>>
            BY <1>11 DEF L!CopyImage
        <2> QED
            BY <1>3, <2>1
    <1>12. ASSUME L!HandOver PROVE PlacedInv'
        <2>1. /\ at = "args" /\ at' = "jump" /\ UNCHANGED <<machine, base, reserved>>
              /\ args' = [args EXCEPT !.stolen_memory_end = args.virtdbg_end + Reserve]
            BY <1>12 DEF L!HandOver
        <2>2. /\ args'.stolen_memory_base = args.stolen_memory_base
              /\ args'.virtdbg_end = args.virtdbg_end
              /\ args'.stolen_memory_end = args.virtdbg_end + Reserve
            BY <2>1 DEF LoaderInv
        <2> QED
            BY <1>3, <2>1, <2>2
    <1>13. ASSUME Start PROVE PlacedInv'
        BY <1>3, <1>13 DEF Start
    <1>14. CASE UNCHANGED loader_vars
        BY <1>14 DEF loader_vars, PlacedInv
    <1> QED
        BY <1>4, <1>5, <1>6, <1>7, <1>8, <1>9, <1>10, <1>11, <1>12, <1>13, <1>14
        DEF BootNext, boot_vars, Load, L!Next, Run

LEMMA Placement == BootSpec => []PlacedInv
    <1>1. LoaderInv /\ PlacedInv /\ [BootNext]_boot_vars => PlacedInv'
        BY PlacedStep
    <1> QED
        BY <1>1, PlacedInit, BootInvariant, PTL DEF BootSpec

\* The region that the loader allocates from has room for what it has taken and
\* for what it leaves to virtdbg.
HasRoom ==
    \E i \in L!Longest(machine.memmap) :
        base + Reserve <= machine.memmap[i].base + machine.memmap[i].length

\* Whatever the memory map, the binary's size and the shape of the page tables:
\* when the loader jumps, its blocks lie apart from one another between
\* stolen_memory_base and virtdbg_end, the CHECKs of _start() hold, and, if the
\* region has room, all of it, the 2 MiB behind them too, is free memory.  The
\* loader itself never compares what it takes with the region's end.
THEOREM Described == BootSpec => [](HasRoom => ArgsDescribe)
    <1>1. LoaderInv /\ PlacedInv => (HasRoom => ArgsDescribe)
        <2> SUFFICES ASSUME LoaderInv, PlacedInv, HasRoom, at = "jump"
                     PROVE  /\ \A b \in reserved :
                                  /\ args.stolen_memory_base <= b.first
                                  /\ b.first + b.size <= args.virtdbg_end
                                  /\ \A d \in reserved \ {b} : Bytes(b) \cap Bytes(d) = {}
                            /\ args.stolen_memory_base < args.virtdbg_end
                            /\ args.virtdbg_end < args.stolen_memory_end
                            /\ \E i \in DOMAIN machine.memmap :
                                  LET r == machine.memmap[i]
                                  IN  /\ r.type \in L!Allocatable
                                      /\ r.base <= args.stolen_memory_base
                                      /\ args.stolen_memory_end <= r.base + r.length
            BY DEF ArgsDescribe
        <2>1. /\ args.virtdbg_end = base /\ base \in Nat /\ Reserve \in Nat \ {0}
              /\ args.stolen_memory_end = args.virtdbg_end + Reserve
              /\ args.stolen_memory_base < base
            BY LoaderAssumption DEF LoaderInv, PlacedInv
        <2>2. ASSUME NEW b \in reserved, NEW d \in reserved \ {b}
              PROVE  Bytes(b) \cap Bytes(d) = {}
            <3>1. b.first + b.size <= d.first \/ d.first + d.size <= b.first
                BY <2>2 DEF PlacedInv
            <3>2. {b.first, b.size, d.first, d.size} \subseteq Nat
                BY <2>2 DEF LoaderInv
            <3> QED
                BY <3>1, <3>2 DEF Bytes
        <2>3. \A b \in reserved : /\ args.stolen_memory_base <= b.first
                                  /\ b.first + b.size <= args.virtdbg_end
            BY <2>1 DEF LoaderInv, PlacedInv
        <2>4. PICK i \in L!Longest(machine.memmap) :
                  base + Reserve <= machine.memmap[i].base + machine.memmap[i].length
            BY DEF HasRoom
        <2>5. i \in DOMAIN machine.memmap /\ machine.memmap[i].type \in L!Allocatable
            BY OneLongest DEF LoaderInv
        <2>6. machine.memmap[i].base <= args.stolen_memory_base
            BY DEF PlacedInv
        <2> QED
            BY <2>1, <2>2, <2>3, <2>4, <2>5, <2>6
    <1> QED
        BY <1>1, Placement, BootInvariant, PTL

\* virtdbg's allocations never reach into the memory that the loader used: the
\* image, the page tables in CR3, the guest's initial state.
THEOREM Intact == BootSpec => []LoaderIntact
    <1>1. PmmInv /\ LoaderInv /\ HandedOver => LoaderIntact
        <2> SUFFICES ASSUME PmmInv, LoaderInv, HandedOver,
                            NEW b \in reserved, NEW a \in Bytes(b) \cap Memory,
                            content[a] # Junk
                     PROVE  FALSE
            BY DEF LoaderIntact
        <2>1. a >= virtdbg_end /\ virtdbg_end # 0
            BY DEF PmmInv, AboveInv
        <2>2. at = "virtdbg" /\ virtdbg_end = base
            BY <2>1 DEF HandedOver, Loading, LoaderInv
        <2>3. b.first \in Nat /\ b.size \in Nat /\ b.first + b.size <= base /\ base \in Nat
            BY DEF LoaderInv
        <2>4. a \in Int /\ a <= b.first + b.size - 1
            BY <2>3 DEF Bytes
        <2> QED
            BY <2>1, <2>2, <2>3, <2>4
    <1> QED
        BY <1>1, BootInvariant, PTL

\* Blocks are aligned, cleared where that was asked for, and keep what their
\* callers put into them, whatever the loader passed on.
THEOREM Custody == BootSpec => [](BlockAligned /\ ContentIntact)
    <1>1. PmmInv => BlockAligned /\ ContentIntact
        BY DEF PmmInv, BaseInv, BlockAligned
    <1> QED
        BY <1>1, BootInvariant, PTL

\* From power-on, through the loader, no byte is handed out twice.
THEOREM Allocation == BootSpec => ImplementsAllocator
    <1>1. BootInit => Allocator!Init
        BY GrantInit DEF BootInit
    <1>2. PmmInv /\ LoaderInv /\ HandedOver /\ [BootNext]_boot_vars
              => [Allocator!Grant]_granted
        BY GrantStep, BootIsPmmStep
    <1> QED
        BY <1>1, <1>2, BootInvariant, PTL
        DEF BootSpec, ImplementsAllocator, Allocator!Spec

-----------------------------------------------------------------------------
(* The loader's page tables                                                *)

\* The pages that vmm_init() maps for a region.
RegionPages(r) ==
    r.base \div PageSize .. r.base \div PageSize + L!PageCount(r.length) - 1

\* The binary, and what _start() writes outside of its own blocks.
Foreign(m) == L!PagesOf(m.begin, m.size) \cup {1} \cup m.fb

\* A machine that the loader can boot: the three windows of addresses lie apart
\* and hold what is mapped through them, what may be allocated from begins with
\* a page, and the binary, the page of the guest's hlt and the frame buffer are
\* mapped and lie outside of the region that the loader allocates from.
Bootable(m) ==
    /\ IdentityPages <= PhysOffset /\ PhysOffset <= KernelOffset
    /\ KernelOffset + L!PageCount(m.size) <= Fan ^ Levels
    /\ \A i \in DOMAIN m.memmap :
          /\ m.memmap[i].type \in L!Allocatable => m.memmap[i].base % PageSize = 0
          /\ \A f \in RegionPages(m.memmap[i]) : f < PhysOffset /\ f + PhysOffset < KernelOffset
    /\ \A p \in Foreign(m) :
          /\ \/ p < IdentityPages
             \/ \E i \in DOMAIN m.memmap : p \in RegionPages(m.memmap[i])
          /\ \A i \in L!Longest(m.memmap) : p \notin RegionPages(m.memmap[i])

\* What was taken so far lies in that region.
Within ==
    \E i \in L!Longest(machine.memmap) :
        base <= machine.memmap[i].base + machine.memmap[i].length

\* The calls of map_page that vmm_init() and _start() make, as sets.
Low == {[frame |-> f, page |-> f] : f \in 0 .. IdentityPages - 1}
Both(f) == {[frame |-> f, page |-> f], [frame |-> f, page |-> f + PhysOffset]}
VmmCalls ==
    Low \cup UNION {UNION {Both(f) : f \in RegionPages(machine.memmap[i])} :
                        i \in DOMAIN machine.memmap}
ImagePage(n) == args.stolen_memory_base \div PageSize + n
Copy == 0 .. L!PageCount(machine.size) - 1
ImageCalls == {[frame |-> ImagePage(n), page |-> KernelOffset + n] : n \in Copy}
Calls == VmmCalls \cup ImageCalls

\* The tree of page tables: T is the set of tables, lev[t] the level of table t
\* and pre[t] its number, that is, what all pages mapped through it have in
\* common.  An entry leads to the table of its number on the next level, and on
\* the last level maps a page as some call asked for.
EntryRight(tabs, calls, T, lev, pre, t, s) ==
    /\ s \in 0 .. Fan - 1
    /\ IF lev[t] = 1
       THEN [frame |-> tabs[t][s], page |-> pre[t] * Fan + s] \in calls
       ELSE /\ tabs[t][s] \in T
            /\ lev[tabs[t][s]] = lev[t] - 1
            /\ pre[tabs[t][s]] = pre[t] * Fan + s

\* A table has an entry that leads to it.
Linked(tabs, T, lev, pre, t) ==
    \E u \in T : /\ lev[u] = lev[t] + 1 /\ pre[u] = pre[t] \div Fan
                 /\ pre[t] % Fan \in DOMAIN tabs[u] /\ tabs[u][pre[t] % Fan] = t

Shape(tabs, root, calls, T, lev, pre) ==
    /\ T \subseteq Nat /\ lev \in [T -> 1 .. Levels] /\ pre \in [T -> Nat]
    /\ root \in T /\ lev[root] = Levels /\ pre[root] = 0
    /\ T \subseteq DOMAIN tabs
    /\ \A t \in T : \A s \in DOMAIN tabs[t] : EntryRight(tabs, calls, T, lev, pre, t, s)
    /\ \A t \in T \ {root} : Linked(tabs, T, lev, pre, t)

\* A call has been executed.
Mapped(tabs, T, lev, pre, c) ==
    \E t \in T : /\ lev[t] = 1 /\ pre[t] = c.page \div Fan
                 /\ c.page % Fan \in DOMAIN tabs[t] /\ tabs[t][c.page % Fan] = c.frame

Entries(s) == {s[i] : i \in 1 .. Len(s)}
Todo == Entries(todo)

\* Before there is a root table.
Early == {"pmm_init", "image", "pagemap"}

\* The tables in memory, between the binary and the free memory; map_page() is at
\* the one that its page's number tells; and all calls but those to come have
\* been executed.
Tree(T, lev, pre) ==
    /\ Shape(tables, pagemap, Calls, T, lev, pre)
    /\ \A t \in T : /\ args.stolen_memory_base + machine.size <= t * PageSize
                    /\ (t + 1) * PageSize <= base
    /\ at = "map" =>
          /\ walk.table \in T /\ lev[walk.table] = walk.level
          /\ todo # <<>> => pre[walk.table] = Head(todo).page \div Fan ^ walk.level
          /\ todo = <<>> => walk = [level |-> Levels, table |-> pagemap]
    /\ \A c \in (VmmCalls \cup IF loaded THEN ImageCalls ELSE {}) \ Todo : Mapped(tables, T, lev, pre, c)

\* How far _start() has come.
StageInv ==
    /\ at \in Early => ~loaded /\ todo = <<>>
    /\ at \notin Early \cup {"map"} => loaded /\ todo = <<>>
    /\ IF loaded THEN Todo \subseteq ImageCalls ELSE Todo \subseteq VmmCalls
    /\ todo \in Seq([frame : Nat, page : Nat])
    /\ at \notin {"pmm_init", "image"} =>
          /\ args.stolen_memory_base % PageSize = 0
          /\ args.stolen_memory_base + machine.size <= base

\* The binary is where the boot loader put it.
BinaryThere ==
    \A n \in Copy : /\ machine.begin \div PageSize + n \in DOMAIN image
                    /\ image[machine.begin \div PageSize + n] = n

\* Its copy is at the base of the stolen memory.
ImageThere == \A n \in Copy : ImagePage(n) \in DOMAIN image /\ image[ImagePage(n)] = n

\* There until it is copied, and then where it was copied to.
ImageInv ==
    /\ at \in Early \cup {"map", "state", "copy"} => BinaryThere
    /\ at \in {"args", "jump"} => ImageThere

SpaceInv ==
    /\ StageInv
    /\ ImageInv
    /\ at \notin Early => \E T, lev, pre : Tree(T, lev, pre)

\* The pages of the region that the loader allocates from.
Home == UNION {RegionPages(machine.memmap[i]) : i \in L!Longest(machine.memmap)}

\* The constants that the arithmetic needs.
LEMMA Positive ==
    /\ PageSize \in Nat \ {0} /\ Fan \in Nat \ {0} /\ Levels \in Nat \ {0}
    /\ {IdentityPages, PhysOffset, KernelOffset} \subseteq Nat
    BY AddressAssumption, LoaderAssumption

\* A set of numbers has a least one.
LEMMA Least ==
    ASSUME NEW S \in SUBSET Nat, S # {}
    PROVE  \E n \in S : \A m \in S : n <= m
    <1> DEFINE R == OpToRel(<, Nat)
    <1>1. IsWellFoundedOn(R, Nat)
        BY NatLessThanWellFounded
    <1> HIDE DEF R
    <1>2. PICK n \in S : \A m \in S : <<m, n>> \notin R
        BY <1>1, WFMin, Zenon
    <1>3. \A m \in S : ~(m < n)
        BY <1>2 DEF R, OpToRel
    <1> QED
        BY <1>3

\* A quotient and its remainder.
LEMMA Quotient ==
    ASSUME NEW a \in Nat, NEW b \in Nat \ {0}
    PROVE  /\ a \div b \in Nat /\ a % b \in 0 .. b - 1 /\ a = b * (a \div b) + (a % b)
           /\ a % b \in Nat /\ a % b < b /\ b * (a \div b) \in Nat
    <1>1. a \div b \in Nat /\ a % b \in 0 .. b - 1 /\ a = b * (a \div b) + (a % b)
        OBVIOUS
    <1> QED
        BY <1>1

\* What determines a quotient.
LEMMA QuotientIs ==
    ASSUME NEW a \in Nat, NEW b \in Nat \ {0}, NEW q \in Nat, b * q <= a, a < b * q + b
    PROVE  a \div b = q
    <1> DEFINE d == a \div b
    <1>1. d \in Nat /\ b * d <= a /\ a < b * d + b
        BY Quotient
    <1> HIDE DEF d
    <1>2. b * d < b * (q + 1) /\ b * q < b * (d + 1)
        BY <1>1
    <1>3. d < q + 1 /\ q < d + 1
        BY <1>1, <1>2
    <1> QED
        BY <1>1, <1>3 DEF d

LEMMA Product ==
    ASSUME NEW a \in Nat, NEW b \in Nat
    PROVE  a * b \in Nat
    OBVIOUS

LEMMA Distribution ==
    ASSUME NEW a \in Nat, NEW b \in Nat, NEW c \in Nat
    PROVE  a * (b + c) = a * b + a * c
    OBVIOUS

\* Dividing twice is dividing by the product.
LEMMA QuotientTwice ==
    ASSUME NEW q \in Nat, NEW a \in Nat \ {0}, NEW b \in Nat \ {0}
    PROVE  q \div (b * a) = (q \div a) \div b
    <1> DEFINE x == q \div a
               r == q % a
               y == x \div b
               z == x % b
    <1>1. x \in Nat /\ r \in Nat /\ r < a /\ q = a * x + r
        BY Quotient
    <1>2. y \in Nat /\ z \in Nat /\ z < b /\ x = b * y + z
        BY <1>1, Quotient
    <1> HIDE DEF x, r, y, z
    <1>3. b * a \in Nat \ {0} /\ a * z \in Nat /\ (b * a) * y \in Nat
        <2>1. b * a \in Nat \ {0}
            OBVIOUS
        <2>2. a * z \in Nat
            BY <1>2
        <2> QED
            BY <2>1, <2>2, <1>2, Product
    <1>4. q = (b * a) * y + (a * z + r)
        <2>1. a * (b * y + z) = a * (b * y) + a * z
            BY <1>2, Product, Distribution
        <2>2. a * (b * y) = (b * a) * y
            BY <1>2
        <2>3. a * x = a * (b * y) + a * z
            BY <1>2, <2>1
        <2> HIDE DEF x
        <2>4. q = (b * a) * y + a * z + r
            BY <1>1, <2>2, <2>3
        <2> QED
            BY <1>1, <1>3, <2>4
    <1>5. a * z + r < b * a
        <2>1. a * z <= a * (b - 1)
            BY <1>2
        <2>2. a * (b - 1) = b * a - a
            OBVIOUS
        <2> QED
            BY <1>1, <1>3, <2>1, <2>2
    <1>6. q \div (b * a) = y
        BY <1>1, <1>2, <1>3, <1>4, <1>5, QuotientIs
    <1> QED
        BY <1>6 DEF x, y

\* The number of a table's child on the level below.
LEMMA Prefix ==
    ASSUME NEW l \in 1 .. Levels, NEW page \in Nat
    PROVE  /\ page \div Fan ^ (l - 1) \in Nat
           /\ page \div Fan ^ l = (page \div Fan ^ (l - 1)) \div Fan
           /\ L!Slot(page, l) = (page \div Fan ^ (l - 1)) % Fan
           /\ L!Slot(page, l) \in 0 .. Fan - 1
    <1>1. l - 1 \in 0 .. Levels /\ l - 1 \in Nat /\ (l - 1) + 1 = l
        BY Positive
    <1>2. Fan ^ (l - 1) \in Nat \ {0} /\ Fan ^ l = Fan * Fan ^ (l - 1)
        BY <1>1, PowerAssumption
    <1> DEFINE p == Fan ^ (l - 1)
    <1> HIDE DEF p
    <1>3. p \in Nat \ {0} /\ Fan ^ l = Fan * p
        BY <1>2 DEF p
    <1>4. page \div p \in Nat /\ page \div (Fan * p) = (page \div p) \div Fan
          /\ (page \div p) % Fan \in 0 .. Fan - 1
        BY <1>3, Positive, Quotient, QuotientTwice
    <1> QED
        BY <1>3, <1>4 DEF p, L!Slot

\* A table of the last level has Fan pages.
LEMMA PowerZero ==
    ASSUME NEW page \in Nat
    PROVE  page \div Fan ^ 0 = page /\ L!Slot(page, 1) = page % Fan
           /\ page \div Fan ^ 1 = page \div Fan
    <1>1. Fan ^ 0 = 1 /\ 1 \in 1 .. Levels /\ 1 - 1 = 0
        BY Positive, PowerAssumption
    <1>2. page \div 1 = page
        OBVIOUS
    <1> QED
        BY <1>1, <1>2, Prefix

\* The recursion behind Translate, from the root down to level k.
Walk(page, k, r) ==
    r = [l \in k .. Levels |->
            IF l = Levels THEN {pagemap}
            ELSE UNION {L!Entry(t, L!Slot(page, l + 1)) : t \in r[l + 1]}]

\* The recursion has a solution, level by level from the root.
LEMMA WalkExists ==
    ASSUME NEW page
    PROVE  \E r : Walk(page, 0, r)
    <1> DEFINE S == {m \in Nat : m <= Levels /\ ~\E r : Walk(page, Levels - m, r)}
               At(l, v) == IF l = Levels THEN {pagemap}
                           ELSE UNION {L!Entry(t, L!Slot(page, l + 1)) : t \in v[l + 1]}
    <1>0. Levels \in Nat \ {0}
        BY Positive
    <1>1. S = {}
        <2> SUFFICES ASSUME S # {} PROVE FALSE
            OBVIOUS
        <2>1. PICK m \in S : \A j \in S : m <= j
            BY Least
        <2>2. m \in Nat /\ m <= Levels /\ ~\E r : Walk(page, Levels - m, r)
            OBVIOUS
        <2>3. CASE m = 0
            <3> DEFINE r == [l \in Levels .. Levels |-> {pagemap}]
            <3>1. Walk(page, Levels, r)
                BY <1>0 DEF Walk
            <3> QED
                BY <3>1, <2>2, <2>3, <1>0
        <2>4. CASE m # 0
            <3>1. m - 1 \in Nat /\ m - 1 <= Levels /\ ~(m <= m - 1)
                BY <2>2, <2>4, <1>0
            <3>2. m - 1 \notin S
                BY <3>1, <2>1
            <3>3. PICK q : Walk(page, Levels - (m - 1), q)
                BY <3>1, <3>2
            <3> DEFINE k == Levels - m
                       r == [l \in k .. Levels |-> IF l = k THEN At(k, q) ELSE q[l]]
            <3>4. k \in Nat /\ k + 1 = Levels - (m - 1) /\ k < Levels
                BY <2>2, <2>4, <1>0
            <3> HIDE DEF k
            <3>5. q = [l \in k + 1 .. Levels |-> At(l, q)]
                BY <3>3, <3>4 DEF Walk
            <3> HIDE DEF At
            <3>6. \A l \in k + 1 .. Levels : q[l] = At(l, q)
                BY <3>5
            <3>7. ASSUME NEW l \in k .. Levels PROVE r[l] = At(l, r)
                <4>1. l = Levels \/ (l # Levels /\ l + 1 \in k .. Levels /\ l + 1 # k)
                    BY <3>4, <1>0
                <4>2. l = Levels \/ r[l + 1] = q[l + 1]
                    BY <4>1
                <4>3. At(l, r) = At(l, q)
                    BY <4>2 DEF At
                <4>4. CASE l = k
                    BY <4>4, <4>3
                <4>5. CASE l # k
                    BY <4>5, <4>3, <3>6, <3>4, <1>0
                <4> QED
                    BY <4>4, <4>5
            <3> DEFINE v == [l \in k .. Levels |-> At(l, r)]
            <3>8. r = v
                <4>1. DOMAIN r = DOMAIN v /\ \A l \in DOMAIN r : r[l] = v[l]
                    BY <3>7
                <4> HIDE DEF At
                <4>2. r = [l \in k .. Levels |-> r[l]]
                    OBVIOUS
                <4>3. v = [l \in k .. Levels |-> v[l]]
                    OBVIOUS
                <4> QED
                    BY <4>1, <4>2, <4>3
            <3>9. Walk(page, k, r)
                BY <3>8 DEF Walk, At
            <3> QED
                BY <3>9, <2>2 DEF k
        <2> QED
            BY <2>3, <2>4
    <1>2. Levels \notin S
        BY <1>1
    <1>3. Levels - Levels = 0
        BY <1>0
    <1> QED
        BY <1>0, <1>2, <1>3

LEMMA TranslateWalks ==
    ASSUME NEW page
    PROVE  \E r : Walk(page, 0, r) /\ L!Translate(page) = r[0]
    <1> DEFINE g == CHOOSE r : Walk(page, 0, r)
    <1>1. Walk(page, 0, g)
        BY WalkExists
    <1>2. L!Translate(page) = g[0]
        BY DEF L!Translate, Walk
    <1> QED
        BY <1>1, <1>2

\* In a tree, the walk of a page that is mapped passes the tables of its numbers, and
\* ends at its frame.
LEMMA TranslateMapped ==
    ASSUME NEW calls, NEW T, NEW lev, NEW pre,
           Shape(tables, pagemap, calls, T, lev, pre),
           NEW c, c.page \in Nat, Mapped(tables, T, lev, pre, c)
    PROVE  L!Translate(c.page) = {c.frame}
    <1> DEFINE page == c.page
    <1>0. Levels \in Nat \ {0} /\ page \in Nat
        BY Positive
    <1>1. PICK r : Walk(page, 0, r) /\ L!Translate(page) = r[0]
        BY TranslateWalks
    <1> HIDE DEF page
    <1>2. \A l \in 0 .. Levels :
              r[l] = IF l = Levels THEN {pagemap}
                     ELSE UNION {L!Entry(t, L!Slot(page, l + 1)) : t \in r[l + 1]}
        BY <1>1 DEF Walk
    <1> DEFINE Passed(l) == \A t \in T : lev[t] = l /\ page \div Fan ^ l = pre[t] => r[l] = {t}
               S == {m \in Nat : m < Levels /\ ~Passed(Levels - m)}
    <1>3. S = {}
        <2> SUFFICES ASSUME S # {} PROVE FALSE
            OBVIOUS
        <2>1. PICK m \in S : \A j \in S : m <= j
            BY Least
        <2> DEFINE k == Levels - m
        <2>2. m \in Nat /\ m < Levels /\ k \in 1 .. Levels /\ ~Passed(k)
            BY <1>0
        <2>3. PICK t \in T : lev[t] = k /\ page \div Fan ^ k = pre[t] /\ r[k] # {t}
            BY <2>2
        <2>4. CASE t = pagemap
            <3>1. k = Levels
                BY <2>3, <2>4 DEF Shape
            <3>2. Levels \in 0 .. Levels
                BY <1>0
            <3>3. r[Levels] = {pagemap}
                BY <3>2, <1>2
            <3> QED
                BY <3>1, <3>3, <2>3, <2>4
        <2>5. CASE t # pagemap
            <3>1. PICK u \in T : /\ lev[u] = lev[t] + 1 /\ pre[u] = pre[t] \div Fan
                                 /\ pre[t] % Fan \in DOMAIN tables[u]
                                 /\ tables[u][pre[t] % Fan] = t
                BY <2>5 DEF Shape, Linked
            <3>2. lev[u] \in 1 .. Levels /\ lev[u] = k + 1
                BY <2>3, <3>1 DEF Shape
            <3>3. m # 0 /\ m - 1 \in Nat /\ m - 1 < Levels /\ ~(m <= m - 1) /\ Levels - (m - 1) = k + 1
                BY <3>2, <2>2, <1>0
            <3>4. Passed(k + 1)
                <4>1. m - 1 \notin S
                    BY <3>3, <2>1
                <4> QED
                    BY <4>1, <3>3
            <3>5. k + 1 \in 1 .. Levels /\ (k + 1) - 1 = k
                BY <3>2, <2>2, <1>0
            <3> HIDE DEF k
            <3>6. /\ page \div Fan ^ (k + 1) = (page \div Fan ^ k) \div Fan
                  /\ L!Slot(page, k + 1) = (page \div Fan ^ k) % Fan
                BY <3>5, <1>0, Prefix
            <3>7. r[k + 1] = {u}
                BY <3>1, <3>2, <3>4, <3>6, <2>3
            <3>8. L!Entry(u, L!Slot(page, k + 1)) = {t}
                BY <3>1, <3>6, <2>3 DEF L!Entry, Shape
            <3>9. r[k] = UNION {L!Entry(v, L!Slot(page, k + 1)) : v \in r[k + 1]}
                <4>1. k \in 0 .. Levels /\ k # Levels
                    BY <1>0, <3>5
                <4> QED
                    BY <4>1, <1>2
            <3> QED
                BY <3>7, <3>8, <3>9, <2>3
        <2> QED
            BY <2>4, <2>5
    <1>4. PICK t \in T : /\ lev[t] = 1 /\ pre[t] = page \div Fan /\ page % Fan \in DOMAIN tables[t]
                         /\ tables[t][page % Fan] = c.frame
        BY DEF Mapped, page
    <1>5. r[1] = {t}
        <2>1. Levels - 1 \in Nat /\ Levels - 1 < Levels /\ Levels - (Levels - 1) = 1
            BY <1>0
        <2>2. Passed(1)
            BY <2>1, <1>3
        <2> QED
            BY <2>2, <1>0, <1>4, PowerZero
    <1>6. r[0] = L!Entry(t, page % Fan)
        <2>1. 0 \in 0 .. Levels /\ 0 # Levels /\ 0 + 1 = 1
            BY <1>0
        <2>2. r[0] = UNION {L!Entry(v, L!Slot(page, 1)) : v \in r[1]}
            BY <2>1, <1>2
        <2> QED
            BY <2>2, <1>5, <1>0, PowerZero
    <1> QED
        BY <1>1, <1>4, <1>6 DEF L!Entry, Shape, page

LEMMA EntryIs ==
    ASSUME NEW tabs, NEW root, NEW calls, NEW T, NEW lev, NEW pre,
           Shape(tabs, root, calls, T, lev, pre), NEW t \in T, NEW s \in DOMAIN tabs[t]
    PROVE  EntryRight(tabs, calls, T, lev, pre, t, s)
    BY DEF Shape

\* What is written elsewhere does not change a tree.
LEMMA TreeApart ==
    ASSUME NEW tabs, NEW tabs2, NEW root, NEW calls, NEW T, NEW lev, NEW pre,
           Shape(tabs, root, calls, T, lev, pre), T \subseteq DOMAIN tabs2,
           \A t \in T : tabs2[t] = tabs[t]
    PROVE  /\ Shape(tabs2, root, calls, T, lev, pre)
           /\ \A c : Mapped(tabs, T, lev, pre, c) => Mapped(tabs2, T, lev, pre, c)
    <1>1. \A c : Mapped(tabs, T, lev, pre, c) => Mapped(tabs2, T, lev, pre, c)
        BY DEF Mapped
    <1>2. Shape(tabs2, root, calls, T, lev, pre)
        <2>1. ASSUME NEW t \in T, NEW s \in DOMAIN tabs2[t]
              PROVE  EntryRight(tabs2, calls, T, lev, pre, t, s)
            <3>1. tabs2[t] = tabs[t]
                OBVIOUS
            <3>2. EntryRight(tabs, calls, T, lev, pre, t, s)
                BY <3>1, EntryIs
            <3> QED
                BY <3>1, <3>2 DEF EntryRight
        <2>2. ASSUME NEW t \in T \ {root} PROVE Linked(tabs2, T, lev, pre, t)
            BY DEF Shape, Linked
        <2> QED
            BY <2>1, <2>2 DEF Shape
    <1> QED
        BY <1>1, <1>2

\* The store of a leaf maps one page and disturbs no other.
LEMMA LeafStored ==
    ASSUME NEW tabs, NEW root, NEW calls, NEW T, NEW lev, NEW pre,
           Shape(tabs, root, calls, T, lev, pre), NEW t \in T, lev[t] = 1,
           NEW c \in calls, c \in [frame : Nat, page : Nat], pre[t] = c.page \div Fan,
           NEW tabs2, T \subseteq DOMAIN tabs2,
           tabs2[t] = L!Stored(tabs[t], c.page % Fan, c.frame),
           \A u \in T \ {t} : tabs2[u] = tabs[u]
    PROVE  /\ Shape(tabs2, root, calls, T, lev, pre)
           /\ Mapped(tabs2, T, lev, pre, c)
           /\ \A d : /\ d.page \in Nat /\ (d.page = c.page => d.frame = c.frame)
                     /\ Mapped(tabs, T, lev, pre, d)
                     => Mapped(tabs2, T, lev, pre, d)
    <1> DEFINE s == c.page % Fan
    <1>1. s \in 0 .. Fan - 1 /\ c.page = pre[t] * Fan + s /\ c.page \in Nat
          /\ c = [frame |-> c.frame, page |-> c.page]
        <2>1. c.page \in Nat /\ c = [frame |-> c.frame, page |-> c.page]
            OBVIOUS
        <2>2. /\ c.page % Fan \in 0 .. Fan - 1 /\ c.page \div Fan \in Nat /\ Fan \in Nat
              /\ c.page = Fan * (c.page \div Fan) + (c.page % Fan)
            BY <2>1, Positive, Quotient
        <2> QED
            BY <2>1, <2>2
    <1>2. DOMAIN tabs2[t] = DOMAIN tabs[t] \cup {s}
          /\ \A k \in DOMAIN tabs2[t] : tabs2[t][k] = IF k = s THEN c.frame ELSE tabs[t][k]
        BY DEF L!Stored
    <1>3. \A u \in T \ {t} : tabs2[u] = tabs[u]
        OBVIOUS
    <1> HIDE DEF s
    <1>4. Shape(tabs2, root, calls, T, lev, pre)
        <2>1. ASSUME NEW u \in T, NEW k \in DOMAIN tabs2[u]
              PROVE  EntryRight(tabs2, calls, T, lev, pre, u, k)
            <3>1. CASE u = t /\ k = s
                <4>1. [frame |-> tabs2[u][k], page |-> pre[u] * Fan + k] = c
                    BY <1>1, <1>2, <3>1
                <4> QED
                    BY <4>1, <1>1, <3>1 DEF EntryRight
            <3>2. CASE ~(u = t /\ k = s)
                <4>1. k \in DOMAIN tabs[u] /\ tabs2[u][k] = tabs[u][k]
                    BY <2>1, <3>2, <1>2, <1>3
                <4> QED
                    BY <4>1, EntryIs DEF EntryRight
            <3> QED
                BY <3>1, <3>2
        <2>2. ASSUME NEW v \in T \ {root} PROVE Linked(tabs2, T, lev, pre, v)
            <3>1. PICK u \in T : /\ lev[u] = lev[v] + 1 /\ pre[u] = pre[v] \div Fan
                                 /\ pre[v] % Fan \in DOMAIN tabs[u] /\ tabs[u][pre[v] % Fan] = v
                BY DEF Shape, Linked
            <3>2. lev[v] \in 1 .. Levels /\ lev[u] # 1
                <4>1. lev[v] \in 1 .. Levels
                    BY DEF Shape
                <4> QED
                    BY <3>1, <4>1, Positive
            <3>3. u # t
                BY <3>2
            <3> QED
                BY <3>1, <3>3, <1>3 DEF Linked
        <2> QED
            BY <2>1, <2>2 DEF Shape
    <1>5. Mapped(tabs2, T, lev, pre, c)
        BY <1>2 DEF Mapped, s
    <1>6. ASSUME NEW d, d.page \in Nat, d.page = c.page => d.frame = c.frame,
                 Mapped(tabs, T, lev, pre, d)
          PROVE  Mapped(tabs2, T, lev, pre, d)
        <2>1. PICK u \in T : /\ lev[u] = 1 /\ pre[u] = d.page \div Fan
                             /\ d.page % Fan \in DOMAIN tabs[u] /\ tabs[u][d.page % Fan] = d.frame
            BY <1>6 DEF Mapped
        <2>2. CASE u = t /\ d.page % Fan = s
            <3>1. d.page = Fan * (d.page \div Fan) + (d.page % Fan)
                BY <1>6, Positive, Quotient
            <3>2. d.page = c.page
                <4> DEFINE q == c.page \div Fan
                <4>1. d.page \div Fan = q /\ q \in Nat /\ q = pre[t]
                    BY <2>1, <2>2, <1>1, Positive, Quotient
                <4>2. c.page = q * Fan + s /\ d.page = Fan * q + s
                    BY <4>1, <3>1, <2>2, <1>1
                <4> HIDE DEF q
                <4> QED
                    BY <4>1, <4>2, Positive
            <3> QED
                BY <3>2, <2>1, <2>2, <1>2, <1>6 DEF Mapped
        <2>3. CASE ~(u = t /\ d.page % Fan = s)
            <3>1. d.page % Fan \in DOMAIN tabs2[u] /\ tabs2[u][d.page % Fan] = d.frame
                BY <2>1, <2>3, <1>2, <1>3
            <3> QED
                BY <3>1, <2>1 DEF Mapped
        <2> QED
            BY <2>2, <2>3
    <1> QED
        BY <1>4, <1>5, <1>6

\* So does a new table, which maps nothing yet.
LEMMA TableLinked ==
    ASSUME NEW tabs, NEW root, NEW calls, NEW T, NEW lev, NEW pre,
           Shape(tabs, root, calls, T, lev, pre), NEW t \in T, lev[t] > 1,
           NEW slot \in 0 .. Fan - 1, slot \notin DOMAIN tabs[t], NEW new \in Nat \ T,
           NEW tabs2, T \cup {new} \subseteq DOMAIN tabs2, tabs2[new] = <<>>,
           \A u \in T : tabs2[u] = IF u = t THEN L!Stored(tabs[t], slot, new) ELSE tabs[u]
    PROVE  \E T2, lev2, pre2 :
              /\ T2 = T \cup {new} /\ lev2[new] = lev[t] - 1 /\ pre2[new] = pre[t] * Fan + slot
              /\ Shape(tabs2, root, calls, T2, lev2, pre2)
              /\ \A d : Mapped(tabs, T, lev, pre, d) => Mapped(tabs2, T2, lev2, pre2, d)
    <1> DEFINE T2 == T \cup {new}
               lev2 == [u \in T2 |-> IF u = new THEN lev[t] - 1 ELSE lev[u]]
               pre2 == [u \in T2 |-> IF u = new THEN pre[t] * Fan + slot ELSE pre[u]]
    <1>1. /\ new \notin T /\ lev[t] \in 1 .. Levels /\ pre[t] \in Nat
          /\ pre[t] * Fan + slot \in Nat /\ Levels \in Nat /\ Fan \in Nat \ {0}
        <2>1. new \notin T /\ lev[t] \in 1 .. Levels /\ pre[t] \in Nat
            BY DEF Shape
        <2> QED
            BY <2>1, Positive, Product
    <1>2. /\ lev2 \in [T2 -> 1 .. Levels] /\ pre2 \in [T2 -> Nat]
          /\ lev2[new] = lev[t] - 1 /\ pre2[new] = pre[t] * Fan + slot
          /\ \A u \in T : lev2[u] = lev[u] /\ pre2[u] = pre[u] /\ u \in T2
          /\ new \in T2
        <2>1. lev[t] - 1 \in 1 .. Levels
            BY <1>1
        <2>2. \A u \in T : lev[u] \in 1 .. Levels /\ pre[u] \in Nat
            BY DEF Shape
        <2> QED
            BY <2>1, <2>2, <1>1
    <1> HIDE DEF lev2, pre2
    <1>3. /\ DOMAIN tabs2[t] = DOMAIN tabs[t] \cup {slot}
          /\ \A k \in DOMAIN tabs2[t] : tabs2[t][k] = IF k = slot THEN new ELSE tabs[t][k]
          /\ DOMAIN tabs2[new] = {}
        <2>1. DOMAIN tabs2[new] = 1 .. 0
            OBVIOUS
        <2>2. t \in T /\ tabs2[t] = L!Stored(tabs[t], slot, new)
            OBVIOUS
        <2>3. DOMAIN tabs2[new] = {}
            BY <2>1
        <2> QED
            BY <2>2, <2>3 DEF L!Stored
    <1>4. \A u \in T \ {t} : tabs2[u] = tabs[u]
        OBVIOUS
    <1>5. ASSUME NEW u \in T2, NEW k \in DOMAIN tabs2[u]
          PROVE  EntryRight(tabs2, calls, T2, lev2, pre2, u, k)
        <2>1. u \in T
            BY <1>3, <1>5
        <2>2. CASE u = t /\ k = slot
            BY <2>2, <1>1, <1>2, <1>3 DEF EntryRight
        <2>3. CASE ~(u = t /\ k = slot)
            <3>1. k \in DOMAIN tabs[u] /\ tabs2[u][k] = tabs[u][k]
                BY <1>5, <2>1, <2>3, <1>3, <1>4
            <3>2. EntryRight(tabs, calls, T, lev, pre, u, k)
                BY <2>1, <3>1, EntryIs
            <3> QED
                BY <3>1, <3>2, <2>1, <1>2 DEF EntryRight
        <2> QED
            BY <2>2, <2>3
    <1>6. ASSUME NEW v \in T2 \ {root}
          PROVE  Linked(tabs2, T2, lev2, pre2, v)
        <2>1. CASE v = new
            <3> DEFINE p == pre[t] * Fan + slot
            <3>1. p \div Fan = pre[t] /\ p % Fan = slot
                <4> DEFINE x == Fan * pre[t]
                <4>0. x \in Nat /\ pre[t] * Fan = x
                    BY <1>1, Product
                <4>1. p \in Nat /\ x <= p /\ p < x + Fan /\ p = x + slot
                    BY <1>1, <4>0
                <4> HIDE DEF p
                <4>2. p \div Fan = pre[t]
                    BY <4>1, <1>1, QuotientIs
                <4>3. p = x + (p % Fan) /\ p % Fan \in Nat
                    BY <4>1, <4>2, <1>1, Quotient
                <4> HIDE DEF x
                <4> QED
                    BY <4>0, <4>1, <4>2, <4>3
            <3> HIDE DEF p
            <3>2. pre2[v] = p /\ lev2[v] + 1 = lev[t]
                BY <2>1, <1>1, <1>2 DEF p
            <3> QED
                BY <2>1, <3>1, <3>2, <1>2, <1>3 DEF Linked
        <2>2. CASE v # new
            <3>1. PICK u \in T : /\ lev[u] = lev[v] + 1 /\ pre[u] = pre[v] \div Fan
                                 /\ pre[v] % Fan \in DOMAIN tabs[u] /\ tabs[u][pre[v] % Fan] = v
                BY <2>2 DEF Shape, Linked
            <3>2. pre[v] % Fan \in DOMAIN tabs2[u] /\ tabs2[u][pre[v] % Fan] = v
                BY <3>1, <1>3, <1>4
            <3> QED
                BY <2>2, <3>1, <3>2, <1>2 DEF Linked
        <2> QED
            BY <2>1, <2>2
    <1>7. Shape(tabs2, root, calls, T2, lev2, pre2)
        <2>1. /\ T2 \subseteq Nat /\ root \in T2 /\ lev2[root] = Levels /\ pre2[root] = 0
              /\ T2 \subseteq DOMAIN tabs2
            BY <1>2 DEF Shape
        <2> QED
            BY <2>1, <1>2, <1>5, <1>6 DEF Shape
    <1>8. ASSUME NEW d, Mapped(tabs, T, lev, pre, d) PROVE Mapped(tabs2, T2, lev2, pre2, d)
        <2>1. PICK u \in T : /\ lev[u] = 1 /\ pre[u] = d.page \div Fan
                             /\ d.page % Fan \in DOMAIN tabs[u] /\ tabs[u][d.page % Fan] = d.frame
            BY <1>8 DEF Mapped
        <2>2. u # t
            BY <2>1
        <2> QED
            BY <2>1, <2>2, <1>2, <1>4 DEF Mapped
    <1>9. T2 = T \cup {new} /\ lev2[new] = lev[t] - 1 /\ pre2[new] = pre[t] * Fan + slot
        BY <1>2
    <1> HIDE DEF T2
    <1> QED
        BY <1>7, <1>8, <1>9

LEMMA Concatenation ==
    ASSUME NEW S, NEW a \in Seq(S), NEW b \in Seq(S)
    PROVE  a \o b \in Seq(S) /\ Entries(a \o b) = Entries(a) \cup Entries(b)
    <1>1. a \o b \in Seq(S) /\ Len(a \o b) = Len(a) + Len(b)
          /\ Len(a) \in Nat /\ Len(b) \in Nat
        OBVIOUS
    <1>2. ASSUME NEW i \in 1 .. Len(a) + Len(b)
          PROVE  (a \o b)[i] = IF i <= Len(a) THEN a[i] ELSE b[i - Len(a)]
        OBVIOUS
    <1> DEFINE c == a \o b
               m == Len(a)
               n == Len(b)
    <1>3. Entries(c) \subseteq Entries(a) \cup Entries(b)
        <2> SUFFICES ASSUME NEW i \in 1 .. Len(c) PROVE c[i] \in Entries(a) \cup Entries(b)
            BY DEF Entries
        <2>1. i \in 1 .. m + n /\ c[i] = IF i <= m THEN a[i] ELSE b[i - m]
            BY <1>1, <1>2
        <2>2. CASE i <= m
            BY <2>1, <2>2, <1>1 DEF Entries
        <2>3. CASE ~(i <= m)
            <3>1. i - m \in 1 .. n
                BY <2>1, <2>3, <1>1
            <3> QED
                BY <2>1, <2>3, <3>1 DEF Entries
        <2> QED
            BY <2>2, <2>3
    <1>4. Entries(a) \subseteq Entries(c)
        <2> SUFFICES ASSUME NEW i \in 1 .. m PROVE a[i] \in Entries(c)
            BY DEF Entries
        <2>1. i \in 1 .. m + n /\ i <= m
            BY <1>1
        <2>2. c[i] = a[i]
            BY <2>1, <1>2
        <2> QED
            BY <1>1, <2>1, <2>2 DEF Entries
    <1>5. Entries(b) \subseteq Entries(c)
        <2> SUFFICES ASSUME NEW i \in 1 .. n PROVE b[i] \in Entries(c)
            BY DEF Entries
        <2>1. m + i \in 1 .. m + n /\ ~(m + i <= m) /\ (m + i) - m = i
            BY <1>1
        <2>2. c[m + i] = b[i]
            BY <2>1, <1>2
        <2> QED
            BY <1>1, <2>1, <2>2 DEF Entries
    <1> QED
        BY <1>1, <1>3, <1>4, <1>5

\* The recursion behind FlattenSeq.
Flat(ss, n, f) == f = [i \in 1 .. n |-> IF i = 1 THEN ss[i] ELSE f[i - 1] \o ss[i]]

\* The recursion behind FlattenSeq has a solution too.
LEMMA FlatExists ==
    ASSUME NEW ss, NEW n \in Nat
    PROVE  \E f : Flat(ss, n, f)
    <1> DEFINE S == {m \in Nat : ~\E f : Flat(ss, m, f)}
    <1>1. S = {}
        <2> SUFFICES ASSUME S # {} PROVE FALSE
            OBVIOUS
        <2>1. PICK m \in S : \A j \in S : m <= j
            BY Least
        <2>2. m \in Nat /\ ~\E f : Flat(ss, m, f)
            OBVIOUS
        <2>3. CASE m = 0
            <3> DEFINE f == [i \in 1 .. 0 |-> {}]
            <3>1. Flat(ss, 0, f)
                BY DEF Flat
            <3> QED
                BY <3>1, <2>2, <2>3
        <2>4. CASE m # 0
            <3>1. m - 1 \in Nat /\ ~(m <= m - 1)
                BY <2>2, <2>4
            <3>2. m - 1 \notin S
                BY <3>1, <2>1
            <3>3. PICK g : Flat(ss, m - 1, g)
                BY <3>1, <3>2
            <3> DEFINE At(i, v) == IF i = 1 THEN ss[i] ELSE v[i - 1] \o ss[i]
                       f == [i \in 1 .. m |-> IF i = m THEN At(i, g) ELSE g[i]]
            <3>4. g = [i \in 1 .. m - 1 |-> At(i, g)]
                BY <3>3 DEF Flat
            <3> HIDE DEF At
            <3>5. \A i \in 1 .. m - 1 : g[i] = At(i, g)
                BY <3>4
            <3>6. ASSUME NEW i \in 1 .. m PROVE f[i] = At(i, f)
                <4>1. i = 1 \/ f[i - 1] = g[i - 1]
                    BY <2>2
                <4>2. At(i, f) = At(i, g)
                    BY <4>1 DEF At
                <4>3. i = m \/ i \in 1 .. m - 1
                    BY <2>2
                <4> QED
                    BY <4>2, <4>3, <3>5
            <3> DEFINE v == [i \in 1 .. m |-> At(i, f)]
            <3>7. f = v
                <4>1. f = [i \in 1 .. m |-> f[i]]
                    OBVIOUS
                <4> QED
                    BY <4>1, <3>6
            <3>8. Flat(ss, m, f)
                BY <3>7 DEF Flat, At
            <3> QED
                BY <3>8, <2>2
        <2> QED
            BY <2>3, <2>4
    <1>2. n \notin S
        BY <1>1
    <1> QED
        BY <1>2

\* Flattening makes one set of entries of all.
LEMMA Flattened ==
    ASSUME NEW S, NEW ss \in Seq(Seq(S))
    PROVE  /\ L!FlattenSeq(ss) \in Seq(S)
           /\ Entries(L!FlattenSeq(ss)) = UNION {Entries(ss[i]) : i \in 1 .. Len(ss)}
    <1> DEFINE n == Len(ss)
    <1>0. n \in Nat /\ \A i \in 1 .. n : ss[i] \in Seq(S)
        OBVIOUS
    <1>1. CASE n = 0
        <2>1. L!FlattenSeq(ss) = ss /\ ss = <<>>
            BY <1>1 DEF L!FlattenSeq
        <2>2. 1 .. n = {}
            BY <1>1
        <2> QED
            BY <2>1, <2>2 DEF Entries
    <1>2. CASE n # 0
        <2> DEFINE g == CHOOSE f : Flat(ss, n, f)
                   Good(i) == /\ g[i] \in Seq(S)
                              /\ Entries(g[i]) = UNION {Entries(ss[j]) : j \in 1 .. i}
        <2>1. Flat(ss, n, g)
            BY FlatExists, <1>0
        <2>2. L!FlattenSeq(ss) = g[n]
            BY <1>2 DEF L!FlattenSeq, Flat
        <2> HIDE DEF g
        <2>3. \A i \in 1 .. n : g[i] = IF i = 1 THEN ss[i] ELSE g[i - 1] \o ss[i]
            BY <2>1 DEF Flat
        <2> HIDE DEF n
        <2> DEFINE B == {i \in 1 .. n : ~Good(i)}
        <2>4. B = {}
            <3> SUFFICES ASSUME B # {} PROVE FALSE
                OBVIOUS
            <3>1. B \in SUBSET Nat
                BY <1>0
            <3>2. PICK i \in B : \A j \in B : i <= j
                BY <3>1, Least
            <3>3. i \in 1 .. n /\ ~Good(i)
                OBVIOUS
            <3>4. CASE i = 1
                <4>1. g[i] = ss[i] /\ ss[i] \in Seq(S)
                    BY <3>3, <3>4, <2>3, <1>0
                <4>2. 1 .. i = {i}
                    BY <3>4
                <4> QED
                    BY <4>1, <4>2, <3>3
            <3>5. CASE i # 1
                <4>1. i - 1 \in 1 .. n /\ ~(i <= i - 1) /\ 1 .. i = 1 .. i - 1 \cup {i}
                    BY <3>3, <3>5, <1>0
                <4>2. Good(i - 1)
                    BY <4>1, <3>2
                <4>3. g[i] = g[i - 1] \o ss[i] /\ ss[i] \in Seq(S)
                    BY <3>3, <3>5, <2>3, <1>0
                <4>4. g[i] \in Seq(S) /\ Entries(g[i]) = Entries(g[i - 1]) \cup Entries(ss[i])
                    BY <4>2, <4>3, Concatenation
                <4>5. UNION {Entries(ss[j]) : j \in 1 .. i}
                          = (UNION {Entries(ss[j]) : j \in 1 .. i - 1}) \cup Entries(ss[i])
                    BY <4>1
                <4> QED
                    BY <4>2, <4>4, <4>5, <3>3
            <3> QED
                BY <3>4, <3>5
        <2>5. Good(n)
            <3>1. n \in 1 .. n
                BY <1>0, <1>2
            <3> QED
                BY <3>1, <2>4
        <2> QED
            BY <2>2, <2>5 DEF n
    <1> QED
        BY <1>1, <1>2

\* A number of whole pages further.
LEMMA PagesOn ==
    ASSUME NEW a \in Nat, NEW k \in Nat
    PROVE  (a + k * PageSize) \div PageSize = a \div PageSize + k
    <1> DEFINE q == a \div PageSize
               z == PageSize * k
               w == PageSize * q
    <1>1. q \in Nat /\ a = w + (a % PageSize) /\ a % PageSize \in 0 .. PageSize - 1
        BY Positive, Quotient
    <1>2. z \in Nat /\ k * PageSize = z /\ w \in Nat /\ PageSize * (q + k) = w + z
        BY <1>1, Positive, Product, Distribution
    <1>3. PageSize * (q + k) <= a + z /\ a + z < PageSize * (q + k) + PageSize
        <2> HIDE DEF w, z
        <2> QED
            BY <1>1, <1>2, Positive
    <1> QED
        <2> HIDE DEF q, w, z
        <2>0. a + z \in Nat /\ q + k \in Nat
            BY <1>1, <1>2
        <2>1. (a + z) \div PageSize = q + k
            BY <2>0, <1>1, <1>2, <1>3, Positive, QuotientIs
        <2> QED
            BY <2>1, <1>2 DEF q

\* How many pages a size takes.
LEMMA PageCountIs ==
    ASSUME NEW size \in Nat \ {0}
    PROVE  /\ L!PageCount(size) \in Nat \ {0}
           /\ L!PageCount(size) - 1 = (size - 1) \div PageSize
           /\ PageSize * (L!PageCount(size) - 1) <= size - 1
    <1>1. size - 1 \in Nat /\ size + PageSize - 1 = (size - 1) + 1 * PageSize
        BY Positive
    <1>2. L!PageCount(size) = (size - 1) \div PageSize + 1
        BY <1>1, PagesOn DEF L!PageCount
    <1>3. (size - 1) \div PageSize \in Nat
        BY <1>1, Positive, Quotient
    <1>4. PageSize * ((size - 1) \div PageSize) <= size - 1
        BY <1>1, Positive, Quotient
    <1> QED
        BY <1>2, <1>3, <1>4

\* What vmm_init() maps for one region.
LEMMA RegionCalls ==
    ASSUME NEW r \in L!Region
    PROVE  LET count == L!PageCount(r.length)
               s == [n \in 1 .. 2 * count |->
                        LET f == (r.base + ((n - 1) \div 2) * PageSize) \div PageSize
                        IN  [frame |-> f, page |-> IF n % 2 = 1 THEN f ELSE f + PhysOffset]]
           IN  /\ s \in Seq([frame : Nat, page : Nat])
               /\ Entries(s) = UNION {Both(f) : f \in RegionPages(r)}
    <1> DEFINE count == L!PageCount(r.length)
               first == r.base \div PageSize
               s == [n \in 1 .. 2 * count |->
                        LET f == (r.base + ((n - 1) \div 2) * PageSize) \div PageSize
                        IN  [frame |-> f, page |-> IF n % 2 = 1 THEN f ELSE f + PhysOffset]]
    <1>1. r.base \in Nat /\ count \in Nat /\ first \in Nat /\ PhysOffset \in Nat
          /\ RegionPages(r) = first .. first + count - 1
        BY PageCountIs, Positive, Quotient DEF L!Region, RegionPages
    <1> HIDE DEF count
    <1>2. ASSUME NEW n \in 1 .. 2 * count
          PROVE  LET k == (n - 1) \div 2
                 IN  /\ k \in 0 .. count - 1 /\ first + k \in RegionPages(r)
                     /\ s[n] = [frame |-> first + k,
                                page |-> IF n % 2 = 1 THEN first + k ELSE first + k + PhysOffset]
                     /\ s[n] \in Both(first + k)
        <2> DEFINE k == (n - 1) \div 2
        <2>1. k \in Nat /\ k \in 0 .. count - 1
            BY <1>1
        <2> HIDE DEF k
        <2>2. (r.base + k * PageSize) \div PageSize = first + k
            BY <1>1, <2>1, PagesOn
        <2> HIDE DEF first
        <2>3. s[n] = [frame |-> first + k,
                      page |-> IF n % 2 = 1 THEN first + k ELSE first + k + PhysOffset]
            BY <2>2 DEF k
        <2>4. first + k \in RegionPages(r)
            BY <1>1, <2>1
        <2>5. s[n] \in Both(first + k)
            <3> HIDE DEF s
            <3> QED
                BY <2>3 DEF Both
        <2> QED
            BY <2>1, <2>3, <2>4, <2>5 DEF k
    <1>3. ASSUME NEW f \in RegionPages(r), NEW c \in Both(f)
          PROVE  \E n \in 1 .. 2 * count : s[n] = c
        <2> DEFINE k == f - first
                   n == IF c.page = f THEN 2 * k + 1 ELSE 2 * k + 2
        <2>1. k \in 0 .. count - 1 /\ f = first + k /\ f \in Nat
            BY <1>1
        <2> HIDE DEF k
        <2>2. c \in {[frame |-> f, page |-> f], [frame |-> f, page |-> f + PhysOffset]}
            BY DEF Both
        <2>3. n \in 1 .. 2 * count /\ (n - 1) \div 2 = k /\ (n % 2 = 1 <=> c.page = f)
            BY <2>1, <1>1
        <2> HIDE DEF n, s, first
        <2>4. s[n] = [frame |-> first + k,
                      page |-> IF n % 2 = 1 THEN first + k ELSE first + k + PhysOffset]
            BY <2>3, <1>2
        <2>5. s[n] = c
            BY <2>1, <2>2, <2>3, <2>4
        <2> QED
            BY <2>3, <2>5
    <1>4. s \in Seq([frame : Nat, page : Nat]) /\ Len(s) = 2 * count
        <2>1. \A n \in 1 .. 2 * count : s[n] \in [frame : Nat, page : Nat]
            <3> HIDE DEF s
            <3>1. ASSUME NEW n \in 1 .. 2 * count PROVE s[n] \in [frame : Nat, page : Nat]
                <4>1. PICK k \in Nat :
                        s[n] = [frame |-> first + k,
                                page |-> IF n % 2 = 1 THEN first + k ELSE first + k + PhysOffset]
                    BY <1>2
                <4> QED
                    BY <4>1, <1>1
            <3> QED
                BY <3>1
        <2> QED
            BY <2>1, <1>1
    <1>5. Entries(s) = {s[n] : n \in 1 .. 2 * count}
        BY <1>4 DEF Entries
    <1>6. Entries(s) = UNION {Both(f) : f \in RegionPages(r)}
        <2> HIDE DEF s
        <2>1. ASSUME NEW n \in 1 .. 2 * count PROVE \E f \in RegionPages(r) : s[n] \in Both(f)
            BY <1>2
        <2> QED
            BY <1>3, <1>5, <2>1
    <1> QED
        BY <1>4, <1>6 DEF count

\* The calls of vmm_init().
LEMMA VmmMappingsAre ==
    ASSUME machine \in L!Machine
    PROVE  /\ L!VmmMappings(machine.memmap) \in Seq([frame : Nat, page : Nat])
           /\ Entries(L!VmmMappings(machine.memmap)) = VmmCalls
    <1> DEFINE Request == [frame : Nat, page : Nat]
               mm == machine.memmap
               Of(r) ==
                   [n \in 1 .. 2 * L!PageCount(r.length) |->
                       LET f == (r.base + ((n - 1) \div 2) * PageSize) \div PageSize
                       IN  [frame |-> f, page |-> IF n % 2 = 1 THEN f ELSE f + PhysOffset]]
               low == [n \in 1 .. IdentityPages |-> [frame |-> n - 1, page |-> n - 1]]
               ss == [i \in DOMAIN mm |-> Of(mm[i])]
    <1>1. mm \in Seq(L!Region) /\ DOMAIN mm = 1 .. Len(mm) /\ Len(mm) \in Nat
        BY DEF L!Machine
    <1>2. ASSUME NEW i \in 1 .. Len(mm)
          PROVE  ss[i] \in Seq(Request) /\ Entries(ss[i]) = UNION {Both(f) : f \in RegionPages(mm[i])}
        <2>1. mm[i] \in L!Region
            BY <1>1
        <2> QED
            BY <2>1, <1>1, RegionCalls
    <1> HIDE DEF Of
    <1>3. ss \in Seq(Seq(Request)) /\ Len(ss) = Len(mm)
        <2> HIDE DEF Request, mm
        <2>1. DOMAIN ss = 1 .. Len(mm) /\ ss = [i \in 1 .. Len(mm) |-> ss[i]]
            BY <1>1
        <2> HIDE DEF ss
        <2>2. \A i \in 1 .. Len(mm) : ss[i] \in Seq(Request)
            BY <1>2
        <2> QED
            BY <1>1, <2>1, <2>2
    <1>4. low \in Seq(Request) /\ Entries(low) = Low
        <2>1. low \in Seq(Request) /\ Len(low) = IdentityPages
            <3>1. \A n \in 1 .. IdentityPages : low[n] \in Request
                BY Positive
            <3> HIDE DEF Request
            <3> QED
                BY <3>1, Positive
        <2>2. Entries(low) = {low[n] : n \in 1 .. IdentityPages}
            BY <2>1 DEF Entries
        <2>3. ASSUME NEW f \in 0 .. IdentityPages - 1
              PROVE  \E n \in 1 .. IdentityPages : low[n] = [frame |-> f, page |-> f]
            <3>1. f + 1 \in 1 .. IdentityPages /\ (f + 1) - 1 = f
                BY Positive
            <3>2. low[f + 1] = [frame |-> f, page |-> f]
                BY <3>1
            <3> QED
                BY <3>1, <3>2
        <2>4. ASSUME NEW n \in 1 .. IdentityPages
              PROVE  n - 1 \in 0 .. IdentityPages - 1
                     /\ low[n] = [frame |-> n - 1, page |-> n - 1]
            BY Positive
        <2> HIDE DEF low
        <2> QED
            BY <2>1, <2>2, <2>3, <2>4 DEF Low
    <1>5. L!VmmMappings(mm) = low \o L!FlattenSeq(ss)
        BY DEF L!VmmMappings, Of
    <1> HIDE DEF low, ss, Request, mm
    <1>6. /\ L!FlattenSeq(ss) \in Seq(Request)
          /\ Entries(L!FlattenSeq(ss)) = UNION {Entries(ss[i]) : i \in 1 .. Len(ss)}
        BY <1>3, Flattened
    <1>7. L!VmmMappings(mm) \in Seq(Request)
          /\ Entries(L!VmmMappings(mm)) = Low \cup UNION {Entries(ss[i]) : i \in 1 .. Len(ss)}
        BY <1>4, <1>5, <1>6, Concatenation
    <1>8. UNION {Entries(ss[i]) : i \in 1 .. Len(ss)}
              = UNION {UNION {Both(f) : f \in RegionPages(mm[i])} : i \in DOMAIN mm}
        BY <1>1, <1>2, <1>3
    <1> QED
        BY <1>7, <1>8 DEF VmmCalls, Request, mm

\* Those of _start() for the image.
LEMMA ImageMappingsAre ==
    ASSUME LoaderInv
    PROVE  /\ L!ImageMappings \in Seq([frame : Nat, page : Nat])
           /\ Entries(L!ImageMappings) = ImageCalls
    <1> DEFINE s == L!ImageMappings
               count == L!PageCount(machine.size)
               first == args.stolen_memory_base \div PageSize
    <1>1. count \in Nat /\ first \in Nat /\ KernelOffset \in Nat
        BY PageCountIs, Positive, Quotient DEF LoaderInv, L!Machine
    <1>2. s = [n \in 1 .. count |-> [frame |-> first + n - 1, page |-> KernelOffset + n - 1]]
        BY DEF L!ImageMappings
    <1>3. ImageCalls = {[frame |-> first + n, page |-> KernelOffset + n] : n \in 0 .. count - 1}
        BY DEF ImageCalls, ImagePage, Copy
    <1> HIDE DEF s, count, first
    <1>4. s \in Seq([frame : Nat, page : Nat]) /\ Len(s) = count
        BY <1>1, <1>2
    <1>5. Entries(s) = {s[n] : n \in 1 .. count}
        BY <1>4 DEF Entries
    <1>6. ASSUME NEW n \in 0 .. count - 1
          PROVE  \E k \in 1 .. count : s[k] = [frame |-> first + n, page |-> KernelOffset + n]
        <2>1. n + 1 \in 1 .. count /\ first + (n + 1) - 1 = first + n
              /\ KernelOffset + (n + 1) - 1 = KernelOffset + n
            BY <1>1
        <2>2. s[n + 1] = [frame |-> first + n, page |-> KernelOffset + n]
            BY <2>1, <1>2
        <2> QED
            BY <2>1, <2>2
    <1>7. ASSUME NEW k \in 1 .. count
          PROVE  \E n \in 0 .. count - 1 : s[k] = [frame |-> first + n, page |-> KernelOffset + n]
        <2>1. k - 1 \in 0 .. count - 1 /\ first + k - 1 = first + (k - 1)
              /\ KernelOffset + k - 1 = KernelOffset + (k - 1)
            BY <1>1
        <2>2. s[k] = [frame |-> first + (k - 1), page |-> KernelOffset + (k - 1)]
            BY <2>1, <1>2
        <2> QED
            BY <2>1, <2>2
    <1> QED
        BY <1>3, <1>4, <1>5, <1>6, <1>7 DEF s

LEMMA QuotientMonotone ==
    ASSUME NEW a \in Nat, NEW b \in Nat, a <= b
    PROVE  a \div PageSize <= b \div PageSize
    <1> DEFINE q == a \div PageSize
               d == b \div PageSize
    <1>1. q \in Nat /\ d \in Nat /\ PageSize * q <= a /\ b < PageSize * d + PageSize
        <2>1. q \in Nat /\ PageSize * q <= a
            BY Positive, Quotient
        <2>2. d \in Nat /\ b < PageSize * d + PageSize
            BY Positive, Quotient
        <2> QED
            BY <2>1, <2>2
    <1> HIDE DEF q, d
    <1>2. PageSize * q < PageSize * (d + 1)
        <2>1. PageSize * (d + 1) = PageSize * d + PageSize
            BY <1>1, Positive
        <2>2. PageSize * q \in Nat /\ PageSize * d \in Nat
            BY <1>1, Positive, Product
        <2> QED
            BY <1>1, <2>1, <2>2, Positive
    <1>3. q < d + 1
        BY <1>1, <1>2, Positive
    <1> QED
        BY <1>1, <1>3 DEF q, d

\* A block inside of the region is made of pages of the region.
LEMMA BlockHome ==
    ASSUME machine \in L!Machine, Bootable(machine), NEW i \in L!Longest(machine.memmap),
           NEW a \in Nat, NEW size \in Nat \ {0}, machine.memmap[i].base <= a,
           a + size <= machine.memmap[i].base + machine.memmap[i].length
    PROVE  L!PagesOf(a, size) \subseteq Home
    <1> DEFINE r == machine.memmap[i]
               x == r.base \div PageSize
               y == (r.length - 1) \div PageSize
    <1>1. r \in L!Region /\ r.base % PageSize = 0
        BY OneLongest DEF Bootable
    <1>2. r.base \in Nat /\ r.length \in Nat \ {0} /\ r.length - 1 \in Nat
        BY <1>1 DEF L!Region
    <1>8. r.base <= a /\ a + size <= r.base + r.length
        OBVIOUS
    <1>3. x \in Nat /\ y \in Nat /\ r.base = x * PageSize
          /\ RegionPages(r) = x .. x + y
        <2>1. x \in Nat /\ r.base = PageSize * x + (r.base % PageSize)
            BY <1>2, Positive, Quotient
        <2>2. y \in Nat /\ L!PageCount(r.length) - 1 = y /\ L!PageCount(r.length) \in Nat
            BY <1>2, Positive, Quotient, PageCountIs
        <2>3. r.base = x * PageSize
            BY <2>1, <1>1, Positive
        <2> HIDE DEF x, y
        <2>4. x + L!PageCount(r.length) - 1 = x + y
            BY <2>1, <2>2
        <2> QED
            BY <2>1, <2>2, <2>3, <2>4 DEF RegionPages, x
    <1> HIDE DEF r
    <1>4. (r.base + r.length - 1) \div PageSize = x + y
        <2>1. r.base + r.length - 1 = (r.length - 1) + x * PageSize
            BY <1>2, <1>3
        <2>2. ((r.length - 1) + x * PageSize) \div PageSize = y + x
            BY <1>2, <1>3, PagesOn
        <2> HIDE DEF x, y
        <2> QED
            BY <2>1, <2>2, <1>3
    <1>5. x <= a \div PageSize /\ (a + size - 1) \div PageSize <= x + y
        <2>1. a + size - 1 \in Nat /\ r.base + r.length - 1 \in Nat
              /\ a + size - 1 <= r.base + r.length - 1 /\ r.base <= a
            BY <1>2, <1>8
        <2> QED
            BY <2>1, <1>2, <1>4, QuotientMonotone
    <1>6. a \div PageSize \in Nat /\ (a + size - 1) \div PageSize \in Nat
        <2>1. a + size - 1 \in Nat
            OBVIOUS
        <2> QED
            BY <2>1, Positive, Quotient
    <1> HIDE DEF x, y
    <1>7. L!PagesOf(a, size) \subseteq RegionPages(r)
        <2> SUFFICES ASSUME NEW p \in a \div PageSize .. (a + size - 1) \div PageSize
                     PROVE  p \in x .. x + y
            BY <1>3 DEF L!PagesOf
        <2> QED
            BY <1>3, <1>5, <1>6
    <1> QED
        BY <1>7 DEF Home, r

\* What vmm_init() maps lies below KERNEL_OFFSET.
LEMMA VmmCallIs ==
    ASSUME machine \in L!Machine, Bootable(machine), NEW c \in VmmCalls
    PROVE  /\ c \in [frame : Nat, page : Nat] /\ c.page < KernelOffset
           /\ \/ c.page = c.frame /\ c.page < PhysOffset
              \/ c.page = c.frame + PhysOffset
    <1>0. /\ {IdentityPages, PhysOffset, KernelOffset} \subseteq Nat
          /\ IdentityPages <= PhysOffset /\ PhysOffset <= KernelOffset
        BY Positive DEF Bootable
    <1>1. CASE c \in Low
        <2>1. PICK f \in 0 .. IdentityPages - 1 : c = [frame |-> f, page |-> f]
            BY <1>1 DEF Low
        <2> QED
            BY <2>1, <1>0
    <1>2. CASE c \notin Low
        <2>1. PICK i \in DOMAIN machine.memmap : \E f \in RegionPages(machine.memmap[i]) : c \in Both(f)
            BY <1>2 DEF VmmCalls
        <2>2. PICK f \in RegionPages(machine.memmap[i]) : c \in Both(f)
            BY <2>1
        <2>3. f < PhysOffset /\ f + PhysOffset < KernelOffset
            BY <2>2 DEF Bootable
        <2>4. f \in Nat
            <3>1. machine.memmap[i] \in L!Region
                BY DEF L!Machine
            <3>2. machine.memmap[i].base \div PageSize \in Nat
                BY <3>1, Positive, Quotient DEF L!Region
            <3>3. L!PageCount(machine.memmap[i].length) \in Nat
                BY <3>1, PageCountIs DEF L!Region
            <3> QED
                BY <2>2, <3>2, <3>3 DEF RegionPages
        <2>5. c = [frame |-> f, page |-> f] \/ c = [frame |-> f, page |-> f + PhysOffset]
            BY <2>2 DEF Both
        <2> QED
            BY <2>3, <2>4, <2>5, <1>0
    <1> QED
        BY <1>1, <1>2

\* What _start() maps for the image lies above it, within the tables' reach.
LEMMA ImageCallIs ==
    ASSUME LoaderInv, Bootable(machine), NEW c \in ImageCalls
    PROVE  /\ c \in [frame : Nat, page : Nat] /\ c.page >= KernelOffset /\ c.page < Fan ^ Levels
           /\ c.frame = args.stolen_memory_base \div PageSize + (c.page - KernelOffset)
    <1>1. PICK n \in Copy : c = [frame |-> ImagePage(n), page |-> KernelOffset + n]
        BY DEF ImageCalls
    <1>2. /\ args.stolen_memory_base \div PageSize \in Nat /\ KernelOffset \in Nat
          /\ L!PageCount(machine.size) \in Nat
          /\ KernelOffset + L!PageCount(machine.size) <= Fan ^ Levels
        BY PageCountIs, Positive, Quotient DEF LoaderInv, L!Machine, Bootable
    <1>3. Fan ^ Levels \in Nat
        BY Positive, PowerAssumption
    <1> DEFINE x == args.stolen_memory_base \div PageSize
               y == Fan ^ Levels
    <1> HIDE DEF x, y
    <1> QED
        BY <1>1, <1>2, <1>3 DEF Copy, ImagePage, x, y

\* Each page is mapped to one frame.
LEMMA CallsAgree ==
    ASSUME LoaderInv, Bootable(machine)
    PROVE  /\ \A c \in Calls : c \in [frame : Nat, page : Nat] /\ c.page < Fan ^ Levels
           /\ \A c, d \in Calls : c.page = d.page => c.frame = d.frame
           /\ VmmCalls \cap ImageCalls = {}
    <1>0. /\ machine \in L!Machine /\ args.stolen_memory_base \div PageSize \in Nat
          /\ Fan ^ Levels \in Nat /\ L!PageCount(machine.size) \in Nat
          /\ KernelOffset + L!PageCount(machine.size) <= Fan ^ Levels
          /\ {PhysOffset, KernelOffset} \subseteq Nat
        <2>1. Fan ^ Levels \in Nat
            BY Positive, PowerAssumption
        <2>2. KernelOffset + L!PageCount(machine.size) <= Fan ^ Levels
            BY DEF Bootable
        <2>3. machine \in L!Machine /\ machine.size \in Nat \ {0} /\ args.stolen_memory_base \in Nat
            BY DEF LoaderInv, L!Machine
        <2> QED
            BY <2>1, <2>2, <2>3, PageCountIs, Positive, Quotient
    <1> DEFINE x == args.stolen_memory_base \div PageSize
               y == Fan ^ Levels
    <1>1. ASSUME NEW c \in VmmCalls
          PROVE  /\ c \in [frame : Nat, page : Nat] /\ c.page < KernelOffset
                 /\ \/ c.page = c.frame /\ c.page < PhysOffset
                    \/ c.page = c.frame + PhysOffset
        BY <1>0, VmmCallIs
    <1>2. ASSUME NEW c \in ImageCalls
          PROVE  /\ c \in [frame : Nat, page : Nat] /\ c.page >= KernelOffset /\ c.page < y
                 /\ c.frame = x + (c.page - KernelOffset)
        BY ImageCallIs
    <1>3. x \in Nat /\ y \in Nat /\ KernelOffset <= y
        BY <1>0
    <1> HIDE DEF x, y
    <1>4. \A c \in Calls : c \in [frame : Nat, page : Nat] /\ c.page < y
        BY <1>0, <1>1, <1>2, <1>3 DEF Calls
    <1>5. VmmCalls \cap ImageCalls = {}
        BY <1>0, <1>1, <1>2
    <1>6. ASSUME NEW c \in Calls, NEW d \in Calls, c.page = d.page PROVE c.frame = d.frame
        <2>1. CASE c \in VmmCalls /\ d \in VmmCalls
            BY <1>0, <1>1, <1>6, <2>1
        <2>2. CASE c \in ImageCalls /\ d \in ImageCalls
            BY <1>0, <1>2, <1>3, <1>6, <2>2
        <2>3. CASE c \in VmmCalls /\ d \in ImageCalls
            BY <1>0, <1>1, <1>2, <1>6, <2>3
        <2>4. CASE c \in ImageCalls /\ d \in VmmCalls
            BY <1>0, <1>1, <1>2, <1>6, <2>4
        <2> QED
            BY <2>1, <2>2, <2>3, <2>4 DEF Calls
    <1> QED
        BY <1>4, <1>5, <1>6 DEF y

\* What the loader uses is among what vmm_init() maps to itself.
LEMMA IdentityCall ==
    ASSUME machine \in L!Machine, Bootable(machine), NEW p \in Home \cup Foreign(machine)
    PROVE  p \in Nat /\ [frame |-> p, page |-> p] \in VmmCalls
    <1>1. ASSUME NEW i \in DOMAIN machine.memmap, p \in RegionPages(machine.memmap[i])
          PROVE  [frame |-> p, page |-> p] \in VmmCalls
        BY <1>1 DEF VmmCalls, Both
    <1>2. [frame |-> p, page |-> p] \in VmmCalls
        <2>1. CASE p \in Home
            <3>1. PICK i \in L!Longest(machine.memmap) : p \in RegionPages(machine.memmap[i])
                BY <2>1 DEF Home
            <3> QED
                BY <3>1, <1>1, OneLongest
        <2>2. CASE p \in Foreign(machine)
            <3>1. p \in Nat
                <4>1. machine.begin \in Nat /\ machine.size \in Nat \ {0} /\ machine.fb \subseteq Nat
                    BY DEF L!Machine
                <4>2. machine.begin \div PageSize \in Nat
                      /\ (machine.begin + machine.size - 1) \div PageSize \in Nat
                    <5>1. machine.begin + machine.size - 1 \in Nat
                        BY <4>1
                    <5> QED
                        BY <4>1, <5>1, Positive, Quotient
                <4> QED
                    BY <2>2, <4>1, <4>2 DEF Foreign, L!PagesOf
            <3>2. p < IdentityPages \/ \E i \in DOMAIN machine.memmap : p \in RegionPages(machine.memmap[i])
                BY <2>2 DEF Bootable
            <3>3. CASE p < IdentityPages
                BY <3>1, <3>3, Positive DEF VmmCalls, Low
            <3> QED
                BY <1>1, <3>2, <3>3
        <2> QED
            BY <2>1, <2>2
    <1>3. p \in Nat
        <2>1. [frame |-> p, page |-> p] \in [frame : Nat, page : Nat]
            BY <1>2, VmmCallIs
        <2>2. [frame |-> p, page |-> p].page \in Nat
            BY <2>1
        <2> QED
            BY <2>2
    <1> QED
        BY <1>2, <1>3

\* What the loader itself uses is where it was, before and after CR3 is loaded.
LEMMA Reaches ==
    ASSUME LoaderInv, Bootable(machine), SpaceInv, NEW p \in Home \cup Foreign(machine)
    PROVE  L!Reach(p) = {p} /\ (loaded => L!Translate(p) = {p})
    <1> DEFINE c == [frame |-> p, page |-> p]
    <1>1. p \in Nat /\ c \in VmmCalls
        BY IdentityCall DEF LoaderInv
    <1>2. ASSUME loaded PROVE L!Translate(p) = {p}
        <2>1. at \notin Early
            BY <1>2 DEF SpaceInv, StageInv
        <2>2. PICK T, lev, pre : Tree(T, lev, pre)
            BY <2>1 DEF SpaceInv
        <2>3. c \notin Todo
            BY <1>1, <1>2, CallsAgree DEF SpaceInv, StageInv
        <2>4. Mapped(tables, T, lev, pre, c)
            BY <1>1, <2>2, <2>3 DEF Tree
        <2>5. c.page = p /\ c.frame = p
            OBVIOUS
        <2> HIDE DEF c
        <2> QED
            BY <1>1, <2>2, <2>4, <2>5, TranslateMapped DEF Tree
    <1> QED
        BY <1>2 DEF L!Reach

LEMMA CallsSame ==
    ASSUME machine' = machine
    PROVE  /\ VmmCalls' = VmmCalls /\ Copy' = Copy
           /\ args'.stolen_memory_base = args.stolen_memory_base =>
                 ImageCalls' = ImageCalls /\ Calls' = Calls /\ \A n : ImagePage(n)' = ImagePage(n)
    BY DEF VmmCalls, Copy, ImageCalls, Calls, ImagePage

\* A step that leaves the tree and the calls to come alone.
LEMMA TreeKept ==
    ASSUME NEW T, NEW lev, NEW pre, Tree(T, lev, pre), base \in Nat, base' \in Nat,
           base <= base', machine' = machine,
           args'.stolen_memory_base = args.stolen_memory_base,
           UNCHANGED <<pagemap, loaded, todo, walk>>, at' = "map" => at = "map",
           T \subseteq DOMAIN tables', \A t \in T : tables'[t] = tables[t]
    PROVE  Tree(T, lev, pre)'
    <1>1. /\ Shape(tables', pagemap, Calls, T, lev, pre)
          /\ \A c : Mapped(tables, T, lev, pre, c) => Mapped(tables', T, lev, pre, c)
        BY TreeApart DEF Tree
    <1>2. VmmCalls' = VmmCalls /\ ImageCalls' = ImageCalls /\ Calls' = Calls /\ Todo' = Todo
        BY CallsSame DEF Todo
    <1>3. Shape(tables, pagemap, Calls, T, lev, pre)'
        BY <1>1, <1>2 DEF Shape
    <1>4. \A t \in T : (t + 1) * PageSize <= base'
        <2>1. ASSUME NEW t \in T PROVE (t + 1) * PageSize <= base'
            <3>1. t \in Nat
                BY DEF Tree, Shape
            <3>2. (t + 1) * PageSize \in Nat /\ (t + 1) * PageSize <= base
                BY <3>1, Positive, Product DEF Tree
            <3> QED
                BY <3>2
        <2> QED
            BY <2>1
    <1>5. \A c \in (VmmCalls' \cup IF loaded' THEN ImageCalls' ELSE {}) \ Todo' :
              Mapped(tables', T, lev, pre, c)
        BY <1>1, <1>2 DEF Tree
    <1> QED
        BY <1>2, <1>3, <1>4, <1>5 DEF Tree

\* A block that is aligned to pages begins with one.
LEMMA AlignedBlock ==
    ASSUME base \in Nat, NEW size \in Nat \ {0}
    PROVE  LET b == L!Block(size, PageSize)
           IN  /\ b.first \in Nat /\ b.first >= base /\ b.size = size
               /\ b.first % PageSize = 0
               /\ b.first \div PageSize \in Nat /\ b.first = (b.first \div PageSize) * PageSize
    <1> DEFINE b == L!Block(size, PageSize)
    <1>1. b.first = AlignUp(base, PageSize) /\ b.size = size
        BY DEF L!Block, L!Align, AlignUp
    <1>2. b.first \in Nat /\ b.first >= base /\ b.first % PageSize = 0
        BY <1>1, AlignUpFacts, Positive
    <1> HIDE DEF b
    <1>3. /\ b.first \div PageSize \in Nat
          /\ b.first = PageSize * (b.first \div PageSize) + (b.first % PageSize)
        BY <1>2, Positive, Quotient
    <1>4. b.first = (b.first \div PageSize) * PageSize
        BY <1>2, <1>3, Positive
    <1> QED
        BY <1>1, <1>2, <1>3, <1>4 DEF b

\* One page has one number.
LEMMA OnePage ==
    ASSUME NEW t \in Nat
    PROVE  L!PagesOf(t * PageSize, PageSize) = {t}
    <1>1. (0 + t * PageSize) \div PageSize = 0 \div PageSize + t
          /\ ((PageSize - 1) + t * PageSize) \div PageSize = (PageSize - 1) \div PageSize + t
        <2>1. 0 \in Nat /\ PageSize - 1 \in Nat
            BY Positive
        <2>2. (0 + t * PageSize) \div PageSize = 0 \div PageSize + t
            BY <2>1, PagesOn
        <2>3. ((PageSize - 1) + t * PageSize) \div PageSize = (PageSize - 1) \div PageSize + t
            BY <2>1, PagesOn
        <2> QED
            BY <2>2, <2>3
    <1>2. 0 \div PageSize = 0 /\ (PageSize - 1) \div PageSize = 0
        <2>1. PageSize - 1 \in Nat /\ PageSize * 0 = 0
            BY Positive
        <2>2. 0 \div PageSize = 0
            BY <2>1, Positive, QuotientIs
        <2>3. (PageSize - 1) \div PageSize = 0
            BY <2>1, Positive, QuotientIs
        <2> QED
            BY <2>2, <2>3
    <1> DEFINE x == t * PageSize
    <1>3. x \in Nat
        BY Positive, Product
    <1> HIDE DEF x
    <1>4. 0 + x = x /\ x + PageSize - 1 = (PageSize - 1) + x
        BY <1>3, Positive
    <1>5. x \div PageSize = t /\ (x + PageSize - 1) \div PageSize = t
        BY <1>1, <1>2, <1>4 DEF x
    <1> QED
        BY <1>5 DEF L!PagesOf, x

\* The pages of a block that begins behind another page are other pages.
LEMMA PagesAbove ==
    ASSUME NEW a \in Nat, NEW size \in Nat \ {0}, NEW t \in Nat, (t + 1) * PageSize <= a,
           NEW p \in L!PagesOf(a, size)
    PROVE  p \in Nat /\ t < p
    <1>1. (0 + (t + 1) * PageSize) \div PageSize = 0 \div PageSize + (t + 1)
          /\ 0 \div PageSize = 0
        <2>1. PageSize * 0 = 0
            BY Positive
        <2>2. 0 \div PageSize = 0
            BY <2>1, Positive, QuotientIs
        <2> QED
            BY <2>2, PagesOn
    <1> DEFINE x == (t + 1) * PageSize
    <1>2. x \in Nat /\ x <= a
        BY Positive, Product
    <1> HIDE DEF x
    <1>3. x \div PageSize = t + 1
        <2>1. 0 + x = x
            BY <1>2
        <2> QED
            BY <2>1, <1>1 DEF x
    <1>4. t + 1 <= a \div PageSize /\ a \div PageSize \in Nat
        <2>1. x \div PageSize <= a \div PageSize
            BY <1>2, QuotientMonotone
        <2>2. a \div PageSize \in Nat
            BY Positive, Quotient
        <2> QED
            BY <2>1, <2>2, <1>3
    <1>5. (a + size - 1) \div PageSize \in Nat
        <2>1. a + size - 1 \in Nat
            OBVIOUS
        <2> QED
            BY <2>1, Positive, Quotient
    <1> QED
        BY <1>4, <1>5 DEF L!PagesOf

\* The state in which the loader's next step finds what it needs.
Ready == LoaderInv /\ PlacedInv /\ Bootable(machine) /\ SpaceInv

\* An allocation lies in the region, behind all that was allocated before, and goes
\* where its addresses say.
LEMMA AllocFacts ==
    ASSUME Ready, Within', machine' = machine, at # "pmm_init", NEW size \in Nat \ {0},
           NEW align \in Nat \ {0}, L!Allocz(L!Block(size, align))
    PROVE  LET b == L!Block(size, align)
               pages == L!PagesOf(b.first, size)
           IN  /\ b.first \in Nat /\ b.first >= base /\ b.size = size /\ base' = b.first + size
               /\ base \in Nat /\ base' \in Nat /\ base <= base'
               /\ pages \subseteq Home /\ L!Reached(pages) = pages
               /\ image' = L!Restrict(image, DOMAIN image \ pages)
               /\ \A t \in Nat : (t + 1) * PageSize <= base => t \notin pages
    <1> DEFINE b == L!Block(size, align)
               pages == L!PagesOf(b.first, size)
    <1>1. b.first \in Nat /\ b.first >= base /\ b.size = size /\ base \in Nat
        BY LoaderAlign DEF L!Block, LoaderInv, Ready
    <1>2. base' = b.first + size /\ image' = L!Restrict(image, DOMAIN image \ L!Reached(pages))
        BY DEF L!Allocz, L!Block
    <1> HIDE DEF b
    <1>3. PICK i \in L!Longest(machine.memmap) :
              base' <= machine.memmap[i].base + machine.memmap[i].length
        BY DEF Within
    <1>4. machine.memmap[i].base <= base /\ machine.memmap[i].base \in Nat /\ machine \in L!Machine
        <2>1. machine \in L!Machine
            BY DEF Ready, LoaderInv
        <2>2. machine.memmap[i] \in L!Region
            BY <2>1, OneLongest
        <2> QED
            BY <2>1, <2>2 DEF Ready, PlacedInv, L!Region
    <1>5. pages \subseteq Home
        <2>1. machine.memmap[i].base <= b.first
            BY <1>1, <1>4
        <2>2. b.first + size <= machine.memmap[i].base + machine.memmap[i].length
            BY <1>2, <1>3
        <2> QED
            BY <1>1, <1>4, <2>1, <2>2, BlockHome DEF Ready
    <1>6. L!Reached(pages) = pages
        <2>1. \A p \in pages : L!Reach(p) = {p}
            BY <1>5, Reaches DEF Ready
        <2> HIDE DEF pages
        <2> QED
            BY <2>1 DEF L!Reached
    <1>7. ASSUME NEW t \in Nat, (t + 1) * PageSize <= base PROVE t \notin pages
        <2>1. (t + 1) * PageSize \in Nat
            BY Positive, Product
        <2>2. (t + 1) * PageSize <= b.first
            BY <1>1, <1>7, <2>1
        <2>3. ASSUME t \in pages PROVE FALSE
            BY <1>1, <2>2, <2>3, PagesAbove
        <2> QED
            BY <2>3
    <1>8. base' \in Nat /\ base <= base'
        BY <1>1, <1>2
    <1> QED
        BY <1>1, <1>2, <1>5, <1>6, <1>7, <1>8 DEF b

\* The pages that are copied are the binary's.
LEMMA BinaryPage ==
    ASSUME machine \in L!Machine, NEW n \in Copy
    PROVE  machine.begin \div PageSize + n \in L!PagesOf(machine.begin, machine.size)
           /\ machine.begin \div PageSize + n \in Foreign(machine)
    <1> DEFINE x == machine.begin \div PageSize
               y == (machine.size - 1) \div PageSize
    <1>1. machine.begin \in Nat /\ machine.size \in Nat \ {0} /\ machine.size - 1 \in Nat
        BY DEF L!Machine
    <1>2. x \in Nat /\ y \in Nat /\ n \in 0 .. y
        BY <1>1, PageCountIs, Positive, Quotient DEF Copy
    <1>3. x + y <= (machine.begin + machine.size - 1) \div PageSize
        <2>1. /\ x * PageSize \in Nat /\ x * PageSize <= machine.begin
            <3>1. machine.begin = PageSize * x + (machine.begin % PageSize)
                  /\ machine.begin % PageSize \in Nat /\ PageSize * x \in Nat
                BY <1>1, Positive, Quotient
            <3> HIDE DEF x
            <3> QED
                BY <1>1, <1>2, <3>1, Positive
        <2>2. ((machine.size - 1) + x * PageSize) \div PageSize = y + x
            BY <1>1, <1>2, PagesOn
        <2> DEFINE z == x * PageSize
        <2> HIDE DEF z, x, y
        <2>3. (machine.size - 1) + z \in Nat /\ machine.begin + machine.size - 1 \in Nat
              /\ (machine.size - 1) + z <= machine.begin + machine.size - 1
            BY <1>1, <2>1 DEF z
        <2>4. ((machine.size - 1) + z) \div PageSize
                  <= (machine.begin + machine.size - 1) \div PageSize
            BY <2>3, QuotientMonotone
        <2> QED
            BY <1>2, <2>2, <2>4 DEF z
    <1>4. (machine.begin + machine.size - 1) \div PageSize \in Nat
        <2>1. machine.begin + machine.size - 1 \in Nat
            BY <1>1
        <2> QED
            BY <2>1, Positive, Quotient
    <1> HIDE DEF y
    <1>5. x + n \in x .. (machine.begin + machine.size - 1) \div PageSize
        <2> HIDE DEF x
        <2> QED
            BY <1>2, <1>3, <1>4
    <1> QED
        BY <1>5 DEF L!PagesOf, Foreign

LEMMA ForeignAway ==
    ASSUME Bootable(machine), NEW p \in Foreign(machine)
    PROVE  p \notin Home
    BY DEF Bootable, Home

\* The binary is where it was before an allocation.
LEMMA BinaryKept ==
    ASSUME machine \in L!Machine, Bootable(machine), BinaryThere, machine' = machine,
           NEW pages \in SUBSET Home, image' = L!Restrict(image, DOMAIN image \ pages)
    PROVE  BinaryThere'
    <1>1. ASSUME NEW n \in Copy
          PROVE  /\ machine.begin \div PageSize + n \in DOMAIN image'
                 /\ image'[machine.begin \div PageSize + n] = n
        <2> DEFINE p == machine.begin \div PageSize + n
        <2>1. p \in DOMAIN image /\ image[p] = n
            BY DEF BinaryThere
        <2>2. p \notin pages
            BY BinaryPage, ForeignAway
        <2> HIDE DEF p
        <2>3. p \in DOMAIN image' /\ image'[p] = n
            BY <2>1, <2>2 DEF L!Restrict
        <2> QED
            BY <2>3 DEF p
    <1> QED
        BY <1>1, CallsSame DEF BinaryThere

\* A table lies in the region, behind the image.
LEMMA TableHome ==
    ASSUME Ready, Within, NEW T, NEW lev, NEW pre, Tree(T, lev, pre), at \notin Early,
           NEW t \in T
    PROVE  t \in Nat /\ t \in Home /\ \A n \in Copy : ImagePage(n) # t /\ ImagePage(n) \in Home
    <1>1. t \in Nat /\ (t + 1) * PageSize <= base
          /\ args.stolen_memory_base + machine.size <= t * PageSize
        BY DEF Tree, Shape
    <1>2. PICK i \in L!Longest(machine.memmap) :
              base <= machine.memmap[i].base + machine.memmap[i].length
        BY DEF Within
    <1> DEFINE m == args.stolen_memory_base
               r == machine.memmap[i]
    <1>3. /\ machine \in L!Machine /\ m \in Nat /\ machine.size \in Nat \ {0} /\ base \in Nat
          /\ r \in L!Region /\ r.base <= m /\ m + machine.size <= base
          /\ m % PageSize = 0
        <2>1. machine \in L!Machine /\ m \in Nat /\ machine.size \in Nat \ {0} /\ base \in Nat
            BY DEF Ready, LoaderInv, L!Machine
        <2>2. r \in L!Region
            BY <2>1, OneLongest
        <2>3. r.base <= m
            BY DEF Ready, PlacedInv, Early
        <2>4. m % PageSize = 0 /\ m + machine.size <= base
            BY DEF Ready, SpaceInv, StageInv, Early
        <2> QED
            BY <2>1, <2>2, <2>3, <2>4
    <1>4. /\ r.base \in Nat /\ r.length \in Nat /\ t * PageSize \in Nat
          /\ (t + 1) * PageSize = t * PageSize + PageSize
        BY <1>1, <1>3, Positive, Product DEF L!Region
    <1> HIDE DEF r, m
    <1>5. t \in Home
        <2>1. r.base <= t * PageSize /\ t * PageSize + PageSize <= r.base + r.length
            BY <1>1, <1>2, <1>3, <1>4, Positive DEF r, m
        <2>2. L!PagesOf(t * PageSize, PageSize) \subseteq Home
            BY <1>3, <1>4, <2>1, Positive, BlockHome DEF r, Ready
        <2> QED
            BY <1>1, <2>2, OnePage
    <1>6. L!PagesOf(m, machine.size) \subseteq Home
        <2>1. m + machine.size <= r.base + r.length
            BY <1>2, <1>3, <1>4 DEF r
        <2> QED
            BY <1>3, <1>4, <2>1, BlockHome DEF r, Ready
    <1>7. ASSUME NEW n \in Copy PROVE ImagePage(n) # t /\ ImagePage(n) \in Home
        <2> DEFINE x == m \div PageSize
                   y == (machine.size - 1) \div PageSize
        <2>1. x \in Nat /\ m = x * PageSize /\ machine.size - 1 \in Nat
            <3>1. x \in Nat /\ m = PageSize * x + (m % PageSize)
                BY <1>3, Positive, Quotient
            <3> HIDE DEF x
            <3> QED
                BY <3>1, <1>3, Positive
        <2>2. y \in Nat /\ n \in 0 .. y
            BY <2>1, <1>3, PageCountIs, Positive, Quotient DEF Copy
        <2>3. (m + machine.size - 1) \div PageSize = y + x
            <3>1. ((machine.size - 1) + x * PageSize) \div PageSize = y + x
                BY <2>1, PagesOn
            <3>2. m + machine.size - 1 = (machine.size - 1) + x * PageSize
                <4> HIDE DEF x
                <4> QED
                    BY <2>1, <1>3
            <3> QED
                BY <3>1, <3>2
        <2> HIDE DEF x, y
        <2>4. ImagePage(n) = x + n /\ ImagePage(n) \in x .. y + x
            BY <2>1, <2>2 DEF ImagePage, x, m
        <2>5. ImagePage(n) \in L!PagesOf(m, machine.size)
            BY <2>3, <2>4 DEF L!PagesOf, x
        <2>6. y + x < t
            <3>1. (0 + t * PageSize) \div PageSize = 0 \div PageSize + t /\ 0 \div PageSize = 0
                <4>1. PageSize * 0 = 0
                    BY Positive
                <4>2. 0 \div PageSize = 0
                    BY <4>1, Positive, QuotientIs
                <4> QED
                    BY <4>2, <1>1, PagesOn
            <3> DEFINE z == PageSize * (y + x)
            <3>2. z \in Nat /\ z <= m + machine.size - 1 /\ m + machine.size - 1 \in Nat
                <4>1. m + machine.size - 1 \in Nat /\ y + x \in Nat
                    BY <1>3, <2>1, <2>2
                <4> DEFINE w == m + machine.size - 1
                <4>2. w = PageSize * (w \div PageSize) + (w % PageSize) /\ w % PageSize \in Nat
                      /\ PageSize * (w \div PageSize) \in Nat
                    BY <4>1, Positive, Quotient
                <4>3. w \div PageSize = y + x
                    BY <2>3
                <4> HIDE DEF w
                <4>4. w \in Nat
                    BY <4>1 DEF w
                <4>5. z \in Nat /\ z <= w
                    BY <4>2, <4>3, <4>4
                <4> QED
                    BY <4>1, <4>5 DEF w
            <3>3. z < t * PageSize
                <4> HIDE DEF z
                <4> QED
                    BY <3>2, <1>1, <1>3, <1>4 DEF m
            <3>4. y + x \in Nat
                BY <2>1, <2>2
            <3> DEFINE q == y + x
            <3> HIDE DEF q
            <3>5. PageSize * q < PageSize * t
                BY <3>3, <1>1, Positive DEF q
            <3>6. q < t
                BY <3>4, <3>5, <1>1, Positive DEF q
            <3> QED
                BY <3>6 DEF q
        <2> QED
            BY <1>1, <1>6, <2>1, <2>2, <2>4, <2>5, <2>6
    <1> QED
        BY <1>1, <1>5, <1>7

LEMMA PmmInitKeeps ==
    ASSUME LoaderInv, SpaceInv, L!PmmInit
    PROVE  SpaceInv'
    <1>1. /\ at = "pmm_init" /\ at' = "image"
          /\ UNCHANGED <<machine, tables, image, loaded, todo, args>>
        BY DEF L!PmmInit
    <1>2. /\ VmmCalls' = VmmCalls /\ Copy' = Copy /\ ImageCalls' = ImageCalls /\ Todo' = Todo
        BY <1>1, CallsSame DEF Todo
    <1>3. StageInv'
        BY <1>1, <1>2 DEF SpaceInv, StageInv, Early
    <1>4. ImageInv'
        BY <1>1, <1>2 DEF SpaceInv, ImageInv, BinaryThere, Early
    <1> QED
        BY <1>1, <1>3, <1>4 DEF SpaceInv, Early

LEMMA NothingToDo ==
    ASSUME todo = <<>>
    PROVE  Todo = {}
    BY DEF Todo, Entries

\* The memory for the image is taken first.
LEMMA AllocImageKeeps ==
    ASSUME Ready, Within', L!AllocImage
    PROVE  SpaceInv'
    <1> DEFINE b == L!Block(machine.size, PageSize)
               pages == L!PagesOf(b.first, machine.size)
    <1>0. machine \in L!Machine /\ machine.size \in Nat \ {0} /\ base \in Nat
        BY DEF Ready, LoaderInv, L!Machine
    <1>1. /\ at = "image" /\ at' = "pagemap" /\ UNCHANGED <<machine, loaded, todo>>
          /\ L!Allocz(b) /\ args' = [args EXCEPT !.stolen_memory_base = b.first]
        BY DEF L!AllocImage
    <1>2. /\ b.first \in Nat /\ base' = b.first + machine.size
          /\ pages \subseteq Home
          /\ image' = L!Restrict(image, DOMAIN image \ pages)
        BY <1>0, <1>1, Positive, AllocFacts
    <1>3. b.first % PageSize = 0
        BY <1>0, AlignedBlock
    <1>4. args'.stolen_memory_base = b.first
        BY <1>1 DEF Ready, LoaderInv
    <1> HIDE DEF b, pages
    <1>5. ~loaded /\ todo = <<>>
        BY <1>1 DEF Ready, SpaceInv, StageInv, Early
    <1>6. Todo' = {}
        BY <1>1, <1>5 DEF Todo, Entries
    <1>7. StageInv'
        <2>1. base' <= base' /\ args'.stolen_memory_base + machine'.size <= base'
            BY <1>0, <1>1, <1>2, <1>4
        <2> QED
            BY <1>1, <1>3, <1>4, <1>5, <1>6, <2>1 DEF StageInv, Early
    <1>8. BinaryThere'
        <2>1. BinaryThere
            BY <1>1 DEF Ready, SpaceInv, ImageInv, Early
        <2> QED
            BY <1>0, <1>1, <1>2, <2>1, BinaryKept DEF Ready
    <1>9. ImageInv'
        BY <1>1, <1>8 DEF ImageInv
    <1> QED
        BY <1>1, <1>7, <1>9 DEF SpaceInv, Early

\* A call of map_page begins at the root.
LEMMA AtTheRoot ==
    ASSUME LoaderInv, Bootable(machine), NEW c \in Calls
    PROVE  c.page \div Fan ^ Levels = 0
    <1>1. c.page \in Nat /\ c.page < Fan ^ Levels
        BY CallsAgree
    <1>2. Fan ^ Levels \in Nat \ {0}
        BY Positive, PowerAssumption
    <1> DEFINE y == Fan ^ Levels
    <1> HIDE DEF y
    <1>3. y \in Nat \ {0} /\ c.page < y /\ y * 0 = 0
        BY <1>1, <1>2 DEF y
    <1>4. c.page \div y = 0
        BY <1>1, <1>3, QuotientIs
    <1> QED
        BY <1>4 DEF y

\* The first of the calls and the others.
LEMMA HeadIsEntry ==
    ASSUME NEW S, NEW s \in Seq(S), s # <<>>
    PROVE  /\ Head(s) \in S /\ Head(s) \in Entries(s) /\ Tail(s) \in Seq(S)
           /\ Entries(Tail(s)) \subseteq Entries(s)
           /\ Entries(s) \subseteq {Head(s)} \cup Entries(Tail(s))
    <1>1. /\ Len(s) \in Nat \ {0} /\ Head(s) = s[1] /\ Head(s) \in S
          /\ Tail(s) \in Seq(S) /\ Len(Tail(s)) = Len(s) - 1
        OBVIOUS
    <1>2. \A i \in 1 .. Len(s) - 1 : Tail(s)[i] = s[i + 1]
        OBVIOUS
    <1>3. Head(s) \in Entries(s)
        BY <1>1 DEF Entries
    <1> DEFINE t == Tail(s)
               n == Len(s)
    <1>4. /\ n \in Nat \ {0} /\ Len(t) = n - 1 /\ Head(s) = s[1]
          /\ \A i \in 1 .. n - 1 : t[i] = s[i + 1]
        BY <1>1, <1>2
    <1>5. Entries(t) \subseteq Entries(s)
        <2> SUFFICES ASSUME NEW i \in 1 .. Len(t) PROVE t[i] \in Entries(s)
            BY DEF Entries
        <2>1. i \in 1 .. n - 1 /\ i + 1 \in 1 .. n
            BY <1>4
        <2> HIDE DEF t
        <2> QED
            BY <1>4, <2>1 DEF Entries
    <1>6. Entries(s) \subseteq {Head(s)} \cup Entries(t)
        <2> SUFFICES ASSUME NEW i \in 1 .. Len(s), s[i] # Head(s) PROVE s[i] \in Entries(t)
            BY DEF Entries
        <2> HIDE DEF t
        <2>1. i # 1 /\ i - 1 \in 1 .. n - 1 /\ (i - 1) + 1 = i
            BY <1>4
        <2>2. t[i - 1] = s[i]
            BY <1>4, <2>1
        <2> QED
            BY <1>4, <2>1, <2>2 DEF Entries
    <1> QED
        BY <1>1, <1>3, <1>5, <1>6

\* An empty root is a tree.
LEMMA RootAlone ==
    ASSUME NEW tabs, NEW root \in Nat, NEW calls, root \in DOMAIN tabs, tabs[root] = <<>>
    PROVE  Shape(tabs, root, calls, {root}, [t \in {root} |-> Levels], [t \in {root} |-> 0])
    <1>1. DOMAIN tabs[root] = {}
        <2>1. DOMAIN tabs[root] = 1 .. 0
            OBVIOUS
        <2> QED
            BY <2>1
    <1>2. Levels \in 1 .. Levels
        BY Positive
    <1> QED
        BY <1>1, <1>2 DEF Shape

\* The root table is empty, and all of vmm_init()'s calls are to come.
LEMMA AllocPagemapKeeps ==
    ASSUME Ready, Within', L!AllocPagemap
    PROVE  SpaceInv'
    <1> PICK root : root = L!Block(PageSize, PageSize).first \div PageSize
        OBVIOUS
    <1> DEFINE b == L!Block(PageSize, PageSize)
               pages == L!PagesOf(b.first, PageSize)
               lev == [t \in {root} |-> Levels]
               pre == [t \in {root} |-> 0]
    <1>0. machine \in L!Machine /\ machine.size \in Nat \ {0} /\ base \in Nat /\ LoaderInv
          /\ Bootable(machine) /\ args.stolen_memory_base \in Nat
        BY DEF Ready, LoaderInv, L!Machine
    <1>1. /\ at = "pagemap" /\ at' = "map" /\ UNCHANGED <<machine, loaded, args>>
          /\ L!Allocz(b) /\ b.size = PageSize
          /\ tables' = L!Cleared(L!PagesOf(b.first, b.size))
          /\ pagemap' = root /\ walk' = [level |-> Levels, table |-> pagemap']
          /\ todo' = L!VmmMappings(machine.memmap)
        BY DEF L!AllocPagemap, L!Block
    <1>2. /\ b.first \in Nat /\ b.first >= base /\ base' = b.first + PageSize
          /\ pages \subseteq Home /\ base' \in Nat /\ base <= base'
          /\ image' = L!Restrict(image, DOMAIN image \ pages)
        BY <1>0, <1>1, Positive, AllocFacts
    <1>3. root \in Nat /\ b.first = root * PageSize
        BY <1>0, Positive, AlignedBlock
    <1>4. pages = {root}
        BY <1>3, OnePage
    <1>5. ~loaded /\ args.stolen_memory_base % PageSize = 0
          /\ args.stolen_memory_base + machine.size <= base
        BY <1>1 DEF Ready, SpaceInv, StageInv, Early
    <1>6. todo' \in Seq([frame : Nat, page : Nat]) /\ Todo' = VmmCalls /\ VmmCalls' = VmmCalls
          /\ Calls' = Calls /\ ImageCalls' = ImageCalls
        <2>1. VmmCalls' = VmmCalls /\ Calls' = Calls /\ ImageCalls' = ImageCalls
            BY <1>1, CallsSame
        <2> QED
            BY <1>0, <1>1, <2>1, VmmMappingsAre DEF Todo
    <1> HIDE DEF b, pages
    <1>7. root \in DOMAIN tables' /\ tables'[root] = <<>>
        BY <1>1, <1>4 DEF L!Cleared, pages
    <1>8. Shape(tables', root, Calls, {root}, lev, pre)
        BY <1>3, <1>7, RootAlone
    <1>9. Tree({root}, lev, pre)'
        <2>1. Shape(tables, pagemap, Calls, {root}, lev, pre)'
            BY <1>1, <1>6, <1>8 DEF Shape
        <2>2. args'.stolen_memory_base + machine'.size <= root * PageSize
              /\ (root + 1) * PageSize <= base'
            <3>1. (root + 1) * PageSize = root * PageSize + PageSize
                BY <1>3, Positive
            <3>2. args.stolen_memory_base + machine.size <= b.first
                BY <1>0, <1>2, <1>5
            <3> QED
                BY <1>1, <1>2, <1>3, <3>1, <3>2
        <2>3. lev[walk'.table] = Levels /\ walk'.table = root /\ walk'.level = Levels
              /\ pre[walk'.table] = 0
            BY <1>1
        <2>4. ASSUME todo' # <<>> PROVE Head(todo').page \div Fan ^ Levels = 0
            <3>1. Head(todo') \in Calls
                BY <1>6, <2>4, HeadIsEntry DEF Todo, Calls
            <3> QED
                BY <1>0, <3>1, AtTheRoot
        <2>5. (VmmCalls' \cup IF loaded' THEN ImageCalls' ELSE {}) \ Todo' = {}
            BY <1>1, <1>5, <1>6
        <2> HIDE DEF lev, pre
        <2> QED
            BY <1>1, <2>1, <2>2, <2>3, <2>4, <2>5 DEF Tree
    <1>10. StageInv'
        <2>1. args'.stolen_memory_base + machine'.size <= base'
            BY <1>0, <1>1, <1>2, <1>5
        <2> QED
            BY <1>1, <1>5, <1>6, <2>1 DEF StageInv, Early
    <1>11. BinaryThere'
        <2>1. BinaryThere
            BY <1>1 DEF Ready, SpaceInv, ImageInv, Early
        <2> QED
            BY <1>0, <1>1, <1>2, <2>1, BinaryKept
    <1>12. ImageInv'
        BY <1>1, <1>11 DEF ImageInv
    <1> QED
        BY <1>9, <1>10, <1>12 DEF SpaceInv

\* The table that map_page() has reached is where walk says, and so is the call.
LEMMA Reached ==
    ASSUME Ready, Within, at = "map", NEW T, NEW lev, NEW pre, Tree(T, lev, pre)
    PROVE  /\ walk.table \in T /\ lev[walk.table] = walk.level /\ walk.table \in DOMAIN tables
           /\ walk.level \in 1 .. Levels
           /\ L!Reach(walk.table) = {walk.table}
           /\ todo # <<>> =>
                 /\ Head(todo) \in Calls /\ Head(todo) \in [frame : Nat, page : Nat]
                 /\ pre[walk.table] = Head(todo).page \div Fan ^ walk.level
    <1>1. walk.table \in T /\ lev[walk.table] = walk.level
        BY DEF Tree
    <1>2. walk.table \in DOMAIN tables /\ walk.level \in 1 .. Levels
        BY <1>1 DEF Tree, Shape
    <1>3. walk.table \in Home
        BY <1>1, TableHome DEF Early
    <1>4. L!Reach(walk.table) = {walk.table}
        BY <1>3, Reaches DEF Ready
    <1>5. ASSUME todo # <<>>
          PROVE  /\ Head(todo) \in Calls /\ Head(todo) \in [frame : Nat, page : Nat]
                 /\ pre[walk.table] = Head(todo).page \div Fan ^ walk.level
        <2>1. todo \in Seq([frame : Nat, page : Nat]) /\ Todo \subseteq Calls
            BY DEF Ready, SpaceInv, StageInv, Calls
        <2>2. Head(todo) \in Calls
            BY <1>5, <2>1, HeadIsEntry DEF Todo
        <2>3. Head(todo) \in [frame : Nat, page : Nat]
            BY <1>5, <2>1, HeadIsEntry
        <2> QED
            BY <1>5, <2>2, <2>3 DEF Tree
    <1> QED
        BY <1>1, <1>2, <1>4, <1>5

\* On to a table that is there.
LEMMA DescendThere ==
    ASSUME Ready, Within, L!Descend, NEW T, NEW lev, NEW pre, Tree(T, lev, pre),
           L!Entry(walk.table, L!Slot(Head(todo).page, walk.level)) # {}
    PROVE  Tree(T, lev, pre)' /\ UNCHANGED <<base, image>>
    <1> PICK t, l : t = walk.table /\ l = walk.level
        OBVIOUS
    <1> DEFINE page == Head(todo).page
               slot == L!Slot(page, l)
               u == tables[t][slot]
               x == page \div Fan ^ (l - 1)
    <1>1. at = "map" /\ todo # <<>> /\ l > 1
        BY DEF L!Descend
    <1>2. /\ t \in T /\ lev[t] = l /\ t \in DOMAIN tables /\ l \in 1 .. Levels
          /\ L!Reach(t) = {t} /\ page \in Nat /\ pre[t] = page \div Fan ^ l
        BY <1>1, Reached
    <1>3. (CHOOSE f \in L!Reach(t) : TRUE) = t
        BY <1>2
    <1>4. L!Entry(t, slot) # {} /\ slot \in DOMAIN tables[t] /\ L!Entry(t, slot) = {u}
        BY <1>2 DEF L!Entry
    <1>5. (CHOOSE f \in L!Entry(t, slot) : TRUE) = u
        BY <1>4
    <1>6. /\ walk' = [level |-> l - 1, table |-> u]
          /\ UNCHANGED <<base, tables, image, machine, at, pagemap, loaded, todo, args>>
        BY <1>3, <1>4, <1>5 DEF L!Descend
    <1>7. EntryRight(tables, Calls, T, lev, pre, t, slot)
        BY <1>2, <1>4, EntryIs DEF Tree
    <1>8. u \in T /\ lev[u] = l - 1 /\ pre[u] = pre[t] * Fan + slot
        BY <1>1, <1>2, <1>7, Positive DEF EntryRight
    <1>9. pre[u] = x
        <2>1. /\ x \in Nat /\ page \div Fan ^ l = x \div Fan /\ slot = x % Fan
            BY <1>2, Prefix
        <2> HIDE DEF x
        <2>2. x = Fan * (x \div Fan) + (x % Fan) /\ x \div Fan \in Nat
            BY <2>1, Positive, Quotient
        <2>3. pre[t] \in Nat /\ pre[t] * Fan = Fan * (x \div Fan)
            BY <1>2, <2>1, <2>2, Positive
        <2> QED
            BY <1>8, <2>1, <2>2, <2>3
    <1>10. VmmCalls' = VmmCalls /\ ImageCalls' = ImageCalls /\ Calls' = Calls /\ Todo' = Todo
        BY <1>6, CallsSame DEF Todo
    <1>11. /\ Shape(tables, pagemap, Calls, T, lev, pre)'
           /\ \A c \in (VmmCalls' \cup IF loaded' THEN ImageCalls' ELSE {}) \ Todo' :
                 Mapped(tables', T, lev, pre, c)
        BY <1>6, <1>10 DEF Tree, Shape
    <1>12. /\ walk'.table = u /\ walk'.level = l - 1
           /\ Head(todo').page \div Fan ^ (l - 1) = x
        BY <1>6
    <1> HIDE DEF u, x
    <1> QED
        BY <1>1, <1>6, <1>8, <1>9, <1>11, <1>12 DEF Tree

\* On to one that is made.
LEMMA DescendNew ==
    ASSUME Ready, Within, Within', L!Descend, NEW T, NEW lev, NEW pre, Tree(T, lev, pre),
           L!Entry(walk.table, L!Slot(Head(todo).page, walk.level)) = {}
    PROVE  /\ \E T2, lev2, pre2 : Tree(T2, lev2, pre2)'
           /\ base \in Nat /\ base' \in Nat /\ base <= base'
           /\ \E pages \in SUBSET Home : image' = L!Restrict(image, DOMAIN image \ pages)
    <1> PICK t, l, slot : t = walk.table /\ l = walk.level /\ slot = L!Slot(Head(todo).page, l)
        OBVIOUS
    <1> PICK new : new = L!Block(PageSize, PageSize).first \div PageSize
        OBVIOUS
    <1> DEFINE b == L!Block(PageSize, PageSize)
               page == Head(todo).page
               x == page \div Fan ^ (l - 1)
    <1>0. base \in Nat /\ args.stolen_memory_base \in Nat /\ machine.size \in Nat \ {0}
        BY DEF Ready, LoaderInv, L!Machine
    <1>1. at = "map" /\ todo # <<>> /\ l > 1 /\ machine' = machine
        BY DEF L!Descend
    <1>2. /\ t \in T /\ lev[t] = l /\ t \in DOMAIN tables /\ l \in 1 .. Levels
          /\ L!Reach(t) = {t} /\ page \in Nat /\ pre[t] = page \div Fan ^ l
        BY <1>1, Reached
    <1>3. (CHOOSE f \in L!Reach(t) : TRUE) = t
        BY <1>2
    <1>4. slot \notin DOMAIN tables[t]
        BY <1>2 DEF L!Entry
    <1>5. /\ L!Allocz(b) /\ b.size = PageSize
          /\ tables' = [L!Cleared(L!Reached({new})) EXCEPT ![t] = L!Stored(@, slot, new)]
          /\ walk' = [level |-> l - 1, table |-> new]
          /\ UNCHANGED <<machine, at, pagemap, loaded, todo, args>>
        BY <1>3 DEF L!Descend, L!Block
    <1>6. b.first \in Nat /\ new \in Nat /\ b.first = new * PageSize /\ b.first >= base
        BY <1>0, Positive, AlignedBlock
    <1>7. L!PagesOf(b.first, PageSize) = {new}
        BY <1>6, OnePage
    <1>8. /\ base' = b.first + PageSize /\ base' \in Nat /\ base <= base'
          /\ {new} \subseteq Home /\ L!Reached({new}) = {new}
          /\ image' = L!Restrict(image, DOMAIN image \ {new})
          /\ \A v \in Nat : (v + 1) * PageSize <= base => v \notin {new}
        <2> HIDE DEF b
        <2>1. L!PagesOf(L!Block(PageSize, PageSize).first, PageSize) = {new}
            BY <1>7 DEF b
        <2> QED
            BY <1>1, <1>5, <2>1, Positive, AllocFacts DEF b
    <1> HIDE DEF b
    <1>9. ASSUME NEW v \in T
          PROVE  v \in Nat /\ v # new /\ v \in DOMAIN tables /\ (v + 1) * PageSize <= base
                 /\ (v + 1) * PageSize \in Nat
        <2>1. v \in Nat /\ v \in DOMAIN tables /\ (v + 1) * PageSize <= base
            BY DEF Tree, Shape
        <2> QED
            BY <2>1, <1>8, Positive, Product
    <1>10. /\ T \cup {new} \subseteq DOMAIN tables' /\ tables'[new] = <<>>
           /\ \A v \in T : tables'[v] = IF v = t THEN L!Stored(tables[t], slot, new) ELSE tables[v]
        <2> DEFINE cleared == L!Cleared({new})
        <2>1. /\ DOMAIN cleared = {new} \cup DOMAIN tables
              /\ \A v \in DOMAIN cleared : cleared[v] = IF v \in {new} THEN <<>> ELSE tables[v]
            BY DEF L!Cleared
        <2>2. tables' = [cleared EXCEPT ![t] = L!Stored(cleared[t], slot, new)]
            BY <1>5, <1>8
        <2> HIDE DEF cleared
        <2>3. t # new /\ cleared[t] = tables[t] /\ t \in DOMAIN cleared
            BY <1>2, <1>9, <2>1
        <2>4. /\ DOMAIN tables' = DOMAIN cleared
              /\ \A v \in DOMAIN cleared :
                    tables'[v] = IF v = t THEN L!Stored(tables[t], slot, new) ELSE cleared[v]
            BY <2>2, <2>3
        <2>5. new \in DOMAIN cleared /\ T \subseteq DOMAIN cleared
            BY <1>9, <2>1
        <2> QED
            BY <1>9, <2>1, <2>3, <2>4, <2>5
    <1>11. /\ x \in Nat /\ page \div Fan ^ l = x \div Fan /\ slot = x % Fan
           /\ slot \in 0 .. Fan - 1
        BY <1>2, Prefix
    <1>12. pre[t] * Fan + slot = x
        <2> HIDE DEF x
        <2>1. x = Fan * (x \div Fan) + (x % Fan) /\ x \div Fan \in Nat
            BY <1>11, Positive, Quotient
        <2>2. pre[t] \in Nat /\ pre[t] * Fan = Fan * (x \div Fan)
            BY <1>2, <1>11, <2>1, Positive
        <2> QED
            BY <1>11, <2>1, <2>2
    <1>13. PICK T2, lev2, pre2 :
              /\ Shape(tables', pagemap, Calls, T2, lev2, pre2)
              /\ \A d : Mapped(tables, T, lev, pre, d) => Mapped(tables', T2, lev2, pre2, d)
              /\ T2 = T \cup {new} /\ lev2[new] = l - 1 /\ pre2[new] = x
        <2> HIDE DEF page, x
        <2> PICK tabs, tabs2, root, calls :
                tabs = tables /\ tabs2 = tables' /\ root = pagemap /\ calls = Calls
            OBVIOUS
        <2>1. Shape(tabs, root, calls, T, lev, pre)
            BY DEF Tree
        <2>2. new \in Nat \ T /\ lev[t] > 1 /\ slot \notin DOMAIN tabs[t]
            BY <1>1, <1>2, <1>4, <1>6, <1>9
        <2>3. /\ T \cup {new} \subseteq DOMAIN tabs2 /\ tabs2[new] = <<>>
              /\ \A v \in T :
                    tabs2[v] = IF v = t THEN L!Stored(tabs[t], slot, new) ELSE tabs[v]
            BY <1>10
        <2>4. PICK T2, lev2, pre2 :
                 /\ T2 = T \cup {new} /\ lev2[new] = lev[t] - 1 /\ pre2[new] = pre[t] * Fan + slot
                 /\ Shape(tabs2, root, calls, T2, lev2, pre2)
                 /\ \A d : Mapped(tabs, T, lev, pre, d) => Mapped(tabs2, T2, lev2, pre2, d)
            BY <2>1, <2>2, <2>3, <1>2, <1>11, TableLinked
        <2> QED
            BY <2>4, <1>2, <1>12
    <1> HIDE DEF x
    <1>14. VmmCalls' = VmmCalls /\ ImageCalls' = ImageCalls /\ Calls' = Calls /\ Todo' = Todo
        BY <1>5, CallsSame DEF Todo
    <1>15. Shape(tables, pagemap, Calls, T2, lev2, pre2)'
        <2>1. pagemap' = pagemap /\ Calls' = Calls
            BY <1>5, <1>14
        <2>2. Shape(tables', pagemap, Calls, T2, lev2, pre2)
            BY <1>13
        <2> QED
            BY <2>1, <2>2 DEF Shape
    <1>16. \A c \in (VmmCalls' \cup IF loaded' THEN ImageCalls' ELSE {}) \ Todo' :
                 Mapped(tables', T2, lev2, pre2, c)
        BY <1>5, <1>13, <1>14 DEF Tree
    <1>17. ASSUME NEW v \in T2
           PROVE  args'.stolen_memory_base + machine'.size <= v * PageSize
                  /\ (v + 1) * PageSize <= base'
        <2>1. CASE v = new
            <3>1. (new + 1) * PageSize = new * PageSize + PageSize
                BY <1>6, Positive
            <3>2. args.stolen_memory_base + machine.size <= base
                BY <1>1 DEF Ready, SpaceInv, StageInv
            <3> QED
                BY <2>1, <3>1, <3>2, <1>0, <1>5, <1>6, <1>8
        <2>2. CASE v \in T
            <3>1. args.stolen_memory_base + machine.size <= v * PageSize
                BY <2>2 DEF Tree
            <3>2. (v + 1) * PageSize <= base'
                BY <2>2, <1>0, <1>8, <1>9
            <3> QED
                BY <3>1, <3>2, <1>5
        <2> QED
            BY <2>1, <2>2, <1>13
    <1>18. /\ walk'.table = new /\ walk'.level = l - 1
           /\ Head(todo').page \div Fan ^ (l - 1) = x
        BY <1>5 DEF x
    <1>19. Tree(T2, lev2, pre2)'
        BY <1>1, <1>5, <1>13, <1>15, <1>16, <1>17, <1>18 DEF Tree
    <1> QED
        BY <1>0, <1>8, <1>19

\* Either way map_page() keeps the tree.
LEMMA DescendKeeps ==
    ASSUME Ready, Within, Within', L!Descend
    PROVE  SpaceInv'
    <1>1. at = "map" /\ UNCHANGED <<machine, at, pagemap, loaded, todo, args>>
        BY DEF L!Descend
    <1>2. PICK T, lev, pre : Tree(T, lev, pre)
        BY <1>1 DEF Ready, SpaceInv, Early
    <1>3. base \in Nat /\ args.stolen_memory_base \in Nat /\ machine \in L!Machine
          /\ machine.size \in Nat
        BY DEF Ready, LoaderInv, L!Machine
    <1>4. /\ \E T2, lev2, pre2 : Tree(T2, lev2, pre2)'
          /\ base' \in Nat /\ base <= base'
          /\ \/ image' = image
             \/ \E pages \in SUBSET Home : image' = L!Restrict(image, DOMAIN image \ pages)
        <2>1. CASE L!Entry(walk.table, L!Slot(Head(todo).page, walk.level)) # {}
            <3>1. Tree(T, lev, pre)' /\ UNCHANGED <<base, image>>
                BY <1>2, <2>1, DescendThere
            <3> QED
                BY <1>3, <3>1
        <2>2. CASE L!Entry(walk.table, L!Slot(Head(todo).page, walk.level)) = {}
            BY <1>2, <2>2, DescendNew
        <2> QED
            BY <2>1, <2>2
    <1>5. VmmCalls' = VmmCalls /\ ImageCalls' = ImageCalls /\ Todo' = Todo
        BY <1>1, CallsSame DEF Todo
    <1>6. StageInv'
        <2>1. args'.stolen_memory_base + machine'.size <= base'
            BY <1>1, <1>3, <1>4 DEF Ready, SpaceInv, StageInv
        <2> QED
            BY <1>1, <1>5, <2>1 DEF Ready, SpaceInv, StageInv
    <1>7. BinaryThere'
        <2>1. BinaryThere
            BY <1>1 DEF Ready, SpaceInv, ImageInv
        <2>2. CASE image' = image
            BY <1>1, <2>1, <2>2, CallsSame DEF BinaryThere
        <2> QED
            BY <1>1, <1>3, <1>4, <2>1, <2>2, BinaryKept DEF Ready
    <1>8. ImageInv'
        BY <1>1, <1>7 DEF ImageInv
    <1> QED
        BY <1>4, <1>6, <1>8 DEF SpaceInv

\* The last entry of a call maps its page, and the next call begins at the root.
LEMMA MapLeafKeeps ==
    ASSUME Ready, Within, L!MapLeaf
    PROVE  SpaceInv'
    <1>1. /\ at = "map" /\ todo # <<>> /\ walk.level = 1
          /\ UNCHANGED <<machine, at, base, image, pagemap, loaded, args>>
          /\ todo' = Tail(todo) /\ walk' = [level |-> Levels, table |-> pagemap]
        BY DEF L!MapLeaf, L!Root
    <1>2. PICK T, lev, pre : Tree(T, lev, pre)
        BY <1>1 DEF Ready, SpaceInv, Early
    <1>t. PICK t, c : t = walk.table /\ c = Head(todo)
        OBVIOUS
    <1>3. /\ t \in T /\ lev[t] = 1 /\ t \in DOMAIN tables /\ L!Reach(t) = {t}
          /\ c \in Calls /\ c \in [frame : Nat, page : Nat] /\ pre[t] = c.page \div Fan
          /\ L!Slot(c.page, 1) = c.page % Fan
        <2>1. /\ t \in T /\ lev[t] = 1 /\ t \in DOMAIN tables /\ L!Reach(t) = {t}
              /\ c \in Calls /\ c \in [frame : Nat, page : Nat] /\ pre[t] = c.page \div Fan ^ 1
            BY <1>t, <1>1, <1>2, Reached
        <2>2. c.page \in Nat
            BY <2>1
        <2> QED
            BY <2>1, <2>2, PowerZero
    <1>4. tables' = [tables EXCEPT ![t] = L!Stored(tables[t], c.page % Fan, c.frame)]
        <2>1. (CHOOSE f \in L!Reach(t) : TRUE) = t
            BY <1>3
        <2> QED
            BY <1>t, <1>3, <2>1 DEF L!MapLeaf
    <1>5. /\ Shape(tables', pagemap, Calls, T, lev, pre)
          /\ Mapped(tables', T, lev, pre, c)
          /\ \A d : /\ d.page \in Nat /\ (d.page = c.page => d.frame = c.frame)
                    /\ Mapped(tables, T, lev, pre, d)
                    => Mapped(tables', T, lev, pre, d)
        <2>0. PICK tabs, tabs2, root, calls :
                tabs = tables /\ tabs2 = tables' /\ root = pagemap /\ calls = Calls
            OBVIOUS
        <2>1. Shape(tabs, root, calls, T, lev, pre) /\ c \in calls
            BY <2>0, <1>2, <1>3 DEF Tree
        <2>2. /\ T \subseteq DOMAIN tabs2
              /\ tabs2[t] = L!Stored(tabs[t], c.page % Fan, c.frame)
              /\ \A u \in T \ {t} : tabs2[u] = tabs[u]
            BY <2>0, <1>3, <1>4, <2>1 DEF Shape
        <2>3. /\ Shape(tabs2, root, calls, T, lev, pre)
              /\ Mapped(tabs2, T, lev, pre, c)
              /\ \A d : /\ d.page \in Nat /\ (d.page = c.page => d.frame = c.frame)
                        /\ Mapped(tabs, T, lev, pre, d)
                        => Mapped(tabs2, T, lev, pre, d)
            <3>1. t \in T /\ lev[t] = 1 /\ c \in [frame : Nat, page : Nat] /\ pre[t] = c.page \div Fan
                BY <1>3
            <3>2. Shape(tabs2, root, calls, T, lev, pre)
                BY <2>1, <2>2, <3>1, LeafStored
            <3>3. Mapped(tabs2, T, lev, pre, c)
                BY <2>1, <2>2, <3>1, LeafStored
            <3>4. ASSUME NEW d, d.page \in Nat, d.page = c.page => d.frame = c.frame,
                         Mapped(tabs, T, lev, pre, d)
                  PROVE  Mapped(tabs2, T, lev, pre, d)
                BY <2>1, <2>2, <3>1, <3>4, LeafStored
            <3> QED
                BY <3>2, <3>3, <3>4
        <2> QED
            BY <2>0, <2>3
    <1>6. VmmCalls' = VmmCalls /\ ImageCalls' = ImageCalls /\ Calls' = Calls
        BY <1>1, CallsSame
    <1>7. /\ todo' \in Seq([frame : Nat, page : Nat])
          /\ Todo' \subseteq Todo /\ Todo \subseteq {c} \cup Todo'
          /\ todo' # <<>> => Head(todo') \in Calls
        <2>1. todo \in Seq([frame : Nat, page : Nat]) /\ Todo \subseteq Calls
            BY DEF Ready, SpaceInv, StageInv, Calls
        <2>2. /\ todo' \in Seq([frame : Nat, page : Nat])
              /\ Todo' \subseteq Todo /\ Todo \subseteq {c} \cup Todo'
            BY <1>t, <1>1, <2>1, HeadIsEntry DEF Todo
        <2>3. todo' # <<>> => Head(todo') \in Todo'
            BY <2>2, HeadIsEntry DEF Todo
        <2> QED
            BY <2>1, <2>2, <2>3
    <1>8. Shape(tables, pagemap, Calls, T, lev, pre)'
        <2>1. pagemap' = pagemap /\ Calls' = Calls
            BY <1>1, <1>6
        <2>2. Shape(tables', pagemap, Calls, T, lev, pre)
            BY <1>5
        <2> QED
            BY <2>1, <2>2 DEF Shape
    <1>9. \A d \in (VmmCalls' \cup IF loaded' THEN ImageCalls' ELSE {}) \ Todo' :
              Mapped(tables', T, lev, pre, d)
        <2>1. ASSUME NEW d \in (VmmCalls \cup IF loaded THEN ImageCalls ELSE {}) \ Todo', d # c
              PROVE  Mapped(tables', T, lev, pre, d)
            <3>1. Mapped(tables, T, lev, pre, d)
                BY <1>2, <1>7, <2>1 DEF Tree
            <3>2. d \in Calls
                BY DEF Calls
            <3>3. d.page \in Nat /\ (d.page = c.page => d.frame = c.frame)
                BY <1>3, <3>2, CallsAgree DEF Ready
            <3> QED
                BY <1>5, <3>1, <3>3
        <2> QED
            BY <1>1, <1>5, <1>6, <2>1
    <1>10. /\ pagemap \in T /\ lev[pagemap] = Levels /\ pre[pagemap] = 0
           /\ todo' # <<>> => Head(todo').page \div Fan ^ Levels = 0
        BY <1>2, <1>7, AtTheRoot DEF Tree, Shape, Ready
    <1>11. Tree(T, lev, pre)'
        <2>1. \A u \in T : /\ args.stolen_memory_base + machine.size <= u * PageSize
                           /\ (u + 1) * PageSize <= base
            BY <1>2 DEF Tree
        <2> QED
            BY <1>1, <1>8, <1>9, <1>10, <2>1 DEF Tree
    <1>12. StageInv'
        BY <1>1, <1>6, <1>7 DEF Ready, SpaceInv, StageInv, Early
    <1>13. ImageInv'
        BY <1>1, CallsSame DEF Ready, SpaceInv, ImageInv, BinaryThere
    <1> QED
        BY <1>11, <1>12, <1>13 DEF SpaceInv

\* Once all of low and of mapped memory is mapped, the image's pages are next.
LEMMA LoadCr3Keeps ==
    ASSUME Ready, L!LoadCr3
    PROVE  SpaceInv'
    <1>1. /\ at = "map" /\ todo = <<>> /\ ~loaded /\ loaded' = TRUE /\ todo' = L!ImageMappings
          /\ UNCHANGED <<machine, at, base, tables, image, pagemap, walk, args>>
        BY DEF L!LoadCr3
    <1>2. PICK T, lev, pre : Tree(T, lev, pre)
        BY <1>1 DEF Ready, SpaceInv, Early
    <1>3. VmmCalls' = VmmCalls /\ ImageCalls' = ImageCalls /\ Calls' = Calls
        BY <1>1, CallsSame
    <1>4. todo' \in Seq([frame : Nat, page : Nat]) /\ Todo' = ImageCalls /\ Todo = {}
        BY <1>1, ImageMappingsAre, NothingToDo DEF Todo, Ready
    <1>5. Shape(tables, pagemap, Calls, T, lev, pre)'
        BY <1>1, <1>2, <1>3 DEF Tree, Shape
    <1>6. \A c \in (VmmCalls' \cup IF loaded' THEN ImageCalls' ELSE {}) \ Todo' :
              Mapped(tables', T, lev, pre, c)
        BY <1>1, <1>2, <1>3, <1>4 DEF Tree
    <1>7. /\ walk' = [level |-> Levels, table |-> pagemap]
          /\ pagemap \in T /\ lev[pagemap] = Levels /\ pre[pagemap] = 0
        BY <1>1, <1>2 DEF Tree, Shape
    <1>8. todo' # <<>> => Head(todo').page \div Fan ^ Levels = 0
        <2>1. todo' # <<>> => Head(todo') \in Calls
            BY <1>4, HeadIsEntry DEF Todo, Calls
        <2> QED
            BY <2>1, AtTheRoot DEF Ready
    <1>9. Tree(T, lev, pre)'
        <2>1. \A u \in T : /\ args.stolen_memory_base + machine.size <= u * PageSize
                           /\ (u + 1) * PageSize <= base
            BY <1>2 DEF Tree
        <2> QED
            BY <1>1, <1>5, <1>6, <1>7, <1>8, <2>1 DEF Tree
    <1>10. StageInv'
        BY <1>1, <1>3, <1>4 DEF Ready, SpaceInv, StageInv, Early
    <1>11. ImageInv'
        BY <1>1, CallsSame DEF Ready, SpaceInv, ImageInv, BinaryThere
    <1> QED
        BY <1>9, <1>10, <1>11 DEF SpaceInv

\* The loader's last blocks are put on neither a table nor the binary.
LEMMA AllocKeeps ==
    ASSUME Ready, Within', at \notin Early, loaded, todo = <<>>, BinaryThere,
           NEW size \in Nat \ {0}, NEW align \in Nat \ {0}, L!Allocz(L!Block(size, align)),
           tables' = L!Cleared(L!Reached(L!PagesOf(L!Block(size, align).first, size))),
           UNCHANGED <<machine, pagemap, loaded, todo, walk>>, at' \in {"state", "copy"},
           args'.stolen_memory_base = args.stolen_memory_base
    PROVE  SpaceInv'
    <1> DEFINE pages == L!PagesOf(L!Block(size, align).first, size)
    <1>1. /\ base \in Nat /\ base' \in Nat /\ base <= base'
          /\ pages \subseteq Home /\ L!Reached(pages) = pages
          /\ image' = L!Restrict(image, DOMAIN image \ pages)
          /\ \A t \in Nat : (t + 1) * PageSize <= base => t \notin pages
        BY AllocFacts DEF Early
    <1>2. PICK T, lev, pre : Tree(T, lev, pre)
        BY DEF Ready, SpaceInv
    <1>3. tables' = L!Cleared(pages)
        BY <1>1
    <1> HIDE DEF pages
    <1>4. T \subseteq DOMAIN tables' /\ \A t \in T : tables'[t] = tables[t]
        <2>1. \A t \in T : t \in Nat /\ t \in DOMAIN tables /\ (t + 1) * PageSize <= base
            BY <1>2 DEF Tree, Shape
        <2> QED
            BY <1>1, <1>3, <2>1 DEF L!Cleared
    <1>5. Tree(T, lev, pre)'
        BY <1>1, <1>2, <1>4, TreeKept
    <1>6. StageInv'
        <2>1. /\ machine.size \in Nat /\ args.stolen_memory_base \in Nat
              /\ args.stolen_memory_base + machine.size <= base
              /\ args.stolen_memory_base % PageSize = 0
            BY DEF Ready, LoaderInv, L!Machine, SpaceInv, StageInv, Early
        <2>2. args'.stolen_memory_base + machine'.size <= base'
            BY <1>1, <2>1
        <2>3. Todo' = {} /\ todo' \in Seq([frame : Nat, page : Nat])
            BY NothingToDo DEF Todo, Ready, SpaceInv, StageInv
        <2> QED
            BY <2>1, <2>2, <2>3 DEF StageInv, Early
    <1>7. BinaryThere'
        BY <1>1, BinaryKept DEF Ready, LoaderInv
    <1>8. ImageInv'
        BY <1>7 DEF ImageInv
    <1> QED
        BY <1>5, <1>6, <1>8 DEF SpaceInv

LEMMA AllocStackKeeps ==
    ASSUME Ready, Within', L!AllocStack
    PROVE  SpaceInv'
    <1>1. StackSize \in Nat \ {0} /\ 16 \in Nat \ {0} /\ L!Block(StackSize, 16).size = StackSize
        BY LoaderAssumption DEF L!Block
    <1>2. at \notin Early /\ BinaryThere
        BY DEF L!AllocStack, Early, Ready, SpaceInv, ImageInv
    <1> QED
        BY <1>1, <1>2, AllocKeeps DEF L!AllocStack

LEMMA AllocStateKeeps ==
    ASSUME Ready, Within', L!AllocState
    PROVE  SpaceInv'
    <1>1. StateSize \in Nat \ {0} /\ 1 \in Nat \ {0} /\ L!Block(StateSize, 1).size = StateSize
        BY LoaderAssumption DEF L!Block
    <1>2. at \notin Early /\ BinaryThere /\ loaded /\ todo = <<>>
        BY DEF L!AllocState, Early, Ready, SpaceInv, StageInv, ImageInv
    <1>3. args'.stolen_memory_base = args.stolen_memory_base
        BY DEF L!AllocState, Ready, LoaderInv
    <1> QED
        BY <1>1, <1>2, <1>3, AllocKeeps DEF L!AllocState

\* When all calls are done, every page is where it was put.
LEMMA CallTranslated ==
    ASSUME Ready, at \notin Early, loaded, todo = <<>>, NEW c \in Calls
    PROVE  L!Translate(c.page) = {c.frame}
    <1>1. PICK T, lev, pre : Tree(T, lev, pre)
        BY DEF Ready, SpaceInv
    <1>2. Mapped(tables, T, lev, pre, c)
        BY <1>1, NothingToDo DEF Tree, Calls
    <1>3. c.page \in Nat
        BY CallsAgree DEF Ready
    <1> QED
        BY <1>1, <1>2, <1>3, TranslateMapped DEF Tree

\* KERNEL_OFFSET leads to the base of the stolen memory.
LEMMA ImageTranslated ==
    ASSUME Ready, at \notin Early, loaded, todo = <<>>, NEW n \in Copy
    PROVE  L!Translate(KernelOffset + n) = {ImagePage(n)}
    <1>1. [frame |-> ImagePage(n), page |-> KernelOffset + n] \in Calls
        BY DEF Calls, ImageCalls
    <1> QED
        BY <1>1, CallTranslated

\* No two pages are copied to the same place.
LEMMA ImagePagesDiffer ==
    ASSUME LoaderInv, NEW n \in Copy, NEW k \in Copy, ImagePage(n) = ImagePage(k)
    PROVE  n = k
    <1> DEFINE x == args.stolen_memory_base \div PageSize
    <1>1. x \in Nat /\ L!PageCount(machine.size) \in Nat
        BY PageCountIs, Positive, Quotient DEF LoaderInv, L!Machine
    <1>2. n \in Nat /\ k \in Nat
        BY <1>1 DEF Copy
    <1> HIDE DEF x
    <1> QED
        BY <1>1, <1>2 DEF ImagePage, x

\* The copy overwrites no table, and arrives whole.
LEMMA CopyImageKeeps ==
    ASSUME Ready, Within, L!CopyImage
    PROVE  SpaceInv'
    <1> DEFINE from == machine.begin \div PageSize
               to == [n \in Copy |-> CHOOSE f \in L!Reach(KernelOffset + n) : TRUE]
               source == [n \in Copy |-> CHOOSE f \in L!Reach(from + n) : TRUE]
               whole == {n \in Copy : source[n] \in DOMAIN image}
               copied == {to[n] : n \in whole}
    <1>1. /\ at = "copy" /\ at' \in {"halt", "args"}
          /\ image' = [f \in copied \cup (DOMAIN image \ L!Range(to)) |->
                          IF f \in copied
                          THEN image[source[CHOOSE n \in whole : to[n] = f]]
                          ELSE image[f]]
          /\ tables' = L!Restrict(tables, DOMAIN tables \ L!Range(to))
          /\ UNCHANGED <<machine, base, reserved, pagemap, loaded, todo, walk, args>>
        BY DEF L!CopyImage, Copy
    <1>2. loaded /\ todo = <<>> /\ at \notin Early /\ base \in Nat
        BY <1>1 DEF Ready, SpaceInv, StageInv, LoaderInv, Early
    <1>3. PICK T, lev, pre : Tree(T, lev, pre)
        BY <1>2 DEF Ready, SpaceInv
    <1>4. BinaryThere
        BY <1>1 DEF Ready, SpaceInv, ImageInv
    <1>5. \A n \in Copy : to[n] = ImagePage(n)
        <2>1. ASSUME NEW n \in Copy PROVE L!Reach(KernelOffset + n) = {ImagePage(n)}
            BY <1>2, ImageTranslated DEF L!Reach
        <2> QED
            BY <2>1
    <1>6. \A n \in Copy : source[n] = from + n
        <2>1. ASSUME NEW n \in Copy PROVE L!Reach(from + n) = {from + n}
            BY BinaryPage, Reaches DEF Ready, LoaderInv
        <2> QED
            BY <2>1
    <1>7. \A n \in Copy : from + n \in DOMAIN image /\ image[from + n] = n
        BY <1>4 DEF BinaryThere
    <1>8. whole = Copy
        BY <1>6, <1>7
    <1>9. L!Range(to) = {ImagePage(n) : n \in Copy} /\ copied = {ImagePage(n) : n \in Copy}
        BY <1>5, <1>8 DEF L!Range
    <1> HIDE DEF from, to, source, whole, copied
    <1>10. ASSUME NEW n \in Copy
           PROVE  ImagePage(n) \in DOMAIN image' /\ image'[ImagePage(n)] = n
        <2>1. ImagePage(n) \in copied
            BY <1>9
        <2>2. (CHOOSE k \in whole : to[k] = ImagePage(n)) = n
            <3>1. \A k \in Copy : to[k] = ImagePage(n) => k = n
                BY <1>5, ImagePagesDiffer DEF Ready
            <3> QED
                BY <1>5, <1>8, <3>1
        <2>3. image'[ImagePage(n)] = image[source[n]] /\ ImagePage(n) \in DOMAIN image'
            BY <1>1, <2>1, <2>2
        <2> QED
            BY <2>3, <1>6, <1>7
    <1>11. ImageThere'
        BY <1>1, <1>10, CallsSame DEF ImageThere
    <1>12. T \subseteq DOMAIN tables' /\ \A t \in T : tables'[t] = tables[t]
        <2>1. ASSUME NEW t \in T PROVE t \in DOMAIN tables /\ t \notin L!Range(to)
            <3>1. t \in DOMAIN tables
                BY <1>3 DEF Tree, Shape
            <3>2. \A n \in Copy : ImagePage(n) # t
                BY <1>2, <1>3, TableHome
            <3> QED
                BY <3>1, <3>2, <1>9
        <2> QED
            BY <1>1, <2>1 DEF L!Restrict
    <1>13. Tree(T, lev, pre)'
        <2>1. /\ base' \in Nat /\ base <= base' /\ machine' = machine
              /\ args'.stolen_memory_base = args.stolen_memory_base
              /\ UNCHANGED <<pagemap, loaded, todo, walk>> /\ at' # "map"
            BY <1>1, <1>2
        <2> QED
            BY <2>1, <1>2, <1>3, <1>12, TreeKept
    <1>14. StageInv'
        BY <1>1, <1>2, CallsSame, NothingToDo DEF Ready, SpaceInv, StageInv, Early, Todo
    <1>15. ImageInv'
        BY <1>1, <1>11 DEF ImageInv, Early
    <1> QED
        BY <1>13, <1>14, <1>15 DEF SpaceInv

\* What _start() writes last is neither a table nor the image.
LEMMA HandOverKeeps ==
    ASSUME Ready, Within, L!HandOver
    PROVE  SpaceInv'
    <1> DEFINE written == L!Reached({1} \cup machine.fb)
    <1>1. /\ at = "args" /\ at' = "jump"
          /\ args' = [args EXCEPT !.stolen_memory_end = args.virtdbg_end + Reserve]
          /\ tables' = L!Restrict(tables, DOMAIN tables \ written)
          /\ image' = L!Restrict(image, DOMAIN image \ written)
          /\ UNCHANGED <<machine, base, reserved, pagemap, loaded, todo, walk>>
        BY DEF L!HandOver
    <1>2. loaded /\ todo = <<>> /\ at \notin Early /\ base \in Nat
          /\ args'.stolen_memory_base = args.stolen_memory_base
        BY <1>1 DEF Ready, SpaceInv, StageInv, LoaderInv, Early
    <1>3. PICK T, lev, pre : Tree(T, lev, pre)
        BY <1>2 DEF Ready, SpaceInv
    <1>4. written = {1} \cup machine.fb /\ written \subseteq Foreign(machine)
        <2> DEFINE own == {1} \cup machine.fb
        <2>1. own \subseteq Foreign(machine)
            BY DEF Foreign
        <2> HIDE DEF own
        <2>2. \A p \in own : L!Reach(p) = {p}
            BY <2>1, Reaches DEF Ready
        <2>3. L!Reached(own) = own
            BY <2>2 DEF L!Reached
        <2> QED
            BY <2>1, <2>3 DEF own
    <1> HIDE DEF written
    <1>5. \A p \in Home : p \notin written
        BY <1>4, ForeignAway DEF Ready
    <1>6. T \subseteq DOMAIN tables' /\ \A t \in T : tables'[t] = tables[t]
        <2>1. ASSUME NEW t \in T PROVE t \in DOMAIN tables /\ t \notin written
            <3>1. t \in DOMAIN tables
                BY <1>3 DEF Tree, Shape
            <3>2. t \in Home
                BY <1>2, <1>3, TableHome
            <3> QED
                BY <3>1, <3>2, <1>5
        <2> QED
            BY <1>1, <2>1 DEF L!Restrict
    <1>7. Tree(T, lev, pre)'
        <2>1. /\ base' \in Nat /\ base <= base' /\ machine' = machine
              /\ UNCHANGED <<pagemap, loaded, todo, walk>> /\ at' # "map"
            BY <1>1, <1>2
        <2> QED
            BY <2>1, <1>2, <1>3, <1>6, TreeKept
    <1>8. ASSUME NEW n \in Copy
          PROVE  ImagePage(n) \in DOMAIN image' /\ image'[ImagePage(n)] = n
        <2>1. pagemap \in T
            BY <1>3 DEF Tree, Shape
        <2>2. ImagePage(n) \in Home
            BY <1>2, <1>3, <2>1, TableHome
        <2>3. ImagePage(n) \in DOMAIN image /\ image[ImagePage(n)] = n
            BY <1>1 DEF Ready, SpaceInv, ImageInv, ImageThere
        <2> QED
            BY <1>1, <1>5, <2>2, <2>3 DEF L!Restrict
    <1>9. ImageThere'
        BY <1>1, <1>2, <1>8, CallsSame DEF ImageThere
    <1>10. StageInv'
        BY <1>1, <1>2, CallsSame, NothingToDo DEF Ready, SpaceInv, StageInv, Early, Todo
    <1>11. ImageInv'
        BY <1>1, <1>9 DEF ImageInv, Early
    <1> QED
        BY <1>7, <1>10, <1>11 DEF SpaceInv

\* After the jump the loader's state is as it was.
LEMMA LoaderDoneKeeps ==
    ASSUME Ready, at' = at \/ (at = "jump" /\ at' = "virtdbg"),
           UNCHANGED <<machine, base, reserved, tables, image, pagemap, loaded, todo, walk, args>>
    PROVE  SpaceInv'
    <1>1. base \in Nat
        BY DEF Ready, LoaderInv
    <1>2. VmmCalls' = VmmCalls /\ ImageCalls' = ImageCalls /\ Todo' = Todo /\ Copy' = Copy
          /\ \A n : ImagePage(n)' = ImagePage(n)
        BY CallsSame DEF Todo
    <1>3. StageInv'
        BY <1>2 DEF Ready, SpaceInv, StageInv, Early
    <1>4. ImageInv'
        BY <1>2 DEF Ready, SpaceInv, ImageInv, BinaryThere, ImageThere, Early
    <1>5. at' \notin Early => \E T, lev, pre : Tree(T, lev, pre)'
        <2> SUFFICES ASSUME at' \notin Early PROVE \E T, lev, pre : Tree(T, lev, pre)'
            OBVIOUS
        <2>1. at \notin Early
            BY DEF Early
        <2>2. PICK T, lev, pre : Tree(T, lev, pre)
            BY <2>1 DEF Ready, SpaceInv
        <2>3. T \subseteq DOMAIN tables' /\ \A t \in T : tables'[t] = tables[t]
            BY <2>2 DEF Tree, Shape
        <2>4. Tree(T, lev, pre)'
            BY <1>1, <2>2, <2>3, TreeKept
        <2> QED
            BY <2>4
    <1> QED
        BY <1>3, <1>4, <1>5 DEF SpaceInv

\* The base only goes up, and what fits after a step has fitted before it.
LEMMA BaseGrows ==
    ASSUME LoaderInv, PlacedInv, [BootNext]_boot_vars, at # "pmm_init"
    PROVE  machine' = machine /\ at' # "pmm_init" /\ (Within' => Within)
    <1>0. /\ PageSize \in Nat \ {0} /\ StackSize \in Nat \ {0} /\ StateSize \in Nat \ {0}
          /\ machine.size \in Nat \ {0} /\ 16 \in Nat \ {0} /\ 1 \in Nat \ {0}
          /\ machine \in L!Machine /\ base \in Nat
        BY AddressAssumption, LoaderAssumption DEF LoaderInv, L!Machine
    <1>1. \A size, align \in Nat \ {0} :
              L!Allocz(L!Block(size, align)) => base' \in Nat /\ base <= base'
        <2>1. ASSUME NEW size \in Nat \ {0}, NEW align \in Nat \ {0},
                     L!Allocz(L!Block(size, align))
              PROVE  base' \in Nat /\ base <= base'
            <3>1. base' \in Nat
                BY <2>1, AlloczKeeps
            <3>2. base' > base
                BY <2>1, AlloczPlaces
            <3> QED
                BY <3>1, <3>2, <1>0
        <2> QED
            BY <2>1
    <1>2. machine' = machine /\ at' # "pmm_init" /\ (base' = base \/ (base' \in Nat /\ base <= base'))
        <2>1. CASE L!AllocImage
            BY <2>1, <1>0, <1>1 DEF L!AllocImage
        <2>2. CASE L!AllocPagemap
            BY <2>2, <1>0, <1>1 DEF L!AllocPagemap
        <2>3. CASE L!Descend
            BY <2>3, <1>0, <1>1 DEF L!Descend
        <2>4. CASE L!MapLeaf \/ L!LoadCr3
            BY <2>4 DEF L!MapLeaf, L!LoadCr3
        <2>5. CASE L!AllocStack
            BY <2>5, <1>0, <1>1 DEF L!AllocStack
        <2>6. CASE L!AllocState
            BY <2>6, <1>0, <1>1 DEF L!AllocState
        <2>7. CASE L!CopyImage
            BY <2>7 DEF L!CopyImage
        <2>8. CASE L!HandOver
            BY <2>8 DEF L!HandOver
        <2>9. CASE Start
            BY <2>9 DEF Start
        <2>10. CASE UNCHANGED loader_vars
            BY <2>10 DEF loader_vars
        <2>11. CASE L!PmmInit
            BY <2>11 DEF L!PmmInit
        <2> QED
            BY <2>1, <2>2, <2>3, <2>4, <2>5, <2>6, <2>7, <2>8, <2>9, <2>10, <2>11
            DEF BootNext, boot_vars, Load, L!Next, Run
    <1>3. ASSUME Within' PROVE Within
        <2>1. PICK i \in L!Longest(machine.memmap) :
                  base' <= machine.memmap[i].base + machine.memmap[i].length
            BY <1>2, <1>3 DEF Within
        <2>2. machine.memmap[i].base \in Nat /\ machine.memmap[i].length \in Nat
            BY <1>0, OneLongest DEF L!Region
        <2>3. base <= machine.memmap[i].base + machine.memmap[i].length
            BY <1>0, <1>2, <2>1, <2>2
        <2> QED
            BY <2>3 DEF Within
    <1> QED
        BY <1>2, <1>3

\* A machine that the loader can boot has its binary in memory as it starts.
LEMMA SpaceInit == BootInit => SpaceInv
    <1> SUFFICES ASSUME BootInit PROVE SpaceInv
        OBVIOUS
    <1>1. /\ machine \in L!Machine /\ at = "pmm_init" /\ ~loaded /\ todo = <<>>
          /\ image = [p \in L!PagesOf(machine.begin, machine.size) |->
                         p - machine.begin \div PageSize]
        BY LoaderAssumption DEF BootInit, L!Init
    <1>2. StageInv
        BY <1>1, NothingToDo DEF StageInv, Early
    <1>3. ASSUME NEW n \in Copy
          PROVE  /\ machine.begin \div PageSize + n \in DOMAIN image
                 /\ image[machine.begin \div PageSize + n] = n
        <2> DEFINE x == machine.begin \div PageSize
        <2>1. x \in Nat /\ n \in Nat
            <3>1. machine.begin \in Nat /\ machine.size \in Nat \ {0}
                BY <1>1 DEF L!Machine
            <3>2. x \in Nat /\ L!PageCount(machine.size) \in Nat
                BY <3>1, PageCountIs, Positive, Quotient
            <3> QED
                BY <3>2 DEF Copy
        <2>2. x + n \in L!PagesOf(machine.begin, machine.size)
            BY <1>1, BinaryPage
        <2>3. image[x + n] = (x + n) - x
            BY <1>1, <2>2
        <2> HIDE DEF x
        <2>4. image[x + n] = n
            BY <2>1, <2>3
        <2> QED
            BY <1>1, <2>2, <2>4 DEF x
    <1>4. ImageInv
        BY <1>1, <1>3 DEF ImageInv, BinaryThere
    <1> QED
        BY <1>1, <1>2, <1>4 DEF SpaceInv, Early

\* The invariant, on machines that the loader can boot and as long as it stays
\* in its region.
SpaceHolds == Bootable(machine) /\ (at = "pmm_init" \/ Within) => SpaceInv

LEMMA SpaceStep == LoaderInv /\ PlacedInv /\ SpaceHolds /\ [BootNext]_boot_vars => SpaceHolds'
    <1> SUFFICES ASSUME LoaderInv, PlacedInv, SpaceHolds, [BootNext]_boot_vars,
                        Bootable(machine)', at' = "pmm_init" \/ Within'
                 PROVE  SpaceInv'
        BY DEF SpaceHolds
    <1>1. CASE at = "pmm_init"
        <2>1. machine' = machine
            BY <1>1 DEF BootNext, boot_vars, loader_vars, Load, L!Next, Run, Start, L!PmmInit,
                        L!AllocImage, L!AllocPagemap, L!Descend, L!MapLeaf, L!LoadCr3,
                        L!AllocStack, L!AllocState, L!CopyImage, L!HandOver
        <2>2. Bootable(machine) /\ SpaceInv
            BY <1>1, <2>1 DEF SpaceHolds, Bootable
        <2>3. L!PmmInit \/ UNCHANGED loader_vars
            BY <1>1 DEF BootNext, boot_vars, Load, L!Next, Run, Start, L!AllocImage,
                        L!AllocPagemap, L!Descend, L!MapLeaf, L!LoadCr3, L!AllocStack,
                        L!AllocState, L!CopyImage, L!HandOver
        <2>4. CASE L!PmmInit
            BY <2>2, <2>4, PmmInitKeeps
        <2>5. CASE UNCHANGED loader_vars
            BY <2>2, <2>5, LoaderDoneKeeps DEF loader_vars, Ready
        <2> QED
            BY <2>3, <2>4, <2>5
    <1>2. CASE at # "pmm_init"
        <2>1. machine' = machine /\ Within /\ Within'
            BY <1>2, BaseGrows
        <2>2. Bootable(machine)
            BY <2>1 DEF Bootable
        <2>3. Ready
            BY <2>1, <2>2 DEF Ready, SpaceHolds
        <2>4. CASE L!AllocImage
            BY <2>1, <2>3, <2>4, AllocImageKeeps
        <2>5. CASE L!AllocPagemap
            BY <2>1, <2>3, <2>5, AllocPagemapKeeps
        <2>6. CASE L!Descend
            BY <2>1, <2>3, <2>6, DescendKeeps
        <2>7. CASE L!MapLeaf
            BY <2>1, <2>3, <2>7, MapLeafKeeps
        <2>8. CASE L!LoadCr3
            BY <2>3, <2>8, LoadCr3Keeps
        <2>9. CASE L!AllocStack
            BY <2>1, <2>3, <2>9, AllocStackKeeps
        <2>10. CASE L!AllocState
            BY <2>1, <2>3, <2>10, AllocStateKeeps
        <2>11. CASE L!CopyImage
            BY <2>1, <2>3, <2>11, CopyImageKeeps
        <2>12. CASE L!HandOver
            BY <2>1, <2>3, <2>12, HandOverKeeps
        <2>13. CASE Start \/ UNCHANGED loader_vars
            BY <2>3, <2>13, LoaderDoneKeeps DEF Start, loader_vars
        <2>14. ~L!PmmInit
            BY <1>2 DEF L!PmmInit
        <2> QED
            BY <2>4, <2>5, <2>6, <2>7, <2>8, <2>9, <2>10, <2>11, <2>12, <2>13, <2>14
            DEF BootNext, boot_vars, Load, L!Next, Run
    <1> QED
        BY <1>1, <1>2

\* There is room in the region for what the loader has taken and for the block
\* that it takes next.
Fits ==
    \E i \in L!Longest(machine.memmap) :
        LET end == machine.memmap[i].base + machine.memmap[i].length
        IN  base <= end /\ \A b \in Upcoming : b.first + b.size <= end

\* What the loader touches next is mapped.
LEMMA AccessFound ==
    ASSUME Ready, Fits, loaded
    PROVE  L!Accessible(Accessed)
    <1>1. machine \in L!Machine /\ base \in Nat /\ Bootable(machine) /\ at \notin Early
        BY DEF Ready, LoaderInv, SpaceInv, StageInv
    <1>2. Within
        BY DEF Fits, Within
    <1>3. ASSUME NEW b \in Upcoming PROVE Covered(b) \subseteq Home
        <2>1. PICK i \in L!Longest(machine.memmap) :
                  b.first + b.size <= machine.memmap[i].base + machine.memmap[i].length
            BY <1>3 DEF Fits
        <2>2. machine.memmap[i].base <= base /\ machine.memmap[i].base \in Nat
            BY <1>1, OneLongest DEF Ready, PlacedInv, Early, L!Region
        <2>3. /\ {PageSize, StackSize, StateSize} \subseteq Nat \ {0}
              /\ \/ b = L!Block(PageSize, PageSize)
                 \/ b = L!Block(StackSize, 16)
                 \/ b = L!Block(StateSize, 1)
            BY <1>3, LoaderAssumption, AddressAssumption DEF Upcoming
        <2>4. b.first \in Nat /\ b.size \in Nat \ {0} /\ b.first >= base
            <3>1. 16 \in Nat \ {0} /\ 1 \in Nat \ {0}
                OBVIOUS
            <3> QED
                BY <1>1, <2>3, <3>1, LoaderAlign DEF L!Block
        <2>5. machine.memmap[i].base <= b.first
            BY <1>1, <2>2, <2>4
        <2> QED
            BY <1>1, <2>1, <2>4, <2>5, BlockHome DEF Covered
    <1>4. ASSUME at = "map", todo # <<>> PROVE L!Reach(walk.table) # {}
        <2>1. PICK T, lev, pre : Tree(T, lev, pre)
            BY <1>1 DEF Ready, SpaceInv
        <2> QED
            BY <1>2, <1>4, <2>1, Reached
    <1>5. ASSUME at = "copy", NEW n \in Copy
          PROVE  L!Reach(KernelOffset + n) # {} /\ L!Reach(machine.begin \div PageSize + n) # {}
        <2>1. todo = <<>>
            BY <1>5 DEF Ready, SpaceInv, StageInv, Early
        <2>2. L!Translate(KernelOffset + n) = {ImagePage(n)}
            BY <1>1, <2>1, ImageTranslated
        <2>3. L!Reach(machine.begin \div PageSize + n) = {machine.begin \div PageSize + n}
            BY <1>1, BinaryPage, Reaches DEF Ready
        <2> QED
            BY <2>2, <2>3 DEF L!Reach
    <1>6. \A p \in {1} \cup machine.fb : L!Reach(p) # {}
        <2>1. ASSUME NEW p \in {1} \cup machine.fb PROVE L!Reach(p) = {p}
            BY Reaches DEF Foreign, Ready
        <2> QED
            BY <2>1
    <1>7. ASSUME NEW p \in Accessed PROVE L!Reach(p) # {}
        <2>1. CASE p \in UNION {Covered(b) : b \in Upcoming}
            <3>1. PICK b \in Upcoming : p \in Covered(b)
                BY <2>1
            <3>2. L!Reach(p) = {p}
                BY <1>3, <3>1, Reaches DEF Ready
            <3> QED
                BY <3>2
        <2> DEFINE blocks_pages == UNION {Covered(b) : b \in Upcoming}
                   copy_pages == {KernelOffset + n : n \in Copy}
                                 \cup {machine.begin \div PageSize + n : n \in Copy}
        <2>2. Accessed = blocks_pages \cup CASE at = "map" /\ todo # <<>> -> {walk.table}
                                             [] at = "copy" -> copy_pages
                                             [] at = "args" -> {1} \cup machine.fb
                                             [] OTHER -> {}
            BY DEF Accessed, Copy
        <2>3. ASSUME at = "copy", p \in copy_pages PROVE L!Reach(p) # {}
            BY <1>5, <2>3
        <2> HIDE DEF blocks_pages, copy_pages
        <2>4. CASE p \notin blocks_pages
            <3>1. CASE at = "map" /\ todo # <<>>
                BY <1>4, <1>7, <2>2, <2>4, <3>1
            <3>2. CASE at = "copy"
                BY <1>7, <2>2, <2>3, <2>4, <3>2
            <3>3. CASE at = "args"
                BY <1>6, <1>7, <2>2, <2>4, <3>3
            <3>4. CASE ~(at = "map" /\ todo # <<>>) /\ at # "copy" /\ at # "args"
                BY <1>7, <2>2, <2>4, <3>4
            <3> QED
                BY <3>1, <3>2, <3>3, <3>4
        <2> QED
            BY <2>1, <2>4 DEF blocks_pages
    <1> QED
        BY <1>7 DEF L!Accessible

\* What it uses is at its own address.
LEMMA OwnFound ==
    ASSUME Ready, Within, loaded,
           NEW p \in (UNION {Covered(b) : b \in reserved}) \cup L!PagesOf(machine.begin, machine.size)
    PROVE  L!Translate(p) = {p}
    <1>1. machine \in L!Machine /\ base \in Nat /\ Bootable(machine) /\ at \notin Early
        BY DEF Ready, LoaderInv, SpaceInv, StageInv
    <1>2. ASSUME NEW b \in reserved PROVE Covered(b) \subseteq Home
        <2>1. PICK i \in L!Longest(machine.memmap) :
                  base <= machine.memmap[i].base + machine.memmap[i].length
            BY DEF Within
        <2>2. /\ b.first \in Nat /\ b.size \in Nat \ {0} /\ b.first + b.size <= base
              /\ args.stolen_memory_base \in Nat
            BY <1>2 DEF Ready, LoaderInv
        <2>3. machine.memmap[i].base <= args.stolen_memory_base
              /\ args.stolen_memory_base <= b.first
            BY <1>1, <1>2 DEF Ready, PlacedInv, Early
        <2>4. machine.memmap[i].base \in Nat /\ machine.memmap[i].length \in Nat
            BY <1>1, OneLongest DEF L!Region
        <2>5. machine.memmap[i].base <= b.first
              /\ b.first + b.size <= machine.memmap[i].base + machine.memmap[i].length
            BY <1>1, <2>1, <2>2, <2>3, <2>4
        <2> QED
            BY <1>1, <2>2, <2>5, BlockHome DEF Covered
    <1>3. p \in Home \cup Foreign(machine)
        <2>1. CASE p \in L!PagesOf(machine.begin, machine.size)
            BY <2>1 DEF Foreign
        <2>2. CASE p \in UNION {Covered(b) : b \in reserved}
            <3>1. PICK b \in reserved : p \in Covered(b)
                BY <2>2
            <3> QED
                BY <1>2, <3>1
        <2> QED
            BY <2>1, <2>2
    <1> QED
        BY <1>3, Reaches DEF Ready

\* A region that begins with a page is mapped whole.
LEMMA RegionCovered ==
    ASSUME NEW r \in L!Region, r.base % PageSize = 0
    PROVE  L!PagesOf(r.base, r.length) = RegionPages(r)
    <1> DEFINE x == r.base \div PageSize
               y == (r.length - 1) \div PageSize
    <1>1. r.base \in Nat /\ r.length \in Nat \ {0} /\ r.length - 1 \in Nat
        BY DEF L!Region
    <1>2. x \in Nat /\ y \in Nat /\ r.base = x * PageSize /\ L!PageCount(r.length) = y + 1
        <2>1. x \in Nat /\ r.base = PageSize * x + (r.base % PageSize)
            BY <1>1, Positive, Quotient
        <2>2. y \in Nat /\ L!PageCount(r.length) = y + 1
            <3>1. y \in Nat
                BY <1>1, Positive, Quotient
            <3> QED
                BY <1>1, <3>1, PageCountIs
        <2> HIDE DEF x, y
        <2>3. r.base = x * PageSize
            BY <2>1, Positive
        <2> QED
            BY <2>1, <2>2, <2>3
    <1>3. (r.base + r.length - 1) \div PageSize = y + x
        <2>1. ((r.length - 1) + x * PageSize) \div PageSize = y + x
            BY <1>1, <1>2, PagesOn
        <2> DEFINE z == x * PageSize
        <2>2. z = r.base
            BY <1>2
        <2> HIDE DEF z, x, y
        <2>3. r.base + r.length - 1 = (r.length - 1) + z
            BY <1>1, <2>2
        <2> QED
            BY <2>1, <2>3 DEF z
    <1>4. x + (y + 1) - 1 = y + x
        BY <1>2
    <1> QED
        BY <1>2, <1>3, <1>4 DEF L!PagesOf, RegionPages

\* What virtdbg finds when it is jumped to.
LEMMA JumpFinds ==
    ASSUME Ready, at = "jump"
    PROVE  /\ \A p \in 0 .. IdentityPages - 1 : L!Translate(p) = {p}
           /\ \A i \in DOMAIN machine.memmap :
                 LET r == machine.memmap[i]
                 IN  r.type \in L!Allocatable =>
                         \A p \in L!PagesOf(r.base, r.length) :
                             L!Translate(p) = {p} /\ L!Translate(p + PhysOffset) = {p}
           /\ \A n \in Copy : /\ L!Translate(KernelOffset + n) = {ImagePage(n)}
                              /\ ImagePage(n) \in DOMAIN image /\ image[ImagePage(n)] = n
    <1>1. at \notin Early /\ loaded /\ todo = <<>> /\ ImageThere
        BY DEF Ready, SpaceInv, StageInv, ImageInv, Early
    <1>2. ASSUME NEW p \in 0 .. IdentityPages - 1 PROVE L!Translate(p) = {p}
        <2>1. [frame |-> p, page |-> p] \in Calls
            BY DEF Calls, VmmCalls, Low
        <2> QED
            BY <1>1, <2>1, CallTranslated
    <1>3. ASSUME NEW i \in DOMAIN machine.memmap, machine.memmap[i].type \in L!Allocatable,
                 NEW p \in L!PagesOf(machine.memmap[i].base, machine.memmap[i].length)
          PROVE  L!Translate(p) = {p} /\ L!Translate(p + PhysOffset) = {p}
        <2>1. machine.memmap[i] \in L!Region
            BY DEF Ready, LoaderInv, L!Machine
        <2>2. machine.memmap[i].base % PageSize = 0
            BY <1>3 DEF Ready, Bootable
        <2>3. p \in RegionPages(machine.memmap[i])
            BY <2>1, <2>2, RegionCovered
        <2>4. [frame |-> p, page |-> p] \in Calls /\ [frame |-> p, page |-> p + PhysOffset] \in Calls
            BY <2>3 DEF Calls, VmmCalls, Both
        <2>5. L!Translate([frame |-> p, page |-> p].page) = {[frame |-> p, page |-> p].frame}
            BY <1>1, <2>4, CallTranslated
        <2>6. L!Translate([frame |-> p, page |-> p + PhysOffset].page)
                  = {[frame |-> p, page |-> p + PhysOffset].frame}
            BY <1>1, <2>4, CallTranslated
        <2> QED
            BY <2>5, <2>6
    <1>4. ASSUME NEW n \in Copy
          PROVE  /\ L!Translate(KernelOffset + n) = {ImagePage(n)}
                 /\ ImagePage(n) \in DOMAIN image /\ image[ImagePage(n)] = n
        BY <1>1, ImageTranslated DEF ImageThere
    <1> QED
        BY <1>2, <1>3, <1>4

\* On every machine that the loader can boot, with room for what it allocates:
\* whatever it touches after it has loaded its own page tables is mapped, what
\* it uses is where it was, and when it jumps low memory, the free regions and
\* the image are where map_page was told to put them.
THEOREM Space == BootSpec => [](Bootable(machine) /\ Fits => AddressSpace)
    <1>1. LoaderInv /\ PlacedInv /\ SpaceHolds => (Bootable(machine) /\ Fits => AddressSpace)
        <2> SUFFICES ASSUME LoaderInv, PlacedInv, SpaceHolds, Bootable(machine), Fits
                     PROVE  AddressSpace
            OBVIOUS
        <2>1. Within /\ Ready
            BY DEF Fits, Within, SpaceHolds, Ready
        <2>2. L!Accessible(Accessed)
            <3>1. CASE loaded
                BY <2>1, <3>1, AccessFound
            <3>2. CASE ~loaded
                BY <3>2 DEF L!Accessible, L!Reach
            <3> QED
                BY <3>1, <3>2
        <2>3. loaded =>
                 \A p \in (UNION {Covered(b) : b \in reserved})
                          \cup L!PagesOf(machine.begin, machine.size) :
                     L!Translate(p) = {p}
            BY <2>1, OwnFound
        <2> QED
            BY <2>1, <2>2, <2>3, JumpFinds DEF AddressSpace, Copy, ImagePage
    <1>2. SpaceInv => SpaceHolds
        BY DEF SpaceHolds
    <1>3. LoaderInv /\ PlacedInv /\ SpaceHolds /\ [BootNext]_boot_vars => SpaceHolds'
        BY SpaceStep
    <1> QED
        BY <1>1, <1>2, <1>3, SpaceInit, Placement, BootInvariant, PTL DEF BootSpec
=============================================================================
