----------------------------- MODULE GdbProofs ------------------------------
(***************************************************************************)
(* Theorems about gdb/gdb.c for any commands, exceptions, sizes and        *)
(* numbers of retries, and any number of faults on the line.               *)
(***************************************************************************)
EXTENDS Gdb, NaturalsInduction, WellFoundedInduction, SequenceTheorems,
        TLAPS

Bytes == 0 .. 255

\* The packets of the stub, and what may become of them.
Answers == {"", "OK", "registers", "signal", "damaged"}

\* What is on its way to the client.
Entries == {<<"+">>, <<"-">>, <<"$">>} \cup ({"packet"} \X Answers)

\* The line, the retries, the program and the client's counters.
Plain ==
    /\ toStub \in Seq(Bytes) /\ toClient \in Seq(Entries)
    /\ retries \in 0 .. Tries - 1 /\ reply \in Answers
    /\ ctx \in [rip : Nat, tf : BOOLEAN]
    /\ refused \in BOOLEAN /\ skips \in BOOLEAN
    /\ sent \in 0 .. MaxCommands /\ faults \in 0 .. MaxFaults

\* What the receiver has read.
Reading ==
    /\ pc \in {"run", "await", "start", "data", "sum1", "sum2", "execute",
               "divide", "halted"}
    /\ buf \in Seq(Bytes) /\ Len(buf) <= DataSize
    /\ pc \in {"sum1", "sum2", "execute"} => Len(buf) < DataSize
    /\ sum \in Bytes /\ num \in Bytes

\* The client's state.
Asking ==
    /\ phase \in {"stop", "idle", "ack", "reply"}
    /\ cmd \in Commands \cup {<<>>}
    /\ phase \in {"ack", "reply"} => cmd \in Commands

TypeInv == Plain /\ Reading /\ Asking

-----------------------------------------------------------------------------
(* Lemmas about numbers                                                    *)

\* A set of numbers has a least one.
LEMMA Least ==
    ASSUME NEW S \in SUBSET Nat, S # {}
    PROVE  \E n \in S : \A m \in S : n <= m
    <1> DEFINE R == OpToRel(<, Nat)
    <1>1. IsWellFoundedOn(R, Nat)
        BY NatLessThanWellFounded
    <1> HIDE DEF R
    <1>2. PICK n \in S : \A m \in S : <<m, n>> \notin R
        BY <1>1, WFMin, Zenon
    <1>3. \A m \in S : ~(m < n)
        BY <1>2 DEF R, OpToRel
    <1> QED
        BY <1>3

LEMMA Whole ==
    ASSUME NEW a \in Nat, NEW b \in Nat, NEW c \in Nat
    PROVE  a * b + c \in Nat
    OBVIOUS

\* The first k + 1 values of the recursion behind Number.
Sums(s, base, k, f) ==
    /\ f \in [0 .. k -> Nat] /\ f[0] = 0
    /\ \A j \in 1 .. k : f[j] = f[j - 1] * base + s[j]

LEMMA SumsExist ==
    ASSUME NEW base \in Nat, NEW s \in Seq(Nat)
    PROVE  \E f : Sums(s, base, Len(s), f)
    <1> DEFINE S == {m \in Nat : m <= Len(s) /\ ~\E f : Sums(s, base, m, f)}
    <1>1. Len(s) \in Nat
        OBVIOUS
    <1>2. S = {}
        <2> SUFFICES ASSUME S # {} PROVE FALSE
            OBVIOUS
        <2>1. PICK m \in S : \A j \in S : m <= j
            BY Least
        <2>2. m \in Nat /\ m <= Len(s) /\ ~\E f : Sums(s, base, m, f)
            OBVIOUS
        <2>3. m # 0
            <3>1. Sums(s, base, 0, [k \in 0 .. 0 |-> 0])
                BY DEF Sums
            <3> QED
                BY <3>1, <2>2
        <2>4. m - 1 \in Nat /\ m - 1 < m /\ m - 1 <= Len(s)
            BY <2>2, <2>3, <1>1
        <2>5. \E f : Sums(s, base, m - 1, f)
            <3>1. m - 1 \notin S
                <4> HIDE DEF S
                <4>1. m - 1 \in S => m <= m - 1
                    BY <2>1
                <4> QED
                    BY <4>1, <2>2, <2>4
            <3> QED
                BY <3>1, <2>4
        <2>6. PICK f : Sums(s, base, m - 1, f)
            BY <2>5
        <2> DEFINE g == [k \in 0 .. m |-> IF k < m THEN f[k] ELSE f[m - 1] * base + s[m]]
        <2>7. f \in [0 .. m - 1 -> Nat] /\ f[0] = 0
              /\ \A k \in 1 .. m - 1 : f[k] = f[k - 1] * base + s[k]
            BY <2>6 DEF Sums
        <2>8. f[m - 1] * base + s[m] \in Nat
            <3>1. s[m] \in Nat
                BY <2>2, <2>3, <1>1
            <3>2. f[m - 1] \in Nat
                BY <2>4, <2>7
            <3> QED
                BY <3>1, <3>2, Whole
        <2>9. g \in [0 .. m -> Nat]
            BY <2>2, <2>7, <2>8
        <2>10. g[0] = 0
            BY <2>2, <2>3, <2>7
        <2>11. ASSUME NEW k \in 1 .. m PROVE g[k] = g[k - 1] * base + s[k]
            <3>1. CASE k = m
                <4>1. g[k] = f[m - 1] * base + s[m] /\ g[k - 1] = f[m - 1]
                    BY <3>1, <2>2, <2>3
                <4> QED
                    BY <4>1, <3>1
            <3>2. CASE k # m
                <4>1. k \in 1 .. m - 1 /\ g[k] = f[k] /\ g[k - 1] = f[k - 1]
                    BY <3>2, <2>2, <2>3
                <4> QED
                    BY <4>1, <2>7
            <3> QED
                BY <3>1, <3>2
        <2>12. Sums(s, base, m, g)
            BY <2>9, <2>10, <2>11 DEF Sums
        <2> QED
            BY <2>12, <2>2
    <1>3. Len(s) \notin S
        BY <1>2
    <1> QED
        BY <1>1, <1>3

\* The recursion has one solution.
LEMMA SumsNumber ==
    ASSUME NEW base \in Nat, NEW s \in Seq(Nat), NEW f, Sums(s, base, Len(s), f)
    PROVE  Number(s, base) = f[Len(s)]
    <1> DEFINE L == Len(s)
               Again(v) == [k \in 0 .. L |-> IF k = 0 THEN 0 ELSE v[k - 1] * base + s[k]]
               g == CHOOSE v : v = Again(v)
    <1>1. L \in Nat
        OBVIOUS
    <1>2. Number(s, base) = g[L]
        BY DEF Number
    <1>3. f \in [0 .. L -> Nat] /\ f[0] = 0
          /\ \A k \in 1 .. L : f[k] = f[k - 1] * base + s[k]
        BY DEF Sums
    <1> HIDE DEF L
    <1>4. f = Again(f)
        <2>1. ASSUME NEW k \in 0 .. L PROVE f[k] = Again(f)[k]
            <3>1. CASE k = 0
                BY <3>1, <1>3
            <3>2. CASE k # 0
                <4>1. k \in 1 .. L
                    BY <3>2, <1>1
                <4>2. f[k] = f[k - 1] * base + s[k]
                    BY <4>1, <1>3
                <4> QED
                    BY <4>2, <3>2
            <3> QED
                BY <3>1, <3>2
        <2>2. f = [k \in 0 .. L |-> f[k]]
            BY <1>3
        <2> QED
            BY <2>1, <2>2
    <1>5. g = Again(g)
        <2> HIDE DEF Again
        <2> QED
            BY <1>4
    <1> HIDE DEF g
    <1>6. g[0] = 0 /\ \A k \in 1 .. L : g[k] = g[k - 1] * base + s[k]
        <2>1. 0 \in 0 .. L
            BY <1>1
        <2>2. \A k \in 0 .. L : g[k] = Again(g)[k]
            BY <1>5, Zenon
        <2>3. \A k \in 0 .. L : g[k] = IF k = 0 THEN 0 ELSE g[k - 1] * base + s[k]
            BY <2>2
        <2> QED
            BY <2>1, <2>3, <1>1
    <1> DEFINE S == {k \in Nat : k <= L /\ g[k] # f[k]}
    <1>7. S = {}
        <2> SUFFICES ASSUME S # {} PROVE FALSE
            OBVIOUS
        <2>1. PICK k \in S : \A j \in S : k <= j
            BY Least
        <2>2. k \in Nat /\ k <= L /\ g[k] # f[k]
            OBVIOUS
        <2>3. k # 0
            BY <2>2, <1>3, <1>6
        <2>4. k \in 1 .. L /\ k - 1 \in Nat /\ k - 1 <= L /\ ~(k <= k - 1)
            BY <2>2, <2>3, <1>1
        <2>5. g[k - 1] = f[k - 1]
            BY <2>1, <2>4
        <2>6. g[k] = g[k - 1] * base + s[k] /\ f[k] = f[k - 1] * base + s[k]
            BY <2>4, <1>3, <1>6
        <2> QED
            BY <2>2, <2>5, <2>6, Zenon
    <1>8. L \notin S
        BY <1>7
    <1>9. g[L] = f[L]
        BY <1>8, <1>1
    <1> QED
        BY <1>2, <1>9 DEF L

LEMMA NumberNat ==
    ASSUME NEW base \in Nat, NEW s \in Seq(Nat)
    PROVE  Number(s, base) \in Nat
    <1>1. PICK f : Sums(s, base, Len(s), f)
        BY SumsExist
    <1>2. Number(s, base) = f[Len(s)]
        BY <1>1, SumsNumber
    <1> QED
        BY <1>1, <1>2 DEF Sums

LEMMA NumberNone ==
    ASSUME NEW base \in Nat
    PROVE  Number(<<>>, base) = 0
    <1> DEFINE s == <<>>
    <1>1. s \in Seq(Nat) /\ Len(s) = 0
        OBVIOUS
    <1> HIDE DEF s
    <1>2. PICK f : Sums(s, base, Len(s), f)
        BY <1>1, SumsExist
    <1>3. Number(s, base) = f[Len(s)]
        BY <1>1, <1>2, SumsNumber
    <1> QED
        BY <1>1, <1>2, <1>3 DEF Sums, s

\* Each digit more multiplies by the base.
LEMMA NumberAppend ==
    ASSUME NEW base \in Nat, NEW s \in Seq(Nat), NEW c \in Nat
    PROVE  Number(Append(s, c), base) = Number(s, base) * base + c
    <1> DEFINE t == Append(s, c)
               L == Len(s)
    <1>1. t \in Seq(Nat) /\ Len(t) = L + 1 /\ L \in Nat
          /\ t[L + 1] = c /\ \A k \in 1 .. L : t[k] = s[k]
        OBVIOUS
    <1> HIDE DEF t
    <1>2. PICK f : Sums(t, base, Len(t), f)
        BY <1>1, SumsExist
    <1>3. Number(t, base) = f[L + 1]
        BY <1>1, <1>2, SumsNumber
    <1>4. f \in [0 .. L + 1 -> Nat] /\ f[0] = 0
          /\ \A k \in 1 .. L + 1 : f[k] = f[k - 1] * base + t[k]
        BY <1>1, <1>2 DEF Sums
    <1> DEFINE g == [k \in 0 .. L |-> f[k]]
    <1>5. g \in [0 .. L -> Nat] /\ g[0] = 0 /\ g[L] = f[L]
        BY <1>4, <1>1
    <1>6. \A k \in 1 .. L : g[k] = g[k - 1] * base + s[k]
        BY <1>4, <1>1
    <1>7. Sums(s, base, L, g)
        BY <1>5, <1>6 DEF Sums
    <1> HIDE DEF g
    <1>8. Number(s, base) = g[L]
        BY <1>7, SumsNumber
    <1>9. f[L + 1] = f[L] * base + c
        <2>1. L + 1 \in 1 .. L + 1 /\ (L + 1) - 1 = L
            BY <1>1
        <2>2. f[L + 1] = f[(L + 1) - 1] * base + t[L + 1]
            BY <2>1, <1>4
        <2> QED
            BY <2>1, <2>2, <1>1, Zenon
    <1> QED
        BY <1>3, <1>8, <1>9, <1>5 DEF t

-----------------------------------------------------------------------------
(* Lemmas about characters and packets                                     *)

LEMMA HexNat ==
    ASSUME NEW c \in Nat, Hex(c) # -1
    PROVE  Hex(c) \in Nat
    BY DEF Hex

LEMMA ReadHexNat ==
    ASSUME NEW s \in Seq(Nat)
    PROVE  ReadHex(s) \in Nat
    <1> DEFINE L == Len(s)
               S == {k \in Nat : k <= L /\ (k = L \/ Hex(s[k + 1]) = -1)}
               Ends(k) == /\ \A i \in 1 .. k : Hex(s[i]) # -1
                          /\ k < L => Hex(s[k + 1]) = -1
               end == CHOOSE k \in 0 .. L : Ends(k)
               digits == [i \in 1 .. end |-> Hex(s[i])]
    <1>1. L \in Nat /\ \A i \in 1 .. L : s[i] \in Nat
        OBVIOUS
    <1>2. L \in S
        BY <1>1
    <1>3. PICK k \in S : \A j \in S : k <= j
        BY <1>2, Least
    <1>4. k \in 0 .. L /\ (k < L => Hex(s[k + 1]) = -1)
        BY <1>1
    <1>5. ASSUME NEW i \in 1 .. k PROVE Hex(s[i]) # -1
        <2>1. i - 1 \notin S
            <3> HIDE DEF S
            <3>1. i - 1 \in S => k <= i - 1
                BY <1>3
            <3> QED
                BY <3>1, <1>4
        <2>2. i - 1 \in Nat /\ i - 1 < L /\ (i - 1) + 1 = i
            BY <1>1, <1>4
        <2>3. Hex(s[(i - 1) + 1]) # -1
            BY <2>1, <2>2
        <2> QED
            BY <2>2, <2>3
    <1>6. Ends(k)
        BY <1>4, <1>5
    <1> HIDE DEF Ends
    <1>7. end \in 0 .. L /\ Ends(end)
        BY <1>4, <1>6
    <1>8. ReadHex(s) = Number(digits, 16)
        BY DEF ReadHex, Ends
    <1> HIDE DEF end
    <1>9. ASSUME NEW i \in 1 .. end PROVE Hex(s[i]) \in Nat
        <2>1. s[i] \in Nat /\ Hex(s[i]) # -1
            BY <1>1, <1>7 DEF Ends
        <2> QED
            BY <2>1, HexNat
    <1>10. digits \in Seq(Nat)
        BY <1>7, <1>9, <1>1
    <1> QED
        BY <1>8, <1>10, NumberNat

LEMMA BytesNat ==
    ASSUME NEW s \in Seq(Bytes)
    PROVE  s \in Seq(Nat)
    <1>1. s \in [1 .. Len(s) -> Bytes] /\ Len(s) \in Nat
        OBVIOUS
    <1>2. Bytes \subseteq Nat
        BY DEF Bytes
    <1>3. s \in [1 .. Len(s) -> Nat]
        BY <1>1, <1>2
    <1> QED
        BY <1>1, <1>3

LEMMA DigitByte ==
    ASSUME NEW n \in 0 .. 15
    PROVE  Digit(n) \in Bytes /\ Digit(n) # Dollar
    BY DEF Digit, Bytes, Dollar

\* What the stub makes of a digit below ten.
LEMMA DigitRead ==
    ASSUME NEW n \in 0 .. 9
    PROVE  Hex(Digit(n)) = n
    BY DEF Digit, Hex

LEMMA Checksum ==
    ASSUME NEW t \in Nat
    PROVE  /\ t % 256 \in Bytes
           /\ (t % 256) \div 16 \in 0 .. 15 /\ (t % 256) % 16 \in 0 .. 15
           /\ t % 256 = (((t % 256) \div 16) * 16) + ((t % 256) % 16)
    <1>1. t % 256 \in 0 .. 255
        OBVIOUS
    <1>2. ASSUME NEW n \in 0 .. 255
          PROVE  n \div 16 \in 0 .. 15 /\ n % 16 \in 0 .. 15 /\ n = ((n \div 16) * 16) + (n % 16)
        OBVIOUS
    <1> QED
        BY <1>1, <1>2 DEF Bytes

LEMMA PacketShape ==
    ASSUME NEW data \in Seq(Bytes)
    PROVE  LET P == Packet(data)
               N == Len(data)
               t == Number(data, 1) % 256
           IN  /\ P \in Seq(Bytes) /\ Len(P) = N + 4
               /\ P[1] = Dollar /\ P[N + 2] = Hash
               /\ \A k \in 1 .. N : P[k + 1] = data[k]
               /\ P[N + 3] = Digit(t \div 16) /\ P[N + 4] = Digit(t % 16)
    <1> DEFINE N == Len(data)
               t == Number(data, 1) % 256
               a == Digit(t \div 16)
               b == Digit(t % 16)
               P == <<Dollar>> \o data \o <<Hash, a, b>>
    <1>1. data \in Seq(Nat)
        BY BytesNat
    <1>2. Number(data, 1) \in Nat
        BY <1>1, NumberNat
    <1>3. a \in Bytes /\ b \in Bytes
        <2>1. \A m \in Nat : (m % 256) \div 16 \in 0 .. 15 /\ (m % 256) % 16 \in 0 .. 15
            <3> TAKE m \in Nat
            <3> QED
                BY Checksum
        <2>2. t \div 16 \in 0 .. 15 /\ t % 16 \in 0 .. 15
            BY <1>2, <2>1, Zenon
        <2> QED
            BY <2>2, DigitByte, Zenon
    <1>4. Packet(data) = P
        BY DEF Packet
    <1> HIDE DEF t, a, b
    <1>5. Dollar \in Bytes /\ Hash \in Bytes
        BY DEF Dollar, Hash, Bytes
    <1>6. P \in Seq(Bytes) /\ Len(P) = N + 4
        BY <1>3, <1>5
    <1>7. P[1] = Dollar /\ P[N + 2] = Hash /\ P[N + 3] = a /\ P[N + 4] = b
        BY <1>3, <1>5
    <1>8. \A k \in 1 .. N : P[k + 1] = data[k]
        BY <1>3, <1>5
    <1> QED
        BY <1>4, <1>6, <1>7, <1>8 DEF t, a, b

LEMMA CommandBytes ==
    ASSUME NEW data \in Commands
    PROVE  data \in Seq(1 .. 127) /\ data \in Seq(Bytes) /\ data # <<>>
    <1>1. data \in Seq(1 .. 127) /\ data # <<>>
        BY CharacterAssumption
    <1> QED
        BY <1>1 DEF Bytes

-----------------------------------------------------------------------------
(* Lemmas about the line                                                   *)

LEMMA Received ==
    ASSUME NEW c, toStub \in Seq(Bytes), Get(c)
    PROVE  /\ Len(toStub) \in Nat /\ Len(toStub) > 0 /\ c = toStub[1] /\ c \in Bytes
           /\ toStub' \in Seq(Bytes) /\ Len(toStub') = Len(toStub) - 1
           /\ \A i \in 1 .. Len(toStub') : toStub'[i] = toStub[i + 1]
    <1>1. toStub # <<>> /\ c = Head(toStub) /\ toStub' = Tail(toStub)
        BY DEF Get
    <1> QED
        BY <1>1

LEMMA Removed ==
    ASSUME NEW T, NEW s \in Seq(T), NEW i \in 1 .. Len(s)
    PROVE  /\ RemoveAt(s, i) \in Seq(T) /\ Len(RemoveAt(s, i)) = Len(s) - 1
           /\ \A j \in 1 .. Len(s) - 1 : RemoveAt(s, i)[j] = IF j < i THEN s[j] ELSE s[j + 1]
    <1> DEFINE a == SubSeq(s, 1, i - 1)
               b == SubSeq(s, i + 1, Len(s))
    <1>1. a \in Seq(T) /\ Len(a) = i - 1 /\ \A j \in 1 .. i - 1 : a[j] = s[j]
        OBVIOUS
    <1>2. b \in Seq(T) /\ Len(b) = Len(s) - i /\ \A j \in 1 .. Len(s) - i : b[j] = s[i + j]
        OBVIOUS
    <1>3. RemoveAt(s, i) = a \o b
        BY DEF RemoveAt
    <1> HIDE DEF a, b
    <1>4. a \o b \in Seq(T) /\ Len(a \o b) = Len(s) - 1
        <2>1. a \o b \in Seq(T)
            BY <1>1, <1>2
        <2>2. Len(a \o b) = Len(a) + Len(b)
            <3>1. a \in Seq(T) /\ b \in Seq(T)
                BY <1>1, <1>2
            <3> QED
                BY <3>1, ConcatProperties
        <2> QED
            BY <2>1, <2>2, <1>1, <1>2
    <1>5. ASSUME NEW j \in 1 .. Len(s) - 1
          PROVE  (a \o b)[j] = IF j < i THEN s[j] ELSE s[j + 1]
        <2>1. CASE j < i
            BY <2>1, <1>1, <1>2
        <2>2. CASE ~(j < i)
            <3>1. (a \o b)[j] = b[j - (i - 1)]
                BY <2>2, <1>1, <1>2
            <3>2. j - (i - 1) \in 1 .. Len(s) - i /\ i + (j - (i - 1)) = j + 1
                BY <2>2
            <3> QED
                BY <3>1, <3>2, <1>2, <2>2
        <2> QED
            BY <2>1, <2>2
    <1> QED
        BY <1>3, <1>4, <1>5

LEMMA Replaced ==
    ASSUME NEW T, NEW s \in Seq(T), NEW i \in 1 .. Len(s), NEW e \in T
    PROVE  /\ ReplaceAt(s, i, e) \in Seq(T) /\ Len(ReplaceAt(s, i, e)) = Len(s)
           /\ \A j \in 1 .. Len(s) : ReplaceAt(s, i, e)[j] = IF j = i THEN e ELSE s[j]
    BY DEF ReplaceAt

-----------------------------------------------------------------------------
(* Types                                                                   *)

LEMMA Sizes == /\ DataSize \in Nat /\ DataSize > 0 /\ Tries \in Nat /\ Tries > 0
               /\ MaxCommands \in Nat /\ MaxFaults \in Nat /\ Noise \subseteq Bytes
    BY SizeAssumption, BoundAssumption, CharacterAssumption DEF Bytes

LEMMA EntryOf == ASSUME NEW a \in Answers PROVE <<"packet", a>> \in Entries
    BY DEF Entries

LEMMA Signs == <<"+">> \in Entries /\ <<"-">> \in Entries /\ <<"$">> \in Entries
    BY DEF Entries

LEMMA Added ==
    ASSUME NEW e \in Entries, toClient \in Seq(Entries)
    PROVE  Append(toClient, e) \in Seq(Entries)
    OBVIOUS

LEMMA Quotes == ASSUME NEW c PROVE Quoted(c) \in Seq(Entries)
    BY Signs DEF Quoted

LEMMA ShiftByte ==
    ASSUME NEW n \in Bytes, NEW c \in Bytes
    PROVE  Shift(n, c) \in Bytes
    <1>1. Hex(c) \in -1 .. 15
        BY DEF Hex, Bytes
    <1>2. (n * 16) % 256 \in {16 * k : k \in 0 .. 15}
        <2>1. ASSUME NEW m \in 0 .. 255
              PROVE  (m * 16) % 256 = 16 * (m % 16) /\ m % 16 \in 0 .. 15
            OBVIOUS
        <2> QED
            BY <2>1 DEF Bytes
    <1> QED
        BY <1>1, <1>2 DEF Shift, Bytes

LEMMA Sent ==
    ASSUME NEW chars \in Seq(Bytes), toStub \in Seq(Bytes), Send(chars)
    PROVE  /\ toStub' \in Seq(Bytes) /\ Len(toStub') = Len(toStub) + Len(chars)
           /\ \A i \in 1 .. Len(toStub) : toStub'[i] = toStub[i]
           /\ \A i \in 1 .. Len(chars) : toStub'[Len(toStub) + i] = chars[i]
    <1>1. toStub' = toStub \o chars
        BY DEF Send
    <1>2. toStub \o chars \in Seq(Bytes)
        OBVIOUS
    <1>3. Len(toStub \o chars) = Len(toStub) + Len(chars)
        BY ConcatProperties
    <1>4. \A i \in 1 .. Len(toStub) : (toStub \o chars)[i] = toStub[i]
        OBVIOUS
    <1>5. \A i \in 1 .. Len(chars) : (toStub \o chars)[Len(toStub) + i] = chars[i]
        OBVIOUS
    <1> QED
        BY <1>1, <1>2, <1>3, <1>4, <1>5, Zenon

LEMMA One == <<Plus>> \in Seq(Bytes) /\ <<Minus>> \in Seq(Bytes)
             /\ Len(<<Plus>>) = 1 /\ Len(<<Minus>>) = 1
    BY DEF Plus, Minus, Bytes

LEMMA PacketBytes ==
    ASSUME NEW data \in Commands
    PROVE  Packet(data) \in Seq(Bytes)
    BY CommandBytes, PacketShape

LEMMA Transmitted ==
    ASSUME NEW a \in Answers, toClient \in Seq(Entries), Transmit(a)
    PROVE  /\ pc' = "await" /\ reply' \in Answers /\ retries' \in 0 .. Tries - 1
           /\ toClient' \in Seq(Entries)
    <1>1. retries' = Tries - 1 /\ reply' = a /\ pc' = "await"
          /\ toClient' = Append(toClient, <<"packet", a>>)
        BY DEF Transmit
    <1>2. toClient' \in Seq(Entries)
        BY <1>1, EntryOf, Added
    <1> QED
        BY <1>1, <1>2, Sizes


LEMMA TypeInit == Init => TypeInv
    <1> SUFFICES ASSUME Init PROVE TypeInv
        OBVIOUS
    <1>1. toStub = <<>> /\ toClient = <<>> /\ buf = <<>> /\ cmd = <<>>
        BY Zenon DEF Init
    <1>2. sum = 0 /\ num = 0 /\ retries = 0 /\ sent = 0 /\ faults = 0
        BY Zenon DEF Init
    <1>3. pc = "run" /\ phase = "stop" /\ reply = ""
        BY Zenon DEF Init
    <1>4. ctx = [rip |-> 0, tf |-> FALSE] /\ refused = FALSE /\ skips = FALSE
        BY Zenon DEF Init
    <1>5. Plain
        <2>1. toStub \in Seq(Bytes) /\ toClient \in Seq(Entries)
            BY <1>1
        <2>2. reply \in Answers
            BY <1>3 DEF Answers
        <2>3. ctx \in [rip : Nat, tf : BOOLEAN] /\ refused \in BOOLEAN /\ skips \in BOOLEAN
            BY <1>4
        <2>4. retries \in 0 .. Tries - 1 /\ sent \in 0 .. MaxCommands /\ faults \in 0 .. MaxFaults
            BY <1>2, Sizes
        <2> QED
            BY <2>1, <2>2, <2>3, <2>4, Zenon DEF Plain
    <1>6. Reading
        <2>1. buf \in Seq(Bytes) /\ Len(buf) <= DataSize
            BY <1>1, Sizes
        <2>2. sum \in Bytes /\ num \in Bytes
            BY <1>2 DEF Bytes
        <2> QED
            BY <1>3, <2>1, <2>2 DEF Reading
    <1>7. Asking
        BY <1>1, <1>3 DEF Asking
    <1> QED
        BY <1>5, <1>6, <1>7 DEF TypeInv

LEMMA TypeKept == TypeInv => TypeOK
    <1> SUFFICES ASSUME TypeInv PROVE TypeOK
        OBVIOUS
    <1> USE DEF TypeInv, Plain, Reading, Asking
    <1>1. ASSUME NEW i \in 1 .. Len(toStub) PROVE toStub[i] \in 0 .. 255
        <2>1. toStub[i] \in Bytes
            OBVIOUS
        <2> QED
            BY <2>1 DEF Bytes
    <1>2. sum \in 0 .. 255 /\ num \in 0 .. 255
        BY DEF Bytes
    <1> QED
        BY <1>1, <1>2, Zenon DEF TypeOK

\* The stub, as long as it waits, sends and skips.
LEMMA WaitTypes ==
    ASSUME TypeInv,
           \/ Acknowledged \/ Begin
           \/ \E c : SendAgain(c) \/ GiveUp(c) \/ Skip(c)
    PROVE  TypeInv'
    <1> USE DEF TypeInv
    <1>1. CASE Acknowledged
        <2>1. toStub' \in Seq(Bytes)
            BY <1>1, Received DEF Acknowledged, Plain
        <2>2. Plain'
            BY <1>1, <2>1 DEF Acknowledged, stub, packet, sending, client, Plain
        <2>3. Reading'
            BY <1>1 DEF Acknowledged, stub, packet, sending, client, Reading
        <2>4. Asking'
            BY <1>1 DEF Acknowledged, stub, packet, sending, client, Asking
        <2> QED
            BY <2>2, <2>3, <2>4
    <1>2. CASE Begin
        <2>1. toStub' \in Seq(Bytes)
            BY <1>2, Received DEF Begin, Plain
        <2>2. Plain'
            BY <1>2, <2>1 DEF Begin, stub, packet, sending, client, Plain
        <2>3. Reading'
            BY <1>2, Sizes DEF Begin, stub, packet, sending, client, Reading, Bytes
        <2>4. Asking'
            BY <1>2 DEF Begin, stub, packet, sending, client, Asking
        <2> QED
            BY <2>2, <2>3, <2>4
    <1>3. ASSUME NEW c, SendAgain(c) PROVE TypeInv'
        <2>1. toStub' \in Seq(Bytes)
            BY <1>3, Received DEF SendAgain, Plain
        <2>2. toClient' \in Seq(Entries)
            <3>1. <<"packet", reply>> \in Entries
                BY EntryOf DEF Plain
            <3> QED
                BY <1>3, <3>1, Added DEF SendAgain, Plain
        <2>3. retries' \in 0 .. Tries - 1
            BY <1>3, Sizes DEF SendAgain, Plain
        <2>4. Plain'
            BY <1>3, <2>1, <2>2, <2>3 DEF SendAgain, stub, packet, sending, client, Plain
        <2>5. Reading'
            BY <1>3 DEF SendAgain, stub, packet, sending, client, Reading
        <2>6. Asking'
            BY <1>3 DEF SendAgain, stub, packet, sending, client, Asking
        <2> QED
            BY <2>4, <2>5, <2>6
    <1>4. ASSUME NEW c, GiveUp(c) \/ Skip(c) PROVE TypeInv'
        <2>1. toStub' \in Seq(Bytes)
            BY <1>4, Received DEF GiveUp, Skip, Plain
        <2>2. Plain'
            BY <1>4, <2>1 DEF GiveUp, Skip, stub, packet, sending, client, Plain
        <2>3. Reading'
            BY <1>4 DEF GiveUp, Skip, stub, packet, sending, client, Reading
        <2>4. Asking'
            BY <1>4 DEF GiveUp, Skip, stub, packet, sending, client, Asking
        <2> QED
            BY <2>2, <2>3, <2>4
    <1> QED
        BY <1>1, <1>2, <1>3, <1>4

\* The stub, inside a packet.
LEMMA PacketTypes ==
    ASSUME TypeInv,
           \/ EndData \/ Overflow
           \/ \E c : Data(c) \/ FirstDigit(c) \/ Accept(c) \/ Refuse(c)
    PROVE  TypeInv'
    <1> USE DEF TypeInv
    <1>1. CASE EndData
        <2>1. toStub' \in Seq(Bytes)
            BY <1>1, Received DEF EndData, Plain
        <2>2. Plain'
            BY <1>1, <2>1 DEF EndData, stub, packet, sending, client, Plain
        <2>3. Reading'
            BY <1>1 DEF EndData, stub, packet, sending, client, Reading, Bytes
        <2>4. Asking'
            BY <1>1 DEF EndData, stub, packet, sending, client, Asking
        <2> QED
            BY <2>2, <2>3, <2>4
    <1>2. CASE Overflow
        <2>1. toClient' \in Seq(Entries)
            BY <1>2, Signs, Added DEF Overflow, Plain
        <2>2. Plain'
            BY <1>2, <2>1 DEF Overflow, stub, packet, sending, client, Plain
        <2>3. Reading'
            BY <1>2 DEF Overflow, stub, packet, sending, client, Reading
        <2>4. Asking'
            BY <1>2 DEF Overflow, stub, packet, sending, client, Asking
        <2> QED
            BY <2>2, <2>3, <2>4
    <1>3. ASSUME NEW c, Data(c) PROVE TypeInv'
        <2>1. toStub' \in Seq(Bytes) /\ c \in Bytes
            BY <1>3, Received DEF Data, Plain
        <2>2. Plain'
            BY <1>3, <2>1 DEF Data, stub, packet, sending, client, Plain
        <2>3. buf' \in Seq(Bytes) /\ Len(buf') <= DataSize
            <3>1. buf' = Append(buf, c) /\ Len(buf) < DataSize /\ buf \in Seq(Bytes)
                BY <1>3 DEF Data, Reading
            <3> QED
                BY <3>1, <2>1, Sizes
        <2>4. sum' \in Bytes
            BY <1>3, <2>1 DEF Data, Reading, Bytes
        <2>5. Reading'
            BY <1>3, <2>3, <2>4 DEF Data, stub, packet, sending, client, Reading
        <2>6. Asking'
            BY <1>3 DEF Data, stub, packet, sending, client, Asking
        <2> QED
            BY <2>2, <2>5, <2>6
    <1>4. ASSUME NEW c, FirstDigit(c) PROVE TypeInv'
        <2>1. toStub' \in Seq(Bytes) /\ c \in Bytes
            BY <1>4, Received DEF FirstDigit, Plain
        <2>2. toClient' \in Seq(Entries)
            BY <1>4, Quotes DEF FirstDigit, Plain
        <2>3. Plain'
            BY <1>4, <2>1, <2>2 DEF FirstDigit, stub, packet, sending, client, Plain
        <2>4. num' \in Bytes
            BY <1>4, <2>1, ShiftByte DEF FirstDigit, Reading
        <2>5. Reading'
            BY <1>4, <2>4 DEF FirstDigit, stub, packet, sending, client, Reading
        <2>6. Asking'
            BY <1>4 DEF FirstDigit, stub, packet, sending, client, Asking
        <2> QED
            BY <2>3, <2>5, <2>6
    <1>5. ASSUME NEW c, Accept(c) PROVE TypeInv'
        <2>1. toStub' \in Seq(Bytes) /\ c \in Bytes
            BY <1>5, Received DEF Accept, Plain
        <2>2. toClient' \in Seq(Entries)
            <3>1. toClient' = toClient \o Quoted(c) \o <<<<"+">>>>
                BY <1>5 DEF Accept
            <3>2. Quoted(c) \in Seq(Entries) /\ <<<<"+">>>> \in Seq(Entries)
                BY Quotes, Signs
            <3> QED
                BY <3>1, <3>2 DEF Plain
        <2>3. Plain'
            BY <1>5, <2>1, <2>2 DEF Accept, stub, packet, sending, client, Plain
        <2>4. Reading'
            BY <1>5 DEF Accept, stub, packet, sending, client, Reading
        <2>5. Asking'
            BY <1>5 DEF Accept, stub, packet, sending, client, Asking
        <2> QED
            BY <2>3, <2>4, <2>5
    <1>6. ASSUME NEW c, Refuse(c) PROVE TypeInv'
        <2>1. toStub' \in Seq(Bytes) /\ c \in Bytes
            BY <1>6, Received DEF Refuse, Plain
        <2>2. toClient' \in Seq(Entries)
            <3>1. toClient' = toClient \o Quoted(c) \o <<<<"-">>>>
                BY <1>6 DEF Refuse
            <3>2. Quoted(c) \in Seq(Entries) /\ <<<<"-">>>> \in Seq(Entries)
                BY Quotes, Signs
            <3> QED
                BY <3>1, <3>2 DEF Plain
        <2>3. Plain'
            BY <1>6, <2>1, <2>2 DEF Refuse, stub, packet, sending, client, Plain
        <2>4. Reading'
            BY <1>6, Sizes DEF Refuse, stub, packet, sending, client, Reading, Bytes
        <2>5. Asking'
            BY <1>6 DEF Refuse, stub, packet, sending, client, Asking
        <2> QED
            BY <2>3, <2>4, <2>5
    <1> QED
        BY <1>1, <1>2, <1>3, <1>4, <1>5, <1>6

\* Where a command sends the program.
LEMMA JumpTypes ==
    ASSUME TypeInv, NEW tf \in BOOLEAN
    PROVE  Jump(tf) \in [rip : Nat, tf : BOOLEAN]
    <1> DEFINE rip == IF Len(buf) > 1 THEN ReadHex(Tail(buf)) ELSE ctx.rip
    <1>1. rip \in Nat
        <2>1. CASE Len(buf) > 1
            <3>1. buf \in Seq(Nat)
                BY BytesNat DEF TypeInv, Reading
            <3>2. Tail(buf) \in Seq(Nat)
                BY <2>1, <3>1
            <3> QED
                BY <2>1, <3>2, ReadHexNat
        <2>2. CASE ~(Len(buf) > 1)
            BY <2>2 DEF TypeInv, Plain
        <2> QED
            BY <2>1, <2>2
    <1>2. Jump(tf) = [rip |-> rip, tf |-> tf]
        BY DEF Jump
    <1> HIDE DEF rip
    <1> QED
        BY <1>1, <1>2

\* The handler.
LEMMA HandlerTypes ==
    ASSUME TypeInv, DoContinue \/ DoStep \/ DoAnswer \/ \E v \in Vectors : Trap(v)
    PROVE  TypeInv'
    <1> USE DEF TypeInv
    <1>1. CASE DoContinue
        <2>1. ctx' \in [rip : Nat, tf : BOOLEAN]
            <3>1. ctx.tf \in BOOLEAN
                BY DEF Plain
            <3> QED
                BY <1>1, <3>1, JumpTypes DEF DoContinue
        <2>2. Plain'
            BY <1>1, <2>1 DEF DoContinue, stub, packet, sending, client, Plain
        <2>3. Reading'
            BY <1>1 DEF DoContinue, stub, packet, sending, client, Reading
        <2>4. Asking'
            BY <1>1 DEF DoContinue, stub, packet, sending, client, Asking
        <2> QED
            BY <2>2, <2>3, <2>4
    <1>2. CASE DoStep
        <2>1. ctx' \in [rip : Nat, tf : BOOLEAN]
            BY <1>2, JumpTypes DEF DoStep, Plain
        <2>2. Plain'
            BY <1>2, <2>1 DEF DoStep, stub, packet, sending, client, Plain
        <2>3. Reading'
            BY <1>2 DEF DoStep, stub, packet, sending, client, Reading
        <2>4. Asking'
            BY <1>2 DEF DoStep, stub, packet, sending, client, Asking
        <2> QED
            BY <2>2, <2>3, <2>4
    <1>3. CASE DoAnswer
        <2>1. Answer(Command) \in Answers
            BY DEF Answer, Answers
        <2>2. /\ pc' = "await" /\ reply' \in Answers /\ retries' \in 0 .. Tries - 1
              /\ toClient' \in Seq(Entries)
            BY <1>3, <2>1, Transmitted DEF DoAnswer, Plain
        <2>3. UNCHANGED <<toStub, buf, sum, num, ctx, refused, phase, cmd, skips, sent, faults>>
            BY <1>3 DEF DoAnswer, packet, client
        <2>4. Plain'
            BY <2>2, <2>3 DEF Plain
        <2>5. Reading'
            BY <2>2, <2>3 DEF Reading
        <2>6. Asking'
            BY <2>3 DEF Asking
        <2> QED
            BY <2>4, <2>5, <2>6
    <1>4. ASSUME NEW v \in Vectors, Trap(v) PROVE TypeInv'
        <2>1. ctx' \in [rip : Nat, tf : BOOLEAN]
            <3>1. ctx' = [ctx EXCEPT !.tf = FALSE]
                BY <1>4 DEF Trap
            <3> QED
                BY <3>1 DEF Plain
        <2>2. /\ pc' \in {"run", "await"} /\ reply' \in Answers /\ retries' \in 0 .. Tries - 1
              /\ toClient' \in Seq(Entries)
            <3>1. CASE Signal(v) # 0
                BY <1>4, <3>1 DEF Trap, sending, Plain
            <3>2. CASE Signal(v) = 0
                <4>1. Transmit("signal") /\ "signal" \in Answers /\ toClient \in Seq(Entries)
                    BY <1>4, <3>2 DEF Trap, Plain, Answers
                <4> QED
                    BY <4>1, Transmitted
            <3> QED
                BY <3>1, <3>2
        <2>3. UNCHANGED <<toStub, buf, sum, num, refused, phase, cmd, skips, sent, faults>>
            BY <1>4 DEF Trap, packet, client
        <2>4. Plain'
            BY <2>1, <2>2, <2>3 DEF Plain
        <2>5. Reading'
            BY <2>2, <2>3 DEF Reading
        <2>6. Asking'
            BY <2>3 DEF Asking
        <2> QED
            BY <2>4, <2>5, <2>6
    <1> QED
        BY <1>1, <1>2, <1>3, <1>4

\* The client, which sends packets and acknowledgements.
LEMMA ClientTypes ==
    ASSUME TypeInv, Client \/ \E data \in Commands : ClientCommand(data)
    PROVE  TypeInv'
    <1> USE DEF TypeInv
    <1>1. toStub \in Seq(Bytes) /\ toClient \in Seq(Entries)
        BY DEF Plain
    <1>2. phase = "ack" => cmd \in Commands
        BY DEF Asking
    <1>3. CASE ReadAck
        <2>1. toClient' \in Seq(Entries)
            BY <1>1, <1>3 DEF ReadAck
        <2>2. toStub' \in Seq(Bytes)
            <3>1. UNCHANGED toStub \/ (phase = "ack" /\ Send(Packet(cmd)))
                BY <1>3, Zenon DEF ReadAck
            <3>2. CASE phase = "ack" /\ Send(Packet(cmd))
                BY <3>2, <1>1, <1>2, PacketBytes, Sent
            <3> QED
                BY <3>1, <3>2, <1>1
        <2>3. Plain'
            BY <1>3, <2>1, <2>2 DEF ReadAck, stub, packet, sending, Plain
        <2>4. Reading'
            BY <1>3 DEF ReadAck, stub, packet, sending, Reading
        <2>5. Asking'
            <3>1. phase' = phase \/ (phase = "ack" /\ phase' = Wait)
                BY <1>3, Zenon DEF ReadAck
            <3>2. cmd' = cmd
                BY <1>3 DEF ReadAck
            <3> QED
                BY <3>1, <3>2 DEF Asking, Wait
        <2> QED
            BY <2>3, <2>4, <2>5
    <1>4. CASE ReadText
        <2>1. toClient' \in Seq(Entries)
            BY <1>1, <1>4 DEF ReadText
        <2>2. Plain'
            BY <1>4, <2>1 DEF ReadText, stub, packet, sending, Plain
        <2>3. Reading'
            BY <1>4 DEF ReadText, stub, packet, sending, Reading
        <2>4. Asking'
            BY <1>4 DEF ReadText, Asking
        <2> QED
            BY <2>2, <2>3, <2>4
    <1>5. CASE ReadPacket
        <2>1. toClient' \in Seq(Entries)
            BY <1>1, <1>5 DEF ReadPacket
        <2>2. Send(<<Plus>>) \/ Send(<<Minus>>)
            BY <1>5, Zenon DEF ReadPacket
        <2>3. toStub' \in Seq(Bytes)
            BY <1>1, <2>2, One, Sent
        <2>4. skips' = FALSE
            BY <1>5 DEF ReadPacket
        <2>5. Plain'
            BY <1>5, <2>1, <2>3, <2>4 DEF ReadPacket, stub, packet, sending, Plain
        <2>6. Reading'
            BY <1>5 DEF ReadPacket, stub, packet, sending, Reading
        <2>7. Asking'
            <3>1. phase' = phase \/ phase' = "idle"
                BY <1>5, Zenon DEF ReadPacket
            <3>2. cmd' = cmd
                BY <1>5 DEF ReadPacket
            <3> QED
                BY <3>1, <3>2 DEF Asking
        <2> QED
            BY <2>5, <2>6, <2>7
    <1>6. CASE Timeout
        <2>1. (phase = "ack" /\ Send(Packet(cmd))) \/ Send(<<Minus>>)
            BY <1>6, Zenon DEF Timeout
        <2>2. toStub' \in Seq(Bytes)
            <3>1. CASE phase = "ack" /\ Send(Packet(cmd))
                BY <3>1, <1>1, <1>2, PacketBytes, Sent
            <3>2. CASE Send(<<Minus>>)
                BY <3>2, <1>1, One, Sent
            <3> QED
                BY <2>1, <3>1, <3>2
        <2>3. Plain'
            BY <1>6, <2>2 DEF Timeout, stub, packet, sending, Plain
        <2>4. Reading'
            BY <1>6 DEF Timeout, stub, packet, sending, Reading
        <2>5. Asking'
            BY <1>6 DEF Timeout, Asking
        <2> QED
            BY <2>3, <2>4, <2>5
    <1>7. ASSUME NEW data \in Commands, ClientCommand(data) PROVE TypeInv'
        <2>1. toStub' \in Seq(Bytes)
            <3>1. Send(Packet(data))
                BY <1>7 DEF ClientCommand
            <3> QED
                BY <3>1, <1>1, PacketBytes, Sent
        <2>2. sent' \in 0 .. MaxCommands
            BY <1>7, Sizes DEF ClientCommand, Plain
        <2>3. Plain'
            BY <1>7, <2>1, <2>2 DEF ClientCommand, stub, packet, sending, Plain
        <2>4. Reading'
            BY <1>7 DEF ClientCommand, stub, packet, sending, Reading
        <2>5. Asking'
            BY <1>7 DEF ClientCommand, Asking
        <2> QED
            BY <2>3, <2>4, <2>5
    <1> QED
        BY <1>3, <1>4, <1>5, <1>6, <1>7 DEF Client

\* What a fault makes of the line.
LEMMA FaultTypes ==
    ASSUME TypeInv, Fault
    PROVE  TypeInv'
    <1> USE DEF TypeInv
    <1>1. toStub \in Seq(Bytes) /\ toClient \in Seq(Entries)
        BY DEF Plain
    <1>2. \/ \E i \in 1 .. Len(toStub) :
                \/ toStub' = RemoveAt(toStub, i)
                \/ \E c \in Noise : toStub' = ReplaceAt(toStub, i, c)
          \/ UNCHANGED toStub
        BY Zenon DEF Fault
    <1>3. toStub' \in Seq(Bytes)
        <2>1. ASSUME NEW i \in 1 .. Len(toStub), toStub' = RemoveAt(toStub, i)
              PROVE  toStub' \in Seq(Bytes)
            BY <1>1, <2>1, Removed
        <2>2. ASSUME NEW i \in 1 .. Len(toStub), NEW c \in Noise,
                     toStub' = ReplaceAt(toStub, i, c)
              PROVE  toStub' \in Seq(Bytes)
            <3>1. c \in Bytes
                BY Sizes
            <3> QED
                BY <1>1, <2>2, <3>1, Replaced
        <2> QED
            BY <1>1, <1>2, <2>1, <2>2
    <1>4. \/ \E i \in 1 .. Len(toClient) :
                \/ toClient' = RemoveAt(toClient, i)
                \/ toClient' = ReplaceAt(toClient, i, <<"packet", "damaged">>)
          \/ UNCHANGED toClient
        BY Zenon DEF Fault
    <1>5. toClient' \in Seq(Entries)
        <2>1. ASSUME NEW i \in 1 .. Len(toClient), toClient' = RemoveAt(toClient, i)
              PROVE  toClient' \in Seq(Entries)
            BY <1>1, <2>1, Removed
        <2>2. ASSUME NEW i \in 1 .. Len(toClient),
                     toClient' = ReplaceAt(toClient, i, <<"packet", "damaged">>)
              PROVE  toClient' \in Seq(Entries)
            <3>1. <<"packet", "damaged">> \in Entries
                BY EntryOf DEF Answers
            <3> QED
                BY <1>1, <2>2, <3>1, Replaced
        <2> QED
            BY <1>1, <1>4, <2>1, <2>2
    <1>6. faults' \in 0 .. MaxFaults
        BY Sizes DEF Fault, Plain
    <1>7. Plain'
        BY <1>3, <1>5, <1>6 DEF Fault, stub, packet, sending, client, Plain
    <1>8. Reading'
        BY DEF Fault, stub, packet, sending, client, Reading
    <1>9. Asking'
        BY DEF Fault, stub, packet, sending, client, Asking
    <1> QED
        BY <1>7, <1>8, <1>9

LEMMA TypeStep == TypeInv /\ [Next]_vars => TypeInv'
    <1> SUFFICES ASSUME TypeInv, [Next]_vars PROVE TypeInv'
        OBVIOUS
    <1>1. CASE Stub
        <2>1. CASE Acknowledged \/ Begin
            BY <2>1, WaitTypes
        <2>2. CASE EndData \/ Overflow
            BY <2>2, PacketTypes
        <2>3. CASE DoContinue \/ DoStep \/ DoAnswer
            BY <2>3, HandlerTypes
        <2>4. CASE Receive(Head(toStub))
            <3>1. PICK c : Receive(c)
                BY <2>4, Zenon
            <3>2. CASE SendAgain(c) \/ GiveUp(c) \/ Skip(c)
                BY <3>2, WaitTypes
            <3>3. CASE Data(c) \/ FirstDigit(c) \/ Accept(c) \/ Refuse(c)
                BY <3>3, PacketTypes
            <3> QED
                BY <3>1, <3>2, <3>3 DEF Receive
        <2> QED
            BY <1>1, <2>1, <2>2, <2>3, <2>4 DEF Stub
    <1>2. CASE \E v \in Vectors : Trap(v)
        BY <1>2, HandlerTypes
    <1>3. CASE Client \/ \E data \in Commands : ClientCommand(data)
        BY <1>3, ClientTypes
    <1>4. CASE Fault
        BY <1>4, FaultTypes
    <1>5. CASE UNCHANGED vars
        BY <1>5 DEF vars, stub, packet, sending, client, TypeInv, Plain, Reading, Asking
    <1> QED
        BY <1>1, <1>2, <1>3, <1>4, <1>5 DEF Next

\* Any characters on the line, any commands and any faults: data[] has room for what
\* gdb_receive_packet() stores in it and for the terminator behind it, and an
\* address is read to a number.
THEOREM Types == Spec => []TypeOK
    <1>1. TypeInv /\ [Next]_vars => TypeInv'
        BY TypeStep
    <1>2. Init => TypeInv
        BY TypeInit
    <1>3. TypeInv => TypeOK
        BY TypeKept
    <1> QED
        BY <1>1, <1>2, <1>3, PTL DEF Spec

-----------------------------------------------------------------------------
(* What arrives, if no character of a command is lost or damaged           *)

\* Commands hold neither the character that begins a packet nor the one that ends
\* it, as the protocol has it, and their checksums have no letters (str_to_hex()).
PlainCommands ==
    \A data \in Commands :
        /\ \A i \in 1 .. Len(data) : data[i] \notin {Dollar, Hash}
        /\ (Number(data, 1) % 256) \div 16 < 10 /\ (Number(data, 1) % 256) % 16 < 10

\* A fault spares the way to the stub while a command may be on it, and otherwise
\* makes of no acknowledgement the beginning of a packet.
Spares ==
    Fault => \/ UNCHANGED toStub
             \/ phase # "ack" /\ \A i \in 1 .. Len(toStub') : toStub'[i] # Dollar

Size == Len(cmd) + 4

\* The last copy of the command's packet lies behind the first p characters on the
\* way to the stub, or began -p characters ago; no other packet begins there.
Stream(p) ==
    /\ p + Size <= Len(toStub)
    /\ \A i \in 1 .. Len(toStub) :
          /\ i - p \in 1 .. Size => toStub[i] = Packet(cmd)[i - p]
          /\ i - p \notin 1 .. Size => toStub[i] # Dollar

Unread(p) == p + Size > 0

\* How far the stub has read it.
At(p) ==
    /\ pc = "data" => /\ p = - (1 + Len(buf)) /\ Len(buf) <= Len(cmd)
                      /\ \A i \in 1 .. Len(buf) : buf[i] = cmd[i]
    /\ pc = "sum1" => p = - (Len(cmd) + 2) /\ num = 0
    /\ pc = "sum2" => p = - (Len(cmd) + 3) /\ num = sum \div 16

NoPlus == \A i \in 1 .. Len(toClient) : toClient[i] # <<"+">>

PacketInv ==
    /\ pc # "divide" =>
          \E p \in Int : Stream(p) /\ At(p) /\ (Unread(p) => phase = "ack" /\ NoPlus)
    /\ pc \in {"sum1", "sum2", "execute"} => buf = cmd
    /\ pc \in {"data", "sum1", "sum2"} => sum = Number(buf, 1) % 256

\* A reply to the last command.
Fresh(e) == e \in {<<"packet", Answer(cmd[1])>>, <<"packet", "damaged">>}

\* Behind the acknowledgement of a command there is nothing but replies to it.
ReplyInv ==
    /\ NoPlus \/ phase = "ack"
    /\ \A i \in 1 .. Len(toClient) : toClient[i] = <<"+">> =>
          \A j \in i + 1 .. Len(toClient) : Fresh(toClient[j])
    /\ phase = "reply" => \A j \in 1 .. Len(toClient) : Fresh(toClient[j])
    /\ pc = "await" /\ (phase = "reply" \/ ~NoPlus) => reply = Answer(cmd[1])
    /\ pc # "divide" => \A i \in 1 .. Len(toClient) : toClient[i] # <<"-">>
    /\ pc = "execute" =>
          /\ phase \in {"ack", "reply", "stop"} /\ cmd \in Commands
          /\ phase # "ack" => toClient = <<>>
          /\ \A i \in 1 .. Len(toClient) : toClient[i] = <<"+">> => i = Len(toClient)
    /\ pc = "run" => phase = "stop" /\ toClient = <<>>
    /\ pc = "divide" => phase = "ack" /\ NoPlus
    /\ ~refused

LineInv == PacketInv /\ ReplyInv

LEMMA PacketPlain ==
    ASSUME PlainCommands, NEW data \in Commands
    PROVE  LET P == Packet(data)
               N == Len(data)
               t == Number(data, 1) % 256
           IN  /\ N \in Nat /\ Len(P) = N + 4 /\ P[1] = Dollar
               /\ \A k \in 1 .. N : P[k + 1] = data[k] /\ data[k] # Hash
               /\ P[N + 2] = Hash
               /\ \A k \in 1 .. N + 4 : P[k] = Dollar => k = 1
               /\ Hex(P[N + 3]) = t \div 16 /\ Hex(P[N + 4]) = t % 16
               /\ t = ((t \div 16) * 16) + (t % 16) /\ t \in Bytes
               /\ t \div 16 \in 0 .. 9 /\ t % 16 \in 0 .. 9
    <1> DEFINE P == Packet(data)
               N == Len(data)
               n == Number(data, 1)
               t == n % 256
    <1>1. data \in Seq(Bytes) /\ N \in Nat
        BY CommandBytes
    <1>2. n \in Nat
        BY <1>1, BytesNat, NumberNat
    <1>3. /\ Len(P) = N + 4 /\ P[1] = Dollar /\ P[N + 2] = Hash
          /\ \A k \in 1 .. N : P[k + 1] = data[k]
          /\ P[N + 3] = Digit(t \div 16) /\ P[N + 4] = Digit(t % 16)
        BY <1>1, PacketShape
    <1>4. \A i \in 1 .. N : data[i] # Dollar /\ data[i] # Hash
        BY DEF PlainCommands
    <1>5. t \div 16 < 10 /\ t % 16 < 10
        BY DEF PlainCommands
    <1> HIDE DEF P, n
    <1>6. /\ t \in Bytes /\ t \div 16 \in 0 .. 15 /\ t % 16 \in 0 .. 15
          /\ t = ((t \div 16) * 16) + (t % 16)
        BY <1>2, Checksum
    <1> HIDE DEF t
    <1>7. t \div 16 \in 0 .. 9 /\ t % 16 \in 0 .. 9
        BY <1>5, <1>6
    <1>8. Hex(P[N + 3]) = t \div 16 /\ Hex(P[N + 4]) = t % 16
        BY <1>3, <1>7, DigitRead
    <1>9. P[N + 3] # Dollar /\ P[N + 4] # Dollar
        BY <1>3, <1>6, DigitByte
    <1>10. ASSUME NEW k \in 1 .. N + 4, P[k] = Dollar PROVE k = 1
        <2>1. CASE k \in 2 .. N + 1
            <3>1. k - 1 \in 1 .. N /\ (k - 1) + 1 = k
                BY <2>1, <1>1
            <3>2. P[(k - 1) + 1] = data[k - 1] /\ data[k - 1] # Dollar
                BY <3>1, <1>3, <1>4
            <3> QED
                BY <3>1, <3>2, <1>10
        <2>2. CASE k = N + 2
            BY <2>2, <1>3, <1>10 DEF Dollar, Hash
        <2>3. CASE k = N + 3 \/ k = N + 4
            BY <2>3, <1>9, <1>10
        <2> QED
            BY <2>1, <2>2, <2>3, <1>1
    <1> QED
        BY <1>1, <1>3, <1>4, <1>6, <1>7, <1>8, <1>10 DEF P, n, t

\* Nothing that was read or acknowledged begins a packet.
LEMMA Clean ==
    ASSUME TypeInv, NEW p \in Int, Stream(p), ~Unread(p)
    PROVE  \A i \in 1 .. Len(toStub) : toStub[i] # Dollar
    <1>1. Size \in Nat
        <2>1. Len(cmd) \in Nat
            BY CommandBytes DEF TypeInv, Asking
        <2> QED
            BY <2>1 DEF Size
    <1>2. ASSUME NEW i \in 1 .. Len(toStub) PROVE i - p \notin 1 .. Size
        BY <1>1 DEF Unread
    <1> QED
        BY <1>2 DEF Stream

LEMMA Cleared ==
    ASSUME Size \in Nat, toStub \in Seq(Bytes), \A i \in 1 .. Len(toStub) : toStub[i] # Dollar
    PROVE  Stream(- Size) /\ ~Unread(- Size)
    <1>1. - Size + Size <= Len(toStub)
        OBVIOUS
    <1>2. ASSUME NEW i \in 1 .. Len(toStub) PROVE i - (- Size) \notin 1 .. Size
        OBVIOUS
    <1> QED
        BY <1>1, <1>2 DEF Stream, Unread

LEMMA SizeNat == TypeInv => Size \in Nat /\ Len(cmd) \in Nat
    <1> SUFFICES ASSUME TypeInv PROVE Size \in Nat /\ Len(cmd) \in Nat
        OBVIOUS
    <1>1. Len(cmd) \in Nat
        BY CommandBytes DEF TypeInv, Asking
    <1> QED
        BY <1>1 DEF Size

\* Reading a character brings the packet closer.
LEMMA StreamGet ==
    ASSUME TypeInv, NEW p \in Int, Stream(p), NEW c, Get(c), cmd' = cmd
    PROVE  /\ Stream(p - 1)'
           /\ 1 - p \in 1 .. Size => c = Packet(cmd)[1 - p]
           /\ 1 - p \notin 1 .. Size => c # Dollar
           /\ p + Size <= Len(toStub) /\ Len(toStub) >= 1
    <1>1. Size \in Nat /\ Size' = Size
        BY SizeNat DEF Size
    <1>2. /\ Len(toStub) \in Nat /\ Len(toStub) > 0 /\ c = toStub[1]
          /\ toStub' \in Seq(Bytes) /\ Len(toStub') = Len(toStub) - 1
          /\ \A i \in 1 .. Len(toStub') : toStub'[i] = toStub[i + 1]
        BY Received DEF TypeInv, Plain
    <1>3. (p - 1) + Size <= Len(toStub') /\ p + Size <= Len(toStub)
        BY <1>1, <1>2 DEF Stream
    <1>4. ASSUME NEW i \in 1 .. Len(toStub')
          PROVE  /\ i - (p - 1) \in 1 .. Size => toStub'[i] = Packet(cmd)[i - (p - 1)]
                 /\ i - (p - 1) \notin 1 .. Size => toStub'[i] # Dollar
        <2>1. i + 1 \in 1 .. Len(toStub) /\ (i + 1) - p = i - (p - 1)
            BY <1>2
        <2>2. /\ (i + 1) - p \in 1 .. Size => toStub[i + 1] = Packet(cmd)[(i + 1) - p]
              /\ (i + 1) - p \notin 1 .. Size => toStub[i + 1] # Dollar
            BY <2>1 DEF Stream
        <2>3. toStub'[i] = toStub[i + 1]
            BY <1>2
        <2> QED
            BY <2>1, <2>2, <2>3, Zenon
    <1>5. Stream(p - 1)'
        <2>1. Packet(cmd)' = Packet(cmd)
            BY DEF Packet
        <2> QED
            BY <1>1, <1>3, <1>4, <2>1 DEF Stream
    <1>6. 1 \in 1 .. Len(toStub)
        BY <1>2
    <1>7. /\ 1 - p \in 1 .. Size => toStub[1] = Packet(cmd)[1 - p]
          /\ 1 - p \notin 1 .. Size => toStub[1] # Dollar
        BY <1>6, Zenon DEF Stream
    <1> QED
        BY <1>2, <1>3, <1>5, <1>7

\* An acknowledgement behind it changes nothing.
LEMMA StreamSend ==
    ASSUME TypeInv, NEW p \in Int, Stream(p), NEW x \in Bytes, x # Dollar, Send(<<x>>),
           cmd' = cmd
    PROVE  Stream(p)'
    <1>1. Size \in Nat /\ Size' = Size /\ Packet(cmd)' = Packet(cmd)
        BY SizeNat DEF Size, Packet
    <1> DEFINE w == <<x>>
    <1>2. w \in Seq(Bytes) /\ Len(w) = 1 /\ w[1] = x /\ Send(w)
        OBVIOUS
    <1> HIDE DEF w
    <1>3. toStub \in Seq(Bytes) /\ Len(toStub) \in Nat
        BY DEF TypeInv, Plain
    <1>4. /\ Len(toStub') = Len(toStub) + 1 /\ toStub'[Len(toStub) + 1] = x
          /\ \A i \in 1 .. Len(toStub) : toStub'[i] = toStub[i]
        <2>1. /\ Len(toStub') = Len(toStub) + Len(w)
              /\ \A i \in 1 .. Len(toStub) : toStub'[i] = toStub[i]
              /\ \A i \in 1 .. Len(w) : toStub'[Len(toStub) + i] = w[i]
            BY <1>2, <1>3, Sent
        <2>2. 1 \in 1 .. Len(w)
            BY <1>2
        <2> QED
            BY <2>1, <2>2, <1>2
    <1>5. p + Size <= Len(toStub)
        BY DEF Stream
    <1>6. ASSUME NEW i \in 1 .. Len(toStub')
          PROVE  /\ i - p \in 1 .. Size => toStub'[i] = Packet(cmd)[i - p]
                 /\ i - p \notin 1 .. Size => toStub'[i] # Dollar
        <2>1. CASE i \in 1 .. Len(toStub)
            <3>1. toStub'[i] = toStub[i]
                BY <2>1, <1>4
            <3> QED
                BY <2>1, <3>1, Zenon DEF Stream
        <2>2. CASE i = Len(toStub) + 1
            <3>1. i - p \notin 1 .. Size
                BY <2>2, <1>1, <1>3, <1>5
            <3> QED
                BY <2>2, <3>1, <1>4
        <2> QED
            BY <2>1, <2>2, <1>3, <1>4
    <1>7. p + Size <= Len(toStub')
        BY <1>1, <1>3, <1>4, <1>5
    <1> QED
        BY <1>1, <1>6, <1>7 DEF Stream

\* A packet behind acknowledgements.
LEMMA StreamPacket ==
    ASSUME TypeInv, cmd' \in Commands, Send(Packet(cmd')),
           \A i \in 1 .. Len(toStub) : toStub[i] # Dollar
    PROVE  \E p \in Int : p = Len(toStub) /\ Stream(p)'
    <1> DEFINE P == Packet(cmd')
               L == Len(toStub)
    <1>1. toStub \in Seq(Bytes) /\ L \in Nat
        BY DEF TypeInv, Plain
    <1>2. cmd' \in Seq(Bytes) /\ Len(cmd') \in Nat
        BY CommandBytes
    <1>3. P \in Seq(Bytes) /\ Len(P) = Len(cmd') + 4
        BY <1>2, PacketShape
    <1>4. Packet(cmd)' = P /\ Size' = Len(cmd') + 4 /\ Size' \in Nat
        BY <1>2 DEF Packet, Size
    <1> HIDE DEF P
    <1>5. /\ Len(toStub') = L + Len(P)
          /\ \A i \in 1 .. L : toStub'[i] = toStub[i]
          /\ \A i \in 1 .. Len(P) : toStub'[L + i] = P[i]
        BY <1>1, <1>3, Sent DEF P
    <1>6. PICK p \in Int : p = L
        BY <1>1
    <1>7. ASSUME NEW i \in 1 .. Len(toStub')
          PROVE  /\ i - p \in 1 .. Size' => toStub'[i] = P[i - p]
                 /\ i - p \notin 1 .. Size' => toStub'[i] # Dollar
        <2>1. CASE i \in 1 .. L
            <3>1. toStub'[i] = toStub[i] /\ toStub[i] # Dollar
                BY <2>1, <1>5
            <3>2. i - p \notin 1 .. Size'
                BY <2>1, <1>1, <1>4, <1>6
            <3> QED
                BY <3>1, <3>2
        <2>2. CASE i \notin 1 .. L
            <3>1. i - L \in 1 .. Len(P) /\ L + (i - L) = i /\ i - p = i - L
                BY <2>2, <1>1, <1>3, <1>2, <1>5, <1>6
            <3>2. toStub'[L + (i - L)] = P[i - L]
                BY <3>1, <1>5
            <3>3. i - p \in 1 .. Size'
                BY <3>1, <1>3, <1>4
            <3> QED
                BY <3>1, <3>2, <3>3
        <2> QED
            BY <2>1, <2>2
    <1>8. p + Size' <= Len(toStub')
        BY <1>1, <1>2, <1>3, <1>4, <1>5, <1>6
    <1>9. Stream(p)'
        BY <1>4, <1>7, <1>8 DEF Stream
    <1> QED
        BY <1>6, <1>9

LEMMA Kinds ==
    ASSUME NEW a
    PROVE  /\ <<"packet", a>> # <<"+">> /\ <<"packet", a>> # <<"-">>
           /\ <<"+">> # <<"-">> /\ <<"$">> # <<"+">> /\ <<"$">> # <<"-">>
    <1>1. Len(<<"packet", a>>) = 2 /\ Len(<<"+">>) = 1 /\ Len(<<"-">>) = 1
        OBVIOUS
    <1>2. <<"+">>[1] = "+" /\ <<"-">>[1] = "-" /\ <<"$">>[1] = "$"
        OBVIOUS
    <1> QED
        BY <1>1, <1>2

\* What appending, taking and losing an entry does to what is not there.
LEMMA Grown ==
    ASSUME NEW s \in Seq(Entries), NEW e
    PROVE  /\ Len(Append(s, e)) = Len(s) + 1 /\ Append(s, e)[Len(s) + 1] = e
           /\ \A i \in 1 .. Len(s) : Append(s, e)[i] = s[i]
    OBVIOUS

LEMMA Taken ==
    ASSUME NEW s \in Seq(Entries), s # <<>>
    PROVE  /\ Len(Tail(s)) = Len(s) - 1 /\ Len(s) \in Nat /\ Len(s) > 0 /\ Head(s) = s[1]
           /\ \A i \in 1 .. Len(s) - 1 : Tail(s)[i] = s[i + 1]
    OBVIOUS

LEMMA NoPlusAppend ==
    ASSUME TypeInv, NEW e, e # <<"+">>, toClient' = Append(toClient, e)
    PROVE  NoPlus <=> NoPlus'
    <1>1. toClient \in Seq(Entries) /\ Len(toClient) \in Nat
        BY DEF TypeInv, Plain
    <1>2. /\ Len(toClient') = Len(toClient) + 1 /\ toClient'[Len(toClient) + 1] = e
          /\ \A i \in 1 .. Len(toClient) : toClient'[i] = toClient[i]
        BY <1>1, Grown
    <1>3. ASSUME NoPlus, NEW i \in 1 .. Len(toClient') PROVE toClient'[i] # <<"+">>
        <2>1. CASE i \in 1 .. Len(toClient)
            BY <1>2, <1>3, <2>1 DEF NoPlus
        <2>2. CASE i = Len(toClient) + 1
            BY <1>2, <2>2
        <2> QED
            BY <1>1, <1>2, <2>1, <2>2
    <1>4. ASSUME NoPlus', NEW i \in 1 .. Len(toClient) PROVE toClient[i] # <<"+">>
        <2>1. i \in 1 .. Len(toClient')
            BY <1>1, <1>2
        <2>2. toClient'[i] # <<"+">>
            BY <2>1, <1>4 DEF NoPlus
        <2> QED
            BY <2>2, <1>2
    <1>5. NoPlus => NoPlus'
        BY <1>3 DEF NoPlus
    <1>6. NoPlus' => NoPlus
        BY <1>4 DEF NoPlus
    <1> QED
        BY <1>5, <1>6

LEMMA NoPlusTail ==
    ASSUME TypeInv, toClient # <<>>, toClient' = Tail(toClient), NoPlus
    PROVE  NoPlus'
    <1>1. toClient \in Seq(Entries)
        BY DEF TypeInv, Plain
    <1>2. /\ Len(toClient') = Len(toClient) - 1 /\ Len(toClient) \in Nat
          /\ \A i \in 1 .. Len(toClient) - 1 : toClient'[i] = toClient[i + 1]
        BY <1>1, Taken
    <1>3. ASSUME NEW i \in 1 .. Len(toClient') PROVE toClient'[i] # <<"+">>
        <2>1. i + 1 \in 1 .. Len(toClient) /\ toClient'[i] = toClient[i + 1]
            BY <1>2
        <2> QED
            BY <2>1 DEF NoPlus
    <1> QED
        BY <1>3 DEF NoPlus

\* A character that is read, where the packet does not say.
LEMMA PacketGet ==
    ASSUME TypeInv, NEW p \in Int, Stream(p), Unread(p) => phase = "ack" /\ NoPlus,
           NEW c, Get(c), cmd' = cmd, phase' = phase, NoPlus => NoPlus', At(p - 1)'
    PROVE  \E q \in Int : Stream(q)' /\ At(q)' /\ (Unread(q)' => phase' = "ack" /\ NoPlus')
    <1>1. Stream(p - 1)'
        BY StreamGet
    <1>2. Unread(p - 1)' => Unread(p)
        <2>1. Size' = Size /\ Size \in Nat
            BY SizeNat DEF Size
        <2> QED
            BY <2>1 DEF Unread
    <1>3. p - 1 \in Int
        OBVIOUS
    <1> DEFINE q == p - 1
    <1>4. Stream(q)' /\ At(q)' /\ (Unread(q)' => phase' = "ack" /\ NoPlus')
        BY <1>1, <1>2
    <1> QED
        BY <1>3, <1>4

LEMMA PacketWait ==
    ASSUME TypeInv, PacketInv,
           \/ Acknowledged
           \/ \E c : SendAgain(c) \/ GiveUp(c) \/ Skip(c)
    PROVE  PacketInv'
    <1>1. PICK c : Get(c)
        BY Zenon DEF Acknowledged, SendAgain, GiveUp, Skip
    <1>2. pc \in {"await", "start"} /\ pc' \in {"await", "start"}
        BY DEF Acknowledged, SendAgain, GiveUp, Skip
    <1>3. cmd' = cmd /\ phase' = phase
        BY DEF Acknowledged, SendAgain, GiveUp, Skip, client
    <1>4. toClient' = toClient \/ toClient' = Append(toClient, <<"packet", reply>>)
        BY Zenon DEF Acknowledged, SendAgain, GiveUp, Skip
    <1>5. NoPlus => NoPlus'
        <2>1. CASE toClient' = toClient
            BY <2>1 DEF NoPlus
        <2>2. CASE toClient' = Append(toClient, <<"packet", reply>>)
            BY <2>2, Kinds, NoPlusAppend
        <2> QED
            BY <1>4, <2>1, <2>2
    <1>6. PICK p \in Int : Stream(p) /\ At(p) /\ (Unread(p) => phase = "ack" /\ NoPlus)
        BY <1>2 DEF PacketInv
    <1>7. At(p - 1)'
        BY <1>2 DEF At
    <1>8. \E q \in Int : Stream(q)' /\ At(q)' /\ (Unread(q)' => phase' = "ack" /\ NoPlus')
        BY <1>1, <1>3, <1>5, <1>6, <1>7, PacketGet
    <1> QED
        BY <1>2, <1>8 DEF PacketInv

LEMMA PacketBegin ==
    ASSUME PlainCommands, TypeInv, PacketInv, Begin
    PROVE  PacketInv'
    <1>1. pc = "start" /\ Get(Dollar) /\ pc' = "data" /\ buf' = <<>> /\ sum' = 0
        BY DEF Begin
    <1>2. toClient' = toClient /\ cmd' = cmd /\ phase' = phase
        BY DEF Begin, client
    <1>3. PICK p \in Int : Stream(p) /\ At(p) /\ (Unread(p) => phase = "ack" /\ NoPlus)
        BY <1>1 DEF PacketInv
    <1>4. 1 - p \in 1 .. Size /\ Dollar = Packet(cmd)[1 - p]
        BY <1>1, <1>2, <1>3, StreamGet
    <1>5. Unread(p)
        BY <1>4, SizeNat DEF Unread
    <1>6. cmd \in Commands
        BY <1>3, <1>5 DEF TypeInv, Asking
    <1>7. \A k \in 1 .. Size : Packet(cmd)[k] = Dollar => k = 1
        BY <1>6, PacketPlain DEF Size
    <1>8. 1 - p = 1
        BY <1>4, <1>7
    <1>9. At(p - 1)'
        <2>1. Len(buf') = 0 /\ Len(cmd') \in Nat
            BY <1>1, <1>2, SizeNat
        <2>2. p - 1 = - (1 + Len(buf'))
            BY <1>8, <2>1
        <2> QED
            BY <1>1, <2>1, <2>2 DEF At
    <1>10. NoPlus => NoPlus'
        BY <1>2 DEF NoPlus
    <1>11. \E q \in Int : Stream(q)' /\ At(q)' /\ (Unread(q)' => phase' = "ack" /\ NoPlus')
        BY <1>1, <1>2, <1>3, <1>9, <1>10, PacketGet
    <1>12. sum' = Number(buf', 1) % 256
        BY <1>1, NumberNone
    <1> QED
        BY <1>1, <1>11, <1>12 DEF PacketInv

\* Inside a packet: the next character is the packet's.
LEMMA PacketNext ==
    ASSUME PlainCommands, TypeInv, NEW p \in Int, Stream(p), At(p),
           Unread(p) => phase = "ack" /\ NoPlus,
           pc \in {"data", "sum1", "sum2"}, NEW c, Get(c), cmd' = cmd
    PROVE  /\ cmd \in Commands /\ phase = "ack" /\ NoPlus
           /\ c = Packet(cmd)[1 - p]
           /\ pc = "data" => 1 - p = Len(buf) + 2
           /\ pc = "sum1" => 1 - p = Len(cmd) + 3
           /\ pc = "sum2" => 1 - p = Len(cmd) + 4
    <1>1. Len(cmd) \in Nat /\ Size = Len(cmd) + 4 /\ Len(buf) \in Nat
        BY SizeNat DEF Size, TypeInv, Reading
    <1>2. /\ pc = "data" => 1 - p = Len(buf) + 2 /\ Len(buf) <= Len(cmd)
          /\ pc = "sum1" => 1 - p = Len(cmd) + 3
          /\ pc = "sum2" => 1 - p = Len(cmd) + 4
        BY <1>1 DEF At
    <1>3. 1 - p \in 1 .. Size
        BY <1>1, <1>2
    <1>4. Unread(p)
        BY <1>1, <1>3 DEF Unread
    <1>5. cmd \in Commands
        BY <1>4 DEF TypeInv, Asking
    <1>6. c = Packet(cmd)[1 - p]
        BY <1>3, StreamGet
    <1> QED
        BY <1>2, <1>4, <1>5, <1>6

LEMMA PacketData ==
    ASSUME PlainCommands, TypeInv, PacketInv, NEW c, Data(c)
    PROVE  PacketInv'
    <1>1. /\ pc = "data" /\ c # Hash /\ Get(c) /\ pc' = pc
          /\ buf' = Append(buf, c) /\ sum' = (sum + c) % 256
        BY DEF Data
    <1>2. toClient' = toClient /\ cmd' = cmd /\ phase' = phase
        BY DEF Data, client
    <1>3. PICK p \in Int : Stream(p) /\ At(p) /\ (Unread(p) => phase = "ack" /\ NoPlus)
        BY <1>1 DEF PacketInv
    <1>4. /\ cmd \in Commands /\ c = Packet(cmd)[Len(buf) + 2] /\ 1 - p = Len(buf) + 2
        BY <1>1, <1>2, <1>3, PacketNext
    <1>5. Len(cmd) \in Nat /\ Packet(cmd)[Len(cmd) + 2] = Hash
          /\ \A k \in 1 .. Len(cmd) : Packet(cmd)[k + 1] = cmd[k]
        BY <1>4, PacketPlain
    <1>6. buf \in Seq(Bytes) /\ Len(buf) \in Nat /\ Len(buf) <= Len(cmd)
          /\ \A i \in 1 .. Len(buf) : buf[i] = cmd[i]
        BY <1>1, <1>3 DEF At, TypeInv, Reading
    <1>7. Len(buf) < Len(cmd)
        BY <1>1, <1>4, <1>5, <1>6
    <1>8. c = cmd[Len(buf) + 1]
        <2>1. Len(buf) + 1 \in 1 .. Len(cmd) /\ (Len(buf) + 1) + 1 = Len(buf) + 2
            BY <1>5, <1>6, <1>7
        <2>2. Packet(cmd)[(Len(buf) + 1) + 1] = cmd[Len(buf) + 1]
            BY <1>5, <2>1
        <2> QED
            BY <1>4, <2>1, <2>2
    <1>9. c \in Bytes /\ c \in Nat
        <2>1. c \in Bytes
            BY <1>1, Received DEF TypeInv, Plain
        <2> QED
            BY <2>1 DEF Bytes
    <1>10. /\ Len(buf') = Len(buf) + 1 /\ buf'[Len(buf) + 1] = c
           /\ \A i \in 1 .. Len(buf) : buf'[i] = buf[i]
        BY <1>1, <1>6, <1>9
    <1>11. At(p - 1)'
        <2>1. p - 1 = - (1 + Len(buf')) /\ Len(buf') <= Len(cmd')
            BY <1>2, <1>4, <1>5, <1>6, <1>7, <1>10
        <2>2. ASSUME NEW i \in 1 .. Len(buf') PROVE buf'[i] = cmd'[i]
            <3>1. CASE i \in 1 .. Len(buf)
                BY <3>1, <1>2, <1>6, <1>10
            <3>2. CASE i = Len(buf) + 1
                BY <3>2, <1>2, <1>8, <1>10
            <3> QED
                BY <3>1, <3>2, <1>6, <1>10
        <2> QED
            BY <1>1, <2>1, <2>2 DEF At
    <1>12. NoPlus => NoPlus'
        BY <1>2 DEF NoPlus
    <1>13. \E q \in Int : Stream(q)' /\ At(q)' /\ (Unread(q)' => phase' = "ack" /\ NoPlus')
        BY <1>1, <1>2, <1>3, <1>11, <1>12, PacketGet
    <1>14. sum' = Number(buf', 1) % 256
        <2>1. buf \in Seq(Nat)
            BY <1>6, BytesNat
        <2>2. Number(buf', 1) = Number(buf, 1) * 1 + c /\ Number(buf, 1) \in Nat
            BY <1>1, <1>9, <2>1, NumberAppend, NumberNat
        <2>3. sum = Number(buf, 1) % 256
            BY <1>1 DEF PacketInv
        <2>4. ASSUME NEW n \in Nat PROVE ((n % 256) + c) % 256 = (n * 1 + c) % 256
            BY <1>9
        <2> QED
            BY <1>1, <2>2, <2>3, <2>4
    <1> QED
        BY <1>1, <1>13, <1>14 DEF PacketInv

LEMMA PacketEnd ==
    ASSUME PlainCommands, TypeInv, PacketInv, EndData
    PROVE  PacketInv'
    <1>1. /\ pc = "data" /\ Get(Hash) /\ pc' = "sum1" /\ num' = 0
          /\ buf' = buf /\ sum' = sum
        BY DEF EndData
    <1>2. toClient' = toClient /\ cmd' = cmd /\ phase' = phase
        BY DEF EndData, client
    <1>3. PICK p \in Int : Stream(p) /\ At(p) /\ (Unread(p) => phase = "ack" /\ NoPlus)
        BY <1>1 DEF PacketInv
    <1>4. /\ cmd \in Commands /\ Hash = Packet(cmd)[Len(buf) + 2] /\ 1 - p = Len(buf) + 2
        BY <1>1, <1>2, <1>3, PacketNext
    <1>5. Len(cmd) \in Nat
          /\ \A k \in 1 .. Len(cmd) : Packet(cmd)[k + 1] = cmd[k] /\ cmd[k] # Hash
        BY <1>4, PacketPlain
    <1>6. buf \in Seq(Bytes) /\ Len(buf) \in Nat /\ Len(buf) <= Len(cmd)
          /\ \A i \in 1 .. Len(buf) : buf[i] = cmd[i]
        BY <1>1, <1>3 DEF At, TypeInv, Reading
    <1>7. Len(buf) = Len(cmd)
        <2>1. CASE Len(buf) < Len(cmd)
            <3>1. Len(buf) + 1 \in 1 .. Len(cmd) /\ (Len(buf) + 1) + 1 = Len(buf) + 2
                BY <1>5, <1>6, <2>1
            <3>2. Packet(cmd)[(Len(buf) + 1) + 1] # Hash
                BY <1>5, <3>1
            <3> QED
                BY <1>4, <3>1, <3>2
        <2> QED
            BY <1>5, <1>6, <2>1
    <1>8. buf = cmd
        <2>1. cmd \in Seq(Bytes)
            BY <1>4, CommandBytes
        <2> QED
            BY <1>6, <1>7, <2>1
    <1>9. At(p - 1)'
        <2>1. p - 1 = - (Len(cmd') + 2)
            BY <1>2, <1>4, <1>5, <1>7
        <2> QED
            BY <1>1, <2>1 DEF At
    <1>10. NoPlus => NoPlus'
        BY <1>2 DEF NoPlus
    <1>11. \E q \in Int : Stream(q)' /\ At(q)' /\ (Unread(q)' => phase' = "ack" /\ NoPlus')
        BY <1>1, <1>2, <1>3, <1>9, <1>10, PacketGet
    <1> QED
        BY <1>1, <1>2, <1>8, <1>11 DEF PacketInv

LEMMA NotQuoted ==
    ASSUME NEW c, Hex(c) # -1
    PROVE  Quoted(c) = <<>>
    <1>1. Hex(Plus) = -1 /\ Hex(Minus) = -1 /\ Hex(Dollar) = -1
        BY DEF Hex, Plus, Minus, Dollar
    <1>2. c # Plus /\ c # Minus /\ c # Dollar
        BY <1>1
    <1> QED
        BY <1>2 DEF Quoted

\* The checksum is read as it was sent, without a word of log output.
LEMMA ChecksumRead ==
    ASSUME PlainCommands, TypeInv, PacketInv, pc \in {"sum1", "sum2"},
           NEW c, Get(c), cmd' = cmd
    PROVE  /\ cmd \in Commands /\ buf = cmd /\ phase = "ack" /\ NoPlus /\ Quoted(c) = <<>>
           /\ pc = "sum1" => Shift(num, c) = sum \div 16
           /\ pc = "sum2" => Shift(num, c) = sum
           /\ \E p \in Int :
                 /\ Stream(p)
                 /\ pc = "sum1" => p = - (Len(cmd) + 2)
                 /\ pc = "sum2" => p = - (Len(cmd) + 3)
    <1>1. PICK p \in Int : Stream(p) /\ At(p) /\ (Unread(p) => phase = "ack" /\ NoPlus)
        BY DEF PacketInv
    <1>2. /\ cmd \in Commands /\ phase = "ack" /\ NoPlus /\ c = Packet(cmd)[1 - p]
          /\ pc = "sum1" => 1 - p = Len(cmd) + 3
          /\ pc = "sum2" => 1 - p = Len(cmd) + 4
        BY <1>1, PacketNext
    <1>3. buf = cmd /\ sum = Number(cmd, 1) % 256
        BY DEF PacketInv
    <1>4. /\ Hex(Packet(cmd)[Len(cmd) + 3]) = sum \div 16
          /\ Hex(Packet(cmd)[Len(cmd) + 4]) = sum % 16
          /\ sum = ((sum \div 16) * 16) + (sum % 16) /\ sum \in Bytes
          /\ sum \div 16 \in 0 .. 9 /\ sum % 16 \in 0 .. 9
        BY <1>2, <1>3, PacketPlain
    <1>5. /\ pc = "sum1" => p = - (Len(cmd) + 2) /\ num = 0
          /\ pc = "sum2" => p = - (Len(cmd) + 3) /\ num = sum \div 16
        BY <1>1 DEF At
    <1>6. CASE pc = "sum1"
        <2>1. Hex(c) = sum \div 16
            BY <1>2, <1>4, <1>6
        <2>2. Hex(c) \in 0 .. 9 /\ Hex(c) # -1
            BY <2>1, <1>4
        <2>3. Quoted(c) = <<>>
            BY <2>2, NotQuoted
        <2>4. Shift(num, c) = sum \div 16
            BY <1>5, <1>6, <2>1, <2>2 DEF Shift
        <2> QED
            BY <1>1, <1>2, <1>3, <1>5, <1>6, <2>3, <2>4
    <1>7. CASE pc = "sum2"
        <2>1. Hex(c) = sum % 16
            BY <1>2, <1>4, <1>7
        <2>2. Hex(c) \in 0 .. 9 /\ Hex(c) # -1
            BY <2>1, <1>4
        <2>3. Quoted(c) = <<>>
            BY <2>2, NotQuoted
        <2>4. (num * 16) % 256 = (sum \div 16) * 16
            <3>1. ASSUME NEW n \in 0 .. 9 PROVE (n * 16) % 256 = n * 16
                OBVIOUS
            <3> QED
                BY <3>1, <1>4, <1>5, <1>7
        <2>5. Shift(num, c) = sum
            BY <1>4, <2>1, <2>2, <2>4 DEF Shift
        <2> QED
            BY <1>1, <1>2, <1>3, <1>5, <1>7, <2>3, <2>5
    <1> QED
        BY <1>6, <1>7

LEMMA PacketDigit ==
    ASSUME PlainCommands, TypeInv, PacketInv, NEW c, FirstDigit(c)
    PROVE  PacketInv' /\ toClient' = toClient
    <1>1. /\ pc = "sum1" /\ Get(c) /\ pc' = "sum2" /\ num' = Shift(num, c)
          /\ toClient' = toClient \o Quoted(c) /\ buf' = buf /\ sum' = sum
          /\ cmd' = cmd /\ phase' = phase
        BY DEF FirstDigit, client
    <1>2. /\ buf = cmd /\ phase = "ack" /\ NoPlus /\ Quoted(c) = <<>>
          /\ Shift(num, c) = sum \div 16
          /\ \E p \in Int : Stream(p) /\ p = - (Len(cmd) + 2)
        BY <1>1, ChecksumRead
    <1>3. toClient' = toClient
        BY <1>1, <1>2 DEF TypeInv, Plain
    <1>4. PICK p \in Int : Stream(p) /\ p = - (Len(cmd) + 2)
        BY <1>2
    <1>5. At(p - 1)'
        <2>1. p - 1 = - (Len(cmd') + 3)
            BY <1>1, <1>4, SizeNat
        <2> QED
            BY <1>1, <1>2, <2>1 DEF At
    <1>6. NoPlus'
        BY <1>2, <1>3 DEF NoPlus
    <1>7. \E q \in Int : Stream(q)' /\ At(q)' /\ (Unread(q)' => phase' = "ack" /\ NoPlus')
        BY <1>1, <1>2, <1>4, <1>5, <1>6, PacketGet
    <1>8. sum' = Number(buf', 1) % 256 /\ buf' = cmd'
        BY <1>1, <1>2 DEF PacketInv
    <1> QED
        BY <1>1, <1>3, <1>7, <1>8 DEF PacketInv

LEMMA PacketAccept ==
    ASSUME PlainCommands, TypeInv, PacketInv, NEW c, Accept(c)
    PROVE  /\ PacketInv' /\ cmd \in Commands /\ phase = "ack" /\ NoPlus
           /\ toClient' = Append(toClient, <<"+">>)
    <1>1. /\ pc = "sum2" /\ Get(c) /\ pc' = "execute" /\ buf' = buf
          /\ toClient' = toClient \o Quoted(c) \o <<<<"+">>>>
          /\ cmd' = cmd /\ phase' = phase
        BY DEF Accept, stub, packet, client
    <1>2. /\ cmd \in Commands /\ buf = cmd /\ phase = "ack" /\ NoPlus /\ Quoted(c) = <<>>
          /\ \E p \in Int : Stream(p) /\ p = - (Len(cmd) + 3)
        BY <1>1, ChecksumRead
    <1>3. toClient' = Append(toClient, <<"+">>)
        <2>1. toClient \o Quoted(c) = toClient
            BY <1>2 DEF TypeInv, Plain
        <2>2. toClient \o <<<<"+">>>> = Append(toClient, <<"+">>)
            BY DEF TypeInv, Plain
        <2> QED
            BY <1>1, <2>1, <2>2
    <1>4. PICK p \in Int : Stream(p) /\ p = - (Len(cmd) + 3)
        BY <1>2
    <1>5. Stream(p - 1)'
        BY <1>1, <1>4, StreamGet
    <1>6. At(p - 1)'
        BY <1>1 DEF At
    <1>7. ~Unread(p - 1)'
        <2>1. Size' = Len(cmd) + 4 /\ Len(cmd) \in Nat
            BY <1>1, SizeNat DEF Size
        <2> QED
            BY <1>4, <2>1 DEF Unread
    <1> DEFINE q == p - 1
    <1>8. q \in Int /\ Stream(q)' /\ At(q)' /\ (Unread(q)' => phase' = "ack" /\ NoPlus')
        BY <1>5, <1>6, <1>7
    <1> HIDE DEF q
    <1> QED
        BY <1>1, <1>2, <1>3, <1>8 DEF PacketInv

LEMMA NotRefused ==
    ASSUME PlainCommands, TypeInv, PacketInv, NEW c, Refuse(c)
    PROVE  FALSE
    <1>1. pc = "sum2" /\ Get(c) /\ cmd' = cmd /\ Shift(num, c) # sum
        BY DEF Refuse, client
    <1> QED
        BY <1>1, ChecksumRead

\* What leaves the way to the stub alone.
LEMMA PacketAside ==
    ASSUME TypeInv, PacketInv, pc # "divide", toStub' = toStub, cmd' = cmd, phase' = phase,
           NoPlus => NoPlus',
           pc' \notin {"data", "sum1", "sum2"} \/ UNCHANGED <<pc, buf, sum, num>>,
           pc' = "execute" => UNCHANGED <<pc, buf>>
    PROVE  PacketInv'
    <1>1. PICK p \in Int : Stream(p) /\ At(p) /\ (Unread(p) => phase = "ack" /\ NoPlus)
        BY DEF PacketInv
    <1>2. Stream(p)'
        BY <1>1 DEF Stream, Size, Packet
    <1>3. At(p)'
        BY <1>1 DEF At
    <1>4. Unread(p)' => phase' = "ack" /\ NoPlus'
        BY <1>1 DEF Unread, Size
    <1>5. \E q \in Int : Stream(q)' /\ At(q)' /\ (Unread(q)' => phase' = "ack" /\ NoPlus')
        BY <1>2, <1>3, <1>4
    <1>6. pc' \in {"sum1", "sum2", "execute"} => buf' = cmd'
        BY DEF PacketInv
    <1>7. pc' \in {"data", "sum1", "sum2"} => sum' = Number(buf', 1) % 256
        BY DEF PacketInv
    <1> QED
        BY <1>5, <1>6, <1>7 DEF PacketInv

LEMMA PacketHandler ==
    ASSUME TypeInv, PacketInv, DoContinue \/ DoStep \/ DoAnswer \/ \E v \in Vectors : Trap(v)
    PROVE  PacketInv'
    <1>1. pc \in {"execute", "run"} /\ pc' \in {"halted", "start", "await", "run"}
        BY DEF DoContinue, DoStep, DoAnswer, Trap, Transmit
    <1>2. toStub' = toStub /\ cmd' = cmd /\ phase' = phase
        BY DEF DoContinue, DoStep, DoAnswer, Trap, client
    <1>3. toClient' = toClient \/ \E a : toClient' = Append(toClient, <<"packet", a>>)
        BY DEF DoContinue, DoStep, DoAnswer, Trap, Transmit
    <1>4. NoPlus => NoPlus'
        <2>1. CASE toClient' = toClient
            BY <2>1 DEF NoPlus
        <2>2. ASSUME NEW a, toClient' = Append(toClient, <<"packet", a>>)
              PROVE  NoPlus => NoPlus'
            BY <2>2, Kinds, NoPlusAppend
        <2> QED
            BY <1>3, <2>1, <2>2
    <1> QED
        BY <1>1, <1>2, <1>4, PacketAside

\* Where the client sends nothing but acknowledgements.
LEMMA PacketAnswer ==
    ASSUME TypeInv, PacketInv, NEW x \in {Plus, Minus}, Send(<<x>>),
           pc # "divide", UNCHANGED <<pc, buf, sum, num, cmd>>,
           phase = "ack" => phase' = "ack", NoPlus => NoPlus'
    PROVE  PacketInv'
    <1>1. PICK p \in Int : Stream(p) /\ At(p) /\ (Unread(p) => phase = "ack" /\ NoPlus)
        BY DEF PacketInv
    <1>2. x \in Bytes /\ x # Dollar
        BY DEF Plus, Minus, Dollar, Bytes
    <1>3. Stream(p)'
        BY <1>1, <1>2, StreamSend
    <1>4. At(p)'
        BY <1>1 DEF At
    <1>5. Unread(p)' => phase' = "ack" /\ NoPlus'
        BY <1>1 DEF Unread, Size
    <1>6. \E q \in Int : Stream(q)' /\ At(q)' /\ (Unread(q)' => phase' = "ack" /\ NoPlus')
        BY <1>3, <1>4, <1>5
    <1> QED
        BY <1>6 DEF PacketInv

\* Where it sends a packet, with no other on its way.
LEMMA PacketSend ==
    ASSUME TypeInv, PacketInv, cmd' \in Commands, Send(Packet(cmd')), NEW p \in Int,
           Stream(p), ~Unread(p), At(p),
           pc # "execute" \/ cmd' = cmd, UNCHANGED <<pc, buf, sum, num>>,
           phase' = "ack", NoPlus'
    PROVE  PacketInv'
    <1>1. pc \notin {"data", "sum1", "sum2"}
        <2>1. Len(cmd) \in Nat /\ Len(buf) \in Nat /\ Size = Len(cmd) + 4
            BY SizeNat DEF TypeInv, Reading, Size
        <2> QED
            BY <2>1 DEF At, Unread
    <1>2. \A i \in 1 .. Len(toStub) : toStub[i] # Dollar
        BY Clean
    <1>3. PICK q \in Int : Stream(q)'
        BY <1>2, StreamPacket
    <1>4. At(q)'
        BY <1>1 DEF At
    <1>5. \E r \in Int : Stream(r)' /\ At(r)' /\ (Unread(r)' => phase' = "ack" /\ NoPlus')
        BY <1>3, <1>4
    <1> QED
        BY <1>1, <1>5 DEF PacketInv

LEMMA PacketClient ==
    ASSUME TypeInv, PacketInv, ReplyInv, Client \/ \E data \in Commands : ClientCommand(data)
    PROVE  PacketInv'
    <1>1. UNCHANGED <<pc, buf, sum, num>>
        BY DEF Client, ReadAck, ReadText, ReadPacket, Timeout, ClientCommand, stub, packet
    <1>2. CASE pc = "divide"
        BY <1>1, <1>2 DEF PacketInv
    <1>3. ASSUME pc # "divide" PROVE PacketInv'
        <2>1. PICK p \in Int : Stream(p) /\ At(p) /\ (Unread(p) => phase = "ack" /\ NoPlus)
            BY <1>3 DEF PacketInv
        <2>2. CASE ReadAck
            <3>1. /\ toClient # <<>> /\ toClient' = Tail(toClient) /\ cmd' = cmd
                  /\ Head(toClient) \in {<<"+">>, <<"-">>}
                BY <2>2 DEF ReadAck
            <3>2. Head(toClient) = <<"+">>
                <4>1. Head(toClient) = toClient[1] /\ 1 \in 1 .. Len(toClient)
                    BY <3>1, Taken DEF TypeInv, Plain
                <4>2. toClient[1] # <<"-">>
                    BY <1>3, <4>1 DEF ReplyInv
                <4> QED
                    BY <3>1, <4>1, <4>2
            <3>3. ~NoPlus
                <4>1. toClient[1] = <<"+">> /\ 1 \in 1 .. Len(toClient)
                    BY <3>1, <3>2, Taken DEF TypeInv, Plain
                <4> QED
                    BY <4>1 DEF NoPlus
            <3>4. ~Unread(p)
                BY <2>1, <3>3
            <3>5. toStub' = toStub
                BY <2>2, <3>2, Zenon DEF ReadAck
            <3>6. Stream(p)' /\ At(p)' /\ ~Unread(p)'
                BY <1>1, <2>1, <3>1, <3>4, <3>5 DEF Stream, At, Unread, Size, Packet
            <3>7. \E q \in Int : Stream(q)' /\ At(q)' /\ (Unread(q)' => phase' = "ack" /\ NoPlus')
                BY <3>6
            <3> QED
                BY <1>1, <3>1, <3>7 DEF PacketInv
        <2>3. CASE ReadText
            <3>1. /\ toClient # <<>> /\ toClient' = Tail(toClient) /\ cmd' = cmd
                  /\ toStub' = toStub /\ phase' = phase
                BY <2>3 DEF ReadText
            <3>2. NoPlus => NoPlus'
                BY <3>1, NoPlusTail
            <3> QED
                BY <1>1, <1>3, <3>1, <3>2, PacketAside
        <2>4. CASE ReadPacket
            <3>1. toClient # <<>> /\ toClient' = Tail(toClient) /\ cmd' = cmd
                BY <2>4 DEF ReadPacket
            <3>2. Send(<<Plus>>) \/ Send(<<Minus>>)
                BY <2>4, Zenon DEF ReadPacket
            <3>3. phase = "ack" => phase' = "ack"
                BY <2>4 DEF ReadPacket
            <3>4. NoPlus => NoPlus'
                BY <3>1, NoPlusTail
            <3> QED
                BY <1>1, <1>3, <3>1, <3>2, <3>3, <3>4, PacketAnswer
        <2>5. CASE Timeout
            <3>1. /\ toStub = <<>> /\ toClient = <<>> /\ toClient' = toClient
                  /\ pc \in {"await", "start", "data", "sum1", "sum2"}
                  /\ cmd' = cmd /\ phase' = phase /\ phase \in {"ack", "reply"}
                BY <2>5 DEF Timeout, Quiet
            <3>2. NoPlus /\ NoPlus'
                BY <3>1 DEF NoPlus
            <3>3. CASE phase = "ack"
                <4>1. Send(Packet(cmd)) /\ cmd \in Commands
                    BY <2>5, <3>3 DEF Timeout, TypeInv, Asking
                <4>2. ~Unread(p)
                    <5>1. p + Size <= 0
                        BY <2>1, <3>1 DEF Stream
                    <5> QED
                        BY <5>1, SizeNat DEF Unread
                <4> QED
                    BY <1>1, <2>1, <3>1, <3>2, <3>3, <4>1, <4>2, PacketSend
            <3>4. CASE phase # "ack"
                <4>1. Send(<<Minus>>)
                    BY <2>5, <3>4, Zenon DEF Timeout
                <4> QED
                    BY <1>1, <1>3, <3>1, <3>2, <3>4, <4>1, PacketAnswer
            <3> QED
                BY <3>3, <3>4
        <2>6. ASSUME NEW data \in Commands, ClientCommand(data) PROVE PacketInv'
            <3>1. /\ phase = "idle" /\ cmd' = data /\ phase' = "ack" /\ Send(Packet(data))
                  /\ toClient' = toClient
                BY <2>6 DEF ClientCommand
            <3>2. ~Unread(p)
                BY <2>1, <3>1
            <3>3. NoPlus /\ NoPlus'
                BY <3>1 DEF NoPlus, ReplyInv
            <3>4. pc # "execute"
                BY <3>1 DEF ReplyInv
            <3> QED
                BY <1>1, <2>1, <3>1, <3>2, <3>3, <3>4, PacketSend
        <2> QED
            BY <2>2, <2>3, <2>4, <2>5, <2>6 DEF Client
    <1> QED
        BY <1>2, <1>3

\* What reading, losing and damaging make of the way to the client.
Thins ==
    \E m \in [1 .. Len(toClient') -> 1 .. Len(toClient)] :
        /\ \A j \in 1 .. Len(toClient') : \A k \in j + 1 .. Len(toClient') : m[j] < m[k]
        /\ \A j \in 1 .. Len(toClient') :
              toClient'[j] \in {toClient[m[j]], <<"packet", "damaged">>}

LEMMA ThinsTail ==
    ASSUME TypeInv, toClient # <<>>, toClient' = Tail(toClient)
    PROVE  Thins
    <1>1. toClient \in Seq(Entries)
        BY DEF TypeInv, Plain
    <1>2. /\ Len(toClient') = Len(toClient) - 1 /\ Len(toClient) \in Nat
          /\ \A i \in 1 .. Len(toClient) - 1 : toClient'[i] = toClient[i + 1]
        BY <1>1, Taken
    <1> DEFINE m == [j \in 1 .. Len(toClient') |-> j + 1]
    <1>3. m \in [1 .. Len(toClient') -> 1 .. Len(toClient)]
        BY <1>2
    <1>4. \A j \in 1 .. Len(toClient') : \A k \in j + 1 .. Len(toClient') : m[j] < m[k]
        BY <1>2
    <1>5. \A j \in 1 .. Len(toClient') :
             toClient'[j] \in {toClient[m[j]], <<"packet", "damaged">>}
        BY <1>2
    <1> HIDE DEF m
    <1> QED
        BY <1>3, <1>4, <1>5 DEF Thins

LEMMA ThinsSame ==
    ASSUME TypeInv, toClient' = toClient
    PROVE  Thins
    <1>1. Len(toClient) \in Nat
        BY DEF TypeInv, Plain
    <1> DEFINE m == [j \in 1 .. Len(toClient') |-> j]
    <1>2. m \in [1 .. Len(toClient') -> 1 .. Len(toClient)]
        OBVIOUS
    <1>3. \A j \in 1 .. Len(toClient') : \A k \in j + 1 .. Len(toClient') : m[j] < m[k]
        BY <1>1
    <1>4. \A j \in 1 .. Len(toClient') :
             toClient'[j] \in {toClient[m[j]], <<"packet", "damaged">>}
        OBVIOUS
    <1> HIDE DEF m
    <1> QED
        BY <1>2, <1>3, <1>4 DEF Thins

LEMMA ThinsFault ==
    ASSUME TypeInv, Fault
    PROVE  Thins
    <1>1. toClient \in Seq(Entries) /\ Len(toClient) \in Nat
        BY DEF TypeInv, Plain
    <1>2. \/ \E i \in 1 .. Len(toClient) :
                \/ toClient' = RemoveAt(toClient, i)
                \/ toClient' = ReplaceAt(toClient, i, <<"packet", "damaged">>)
          \/ UNCHANGED toClient
        BY Zenon DEF Fault
    <1>3. ASSUME NEW i \in 1 .. Len(toClient), toClient' = RemoveAt(toClient, i)
          PROVE  Thins
        <2>1. /\ Len(toClient') = Len(toClient) - 1
              /\ \A j \in 1 .. Len(toClient) - 1 :
                    toClient'[j] = IF j < i THEN toClient[j] ELSE toClient[j + 1]
            BY <1>1, <1>3, Removed
        <2> DEFINE m == [j \in 1 .. Len(toClient') |-> IF j < i THEN j ELSE j + 1]
        <2>2. m \in [1 .. Len(toClient') -> 1 .. Len(toClient)]
            BY <1>1, <2>1
        <2>3. \A j \in 1 .. Len(toClient') : \A k \in j + 1 .. Len(toClient') : m[j] < m[k]
            BY <1>1, <2>1
        <2>4. \A j \in 1 .. Len(toClient') :
                 toClient'[j] \in {toClient[m[j]], <<"packet", "damaged">>}
            BY <1>1, <2>1
        <2> HIDE DEF m
        <2> QED
            BY <2>2, <2>3, <2>4 DEF Thins
    <1>4. ASSUME NEW i \in 1 .. Len(toClient),
                 toClient' = ReplaceAt(toClient, i, <<"packet", "damaged">>)
          PROVE  Thins
        <2>1. <<"packet", "damaged">> \in Entries
            BY EntryOf DEF Answers
        <2>2. /\ Len(toClient') = Len(toClient)
              /\ \A j \in 1 .. Len(toClient) :
                    toClient'[j] = IF j = i THEN <<"packet", "damaged">> ELSE toClient[j]
            <3>1. /\ Len(ReplaceAt(toClient, i, <<"packet", "damaged">>)) = Len(toClient)
                  /\ \A j \in 1 .. Len(toClient) :
                        ReplaceAt(toClient, i, <<"packet", "damaged">>)[j] =
                            IF j = i THEN <<"packet", "damaged">> ELSE toClient[j]
                BY <1>1, <2>1 DEF ReplaceAt
            <3> QED
                BY <1>4, <3>1, Zenon
        <2> DEFINE m == [j \in 1 .. Len(toClient') |-> j]
        <2>3. m \in [1 .. Len(toClient') -> 1 .. Len(toClient)]
            BY <2>2
        <2>4. \A j \in 1 .. Len(toClient') : \A k \in j + 1 .. Len(toClient') : m[j] < m[k]
            BY <1>1, <2>2
        <2>5. \A j \in 1 .. Len(toClient') :
                 toClient'[j] \in {toClient[m[j]], <<"packet", "damaged">>}
            BY <2>2
        <2> HIDE DEF m
        <2> QED
            BY <2>3, <2>4, <2>5 DEF Thins
    <1> QED
        BY <1>2, <1>3, <1>4, ThinsSame

\* Nothing that was said of the entries is lost.
LEMMA Thinned ==
    ASSUME TypeInv, TypeInv', Thins, cmd' = cmd
    PROVE  /\ NoPlus => NoPlus'
           /\ (\A i \in 1 .. Len(toClient) : toClient[i] # <<"-">>)
                 => \A i \in 1 .. Len(toClient') : toClient'[i] # <<"-">>
           /\ (\A i \in 1 .. Len(toClient) : toClient[i] = <<"+">> =>
                  \A j \in i + 1 .. Len(toClient) : Fresh(toClient[j]))
                 => \A i \in 1 .. Len(toClient') : toClient'[i] = <<"+">> =>
                       \A j \in i + 1 .. Len(toClient') : Fresh(toClient[j])'
           /\ (\A j \in 1 .. Len(toClient) : Fresh(toClient[j]))
                 => \A j \in 1 .. Len(toClient') : Fresh(toClient[j])'
           /\ (\A i \in 1 .. Len(toClient) : toClient[i] = <<"+">> => i = Len(toClient))
                 => \A i \in 1 .. Len(toClient') : toClient'[i] = <<"+">> => i = Len(toClient')
           /\ toClient = <<>> => toClient' = <<>>
    <1> DEFINE L == Len(toClient)
               K == Len(toClient')
    <1>1. toClient \in Seq(Entries) /\ toClient' \in Seq(Entries) /\ L \in Nat /\ K \in Nat
        BY DEF TypeInv, Plain
    <1>2. PICK m \in [1 .. K -> 1 .. L] :
             /\ \A j \in 1 .. K : \A k \in j + 1 .. K : m[j] < m[k]
             /\ \A j \in 1 .. K : toClient'[j] \in {toClient[m[j]], <<"packet", "damaged">>}
        BY DEF Thins
    <1>3. \A j \in 1 .. K : m[j] \in 1 .. L
        BY <1>2
    <1>4. \A e : Fresh(e)' <=> Fresh(e)
        BY DEF Fresh, Answer
    <1>5. Fresh(<<"packet", "damaged">>)
        BY DEF Fresh
    <1>6. ASSUME NEW i \in 1 .. K, toClient'[i] = <<"+">> \/ toClient'[i] = <<"-">>
          PROVE  toClient[m[i]] = toClient'[i]
        BY <1>2, <1>6, Kinds
    <1>7. ASSUME NEW j \in 1 .. K, Fresh(toClient[m[j]])
          PROVE  Fresh(toClient[j])'
        <2>1. CASE toClient'[j] = toClient[m[j]]
            BY <2>1, <1>7 DEF Fresh, Answer
        <2>2. CASE toClient'[j] = <<"packet", "damaged">>
            BY <2>2 DEF Fresh
        <2> QED
            BY <1>2, <2>1, <2>2
    <1>8. NoPlus => NoPlus'
        BY <1>3, <1>6 DEF NoPlus
    <1>9. ASSUME \A i \in 1 .. L : toClient[i] # <<"-">>, NEW i \in 1 .. K
          PROVE  toClient'[i] # <<"-">>
        BY <1>3, <1>6, <1>9
    <1>10. ASSUME \A i \in 1 .. L : toClient[i] = <<"+">> =>
                     \A j \in i + 1 .. L : Fresh(toClient[j]),
                  NEW i \in 1 .. K, toClient'[i] = <<"+">>, NEW j \in i + 1 .. K
           PROVE  Fresh(toClient[j])'
        <2>1. j \in 1 .. K /\ m[i] < m[j] /\ m[i] \in 1 .. L /\ m[j] \in 1 .. L
            BY <1>1, <1>2, <1>3
        <2>2. toClient[m[i]] = <<"+">>
            BY <1>6, <1>10
        <2>3. m[j] \in m[i] + 1 .. L
            BY <2>1, <1>1
        <2>4. Fresh(toClient[m[j]])
            BY <2>1, <2>2, <2>3, <1>10
        <2> QED
            BY <2>1, <2>4, <1>7
    <1>11. ASSUME \A j \in 1 .. L : Fresh(toClient[j]), NEW j \in 1 .. K
           PROVE  Fresh(toClient[j])'
        BY <1>3, <1>7, <1>11
    <1>12. ASSUME \A i \in 1 .. L : toClient[i] = <<"+">> => i = L,
                  NEW i \in 1 .. K, toClient'[i] = <<"+">>
           PROVE  i = K
        <2>1. m[i] = L
            BY <1>3, <1>6, <1>12
        <2>2. CASE i < K
            <3>1. K \in i + 1 .. K /\ K \in 1 .. K
                BY <2>2, <1>1
            <3>2. m[i] < m[K] /\ m[K] \in 1 .. L
                BY <3>1, <1>2, <1>3
            <3> QED
                BY <2>1, <3>2, <1>1
        <2> QED
            BY <2>2, <1>1
    <1>13. ASSUME toClient = <<>> PROVE toClient' = <<>>
        <2>1. L = 0
            BY <1>13
        <2>2. CASE K > 0
            <3>1. m[1] \in 1 .. L
                BY <2>2, <1>1, <1>3
            <3> QED
                BY <2>1, <3>1
        <2>3. K = 0
            BY <2>2, <1>1
        <2> QED
            BY <1>1, <2>3
    <1> QED
        BY <1>8, <1>9, <1>10, <1>11, <1>12, <1>13

LEMMA PacketFault ==
    ASSUME TypeInv, TypeInv', PacketInv, Fault, Spares
    PROVE  PacketInv'
    <1>1. UNCHANGED <<pc, buf, sum, num, cmd, phase>>
        BY DEF Fault, stub, packet, client
    <1>2. NoPlus => NoPlus'
        BY <1>1, ThinsFault, Thinned
    <1>3. CASE pc = "divide"
        BY <1>1, <1>3 DEF PacketInv
    <1>4. CASE pc # "divide" /\ toStub' = toStub
        BY <1>1, <1>2, <1>4, PacketAside
    <1>5. CASE pc # "divide" /\ toStub' # toStub
        <2>1. phase # "ack" /\ \A j \in 1 .. Len(toStub') : toStub'[j] # Dollar
            BY <1>5 DEF Spares
        <2>2. PICK p \in Int : Stream(p) /\ At(p) /\ ~Unread(p)
            BY <1>5, <2>1 DEF PacketInv
        <2>3. toStub' \in Seq(Bytes) /\ Len(toStub') \in Nat
            BY DEF TypeInv, Plain
        <2>4. Size \in Nat /\ Size' = Size /\ Size = Len(cmd) + 4 /\ Len(buf) \in Nat
            BY <1>1, SizeNat DEF Size, TypeInv, Reading
        <2>5. PICK q \in Int : q = - Size
            BY <2>4
        <2>6. Stream(q)'
            <3>1. q + Size' <= Len(toStub')
                BY <2>3, <2>4, <2>5
            <3>2. ASSUME NEW i \in 1 .. Len(toStub') PROVE i - q \notin 1 .. Size'
                BY <2>4, <2>5
            <3> QED
                BY <2>1, <3>1, <3>2 DEF Stream
        <2>7. pc \notin {"data", "sum1", "sum2"}
            BY <2>2, <2>4, SizeNat DEF At, Unread
        <2>8. At(q)'
            BY <1>1, <2>7 DEF At
        <2>9. ~Unread(q)'
            BY <2>4, <2>5 DEF Unread
        <2>10. \E r \in Int : Stream(r)' /\ At(r)' /\ (Unread(r)' => phase' = "ack" /\ NoPlus')
            BY <2>6, <2>8, <2>9
        <2> QED
            BY <1>1, <2>10 DEF PacketInv
    <1> QED
        BY <1>3, <1>4, <1>5

\* The stub sends a packet.
LEMMA ReplyAppend ==
    ASSUME TypeInv, ReplyInv, NEW a, toClient' = Append(toClient, <<"packet", a>>),
           UNCHANGED <<cmd, phase, refused>>, pc # "divide", pc' = "await", reply' = a,
           phase = "reply" \/ ~NoPlus => a = Answer(cmd[1])
    PROVE  ReplyInv'
    <1> DEFINE e == <<"packet", a>>
               L == Len(toClient)
    <1>1. toClient \in Seq(Entries) /\ L \in Nat
        BY DEF TypeInv, Plain
    <1>2. e # <<"+">> /\ e # <<"-">>
        BY Kinds
    <1>3. NoPlus <=> NoPlus'
        BY <1>2, NoPlusAppend
    <1>4. /\ Len(toClient') = L + 1 /\ toClient'[L + 1] = e
          /\ \A i \in 1 .. L : toClient'[i] = toClient[i]
        BY <1>1, Grown
    <1>5. phase = "reply" \/ ~NoPlus => Fresh(e)
        BY DEF Fresh
    <1> HIDE DEF e
    <1>6. \A x : Fresh(x)' <=> Fresh(x)
        BY DEF Fresh, Answer
    <1>7. ASSUME NEW i \in 1 .. L + 1, toClient'[i] = <<"+">>, NEW j \in i + 1 .. L + 1
          PROVE  Fresh(toClient[j])'
        <2>1. i \in 1 .. L /\ toClient[i] = <<"+">>
            BY <1>1, <1>2, <1>4, <1>7
        <2>2. CASE j = L + 1
            <3>1. ~NoPlus
                BY <2>1 DEF NoPlus
            <3>2. Fresh(toClient'[j])
                BY <1>4, <1>5, <2>2, <3>1
            <3> QED
                BY <3>2 DEF Fresh, Answer
        <2>3. CASE j # L + 1
            <3>1. j \in i + 1 .. L /\ j \in 1 .. L
                BY <1>1, <1>7, <2>1, <2>3
            <3>2. Fresh(toClient[j])
                BY <2>1, <3>1 DEF ReplyInv
            <3>3. toClient'[j] = toClient[j]
                BY <1>4, <3>1
            <3> QED
                BY <3>2, <3>3 DEF Fresh, Answer
        <2> QED
            BY <2>2, <2>3
    <1>8. ASSUME phase' = "reply", NEW j \in 1 .. L + 1
          PROVE  Fresh(toClient[j])'
        <2>1. CASE j = L + 1
            <3>1. Fresh(toClient'[j])
                BY <1>4, <1>5, <1>8, <2>1
            <3> QED
                BY <3>1 DEF Fresh, Answer
        <2>2. CASE j # L + 1
            <3>1. j \in 1 .. L
                BY <1>1, <2>2
            <3>2. Fresh(toClient[j]) /\ toClient'[j] = toClient[j]
                BY <1>4, <1>8, <3>1 DEF ReplyInv
            <3> QED
                BY <3>2 DEF Fresh, Answer
        <2> QED
            BY <2>1, <2>2
    <1>9. ASSUME NEW i \in 1 .. L + 1 PROVE toClient'[i] # <<"-">>
        <2>1. CASE i \in 1 .. L
            BY <1>4, <2>1 DEF ReplyInv
        <2>2. CASE i = L + 1
            BY <1>2, <1>4, <2>2
        <2> QED
            BY <1>1, <2>1, <2>2
    <1>10. NoPlus' \/ phase' = "ack"
        BY <1>3 DEF ReplyInv
    <1>11. phase' = "reply" \/ ~NoPlus' => reply' = Answer(cmd'[1])
        <2>1. phase' = "reply" \/ ~NoPlus' => a = Answer(cmd[1])
            BY <1>3
        <2>2. Answer(cmd'[1]) = Answer(cmd[1])
            BY DEF Answer
        <2> QED
            BY <2>1, <2>2
    <1>12. ~refused'
        BY DEF ReplyInv
    <1>13. \A i \in 1 .. Len(toClient') : toClient'[i] = <<"+">> =>
              \A j \in i + 1 .. Len(toClient') : Fresh(toClient[j])'
        BY <1>4, <1>7
    <1>14. phase' = "reply" => \A j \in 1 .. Len(toClient') : Fresh(toClient[j])'
        BY <1>4, <1>8
    <1>15. \A i \in 1 .. Len(toClient') : toClient'[i] # <<"-">>
        BY <1>4, <1>9
    <1> QED
        BY <1>10, <1>11, <1>12, <1>13, <1>14, <1>15 DEF ReplyInv

\* Nothing is added, and the handler is not begun.
LEMMA ReplyThins ==
    ASSUME TypeInv, TypeInv', ReplyInv, Thins,
           UNCHANGED <<cmd, phase, refused>>, 
           \/ UNCHANGED <<pc, reply>>
           \/ pc # "divide" /\ pc' \notin {"await", "execute", "run", "divide"}
    PROVE  ReplyInv'
    <1>1. NoPlus => NoPlus'
        BY Thinned
    <1>2. NoPlus' \/ phase' = "ack"
        BY <1>1 DEF ReplyInv
    <1>3. \A i \in 1 .. Len(toClient') : toClient'[i] = <<"+">> =>
             \A j \in i + 1 .. Len(toClient') : Fresh(toClient[j])'
        BY Thinned DEF ReplyInv
    <1>4. phase' = "reply" => \A j \in 1 .. Len(toClient') : Fresh(toClient[j])'
        BY Thinned DEF ReplyInv
    <1>5. pc' = "await" /\ (phase' = "reply" \/ ~NoPlus') => reply' = Answer(cmd'[1])
        <2>1. Answer(cmd'[1]) = Answer(cmd[1])
            BY DEF Answer
        <2> QED
            BY <1>1, <2>1 DEF ReplyInv
    <1>6. pc' # "divide" => \A i \in 1 .. Len(toClient') : toClient'[i] # <<"-">>
        BY Thinned DEF ReplyInv
    <1>7. pc' = "execute" =>
             /\ phase' \in {"ack", "reply", "stop"} /\ cmd' \in Commands
             /\ phase' # "ack" => toClient' = <<>>
             /\ \A i \in 1 .. Len(toClient') : toClient'[i] = <<"+">> => i = Len(toClient')
        BY Thinned DEF ReplyInv
    <1>8. pc' = "run" => phase' = "stop" /\ toClient' = <<>>
        BY Thinned DEF ReplyInv
    <1>9. pc' = "divide" => phase' = "ack" /\ NoPlus'
        BY <1>1 DEF ReplyInv
    <1>10. ~refused'
        BY DEF ReplyInv
    <1> QED
        BY <1>2, <1>3, <1>4, <1>5, <1>6, <1>7, <1>8, <1>9, <1>10 DEF ReplyInv

LEMMA ReplyAccept ==
    ASSUME PlainCommands, TypeInv, TypeInv', LineInv, NEW c, Accept(c)
    PROVE  ReplyInv'
    <1>1. /\ cmd \in Commands /\ phase = "ack" /\ NoPlus
          /\ toClient' = Append(toClient, <<"+">>)
        BY PacketAccept DEF LineInv
    <1>2. UNCHANGED <<cmd, phase, refused>> /\ pc = "sum2" /\ pc' = "execute"
        BY DEF Accept, stub, client
    <1> DEFINE L == Len(toClient)
    <1>3. toClient \in Seq(Entries) /\ L \in Nat
        BY DEF TypeInv, Plain
    <1>4. /\ Len(toClient') = L + 1 /\ toClient'[L + 1] = <<"+">>
          /\ \A i \in 1 .. L : toClient'[i] = toClient[i]
        BY <1>1, <1>3, Grown
    <1>5. ASSUME NEW i \in 1 .. L + 1, toClient'[i] = <<"+">> PROVE i = L + 1
        <2>1. CASE i \in 1 .. L
            BY <1>1, <1>4, <1>5, <2>1 DEF NoPlus
        <2> QED
            BY <1>3, <2>1
    <1>6. ASSUME NEW i \in 1 .. L + 1 PROVE toClient'[i] # <<"-">>
        <2>1. CASE i \in 1 .. L
            BY <1>2, <1>4, <2>1 DEF LineInv, ReplyInv
        <2>2. CASE i = L + 1
            BY <1>4, <2>2, Kinds
        <2> QED
            BY <1>3, <2>1, <2>2
    <1>7. \A i \in 1 .. Len(toClient') : toClient'[i] = <<"+">> => i = Len(toClient')
        BY <1>4, <1>5
    <1>8. \A i \in 1 .. Len(toClient') : toClient'[i] # <<"-">>
        BY <1>4, <1>6
    <1>9. \A i \in 1 .. Len(toClient') : toClient'[i] = <<"+">> =>
             \A j \in i + 1 .. Len(toClient') : Fresh(toClient[j])'
        <2>1. Len(toClient') \in Nat
            BY <1>3, <1>4
        <2>2. ASSUME NEW i \in 1 .. Len(toClient'), toClient'[i] = <<"+">>,
                     NEW j \in i + 1 .. Len(toClient')
              PROVE  FALSE
            <3>1. i = Len(toClient')
                BY <1>7, <2>2
            <3> QED
                BY <2>1, <3>1
        <2> QED
            BY <2>2
    <1>10. phase' = "ack" /\ cmd' \in Commands /\ ~refused'
        BY <1>1, <1>2 DEF LineInv, ReplyInv
    <1> QED
        BY <1>2, <1>7, <1>8, <1>9, <1>10 DEF ReplyInv

LEMMA ReplyOverflow ==
    ASSUME TypeInv, LineInv, Overflow
    PROVE  ReplyInv'
    <1>1. /\ pc = "data" /\ pc' = "divide" /\ toClient' = Append(toClient, <<"-">>)
          /\ UNCHANGED <<cmd, phase, refused>>
        BY DEF Overflow, stub, client
    <1>2. PICK p \in Int : At(p) /\ (Unread(p) => phase = "ack" /\ NoPlus)
        BY <1>1 DEF LineInv, PacketInv
    <1>3. Unread(p)
        <2>1. Len(cmd) \in Nat /\ Len(buf) \in Nat /\ Size = Len(cmd) + 4
            BY SizeNat DEF TypeInv, Reading, Size
        <2> QED
            BY <1>1, <1>2, <2>1 DEF At, Unread
    <1>4. NoPlus'
        BY <1>1, <1>2, <1>3, Kinds, NoPlusAppend
    <1>5. phase' = "ack" /\ ~refused'
        BY <1>1, <1>2, <1>3 DEF LineInv, ReplyInv
    <1>6. \A i \in 1 .. Len(toClient') : toClient'[i] # <<"+">>
        BY <1>4 DEF NoPlus
    <1> QED
        BY <1>1, <1>4, <1>5, <1>6 DEF ReplyInv

LEMMA ReplyHandler ==
    ASSUME TypeInv, TypeInv', LineInv,
           DoContinue \/ DoStep \/ DoAnswer \/ \E v \in Vectors : Trap(v)
    PROVE  ReplyInv'
    <1>1. UNCHANGED <<cmd, phase, refused>>
        BY DEF DoContinue, DoStep, DoAnswer, Trap, client
    <1>2. CASE DoContinue \/ DoStep
        <2>1. /\ pc = "execute" /\ pc' \in {"halted", "start"} /\ toClient' = toClient
            BY <1>2 DEF DoContinue, DoStep
        <2> QED
            BY <1>1, <2>1, ThinsSame, ReplyThins DEF LineInv
    <1>3. CASE DoAnswer
        <2>1. pc = "execute" /\ Transmit(Answer(Command))
            BY <1>3 DEF DoAnswer
        <2>2. Command = cmd[1]
            <3>1. buf = cmd /\ cmd \in Commands
                BY <2>1 DEF LineInv, PacketInv, ReplyInv
            <3> QED
                BY <3>1, CommandBytes DEF Command
        <2> DEFINE a == Answer(Command)
        <2>3. a = Answer(cmd[1])
            BY <2>2
        <2>4. toClient' = Append(toClient, <<"packet", a>>) /\ pc' = "await" /\ reply' = a
            BY <2>1 DEF Transmit
        <2> HIDE DEF a
        <2> QED
            BY <1>1, <2>1, <2>3, <2>4, ReplyAppend DEF LineInv
    <1>4. ASSUME NEW v \in Vectors, Trap(v) PROVE ReplyInv'
        <2>1. CASE Signal(v) # 0
            <3>1. pc' = pc /\ reply' = reply /\ toClient' = toClient
                BY <1>4, <2>1 DEF Trap, sending
            <3> QED
                BY <1>1, <3>1, ThinsSame, ReplyThins DEF LineInv
        <2>2. CASE Signal(v) = 0
            <3>1. pc = "run" /\ toClient' = Append(toClient, <<"packet", "signal">>)
                  /\ pc' = "await" /\ reply' = "signal"
                BY <1>4, <2>2 DEF Trap, Transmit
            <3>2. phase = "stop" /\ toClient = <<>>
                BY <3>1 DEF LineInv, ReplyInv
            <3>3. phase # "reply" /\ NoPlus
                BY <3>2 DEF NoPlus
            <3> QED
                BY <1>1, <3>1, <3>3, ReplyAppend DEF LineInv
        <2> QED
            BY <2>1, <2>2
    <1> QED
        BY <1>2, <1>3, <1>4

LEMMA ReplyClient ==
    ASSUME TypeInv, TypeInv', LineInv,
           Client \/ \E data \in Commands : ClientCommand(data)
    PROVE  ReplyInv'
    <1>1. UNCHANGED <<pc, reply, refused>>
        BY DEF Client, ReadAck, ReadText, ReadPacket, Timeout, ClientCommand, stub, sending
    <1>2. CASE ReadAck
        <2>1. /\ toClient # <<>> /\ toClient' = Tail(toClient) /\ cmd' = cmd
              /\ Head(toClient) \in {<<"+">>, <<"-">>}
            BY <1>2 DEF ReadAck
        <2>2. Thins
            BY <2>1, ThinsTail
        <2>3. CASE phase' = phase
            BY <1>1, <2>1, <2>2, <2>3, ReplyThins DEF LineInv
        <2>4. CASE phase' # phase
            <3>1. phase = "ack" /\ Head(toClient) = <<"+">> /\ phase' = Wait
                BY <1>2, <2>4, Zenon DEF ReadAck
            <3>2. /\ toClient[1] = <<"+">> /\ Len(toClient) \in Nat /\ Len(toClient) > 0
                  /\ Len(toClient') = Len(toClient) - 1
                  /\ \A i \in 1 .. Len(toClient) - 1 : toClient'[i] = toClient[i + 1]
                BY <2>1, <3>1, Taken DEF TypeInv, Plain
            <3>3. 1 \in 1 .. Len(toClient)
                BY <3>2
            <3>4. ~NoPlus
                BY <3>2, <3>3 DEF NoPlus
            <3>5. pc # "run" /\ pc # "divide"
                BY <2>1, <3>4 DEF LineInv, ReplyInv
            <3>6. \A j \in 1 + 1 .. Len(toClient) : Fresh(toClient[j])
                BY <3>2, <3>3 DEF LineInv, ReplyInv
            <3>7. ASSUME NEW j \in 1 .. Len(toClient') PROVE Fresh(toClient'[j])
                <4>1. j + 1 \in 1 + 1 .. Len(toClient) /\ toClient'[j] = toClient[j + 1]
                    BY <3>2
                <4> QED
                    BY <3>6, <4>1
            <3>8. NoPlus'
                <4>1. \A j \in 1 .. Len(toClient') : toClient'[j] # <<"+">>
                    BY <3>7, Kinds DEF Fresh
                <4> QED
                    BY <4>1 DEF NoPlus
            <3>9. phase' \in {"stop", "reply"}
                BY <3>1 DEF Wait
            <3>10. \A j \in 1 .. Len(toClient') : Fresh(toClient[j])'
                BY <2>1, <3>7 DEF Fresh, Answer
            <3>11. pc = "await" => reply' = Answer(cmd'[1])
                <4>1. Answer(cmd'[1]) = Answer(cmd[1])
                    BY <2>1 DEF Answer
                <4> QED
                    BY <1>1, <3>4, <4>1 DEF LineInv, ReplyInv
            <3>12. \A i \in 1 .. Len(toClient') : toClient'[i] # <<"-">>
                BY <3>7, Kinds DEF Fresh
            <3>13. pc = "execute" => cmd' \in Commands /\ toClient' = <<>>
                <4>1. ASSUME pc = "execute" PROVE cmd' \in Commands /\ toClient' = <<>>
                    <5>1. cmd \in Commands /\ 1 = Len(toClient)
                        BY <3>2, <3>3, <4>1 DEF LineInv, ReplyInv
                    <5>2. Len(toClient') = 0
                        <6>1. Len(toClient) = 1 /\ Len(toClient') = Len(toClient) - 1
                            BY <3>2, <5>1
                        <6> QED
                            BY <6>1
                    <5>3. toClient' \in Seq(Entries)
                        BY Zenon DEF TypeInv, Plain
                    <5>4. toClient' = <<>>
                        BY <5>2, <5>3
                    <5> QED
                        BY <2>1, <5>1, <5>4, Zenon
                <4> QED
                    BY <4>1
            <3>14. \A i \in 1 .. Len(toClient') : toClient'[i] # <<"+">>
                BY <3>8 DEF NoPlus
            <3>15. ~refused'
                BY <1>1 DEF LineInv, ReplyInv
            <3> QED
                BY <1>1, <3>5, <3>8, <3>9, <3>10, <3>11, <3>12, <3>13, <3>14, <3>15
                DEF ReplyInv
        <2> QED
            BY <2>3, <2>4
    <1>3. CASE ReadText
        <2>1. /\ toClient # <<>> /\ toClient' = Tail(toClient) /\ UNCHANGED <<cmd, phase>>
            BY <1>3 DEF ReadText
        <2> QED
            BY <1>1, <2>1, ThinsTail, ReplyThins DEF LineInv
    <1>4. CASE ReadPacket
        <2>1. /\ toClient # <<>> /\ toClient' = Tail(toClient) /\ cmd' = cmd
            BY <1>4 DEF ReadPacket
        <2>2. Thins
            BY <2>1, ThinsTail
        <2>3. CASE phase' = phase
            BY <1>1, <2>1, <2>2, <2>3, ReplyThins DEF LineInv
        <2>4. CASE phase' # phase
            <3>1. phase \in {"stop", "reply"} /\ phase' = "idle"
                BY <1>4, <2>4, Zenon DEF ReadPacket
            <3>2. pc \notin {"run", "divide", "execute"}
                BY <2>1, <3>1 DEF LineInv, ReplyInv
            <3>3. NoPlus
                BY <3>1 DEF LineInv, ReplyInv
            <3>4. NoPlus'
                BY <2>1, <2>2, <3>3, Thinned
            <3>5. \A i \in 1 .. Len(toClient') : toClient'[i] # <<"+">>
                BY <3>4 DEF NoPlus
            <3>6. \A i \in 1 .. Len(toClient') : toClient'[i] # <<"-">>
                BY <2>1, <2>2, <3>2, Thinned DEF LineInv, ReplyInv
            <3>7. ~refused'
                BY <1>1 DEF LineInv, ReplyInv
            <3> QED
                BY <1>1, <3>1, <3>2, <3>4, <3>5, <3>6, <3>7 DEF ReplyInv
        <2> QED
            BY <2>3, <2>4
    <1>5. CASE Timeout
        <2>1. UNCHANGED <<toClient, phase, cmd>>
            BY <1>5 DEF Timeout
        <2> QED
            BY <1>1, <2>1, ThinsSame, ReplyThins DEF LineInv
    <1>6. ASSUME NEW data \in Commands, ClientCommand(data) PROVE ReplyInv'
        <2>1. phase = "idle" /\ phase' = "ack" /\ toClient' = toClient
            BY <1>6 DEF ClientCommand
        <2>2. NoPlus /\ pc \notin {"run", "divide", "execute"}
            BY <2>1 DEF LineInv, ReplyInv
        <2>3. NoPlus'
            BY <2>1, <2>2 DEF NoPlus
        <2>4. \A i \in 1 .. Len(toClient') : toClient'[i] # <<"+">>
            BY <2>3 DEF NoPlus
        <2>5. \A i \in 1 .. Len(toClient') : toClient'[i] # <<"-">>
            BY <2>1, <2>2 DEF LineInv, ReplyInv
        <2>6. ~refused'
            BY <1>1 DEF LineInv, ReplyInv
        <2> QED
            BY <1>1, <2>1, <2>2, <2>3, <2>4, <2>5, <2>6 DEF ReplyInv
    <1> QED
        BY <1>2, <1>3, <1>4, <1>5, <1>6 DEF Client

LEMMA LineInit == Init => LineInv
    <1> SUFFICES ASSUME Init PROVE LineInv
        OBVIOUS
    <1>1. toStub = <<>> /\ toClient = <<>> /\ cmd = <<>> /\ pc = "run" /\ phase = "stop"
          /\ refused = FALSE
        BY Zenon DEF Init
    <1>2. TypeInv
        BY TypeInit
    <1>3. NoPlus
        BY <1>1 DEF NoPlus
    <1>4. Size \in Nat /\ toStub \in Seq(Bytes) /\ \A i \in 1 .. Len(toStub) : toStub[i] # Dollar
        BY <1>1, <1>2, SizeNat
    <1>5. Stream(- Size) /\ ~Unread(- Size)
        BY <1>4, Cleared
    <1>6. PICK q \in Int : q = - Size
        BY <1>4
    <1>7. Stream(q) /\ At(q) /\ ~Unread(q)
        BY <1>1, <1>5, <1>6 DEF At
    <1>8. PacketInv
        BY <1>1, <1>7 DEF PacketInv
    <1>9. ReplyInv
        BY <1>1, <1>3 DEF ReplyInv
    <1> QED
        BY <1>8, <1>9 DEF LineInv

LEMMA LineStep ==
    ASSUME PlainCommands
    PROVE  TypeInv /\ LineInv /\ [Next]_vars /\ [Spares]_vars => LineInv'
    <1> SUFFICES ASSUME TypeInv, LineInv, [Next]_vars, [Spares]_vars PROVE LineInv'
        OBVIOUS
    <1>1. TypeInv' /\ PacketInv /\ ReplyInv
        BY TypeStep DEF LineInv
    <1>2. CASE Stub
        <2>1. CASE Acknowledged
            <3>1. PacketInv'
                BY <1>1, <2>1, PacketWait
            <3>2. /\ UNCHANGED <<toClient, cmd, phase, refused>>
                  /\ pc = "await" /\ pc' = "start"
                BY <2>1 DEF Acknowledged, stub, client
            <3> QED
                BY <1>1, <3>1, <3>2, ThinsSame, ReplyThins DEF LineInv
        <2>2. CASE Begin
            <3>1. PacketInv'
                BY <1>1, <2>2, PacketBegin
            <3>2. /\ UNCHANGED <<toClient, cmd, phase, refused>>
                  /\ pc = "start" /\ pc' = "data"
                BY <2>2 DEF Begin, client
            <3> QED
                BY <1>1, <3>1, <3>2, ThinsSame, ReplyThins DEF LineInv
        <2>3. CASE EndData
            <3>1. PacketInv'
                BY <1>1, <2>3, PacketEnd
            <3>2. /\ UNCHANGED <<toClient, cmd, phase, refused>>
                  /\ pc = "data" /\ pc' = "sum1"
                BY <2>3 DEF EndData, client
            <3> QED
                BY <1>1, <3>1, <3>2, ThinsSame, ReplyThins DEF LineInv
        <2>4. CASE Overflow
            <3>1. pc' = "divide"
                BY <2>4 DEF Overflow
            <3> QED
                BY <2>4, <3>1, ReplyOverflow DEF LineInv, PacketInv
        <2>5. CASE DoContinue \/ DoStep \/ DoAnswer
            BY <1>1, <2>5, PacketHandler, ReplyHandler DEF LineInv
        <2>6. CASE Receive(Head(toStub))
            <3>1. PICK c : Receive(c)
                BY <2>6, Zenon
            <3>2. CASE SendAgain(c)
                <4>1. PacketInv'
                    BY <1>1, <3>2, PacketWait
                <4>2. /\ UNCHANGED <<cmd, phase, refused, pc, reply>> /\ pc = "await"
                      /\ toClient' = Append(toClient, <<"packet", reply>>)
                    BY <3>2 DEF SendAgain, client
                <4>3. phase = "reply" \/ ~NoPlus => reply = Answer(cmd[1])
                    BY <1>1, <4>2 DEF ReplyInv
                <4>4. ReplyInv'
                    BY <1>1, <4>2, <4>3, ReplyAppend
                <4> QED
                    BY <4>1, <4>4 DEF LineInv
            <3>3. CASE GiveUp(c)
                <4>1. PacketInv'
                    BY <1>1, <3>3, PacketWait
                <4>2. /\ UNCHANGED <<toClient, cmd, phase, refused>>
                      /\ pc = "await" /\ pc' = "start"
                    BY <3>3 DEF GiveUp, stub, client
                <4> QED
                    BY <1>1, <4>1, <4>2, ThinsSame, ReplyThins DEF LineInv
            <3>4. CASE Skip(c)
                <4>1. PacketInv'
                    BY <1>1, <3>4, PacketWait
                <4>2. UNCHANGED <<toClient, cmd, phase, refused, pc, reply>>
                    BY <3>4 DEF Skip, stub, sending, client
                <4> QED
                    BY <1>1, <4>1, <4>2, ThinsSame, ReplyThins DEF LineInv
            <3>5. CASE Data(c)
                <4>1. PacketInv'
                    BY <1>1, <3>5, PacketData
                <4>2. UNCHANGED <<toClient, cmd, phase, refused, pc, reply>>
                    BY <3>5 DEF Data, sending, client
                <4> QED
                    BY <1>1, <4>1, <4>2, ThinsSame, ReplyThins DEF LineInv
            <3>6. CASE FirstDigit(c)
                <4>1. PacketInv' /\ toClient' = toClient
                    BY <1>1, <3>6, PacketDigit
                <4>2. UNCHANGED <<cmd, phase, refused>> /\ pc = "sum1" /\ pc' = "sum2"
                    BY <3>6 DEF FirstDigit, client
                <4> QED
                    BY <1>1, <4>1, <4>2, ThinsSame, ReplyThins DEF LineInv
            <3>7. CASE Accept(c)
                BY <1>1, <3>7, PacketAccept, ReplyAccept DEF LineInv
            <3>8. CASE Refuse(c)
                BY <1>1, <3>8, NotRefused
            <3> QED
                BY <3>1, <3>2, <3>3, <3>4, <3>5, <3>6, <3>7, <3>8 DEF Receive
        <2> QED
            BY <1>2, <2>1, <2>2, <2>3, <2>4, <2>5, <2>6 DEF Stub
    <1>3. CASE \E v \in Vectors : Trap(v)
        BY <1>1, <1>3, PacketHandler, ReplyHandler DEF LineInv
    <1>4. CASE Client \/ \E data \in Commands : ClientCommand(data)
        BY <1>1, <1>4, PacketClient, ReplyClient DEF LineInv
    <1>5. CASE Fault
        <2>1. Spares
            <3>1. faults' # faults
                BY <1>5 DEF Fault, TypeInv, Plain
            <3> QED
                BY <3>1 DEF vars
        <2>2. PacketInv'
            BY <1>1, <1>5, <2>1, PacketFault
        <2>3. UNCHANGED <<cmd, phase, refused, pc, reply>>
            BY <1>5 DEF Fault, stub, sending, client
        <2> QED
            BY <1>1, <1>5, <2>2, <2>3, ThinsFault, ReplyThins DEF LineInv
    <1>6. CASE UNCHANGED vars
        <2>1. UNCHANGED <<pc, toStub, toClient, buf, sum, num, reply, refused, phase, cmd>>
            BY <1>6 DEF vars, stub, packet, sending, client
        <2>2. PacketInv'
            <3>1. CASE pc = "divide"
                BY <2>1, <3>1 DEF PacketInv
            <3>2. CASE pc # "divide"
                <4>1. NoPlus => NoPlus'
                    BY <2>1 DEF NoPlus
                <4> QED
                    BY <1>1, <2>1, <3>2, <4>1, PacketAside
            <3> QED
                BY <3>1, <3>2
        <2> QED
            BY <1>1, <2>1, <2>2, ThinsSame, ReplyThins DEF LineInv
    <1> QED
        BY <1>2, <1>3, <1>4, <1>5, <1>6 DEF Next

\* Any number of acknowledgements and replies lost, damaged and sent again, in both
\* directions, between any plain commands: what the stub executes is the client's
\* last command, however often the packet was repeated or swallowed.
THEOREM Intact == ASSUME PlainCommands PROVE Spec /\ [][Spares]_vars => []CommandIntact
    <1>1. TypeInv /\ [Next]_vars => TypeInv'
        BY TypeStep
    <1>2. TypeInv /\ LineInv /\ [Next]_vars /\ [Spares]_vars => LineInv'
        BY LineStep
    <1>3. Init => TypeInv /\ LineInv
        BY TypeInit, LineInit
    <1>4. TypeInv /\ LineInv => CommandIntact
        <2> SUFFICES ASSUME TypeInv, LineInv, pc = "execute" PROVE IsPrefix(cmd, buf)
            BY DEF CommandIntact
        <2>1. buf = cmd /\ Len(cmd) \in Nat
            BY SizeNat DEF LineInv, PacketInv
        <2> QED
            BY <2>1 DEF IsPrefix
    <1> QED
        BY <1>1, <1>2, <1>3, <1>4, PTL DEF Spec

\* Under the same faults the client takes no reply but the one to its last command,
\* although replies to earlier ones may still be under way.
THEOREM Matching == ASSUME PlainCommands PROVE Spec /\ [][Spares]_vars => ReplyMatches
    <1>1. TypeInv /\ [Next]_vars => TypeInv'
        BY TypeStep
    <1>2. TypeInv /\ LineInv /\ [Next]_vars /\ [Spares]_vars => LineInv'
        BY LineStep
    <1>3. Init => TypeInv /\ LineInv
        BY TypeInit, LineInit
    <1>4. TypeInv /\ LineInv /\ [Next]_vars =>
             [phase = "reply" /\ phase' = "idle" => Head(toClient)[2] = Answer(cmd[1])]_vars
        <2> SUFFICES ASSUME TypeInv, LineInv, Next, phase = "reply", phase' = "idle"
                     PROVE  Head(toClient)[2] = Answer(cmd[1])
            OBVIOUS
        <2>1. ReadPacket
            <3>1. ~Stub
                BY DEF Stub, Acknowledged, Begin, EndData, Overflow, Receive, SendAgain, GiveUp,
                       Skip, Data, FirstDigit, Accept, Refuse, DoContinue, DoStep, DoAnswer,
                       stub, client
            <3>2. ~Fault /\ ~\E v \in Vectors : Trap(v)
                BY DEF Fault, Trap, client
            <3>3. ~ReadAck /\ ~ReadText /\ ~Timeout
                BY DEF ReadAck, ReadText, Timeout
            <3>4. ~\E data \in Commands : ClientCommand(data)
                BY DEF ClientCommand
            <3> QED
                BY <3>1, <3>2, <3>3, <3>4 DEF Next, Client
        <2>2. toClient # <<>> /\ Head(toClient)[2] # "damaged"
            BY <2>1 DEF ReadPacket
        <2>3. Head(toClient) = toClient[1] /\ 1 \in 1 .. Len(toClient)
            BY <2>2, Taken DEF TypeInv, Plain
        <2>4. Fresh(Head(toClient))
            BY <2>3 DEF LineInv, ReplyInv
        <2>5. Head(toClient) # <<"packet", "damaged">>
            BY <2>2
        <2> QED
            BY <2>4, <2>5 DEF Fresh
    <1> QED
        BY <1>1, <1>2, <1>3, <1>4, PTL DEF Spec, ReplyMatches

\* Under the same faults the stub never asks for a packet again: what ends a session
\* (run gdb_resend) begins with a character of a command that was lost or damaged.
THEOREM Unrefused == ASSUME PlainCommands PROVE Spec /\ [][Spares]_vars => []~refused
    <1>1. TypeInv /\ [Next]_vars => TypeInv'
        BY TypeStep
    <1>2. TypeInv /\ LineInv /\ [Next]_vars /\ [Spares]_vars => LineInv'
        BY LineStep
    <1>3. Init => TypeInv /\ LineInv
        BY TypeInit, LineInit
    <1>4. LineInv => ~refused
        BY DEF LineInv, ReplyInv
    <1> QED
        BY <1>1, <1>2, <1>3, <1>4, PTL DEF Spec

=============================================================================
