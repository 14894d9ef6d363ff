----------------------------- MODULE TraceProofs -----------------------------
(***************************************************************************)
(* Theorems about util/trace.c for any number of CPUs, any lines, and any  *)
(* widths of int and long.                                                 *)
(***************************************************************************)
EXTENDS Trace, WellFoundedInduction, TLAPS

\* What is put out: the texts of the callers and the characters of kvcprintf().
Char == STRING \cup {Digits[i] : i \in 1 .. 16}
               \cup {" ", "-", NUL, Newline, "d", "r", "."} \cup {Units[i] : i \in 1 .. 4}

Limit == 2 ^ LongBits

\* The conversions, and the ones that those of %S turn into.
Piece ==
    [conv : Numeric \cup {"S"}, wide : BOOLEAN, padding : Nat, zero : BOOLEAN,
     arg : 0 .. Limit - 1]
    \cup [conv : {"text"}, text : Seq(Char)]

Num == [i : 0 .. Limit - 1, base : {2, 10, 16}, padding : Nat, pad : {" ", "0"},
        neg : BOOLEAN, len : Int]

\* Where num_fmt() writes to its buffer, and where kvcprintf() is.
Writing == {"digit", "pad", "number"}
Printing == Writing \cup {"next", "put"}

Label == {"idle", "lock", "wait", "unlock", "halted"} \cup Printing
Kind == {"line", "string", "rethrow", "dump"}
Buffer == [room : Nat, buffer : Seq(Char), given : Seq(Char), size : Nat]

\* In the middle of a conversion it is the first that is left.
Converting(p, f, n) ==
    /\ p \in Writing \cup {"put"} => f # <<>>
    /\ p \in Writing => Head(f).conv # "text" /\ n \in Num

TypeInv ==
    /\ holder \in CPU \cup {NoCPU} /\ open \in CPU \cup {NoCPU}
    /\ pc \in [CPU -> Label] /\ kind \in [CPU -> Kind]
    /\ fmt \in [CPU -> Seq(Piece)] /\ str \in [CPU -> Seq(Char)]
    /\ num \in [CPU -> Num \cup {NoNumber}] /\ ctx \in [CPU -> Buffer]
    /\ \A c \in CPU : Converting(pc[c], fmt[c], num[c])

\* The tickets of those who wait are drawn, each by one CPU, and none of them is
\* the one that is served while the lock is taken.  What an exception left
\* behind is nobody's.
TicketInv ==
    /\ next_ticket \in Nat /\ now_serving \in Nat /\ ticket \in [CPU -> Nat]
    /\ \A c \in CPU : pc[c] = "wait" => ticket[c] < next_ticket
    /\ \A c, d \in CPU : pc[c] = "wait" /\ pc[d] = "wait" /\ ticket[c] = ticket[d] => c = d
    /\ holder # NoCPU =>
          /\ now_serving < next_ticket
          /\ \A c \in CPU : pc[c] = "wait" => ticket[c] # now_serving

\* A string, and a format, whose last character is the end of a line.
EndsLine(s) == s # <<>> /\ s[Len(s)] = Newline
Terminated(f) == f # <<>> /\ f[Len(f)].conv = "text" /\ EndsLine(f[Len(f)].text)

\* Who prints a line has the lock, and the serial line is within a line
\* until the last character of the last conversion is out.
LineOf(c, p, k, f, s, h, o) ==
    /\ p = "unlock" => k \in {"line", "rethrow"}
    /\ k \in {"line", "rethrow"} =>
          /\ p \in Printing \cup {"unlock"} => h = c
          /\ p = "unlock" => o = NoCPU
          /\ p \in Writing \cup {"lock", "wait", "put"} => Terminated(f)
          /\ p = "next" => IF f = <<>> THEN o = NoCPU ELSE Terminated(f)
          /\ p = "put" /\ Len(f) = 1 => IF s = <<>> THEN o = NoCPU ELSE EndsLine(s)

LineInv ==
    /\ open # NoCPU => holder = open
    /\ \A c \in CPU : LineOf(c, pc[c], kind[c], fmt[c], str[c], holder, open)

\* num_buf has room for the longest number in binary, and for the paddings
\* that the formats ask for.
PaddingsFit(f) == \A i \in 1 .. Len(f) : f[i].conv # "text" => f[i].padding + 1 < NumBuf

NumBufFits ==
    /\ LongBits < NumBuf
    /\ \A f \in Lines : PaddingsFit(f)
    /\ \A s \in Strings : PaddingsFit(s[1])

\* A number is less than what the digits that may still come can denote.
Bits(n) == IF n.neg THEN IntBits ELSE LongBits

NumberOf(p, f, s, n) ==
    /\ PaddingsFit(f)
    /\ p = "digit" => Len(s) < Bits(n) /\ n.i < 2 ^ (Bits(n) - Len(s))
    /\ p \in {"digit", "pad"} /\ n.padding > 0 => Len(s) + n.padding + 1 < NumBuf
    /\ p = "pad" => Len(s) <= Bits(n) \/ Len(s) + 1 < NumBuf
    /\ p = "number" => Len(s) < NumBuf

NumberInv == \A c \in CPU : NumberOf(pc[c], fmt[c], str[c], num[c])

\* A buffer has what it was given, as far as there is room.
Buffered(x) ==
    LET n == Len(x.given)
    IN  /\ x.size = 0 => x.room = 0 /\ x.buffer = <<>>
        /\ n < x.size => x.room = x.size - n /\ x.buffer = x.given
        /\ n >= x.size /\ x.size > 0 =>
              x.room = 0 /\ x.buffer = Append(SubSeq(x.given, 1, x.size - 1), NUL)

BufferInv == \A c \in CPU : Buffered(ctx[c])

\* The characters of a number before its sign, and how many bits a digit has.
Numerals == {Digits[i] : i \in 1 .. 16} \cup {" "}
DigitBits(base) == IF base = 2 THEN 1 ELSE 4

Negative(f) == f.conv = "d" /\ Signed(f.arg) < 0

\* The digits still to come complete those there are to a number m.  If their
\* count is limited they come from the lower part w of i; the upper part is
\* that of a negative int, whose last bit within the limit is then set.
ToCome(s, n, m) ==
    IF n.base = 10 THEN n.len = -1 /\ Denoted(n.i, s, 10) = m
    ELSE LET bits == DigitBits(n.base) * n.len
         IN  /\ n.len > 0 /\ bits <= LongBits
             /\ \E u \in Nat, w \in Nat :
                   /\ n.i = 2 ^ bits * u + w /\ w < 2 ^ bits
                   /\ u # 0 => w >= 2 ^ (bits - 1)
                   /\ Denoted(w, s, n.base) = m

\* Not longer than it has to be.
Short(s, padding) == Len(s) > padding /\ Len(s) > 1 => s[1] # "0"

ValueOf(p, f, s, n) ==
    /\ n.base = Base(f) /\ n.neg = Negative(f)
    /\ p \in {"digit", "pad"} =>
          /\ s \in Seq(Numerals) /\ Len(s) + n.padding >= f.padding
          /\ n.padding > 0 => Len(s) + n.padding = f.padding
    /\ p = "digit" => (s # <<>> => n.i # 0) /\ ToCome(s, n, Magnitude(f))
    /\ p = "pad" => s # <<>> /\ Denoted(0, s, n.base) = Magnitude(f) /\ Short(s, f.padding)
    /\ p = "number" =>
          LET t == IF n.neg THEN Tail(s) ELSE s
          IN  /\ (s[1] = "-") = n.neg /\ Denoted(0, t, n.base) = Magnitude(f)
              /\ Len(t) >= f.padding /\ Short(t, f.padding)

ValueInv ==
    \A c \in CPU :
        pc[c] \in Writing /\ Printable(Head(fmt[c])) =>
            ValueOf(pc[c], Head(fmt[c]), str[c], num[c])

\* A hexadecimal digit stands for four bits: the widths are whole digits.
WholeDigits == IntBits % 4 = 0 /\ LongBits % 4 = 0

-----------------------------------------------------------------------------
(* Lemmas about numbers                                                    *)

\* A set of numbers has a least one.
LEMMA Least ==
    ASSUME NEW S \in SUBSET Nat, S # {}
    PROVE  \E n \in S : \A m \in S : n <= m
    <1> DEFINE R == OpToRel(<, Nat)
    <1>1. IsWellFoundedOn(R, Nat)
        BY NatLessThanWellFounded
    <1> HIDE DEF R
    <1>2. PICK n \in S : \A m \in S : <<m, n>> \notin R
        BY <1>1, WFMin, Zenon
    <1>3. \A m \in S : ~(m < n)
        BY <1>2 DEF R, OpToRel
    <1> QED
        BY <1>3

LEMMA Widths == /\ IntBits \in Nat /\ LongBits \in Nat /\ NumBuf \in Nat /\ Kilo \in Nat
                /\ IntBits > 0 /\ IntBits < LongBits /\ Kilo > 1
    BY TraceAssumption

LEMMA Power ==
    ASSUME NEW n \in 0 .. LongBits
    PROVE  2 ^ n \in Nat /\ 2 ^ n > 0 /\ 2 ^ (n + 1) = 2 * 2 ^ n
    BY PowerAssumption

\* By induction: the least n with 2 ^ (m + n) < 2 ^ m would have a predecessor.
LEMMA Monotone ==
    ASSUME NEW m \in 0 .. LongBits, NEW n \in m .. LongBits
    PROVE  2 ^ m <= 2 ^ n
    <1> DEFINE S == {k \in Nat : m + k <= LongBits /\ 2 ^ (m + k) < 2 ^ m}
    <1>0. m \in Nat /\ LongBits \in Nat
        BY Widths
    <1>1. S = {}
        <2> SUFFICES ASSUME S # {} PROVE FALSE
            OBVIOUS
        <2>1. PICK k \in S : \A j \in S : k <= j
            BY Least
        <2>2. k \in Nat /\ m + k <= LongBits /\ 2 ^ (m + k) < 2 ^ m
            OBVIOUS
        <2>3. k # 0
            <3> SUFFICES ASSUME k = 0 PROVE FALSE
                OBVIOUS
            <3>1. m + k = m
                BY <1>0
            <3>2. 2 ^ m < 2 ^ m
                BY <2>2, <3>1
            <3> QED
                BY <3>2, Power
        <2>4. k - 1 \in Nat /\ m + (k - 1) \in 0 .. LongBits /\ m + (k - 1) + 1 = m + k
            BY <1>0, <2>2, <2>3
        <2>5. k - 1 \notin S
            BY <2>1, <2>2, <2>4
        <2>6. ~(2 ^ (m + (k - 1)) < 2 ^ m)
            BY <1>0, <2>4, <2>5
        <2>7. 2 ^ (m + k) = 2 * 2 ^ (m + (k - 1)) /\ 2 ^ (m + (k - 1)) \in Nat
              /\ 2 ^ (m + (k - 1)) > 0
            BY <2>4, Power
        <2>8. 2 ^ m \in Nat
            BY Power
        <2> QED
            BY <2>2, <2>6, <2>7, <2>8
    <1>2. n - m \in Nat /\ m + (n - m) = n /\ n <= LongBits
        BY <1>0
    <1>3. n - m \notin S
        BY <1>1
    <1>4. ~(2 ^ n < 2 ^ m)
        BY <1>2, <1>3
    <1>5. 2 ^ m \in Nat /\ 2 ^ n \in Nat
        <2>1. n \in 0 .. LongBits
            BY <1>0
        <2> QED
            BY <2>1, Power
    <1> QED
        BY <1>4, <1>5

\* An int's limit is within a long's.
LEMMA Limits ==
    /\ Limit \in Nat /\ 2 ^ IntBits \in Nat /\ 2 ^ (IntBits - 1) \in Nat
    /\ 0 < 2 ^ (IntBits - 1) /\ 2 ^ IntBits = 2 * 2 ^ (IntBits - 1)
    /\ 2 ^ IntBits <= Limit
    <1>1. IntBits - 1 \in 0 .. LongBits /\ IntBits \in 0 .. LongBits
          /\ LongBits \in IntBits .. LongBits /\ LongBits \in 0 .. LongBits
          /\ (IntBits - 1) + 1 = IntBits
        BY Widths
    <1>2. 2 ^ IntBits <= 2 ^ LongBits
        BY <1>1, Monotone
    <1>3. /\ 2 ^ (IntBits - 1) \in Nat /\ 0 < 2 ^ (IntBits - 1)
          /\ 2 ^ ((IntBits - 1) + 1) = 2 * 2 ^ (IntBits - 1)
        BY <1>1, Power
    <1>4. 2 ^ IntBits \in Nat /\ 2 ^ LongBits \in Nat
        BY <1>1, Power
    <1> QED
        BY <1>1, <1>2, <1>3, <1>4 DEF Limit

LEMMA Quotient ==
    ASSUME NEW a \in Nat, NEW b \in Nat, b > 1
    PROVE  /\ a \div b \in Nat /\ a \div b <= a /\ 2 * (a \div b) <= a
           /\ a % b \in 0 .. b - 1
    OBVIOUS

LEMMA Pieces ==
    ASSUME NEW f \in Piece, f.conv # "text"
    PROVE  /\ f.conv \in Numeric \cup {"S"} /\ f.wide \in BOOLEAN /\ f.padding \in Nat
           /\ f.zero \in BOOLEAN /\ f.arg \in 0 .. Limit - 1
    BY DEF Piece

\* The argument of a conversion, the int ones after their sign extension.
LEMMA Args ==
    ASSUME NEW f \in Piece, f.conv # "text"
    PROVE  Arg(f) \in 0 .. Limit - 1
    <1> DEFINE v == f.arg % 2 ^ IntBits
    <1>1. f.arg \in 0 .. Limit - 1 /\ f.arg \in Nat
        BY Pieces, Limits
    <1>2. 2 ^ IntBits > 1
        BY Limits
    <1>3. v \in 0 .. 2 ^ IntBits - 1
        BY <1>1, <1>2, Limits, Quotient
    <1>4. IntArg(f.arg) = IF v >= 2 ^ (IntBits - 1) THEN v + Limit - 2 ^ IntBits ELSE v
        BY DEF IntArg, Limit
    <1> HIDE DEF v
    <1>5. IntArg(f.arg) \in 0 .. Limit - 1
        <2>1. CASE v >= 2 ^ (IntBits - 1)
            BY <2>1, <1>3, <1>4, Limits
        <2>2. CASE ~(v >= 2 ^ (IntBits - 1))
            BY <2>2, <1>3, <1>4, Limits
        <2> QED
            BY <2>1, <2>2
    <1> QED
        BY <1>1, <1>5 DEF Arg

\* What num_fmt() makes of a negative int.
LEMMA Negated ==
    ASSUME NEW f \in Piece, f.conv # "text", Signed(Arg(f)) < 0
    PROVE  (- Signed(Arg(f))) % 2 ^ IntBits \in 0 .. 2 ^ IntBits - 1
    <1>1. Arg(f) \in Nat
        BY Args, Limits
    <1>2. 2 ^ IntBits \in Nat /\ 2 ^ IntBits > 1
        BY Limits
    <1>3. Arg(f) % 2 ^ IntBits \in 0 .. 2 ^ IntBits - 1
        BY <1>1, <1>2, Quotient
    <1>4. Signed(Arg(f)) \in Int
        BY <1>2, <1>3 DEF Signed
    <1>5. - Signed(Arg(f)) \in Nat
        BY <1>4
    <1> QED
        BY <1>2, <1>5, Quotient

LEMMA Sizes ==
    ASSUME NEW i \in 0 .. Limit - 1, NEW d \in 1 .. 5
    PROVE  Scaled(i)[d] \in 0 .. Limit - 1
    <1> DEFINE i1 == i \div Kilo
               i2 == i1 \div Kilo
               i3 == i2 \div Kilo
               i4 == i3 \div Kilo
    <1>1. i \in Nat /\ Kilo \in Nat /\ Kilo > 1 /\ Limit \in Nat
        BY Widths, Limits
    <1>2. i1 \in Nat /\ i1 <= i
        BY <1>1, Quotient
    <1>3. i2 \in Nat /\ i2 <= i1
        BY <1>1, <1>2, Quotient
    <1>4. i3 \in Nat /\ i3 <= i2
        BY <1>1, <1>3, Quotient
    <1>5. i4 \in Nat /\ i4 <= i3
        BY <1>1, <1>4, Quotient
    <1>6. Scaled(i) = <<i, i1, i2, i3, i4>>
        BY DEF Scaled
    <1> HIDE DEF i1, i2, i3, i4
    <1>7. {i, i1, i2, i3, i4} \subseteq 0 .. Limit - 1
        BY <1>1, <1>2, <1>3, <1>4, <1>5
    <1>8. d = 1 \/ d = 2 \/ d = 3 \/ d = 4 \/ d = 5
        OBVIOUS
    <1> QED
        BY <1>6, <1>7, <1>8

-----------------------------------------------------------------------------
(* Types                                                                   *)

LEMMA Tails ==
    ASSUME NEW V, NEW s \in Seq(V), s # <<>>
    PROVE  /\ Len(s) \in Nat \ {0} /\ Head(s) \in V /\ Head(s) = s[1]
           /\ Tail(s) \in Seq(V) /\ Len(Tail(s)) = Len(s) - 1
           /\ \A i \in 1 .. Len(s) - 1 : Tail(s)[i] = s[i + 1]
    OBVIOUS

LEMMA Appended ==
    ASSUME NEW V, NEW s \in Seq(V), NEW a \in V
    PROVE  /\ Append(s, a) \in Seq(V) /\ Len(Append(s, a)) = Len(s) + 1
           /\ Append(s, a)[Len(s) + 1] = a /\ Append(s, a) # <<>>
           /\ \A i \in 1 .. Len(s) : Append(s, a)[i] = s[i]
    OBVIOUS

LEMMA Fronted ==
    ASSUME NEW V, NEW s \in Seq(V), NEW a \in V
    PROVE  /\ <<a>> \o s \in Seq(V) /\ Len(<<a>> \o s) = Len(s) + 1
    OBVIOUS

LEMMA WiderSeq ==
    ASSUME NEW A, NEW B, A \subseteq B
    PROVE  Seq(A) \subseteq Seq(B)
    OBVIOUS

LEMMA Chars ==
    /\ \A i \in 1 .. 16 : Digits[i] \in Char
    /\ \A i \in 1 .. 4 : Units[i] \in Char
    /\ {" ", "0", "-", NUL, Newline, "d", "r", "."} \subseteq Char
    /\ Seq(STRING) \subseteq Seq(Char)
    <1>1. "0" = Digits[1]
        BY DEF Digits
    <1>2. STRING \subseteq Char
        BY DEF Char
    <1>3. Seq(STRING) \subseteq Seq(Char)
        BY <1>2, WiderSeq, Zenon
    <1>4. \A i \in 1 .. 16 : Digits[i] \in Char
        BY Zenon DEF Char
    <1>5. \A i \in 1 .. 4 : Units[i] \in Char
        BY Zenon DEF Char
    <1>6. "0" \in Char
        <2>1. 1 \in 1 .. 16
            OBVIOUS
        <2> QED
            BY <2>1, <1>1, <1>4, Zenon
    <1>7. {" ", "-", NUL, Newline, "d", "r", "."} \subseteq Char
        BY DEF Char
    <1> QED
        BY <1>3, <1>4, <1>5, <1>6, <1>7

LEMMA Texts ==
    ASSUME NEW s \in Seq(Char)
    PROVE  Text(s) \in Piece /\ Text(s).conv = "text" /\ Text(s).text = s
    BY DEF Text, Piece

\* Whatever %S takes for a unit is a text.
LEMMA UnitTexts ==
    ASSUME NEW d \in 0 .. 4, NEW unit \in Unit(d)
    PROVE  unit \in Seq(Char)
    <1>1. Len(Units) = 4
        BY DEF Units
    <1>2. CASE d < 4
        <2>1. unit = <<Units[d + 1]>>
            BY <1>1, <1>2 DEF Unit
        <2>2. d + 1 \in 1 .. 4
            BY <1>2
        <2>3. Units[d + 1] \in Char
            BY <2>2, Chars, Zenon
        <2> QED
            BY <2>1, <2>3
    <1>3. CASE ~(d < 4)
        <2>1. unit \in Beyond
            BY <1>1, <1>3 DEF Unit
        <2>2. Beyond \subseteq Seq(STRING)
            BY TraceAssumption, Zenon
        <2>3. Seq(STRING) \subseteq Seq(Char)
            BY Chars
        <2> QED
            BY <2>1, <2>2, <2>3, Zenon
    <1> QED
        BY <1>2, <1>3

LEMMA Formats == Seq(Conversion) \subseteq Seq(Piece)
    <1>1. Conversion \subseteq Piece
        BY Chars DEF Conversion, Piece, Limit
    <1> QED
        BY <1>1

LEMMA Plains ==
    ASSUME NEW n \in 0 .. Limit - 1
    PROVE  Plain(n) \in Piece /\ Plain(n).conv # "text" /\ Plain(n).padding = 0
    BY DEF Plain, Piece, Numeric

\* The number that the conversion at hand asks num_fmt() for.
Asked(f) ==
    LET i == Arg(f)
        neg == f.conv = "d" /\ Signed(i) < 0
    IN  [i |-> IF neg THEN (- Signed(i)) % 2 ^ IntBits ELSE i, base |-> Base(f),
         padding |-> f.padding, pad |-> IF f.zero THEN "0" ELSE " ",
         neg |-> neg, len |-> Length(f)]

LEMMA Requests ==
    ASSUME NEW f \in Piece, f.conv \in Numeric
    PROVE  /\ Asked(f) \in Num /\ Asked(f).i < 2 ^ Bits(Asked(f))
           /\ Asked(f).padding = f.padding
    <1> DEFINE neg == f.conv = "d" /\ Signed(Arg(f)) < 0
               n == Asked(f)
    <1>1. f.conv # "text"
        BY DEF Numeric
    <1>2. /\ f.padding \in Nat /\ Arg(f) \in 0 .. Limit - 1
          /\ Limit \in Nat /\ 2 ^ IntBits \in Nat /\ 2 ^ IntBits <= Limit
        BY <1>1, Pieces, Args, Limits
    <1>3. neg => (- Signed(Arg(f))) % 2 ^ IntBits \in 0 .. 2 ^ IntBits - 1
        BY <1>1, Negated
    <1>4. /\ n.i = IF neg THEN (- Signed(Arg(f))) % 2 ^ IntBits ELSE Arg(f)
          /\ n.neg = neg /\ n.padding = f.padding /\ n.base = Base(f) /\ n.len = Length(f)
          /\ n.pad = IF f.zero THEN "0" ELSE " "
        BY DEF Asked
    <1>5. Base(f) \in {2, 10, 16}
        BY DEF Base
    <1>6. Length(f) \in Int
        <2>1. /\ LongBits \in Nat /\ IntBits \in Nat
              /\ LongBits \div 4 \in Nat /\ IntBits \div 4 \in Nat
            <3>1. LongBits \in Nat /\ IntBits \in Nat /\ 4 \in Nat /\ 4 > 1
                BY Widths
            <3> QED
                BY <3>1, Quotient, Zenon
        <2>2. /\ LongBits \in Int /\ IntBits \in Int /\ -1 \in Int
              /\ LongBits \div 4 \in Int /\ IntBits \div 4 \in Int
            <3>1. -1 \in Int /\ \A k \in Nat : k \in Int
                OBVIOUS
            <3> QED
                BY <2>1, <3>1, Zenon
        <2> QED
            BY <2>2, Zenon DEF Length
    <1>7. neg \in BOOLEAN
        OBVIOUS
    <1>8. n = [i |-> n.i, base |-> n.base, padding |-> n.padding, pad |-> n.pad,
               neg |-> n.neg, len |-> n.len]
        BY DEF Asked
    <1> HIDE DEF neg, n
    <1>9. n.i \in 0 .. Limit - 1 /\ (neg => n.i < 2 ^ IntBits)
        <2>1. CASE neg
            <3>1. n.i \in 0 .. 2 ^ IntBits - 1
                BY <2>1, <1>3, <1>4
            <3> QED
                BY <3>1, <1>2
        <2>2. CASE ~neg
            <3>1. n.i \in 0 .. Limit - 1
                BY <2>2, <1>2, <1>4
            <3> QED
                BY <2>2, <3>1
        <2> QED
            BY <2>1, <2>2
    <1>10. n \in Num
        BY <1>2, <1>4, <1>5, <1>6, <1>7, <1>8, <1>9 DEF Num
    <1>11. n.i < 2 ^ Bits(n)
        <2>1. CASE neg
            <3>1. n.neg
                BY <2>1, <1>4, Zenon
            <3>2. Bits(n) = IntBits
                BY <3>1, Zenon DEF Bits
            <3> QED
                BY <2>1, <3>2, <1>9
        <2>2. CASE ~neg
            <3>1. ~n.neg
                BY <2>2, <1>4, Zenon
            <3>2. Bits(n) = LongBits
                BY <3>1, Zenon DEF Bits
            <3> QED
                BY <3>2, <1>2, <1>9 DEF Limit
        <2> QED
            BY <2>1, <2>2
    <1> QED
        BY <1>4, <1>10, <1>11 DEF n

\* The variables of one CPU, as they are and after a step of it.
Typed(p, k, f, s, n, x) ==
    /\ p \in Label /\ k \in Kind /\ f \in Seq(Piece) /\ s \in Seq(Char)
    /\ n \in Num \cup {NoNumber} /\ x \in Buffer
    /\ Converting(p, f, n)

Does(c, p, k, f, s, n, x) ==
    /\ pc' = [pc EXCEPT ![c] = p] /\ kind' = [kind EXCEPT ![c] = k]
    /\ fmt' = [fmt EXCEPT ![c] = f] /\ str' = [str EXCEPT ![c] = s]
    /\ num' = [num EXCEPT ![c] = n] /\ ctx' = [ctx EXCEPT ![c] = x]

LEMMA Of ==
    ASSUME TypeInv, NEW c \in CPU
    PROVE  Typed(pc[c], kind[c], fmt[c], str[c], num[c], ctx[c])
    BY DEF TypeInv, Typed

LEMMA Unchanged ==
    ASSUME TypeInv, NEW c \in CPU
    PROVE  /\ pc = [pc EXCEPT ![c] = pc[c]] /\ kind = [kind EXCEPT ![c] = kind[c]]
           /\ fmt = [fmt EXCEPT ![c] = fmt[c]] /\ str = [str EXCEPT ![c] = str[c]]
           /\ num = [num EXCEPT ![c] = num[c]] /\ ctx = [ctx EXCEPT ![c] = ctx[c]]
    BY DEF TypeInv

LEMMA Afterwards ==
    ASSUME TypeInv, NEW c \in CPU, NEW p, NEW k, NEW f, NEW s, NEW n, NEW x,
           Does(c, p, k, f, s, n, x)
    PROVE  /\ pc'[c] = p /\ kind'[c] = k /\ fmt'[c] = f
           /\ str'[c] = s /\ num'[c] = n /\ ctx'[c] = x
           /\ \A d \in CPU \ {c} :
                 /\ pc'[d] = pc[d] /\ kind'[d] = kind[d] /\ fmt'[d] = fmt[d]
                 /\ str'[d] = str[d] /\ num'[d] = num[d] /\ ctx'[d] = ctx[d]
    BY DEF TypeInv, Does

LEMMA TypesAt ==
    ASSUME TypeInv, NEW c \in CPU, NEW p, NEW k, NEW f, NEW s, NEW n, NEW x,
           Does(c, p, k, f, s, n, x), Typed(p, k, f, s, n, x),
           holder' \in CPU \cup {NoCPU}, open' \in CPU \cup {NoCPU}
    PROVE  TypeInv'
    <1>1. pc' \in [CPU -> Label] /\ kind' \in [CPU -> Kind]
        BY DEF TypeInv, Does, Typed
    <1>2. fmt' \in [CPU -> Seq(Piece)] /\ str' \in [CPU -> Seq(Char)]
        BY DEF TypeInv, Does, Typed
    <1>3. num' \in [CPU -> Num \cup {NoNumber}] /\ ctx' \in [CPU -> Buffer]
        BY DEF TypeInv, Does, Typed
    <1>4. ASSUME NEW d \in CPU PROVE Converting(pc'[d], fmt'[d], num'[d])
        <2>1. CASE d = c
            BY <2>1, Afterwards DEF Typed
        <2>2. CASE d # c
            BY <2>2, Afterwards DEF TypeInv
        <2> QED
            BY <2>1, <2>2
    <1>5. \A d \in CPU : Converting(pc[d], fmt[d], num[d])'
        BY <1>4 DEF Converting
    <1> QED
        BY <1>1, <1>2, <1>3, <1>5 DEF TypeInv

\* What the lines of the others rely on stays, or none of them prints one.
LEMMA LinesAt ==
    ASSUME TypeInv, LineInv, NEW c \in CPU,
           NEW p, NEW k, NEW f, NEW s, NEW n, NEW x, Does(c, p, k, f, s, n, x),
           LineOf(c, p, k, f, s, holder', open'),
           open' # NoCPU => holder' = open',
           (holder' = holder /\ open' = open) \/ holder \in {NoCPU, c}
    PROVE  LineInv'
    <1>1. ASSUME NEW d \in CPU
          PROVE  LineOf(d, pc'[d], kind'[d], fmt'[d], str'[d], holder', open')
        <2>1. CASE d = c
            BY <2>1, Afterwards
        <2>2. CASE d # c
            <3>1. /\ pc'[d] = pc[d] /\ kind'[d] = kind[d] /\ fmt'[d] = fmt[d]
                  /\ str'[d] = str[d]
                BY <2>2, Afterwards
            <3>2. LineOf(d, pc[d], kind[d], fmt[d], str[d], holder, open)
                BY DEF LineInv
            <3>3. CASE holder' = holder /\ open' = open
                BY <3>1, <3>2, <3>3
            <3>4. CASE holder \in {NoCPU, c}
                <4>1. holder # d
                    BY <2>2, <3>4, TraceAssumption
                <4>2. ~(kind[d] \in {"line", "rethrow"} /\ pc[d] \in Printing \cup {"unlock"})
                    BY <3>2, <4>1, Zenon DEF LineOf
                <4>3. pc[d] # "unlock"
                    BY <3>2, <4>2 DEF LineOf
                <4>4. {"next", "put", "unlock"} \cup Writing \subseteq Printing \cup {"unlock"}
                    BY DEF Printing
                <4>5. LineOf(d, pc[d], kind[d], fmt[d], str[d], holder', open')
                    BY <3>2, <4>2, <4>3, <4>4 DEF LineOf
                <4> QED
                    BY <3>1, <4>5
            <3> QED
                BY <3>3, <3>4
        <2> QED
            BY <2>1, <2>2
    <1> QED
        BY <1>1 DEF LineInv, LineOf, Terminated, EndsLine

LEMMA NumbersAt ==
    ASSUME TypeInv, NumberInv, NEW c \in CPU,
           NEW p, NEW k, NEW f, NEW s, NEW n, NEW x, Does(c, p, k, f, s, n, x),
           NumberOf(p, f, s, n)
    PROVE  NumberInv'
    <1>1. ASSUME NEW d \in CPU PROVE NumberOf(pc'[d], fmt'[d], str'[d], num'[d])
        <2>1. CASE d = c
            BY <2>1, Afterwards
        <2>2. CASE d # c
            BY <2>2, Afterwards DEF NumberInv
        <2> QED
            BY <2>1, <2>2
    <1> QED
        BY <1>1 DEF NumberInv, NumberOf, PaddingsFit, Bits

LEMMA BuffersAt ==
    ASSUME TypeInv, BufferInv, NEW c \in CPU,
           NEW p, NEW k, NEW f, NEW s, NEW n, NEW x, Does(c, p, k, f, s, n, x),
           Buffered(x)
    PROVE  BufferInv'
    <1>1. ASSUME NEW d \in CPU PROVE Buffered(ctx'[d])
        <2>1. CASE d = c
            BY <2>1, Afterwards
        <2>2. CASE d # c
            BY <2>2, Afterwards DEF BufferInv
        <2> QED
            BY <2>1, <2>2
    <1> QED
        BY <1>1 DEF BufferInv, Buffered

-----------------------------------------------------------------------------
(* What each step does                                                     *)

\* A step of a CPU that leaves the variables of the others.
LEMMA Lined ==
    ASSUME TypeInv, NEW c \in CPU, NEW f \in Lines, Line(c, f)
    PROVE  LET g == Append(f, Text(<<Newline>>))
           IN  /\ Does(c, "lock", "line", g, str[c], num[c], ctx[c])
               /\ Typed("lock", "line", g, str[c], num[c], ctx[c])
               /\ Terminated(g) /\ holder' = holder /\ open' = open
               /\ PaddingsFit(f) => PaddingsFit(g)
    <1> DEFINE t == Text(<<Newline>>)
               g == Append(f, t)
    <1>1. f \in Seq(Piece)
        BY Formats, TraceAssumption
    <1>2. t \in Piece /\ t.conv = "text" /\ EndsLine(t.text)
        <2>1. Newline \in Char
            BY Chars
        <2>2. <<Newline>> \in Seq(Char) /\ EndsLine(<<Newline>>)
            BY <2>1 DEF EndsLine
        <2> QED
            BY <2>2, Texts
    <1> HIDE DEF t
    <1>3. /\ g \in Seq(Piece) /\ Len(g) = Len(f) + 1 /\ g[Len(f) + 1] = t /\ g # <<>>
          /\ \A i \in 1 .. Len(f) : g[i] = f[i]
        BY <1>1, <1>2, Appended
    <1> HIDE DEF g
    <1>4. Terminated(g)
        BY <1>2, <1>3 DEF Terminated
    <1>5. Does(c, "lock", "line", g, str[c], num[c], ctx[c])
        BY Unchanged DEF Line, Goto, Does, g, t
    <1>6. Typed("lock", "line", g, str[c], num[c], ctx[c])
        BY <1>3, Of DEF Typed, Converting, Label, Kind, Printing, Writing
    <1>7. holder' = holder /\ open' = open
        BY DEF Line
    <1>8. ASSUME PaddingsFit(f) PROVE PaddingsFit(g)
        <2>1. Len(f) \in Nat
            BY <1>1
        <2>2. ASSUME NEW i \in 1 .. Len(g), g[i].conv # "text"
              PROVE  g[i].padding + 1 < NumBuf
            <3>1. i \in 1 .. Len(f) \/ i = Len(f) + 1
                BY <2>1, <1>3
            <3> QED
                BY <3>1, <2>2, <1>2, <1>3, <1>8 DEF PaddingsFit
        <2> QED
            BY <2>2 DEF PaddingsFit
    <1> QED
        BY <1>4, <1>5, <1>6, <1>7, <1>8 DEF g, t

LEMMA Stringed ==
    ASSUME TypeInv, NEW c \in CPU, NEW s \in Strings, String(c, s[1], s[2])
    PROVE  LET x == [room |-> s[2], buffer |-> <<>>, given |-> <<>>, size |-> s[2]]
           IN  /\ Does(c, "next", "string", s[1], str[c], num[c], x)
               /\ Typed("next", "string", s[1], str[c], num[c], x)
               /\ holder' = holder /\ open' = open /\ s[2] \in Nat
    <1> DEFINE x == [room |-> s[2], buffer |-> <<>>, given |-> <<>>, size |-> s[2]]
    <1>1. s[1] \in Seq(Piece) /\ s[2] \in Nat
        BY Formats, TraceAssumption
    <1>2. x \in Buffer
        BY <1>1 DEF Buffer
    <1>3. Does(c, "next", "string", s[1], str[c], num[c], x)
        BY Unchanged DEF String, Goto, Does
    <1> HIDE DEF x
    <1>4. Typed("next", "string", s[1], str[c], num[c], x)
        BY <1>1, <1>2, Of DEF Typed, Converting, Label, Kind, Printing, Writing
    <1>5. holder' = holder /\ open' = open
        BY DEF String
    <1> QED
        BY <1>1, <1>3, <1>4, <1>5 DEF x

LEMMA Drawn ==
    ASSUME TypeInv, NEW c \in CPU, Draw(c)
    PROVE  /\ Does(c, "wait", kind[c], fmt[c], str[c], num[c], ctx[c])
           /\ Typed("wait", kind[c], fmt[c], str[c], num[c], ctx[c])
           /\ pc[c] = "lock" /\ holder' = holder /\ open' = open
    <1>1. Does(c, "wait", kind[c], fmt[c], str[c], num[c], ctx[c])
        BY Unchanged DEF Draw, Goto, Does
    <1>2. Typed("wait", kind[c], fmt[c], str[c], num[c], ctx[c])
        BY Of DEF Typed, Converting, Label, Printing, Writing
    <1> QED
        BY <1>1, <1>2 DEF Draw

LEMMA Locked ==
    ASSUME TypeInv, NEW c \in CPU, Lock(c)
    PROVE  /\ Does(c, "next", kind[c], fmt[c], str[c], num[c], ctx[c])
           /\ Typed("next", kind[c], fmt[c], str[c], num[c], ctx[c])
           /\ pc[c] = "wait" /\ now_serving = ticket[c] /\ holder' = c /\ open' = open
    <1>1. Does(c, "next", kind[c], fmt[c], str[c], num[c], ctx[c])
        BY Unchanged DEF Lock, Goto, Does
    <1>2. Typed("next", kind[c], fmt[c], str[c], num[c], ctx[c])
        BY Of DEF Typed, Converting, Label, Printing, Writing
    <1> QED
        BY <1>1, <1>2 DEF Lock

\* The lines of kernel_exception_handler() and common_exception_handler().
LEMMA Reports ==
    ASSUME NEW ch \in {"d", "r"}
    PROVE  LET f == <<Text(<<ch, Newline>>)>>
           IN  f \in Seq(Piece) /\ Terminated(f) /\ PaddingsFit(f)
    <1> DEFINE t == Text(<<ch, Newline>>)
    <1>1. ch \in Char /\ Newline \in Char
        BY Chars
    <1>2. <<ch, Newline>> \in Seq(Char) /\ EndsLine(<<ch, Newline>>)
        BY <1>1 DEF EndsLine
    <1>3. t \in Piece /\ t.conv = "text" /\ EndsLine(t.text)
        BY <1>2, Texts
    <1> HIDE DEF t
    <1>4. <<t>> \in Seq(Piece) /\ Terminated(<<t>>) /\ PaddingsFit(<<t>>)
        BY <1>3 DEF Terminated, PaddingsFit
    <1> QED
        BY <1>4 DEF t

LEMMA Unlocked ==
    ASSUME TypeInv, NEW c \in CPU, Unlock(c)
    PROVE  /\ \/ /\ Does(c, "next", "dump", Dump, str[c], num[c], ctx[c])
                 /\ Typed("next", "dump", Dump, str[c], num[c], ctx[c])
              \/ /\ Does(c, "idle", kind[c], fmt[c], str[c], num[c], ctx[c])
                 /\ Typed("idle", kind[c], fmt[c], str[c], num[c], ctx[c])
           /\ pc[c] = "unlock" /\ holder' = NoCPU /\ open' = open
    <1>1. CASE kind[c] = "rethrow"
        <2>1. Does(c, "next", "dump", Dump, str[c], num[c], ctx[c])
            BY <1>1, Unchanged DEF Unlock, Goto, Does
        <2>2. Dump \in Seq(Piece)
            BY Reports DEF Dump
        <2>3. Typed("next", "dump", Dump, str[c], num[c], ctx[c])
            BY <2>2, Of DEF Typed, Converting, Label, Kind, Printing, Writing
        <2> QED
            BY <2>1, <2>3 DEF Unlock
    <1>2. CASE kind[c] # "rethrow"
        <2>1. Does(c, "idle", kind[c], fmt[c], str[c], num[c], ctx[c])
            BY <1>2, Unchanged DEF Unlock, Goto, Does
        <2>2. Typed("idle", kind[c], fmt[c], str[c], num[c], ctx[c])
            BY Of DEF Typed, Converting, Label, Printing, Writing
        <2> QED
            BY <2>1, <2>2 DEF Unlock
    <1> QED
        BY <1>1, <1>2

LEMMA Excepted ==
    ASSUME TypeInv, NEW c \in CPU, NEW failed \in BOOLEAN, Except(c, failed)
    PROVE  /\ \/ LET f == <<Text(<<"r", Newline>>)>>
                 IN  /\ Does(c, "lock", "rethrow", f, str[c], num[c], ctx[c])
                     /\ Typed("lock", "rethrow", f, str[c], num[c], ctx[c])
                     /\ Terminated(f) /\ PaddingsFit(f)
              \/ /\ Does(c, "next", "dump", Dump, str[c], num[c], ctx[c])
                 /\ Typed("next", "dump", Dump, str[c], num[c], ctx[c])
           /\ holder' = holder /\ open' = open
    <1> DEFINE f == <<Text(<<"r", Newline>>)>>
    <1>1. f \in Seq(Piece) /\ Terminated(f) /\ PaddingsFit(f)
        BY Reports
    <1>2. CASE failed
        <2>1. Does(c, "lock", "rethrow", f, str[c], num[c], ctx[c])
            BY <1>2, Unchanged DEF Except, Goto, Does
        <2> HIDE DEF f
        <2>2. Typed("lock", "rethrow", f, str[c], num[c], ctx[c])
            BY <1>1, Of DEF Typed, Converting, Label, Kind, Printing, Writing
        <2> QED
            BY <2>1, <2>2, <1>1 DEF Except, f
    <1>3. CASE ~failed
        <2>1. Does(c, "next", "dump", Dump, str[c], num[c], ctx[c])
            BY <1>3, Unchanged DEF Except, Goto, Does
        <2>2. Dump \in Seq(Piece)
            BY Reports DEF Dump
        <2>3. Typed("next", "dump", Dump, str[c], num[c], ctx[c])
            BY <2>2, Of DEF Typed, Converting, Label, Kind, Printing, Writing
        <2> QED
            BY <2>1, <2>3 DEF Except
    <1> QED
        BY <1>2, <1>3

LEMMA Ended ==
    ASSUME TypeInv, NEW c \in CPU, End(c)
    PROVE  LET p == CASE kind[c] = "string" -> "idle"
                      [] kind[c] = "dump" -> "halted"
                      [] OTHER -> "unlock"
           IN  /\ Does(c, p, kind[c], fmt[c], str[c], num[c], ctx[c])
               /\ Typed(p, kind[c], fmt[c], str[c], num[c], ctx[c])
               /\ pc[c] = "next" /\ fmt[c] = <<>> /\ holder' = holder /\ open' = open
    <1> DEFINE p == CASE kind[c] = "string" -> "idle"
                      [] kind[c] = "dump" -> "halted"
                      [] OTHER -> "unlock"
    <1>1. p \in {"idle", "halted", "unlock"}
        OBVIOUS
    <1>2. Does(c, p, kind[c], fmt[c], str[c], num[c], ctx[c])
        BY Unchanged DEF End, Goto, Does
    <1> HIDE DEF p
    <1>3. Typed(p, kind[c], fmt[c], str[c], num[c], ctx[c])
        BY <1>1, Of DEF Typed, Converting, Label, Printing, Writing
    <1> QED
        BY <1>2, <1>3 DEF End, p

LEMMA TextConverted ==
    ASSUME TypeInv, NEW c \in CPU, ConvertText(c)
    PROVE  /\ Does(c, "put", kind[c], fmt[c], Head(fmt[c]).text, num[c], ctx[c])
           /\ Typed("put", kind[c], fmt[c], Head(fmt[c]).text, num[c], ctx[c])
           /\ pc[c] = "next" /\ fmt[c] # <<>> /\ Head(fmt[c]).conv = "text"
           /\ holder' = holder /\ open' = open
    <1>1. Does(c, "put", kind[c], fmt[c], Head(fmt[c]).text, num[c], ctx[c])
        BY Unchanged DEF ConvertText, Goto, Does
    <1>2. pc[c] = "next" /\ fmt[c] # <<>> /\ Head(fmt[c]).conv = "text"
        BY DEF ConvertText
    <1>3. Head(fmt[c]) \in Piece
        BY <1>2, Of, Tails, Zenon DEF Typed
    <1>4. Head(fmt[c]).text \in Seq(Char)
        BY <1>2, <1>3 DEF Piece, Numeric
    <1>5. Typed("put", kind[c], fmt[c], Head(fmt[c]).text, num[c], ctx[c])
        BY <1>2, <1>4, Of DEF Typed, Converting, Label, Printing, Writing
    <1> QED
        BY <1>1, <1>2, <1>5 DEF ConvertText

\* %S puts conversions without padding in front of the ones that are left.
LEMMA Preceded ==
    ASSUME NEW a \in Seq(Piece), NEW f \in Seq(Piece), f # <<>>,
           \A i \in 1 .. Len(a) : a[i].conv # "text" => a[i].padding = 0
    PROVE  LET g == a \o Tail(f)
           IN  /\ g \in Seq(Piece)
               /\ Terminated(f) /\ Head(f).conv # "text" => Terminated(g)
               /\ PaddingsFit(f) /\ NumBuf > 1 => PaddingsFit(g)
    <1> DEFINE t == Tail(f)
               g == a \o t
    <1>1. /\ Len(f) \in Nat \ {0} /\ Head(f) = f[1] /\ t \in Seq(Piece)
          /\ Len(t) = Len(f) - 1 /\ \A i \in 1 .. Len(f) - 1 : t[i] = f[i + 1]
        BY Tails
    <1> HIDE DEF t
    <1>2. /\ g \in Seq(Piece) /\ Len(g) = Len(a) + Len(t)
          /\ \A i \in 1 .. Len(a) : g[i] = a[i]
          /\ \A i \in 1 .. Len(t) : g[Len(a) + i] = t[i]
        <2>1. t \in Seq(Piece)
            BY <1>1
        <2>2. g \in Seq(Piece)
            BY <2>1
        <2>3. Len(g) = Len(a) + Len(t)
            BY <2>1
        <2>4. \A i \in 1 .. Len(a) : g[i] = a[i]
            BY <2>1
        <2>5. \A i \in 1 .. Len(t) : g[Len(a) + i] = t[i]
            BY <2>1
        <2> QED
            BY <2>2, <2>3, <2>4, <2>5
    <1>3. Len(a) \in Nat /\ Len(t) \in Nat /\ NumBuf \in Nat
        BY <1>1, Widths
    <1> HIDE DEF g
    <1>4. ASSUME Terminated(f), Head(f).conv # "text" PROVE Terminated(g)
        <2>1. Len(f) # 1
            BY <1>1, <1>4 DEF Terminated
        <2>2. Len(t) \in 1 .. Len(t) /\ Len(t) \in 1 .. Len(f) - 1 /\ Len(t) + 1 = Len(f)
              /\ Len(g) > 0
            BY <2>1, <1>1, <1>2, <1>3
        <2>3. g[Len(g)] = f[Len(f)]
            <3>1. g[Len(a) + Len(t)] = t[Len(t)]
                BY <2>2, <1>2, Zenon
            <3>2. t[Len(t)] = f[Len(t) + 1]
                BY <2>2, <1>1, Zenon
            <3> QED
                BY <3>1, <3>2, <2>2, <1>2, Zenon
        <2>4. g # <<>>
            BY <2>2
        <2> QED
            BY <2>3, <2>4, <1>4, Zenon DEF Terminated
    <1>5. ASSUME PaddingsFit(f), NumBuf > 1 PROVE PaddingsFit(g)
        <2>1. ASSUME NEW i \in 1 .. Len(g), g[i].conv # "text"
              PROVE  g[i].padding + 1 < NumBuf
            <3>1. CASE i \in 1 .. Len(a)
                <4>1. g[i].padding = 0
                    BY <2>1, <3>1, <1>2
                <4> QED
                    BY <4>1, <1>3, <1>5
            <3>2. CASE i \notin 1 .. Len(a)
                <4>1. /\ i - Len(a) \in 1 .. Len(t) /\ Len(a) + (i - Len(a)) = i
                      /\ i - Len(a) \in 1 .. Len(f) - 1
                      /\ i - Len(a) + 1 \in 1 .. Len(f)
                    BY <3>2, <1>1, <1>2, <1>3
                <4>2. g[i] = f[i - Len(a) + 1]
                    BY <4>1, <1>1, <1>2, Zenon
                <4> QED
                    BY <4>1, <4>2, <2>1, <1>5 DEF PaddingsFit
            <3> QED
                BY <3>1, <3>2
        <2> QED
            BY <2>1 DEF PaddingsFit
    <1> QED
        BY <1>2, <1>4, <1>5 DEF g, t

\* The conversions that %S turns into for a number of units.
LEMMA SizeOf ==
    ASSUME NEW n \in 0 .. Limit - 1, NEW unit \in Seq(Char), NEW fraction \in BOOLEAN
    PROVE  LET a == <<Plain(n)>> \o (IF fraction THEN <<Text(<<".">>), Plain(n)>> ELSE <<>>)
                    \o <<Text(unit)>>
           IN  /\ a \in Seq(Piece)
               /\ \A i \in 1 .. Len(a) : a[i].conv # "text" => a[i].padding = 0
    <1> DEFINE P == Plain(n)
               D == Text(<<".">>)
               U == Text(unit)
    <1>1. P \in Piece /\ P.padding = 0
        BY Plains
    <1>2. "." \in Char
        BY Chars
    <1>3. <<".">> \in Seq(Char)
        BY <1>2
    <1>4. D \in Piece /\ D.conv = "text" /\ U \in Piece /\ U.conv = "text"
        BY <1>3, Texts
    <1> HIDE DEF P, D, U
    <1> DEFINE Padless(a) == \A i \in 1 .. Len(a) : a[i].conv # "text" => a[i].padding = 0
    <1>5. ASSUME NEW a \in Seq(Piece), NEW b \in Seq(Piece), Padless(a), Padless(b)
          PROVE  a \o b \in Seq(Piece) /\ Padless(a \o b)
        <2>1. /\ a \o b \in Seq(Piece) /\ Len(a \o b) = Len(a) + Len(b)
              /\ \A i \in 1 .. Len(a) : (a \o b)[i] = a[i]
              /\ \A i \in 1 .. Len(b) : (a \o b)[Len(a) + i] = b[i]
            BY <1>5
        <2> DEFINE g == a \o b
        <2> HIDE DEF g
        <2>2. ASSUME NEW i \in 1 .. Len(g), g[i].conv # "text" PROVE g[i].padding = 0
            <3>1. CASE i \in 1 .. Len(a)
                BY <2>1, <2>2, <3>1, <1>5 DEF g
            <3>2. CASE i \notin 1 .. Len(a)
                <4>1. i - Len(a) \in 1 .. Len(b) /\ Len(a) + (i - Len(a)) = i
                    BY <3>2, <2>1 DEF g
                <4>2. g[i] = b[i - Len(a)]
                    BY <4>1, <2>1, Zenon DEF g
                <4> QED
                    BY <4>1, <4>2, <2>2, <1>5
            <3> QED
                BY <3>1, <3>2
        <2> QED
            BY <2>1, <2>2 DEF g
    <1> DEFINE M == IF fraction THEN <<D, P>> ELSE <<>>
    <1>6. <<P>> \in Seq(Piece) /\ Padless(<<P>>) /\ <<U>> \in Seq(Piece) /\ Padless(<<U>>)
        BY <1>1, <1>4
    <1>7. M \in Seq(Piece) /\ Padless(M)
        <2>1. <<D, P>> \in Seq(Piece) /\ Padless(<<D, P>>)
            BY <1>1, <1>4
        <2>2. <<>> \in Seq(Piece) /\ Padless(<<>>)
            OBVIOUS
        <2> QED
            BY <2>1, <2>2
    <1> HIDE DEF Padless, M
    <1>8. <<P>> \o M \in Seq(Piece) /\ Padless(<<P>> \o M)
        BY <1>5, <1>6, <1>7
    <1>9. <<P>> \o M \o <<U>> \in Seq(Piece) /\ Padless(<<P>> \o M \o <<U>>)
        BY <1>5, <1>6, <1>8
    <1> QED
        BY <1>9 DEF Padless, M, P, D, U

LEMMA SizeConverted ==
    ASSUME TypeInv, NEW c \in CPU, ConvertSize(c)
    PROVE  \E g \in Seq(Piece) :
               /\ Does(c, "next", kind[c], g, str[c], num[c], ctx[c])
               /\ Typed("next", kind[c], g, str[c], num[c], ctx[c])
               /\ Terminated(fmt[c]) => Terminated(g)
               /\ PaddingsFit(fmt[c]) /\ NumBuf > 1 => PaddingsFit(g)
               /\ g # <<>> /\ pc[c] = "next" /\ fmt[c] # <<>>
               /\ holder' = holder /\ open' = open
    <1> DEFINE f == Head(fmt[c])
               units == Scaled(Arg(f))
               rem(e) == IF e = 0 THEN 0 ELSE units[e] % Kilo
               pieces(e, u) ==
                   <<Plain(units[e + 1])>>
                   \o (IF (rem(e) * 100) \div Kilo # 0
                       THEN <<Text(<<".">>), Plain(units[e + 1])>> ELSE <<>>)
                   \o <<Text(u)>>
    <1>1. pc[c] = "next" /\ fmt[c] # <<>> /\ f.conv = "S" /\ holder' = holder /\ open' = open
        BY DEF ConvertSize
    <1>2. f \in Piece /\ fmt[c] \in Seq(Piece)
        BY <1>1, Of, Tails, Zenon DEF Typed
    <1>3. PICK d \in 0 .. 4 : \E unit \in Unit(d) :
              fmt' = [fmt EXCEPT ![c] = pieces(d, unit) \o Tail(fmt[c])]
        BY Zenon DEF ConvertSize
    <1>4. PICK unit \in Unit(d) : fmt' = [fmt EXCEPT ![c] = pieces(d, unit) \o Tail(fmt[c])]
        BY <1>3, Zenon
    <1>5. Arg(f) \in 0 .. Limit - 1
        BY <1>1, <1>2, Args
    <1> HIDE DEF f
    <1>6. units[d + 1] \in 0 .. Limit - 1 /\ unit \in Seq(Char)
        <2>1. d + 1 \in 1 .. 5
            OBVIOUS
        <2> QED
            BY <2>1, <1>5, Sizes, UnitTexts
    <1> HIDE DEF units
    <1> DEFINE a == pieces(d, unit)
               g == a \o Tail(fmt[c])
    <1>7. a \in Seq(Piece) /\ \A i \in 1 .. Len(a) : a[i].conv # "text" => a[i].padding = 0
        <2> DEFINE fraction == (rem(d) * 100) \div Kilo # 0
        <2>1. fraction \in BOOLEAN
            OBVIOUS
        <2> HIDE DEF fraction
        <2>2. LET b == <<Plain(units[d + 1])>>
                       \o (IF fraction THEN <<Text(<<".">>), Plain(units[d + 1])>> ELSE <<>>)
                       \o <<Text(unit)>>
              IN  /\ b \in Seq(Piece)
                  /\ \A i \in 1 .. Len(b) : b[i].conv # "text" => b[i].padding = 0
            BY <1>6, <2>1, SizeOf
        <2> QED
            BY <2>2 DEF fraction
    <1>8. a # <<>>
        OBVIOUS
    <1> HIDE DEF pieces, a
    <1>9. /\ g \in Seq(Piece)
          /\ Terminated(fmt[c]) /\ f.conv # "text" => Terminated(g)
          /\ PaddingsFit(fmt[c]) /\ NumBuf > 1 => PaddingsFit(g)
        BY <1>1, <1>2, <1>7, Preceded DEF f
    <1>10. g # <<>>
        <2>1. Tail(fmt[c]) \in Seq(Piece)
            BY <1>1, <1>2, Tails
        <2> QED
            BY <2>1, <1>7, <1>8
    <1>11. Does(c, "next", kind[c], g, str[c], num[c], ctx[c])
        BY <1>1, <1>4, Unchanged DEF ConvertSize, Does, a
    <1> HIDE DEF g
    <1>12. Typed("next", kind[c], g, str[c], num[c], ctx[c])
        BY <1>9, Of DEF Typed, Converting, Label, Printing, Writing
    <1> QED
        BY <1>1, <1>9, <1>10, <1>11, <1>12

LEMMA NumberConverted ==
    ASSUME TypeInv, NEW c \in CPU, ConvertNumber(c)
    PROVE  LET n == Asked(Head(fmt[c]))
           IN  /\ Does(c, "digit", kind[c], fmt[c], <<>>, n, ctx[c])
               /\ Typed("digit", kind[c], fmt[c], <<>>, n, ctx[c])
               /\ pc[c] = "next" /\ fmt[c] # <<>> /\ Head(fmt[c]).conv \in Numeric
               /\ Head(fmt[c]) \in Piece
               /\ holder' = holder /\ open' = open
    <1> DEFINE n == Asked(Head(fmt[c]))
    <1>1. /\ pc[c] = "next" /\ fmt[c] # <<>> /\ Head(fmt[c]).conv \in Numeric
          /\ holder' = holder /\ open' = open
        BY DEF ConvertNumber
    <1>2. Head(fmt[c]) \in Piece
        BY <1>1, Of, Tails, Zenon DEF Typed
    <1>3. n \in Num
        BY <1>1, <1>2, Requests
    <1>4. Does(c, "digit", kind[c], fmt[c], <<>>, n, ctx[c])
        <2>1. num' = [num EXCEPT ![c] = n]
            BY Zenon DEF ConvertNumber, Asked
        <2> HIDE DEF n
        <2> QED
            BY <2>1, Unchanged DEF ConvertNumber, Goto, Does
    <1>5. Head(fmt[c]).conv # "text"
        BY <1>1 DEF Numeric
    <1> HIDE DEF n
    <1>6. Typed("digit", kind[c], fmt[c], <<>>, n, ctx[c])
        BY <1>1, <1>3, <1>5, Of DEF Typed, Converting, Label, Printing, Writing
    <1> QED
        BY <1>1, <1>2, <1>4, <1>6 DEF n

\* What is left of the padding, and of the digits allowed, after a digit.
Less(k) == IF k > 0 THEN k - 1 ELSE 0
Left(len) == IF len > 0 THEN len - 1 ELSE len

\* One digit of a number.
LEMMA Divided ==
    ASSUME NEW n \in Num
    PROVE  /\ Digits[(n.i % n.base) + 1] \in Char
           /\ n.i \div n.base \in 0 .. Limit - 1 /\ 2 * (n.i \div n.base) <= n.i
           /\ Less(n.padding) \in Nat
           /\ n.padding \in Nat /\ n.i \in Nat
    <1>1. n.i \in 0 .. Limit - 1 /\ n.base \in {2, 10, 16} /\ n.padding \in Nat
        BY DEF Num
    <1>2. n.i \in Nat /\ n.base \in Nat /\ n.base > 1 /\ n.base <= 16 /\ Limit \in Nat
        BY <1>1, Limits
    <1>3. /\ n.i \div n.base \in Nat /\ n.i \div n.base <= n.i
          /\ 2 * (n.i \div n.base) <= n.i /\ n.i % n.base \in 0 .. n.base - 1
        BY <1>2, Quotient
    <1>4. (n.i % n.base) + 1 \in 1 .. 16
        BY <1>2, <1>3
    <1>5. n.i \div n.base \in 0 .. Limit - 1
        BY <1>1, <1>2, <1>3
    <1>6. Digits[(n.i % n.base) + 1] \in Char
        BY <1>4, Chars, Zenon
    <1>7. Less(n.padding) \in Nat
        BY <1>1 DEF Less
    <1> QED
        BY <1>1, <1>2, <1>3, <1>5, <1>6, <1>7, Zenon

LEMMA Digited ==
    ASSUME TypeInv, NEW c \in CPU, Digit(c)
    PROVE  \E p \in {"digit", "pad"}, n \in Num, ch \in Char :
               /\ Does(c, p, kind[c], fmt[c], <<ch>> \o str[c], n, ctx[c])
               /\ Typed(p, kind[c], fmt[c], <<ch>> \o str[c], n, ctx[c])
               /\ n.i = num[c].i \div num[c].base /\ n.padding = Less(num[c].padding)
               /\ n.neg = num[c].neg /\ (p = "digit" => n.i # 0)
               /\ ch = Digits[(num[c].i % num[c].base) + 1]
               /\ n.base = num[c].base /\ n.len = Left(num[c].len)
               /\ p = IF n.i # 0 /\ n.len # 0 THEN "digit" ELSE "pad"
               /\ num[c] \in Num /\ pc[c] = "digit" /\ holder' = holder /\ open' = open
    <1> DEFINE m == num[c]
               len == Left(m.len)
               n == [m EXCEPT !.i = m.i \div m.base, !.len = len, !.padding = Less(m.padding)]
               p == IF m.i \div m.base # 0 /\ len # 0 THEN "digit" ELSE "pad"
               ch == Digits[(m.i % m.base) + 1]
    <1>1. pc[c] = "digit" /\ holder' = holder /\ open' = open
        BY DEF Digit
    <1>2. m \in Num /\ fmt[c] # <<>> /\ Head(fmt[c]).conv # "text"
        BY <1>1, Of DEF Typed, Converting, Writing
    <1>3. pc' = [pc EXCEPT ![c] = p]
        BY <1>1, Unchanged DEF Digit, Goto, Left
    <1>4. num' = [num EXCEPT ![c] = n] /\ str' = [str EXCEPT ![c] = <<ch>> \o str[c]]
        BY DEF Digit, Push, Less, Left
    <1>5. Does(c, p, kind[c], fmt[c], <<ch>> \o str[c], n, ctx[c])
        <2> HIDE DEF m, p, n, ch
        <2> QED
            BY <1>3, <1>4, Unchanged DEF Digit, Does
    <1>6. /\ ch \in Char /\ m.i \div m.base \in 0 .. Limit - 1 /\ Less(m.padding) \in Nat
        BY <1>2, Divided
    <1>7. len \in Int
        <2>1. m.len \in Int
            BY <1>2 DEF Num
        <2> HIDE DEF m
        <2> QED
            BY <2>1 DEF Left
    <1> HIDE DEF len
    <1>8. /\ p \in {"digit", "pad"} /\ (p = "digit" => m.i \div m.base # 0)
          /\ p = IF m.i \div m.base # 0 /\ len # 0 THEN "digit" ELSE "pad"
          /\ ch = Digits[(m.i % m.base) + 1]
        OBVIOUS
    <1> HIDE DEF m, p, ch
    <1>9. /\ n \in Num /\ n.i = m.i \div m.base /\ n.padding = Less(m.padding)
          /\ n.neg = m.neg /\ n.base = m.base /\ n.len = len
        BY <1>2, <1>6, <1>7 DEF Num
    <1>10. Typed(p, kind[c], fmt[c], <<ch>> \o str[c], n, ctx[c])
        <2>1. <<ch>> \o str[c] \in Seq(Char)
            BY <1>6, Of, Fronted DEF Typed
        <2> HIDE DEF n
        <2> QED
            BY <2>1, <1>2, <1>8, <1>9, Of DEF Typed, Converting, Label, Printing, Writing
    <1> HIDE DEF n
    <1> QED
        BY <1>1, <1>2, <1>5, <1>6, <1>8, <1>9, <1>10 DEF m, len

LEMMA Padded ==
    ASSUME TypeInv, NEW c \in CPU, Pad(c)
    PROVE  \E n \in Num, ch \in Char :
               /\ Does(c, "pad", kind[c], fmt[c], <<ch>> \o str[c], n, ctx[c])
               /\ Typed("pad", kind[c], fmt[c], <<ch>> \o str[c], n, ctx[c])
               /\ n.padding = num[c].padding - 1 /\ n.neg = num[c].neg
               /\ n.base = num[c].base /\ ch = num[c].pad
               /\ num[c] \in Num /\ pc[c] = "pad" /\ num[c].padding > 0
               /\ holder' = holder /\ open' = open
    <1> DEFINE m == num[c]
               n == [m EXCEPT !.padding = m.padding - 1]
               ch == m.pad
    <1>1. pc[c] = "pad" /\ m.padding > 0 /\ holder' = holder /\ open' = open
        BY DEF Pad
    <1>2. m \in Num /\ fmt[c] # <<>> /\ Head(fmt[c]).conv # "text"
        BY <1>1, Of DEF Typed, Converting, Writing
    <1>3. num' = [num EXCEPT ![c] = n] /\ str' = [str EXCEPT ![c] = <<ch>> \o str[c]]
        BY DEF Pad, Push
    <1>4. Does(c, "pad", kind[c], fmt[c], <<ch>> \o str[c], n, ctx[c])
        <2> HIDE DEF m, n, ch
        <2> QED
            BY <1>1, <1>3, Unchanged DEF Pad, Does
    <1>5. ch \in Char
        BY <1>2, Chars DEF Num
    <1>8. ch = m.pad
        OBVIOUS
    <1> HIDE DEF ch
    <1> HIDE DEF m
    <1>6. n \in Num /\ n.padding = m.padding - 1 /\ n.neg = m.neg /\ n.base = m.base
        <2>1. m.padding - 1 \in Nat
            <3>1. m.padding \in Nat
                BY <1>2 DEF Num
            <3>2. m.padding > 0
                BY <1>1 DEF m
            <3> HIDE DEF n
            <3> QED
                BY <3>1, <3>2
        <2>2. n.padding = m.padding - 1 /\ n \in Num
            BY <2>1, <1>2 DEF Num
        <2>3. n.neg = m.neg /\ n.base = m.base
            BY <1>2 DEF Num
        <2> QED
            BY <2>2, <2>3
    <1>7. Typed("pad", kind[c], fmt[c], <<ch>> \o str[c], n, ctx[c])
        <2>1. <<ch>> \o str[c] \in Seq(Char)
            BY <1>5, Of, Fronted DEF Typed
        <2> HIDE DEF n
        <2> QED
            BY <2>1, <1>2, <1>6, Of DEF Typed, Converting, Label, Printing, Writing
    <1> HIDE DEF n
    <1> QED
        BY <1>1, <1>2, <1>4, <1>5, <1>6, <1>7, <1>8 DEF m

LEMMA Signs ==
    ASSUME TypeInv, NEW c \in CPU, Sign(c)
    PROVE  LET s == IF num[c].neg THEN <<"-">> \o str[c] ELSE str[c]
           IN  /\ Does(c, "number", kind[c], fmt[c], s, num[c], ctx[c])
               /\ Typed("number", kind[c], fmt[c], s, num[c], ctx[c])
               /\ pc[c] = "pad" /\ holder' = holder /\ open' = open
    <1> DEFINE s == IF num[c].neg THEN <<"-">> \o str[c] ELSE str[c]
    <1>1. pc[c] = "pad" /\ holder' = holder /\ open' = open
        BY DEF Sign
    <1>2. num[c] \in Num /\ fmt[c] # <<>> /\ Head(fmt[c]).conv # "text"
        BY <1>1, Of DEF Typed, Converting, Writing
    <1>3. str' = [str EXCEPT ![c] = s]
        <2>1. CASE num[c].neg
            BY <2>1, Zenon DEF Sign, Push
        <2>2. CASE ~num[c].neg
            <3>1. str' = str /\ s = str[c]
                BY <2>2, Zenon DEF Sign
            <3> QED
                BY <3>1, Unchanged, Zenon
        <2> QED
            BY <2>1, <2>2
    <1>4. s \in Seq(Char)
        <2>1. "-" \in Char /\ str[c] \in Seq(Char)
            BY Chars, Of DEF Typed
        <2>2. <<"-">> \o str[c] \in Seq(Char)
            BY <2>1, Fronted
        <2> QED
            BY <2>1, <2>2
    <1> HIDE DEF s
    <1>5. Does(c, "number", kind[c], fmt[c], s, num[c], ctx[c])
        BY <1>3, Unchanged DEF Sign, Goto, Does
    <1>6. Typed("number", kind[c], fmt[c], s, num[c], ctx[c])
        BY <1>2, <1>4, Of DEF Typed, Converting, Label, Printing, Writing
    <1> QED
        BY <1>1, <1>5, <1>6 DEF s

\* A character in a buffer.
Stored(x, ch) == [Store(x, ch) EXCEPT !.given = Append(x.given, ch)]

LEMMA Stores ==
    ASSUME NEW x \in Buffer, NEW ch \in Char
    PROVE  /\ Stored(x, ch) \in Buffer /\ Stored(x, ch).size = x.size
           /\ Stored(x, ch).given = Append(x.given, ch)
           /\ Stored(x, ch).room = IF x.room = 0 THEN 0 ELSE x.room - 1
           /\ Stored(x, ch).buffer = IF x.room = 0 THEN x.buffer
                                     ELSE Append(x.buffer, IF x.room = 1 THEN NUL ELSE ch)
    <1> DEFINE y == IF x.room = 1 THEN NUL ELSE ch
               z == Append(x.buffer, y)
               g == Append(x.given, ch)
    <1>1. /\ x.room \in Nat /\ x.size \in Nat /\ x.buffer \in Seq(Char) /\ x.given \in Seq(Char)
        BY DEF Buffer
    <1>2. y \in Char
        BY Chars
    <1> HIDE DEF y
    <1>3. z \in Seq(Char) /\ g \in Seq(Char)
        BY <1>1, <1>2, Appended
    <1>4. Store(x, ch) = IF x.room = 0 THEN x ELSE [x EXCEPT !.buffer = z, !.room = x.room - 1]
        BY DEF Store, y
    <1>5. Stored(x, ch) = [Store(x, ch) EXCEPT !.given = g]
        BY DEF Stored
    <1> HIDE DEF z, g
    <1>6. CASE x.room = 0
        <2>1. Stored(x, ch) = [x EXCEPT !.given = g]
            BY <1>4, <1>5, <1>6
        <2> QED
            BY <1>1, <1>3, <1>6, <2>1 DEF Buffer, z, g
    <1>7. CASE x.room # 0
        <2>1. Stored(x, ch) = [x EXCEPT !.buffer = z, !.room = x.room - 1, !.given = g]
            BY <1>4, <1>5, <1>7 DEF Buffer
        <2>2. x.room - 1 \in Nat
            BY <1>1, <1>7
        <2> QED
            BY <1>1, <1>3, <1>7, <2>1, <2>2 DEF Buffer, z, g, y
    <1> QED
        BY <1>6, <1>7

LEMMA PutOut ==
    ASSUME TypeInv, NEW c \in CPU, Put(c)
    PROVE  LET ch == Head(str[c])
               x == IF kind[c] = "string" THEN Stored(ctx[c], ch) ELSE ctx[c]
           IN  /\ Does(c, "put", kind[c], fmt[c], Tail(str[c]), num[c], x)
               /\ Typed("put", kind[c], fmt[c], Tail(str[c]), num[c], x)
               /\ pc[c] \in {"number", "put"} /\ str[c] # <<>> /\ fmt[c] # <<>>
               /\ ch \in Char /\ holder' = holder
               /\ open' = IF kind[c] \in {"line", "rethrow"}
                          THEN IF ch = Newline THEN NoCPU ELSE c
                          ELSE open
    <1> DEFINE ch == Head(str[c])
               x == IF kind[c] = "string" THEN Stored(ctx[c], ch) ELSE ctx[c]
    <1>1. /\ pc[c] \in {"number", "put"} /\ str[c] # <<>> /\ holder' = holder
          /\ open' = IF kind[c] \in {"line", "rethrow"}
                     THEN IF ch = Newline THEN NoCPU ELSE c
                     ELSE open
        BY DEF Put
    <1>2. /\ fmt[c] # <<>>
        BY <1>1, Of DEF Typed, Converting, Writing
    <1>3. ch \in Char /\ Tail(str[c]) \in Seq(Char)
        BY <1>1, Of, Tails, Zenon DEF Typed
    <1>4. ctx' = [ctx EXCEPT ![c] = x]
        <2>1. CASE kind[c] = "string"
            <3>1. ctx' = [ctx EXCEPT ![c] = [Store(ctx[c], ch) EXCEPT
                                                !.given = Append(Store(ctx[c], ch).given, ch)]]
                BY <2>1 DEF Put
            <3>2. Store(ctx[c], ch).given = ctx[c].given
                BY Of DEF Store, Typed, Buffer
            <3> QED
                BY <2>1, <3>1, <3>2 DEF Stored
        <2>2. CASE kind[c] # "string"
            BY <2>2, Unchanged DEF Put
        <2> QED
            BY <2>1, <2>2
    <1> HIDE DEF ch
    <1>5. x \in Buffer
        BY <1>3, Of, Stores DEF Typed
    <1> HIDE DEF x
    <1>6. Does(c, "put", kind[c], fmt[c], Tail(str[c]), num[c], x)
        <2>1. str' = [str EXCEPT ![c] = Tail(str[c])]
            BY DEF Put
        <2> QED
            BY <2>1, <1>4, Unchanged DEF Put, Goto, Does
    <1>7. Typed("put", kind[c], fmt[c], Tail(str[c]), num[c], x)
        BY <1>2, <1>3, <1>5, Of DEF Typed, Converting, Label, Printing, Writing
    <1> QED
        BY <1>1, <1>2, <1>3, <1>6, <1>7 DEF ch, x

LEMMA Done ==
    ASSUME TypeInv, NEW c \in CPU, Converted(c)
    PROVE  /\ Does(c, "next", kind[c], Tail(fmt[c]), str[c], num[c], ctx[c])
           /\ Typed("next", kind[c], Tail(fmt[c]), str[c], num[c], ctx[c])
           /\ pc[c] = "put" /\ str[c] = <<>> /\ fmt[c] # <<>> /\ fmt[c] \in Seq(Piece)
           /\ holder' = holder /\ open' = open
    <1>1. pc[c] = "put" /\ str[c] = <<>> /\ holder' = holder /\ open' = open
        BY DEF Converted
    <1>2. fmt[c] # <<>> /\ fmt[c] \in Seq(Piece)
        BY <1>1, Of DEF Typed, Converting
    <1>3. Tail(fmt[c]) \in Seq(Piece)
        BY <1>2, Tails, Zenon
    <1>4. Does(c, "next", kind[c], Tail(fmt[c]), str[c], num[c], ctx[c])
        <2>1. fmt' = [fmt EXCEPT ![c] = Tail(fmt[c])]
            BY DEF Converted
        <2> QED
            BY <2>1, Unchanged DEF Converted, Goto, Does
    <1>5. Typed("next", kind[c], Tail(fmt[c]), str[c], num[c], ctx[c])
        BY <1>3, Of DEF Typed, Converting, Label, Printing, Writing
    <1> QED
        BY <1>1, <1>2, <1>4, <1>5

-----------------------------------------------------------------------------
(* Types are kept                                                          *)

LEMMA TypeInit == Init => TypeInv
    <1> SUFFICES ASSUME Init PROVE TypeInv
        OBVIOUS
    <1>1. "idle" \in Label /\ "line" \in Kind /\ "idle" \notin Writing \cup {"put"}
        BY DEF Label, Kind, Writing
    <1>2. NoBuffer \in Buffer
        BY DEF NoBuffer, Buffer
    <1> QED
        BY <1>1, <1>2 DEF Init, TypeInv, Converting

LEMMA TypeStep ==
    ASSUME TypeInv, Next
    PROVE  TypeInv'
    <1>1. PICK c \in CPU : \/ (\E f \in Lines : Line(c, f))
                           \/ (\E s \in Strings : String(c, s[1], s[2]))
                           \/ \E failed \in BOOLEAN : Except(c, failed)
                           \/ Step(c)
        BY Zenon DEF Next
    <1>2. holder \in CPU \cup {NoCPU} /\ open \in CPU \cup {NoCPU}
        BY DEF TypeInv
    <1>3. ASSUME NEW p, NEW k, NEW f, NEW s, NEW n, NEW x,
                 Does(c, p, k, f, s, n, x), Typed(p, k, f, s, n, x),
                 holder' \in CPU \cup {NoCPU}, open' \in CPU \cup {NoCPU}
          PROVE  TypeInv'
        BY <1>3, TypesAt
    <1>4. CASE \E f \in Lines : Line(c, f)
        BY <1>2, <1>3, <1>4, Lined
    <1>5. CASE \E s \in Strings : String(c, s[1], s[2])
        BY <1>2, <1>3, <1>5, Stringed
    <1>6. CASE \E failed \in BOOLEAN : Except(c, failed)
        BY <1>2, <1>3, <1>6, Excepted
    <1>7. CASE Lock(c)
        BY <1>2, <1>3, <1>7, Locked
    <1>8. CASE Unlock(c)
        BY <1>2, <1>3, <1>8, Unlocked
    <1>9. CASE End(c)
        BY <1>2, <1>3, <1>9, Ended
    <1>10. CASE ConvertText(c)
        BY <1>2, <1>3, <1>10, TextConverted
    <1>11. CASE ConvertSize(c)
        BY <1>2, <1>3, <1>11, SizeConverted
    <1>12. CASE ConvertNumber(c)
        BY <1>2, <1>3, <1>12, NumberConverted
    <1>13. CASE Digit(c)
        <2>1. PICK p \in {"digit", "pad"}, n \in Num, ch \in Char :
                  /\ Does(c, p, kind[c], fmt[c], <<ch>> \o str[c], n, ctx[c])
                  /\ Typed(p, kind[c], fmt[c], <<ch>> \o str[c], n, ctx[c])
                  /\ holder' = holder /\ open' = open
            BY <1>13, Digited, Zenon
        <2>2. holder' \in CPU \cup {NoCPU} /\ open' \in CPU \cup {NoCPU}
            BY <2>1, <1>2
        <2> QED
            BY <2>1, <2>2, <1>3, Zenon
    <1>14. CASE Pad(c)
        <2>1. PICK n \in Num, ch \in Char :
                  /\ Does(c, "pad", kind[c], fmt[c], <<ch>> \o str[c], n, ctx[c])
                  /\ Typed("pad", kind[c], fmt[c], <<ch>> \o str[c], n, ctx[c])
                  /\ holder' = holder /\ open' = open
            BY <1>14, Padded, Zenon
        <2>2. holder' \in CPU \cup {NoCPU} /\ open' \in CPU \cup {NoCPU}
            BY <2>1, <1>2
        <2> QED
            BY <2>1, <2>2, <1>3, Zenon
    <1>15. CASE Sign(c)
        BY <1>2, <1>3, <1>15, Signs
    <1>16. CASE Put(c)
        BY <1>2, <1>3, <1>16, PutOut
    <1>17. CASE Converted(c)
        BY <1>2, <1>3, <1>17, Done
    <1>18. CASE Draw(c)
        BY <1>2, <1>3, <1>18, Drawn
    <1> QED
        BY <1>1, <1>4, <1>5, <1>6, <1>7, <1>8, <1>9, <1>10, <1>11, <1>12, <1>13, <1>14,
           <1>15, <1>16, <1>17, <1>18 DEF Step

-----------------------------------------------------------------------------
(* Tickets                                                                 *)

LEMMA TicketInit == Init => TicketInv
    <1> SUFFICES ASSUME Init PROVE TicketInv
        OBVIOUS
    <1>1. \A c \in CPU : pc[c] = "idle"
        BY DEF Init
    <1>2. next_ticket = 0 /\ now_serving = 0 /\ ticket \in [CPU -> Nat] /\ holder = NoCPU
        BY DEF Init
    <1> QED
        BY <1>1, <1>2 DEF TicketInv

\* A step that leaves the lock alone, except that its CPU may give up to wait.
LEMMA LockLeft ==
    ASSUME TypeInv, TicketInv, NEW c \in CPU, NEW p, p # "wait",
           pc' = [pc EXCEPT ![c] = p], holder' = holder,
           UNCHANGED <<next_ticket, now_serving, ticket>>
    PROVE  TicketInv'
    <1>1. \A d \in CPU : pc'[d] = "wait" => pc[d] = "wait"
        BY DEF TypeInv
    <1> QED
        BY <1>1 DEF TicketInv

LEMMA DrawStep ==
    ASSUME TypeInv, TicketInv, NEW c \in CPU, Draw(c)
    PROVE  TicketInv'
    <1>1. /\ next_ticket \in Nat /\ now_serving \in Nat /\ ticket \in [CPU -> Nat]
          /\ next_ticket' = next_ticket + 1 /\ now_serving' = now_serving /\ holder' = holder
        BY DEF TicketInv, Draw
    <1>2. ticket'[c] = next_ticket /\ ticket' \in [CPU -> Nat]
        BY <1>1 DEF Draw
    <1>3. \A d \in CPU \ {c} : ticket'[d] = ticket[d] /\ pc'[d] = pc[d]
        BY <1>1 DEF Draw, Goto, TypeInv
    <1>4. ASSUME NEW d \in CPU, pc'[d] = "wait"
          PROVE  /\ ticket'[d] < next_ticket'
                 /\ d # c => ticket'[d] < next_ticket /\ pc[d] = "wait"
                 /\ holder # NoCPU => ticket'[d] # now_serving
        <2>1. CASE d = c
            BY <2>1, <1>1, <1>2 DEF TicketInv
        <2>2. CASE d # c
            <3>1. ticket'[d] = ticket[d] /\ pc[d] = "wait"
                BY <2>2, <1>3, <1>4
            <3>2. ticket[d] \in Nat /\ ticket[d] < next_ticket
                BY <3>1, <1>1 DEF TicketInv
            <3> QED
                BY <3>1, <3>2, <1>1 DEF TicketInv
        <2> QED
            BY <2>1, <2>2
    <1>5. ASSUME NEW d \in CPU, NEW e \in CPU,
                 pc'[d] = "wait", pc'[e] = "wait", ticket'[d] = ticket'[e]
          PROVE  d = e
        <2>1. CASE d = c /\ e # c
            BY <2>1, <1>1, <1>2, <1>4, <1>5
        <2>2. CASE d # c /\ e = c
            BY <2>2, <1>1, <1>2, <1>4, <1>5
        <2>3. CASE d # c /\ e # c
            <3>1. pc[d] = "wait" /\ pc[e] = "wait" /\ ticket[d] = ticket[e]
                BY <2>3, <1>3, <1>5
            <3> QED
                BY <3>1 DEF TicketInv
        <2> QED
            BY <2>1, <2>2, <2>3
    <1>6. holder' # NoCPU => now_serving' < next_ticket'
        BY <1>1 DEF TicketInv
    <1> QED
        BY <1>1, <1>2, <1>4, <1>5, <1>6 DEF TicketInv

\* The one who is served finds the lock free, and is alone in that.
LEMMA LockFree ==
    ASSUME TypeInv, TicketInv, NEW c \in CPU, Lock(c)
    PROVE  holder = NoCPU
    BY Locked DEF TicketInv

LEMMA LockTaken ==
    ASSUME TypeInv, TicketInv, NEW c \in CPU, Lock(c)
    PROVE  TicketInv'
    <1>1. pc[c] = "wait" /\ now_serving = ticket[c]
        BY Locked
    <1>2. next_ticket' = next_ticket /\ now_serving' = now_serving /\ ticket' = ticket
        BY DEF Lock, queue
    <1>3. pc'[c] = "next" /\ \A d \in CPU \ {c} : pc'[d] = pc[d]
        BY Locked, Afterwards
    <1>4. \A d \in CPU : pc'[d] = "wait" => d # c /\ pc[d] = "wait"
        BY <1>3
    <1>5. now_serving < next_ticket /\ \A d \in CPU : pc'[d] = "wait" => ticket[d] # now_serving
        BY <1>1, <1>4 DEF TicketInv
    <1> QED
        BY <1>2, <1>4, <1>5 DEF TicketInv

LEMMA UnlockStep ==
    ASSUME TypeInv, TicketInv, NEW c \in CPU, Unlock(c)
    PROVE  TicketInv'
    <1>1. /\ next_ticket' = next_ticket /\ ticket' = ticket
          /\ now_serving' = now_serving + 1 /\ holder' = NoCPU
        BY DEF Unlock
    <1>2. now_serving \in Nat /\ now_serving' \in Nat
        BY <1>1 DEF TicketInv
    <1>3. pc'[c] \in {"next", "idle"} /\ \A d \in CPU \ {c} : pc'[d] = pc[d]
        BY Unlocked, Afterwards
    <1>4. \A d \in CPU : pc'[d] = "wait" => pc[d] = "wait"
        BY <1>3
    <1> QED
        BY <1>1, <1>2, <1>4 DEF TicketInv

LEMMA TicketStep ==
    ASSUME TypeInv, TicketInv, Next
    PROVE  TicketInv'
    <1>1. PICK c \in CPU : \/ (\E f \in Lines : Line(c, f))
                           \/ (\E s \in Strings : String(c, s[1], s[2]))
                           \/ \E failed \in BOOLEAN : Except(c, failed)
                           \/ Step(c)
        BY Zenon DEF Next
    <1>2. CASE Draw(c)
        BY <1>2, DrawStep
    <1>3. CASE Lock(c)
        BY <1>3, LockTaken
    <1>4. CASE Unlock(c)
        BY <1>4, UnlockStep
    <1>5. CASE ~(Draw(c) \/ Lock(c) \/ Unlock(c))
        <2>1. UNCHANGED <<next_ticket, now_serving, ticket, holder>>
            BY <1>1, <1>5 DEF Step, Line, String, Except, End, ConvertText, ConvertSize,
               ConvertNumber, Digit, Pad, Sign, Put, Converted, queue
        <2>2. \E p : p # "wait" /\ pc' = [pc EXCEPT ![c] = p]
            <3>1. pc = [pc EXCEPT ![c] = pc[c]]
                BY Unchanged
            <3> QED
                BY <3>1, <1>1, <1>5 DEF Step, Line, String, Except, End, ConvertText,
                   ConvertSize, ConvertNumber, Digit, Pad, Sign, Put, Converted, Goto
        <2> QED
            BY <2>1, <2>2, LockLeft
    <1> QED
        BY <1>2, <1>3, <1>4, <1>5

-----------------------------------------------------------------------------
(* Lines                                                                   *)

\* A format that ends a line still does without a conversion that is not its last.
LEMMA LastStays ==
    ASSUME NEW f \in Seq(Piece), Terminated(f), Tail(f) # <<>>
    PROVE  Len(f) # 1 /\ Terminated(Tail(f))
    <1> DEFINE t == Tail(f)
    <1>1. /\ Len(f) \in Nat \ {0} /\ t \in Seq(Piece) /\ Len(t) = Len(f) - 1
          /\ \A i \in 1 .. Len(f) - 1 : t[i] = f[i + 1]
        BY Tails DEF Terminated
    <1>2. t # <<>>
        OBVIOUS
    <1> HIDE DEF t
    <1>3. Len(t) \in Nat \ {0}
        BY <1>1, <1>2, Tails
    <1>4. Len(t) \in 1 .. Len(f) - 1 /\ Len(t) + 1 = Len(f) /\ Len(f) # 1
        BY <1>1, <1>3
    <1>5. t[Len(t)] = f[Len(f)]
        BY <1>1, <1>4, Zenon
    <1>6. Terminated(t)
        BY <1>2, <1>5, Zenon DEF Terminated
    <1> QED
        BY <1>4, <1>6 DEF t

LEMMA NewlineStays ==
    ASSUME NEW s \in Seq(Char), EndsLine(s)
    PROVE  IF Tail(s) = <<>> THEN Head(s) = Newline ELSE EndsLine(Tail(s))
    <1> DEFINE t == Tail(s)
    <1>1. /\ Len(s) \in Nat \ {0} /\ t \in Seq(Char) /\ Len(t) = Len(s) - 1 /\ Head(s) = s[1]
          /\ \A i \in 1 .. Len(s) - 1 : t[i] = s[i + 1]
        BY Tails DEF EndsLine
    <1>2. CASE t = <<>>
        <2> HIDE DEF t
        <2>1. Len(t) = 0
            BY <1>2
        <2>2. Len(s) = 1
            BY <1>1, <2>1
        <2> QED
            BY <1>1, <1>2, <2>2 DEF EndsLine, t
    <1>3. CASE t # <<>>
        <2> HIDE DEF t
        <2>1. Len(t) \in Nat \ {0}
            BY <1>1, <1>3, Tails
        <2>2. Len(t) \in 1 .. Len(s) - 1 /\ Len(t) + 1 = Len(s)
            BY <1>1, <2>1
        <2>3. t[Len(t)] = s[Len(s)]
            BY <1>1, <2>2, Zenon
        <2>4. EndsLine(t)
            BY <1>3, <2>3, Zenon DEF EndsLine
        <2> QED
            BY <1>3, <2>4 DEF t
    <1> QED
        BY <1>2, <1>3

\* The last conversion of a line is text, and it ends the line.
LEMMA LastIsText ==
    ASSUME NEW f \in Seq(Piece), Terminated(f), Len(f) = 1
    PROVE  Head(f).conv = "text" /\ EndsLine(Head(f).text)
    <1>1. Head(f) = f[1] /\ f # <<>>
        BY Tails DEF Terminated
    <1> QED
        BY <1>1 DEF Terminated

LEMMA LineInit == Init => LineInv
    <1> SUFFICES ASSUME Init PROVE LineInv
        OBVIOUS
    <1>1. "idle" \notin Printing \cup {"unlock", "lock", "wait"} \cup Writing
        BY DEF Printing, Writing
    <1> QED
        BY <1>1 DEF Init, LineInv, LineOf, Printing, Writing

LEMMA LineStep ==
    ASSUME TypeInv, TicketInv, LineInv, Next
    PROVE  LineInv'
    <1>1. PICK c \in CPU : \/ (\E f \in Lines : Line(c, f))
                           \/ (\E s \in Strings : String(c, s[1], s[2]))
                           \/ \E failed \in BOOLEAN : Except(c, failed)
                           \/ Step(c)
        BY Zenon DEF Next
    <1>2. ASSUME NEW p, NEW k, NEW f, NEW s, NEW n, NEW x,
                 Does(c, p, k, f, s, n, x), LineOf(c, p, k, f, s, holder', open'),
                 open' # NoCPU => holder' = open',
                 (holder' = holder /\ open' = open) \/ holder \in {NoCPU, c}
          PROVE  LineInv'
        BY <1>2, LinesAt
    <1>3. /\ open # NoCPU => holder = open
          /\ LineOf(c, pc[c], kind[c], fmt[c], str[c], holder, open)
        BY DEF LineInv
    <1>4. /\ kind[c] \in Kind /\ fmt[c] \in Seq(Piece) /\ str[c] \in Seq(Char)
          /\ Converting(pc[c], fmt[c], num[c])
        BY Of DEF Typed
    <1>5. c # NoCPU
        BY TraceAssumption
    <1> DEFINE printing == kind[c] \in {"line", "rethrow"}
    <1> USE DEF LineOf, Printing, Writing
    <1>6. CASE \E f \in Lines : Line(c, f)
        <2>1. PICK f \in Lines : Line(c, f)
            BY <1>6
        <2> DEFINE g == Append(f, Text(<<Newline>>))
        <2>2. /\ Does(c, "lock", "line", g, str[c], num[c], ctx[c])
              /\ Terminated(g) /\ holder' = holder /\ open' = open
            BY <2>1, Lined
        <2> HIDE DEF g
        <2>3. LineOf(c, "lock", "line", g, str[c], holder', open')
            BY <2>2
        <2> QED
            BY <1>2, <1>3, <2>2, <2>3
    <1>7. CASE \E s \in Strings : String(c, s[1], s[2])
        <2>1. PICK s \in Strings : String(c, s[1], s[2])
            BY <1>7
        <2>2. PICK x : /\ Does(c, "next", "string", s[1], str[c], num[c], x)
                       /\ holder' = holder /\ open' = open
            BY <2>1, Stringed
        <2>3. LineOf(c, "next", "string", s[1], str[c], holder', open')
            OBVIOUS
        <2> QED
            BY <1>2, <1>3, <2>2, <2>3
    <1>8. CASE \E failed \in BOOLEAN : Except(c, failed)
        <2>1. holder' = holder /\ open' = open
            BY <1>8, Excepted
        <2>2. CASE \E f \in Seq(Piece) :
                      Does(c, "lock", "rethrow", f, str[c], num[c], ctx[c]) /\ Terminated(f)
            <3>1. PICK f \in Seq(Piece) :
                      Does(c, "lock", "rethrow", f, str[c], num[c], ctx[c]) /\ Terminated(f)
                BY <2>2
            <3>2. LineOf(c, "lock", "rethrow", f, str[c], holder', open')
                BY <3>1
            <3> QED
                BY <1>2, <1>3, <2>1, <3>1, <3>2
        <2>3. CASE Does(c, "next", "dump", Dump, str[c], num[c], ctx[c])
            <3>1. LineOf(c, "next", "dump", Dump, str[c], holder', open')
                OBVIOUS
            <3> QED
                BY <1>2, <1>3, <2>1, <2>3, <3>1
        <2> QED
            BY <1>8, <2>2, <2>3, Excepted, Reports
    <1>9. CASE Lock(c)
        <2>1. /\ Does(c, "next", kind[c], fmt[c], str[c], num[c], ctx[c])
              /\ pc[c] = "wait" /\ holder = NoCPU /\ holder' = c /\ open' = open
            BY <1>9, Locked, LockFree
        <2>2. open = NoCPU
            BY <1>3, <2>1
        <2>3. fmt[c] # <<>> \/ ~printing
            BY <1>3, <2>1 DEF Terminated
        <2>4. LineOf(c, "next", kind[c], fmt[c], str[c], holder', open')
            BY <1>3, <2>1, <2>3
        <2> QED
            BY <1>2, <2>1, <2>2, <2>4
    <1>10. CASE Unlock(c)
        <2>1. pc[c] = "unlock" /\ holder' = NoCPU /\ open' = open
            BY <1>10, Unlocked
        <2>2. holder = c /\ open = NoCPU
            BY <1>3, <2>1
        <2>3. CASE Does(c, "next", "dump", Dump, str[c], num[c], ctx[c])
            <3>1. LineOf(c, "next", "dump", Dump, str[c], holder', open')
                OBVIOUS
            <3> QED
                BY <1>2, <2>1, <2>2, <2>3, <3>1
        <2>4. CASE Does(c, "idle", kind[c], fmt[c], str[c], num[c], ctx[c])
            <3>1. LineOf(c, "idle", kind[c], fmt[c], str[c], holder', open')
                OBVIOUS
            <3> QED
                BY <1>2, <2>1, <2>2, <2>4, <3>1
        <2> QED
            BY <1>10, <2>3, <2>4, Unlocked
    <1>11. CASE End(c)
        <2> DEFINE p == CASE kind[c] = "string" -> "idle"
                          [] kind[c] = "dump" -> "halted"
                          [] OTHER -> "unlock"
        <2>1. /\ Does(c, p, kind[c], fmt[c], str[c], num[c], ctx[c])
              /\ pc[c] = "next" /\ fmt[c] = <<>> /\ holder' = holder /\ open' = open
            BY <1>11, Ended
        <2>2. \/ kind[c] = "string" /\ p = "idle"
              \/ kind[c] = "dump" /\ p = "halted"
              \/ printing /\ p = "unlock"
            BY <1>4 DEF Kind
        <2> HIDE DEF p
        <2>3. LineOf(c, p, kind[c], fmt[c], str[c], holder', open')
            BY <1>3, <2>1, <2>2
        <2> QED
            BY <1>2, <1>3, <2>1, <2>3
    <1>12. CASE ConvertText(c)
        <2> DEFINE s == Head(fmt[c]).text
        <2>1. /\ Does(c, "put", kind[c], fmt[c], s, num[c], ctx[c])
              /\ pc[c] = "next" /\ fmt[c] # <<>> /\ holder' = holder /\ open' = open
            BY <1>12, TextConverted
        <2>2. printing => holder = c /\ Terminated(fmt[c])
            BY <1>3, <2>1
        <2>3. printing /\ Len(fmt[c]) = 1 => EndsLine(s) /\ s # <<>>
            BY <1>4, <2>2, LastIsText DEF EndsLine
        <2> HIDE DEF s
        <2>4. LineOf(c, "put", kind[c], fmt[c], s, holder', open')
            BY <2>1, <2>2, <2>3
        <2> QED
            BY <1>2, <1>3, <2>1, <2>4
    <1>13. CASE ConvertSize(c)
        <2>1. PICK g \in Seq(Piece) :
                  /\ Does(c, "next", kind[c], g, str[c], num[c], ctx[c])
                  /\ Terminated(fmt[c]) => Terminated(g)
                  /\ g # <<>> /\ pc[c] = "next" /\ fmt[c] # <<>>
                  /\ holder' = holder /\ open' = open
            BY <1>13, SizeConverted
        <2>2. LineOf(c, "next", kind[c], g, str[c], holder', open')
            BY <1>3, <2>1
        <2> QED
            BY <1>2, <1>3, <2>1, <2>2
    <1>14. CASE ConvertNumber(c)
        <2>1. /\ Does(c, "digit", kind[c], fmt[c], <<>>, Asked(Head(fmt[c])), ctx[c])
              /\ pc[c] = "next" /\ fmt[c] # <<>> /\ holder' = holder /\ open' = open
            BY <1>14, NumberConverted
        <2>2. LineOf(c, "digit", kind[c], fmt[c], <<>>, holder', open')
            BY <1>3, <2>1
        <2> QED
            BY <1>2, <1>3, <2>1, <2>2
    <1>15. CASE Digit(c) \/ Pad(c) \/ Sign(c)
        <2>1. PICK p \in Writing : \E s, n :
                  /\ Does(c, p, kind[c], fmt[c], s, n, ctx[c])
                  /\ pc[c] \in Writing /\ holder' = holder /\ open' = open
            <3>1. "digit" \in Writing /\ "pad" \in Writing /\ "number" \in Writing
                BY DEF Writing
            <3>2. CASE Digit(c)
                <4>1. PICK p \in {"digit", "pad"}, n \in Num, ch \in Char :
                          /\ Does(c, p, kind[c], fmt[c], <<ch>> \o str[c], n, ctx[c])
                          /\ pc[c] = "digit" /\ holder' = holder /\ open' = open
                    BY <3>2, Digited, Zenon
                <4>2. p \in Writing
                    BY <3>1
                <4> QED
                    BY <3>1, <4>1, <4>2, Zenon
            <3>3. CASE Pad(c)
                <4>1. PICK n \in Num, ch \in Char :
                          /\ Does(c, "pad", kind[c], fmt[c], <<ch>> \o str[c], n, ctx[c])
                          /\ pc[c] = "pad" /\ holder' = holder /\ open' = open
                    BY <3>3, Padded, Zenon
                <4> QED
                    BY <3>1, <4>1, Zenon
            <3>4. CASE Sign(c)
                BY <3>1, <3>4, Signs, Zenon
            <3> QED
                BY <1>15, <3>2, <3>3, <3>4
        <2>2. \A s : LineOf(c, p, kind[c], fmt[c], s, holder', open')
            BY <1>3, <2>1
        <2> QED
            BY <1>2, <1>3, <2>1, <2>2
    <1>16. CASE Put(c)
        <2> DEFINE t == Tail(str[c])
        <2>1. PICK x : Does(c, "put", kind[c], fmt[c], t, num[c], x)
            BY <1>16, PutOut
        <2>2. /\ pc[c] \in {"number", "put"} /\ str[c] # <<>> /\ fmt[c] # <<>>
              /\ holder' = holder
              /\ open' = IF printing
                         THEN IF Head(str[c]) = Newline THEN NoCPU ELSE c
                         ELSE open
            BY <1>16, PutOut
        <2>3. CASE ~printing
            <3>1. LineOf(c, "put", kind[c], fmt[c], t, holder', open')
                BY <2>3
            <3> QED
                BY <1>2, <1>3, <2>1, <2>2, <2>3, <3>1
        <2>4. CASE printing
            <3>1. holder = c /\ Terminated(fmt[c])
                BY <1>3, <2>2, <2>4
            <3>2. Len(fmt[c]) = 1 => IF t = <<>> THEN open' = NoCPU ELSE EndsLine(t)
                <4> SUFFICES ASSUME Len(fmt[c]) = 1
                             PROVE  IF t = <<>> THEN open' = NoCPU ELSE EndsLine(t)
                    OBVIOUS
                <4>1. Head(fmt[c]).conv = "text"
                    BY <1>4, <3>1, LastIsText
                <4>2. pc[c] = "put"
                    BY <1>4, <2>2, <4>1 DEF Converting
                <4>3. EndsLine(str[c])
                    BY <1>3, <2>2, <2>4, <4>2
                <4> QED
                    BY <1>4, <2>2, <2>4, <4>3, NewlineStays
            <3> HIDE DEF t
            <3>3. LineOf(c, "put", kind[c], fmt[c], t, holder', open')
                BY <2>2, <3>1, <3>2
            <3>4. open' # NoCPU => holder' = open'
                BY <2>2, <2>4, <3>1
            <3> QED
                BY <1>2, <2>1, <3>1, <3>3, <3>4
        <2> QED
            BY <2>3, <2>4
    <1>17. CASE Converted(c)
        <2> DEFINE g == Tail(fmt[c])
        <2>1. /\ Does(c, "next", kind[c], g, str[c], num[c], ctx[c])
              /\ pc[c] = "put" /\ str[c] = <<>> /\ fmt[c] # <<>>
              /\ holder' = holder /\ open' = open
            BY <1>17, Done
        <2>2. printing => holder = c /\ Terminated(fmt[c])
            BY <1>3, <2>1
        <2>3. CASE g = <<>>
            <3>1. Len(fmt[c]) = 1
                <4>1. Len(fmt[c]) \in Nat /\ Len(g) = Len(fmt[c]) - 1
                    BY <1>4, <2>1, Tails
                <4> HIDE DEF g
                <4>2. Len(g) = 0
                    BY <2>3
                <4> QED
                    BY <4>1, <4>2
            <3>2. printing => open = NoCPU
                BY <1>3, <2>1, <3>1
            <3> HIDE DEF g
            <3>3. LineOf(c, "next", kind[c], g, str[c], holder', open')
                BY <2>1, <2>2, <2>3, <3>2
            <3> QED
                BY <1>2, <1>3, <2>1, <3>3
        <2>4. CASE g # <<>>
            <3>1. printing => Terminated(g)
                BY <1>4, <2>2, <2>4, LastStays
            <3> HIDE DEF g
            <3>2. LineOf(c, "next", kind[c], g, str[c], holder', open')
                BY <2>1, <2>2, <2>4, <3>1
            <3> QED
                BY <1>2, <1>3, <2>1, <3>2
        <2> QED
            BY <2>3, <2>4
    <1>18. CASE Draw(c)
        <2>1. /\ Does(c, "wait", kind[c], fmt[c], str[c], num[c], ctx[c])
              /\ pc[c] = "lock" /\ holder' = holder /\ open' = open
            BY <1>18, Drawn
        <2>2. LineOf(c, "wait", kind[c], fmt[c], str[c], holder', open')
            BY <1>3, <2>1
        <2> QED
            BY <1>2, <1>3, <2>1, <2>2
    <1> QED
        BY <1>1, <1>6, <1>7, <1>8, <1>9, <1>10, <1>11, <1>12, <1>13, <1>14, <1>15, <1>16,
           <1>17, <1>18 DEF Step

-----------------------------------------------------------------------------
(* The buffer of kvsnprintf()                                              *)

LEMMA Cut ==
    ASSUME NEW s \in Seq(Char), NEW ch \in Char, NEW n \in 0 .. Len(s)
    PROVE  /\ SubSeq(Append(s, ch), 1, n) = SubSeq(s, 1, n)
           /\ n = Len(s) => SubSeq(s, 1, n) = s
           /\ SubSeq(s, 1, n) \in Seq(Char) /\ Len(SubSeq(s, 1, n)) = n
    OBVIOUS

LEMMA BufferedStored ==
    ASSUME NEW x \in Buffer, NEW ch \in Char, Buffered(x)
    PROVE  Buffered(Stored(x, ch))
    <1> DEFINE n == Len(x.given)
               y == Stored(x, ch)
    <1>1. /\ x.room \in Nat /\ x.size \in Nat /\ x.buffer \in Seq(Char) /\ x.given \in Seq(Char)
          /\ n \in Nat
        BY DEF Buffer
    <1>2. /\ y.size = x.size /\ y.given = Append(x.given, ch)
          /\ y.room = IF x.room = 0 THEN 0 ELSE x.room - 1
          /\ y.buffer = IF x.room = 0 THEN x.buffer
                        ELSE Append(x.buffer, IF x.room = 1 THEN NUL ELSE ch)
        BY Stores
    <1>3. Len(y.given) = n + 1
        BY <1>1, <1>2, Appended
    <1>4. /\ x.size = 0 => x.room = 0 /\ x.buffer = <<>>
          /\ n < x.size => x.room = x.size - n /\ x.buffer = x.given
          /\ n >= x.size /\ x.size > 0 =>
                x.room = 0 /\ x.buffer = Append(SubSeq(x.given, 1, x.size - 1), NUL)
        BY DEF Buffered
    <1> HIDE DEF y
    <1> SUFFICES /\ x.size = 0 => y.room = 0 /\ y.buffer = <<>>
                 /\ n + 1 < x.size => y.room = x.size - (n + 1) /\ y.buffer = y.given
                 /\ n + 1 >= x.size /\ x.size > 0 =>
                       y.room = 0 /\ y.buffer = Append(SubSeq(y.given, 1, x.size - 1), NUL)
        BY <1>2, <1>3 DEF Buffered, y
    <1>5. CASE x.size = 0
        BY <1>1, <1>2, <1>4, <1>5
    <1>6. CASE n + 1 < x.size
        <2>1. n < x.size /\ x.size - n # 0 /\ x.size - n # 1
            BY <1>1, <1>6
        <2>2. x.room # 0 /\ x.room # 1 /\ x.room = x.size - n
            BY <2>1, <1>4
        <2>3. y.buffer = y.given
            BY <2>1, <2>2, <1>2, <1>4
        <2>4. y.room = x.size - (n + 1)
            BY <2>2, <1>1, <1>2
        <2> QED
            BY <2>3, <2>4, <1>1, <1>6
    <1>7. CASE n + 1 = x.size
        <2>1. n < x.size /\ x.size - n = 1 /\ x.size - 1 = n /\ n \in 0 .. n
            BY <1>1, <1>7
        <2>2. x.room = 1 /\ x.buffer = x.given
            BY <2>1, <1>4
        <2>3. y.room = 0 /\ y.buffer = Append(x.given, NUL)
            BY <2>2, <1>2
        <2>4. SubSeq(y.given, 1, n) = x.given
            BY <2>1, <1>1, <1>2, Cut
        <2>5. ~(n + 1 < x.size) /\ x.size # 0
            BY <1>1, <1>7
        <2> QED
            BY <2>1, <2>3, <2>4, <2>5, Zenon
    <1>8. CASE n >= x.size /\ x.size > 0
        <2>1. x.size - 1 \in 0 .. n
            BY <1>1, <1>8
        <2>2. SubSeq(y.given, 1, x.size - 1) = SubSeq(x.given, 1, x.size - 1)
            BY <2>1, <1>1, <1>2, Cut
        <2>3. y.room = 0 /\ y.buffer = x.buffer
            BY <1>2, <1>4, <1>8
        <2>4. ~(n + 1 < x.size) /\ x.size # 0
            BY <1>1, <1>8
        <2>5. y.room = 0 /\ y.buffer = Append(SubSeq(x.given, 1, x.size - 1), NUL)
            BY <2>3, <1>4, <1>8, <1>2, Zenon
        <2> QED
            BY <2>2, <2>4, <2>5, Zenon
    <1> QED
        BY <1>1, <1>5, <1>6, <1>7, <1>8

LEMMA BufferInit == Init => BufferInv
    <1>1. Len(NoBuffer.given) = 0 /\ NoBuffer.buffer = NoBuffer.given /\ NoBuffer.size = 0
          /\ NoBuffer.room = 0 /\ NoBuffer.buffer = <<>>
        BY DEF NoBuffer
    <1>2. Buffered(NoBuffer)
        BY <1>1 DEF Buffered
    <1>3. Init => \A c \in CPU : ctx[c] = NoBuffer
        BY DEF Init
    <1> QED
        BY <1>2, <1>3, Zenon DEF BufferInv

LEMMA BufferStep ==
    ASSUME TypeInv, BufferInv, Next
    PROVE  BufferInv'
    <1>1. PICK c \in CPU : \/ (\E f \in Lines : Line(c, f))
                           \/ (\E s \in Strings : String(c, s[1], s[2]))
                           \/ \E failed \in BOOLEAN : Except(c, failed)
                           \/ Step(c)
        BY Zenon DEF Next
    <1>2. ASSUME NEW p, NEW k, NEW f, NEW s, NEW n, NEW x,
                 Does(c, p, k, f, s, n, x), Buffered(x)
          PROVE  BufferInv'
        BY <1>2, BuffersAt
    <1>3. Buffered(ctx[c]) /\ ctx[c] \in Buffer
        BY Of DEF BufferInv, Typed
    <1>4. ASSUME \E p, k, f, s, n : Does(c, p, k, f, s, n, ctx[c])
          PROVE  BufferInv'
        BY <1>2, <1>3, <1>4
    <1>5. CASE \E f \in Lines : Line(c, f)
        BY <1>4, <1>5, Lined
    <1>6. CASE \E s \in Strings : String(c, s[1], s[2])
        <2>1. PICK s \in Strings : String(c, s[1], s[2])
            BY <1>6
        <2> DEFINE x == [room |-> s[2], buffer |-> <<>>, given |-> <<>>, size |-> s[2]]
        <2>2. Does(c, "next", "string", s[1], str[c], num[c], x) /\ s[2] \in Nat
            BY <2>1, Stringed
        <2>3. Buffered(x)
            BY <2>2 DEF Buffered
        <2> HIDE DEF x
        <2> QED
            BY <1>2, <2>2, <2>3
    <1>7. CASE \E failed \in BOOLEAN : Except(c, failed)
        BY <1>4, <1>7, Excepted
    <1>8. CASE Put(c)
        <2> DEFINE x == IF kind[c] = "string" THEN Stored(ctx[c], Head(str[c])) ELSE ctx[c]
        <2>1. /\ Does(c, "put", kind[c], fmt[c], Tail(str[c]), num[c], x)
              /\ Head(str[c]) \in Char
            BY <1>8, PutOut
        <2>2. Buffered(x)
            BY <2>1, <1>3, BufferedStored
        <2> HIDE DEF x
        <2> QED
            BY <1>2, <2>1, <2>2
    <1>9. CASE Step(c) /\ ~Put(c)
        BY <1>4, <1>9, Drawn, Locked, Unlocked, Ended, TextConverted, SizeConverted,
           NumberConverted, Digited, Padded, Signs, Done, ZenonT(60) DEF Step
    <1> QED
        BY <1>1, <1>5, <1>6, <1>7, <1>8, <1>9

-----------------------------------------------------------------------------
(* The buffer of num_fmt()                                                 *)

LEMMA PaddingOfTail ==
    ASSUME NEW f \in Seq(Piece), f # <<>>, PaddingsFit(f)
    PROVE  PaddingsFit(Tail(f)) /\ (Head(f).conv # "text" => Head(f).padding + 1 < NumBuf)
    <1> DEFINE t == Tail(f)
    <1>1. /\ Len(f) \in Nat \ {0} /\ Len(t) = Len(f) - 1 /\ Head(f) = f[1]
          /\ \A i \in 1 .. Len(f) - 1 : t[i] = f[i + 1]
        BY Tails
    <1> HIDE DEF t
    <1>2. ASSUME NEW i \in 1 .. Len(t), t[i].conv # "text"
          PROVE  t[i].padding + 1 < NumBuf
        <2>1. i \in 1 .. Len(f) - 1 /\ i + 1 \in 1 .. Len(f)
            BY <1>1
        <2>2. t[i] = f[i + 1]
            BY <1>1, <2>1, Zenon
        <2> QED
            BY <2>1, <2>2, <1>2 DEF PaddingsFit
    <1>3. PaddingsFit(t)
        BY <1>2 DEF PaddingsFit
    <1>4. Head(f).conv # "text" => Head(f).padding + 1 < NumBuf
        <2>1. 1 \in 1 .. Len(f)
            BY <1>1
        <2> QED
            BY <1>1, <2>1 DEF PaddingsFit
    <1> QED
        BY <1>3, <1>4 DEF t

LEMMA BitsRange ==
    ASSUME NEW n \in Num
    PROVE  /\ Bits(n) \in 1 .. LongBits /\ (n.neg => Bits(n) < LongBits)
           /\ \A m \in Num : m.neg = n.neg => Bits(m) = Bits(n)
    <1>1. n.neg \in BOOLEAN
        BY DEF Num
    <1>2. CASE n.neg
        <2>1. Bits(n) = IntBits
            BY <1>2, Zenon DEF Bits
        <2>2. \A m \in Num : m.neg = n.neg => Bits(m) = Bits(n)
            BY Zenon DEF Bits
        <2> QED
            BY <2>1, <2>2, Widths
    <1>3. CASE ~n.neg
        <2>1. Bits(n) = LongBits
            BY <1>3, Zenon DEF Bits
        <2>2. \A m \in Num : m.neg = n.neg => Bits(m) = Bits(n)
            BY Zenon DEF Bits
        <2>3. LongBits \in 1 .. LongBits
            BY Widths
        <2> QED
            BY <1>3, <2>1, <2>2, <2>3, Zenon
    <1> QED
        BY <1>1, <1>2, <1>3

\* A digit fewer, and what is left is less than half of what there was.
LEMMA Halved ==
    ASSUME NEW b \in 1 .. LongBits, NEW l \in Nat, l < b,
           NEW i \in Nat, NEW j \in Nat, i < 2 ^ (b - l), 2 * j <= i, j # 0
    PROVE  l + 1 < b /\ j < 2 ^ (b - (l + 1))
    <1> DEFINE e == b - (l + 1)
    <1>1. LongBits \in Nat
        BY Widths
    <1>2. e \in 0 .. LongBits /\ e + 1 = b - l
        BY <1>1
    <1> HIDE DEF e
    <1>3. 2 ^ e \in Nat /\ 2 ^ (e + 1) = 2 * 2 ^ e
        BY <1>2, Power
    <1>4. j < 2 ^ e
        BY <1>2, <1>3
    <1>5. e # 0
        <2> SUFFICES ASSUME e = 0 PROVE FALSE
            OBVIOUS
        <2>1. 2 ^ e = 1
            BY PowerAssumption
        <2> QED
            BY <2>1, <1>4
    <1> QED
        BY <1>2, <1>4, <1>5 DEF e

LEMMA NumberInit == Init => NumberInv
    <1> SUFFICES ASSUME Init PROVE NumberInv
        OBVIOUS
    <1>1. ASSUME NEW c \in CPU PROVE PaddingsFit(fmt[c]) /\ pc[c] = "idle"
        BY DEF Init, PaddingsFit
    <1> QED
        BY <1>1 DEF NumberInv, NumberOf

\* A step outside num_fmt(), or out of it: what is left of the format fits.
LEMMA Outside ==
    ASSUME NEW p, p \notin Writing, NEW f, NEW s, NEW n, PaddingsFit(f)
    PROVE  NumberOf(p, f, s, n)
    BY DEF NumberOf, Writing

\* One digit, one character of padding, the sign.
LEMMA DigitFits ==
    ASSUME NEW f, NEW s \in Seq(Char), NEW ch \in Char, NEW m \in Num, NEW n \in Num,
           NEW p \in {"digit", "pad"}, NumberOf("digit", f, s, m),
           n.i = m.i \div m.base, n.padding = Less(m.padding), n.neg = m.neg,
           p = "digit" => n.i # 0
    PROVE  NumberOf(p, f, <<ch>> \o s, n)
    <1> DEFINE l == Len(s)
               t == <<ch>> \o s
               b == Bits(m)
    <1>1. /\ l \in Nat /\ Len(t) = l + 1
        BY Fronted
    <1>2. /\ b \in 1 .. LongBits /\ Bits(n) = b
        BY BitsRange
    <1>3. /\ 2 * n.i <= m.i /\ n.i \in Nat /\ m.i \in Nat /\ m.padding \in Nat
        BY Divided, Limits
    <1>4. /\ PaddingsFit(f) /\ l < b /\ m.i < 2 ^ (b - l)
          /\ m.padding > 0 => l + m.padding + 1 < NumBuf
        BY DEF NumberOf
    <1> HIDE DEF t, l, b
    <1>5. p = "digit" => Len(t) < b /\ n.i < 2 ^ (b - Len(t))
        BY <1>1, <1>2, <1>3, <1>4, Halved
    <1>6. n.padding > 0 => Len(t) + n.padding + 1 < NumBuf
        <2> SUFFICES ASSUME n.padding > 0 PROVE Len(t) + n.padding + 1 < NumBuf
            OBVIOUS
        <2>1. m.padding > 0 /\ n.padding = m.padding - 1
            BY <1>3 DEF Less
        <2> QED
            BY <2>1, <1>1, <1>3, <1>4, Widths
    <1>7. Len(t) <= b
        BY <1>1, <1>2, <1>4, Widths
    <1> QED
        BY <1>2, <1>4, <1>5, <1>6, <1>7 DEF NumberOf, t

LEMMA PadFits ==
    ASSUME NEW f, NEW s \in Seq(Char), NEW ch \in Char, NEW m \in Num, NEW n \in Num,
           NumberOf("pad", f, s, m), m.padding > 0, n.padding = m.padding - 1
    PROVE  NumberOf("pad", f, <<ch>> \o s, n)
    <1> DEFINE l == Len(s)
               t == <<ch>> \o s
    <1>1. /\ l \in Nat /\ Len(t) = l + 1
        BY Fronted
    <1>2. PaddingsFit(f) /\ l + m.padding + 1 < NumBuf
        BY DEF NumberOf
    <1>3. m.padding \in Nat /\ NumBuf \in Nat
        BY Widths DEF Num
    <1> HIDE DEF t, l
    <1>4. Len(t) + n.padding + 1 < NumBuf
        BY <1>1, <1>2, <1>3
    <1>5. Len(t) + 1 < NumBuf
        BY <1>1, <1>2, <1>3
    <1> QED
        BY <1>2, <1>4, <1>5 DEF NumberOf, t

LEMMA SignFits ==
    ASSUME NEW f, NEW s \in Seq(Char), NEW n \in Num, NumberOf("pad", f, s, n),
           LongBits < NumBuf
    PROVE  NumberOf("number", f, IF n.neg THEN <<"-">> \o s ELSE s, n)
    <1> DEFINE l == Len(s)
               t == <<"-">> \o s
    <1>1. l \in Nat /\ Len(t) = l + 1
        <2>1. "-" \in Char
            BY Chars
        <2> QED
            BY <2>1, Fronted
    <1>2. PaddingsFit(f) /\ (l <= Bits(n) \/ l + 1 < NumBuf)
        BY DEF NumberOf
    <1>3. Bits(n) \in 1 .. LongBits /\ (n.neg => Bits(n) < LongBits) /\ LongBits \in Nat
          /\ NumBuf \in Nat
        BY BitsRange, Widths
    <1> HIDE DEF l, t
    <1>4. CASE n.neg
        <2>1. Bits(n) < LongBits
            BY <1>3, <1>4, Zenon
        <2>2. Len(t) < NumBuf
            BY <2>1, <1>1, <1>2, <1>3
        <2>3. NumberOf("number", f, t, n)
            BY <2>2, <1>2 DEF NumberOf
        <2> QED
            BY <2>3, <1>4, Zenon DEF t
    <1>5. CASE ~n.neg
        <2>1. l < NumBuf
            BY <1>1, <1>2, <1>3
        <2>2. NumberOf("number", f, s, n)
            BY <2>1, <1>2 DEF NumberOf, l
        <2> QED
            BY <2>2, <1>5, Zenon
    <1> QED
        BY <1>4, <1>5

LEMMA RequestFits ==
    ASSUME NEW f \in Seq(Piece), f # <<>>, PaddingsFit(f), Head(f).conv \in Numeric
    PROVE  NumberOf("digit", f, <<>>, Asked(Head(f)))
    <1> DEFINE n == Asked(Head(f))
    <1>1. Head(f) \in Piece /\ Head(f).conv # "text"
        <2>1. Head(f) \in Piece
            BY Tails, Zenon
        <2> QED
            BY <2>1 DEF Numeric
    <1>2. n \in Num /\ n.i < 2 ^ Bits(n) /\ n.padding = Head(f).padding
        BY <1>1, Requests
    <1>3. n.padding + 1 < NumBuf
        BY <1>1, <1>2, PaddingOfTail
    <1> HIDE DEF n
    <1>4. Bits(n) \in 1 .. LongBits /\ n.padding \in Nat /\ LongBits \in Nat
        BY <1>2, BitsRange, Widths DEF Num
    <1>5. Len(<<>>) = 0
        OBVIOUS
    <1>6. Bits(n) - 0 = Bits(n) /\ 0 < Bits(n) /\ 0 + n.padding + 1 = n.padding + 1
        BY <1>4
    <1>7. NumberOf("digit", f, <<>>, n)
        BY <1>2, <1>3, <1>5, <1>6 DEF NumberOf
    <1> QED
        BY <1>7 DEF n

LEMMA NumberStep ==
    ASSUME NumBufFits, TypeInv, NumberInv, Next
    PROVE  NumberInv'
    <1>1. PICK c \in CPU : \/ (\E f \in Lines : Line(c, f))
                           \/ (\E s \in Strings : String(c, s[1], s[2]))
                           \/ \E failed \in BOOLEAN : Except(c, failed)
                           \/ Step(c)
        BY Zenon DEF Next
    <1>2. ASSUME NEW p, NEW k, NEW f, NEW s, NEW n, NEW x,
                 Does(c, p, k, f, s, n, x), NumberOf(p, f, s, n)
          PROVE  NumberInv'
        BY <1>2, NumbersAt
    <1>3. /\ fmt[c] \in Seq(Piece) /\ str[c] \in Seq(Char)
          /\ NumberOf(pc[c], fmt[c], str[c], num[c])
          /\ Converting(pc[c], fmt[c], num[c])
        BY Of DEF NumberInv, Typed
    <1>4. PaddingsFit(fmt[c])
        BY <1>3 DEF NumberOf
    <1>5. {"idle", "lock", "wait", "unlock", "halted", "next", "put"} \cap Writing = {}
        BY DEF Writing
    <1>6. ASSUME \E p \in {"idle", "lock", "wait", "unlock", "halted", "next", "put"} :
                     \E k, f, s, n, x : Does(c, p, k, f, s, n, x) /\ PaddingsFit(f)
          PROVE  NumberInv'
        BY <1>2, <1>5, <1>6, Outside
    <1>7. PaddingsFit(Dump)
        BY Reports DEF Dump
    <1>8. LongBits < NumBuf /\ NumBuf > 1
        BY Widths DEF NumBufFits
    <1>9. CASE \E f \in Lines : Line(c, f)
        <2>1. PICK f \in Lines : Line(c, f)
            BY <1>9
        <2>2. PaddingsFit(f)
            BY Zenon DEF NumBufFits
        <2> QED
            BY <2>1, <2>2, <1>6, Lined
    <1>10. CASE \E s \in Strings : String(c, s[1], s[2])
        <2>1. PICK s \in Strings : String(c, s[1], s[2])
            BY <1>10
        <2>2. PaddingsFit(s[1])
            BY Zenon DEF NumBufFits
        <2> QED
            BY <2>1, <2>2, <1>6, Stringed
    <1>11. CASE \E failed \in BOOLEAN : Except(c, failed)
        BY <1>6, <1>7, <1>11, Excepted
    <1>12. CASE Lock(c)
        BY <1>4, <1>6, <1>12, Locked
    <1>13. CASE Unlock(c)
        BY <1>4, <1>6, <1>7, <1>13, Unlocked
    <1>14. CASE End(c)
        BY <1>4, <1>6, <1>14, Ended
    <1>15. CASE ConvertText(c)
        BY <1>4, <1>6, <1>15, TextConverted
    <1>16. CASE ConvertSize(c)
        BY <1>4, <1>6, <1>8, <1>16, SizeConverted
    <1>17. CASE ConvertNumber(c)
        <2>1. /\ Does(c, "digit", kind[c], fmt[c], <<>>, Asked(Head(fmt[c])), ctx[c])
              /\ fmt[c] # <<>> /\ Head(fmt[c]).conv \in Numeric
            BY <1>17, NumberConverted
        <2>2. NumberOf("digit", fmt[c], <<>>, Asked(Head(fmt[c])))
            BY <2>1, <1>3, <1>4, RequestFits
        <2> QED
            BY <1>2, <2>1, <2>2
    <1>18. CASE Digit(c)
        <2>1. PICK p \in {"digit", "pad"}, n \in Num, ch \in Char :
                  /\ Does(c, p, kind[c], fmt[c], <<ch>> \o str[c], n, ctx[c])
                  /\ n.i = num[c].i \div num[c].base /\ n.padding = Less(num[c].padding)
                  /\ n.neg = num[c].neg /\ (p = "digit" => n.i # 0)
                  /\ num[c] \in Num /\ pc[c] = "digit"
            BY <1>18, Digited, ZenonT(60)
        <2>2. NumberOf(p, fmt[c], <<ch>> \o str[c], n)
            BY <2>1, <1>3, DigitFits
        <2> QED
            BY <1>2, <2>1, <2>2
    <1>19. CASE Pad(c)
        <2>1. PICK n \in Num, ch \in Char :
                  /\ Does(c, "pad", kind[c], fmt[c], <<ch>> \o str[c], n, ctx[c])
                  /\ n.padding = num[c].padding - 1
                  /\ num[c] \in Num /\ pc[c] = "pad" /\ num[c].padding > 0
            BY <1>19, Padded
        <2>2. NumberOf("pad", fmt[c], <<ch>> \o str[c], n)
            BY <2>1, <1>3, PadFits
        <2> QED
            BY <1>2, <2>1, <2>2
    <1>20. CASE Sign(c)
        <2>1. num[c] \in Num /\ pc[c] = "pad"
            BY <1>3, <1>20, Signs DEF Converting, Writing
        <2>2. NumberOf("number", fmt[c], IF num[c].neg THEN <<"-">> \o str[c] ELSE str[c],
                       num[c])
            BY <2>1, <1>3, <1>8, SignFits
        <2> QED
            BY <2>2, <1>2, <1>20, Signs
    <1>21. CASE Put(c)
        BY <1>4, <1>6, <1>21, PutOut
    <1>22. CASE Converted(c)
        BY <1>4, <1>6, <1>22, Done, PaddingOfTail
    <1>23. CASE Draw(c)
        BY <1>4, <1>6, <1>23, Drawn
    <1> QED
        BY <1>1, <1>9, <1>10, <1>11, <1>12, <1>13, <1>14, <1>15, <1>16, <1>17, <1>18,
           <1>19, <1>20, <1>21, <1>22, <1>23 DEF Step

-----------------------------------------------------------------------------
(* What a number denotes                                                   *)

\* What a digit is worth, and that none is a sign.
LEMMA Worth ==
    /\ \A i \in 1 .. 16 : Value(Digits[i]) = i - 1
    /\ Value(" ") = 0 /\ Value("0") = 0 /\ "0" \in Numerals /\ " " \in Numerals
    /\ \A ch \in Numerals : Value(ch) \in Nat /\ ch # "-"
    /\ \A i \in 1 .. 16 : Digits[i] = "0" => i = 1
    <1>1. DOMAIN Digits = 1 .. 16
        BY DEF Digits
    <1>2. \A i, j \in 1 .. 16 : Digits[i] = Digits[j] => i = j
        BY DEF Digits
    <1>3. \A i \in 1 .. 16 : Digits[i] # " " /\ Digits[i] # "-"
        <2>1. \A i \in 1 .. 16 : Digits[i] \in {"0", "1", "2", "3", "4", "5", "6", "7", "8",
                                               "9", "a", "b", "c", "d", "e", "f"}
            BY DEF Digits
        <2>2. \A ch \in {"0", "1", "2", "3", "4", "5", "6", "7", "8", "9", "a", "b", "c", "d",
                          "e", "f"} : ch # " " /\ ch # "-"
            OBVIOUS
        <2> QED
            BY <2>1, <2>2, Zenon
    <1>4. Digits[1] = "0"
        BY DEF Digits
    <1>5. ASSUME NEW i \in 1 .. 16 PROVE Value(Digits[i]) = i - 1
        <2>1. (CHOOSE d \in DOMAIN Digits : Digits[d] = Digits[i]) = i
            BY <1>1, <1>2
        <2> QED
            BY <2>1, <1>3 DEF Value
    <1>6. Value(" ") = 0
        BY DEF Value
    <1>7. 1 \in 1 .. 16
        OBVIOUS
    <1>8. Value("0") = 0
        BY <1>4, <1>5, <1>7
    <1>9. "0" \in Numerals /\ " " \in Numerals
        BY <1>4, <1>7 DEF Numerals
    <1>10. ASSUME NEW ch \in Numerals PROVE Value(ch) \in Nat /\ ch # "-"
        <2>1. CASE ch = " "
            <3>1. Value(ch) = 0
                BY <2>1, <1>6, Zenon
            <3>2. ch # "-"
                BY <2>1
            <3> QED
                BY <3>1, <3>2
        <2>2. CASE ch # " "
            <3>1. PICK i \in 1 .. 16 : ch = Digits[i]
                BY <2>2 DEF Numerals
            <3>2. Value(ch) = i - 1
                BY <3>1, <1>5
            <3>3. Value(ch) \in Nat
                BY <3>2
            <3> QED
                BY <3>1, <3>3, <1>3, Zenon
        <2> QED
            BY <2>1, <2>2
    <1>11. \A i \in 1 .. 16 : Digits[i] = "0" => i = 1
        BY <1>2, <1>4, <1>7
    <1> QED
        BY <1>5, <1>6, <1>8, <1>9, <1>10, <1>11

\* A number after each of the digits: what the recursion of Denoted computes.
Sums(n, s, base, m, f) ==
    /\ f \in [0 .. m -> Nat] /\ f[0] = n
    /\ \A k \in 1 .. m : f[k] = f[k - 1] * base + Value(s[k])

\* By induction: the least m without them would be one more than one with them.
LEMMA SumsExist ==
    ASSUME NEW n \in Nat, NEW base \in Nat, NEW s \in Seq(Numerals)
    PROVE  \E f : Sums(n, s, base, Len(s), f)
    <1> DEFINE S == {m \in Nat : m <= Len(s) /\ ~\E f : Sums(n, s, base, m, f)}
    <1>1. Len(s) \in Nat
        OBVIOUS
    <1>2. S = {}
        <2> SUFFICES ASSUME S # {} PROVE FALSE
            OBVIOUS
        <2>1. PICK m \in S : \A j \in S : m <= j
            BY Least
        <2>2. m \in Nat /\ m <= Len(s) /\ ~\E f : Sums(n, s, base, m, f)
            OBVIOUS
        <2>3. m # 0
            <3>1. Sums(n, s, base, 0, [k \in 0 .. 0 |-> n])
                BY DEF Sums
            <3> QED
                BY <3>1, <2>2
        <2>4. m - 1 \in Nat /\ m - 1 < m /\ m - 1 <= Len(s)
            BY <2>2, <2>3, <1>1
        <2>5. \E f : Sums(n, s, base, m - 1, f)
            BY <2>1, <2>2, <2>4
        <2>6. PICK f : Sums(n, s, base, m - 1, f)
            BY <2>5
        <2> DEFINE g == [k \in 0 .. m |-> IF k < m THEN f[k] ELSE f[m - 1] * base + Value(s[m])]
        <2>7. f \in [0 .. m - 1 -> Nat] /\ f[0] = n
              /\ \A k \in 1 .. m - 1 : f[k] = f[k - 1] * base + Value(s[k])
            BY <2>6 DEF Sums
        <2>8. f[m - 1] * base + Value(s[m]) \in Nat
            <3>1. s[m] \in Numerals
                BY <2>2, <2>3, <1>1
            <3>2. Value(s[m]) \in Nat
                BY <3>1, Worth, Zenon
            <3>3. f[m - 1] \in Nat
                BY <2>4, <2>7
            <3> QED
                BY <3>2, <3>3
        <2>9. g \in [0 .. m -> Nat]
            BY <2>2, <2>7, <2>8
        <2>10. g[0] = n
            BY <2>2, <2>3, <2>7
        <2>11. ASSUME NEW k \in 1 .. m PROVE g[k] = g[k - 1] * base + Value(s[k])
            <3>1. CASE k = m
                <4>1. g[k] = f[m - 1] * base + Value(s[m]) /\ g[k - 1] = f[m - 1]
                    BY <3>1, <2>2, <2>3
                <4> QED
                    BY <4>1, <3>1
            <3>2. CASE k # m
                <4>1. k \in 1 .. m - 1 /\ g[k] = f[k] /\ g[k - 1] = f[k - 1]
                    BY <3>2, <2>2, <2>3
                <4> QED
                    BY <4>1, <2>7
            <3> QED
                BY <3>1, <3>2
        <2>12. Sums(n, s, base, m, g)
            BY <2>9, <2>10, <2>11 DEF Sums
        <2> QED
            BY <2>12, <2>2
    <1>3. Len(s) \notin S
        BY <1>2
    <1> QED
        BY <1>1, <1>3

\* The recursion has one solution.
LEMMA SumsDenoted ==
    ASSUME NEW n \in Nat, NEW base \in Nat, NEW s \in Seq(Numerals),
           NEW f, Sums(n, s, base, Len(s), f)
    PROVE  Denoted(n, s, base) = f[Len(s)]
    <1> DEFINE L == Len(s)
               Once(v) == [k \in 0 .. L |-> IF k = 0 THEN n ELSE v[k - 1] * base + Value(s[k])]
               g == CHOOSE v : v = Once(v)
    <1>1. L \in Nat
        OBVIOUS
    <1>2. Denoted(n, s, base) = g[L]
        BY DEF Denoted
    <1>3. f \in [0 .. L -> Nat] /\ f[0] = n
          /\ \A k \in 1 .. L : f[k] = f[k - 1] * base + Value(s[k])
        BY DEF Sums
    <1> HIDE DEF L
    <1>4. f = Once(f)
        <2>1. ASSUME NEW k \in 0 .. L PROVE f[k] = Once(f)[k]
            <3>1. CASE k = 0
                BY <3>1, <1>3
            <3>2. CASE k # 0
                <4>1. k \in 1 .. L
                    BY <3>2, <1>1
                <4>2. f[k] = f[k - 1] * base + Value(s[k])
                    BY <4>1, <1>3
                <4> QED
                    BY <4>2, <3>2
            <3> QED
                BY <3>1, <3>2
        <2>2. f = [k \in 0 .. L |-> f[k]]
            BY <1>3
        <2> QED
            BY <2>1, <2>2
    <1>5. g = Once(g)
        <2> HIDE DEF Once
        <2> QED
            BY <1>4
    <1> HIDE DEF g
    <1>6. g[0] = n /\ \A k \in 1 .. L : g[k] = g[k - 1] * base + Value(s[k])
        <2>1. 0 \in 0 .. L
            BY <1>1
        <2>2. \A k \in 0 .. L : g[k] = Once(g)[k]
            BY <1>5, Zenon
        <2>3. \A k \in 0 .. L : g[k] = IF k = 0 THEN n ELSE g[k - 1] * base + Value(s[k])
            BY <2>2
        <2> QED
            BY <2>1, <2>3, <1>1
    <1> DEFINE S == {k \in Nat : k <= L /\ g[k] # f[k]}
    <1>7. S = {}
        <2> SUFFICES ASSUME S # {} PROVE FALSE
            OBVIOUS
        <2>1. PICK k \in S : \A j \in S : k <= j
            BY Least
        <2>2. k \in Nat /\ k <= L /\ g[k] # f[k]
            OBVIOUS
        <2>3. k # 0
            BY <2>2, <1>3, <1>6
        <2>4. k \in 1 .. L /\ k - 1 \in Nat /\ k - 1 <= L /\ ~(k <= k - 1)
            BY <2>2, <2>3, <1>1
        <2>5. g[k - 1] = f[k - 1]
            BY <2>1, <2>4
        <2>6. g[k] = g[k - 1] * base + Value(s[k]) /\ f[k] = f[k - 1] * base + Value(s[k])
            BY <2>4, <1>3, <1>6
        <2> QED
            BY <2>2, <2>5, <2>6, Zenon
    <1>8. L \notin S
        BY <1>7
    <1>9. g[L] = f[L]
        BY <1>8, <1>1
    <1> QED
        BY <1>2, <1>9 DEF L

\* No digits denote the number before them.
LEMMA DenotedNone ==
    ASSUME NEW n \in Nat, NEW base \in Nat
    PROVE  Denoted(n, <<>>, base) = n
    <1>1. PICK s : s = <<>>
        OBVIOUS
    <1>2. s \in Seq(Numerals) /\ Len(s) = 0
        BY <1>1
    <1>3. PICK f : Sums(n, s, base, Len(s), f)
        BY <1>2, SumsExist
    <1>4. f[Len(s)] = n
        BY <1>2, <1>3 DEF Sums
    <1>5. Denoted(n, s, base) = f[Len(s)]
        BY <1>2, <1>3, SumsDenoted
    <1> QED
        BY <1>1, <1>4, <1>5

\* A digit in front of others goes with the number before it.
LEMMA DenotedFront ==
    ASSUME NEW n \in Nat, NEW base \in Nat, NEW s \in Seq(Numerals), NEW ch \in Numerals
    PROVE  Denoted(n, <<ch>> \o s, base) = Denoted(n * base + Value(ch), s, base)
    <1> DEFINE t == <<ch>> \o s
               i == n * base + Value(ch)
               L == Len(s)
    <1>1. L \in Nat
        OBVIOUS
    <1>2. t \in Seq(Numerals)
        OBVIOUS
    <1>3. Len(t) = L + 1
        OBVIOUS
    <1>4. t[1] = ch
        OBVIOUS
    <1>5. \A k \in 2 .. L + 1 : t[k] = s[k - 1]
        OBVIOUS
    <1>6. i \in Nat
        <2>1. Value(ch) \in Nat
            BY Worth, Zenon
        <2> QED
            BY <2>1
    <1>7. PICK f : Sums(i, s, base, L, f)
        <2> HIDE DEF i
        <2> QED
            BY <1>6, SumsExist
    <1>8. Denoted(i, s, base) = f[L]
        <2> HIDE DEF i
        <2> QED
            BY <1>6, <1>7, SumsDenoted
    <1>9. f \in [0 .. L -> Nat] /\ f[0] = i
          /\ \A k \in 1 .. L : f[k] = f[k - 1] * base + Value(s[k])
        BY <1>7 DEF Sums
    <1> HIDE DEF L, t
    <1> DEFINE g == [k \in 0 .. L + 1 |-> IF k = 0 THEN n ELSE f[k - 1]]
    <1>10. g \in [0 .. L + 1 -> Nat] /\ g[0] = n
        BY <1>1, <1>9
    <1>11. ASSUME NEW k \in 1 .. L + 1 PROVE g[k] = g[k - 1] * base + Value(t[k])
        <2>1. CASE k = 1
            <3>1. g[k] = f[0] /\ g[k - 1] = n
                BY <2>1, <1>1
            <3> QED
                BY <3>1, <2>1, <1>4, <1>9
        <2>2. CASE k # 1
            <3>1. k \in 2 .. L + 1 /\ k - 1 \in 1 .. L
                BY <2>2, <1>1
            <3>2. g[k] = f[k - 1] /\ g[k - 1] = f[(k - 1) - 1]
                BY <3>1, <1>1
            <3>3. f[k - 1] = f[(k - 1) - 1] * base + Value(s[k - 1])
                BY <3>1, <1>9
            <3> QED
                BY <3>1, <3>2, <3>3, <1>5
        <2> QED
            BY <2>1, <2>2
    <1>12. Sums(n, t, base, Len(t), g)
        <2> HIDE DEF g
        <2> QED
            BY <1>3, <1>10, <1>11 DEF Sums
    <1>13. g[L + 1] = f[L]
        BY <1>1
    <1>14. Denoted(n, t, base) = g[L + 1]
        <2> HIDE DEF g
        <2> QED
            BY <1>2, <1>3, <1>12, SumsDenoted
    <1> QED
        BY <1>8, <1>13, <1>14 DEF t

\* So the digit that a division leaves, and the padding before nothing.
LEMMA DigitDenoted ==
    ASSUME NEW i \in Nat, NEW base \in {2, 10, 16}, NEW s \in Seq(Numerals)
    PROVE  LET ch == Digits[(i % base) + 1]
           IN  /\ ch \in Numerals /\ <<ch>> \o s \in Seq(Numerals)
               /\ Denoted(i \div base, <<ch>> \o s, base) = Denoted(i, s, base)
               /\ (<<ch>> \o s)[1] = ch /\ (ch = "0" => i % base = 0)
    <1> DEFINE q == i \div base
               r == i % base
               ch == Digits[r + 1]
    <1>1. base \in Nat /\ base > 1 /\ base <= 16
        OBVIOUS
    <1>2. q \in Nat /\ r \in 0 .. base - 1
        BY <1>1, Quotient
    <1>3. i = q * base + r
        <2>1. CASE base = 2
            BY <2>1
        <2>2. CASE base = 10
            BY <2>2
        <2>3. CASE base = 16
            BY <2>3
        <2> QED
            BY <2>1, <2>2, <2>3
    <1> HIDE DEF q, r
    <1>4. r + 1 \in 1 .. 16
        BY <1>1, <1>2
    <1>5. Value(ch) = r
        <2>1. Value(ch) = (r + 1) - 1
            BY <1>4, Worth, Zenon
        <2> QED
            BY <2>1, <1>2
    <1>6. ch \in Numerals
        BY <1>4 DEF Numerals
    <1>7. ch = "0" => r = 0
        <2>1. ch = "0" => r + 1 = 1
            BY <1>4, Worth, Zenon
        <2> QED
            BY <2>1, <1>2
    <1> HIDE DEF ch
    <1>8. <<ch>> \o s \in Seq(Numerals)
        BY <1>6
    <1>9. (<<ch>> \o s)[1] = ch
        BY <1>6
    <1>10. Denoted(q, <<ch>> \o s, base) = Denoted(i, s, base)
        <2>1. Denoted(q, <<ch>> \o s, base) = Denoted(q * base + Value(ch), s, base)
            BY <1>1, <1>2, <1>6, DenotedFront
        <2> QED
            BY <2>1, <1>3, <1>5
    <1> QED
        BY <1>6, <1>7, <1>8, <1>9, <1>10 DEF q, r, ch

LEMMA Bases ==
    ASSUME NEW base \in {2, 10, 16}
    PROVE  base \in Nat /\ 0 \in Nat /\ 0 * base + 0 = 0
    OBVIOUS

LEMMA PadDenoted ==
    ASSUME NEW base \in {2, 10, 16}, NEW s \in Seq(Numerals), NEW ch \in {" ", "0"}
    PROVE  /\ <<ch>> \o s \in Seq(Numerals)
           /\ Denoted(0, <<ch>> \o s, base) = Denoted(0, s, base)
    <1>1. ch \in Numerals /\ Value(ch) = 0
        BY Worth
    <1>2. <<ch>> \o s \in Seq(Numerals)
        <2>1. ch \in Numerals
            BY <1>1
        <2> QED
            BY <2>1, Fronted, Zenon
    <1>3. base \in Nat /\ 0 \in Nat /\ 0 * base + 0 = 0
        BY Bases, Zenon
    <1>4. Denoted(0, <<ch>> \o s, base) = Denoted(0 * base + Value(ch), s, base)
        BY <1>1, <1>3, DenotedFront, Zenon
    <1> QED
        BY <1>1, <1>2, <1>3, <1>4, Zenon

\* A number's remainder and quotient are the only ones.
LEMMA Remainder ==
    ASSUME NEW p \in Nat, p > 0, NEW q \in Nat, NEW v \in 0 .. p - 1
    PROVE  (p * q + v) % p = v
    <1> DEFINE a == p * q + v
               d == a \div p
               r == a % p
    <1>1. a \in Nat
        OBVIOUS
    <1> HIDE DEF a
    <1>2. d \in Nat /\ r \in 0 .. p - 1 /\ a = p * d + r
        BY <1>1
    <1> HIDE DEF d, r
    <1>3. ~(q > d)
        <2> SUFFICES ASSUME q > d PROVE FALSE
            OBVIOUS
        <2>1. PICK e \in Nat : q = d + 1 + e
            <3>1. q = d + 1 + (q - d - 1) /\ q - d - 1 \in Nat
                BY <1>2
            <3> QED
                BY <3>1
        <2>2. p * q = p * d + p + p * e
            BY <2>1, <1>2
        <2>3. p * e >= 0
            BY <2>1
        <2> QED
            BY <2>2, <2>3, <1>2 DEF a
    <1>4. ~(q < d)
        <2> SUFFICES ASSUME q < d PROVE FALSE
            OBVIOUS
        <2>1. PICK e \in Nat : d = q + 1 + e
            <3>1. d = q + 1 + (d - q - 1) /\ d - q - 1 \in Nat
                BY <1>2
            <3> QED
                BY <3>1
        <2>2. p * d = p * q + p + p * e
            BY <2>1, <1>2
        <2>3. p * e >= 0
            BY <2>1
        <2> QED
            BY <2>2, <2>3, <1>2 DEF a
    <1>5. q = d
        BY <1>2, <1>3, <1>4
    <1> QED
        BY <1>2, <1>5 DEF a, r

\* By induction: a long's limit is a multiple of an int's.
LEMMA Multiple == \E t \in Nat : t > 0 /\ Limit = 2 ^ IntBits * t
    <1> DEFINE p == 2 ^ IntBits
               Fits(k) == \E t \in Nat : t > 0 /\ 2 ^ (IntBits + k) = p * t
               S == {k \in Nat : IntBits + k <= LongBits /\ ~Fits(k)}
    <1>1. p \in Nat /\ p > 0 /\ IntBits \in Nat /\ LongBits \in Nat /\ IntBits < LongBits
        BY Widths, Power
    <1>2. S = {}
        <2> SUFFICES ASSUME S # {} PROVE FALSE
            OBVIOUS
        <2>1. PICK k \in S : \A j \in S : k <= j
            <3> HIDE DEF Fits
            <3> QED
                BY Least
        <2>2. k \in Nat /\ IntBits + k <= LongBits /\ ~Fits(k)
            OBVIOUS
        <2>3. k # 0
            <3> SUFFICES ASSUME k = 0 PROVE FALSE
                OBVIOUS
            <3>1. IntBits + k = IntBits /\ p = p * 1
                BY <1>1
            <3> QED
                BY <2>2, <3>1
        <2>4. /\ k - 1 \in Nat /\ IntBits + (k - 1) \in 0 .. LongBits /\ ~(k <= k - 1)
              /\ IntBits + (k - 1) <= LongBits /\ (IntBits + (k - 1)) + 1 = IntBits + k
            BY <1>1, <2>2, <2>3
        <2>5. Fits(k - 1)
            <3> HIDE DEF Fits
            <3> QED
                BY <2>1, <2>4
        <2>6. PICK t \in Nat : t > 0 /\ 2 ^ (IntBits + (k - 1)) = p * t
            BY <2>5
        <2>7. 2 ^ (IntBits + k) = 2 * 2 ^ (IntBits + (k - 1))
            BY <2>4, Power
        <2> HIDE DEF p
        <2>8. 2 ^ (IntBits + k) = p * (2 * t)
            BY <1>1, <2>6, <2>7
        <2>9. 2 * t \in Nat /\ 2 * t > 0
            BY <2>6
        <2> QED
            BY <2>2, <2>8, <2>9
    <1>3. LongBits - IntBits \in Nat /\ IntBits + (LongBits - IntBits) = LongBits
        BY <1>1
    <1>4. Fits(LongBits - IntBits)
        <2> HIDE DEF Fits
        <2> QED
            BY <1>1, <1>2, <1>3
    <1> QED
        BY <1>3, <1>4 DEF Limit

\* An int argument is its lower half with the upper one that extends the sign.
LEMMA SignExtended ==
    ASSUME NEW a \in 0 .. Limit - 1
    PROVE  LET v == a % 2 ^ IntBits
           IN  /\ v \in 0 .. 2 ^ IntBits - 1 /\ IntArg(a) \in Nat
               /\ \E u \in Nat : /\ IntArg(a) = 2 ^ IntBits * u + v
                                 /\ u # 0 => v >= 2 ^ (IntBits - 1)
               /\ IntArg(a) % 2 ^ IntBits = v
               /\ Signed(a) = (IF v >= 2 ^ (IntBits - 1) THEN v - 2 ^ IntBits ELSE v)
               /\ Signed(a) >= 0 => v < 2 ^ (IntBits - 1) /\ IntArg(a) = v
    <1> DEFINE p == 2 ^ IntBits
               h == 2 ^ (IntBits - 1)
               v == a % p
    <1>1. p \in Nat /\ h \in Nat /\ h > 0 /\ p = 2 * h /\ Limit \in Nat
        BY Limits
    <1>2. PICK t \in Nat : t > 0 /\ Limit = p * t
        BY Multiple
    <1>3. v \in 0 .. p - 1
        <2>1. a \in Nat /\ p \in Nat /\ p > 1
            BY <1>1
        <2> QED
            BY <2>1, Quotient
    <1>4. IntArg(a) = IF v >= h THEN v + Limit - p ELSE v
        BY DEF IntArg, Limit
    <1>5. Signed(a) = IF v >= h THEN v - p ELSE v
        BY DEF Signed
    <1> HIDE DEF p, h, v
    <1>6. PICK u \in Nat : IntArg(a) = p * u + v /\ (u # 0 => v >= h)
        <2>1. CASE v >= h
            <3>1. t - 1 \in Nat /\ v + p * t - p = p * (t - 1) + v
                BY <1>1, <1>2, <1>3
            <3> QED
                BY <2>1, <3>1, <1>2, <1>4
        <2>2. CASE ~(v >= h)
            <3>1. p * 0 + v = v /\ 0 \in Nat
                BY <1>1, <1>3
            <3> QED
                BY <2>2, <3>1, <1>4
        <2> QED
            BY <2>1, <2>2
    <1>7. IntArg(a) % p = v
        <2>1. (p * u + v) % p = v
            <3>1. p > 0
                BY <1>1
            <3> QED
                BY <3>1, <1>1, <1>3, Remainder
        <2> QED
            BY <2>1, <1>6
    <1>8. IntArg(a) \in Nat
        BY <1>1, <1>3, <1>6
    <1>9. Signed(a) >= 0 => v < h /\ IntArg(a) = v
        BY <1>1, <1>3, <1>4, <1>5
    <1> QED
        BY <1>3, <1>5, <1>6, <1>7, <1>8, <1>9 DEF p, h, v

\* The sign that num_fmt() takes from the lower half is that of the argument.
LEMMA SameSign ==
    ASSUME NEW f \in Piece, f.conv # "text"
    PROVE  Signed(Arg(f)) = Signed(f.arg)
    <1>1. f.arg \in 0 .. Limit - 1
        BY Pieces
    <1>2. IntArg(f.arg) % 2 ^ IntBits = f.arg % 2 ^ IntBits
        BY <1>1, SignExtended
    <1>3. Signed(IntArg(f.arg)) = Signed(f.arg)
        BY <1>2, Zenon DEF Signed
    <1> QED
        BY <1>3, Zenon DEF Arg

\* A division by the base that a multiple of it passes through.
LEMMA Shifted ==
    ASSUME NEW b \in {2, 16}, NEW x \in Nat, NEW w \in Nat
    PROVE  /\ (b * x + w) \div b = x + w \div b /\ (b * x + w) % b = w % b
           /\ w \div b \in Nat
           /\ \A y \in Nat : (w < b * y => w \div b < y) /\ (w >= b * y => w \div b >= y)
           /\ w = b * (w \div b) + (w % b)
    <1>1. CASE b = 2
        BY <1>1
    <1>2. CASE b = 16
        BY <1>2
    <1> QED
        BY <1>1, <1>2

\* A digit's bits more.
LEMMA DigitPower ==
    ASSUME NEW b \in {2, 16}, NEW e \in Nat, e + DigitBits(b) <= LongBits
    PROVE  2 ^ e \in Nat /\ 2 ^ e > 0 /\ 2 ^ (e + DigitBits(b)) = b * 2 ^ e
    <1>1. LongBits \in Nat
        BY Widths
    <1>2. CASE b = 2
        <2>1. DigitBits(b) = 1 /\ e \in 0 .. LongBits
            BY <1>1, <1>2 DEF DigitBits
        <2> QED
            BY <2>1, <1>2, Power
    <1>3. CASE b = 16
        <2>1. DigitBits(b) = 4
            BY <1>3 DEF DigitBits
        <2>2. {e, e + 1, e + 2, e + 3} \subseteq 0 .. LongBits
            BY <2>1, <1>1
        <2>3. (e + 1) + 1 = e + 2 /\ (e + 2) + 1 = e + 3 /\ (e + 3) + 1 = e + 4
            OBVIOUS
        <2>4. 2 ^ (e + 1) = 2 * 2 ^ e /\ 2 ^ e \in Nat /\ 2 ^ e > 0
            BY <2>2, Power
        <2>5. 2 ^ (e + 2) = 2 * 2 ^ (e + 1)
            BY <2>2, <2>3, Power
        <2>6. 2 ^ (e + 3) = 2 * 2 ^ (e + 2)
            BY <2>2, <2>3, Power
        <2>7. 2 ^ (e + 4) = 2 * 2 ^ (e + 3)
            BY <2>2, <2>3, Power
        <2>8. 2 ^ (e + 4) = 16 * 2 ^ e
            BY <2>4, <2>5, <2>6, <2>7
        <2> QED
            BY <2>1, <2>4, <2>8, <1>3
    <1> QED
        BY <1>2, <1>3

\* One digit of a number in base 10.
LEMMA DecimalDigit ==
    ASSUME NEW s \in Seq(Numerals), NEW m \in Num, NEW n \in Num, NEW v,
           m.base = 10, ToCome(s, m, v),
           n.i = m.i \div m.base, n.base = m.base, n.len = Left(m.len)
    PROVE  LET ch == Digits[(m.i % m.base) + 1]
               t == <<ch>> \o s
           IN  /\ n.i # 0 /\ n.len # 0 => ToCome(t, n, v)
               /\ ~(n.i # 0 /\ n.len # 0) =>
                     Denoted(0, t, n.base) = v /\ (ch = "0" => m.i = 0)
    <1> DEFINE ch == Digits[(m.i % m.base) + 1]
               t == <<ch>> \o s
    <1>1. m.len = -1 /\ Denoted(m.i, s, 10) = v
        BY DEF ToCome
    <1>2. n.len = -1
        BY <1>1 DEF Left
    <1>3. m.i \in Nat
        BY Divided
    <1>4. /\ Denoted(n.i, t, 10) = Denoted(m.i, s, 10)
          /\ ch = "0" => m.i % 10 = 0
        <2>1. 10 \in {2, 10, 16}
            OBVIOUS
        <2>2. ch = Digits[(m.i % 10) + 1] /\ n.i = m.i \div 10
            OBVIOUS
        <2> HIDE DEF ch, t
        <2>3. /\ Denoted(m.i \div 10, <<ch>> \o s, 10) = Denoted(m.i, s, 10)
              /\ ch = "0" => m.i % 10 = 0
            BY <2>1, <2>2, <1>3, DigitDenoted
        <2> QED
            BY <2>2, <2>3 DEF t
    <1> HIDE DEF ch, t
    <1>5. n.i = 0 /\ m.i % 10 = 0 => m.i = 0
        BY <1>3
    <1>6. n.i # 0 => ToCome(t, n, v)
        BY <1>1, <1>2, <1>4 DEF ToCome
    <1>7. n.len # 0
        BY <1>2
    <1> QED
        BY <1>1, <1>4, <1>5, <1>6, <1>7 DEF ch, t

\* One digit of as many as the width of the argument has.
LEMMA LimitedDigit ==
    ASSUME NEW s \in Seq(Numerals), NEW m \in Num, NEW n \in Num, NEW v,
           m.base \in {2, 16}, ToCome(s, m, v),
           n.i = m.i \div m.base, n.base = m.base, n.len = Left(m.len)
    PROVE  LET ch == Digits[(m.i % m.base) + 1]
               t == <<ch>> \o s
           IN  /\ n.i # 0 /\ n.len # 0 => ToCome(t, n, v)
               /\ ~(n.i # 0 /\ n.len # 0) =>
                     Denoted(0, t, n.base) = v /\ (ch = "0" => m.i = 0)
    <1> DEFINE b == m.base
               d == DigitBits(b)
               bits == d * m.len
               e == d * n.len
               y == 2 ^ e
               ch == Digits[(m.i % b) + 1]
               t == <<ch>> \o s
    <1>1. m.len > 0 /\ m.len \in Int /\ bits <= LongBits
        <2>1. m.base # 10
            OBVIOUS
        <2>2. m.len \in Int
            BY DEF Num
        <2> QED
            BY <2>1, <2>2 DEF ToCome
    <1>2. PICK u \in Nat, w \in Nat : /\ m.i = 2 ^ bits * u + w /\ w < 2 ^ bits
                                      /\ u # 0 => w >= 2 ^ (bits - 1)
                                      /\ Denoted(w, s, b) = v
        BY DEF ToCome
    <1>3. d \in {1, 4}
        BY DEF DigitBits
    <1>4. n.len = m.len - 1 /\ n.len \in Nat
        BY <1>1 DEF Left
    <1>5. b \in {2, 16} /\ b \in {2, 10, 16} /\ b \in Nat /\ b > 0
        OBVIOUS
    <1> HIDE DEF b
    <1>6. e \in Nat /\ e + d = bits /\ e <= LongBits /\ (n.len # 0 => e - 1 \in Nat)
          /\ e + d <= LongBits
        <2>1. LongBits \in Nat
            BY Widths
        <2> HIDE DEF d
        <2>2. CASE d = 1
            BY <2>1, <2>2, <1>1, <1>4
        <2>3. CASE d = 4
            BY <2>1, <2>3, <1>1, <1>4
        <2> QED
            BY <2>2, <2>3, <1>3
    <1> HIDE DEF e, bits
    <1>7. y \in Nat /\ y > 0 /\ 2 ^ bits = b * y
        BY <1>5, <1>6, DigitPower
    <1>8. n.len # 0 => 2 ^ (e - 1) \in Nat /\ 2 ^ (bits - 1) = b * 2 ^ (e - 1)
        <2> SUFFICES ASSUME n.len # 0
                     PROVE  2 ^ (e - 1) \in Nat /\ 2 ^ (bits - 1) = b * 2 ^ (e - 1)
            OBVIOUS
        <2>1. /\ e - 1 \in Nat /\ (e - 1) + d = bits - 1 /\ (e - 1) + d <= LongBits
            BY <1>3, <1>6, Widths
        <2> QED
            BY <2>1, <1>5, DigitPower
    <1>9. 2 ^ (bits - 1) > 0 /\ 2 ^ (bits - 1) \in Nat
        <2>1. bits - 1 \in 0 .. LongBits
            <3> HIDE DEF d
            <3> QED
                BY <1>3, <1>6, Widths
        <2> QED
            BY <2>1, Power
    <1>10. n.len = 0 => y = 1
        <2> SUFFICES ASSUME n.len = 0 PROVE y = 1
            OBVIOUS
        <2>1. e = 0
            BY <1>3 DEF e
        <2> QED
            BY <2>1, PowerAssumption
    <1> HIDE DEF d, y
    <1> DEFINE x == y * u
               q == w \div b
               z == 2 ^ (e - 1)
    <1>11. x \in Nat /\ m.i = b * x + w
        <2>1. (b * y) * u = b * (y * u)
            BY <1>5, <1>7
        <2>2. y * u \in Nat
            BY <1>7
        <2> QED
            BY <2>1, <2>2, <1>2, <1>7
    <1>12. n.i = m.i \div b
        BY DEF b
    <1>13. /\ n.i = x + q /\ m.i % b = w % b /\ q \in Nat
           /\ q < y /\ w = b * q + (w % b)
        <2> HIDE DEF x
        <2>1. /\ (b * x + w) \div b = x + q /\ (b * x + w) % b = w % b
              /\ q \in Nat /\ w = b * q + (w % b)
            BY <1>5, <1>11, Shifted
        <2>2. w < b * y
            BY <1>2, <1>7
        <2>3. q < y
            BY <2>2, <1>5, <1>7, Shifted
        <2> QED
            BY <2>1, <2>3, <1>11, <1>12
    <1>14. n.len # 0 /\ u # 0 => q >= z
        <2> SUFFICES ASSUME n.len # 0, u # 0 PROVE q >= z
            OBVIOUS
        <2> QED
            BY <1>2, <1>5, <1>8, Shifted
    <1>15. Denoted(q, t, b) = v /\ (ch = "0" => w % b = 0)
        <2>1. ch = Digits[(w % b) + 1]
            BY <1>13
        <2> HIDE DEF ch
        <2> QED
            BY <2>1, <1>2, <1>5, DigitDenoted
    <1> HIDE DEF ch, t, q
    <1>16. n.len # 0 => ToCome(t, n, v)
        <2> SUFFICES ASSUME n.len # 0 PROVE ToCome(t, n, v)
            OBVIOUS
        <2>1. n.base = b /\ b # 10 /\ n.len > 0
            <3>1. n.len > 0
                <4>1. ASSUME NEW k \in Nat, k # 0 PROVE k > 0
                    BY <4>1
                <4> QED
                    BY <4>1, <1>4
            <3>2. b # 10
                BY <1>5
            <3>3. n.base = b
                BY DEF b
            <3> QED
                BY <3>1, <3>2, <3>3
        <2>2. n.i = y * u + q /\ q < y /\ (u # 0 => q >= z)
            BY <1>13, <1>14
        <2>3. e <= LongBits
            BY <1>6
        <2>4. e = DigitBits(n.base) * n.len
            BY <2>1 DEF e, d
        <2> HIDE DEF e
        <2>5. /\ n.i = 2 ^ e * u + q /\ q < 2 ^ e /\ (u # 0 => q >= 2 ^ (e - 1))
              /\ Denoted(q, t, n.base) = v
            BY <2>1, <2>2, <1>15 DEF y
        <2> QED
            BY <2>1, <2>3, <2>4, <2>5, <1>13 DEF ToCome
    <1>17. n.i = 0 \/ n.len = 0 => Denoted(0, t, b) = v /\ (ch = "0" => m.i = 0)
        <2> SUFFICES ASSUME n.i = 0 \/ n.len = 0
                     PROVE  Denoted(0, t, b) = v /\ (ch = "0" => m.i = 0)
            OBVIOUS
        <2>1. q = 0
            BY <1>7, <1>10, <1>11, <1>13
        <2>2. ASSUME ch = "0" PROVE m.i = 0
            <3>1. w = 0
                BY <2>1, <2>2, <1>5, <1>13, <1>15
            <3>2. u = 0
                BY <3>1, <1>2, <1>9
            <3> QED
                BY <3>1, <3>2, <1>7, <1>5, <1>11
        <2> QED
            BY <2>1, <2>2, <1>15
    <1>18. n.base = b
        BY DEF b
    <1> QED
        BY <1>16, <1>17, <1>18 DEF b, ch, t

\* %d and %u: the number that is asked for is the one that is meant.
LEMMA DecimalAsked ==
    ASSUME NEW f \in Piece, f.conv \in {"d", "u"}, Printable(f)
    PROVE  ToCome(<<>>, Asked(f), Magnitude(f))
    <1> DEFINE p == 2 ^ IntBits
               h == 2 ^ (IntBits - 1)
               v == f.arg % p
               sg == Signed(f.arg)
               a == IntArg(f.arg)
               n == Asked(f)
    <1>1. f.conv # "text" /\ f.conv # "b" /\ f.conv # "p"
        OBVIOUS
    <1>2. f.arg \in 0 .. Limit - 1 /\ f.arg \in Nat /\ f.wide \in BOOLEAN
        BY <1>1, Pieces, Limits
    <1>3. /\ v \in 0 .. p - 1 /\ a \in Nat
          /\ sg = IF v >= h THEN v - p ELSE v
          /\ sg >= 0 => v < h /\ a = v
        BY <1>2, SignExtended
    <1>4. p \in Nat /\ h \in Nat /\ h > 0 /\ p = 2 * h
        BY Limits
    <1>5. Signed(Arg(f)) = sg
        BY <1>1, SameSign
    <1>6. n.base = 10 /\ n.len = -1
          /\ n.i = IF f.conv = "d" /\ sg < 0 THEN (- sg) % p ELSE Arg(f)
        BY <1>5 DEF Asked, Base, Length
    <1>7. Arg(f) = IF f.wide THEN f.arg ELSE a
        BY <1>1 DEF Arg
    <1>8. Magnitude(f) = IF f.conv = "d" THEN (IF sg < 0 THEN - sg ELSE sg)
                         ELSE IF f.wide THEN f.arg ELSE v
        BY <1>1 DEF Magnitude
    <1>9. (f.conv = "d" /\ f.wide => f.arg = a) /\ (f.conv = "u" /\ ~f.wide => sg >= 0)
        BY DEF Printable
    <1> HIDE DEF n, p, h, v, sg, a
    <1>10. n.i = Magnitude(f) /\ n.i \in Nat
        <2>1. CASE f.conv = "d" /\ sg < 0
            <3>1. - sg \in 0 .. p - 1
                BY <2>1, <1>3, <1>4
            <3>2. (- sg) % p = - sg
                BY <3>1, <1>4
            <3> QED
                BY <2>1, <3>1, <3>2, <1>6, <1>8
        <2>2. CASE f.conv = "d" /\ ~(sg < 0)
            <3>1. sg = v /\ a = v
                BY <2>2, <1>3, <1>4
            <3>2. Arg(f) = v
                BY <2>2, <3>1, <1>7, <1>9, <1>2, Zenon
            <3> QED
                BY <2>2, <3>1, <3>2, <1>3, <1>6, <1>8
        <2>3. CASE f.conv # "d"
            <3>1. f.conv = "u"
                BY <2>3
            <3>2. CASE f.wide
                <4>1. n.i = f.arg /\ Magnitude(f) = f.arg
                    BY <3>2, <2>3, <1>6, <1>7, <1>8, Zenon
                <4> QED
                    BY <4>1, <1>2
            <3>3. CASE ~f.wide
                <4>1. sg >= 0
                    BY <3>1, <3>3, <1>9, Zenon
                <4>2. a = v
                    BY <4>1, <1>3, Zenon
                <4>3. n.i = a /\ Magnitude(f) = v
                    BY <3>3, <2>3, <1>6, <1>7, <1>8, Zenon
                <4> QED
                    BY <4>2, <4>3, <1>3
            <3> QED
                BY <3>2, <3>3
        <2> QED
            BY <2>1, <2>2, <2>3
    <1>11. Denoted(n.i, <<>>, 10) = n.i
        <2>1. 10 \in Nat
            OBVIOUS
        <2> QED
            BY <2>1, <1>10, DenotedNone
    <1> QED
        BY <1>6, <1>10, <1>11 DEF ToCome, n

\* %x, %b and %p: as many digits as the width has, and above them the sign.
LEMMA LimitedAsked ==
    ASSUME WholeDigits, NEW f \in Piece, f.conv \in {"x", "b", "p"}
    PROVE  ToCome(<<>>, Asked(f), Magnitude(f))
    <1> DEFINE bits == IF f.wide \/ f.conv = "p" THEN LongBits ELSE IntBits
               n == Asked(f)
               v == f.arg % 2 ^ IntBits
               b == Base(f)
    <1>1. f.conv # "text" /\ f.conv # "d" /\ f.conv # "u"
        OBVIOUS
    <1>2. f.arg \in 0 .. Limit - 1 /\ f.arg \in Nat /\ f.wide \in BOOLEAN
        BY <1>1, Pieces, Limits
    <1>3. b = (IF f.conv = "b" THEN 2 ELSE 16) /\ b \in {2, 16}
        BY <1>1 DEF Base
    <1>4. Length(f) = IF f.conv = "b" THEN bits ELSE bits \div 4
        BY <1>1 DEF Length
    <1>5. n.base = b /\ n.len = Length(f) /\ n.i = Arg(f)
        BY <1>1 DEF Asked
    <1>6. bits \in 1 .. LongBits /\ bits \in Nat /\ bits % 4 = 0
        BY Widths DEF WholeDigits
    <1>7. Magnitude(f) = IF f.wide \/ f.conv = "p" THEN f.arg ELSE v
        BY <1>1 DEF Magnitude
    <1>8. Arg(f) = IF f.wide \/ f.conv = "p" THEN f.arg ELSE IntArg(f.arg)
        BY DEF Arg
    <1> HIDE DEF b
    <1>9. n.len > 0 /\ DigitBits(b) * n.len = bits
        <2>1. CASE f.conv = "b"
            <3>1. DigitBits(b) = 1 /\ n.len = bits
                BY <2>1, <1>3, <1>4, <1>5 DEF DigitBits
            <3> HIDE DEF bits, n
            <3> QED
                BY <3>1, <1>6
        <2>2. CASE f.conv # "b"
            <3>1. DigitBits(b) = 4 /\ n.len = bits \div 4
                BY <2>2, <1>3, <1>4, <1>5 DEF DigitBits
            <3> HIDE DEF bits, n
            <3> QED
                BY <3>1, <1>6
        <2> QED
            BY <2>1, <2>2
    <1>10. \E u, w \in Nat : /\ Arg(f) = 2 ^ bits * u + w /\ w < 2 ^ bits
                             /\ u # 0 => w >= 2 ^ (bits - 1)
                             /\ w = Magnitude(f)
        <2>1. CASE f.wide \/ f.conv = "p"
            <3>1. bits = LongBits
                BY <2>1
            <3>2. Arg(f) = f.arg /\ Magnitude(f) = f.arg
                BY <2>1, <1>7, <1>8, Zenon
            <3> HIDE DEF bits
            <3>3. Limit * 0 + f.arg = f.arg /\ f.arg < Limit /\ 0 \in Nat
                BY <1>2, Limits
            <3> QED
                BY <3>1, <3>2, <3>3, <1>2 DEF Limit
        <2>2. CASE ~(f.wide \/ f.conv = "p")
            <3>1. bits = IntBits
                BY <2>2
            <3>2. Arg(f) = IntArg(f.arg) /\ Magnitude(f) = v
                BY <2>2, <1>7, <1>8, Zenon
            <3>3. PICK u \in Nat : IntArg(f.arg) = 2 ^ IntBits * u + v
                                   /\ (u # 0 => v >= 2 ^ (IntBits - 1))
                BY <1>2, SignExtended
            <3>4. v \in 0 .. 2 ^ IntBits - 1 /\ 2 ^ IntBits \in Nat
                BY <1>2, SignExtended, Limits
            <3> HIDE DEF bits, v
            <3>5. v \in Nat /\ v < 2 ^ IntBits
                BY <3>4
            <3> QED
                BY <3>1, <3>2, <3>3, <3>5
        <2> QED
            BY <2>1, <2>2
    <1> HIDE DEF bits, n
    <1>11. PICK u \in Nat, w \in Nat : /\ Arg(f) = 2 ^ bits * u + w /\ w < 2 ^ bits
                                       /\ u # 0 => w >= 2 ^ (bits - 1)
                                       /\ w = Magnitude(f)
        BY <1>10
    <1>12. Denoted(w, <<>>, b) = w
        <2>1. b \in Nat
            BY <1>3
        <2> QED
            BY <2>1, DenotedNone
    <1>13. n.base # 10 /\ bits <= LongBits
        <2>1. b # 10
            BY <1>3
        <2> QED
            BY <2>1, <1>5, <1>6, Widths
    <1>14. ToCome(<<>>, n, Magnitude(f))
        <2>1. /\ n.i = 2 ^ bits * u + w /\ w < 2 ^ bits /\ (u # 0 => w >= 2 ^ (bits - 1))
              /\ Denoted(w, <<>>, n.base) = Magnitude(f)
            BY <1>5, <1>11, <1>12
        <2>2. DigitBits(n.base) * n.len = bits
            BY <1>5, <1>9
        <2> HIDE DEF n
        <2> QED
            BY <2>1, <2>2, <1>9, <1>13 DEF ToCome
    <1> QED
        BY <1>14 DEF n

\* The invariant, when a number is asked for, after a digit, a character of
\* padding and the sign.
LEMMA AskedValue ==
    ASSUME WholeDigits, NEW f \in Piece, f.conv \in Numeric, Printable(f)
    PROVE  ValueOf("digit", f, <<>>, Asked(f))
    <1> DEFINE n == Asked(f)
    <1>1. f.conv # "text" /\ (f.conv \in {"d", "u"} \/ f.conv \in {"x", "b", "p"})
        BY DEF Numeric
    <1>2. Signed(Arg(f)) = Signed(f.arg)
        BY <1>1, SameSign
    <1>3. n.base = Base(f) /\ n.neg = Negative(f) /\ n.padding = f.padding
        BY <1>2, Zenon DEF Asked, Negative
    <1>4. ToCome(<<>>, n, Magnitude(f))
        BY <1>1, DecimalAsked, LimitedAsked
    <1>5. f.padding \in Nat
        BY <1>1, Pieces
    <1> HIDE DEF n
    <1>6. <<>> \in Seq(Numerals) /\ Len(<<>>) = 0 /\ 0 + n.padding = f.padding
        BY <1>3, <1>5
    <1>7. Len(<<>>) + n.padding = f.padding /\ Len(<<>>) + n.padding >= f.padding
        BY <1>5, <1>6
    <1>8. "digit" # "pad" /\ "digit" # "number"
        OBVIOUS
    <1>9. ValueOf("digit", f, <<>>, n)
        BY <1>3, <1>4, <1>6, <1>7, <1>8, Zenon DEF ValueOf
    <1> QED
        BY <1>9 DEF n

LEMMA DigitValue ==
    ASSUME NEW f, f.padding \in Nat, NEW s, NEW m \in Num, NEW n \in Num, NEW p, NEW ch,
           ValueOf("digit", f, s, m),
           ch = Digits[(m.i % m.base) + 1],
           n.i = m.i \div m.base, n.base = m.base, n.len = Left(m.len), n.neg = m.neg,
           n.padding = Less(m.padding),
           p = IF n.i # 0 /\ n.len # 0 THEN "digit" ELSE "pad"
    PROVE  ValueOf(p, f, <<ch>> \o s, n)
    <1> DEFINE t == <<ch>> \o s
               v == Magnitude(f)
    <1>1. /\ m.base = Base(f) /\ m.neg = Negative(f) /\ s \in Seq(Numerals)
          /\ Len(s) + m.padding >= f.padding
          /\ m.padding > 0 => Len(s) + m.padding = f.padding
          /\ s # <<>> => m.i # 0
          /\ ToCome(s, m, v)
        BY DEF ValueOf
    <1>2. m.base \in {2, 10, 16} /\ m.i \in Nat /\ m.padding \in Nat
        BY Divided DEF Num
    <1>3. ch \in Numerals /\ t[1] = ch /\ t \in Seq(Numerals)
        BY <1>1, <1>2, DigitDenoted
    <1>4. Len(s) \in Nat /\ Len(t) = Len(s) + 1 /\ t # <<>>
        BY <1>1, <1>3, Fronted
    <1>5. /\ n.i # 0 /\ n.len # 0 => ToCome(t, n, v)
          /\ ~(n.i # 0 /\ n.len # 0) =>
                Denoted(0, t, n.base) = v /\ (ch = "0" => m.i = 0)
        <2> HIDE DEF v, t
        <2>1. CASE m.base = 10
            BY <2>1, <1>1, DecimalDigit DEF t
        <2>2. CASE m.base # 10
            <3>1. m.base \in {2, 16}
                BY <2>2, <1>2
            <3> QED
                BY <3>1, <1>1, LimitedDigit DEF t
        <2> QED
            BY <2>1, <2>2
    <1> HIDE DEF t, v
    <1>6. /\ Len(t) + n.padding >= f.padding
          /\ n.padding > 0 => Len(t) + n.padding = f.padding
        <2>1. CASE m.padding > 0
            <3>1. n.padding = m.padding - 1
                BY <2>1 DEF Less
            <3> QED
                BY <2>1, <3>1, <1>1, <1>2, <1>4
        <2>2. CASE ~(m.padding > 0)
            <3>1. n.padding = 0 /\ m.padding = 0
                BY <2>2, <1>2 DEF Less
            <3> QED
                BY <3>1, <1>1, <1>2, <1>4
        <2> QED
            BY <2>1, <2>2
    <1>7. n.base = Base(f) /\ n.neg = Negative(f)
        BY <1>1
    <1>8. CASE n.i # 0 /\ n.len # 0
        <2>1. p = "digit" /\ p # "pad" /\ p # "number"
            BY <1>8
        <2>2. ToCome(t, n, Magnitude(f))
            BY <1>5, <1>8 DEF v
        <2>3. ValueOf(p, f, t, n)
            BY <2>1, <2>2, <1>3, <1>6, <1>7, <1>8, Zenon DEF ValueOf
        <2> QED
            BY <2>3 DEF t
    <1>9. CASE ~(n.i # 0 /\ n.len # 0)
        <2>1. p = "pad" /\ p # "digit" /\ p # "number"
            BY <1>9
        <2>2. Short(t, f.padding)
            <3>1. Len(t) > 1 => m.i # 0
                <4>1. Len(t) > 1 => s # <<>>
                    BY <1>4
                <4> QED
                    BY <4>1, <1>1, Zenon
            <3> QED
                BY <3>1, <1>3, <1>5, <1>9, Zenon DEF Short
        <2>3. Denoted(0, t, n.base) = Magnitude(f)
            BY <1>5, <1>9 DEF v
        <2>4. ValueOf(p, f, t, n)
            BY <2>1, <2>2, <2>3, <1>3, <1>4, <1>6, <1>7, Zenon DEF ValueOf
        <2> QED
            BY <2>4 DEF t
    <1> QED
        BY <1>8, <1>9

LEMMA PadValue ==
    ASSUME NEW f, f.padding \in Nat, NEW s, NEW m \in Num, NEW n \in Num, NEW ch,
           ValueOf("pad", f, s, m), m.padding > 0, ch = m.pad,
           n.base = m.base, n.neg = m.neg, n.padding = m.padding - 1
    PROVE  ValueOf("pad", f, <<ch>> \o s, n)
    <1> DEFINE t == <<ch>> \o s
    <1>1. "pad" # "digit" /\ "pad" # "number"
        OBVIOUS
    <1>2. /\ m.base = Base(f) /\ m.neg = Negative(f) /\ s \in Seq(Numerals)
          /\ Len(s) + m.padding = f.padding
          /\ Denoted(0, s, m.base) = Magnitude(f)
        BY DEF ValueOf
    <1>3. m.base \in {2, 10, 16} /\ m.padding \in Nat /\ ch \in {" ", "0"}
        BY DEF Num
    <1>4. ch \in Numerals
        BY <1>3, Worth
    <1>5. t \in Seq(Numerals) /\ Denoted(0, t, m.base) = Denoted(0, s, m.base)
        BY <1>2, <1>3, PadDenoted
    <1>6. Len(s) \in Nat /\ Len(t) = Len(s) + 1 /\ t # <<>>
        BY <1>2, <1>4, <1>5, Fronted
    <1> HIDE DEF t
    <1>7. /\ Len(t) + n.padding = f.padding /\ Len(t) + n.padding >= f.padding
          /\ ~(Len(t) > f.padding)
        <2>1. \A x, y \in Nat : y > 0 => (x + 1) + (y - 1) = x + y /\ x + 1 <= x + y
            OBVIOUS
        <2>2. Len(t) + n.padding = Len(s) + m.padding /\ Len(t) <= Len(s) + m.padding
            BY <2>1, <1>3, <1>6, Zenon
        <2>3. Len(t) + n.padding = f.padding /\ Len(t) <= f.padding
            BY <2>2, <1>2, Zenon
        <2>4. \A x, y \in Nat : (x <= y => ~(x > y)) /\ y >= y
            OBVIOUS
        <2>5. Len(t) \in Nat
            BY <1>6
        <2> QED
            BY <2>3, <2>4, <2>5, Zenon
    <1>8. Short(t, f.padding)
        BY <1>7 DEF Short
    <1>9. n.base = Base(f) /\ n.neg = Negative(f) /\ Denoted(0, t, n.base) = Magnitude(f)
        BY <1>2, <1>5
    <1>10. ValueOf("pad", f, t, n)
        BY <1>1, <1>5, <1>6, <1>7, <1>8, <1>9, Zenon DEF ValueOf
    <1> QED
        BY <1>10 DEF t

LEMMA SignValue ==
    ASSUME NEW f, f.padding \in Nat, NEW s, NEW n \in Num,
           ValueOf("pad", f, s, n), n.padding = 0
    PROVE  ValueOf("number", f, IF n.neg THEN <<"-">> \o s ELSE s, n)
    <1> DEFINE t == IF n.neg THEN <<"-">> \o s ELSE s
               r == IF n.neg THEN Tail(t) ELSE t
    <1>1. "number" # "digit" /\ "number" # "pad"
        OBVIOUS
    <1>2. /\ n.base = Base(f) /\ n.neg = Negative(f) /\ s \in Seq(Numerals)
          /\ Len(s) + n.padding >= f.padding /\ s # <<>>
          /\ Denoted(0, s, n.base) = Magnitude(f) /\ Short(s, f.padding)
        BY DEF ValueOf
    <1>3. Len(s) >= f.padding
        BY <1>2
    <1>4. s[1] # "-"
        <2>1. s[1] \in Numerals
            BY <1>2
        <2> QED
            BY <2>1, Worth, Zenon
    <1>5. s \in Seq(Numerals \cup {"-"})
        <2>1. Numerals \subseteq Numerals \cup {"-"}
            OBVIOUS
        <2> QED
            BY <2>1, <1>2, WiderSeq, Zenon
    <1>6. (<<"-">> \o s)[1] = "-"
        BY <1>5
    <1>7. Tail(<<"-">> \o s) = s
        BY <1>5
    <1>8. n.neg \in BOOLEAN
        BY DEF Num
    <1>9. r = s
        BY <1>7, Zenon
    <1>10. (t[1] = "-") = n.neg
        <2>1. CASE n.neg
            BY <2>1, <1>6, Zenon
        <2>2. CASE ~n.neg
            BY <2>2, <1>4, <1>8, Zenon
        <2> QED
            BY <2>1, <2>2
    <1>11. ValueOf("number", f, t, n)
        <2> HIDE DEF t
        <2> QED
            BY <1>1, <1>2, <1>3, <1>9, <1>10, Zenon DEF ValueOf
    <1> QED
        BY <1>11

\* A step of one CPU leaves the numbers of the others.
LEMMA ValuesAt ==
    ASSUME TypeInv, ValueInv, NEW c \in CPU,
           NEW p, NEW k, NEW f, NEW s, NEW n, NEW x, Does(c, p, k, f, s, n, x),
           p \in Writing /\ Printable(Head(f)) => ValueOf(p, Head(f), s, n)
    PROVE  ValueInv'
    <1>1. ASSUME NEW d \in CPU, pc'[d] \in Writing, Printable(Head(fmt'[d]))
          PROVE  ValueOf(pc'[d], Head(fmt'[d]), str'[d], num'[d])
        <2>1. CASE d = c
            BY <2>1, <1>1, Afterwards
        <2>2. CASE d # c
            <3>1. /\ pc'[d] = pc[d] /\ fmt'[d] = fmt[d] /\ str'[d] = str[d]
                  /\ num'[d] = num[d]
                BY <2>2, Afterwards
            <3> QED
                BY <3>1, <1>1 DEF ValueInv
        <2> QED
            BY <2>1, <2>2
    <1> QED
        BY <1>1 DEF ValueInv

LEMMA ValueInit == Init => ValueInv
    <1>1. Init => \A c \in CPU : pc[c] = "idle"
        BY DEF Init
    <1>2. "idle" \notin Writing
        BY DEF Writing
    <1> QED
        BY <1>1, <1>2, Zenon DEF ValueInv

LEMMA ValueStep ==
    ASSUME WholeDigits, TypeInv, ValueInv, Next
    PROVE  ValueInv'
    <1>1. PICK c \in CPU : \/ (\E f \in Lines : Line(c, f))
                           \/ (\E s \in Strings : String(c, s[1], s[2]))
                           \/ \E failed \in BOOLEAN : Except(c, failed)
                           \/ Step(c)
        BY Zenon DEF Next
    <1> DEFINE g == Head(fmt[c])
    <1>2. ASSUME NEW p, NEW k, NEW f, NEW s, NEW n, NEW x, Does(c, p, k, f, s, n, x),
                 p \in Writing /\ Printable(Head(f)) => ValueOf(p, Head(f), s, n)
          PROVE  ValueInv'
        BY <1>2, ValuesAt, Zenon
    <1>3. {"idle", "lock", "wait", "unlock", "halted", "next", "put"} \cap Writing = {}
        BY DEF Writing
    <1>4. ASSUME \E p \in {"idle", "lock", "wait", "unlock", "halted", "next", "put"} :
                     \E k, f, s, n, x : Does(c, p, k, f, s, n, x)
          PROVE  ValueInv'
        <2>1. PICK p \in {"idle", "lock", "wait", "unlock", "halted", "next", "put"} :
                  \E k, f, s, n, x : Does(c, p, k, f, s, n, x)
            BY <1>4, Zenon
        <2>2. p \notin Writing
            BY <1>3
        <2> QED
            BY <2>1, <2>2, <1>2, Zenon
    <1>5. /\ fmt[c] \in Seq(Piece) /\ str[c] \in Seq(Char)
          /\ Converting(pc[c], fmt[c], num[c])
        BY Of DEF Typed
    <1>6. "digit" \in Writing /\ "pad" \in Writing /\ "number" \in Writing
        BY DEF Writing
    <1>7. pc[c] \in Writing => g.padding \in Nat
        <2> SUFFICES ASSUME pc[c] \in Writing PROVE g.padding \in Nat
            OBVIOUS
        <2>1. fmt[c] # <<>> /\ g.conv # "text"
            BY <1>5 DEF Converting
        <2>2. g \in Piece
            BY <2>1, <1>5, Tails, Zenon
        <2> HIDE DEF g
        <2> QED
            BY <2>1, <2>2, Pieces
    <1>8. pc[c] \in Writing /\ Printable(g) => ValueOf(pc[c], g, str[c], num[c])
        BY DEF ValueInv
    <1>9. CASE \E f \in Lines : Line(c, f)
        BY <1>4, <1>9, Lined
    <1>10. CASE \E s \in Strings : String(c, s[1], s[2])
        BY <1>4, <1>10, Stringed
    <1>11. CASE \E failed \in BOOLEAN : Except(c, failed)
        BY <1>4, <1>11, Excepted
    <1>12. CASE Lock(c)
        BY <1>4, <1>12, Locked
    <1>13. CASE Unlock(c)
        BY <1>4, <1>13, Unlocked
    <1>14. CASE End(c)
        BY <1>4, <1>14, Ended
    <1>15. CASE ConvertText(c)
        BY <1>4, <1>15, TextConverted
    <1>16. CASE ConvertSize(c)
        BY <1>4, <1>16, SizeConverted
    <1>17. CASE ConvertNumber(c)
        <2>1. /\ Does(c, "digit", kind[c], fmt[c], <<>>, Asked(g), ctx[c])
              /\ g.conv \in Numeric /\ g \in Piece
            BY <1>17, NumberConverted
        <2>2. Printable(g) => ValueOf("digit", g, <<>>, Asked(g))
            <3> HIDE DEF g
            <3> QED
                BY <2>1, AskedValue
        <2> QED
            BY <1>2, <2>1, <2>2, Zenon
    <1>18. CASE Digit(c)
        <2>1. PICK p \in {"digit", "pad"}, n \in Num, ch \in Char :
                  /\ Does(c, p, kind[c], fmt[c], <<ch>> \o str[c], n, ctx[c])
                  /\ n.i = num[c].i \div num[c].base /\ n.padding = Less(num[c].padding)
                  /\ n.neg = num[c].neg
                  /\ ch = Digits[(num[c].i % num[c].base) + 1]
                  /\ n.base = num[c].base /\ n.len = Left(num[c].len)
                  /\ p = IF n.i # 0 /\ n.len # 0 THEN "digit" ELSE "pad"
                  /\ num[c] \in Num /\ pc[c] = "digit"
            BY <1>18, Digited, ZenonT(60)
        <2>2. Printable(g) => ValueOf(p, g, <<ch>> \o str[c], n)
            <3> SUFFICES ASSUME Printable(g) PROVE ValueOf(p, g, <<ch>> \o str[c], n)
                OBVIOUS
            <3>1. ValueOf("digit", g, str[c], num[c]) /\ g.padding \in Nat
                BY <2>1, <1>6, <1>7, <1>8, Zenon
            <3> HIDE DEF g
            <3> QED
                BY <2>1, <3>1, DigitValue, Zenon
        <2> QED
            BY <1>2, <2>1, <2>2, Zenon
    <1>19. CASE Pad(c)
        <2>1. PICK n \in Num, ch \in Char :
                  /\ Does(c, "pad", kind[c], fmt[c], <<ch>> \o str[c], n, ctx[c])
                  /\ n.padding = num[c].padding - 1 /\ n.neg = num[c].neg
                  /\ n.base = num[c].base /\ ch = num[c].pad
                  /\ num[c] \in Num /\ pc[c] = "pad" /\ num[c].padding > 0
            BY <1>19, Padded, Zenon
        <2>2. Printable(g) => ValueOf("pad", g, <<ch>> \o str[c], n)
            <3> SUFFICES ASSUME Printable(g) PROVE ValueOf("pad", g, <<ch>> \o str[c], n)
                OBVIOUS
            <3>1. ValueOf("pad", g, str[c], num[c]) /\ g.padding \in Nat
                BY <2>1, <1>6, <1>7, <1>8, Zenon
            <3> HIDE DEF g
            <3> QED
                BY <2>1, <3>1, PadValue, Zenon
        <2> QED
            BY <1>2, <2>1, <2>2, Zenon
    <1>20. CASE Sign(c)
        <2> DEFINE t == IF num[c].neg THEN <<"-">> \o str[c] ELSE str[c]
        <2>1. pc[c] = "pad" /\ Does(c, "number", kind[c], fmt[c], t, num[c], ctx[c])
            BY <1>20, Signs
        <2>2. num[c].padding = 0
            BY <1>20 DEF Sign
        <2>3. num[c] \in Num
            BY <2>1, <1>5, <1>6 DEF Converting
        <2>4. Printable(g) => ValueOf("number", g, t, num[c])
            <3> SUFFICES ASSUME Printable(g) PROVE ValueOf("number", g, t, num[c])
                OBVIOUS
            <3>1. ValueOf("pad", g, str[c], num[c]) /\ g.padding \in Nat
                BY <2>1, <1>6, <1>7, <1>8, Zenon
            <3> HIDE DEF g
            <3> QED
                BY <2>2, <2>3, <3>1, SignValue, Zenon
        <2> HIDE DEF t
        <2> QED
            BY <1>2, <2>1, <2>4, Zenon
    <1>21. CASE Put(c)
        BY <1>4, <1>21, PutOut
    <1>22. CASE Converted(c)
        BY <1>4, <1>22, Done
    <1>23. CASE Draw(c)
        BY <1>4, <1>23, Drawn
    <1> QED
        BY <1>1, <1>9, <1>10, <1>11, <1>12, <1>13, <1>14, <1>15, <1>16, <1>17, <1>18,
           <1>19, <1>20, <1>21, <1>22, <1>23 DEF Step

-----------------------------------------------------------------------------
(* Theorems                                                                *)

LEMMA Stutters ==
    ASSUME UNCHANGED vars
    PROVE  /\ TypeInv => TypeInv'
           /\ TicketInv => TicketInv'
           /\ LineInv => LineInv'
           /\ BufferInv => BufferInv'
           /\ NumberInv => NumberInv'
    BY DEF vars, queue, TypeInv, Converting, TicketInv, LineInv, LineOf, Terminated, EndsLine, BufferInv,
           Buffered, NumberInv, NumberOf, PaddingsFit, Bits

\* The types of printing: a character that is put out is one of a text or of
\* kvcprintf()'s own, and num_fmt() has the locals of a number to work with.
THEOREM Types == Spec => []TypeInv
    <1>1. TypeInv /\ [Next]_vars => TypeInv'
        BY TypeStep, Stutters
    <1> QED
        BY <1>1, TypeInit, PTL DEF Spec

\* g_trace_lock serves a ticket that one CPU at most waits for, and that none
\* does while the lock is taken, whatever tickets exceptions leave behind.
THEOREM Tickets == Spec => []TicketInv
    <1>1. TypeInv /\ TicketInv /\ [Next]_vars => TicketInv'
        BY TicketStep, Stutters
    <1> QED
        BY <1>1, TicketInit, Types, PTL DEF Spec

\* Who prints a line holds g_trace_lock until its last character is out.
THEOREM LinesHeld == Spec => []LineInv
    <1>1. TypeInv /\ TicketInv /\ LineInv /\ [Next]_vars => LineInv'
        BY LineStep, Stutters
    <1> QED
        BY <1>1, LineInit, Types, Tickets, PTL DEF Spec

\* The lines of TRACE, WARN and ERROR do not overlap: the serial line goes
\* from the middle of one to the middle of another only past its end.
THEOREM NoOverlap == Spec => LinesWhole
    <1>1. LineInv /\ LineInv' /\ TypeInv /\ [Next]_vars
          => [open' # open => NoCPU \in {open, open'}]_vars
        <2> SUFFICES ASSUME LineInv, TypeInv, Next
                     PROVE  open' # open => NoCPU \in {open, open'}
            BY DEF vars
        <2>1. PICK c \in CPU : \/ (\E f \in Lines : Line(c, f))
                               \/ (\E s \in Strings : String(c, s[1], s[2]))
                               \/ \E failed \in BOOLEAN : Except(c, failed)
                               \/ Step(c)
            BY Zenon DEF Next
        <2>2. CASE Put(c) /\ kind[c] \in {"line", "rethrow"}
            <3>1. pc[c] \in {"number", "put"} /\ open' \in {NoCPU, c}
                BY <2>2, PutOut
            <3>2. holder = c
                BY <2>2, <3>1 DEF LineInv, LineOf, Printing, Writing
            <3>3. open \in {NoCPU, c}
                BY <3>2 DEF LineInv
            <3> QED
                BY <3>1, <3>3
        <2>3. CASE ~(Put(c) /\ kind[c] \in {"line", "rethrow"})
            <3>1. open' = open
                BY <2>1, <2>3, PutOut DEF Step, Line, String, Except, Draw, Lock, Unlock,
                   End, ConvertText, ConvertSize, ConvertNumber, Digit, Pad, Sign, Converted
            <3> QED
                BY <3>1
        <2> QED
            BY <2>2, <2>3
    <1> QED
        BY <1>1, Types, LinesHeld, PTL DEF Spec, LinesWhole

\* The buffer of kvsnprintf() loses nothing while there is room for a terminator,
\* and is cut off by one otherwise; and, if num_buf has room for a long in
\* binary and for the paddings asked for, nothing is written outside num_fmt()'s.
THEOREM Buffers ==
    ASSUME NumBufFits
    PROVE  Spec => []WithinBuffers
    <1>1. TypeInv /\ BufferInv /\ NumberInv /\ [Next]_vars => BufferInv' /\ NumberInv'
        BY BufferStep, NumberStep, Stutters
    <1>2. TypeInv /\ BufferInv /\ NumberInv => WithinBuffers
        <2> SUFFICES ASSUME TypeInv, BufferInv, NumberInv, NEW c \in CPU
                     PROVE  /\ pc[c] \in {"digit", "pad", "number"} => Len(str[c]) < NumBuf
                            /\ LET x == ctx[c]
                                   n == Len(x.given)
                               IN  /\ Len(x.buffer) <= x.size
                                   /\ n < x.size => SubSeq(x.buffer, 1, n) = x.given
                                   /\ n >= x.size /\ x.size > 0 =>
                                         x.buffer = Append(SubSeq(x.given, 1, x.size - 1), NUL)
            BY DEF WithinBuffers
        <2> DEFINE x == ctx[c]
                   n == Len(x.given)
        <2>1. /\ NumberOf(pc[c], fmt[c], str[c], num[c]) /\ Buffered(x)
              /\ x \in Buffer /\ str[c] \in Seq(Char)
              /\ Converting(pc[c], fmt[c], num[c])
            BY Of DEF NumberInv, BufferInv, Typed
        <2>2. pc[c] \in {"digit", "pad", "number"} => Len(str[c]) < NumBuf
            <3> SUFFICES ASSUME pc[c] \in {"digit", "pad", "number"}
                         PROVE  Len(str[c]) < NumBuf
                OBVIOUS
            <3>1. Bits(num[c]) \in 1 .. LongBits
                BY <2>1, BitsRange DEF Converting, Writing
            <3>2. Len(str[c]) <= Bits(num[c]) \/ Len(str[c]) + 1 < NumBuf
                  \/ Len(str[c]) < NumBuf
                BY <2>1, <3>1, Widths DEF NumberOf
            <3>3. LongBits < NumBuf /\ LongBits \in Nat /\ NumBuf \in Nat /\ Len(str[c]) \in Nat
                BY <2>1, Widths DEF NumBufFits
            <3> QED
                BY <3>1, <3>2, <3>3
        <2>3. /\ x.size \in Nat /\ n \in Nat /\ x.given \in Seq(Char)
            BY <2>1 DEF Buffer
        <2> HIDE DEF x
        <2>4. /\ x.size = 0 => x.buffer = <<>>
              /\ n < x.size => x.buffer = x.given
              /\ n >= x.size /\ x.size > 0 =>
                    x.buffer = Append(SubSeq(x.given, 1, x.size - 1), NUL)
            BY <2>1 DEF Buffered
        <2>5. Len(x.buffer) <= x.size
            <3>1. CASE x.size = 0
                <4>1. Len(x.buffer) = 0
                    BY <2>4, <3>1
                <4> QED
                    BY <3>1, <4>1
            <3>2. CASE n < x.size
                BY <2>3, <2>4, <3>2
            <3>3. CASE n >= x.size /\ x.size > 0
                <4>1. x.size - 1 \in 0 .. n
                    BY <2>3, <3>3
                <4> DEFINE u == SubSeq(x.given, 1, x.size - 1)
                <4>2. u \in Seq(Char) /\ Len(u) = x.size - 1
                    BY <4>1, <2>3, Cut, Chars
                <4> HIDE DEF u
                <4>3. NUL \in Char
                    BY Chars
                <4>4. Len(Append(u, NUL)) = x.size
                    BY <4>2, <4>3, <2>3
                <4>5. Len(x.buffer) = x.size
                    BY <4>4, <2>4, <3>3 DEF u
                <4> QED
                    BY <4>5, <2>3
            <3> QED
                BY <2>3, <3>1, <3>2, <3>3
        <2>6. n < x.size => SubSeq(x.buffer, 1, n) = x.given
            <3>1. SubSeq(x.given, 1, n) = x.given
                BY <2>3
            <3> QED
                BY <2>4, <3>1
        <2> QED
            BY <2>2, <2>4, <2>5, <2>6 DEF x
    <1> QED
        BY <1>1, <1>2, Types, BufferInit, NumberInit, PTL DEF Spec

\* A conversion prints its argument, whatever the widths, if they are whole
\* hexadecimal digits: the loop over the digits, the length that ends it, the
\* padding and the sign come to a string that denotes the argument's value.
THEOREM Numbers ==
    ASSUME WholeDigits
    PROVE  Spec => []NumberDenoted
    <1>1. TypeInv /\ ValueInv /\ [Next]_vars => ValueInv'
        <2>1. ASSUME ValueInv, UNCHANGED vars PROVE ValueInv'
            BY <2>1 DEF vars, ValueInv
        <2> QED
            BY <2>1, ValueStep
    <1>2. ValueInv => NumberDenoted
        <2> SUFFICES ASSUME ValueInv, NEW c \in CPU, pc[c] = "number",
                            Printable(Head(fmt[c]))
                     PROVE  LET f == Head(fmt[c])
                                negative == f.conv = "d" /\ Signed(f.arg) < 0
                                s == IF negative THEN Tail(str[c]) ELSE str[c]
                            IN  /\ (str[c][1] = "-") <=> negative
                                /\ Denoted(0, s, Base(f)) = Magnitude(f)
                                /\ Len(s) >= f.padding
                                /\ Len(s) > f.padding /\ Len(s) > 1 => s[1] # "0"
            BY Zenon DEF NumberDenoted
        <2> DEFINE f == Head(fmt[c])
                   s == IF Negative(f) THEN Tail(str[c]) ELSE str[c]
        <2>1. ValueOf("number", f, str[c], num[c])
            BY DEF ValueInv, Writing
        <2>2. "number" # "digit" /\ "number" # "pad"
            OBVIOUS
        <2>3. /\ num[c].base = Base(f) /\ num[c].neg = Negative(f)
              /\ LET t == IF num[c].neg THEN Tail(str[c]) ELSE str[c]
                 IN  /\ (str[c][1] = "-") = num[c].neg
                     /\ Denoted(0, t, num[c].base) = Magnitude(f)
                     /\ Len(t) >= f.padding /\ Short(t, f.padding)
            BY <2>1, Zenon DEF ValueOf
        <2>4. /\ (str[c][1] = "-") = Negative(f)
              /\ Denoted(0, s, Base(f)) = Magnitude(f)
              /\ Len(s) >= f.padding /\ Short(s, f.padding)
            BY <2>3, Zenon
        <2> QED
            BY <2>4, Zenon DEF Negative, Short
    <1> QED
        BY <1>1, <1>2, Types, ValueInit, PTL DEF Spec
=============================================================================
