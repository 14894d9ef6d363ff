------------------------------- MODULE Trace --------------------------------
(***************************************************************************)
(* Formatted output (util/trace.c, trace.h): the printf of virtdbg and the *)
(* lines that TRACE, WARN and ERROR send to the serial line under          *)
(* g_trace_lock, while an exception on any CPU may end in the dump of      *)
(* kernel_exception_handler(), which takes no lock, or first in the ERROR  *)
(* of a failed hook, which does.                                           *)
(*                                                                         *)
(* A format is a sequence of conversions with their arguments; plain text  *)
(* is a conversion without one.  Upper case is left out.                   *)
(*                                                                         *)
(* The lock is the ticket lock of sync/lock.c: an exception on a CPU that  *)
(* waits or prints takes along the ticket that the CPU drew.  That tickets *)
(* wrap, and that interrupt handlers print while their CPU waits, is the   *)
(* matter of TicketLock.                                                   *)
(***************************************************************************)
EXTENDS Integers, Sequences

CONSTANTS
    CPU,
    IntBits,        \* width of int: 32 in the build
    LongBits,       \* width of long and of uint64_t: 64
    Kilo,           \* 1024
    NumBuf,         \* sizeof(num_buf): 65
    Lines,          \* formats that are printed as a line
    Strings,        \* formats for kvsnprintf(), each with the size of the buffer
    Beyond,         \* texts that the memory behind sizes[] may be taken for
    MaxLines,       \* bound: lines in a behaviour
    MaxStrings      \* bound: strings in a behaviour

NoCPU == "none"
NUL == "nul"
Newline == "newline"

Digits == <<"0", "1", "2", "3", "4", "5", "6", "7", "8", "9", "a", "b", "c", "d",
            "e", "f">>

Numeric == {"d", "u", "x", "b", "p"}

Conversion ==
    [conv : Numeric \cup {"S"}, wide : BOOLEAN, padding : Nat, zero : BOOLEAN,
     arg : 0 .. 2 ^ LongBits - 1]
    \cup [conv : {"text"}, text : Seq(STRING)]

\* Text, %c, %%, %s, and %R of a listed error, whose name is a string.
Text(s) == [conv |-> "text", text |-> s]

\* A number without flags.
Plain(n) == [conv |-> "u", wide |-> TRUE, padding |-> 0, zero |-> FALSE, arg |-> n]

ASSUME TraceAssumption ==
    /\ NoCPU \notin CPU
    /\ IntBits \in Nat \ {0} /\ LongBits \in Nat /\ LongBits > IntBits
    /\ Kilo \in Nat /\ Kilo > 1 /\ NumBuf \in Nat
    /\ Lines \subseteq Seq(Conversion) /\ Strings \subseteq Seq(Conversion) \X Nat
    /\ Beyond \subseteq Seq(STRING)
    /\ MaxLines \in Nat /\ MaxStrings \in Nat

\* The arithmetic of the widths, which the prover does not know.
ASSUME PowerAssumption ==
    /\ 2 ^ 0 = 1
    /\ \A n \in 0 .. LongBits : 2 ^ n \in Nat \ {0} /\ 2 ^ (n + 1) = 2 * 2 ^ n

VARIABLES
    next_ticket, now_serving,       \* g_trace_lock
    ticket,         \* the ticket that each CPU drew last
    holder,         \* history: the CPU that took the lock and has not released it
    lost,           \* history: tickets whose CPU went on without them
    pc,             \* where each CPU is
    kind,           \* what it prints: "line", "string", "rethrow" or "dump"
    fmt,            \* the conversions that are left
    num,            \* the local variables of num_fmt()
    str,            \* what is left of the string to put out
    ctx,            \* buffer_context_t: [room, buffer], and what it was given
    open,           \* the CPU whose line the serial line is in the middle of
    lines, strings  \* how many of each were begun

queue == <<next_ticket, now_serving, ticket, lost>>
vars == <<queue, holder, pc, kind, fmt, num, str, ctx, open, lines, strings>>

Goto(c, label) == pc' = [pc EXCEPT ![c] = label]

NoNumber == [i |-> 0, base |-> 10, padding |-> 0, pad |-> " ", neg |-> FALSE, len |-> -1]
NoBuffer == [room |-> 0, buffer |-> <<>>, given |-> <<>>, size |-> 0]

Init ==
    /\ next_ticket = 0 /\ now_serving = 0
    /\ ticket = [c \in CPU |-> 0]
    /\ lost = {}
    /\ holder = NoCPU
    /\ pc = [c \in CPU |-> "idle"]
    /\ kind = [c \in CPU |-> "line"]
    /\ fmt = [c \in CPU |-> <<>>]
    /\ num = [c \in CPU |-> NoNumber]
    /\ str = [c \in CPU |-> <<>>]
    /\ ctx = [c \in CPU |-> NoBuffer]
    /\ open = NoCPU
    /\ lines = 0 /\ strings = 0

-----------------------------------------------------------------------------
(* Who prints                                                              *)

\* DEBUG, TRACE, WARN and ERROR.
Line(c, f) ==
    /\ pc[c] = "idle" /\ lines < MaxLines
    /\ lines' = lines + 1
    /\ kind' = [kind EXCEPT ![c] = "line"]
    /\ fmt' = [fmt EXCEPT ![c] = Append(f, Text(<<Newline>>))]
    /\ Goto(c, "lock")
    /\ UNCHANGED <<queue, holder, num, str, ctx, open, strings>>

\* kvsnprintf() and ksnprintf().
String(c, f, size) ==
    /\ pc[c] = "idle" /\ strings < MaxStrings
    /\ strings' = strings + 1
    /\ kind' = [kind EXCEPT ![c] = "string"]
    /\ fmt' = [fmt EXCEPT ![c] = f]
    /\ ctx' = [ctx EXCEPT ![c] =
                  [room |-> size, buffer |-> <<>>, given |-> <<>>, size |-> size]]
    /\ Goto(c, "next")
    /\ UNCHANGED <<queue, holder, num, str, open, lines>>

\* lock() draws a ticket ...
Draw(c) ==
    /\ pc[c] = "lock"
    /\ ticket' = [ticket EXCEPT ![c] = next_ticket]
    /\ next_ticket' = next_ticket + 1
    /\ Goto(c, "wait")
    /\ UNCHANGED <<now_serving, lost, holder, kind, fmt, num, str, ctx, open,
                   lines, strings>>

\* Mutant of Lock: the macro does not wait for the lock.
Free_Lock(c) ==
    /\ pc[c] = "wait"
    /\ holder' = c
    /\ Goto(c, "next")
    /\ UNCHANGED <<queue, kind, fmt, num, str, ctx, open, lines, strings>>

\* ... and waits for it to be served.
Lock(c) ==
    /\ pc[c] = "wait"
    /\ now_serving = ticket[c]
    /\ holder' = c
    /\ Goto(c, "next")
    /\ UNCHANGED <<queue, kind, fmt, num, str, ctx, open, lines, strings>>

\* kernel_exception_handler(): the lock may be held, by this CPU even.
Dump == <<Text(<<"d", Newline>>)>>

Unlock(c) ==
    /\ pc[c] = "unlock"
    /\ now_serving' = now_serving + 1
    /\ holder' = NoCPU
    /\ IF kind[c] = "rethrow"
       THEN /\ kind' = [kind EXCEPT ![c] = "dump"]
            /\ fmt' = [fmt EXCEPT ![c] = Dump]
            /\ Goto(c, "next")
       ELSE Goto(c, "idle") /\ UNCHANGED <<kind, fmt>>
    /\ UNCHANGED <<next_ticket, ticket, lost, num, str, ctx, open, lines, strings>>

\* What an exception on a CPU takes along.
Held(c) == IF pc[c] = "wait" \/ holder = c THEN {ticket[c]} ELSE {}

\* Mutant of Except: the dump is printed with ERROR.
Locked_Except(c, failed) ==
    /\ kind[c] \in {"line", "string"}
    /\ \A d \in CPU : kind[d] \in {"line", "string"}
    /\ kind' = [kind EXCEPT ![c] = "dump"]
    /\ fmt' = [fmt EXCEPT ![c] = Dump]
    /\ Goto(c, "lock")
    /\ lost' = lost \cup Held(c)
    /\ UNCHANGED <<next_ticket, now_serving, ticket, holder, num, str, ctx, open,
                   lines, strings>>

\* An exception that no hook handles, anywhere in or out of a print; bound:
\* one in a behaviour.  If a hook failed, common_exception_handler() says so
\* with ERROR before it calls kernel_exception_handler().
Except(c, failed) ==
    /\ kind[c] \in {"line", "string"}
    /\ \A d \in CPU : kind[d] \in {"line", "string"}
    /\ IF failed
       THEN /\ kind' = [kind EXCEPT ![c] = "rethrow"]
            /\ fmt' = [fmt EXCEPT ![c] = <<Text(<<"r", Newline>>)>>]
            /\ Goto(c, "lock")
       ELSE /\ kind' = [kind EXCEPT ![c] = "dump"]
            /\ fmt' = [fmt EXCEPT ![c] = Dump]
            /\ Goto(c, "next")
    /\ lost' = lost \cup Held(c)
    /\ UNCHANGED <<next_ticket, now_serving, ticket, holder, num, str, ctx, open,
                   lines, strings>>

-----------------------------------------------------------------------------
(* kvcprintf()                                                             *)

\* va_arg(ap, int) in an uint64_t: the sign is extended.
IntArg(a) ==
    LET v == a % 2 ^ IntBits
    IN  IF v >= 2 ^ (IntBits - 1) THEN v + 2 ^ LongBits - 2 ^ IntBits ELSE v

Arg(f) == IF f.wide \/ f.conv = "p" THEN f.arg ELSE IntArg(f.arg)

Base(f) == IF f.conv \in {"d", "u"} THEN 10 ELSE IF f.conv = "b" THEN 2 ELSE 16

\* Mutant of Length: the digits of an int are not limited.
Long_Length(f) ==
    IF f.conv \in {"d", "u"} THEN -1 ELSE IF f.conv = "b" THEN LongBits ELSE LongBits \div 4

\* How many digits num_fmt() is allowed; -1 for as many as it takes.
Length(f) ==
    LET bits == IF f.wide \/ f.conv = "p" THEN LongBits ELSE IntBits
    IN  IF f.conv \in {"d", "u"} THEN -1 ELSE IF f.conv = "b" THEN bits ELSE bits \div 4

\* (signed)i: the low half, which is all that num_fmt() looks at for the sign.
Signed(i) ==
    LET v == i % 2 ^ IntBits
    IN  IF v >= 2 ^ (IntBits - 1) THEN v - 2 ^ IntBits ELSE v

\* The end of the format: the callers' ways on.
End(c) ==
    /\ pc[c] = "next" /\ fmt[c] = <<>>
    /\ Goto(c, CASE kind[c] = "string" -> "idle"
                 [] kind[c] = "dump" -> "halted"
                 [] OTHER -> "unlock")
    /\ UNCHANGED <<queue, holder, kind, fmt, num, str, ctx, open, lines, strings>>

ConvertText(c) ==
    /\ pc[c] = "next" /\ fmt[c] # <<>>
    /\ Head(fmt[c]).conv = "text"
    /\ str' = [str EXCEPT ![c] = Head(fmt[c]).text]
    /\ Goto(c, "put")
    /\ UNCHANGED <<queue, holder, kind, fmt, num, ctx, open, lines, strings>>

\* A number after each division by Kilo.
Scaled(i) ==
    LET k == i \div Kilo
        m == k \div Kilo
        g == m \div Kilo
    IN  <<i, k, m, g, g \div Kilo>>

Units == <<"B", "KB", "MB", "GB">>

\* sizes[d]: the loop may count one too far, and then anything may be printed
\* (or Except happens: what lies behind sizes[] need not be an address).
Unit(d) == IF d < Len(Units) THEN {<<Units[d + 1]>>} ELSE Beyond

\* %S: the number of units, a fraction that is the same number again, the unit.
ConvertSize(c) ==
    LET f == Head(fmt[c])
        units == Scaled(Arg(f))
        rem(d) == IF d = 0 THEN 0 ELSE units[d] % Kilo
    IN  /\ pc[c] = "next" /\ fmt[c] # <<>>
        /\ f.conv = "S"
        /\ \E d \in 0 .. 4 : \E unit \in Unit(d) :
              /\ d = 4 \/ units[d + 1] < Kilo
              /\ \A e \in 1 .. d : units[e] >= Kilo
              /\ fmt' = [fmt EXCEPT ![c] =
                    <<Plain(units[d + 1])>>
                    \o (IF (rem(d) * 100) \div Kilo # 0
                        THEN <<Text(<<".">>), Plain(units[d + 1])>> ELSE <<>>)
                    \o <<Text(unit)>> \o Tail(fmt[c])]
        /\ UNCHANGED <<queue, holder, pc, kind, num, str, ctx, open, lines, strings>>

\* The call of num_fmt() and its first lines.
ConvertNumber(c) ==
    LET f == Head(fmt[c])
        i == Arg(f)
        neg == f.conv = "d" /\ Signed(i) < 0
    IN  /\ pc[c] = "next" /\ fmt[c] # <<>>
        /\ f.conv \in Numeric
        /\ num' = [num EXCEPT ![c] =
              [i |-> IF neg THEN (- Signed(i)) % 2 ^ IntBits ELSE i, base |-> Base(f),
               padding |-> f.padding, pad |-> IF f.zero THEN "0" ELSE " ",
               neg |-> neg, len |-> Length(f)]]
        /\ str' = [str EXCEPT ![c] = <<>>]
        /\ Goto(c, "digit")
        /\ UNCHANGED <<queue, holder, kind, fmt, ctx, open, lines, strings>>

\* *--ptr = ch
Push(c, ch) == str' = [str EXCEPT ![c] = <<ch>> \o @]

\* One turn of the loop over the digits.
Digit(c) ==
    LET n == num[c]
        len == IF n.len > 0 THEN n.len - 1 ELSE n.len
    IN  /\ pc[c] = "digit"
        /\ Push(c, Digits[(n.i % n.base) + 1])
        /\ num' = [num EXCEPT ![c] =
              [n EXCEPT !.i = n.i \div n.base, !.len = len,
                        !.padding = IF @ > 0 THEN @ - 1 ELSE 0]]
        /\ IF n.i \div n.base # 0 /\ len # 0 THEN UNCHANGED pc ELSE Goto(c, "pad")
        /\ UNCHANGED <<queue, holder, kind, fmt, ctx, open, lines, strings>>

Pad(c) ==
    /\ pc[c] = "pad" /\ num[c].padding > 0
    /\ Push(c, num[c].pad)
    /\ num' = [num EXCEPT ![c].padding = @ - 1]
    /\ UNCHANGED <<queue, holder, pc, kind, fmt, ctx, open, lines, strings>>

Sign(c) ==
    /\ pc[c] = "pad" /\ num[c].padding = 0
    /\ IF num[c].neg THEN Push(c, "-") ELSE UNCHANGED str
    /\ Goto(c, "number")
    /\ UNCHANGED <<queue, holder, kind, fmt, num, ctx, open, lines, strings>>

\* Mutant of Store: the terminator comes one character late.
Late_Store(x, ch) ==
    IF x.room = 0 THEN x
    ELSE [x EXCEPT !.buffer = Append(@, ch), !.room = @ - 1]

\* buffer_output_cb()
Store(x, ch) ==
    IF x.room = 0 THEN x
    ELSE [x EXCEPT !.buffer = Append(@, IF x.room = 1 THEN NUL ELSE ch), !.room = @ - 1]

\* cb(ch, ctx): one character to the buffer, or to the serial line, where it
\* begins, continues or ends a line.
Put(c) ==
    LET ch == Head(str[c])
    IN  /\ pc[c] \in {"number", "put"} /\ str[c] # <<>>
        /\ str' = [str EXCEPT ![c] = Tail(@)]
        /\ Goto(c, "put")
        /\ ctx' = IF kind[c] = "string"
                  THEN [ctx EXCEPT ![c] = [Store(ctx[c], ch) EXCEPT !.given = Append(@, ch)]]
                  ELSE ctx
        /\ open' = IF kind[c] \in {"line", "rethrow"}
                   THEN IF ch = Newline THEN NoCPU ELSE c
                   ELSE open
        /\ UNCHANGED <<queue, holder, kind, fmt, num, lines, strings>>

\* The end of a conversion.
Converted(c) ==
    /\ pc[c] = "put" /\ str[c] = <<>>
    /\ fmt' = [fmt EXCEPT ![c] = Tail(@)]
    /\ Goto(c, "next")
    /\ UNCHANGED <<queue, holder, kind, num, str, ctx, open, lines, strings>>

Step(c) ==
    \/ Draw(c) \/ Lock(c) \/ Unlock(c) \/ End(c)
    \/ ConvertText(c) \/ ConvertSize(c) \/ ConvertNumber(c)
    \/ Digit(c) \/ Pad(c) \/ Sign(c) \/ Put(c) \/ Converted(c)

Next ==
    \E c \in CPU :
        \/ (\E f \in Lines : Line(c, f)) \/ (\E s \in Strings : String(c, s[1], s[2]))
        \/ \E failed \in BOOLEAN : Except(c, failed)
        \/ Step(c)

Spec == Init /\ [][Next]_vars

\* A CPU goes on executing.
FairSpec == Spec /\ \A c \in CPU : WF_vars(Step(c))

-----------------------------------------------------------------------------
(* Properties                                                              *)

\* What a digit is worth; the padding is worth nothing.
Value(ch) == IF ch = " " THEN 0 ELSE (CHOOSE d \in DOMAIN Digits : Digits[d] = ch) - 1

\* What a string of digits, padded on the left, denotes in a base behind a number.
Denoted(n, s, base) ==
    LET value[k \in 0 .. Len(s)] == IF k = 0 THEN n ELSE value[k - 1] * base + Value(s[k])
    IN  value[Len(s)]

\* The absolute value of what the argument's type says, as far as kvcprintf()
\* can print it: see Printable.
Magnitude(f) ==
    LET int == f.arg % 2 ^ IntBits
    IN  IF f.conv = "d" THEN (IF Signed(f.arg) < 0 THEN - Signed(f.arg) ELSE Signed(f.arg))
        ELSE IF f.wide \/ f.conv = "p" THEN f.arg ELSE int

\* Not %ld of a value that no int holds, nor %u of one that an int takes for negative.
Printable(f) ==
    /\ f.conv = "d" /\ f.wide => f.arg = IntArg(f.arg)
    /\ f.conv = "u" /\ ~f.wide => Signed(f.arg) >= 0

\* A conversion prints its argument: the loop over the digits, which counts a
\* length down while it divides, the padding it counts down too, and the sign
\* in front come to a string that denotes the argument's value, of the width
\* asked for, in no more characters than it takes.
NumberDenoted ==
    \A c \in CPU : pc[c] = "number" /\ kind[c] \in {"line", "string"} =>
        LET f == Head(fmt[c])
            negative == f.conv = "d" /\ Signed(f.arg) < 0
            s == IF negative THEN Tail(str[c]) ELSE str[c]
        IN  Printable(f) =>
                /\ (str[c][1] = "-") <=> negative
                /\ Denoted(0, s, Base(f)) = Magnitude(f)
                /\ Len(s) >= f.padding
                /\ Len(s) > f.padding /\ Len(s) > 1 => s[1] # "0"

\* Neither num_fmt() nor kvsnprintf() writes outside its buffer.  What is given
\* to kvsnprintf()'s is all there as long as there is room for a terminator
\* behind it, and is cut off by one otherwise.  That a string which is shorter
\* than its buffer has a terminator (trace.h:34) is not claimed: it has none.
WithinBuffers ==
    \A c \in CPU :
        /\ pc[c] \in {"digit", "pad", "number"} => Len(str[c]) < NumBuf
        /\ LET x == ctx[c]
               n == Len(x.given)
           IN  /\ Len(x.buffer) <= x.size
               /\ n < x.size => SubSeq(x.buffer, 1, n) = x.given
               /\ n >= x.size /\ x.size > 0 =>
                     x.buffer = Append(SubSeq(x.given, 1, x.size - 1), NUL)

\* The lines of TRACE, WARN and ERROR do not overlap (trace.h:71).
LinesWhole == [][open' # open => NoCPU \in {open, open'}]_vars

\* kernel_exception_handler() gets its report out whatever the CPU was doing,
\* in the middle of a line and with the lock in its own hands too, unless a hook
\* failed and the CPU had a ticket when the exception came: the ERROR that says
\* so waits behind that ticket.
DumpReported ==
    \A c \in CPU :
        kind[c] = "dump" \/ (kind[c] = "rethrow" /\ lost = {}) ~> pc[c] = "halted"
=============================================================================
