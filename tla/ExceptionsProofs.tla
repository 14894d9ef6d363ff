-------------------------- MODULE ExceptionsProofs --------------------------
(***************************************************************************)
(* Theorems about arch/idt.c and util/list.c for any number of hooks and   *)
(* lists and any depth of exceptions within exceptions.                    *)
(***************************************************************************)
EXTENDS Exceptions, TLAPS

\* The stubs of the exceptions that are raised agree with the CPU about the
\* error code.  (Those of vectors 16, 17 and 21 do not.)
StubsRight == \A v \in Raised : v \in ErrorStub <=> v \in HasErrorCode


\* What an INTERRUPT_HANDLER has pushed, from the top of the stack down.
Handler == <<"r15", "r14", "r13", "r12", "r11", "r10", "r9", "r8", "rbp", "rdi",
             "rsi", "rdx", "rcx", "rbx", "rax", "rip", "cs", "rflags", "rsp", "ss">>

Layout(kind) == IF kind = "exception" THEN Context ELSE Handler

Names == {"ds", "r15", "r14", "r13", "r12", "r11", "r10", "r9", "r8", "rbp",
          "rdi", "rsi", "rdx", "rcx", "rbx", "rax", "int_num", "error_code",
          "rip", "cs", "rflags", "rsp", "ss"}


\* The words that the stack and the registers hold.
Word == {"program", "number", "stack", "error", "hook", "edited", "pad"}
            \X (Names \cup {"", "code", "local"}) \X Nat

Activation ==
    [kind : {"exception", "interrupt"}, ctx : Nat, list : List,
     entry : Node \cup {Null}, handled : BOOLEAN, failed : BOOLEAN,
     expect : [Field -> Word], due : Seq(Link), called : Seq(Node \cup {Null})]

TypeInv ==
    /\ pc \in {"run", "dispatch", "hook", "return", "halted"}
    /\ pc = "run" <=> acts = <<>>
    /\ regs \in [Register -> Word]
    /\ stack \in Seq(Word)
    /\ acts \in Seq(Activation)
    /\ next \in [Node -> Node \cup {Null}] /\ prev \in [Node -> Node \cup {Null}]
    /\ push \in {Idle} \cup [stage : {"append", "close"}, list : List, entry : Link]
    /\ registered \in [List -> Seq(Link)]
    /\ count \in Nat

\* The length of the stack when an exception or interrupt came.
Below(a) == a.expect["rsp"][3]

\* The frame of an exception or interrupt holds the context that its hooks expect
\* and lies above all that was there before.
FrameOf(a, st) ==
    /\ a.expect["rsp"] = Rsp(Below(a)) /\ Below(a) \in Nat
    /\ Below(a) + Len(Layout(a.kind)) <= a.ctx
    /\ a.ctx <= Len(st)
    /\ \A i \in 1 .. Len(Layout(a.kind)) : st[a.ctx - i + 1] = a.expect[Layout(a.kind)[i]]

FrameInv ==
    \A k \in 1 .. Len(acts) :
        /\ FrameOf(acts[k], stack)
        /\ \A j \in 1 .. k - 1 : acts[j].ctx <= Below(acts[k])

\* Only the program is interrupted, and ds, which an interrupt does not save,
\* has its value or lies in the frame of an exception on top.
DsInv ==
    \A k \in 1 .. Len(acts) : acts[k].kind = "interrupt" =>
        /\ k = 1
        /\ IF Len(acts) = 1 THEN regs["ds"] = acts[1].expect["ds"]
                            ELSE acts[2].expect["ds"] = acts[1].expect["ds"]

\* A ring is a list's head and a sequence of hooks.
Ring(pointers, l, s) ==
    /\ pointers[l] = IF s = <<>> THEN l ELSE s[1]
    /\ \A i \in 1 .. Len(s) : pointers[s[i]] = IF i = Len(s) THEN l ELSE s[i + 1]

End(l, s) == IF s = <<>> THEN l ELSE s[Len(s)]

\* The hooks that a walk along the next pointers meets.
Chain(l) == IF push.stage = "close" /\ push.list = l
            THEN Append(registered[l], push.entry) ELSE registered[l]

\* No hook is in two places, and the one that is being registered in none.
Apart ==
    /\ \A l, m \in List : \A i \in 1 .. Len(registered[l]), j \in 1 .. Len(registered[m]) :
          registered[l][i] = registered[m][j] => l = m /\ i = j
    /\ push # Idle =>
          \A l \in List : \A i \in 1 .. Len(registered[l]) : registered[l][i] # push.entry

\* next leads around the chain, prev to the end of what is registered, and the
\* hook that is being registered has its pointers when the list points to it.
RingInv ==
    /\ \A l \in List : Ring(next, l, Chain(l)) /\ prev[l] = End(l, registered[l])
    /\ Apart
    /\ push.stage = "append" =>
          /\ next[push.entry] = push.list
          /\ prev[push.entry] = End(push.list, registered[push.list])

\* A walk along a chain s has called a beginning of it and stands at the next
\* hook, or still at the one that it called last: that is running or it failed.
Walk(a, s, calling) ==
    LET n == Len(a.called)
    IN  /\ n <= Len(s) /\ \A i \in 1 .. n : a.called[i] = s[i]
        /\ IF a.failed \/ calling
           THEN n > 0 /\ a.entry = s[n]
           ELSE a.entry = IF n = Len(s) THEN a.list ELSE s[n + 1]

WalkInv ==
    /\ \A k \in 1 .. Len(acts) :
          /\ Walk(acts[k], Chain(acts[k].list), k < Len(acts) \/ pc = "hook")
          /\ acts[k].due = registered[acts[k].list]
    /\ pc = "return" => ~act.failed /\ act.entry = act.list

-----------------------------------------------------------------------------
(* Lemmas about sequences                                                  *)

LEMMA SameSeq ==
    ASSUME NEW V, NEW s \in Seq(V), NEW t \in Seq(V), Len(s) = Len(t),
           \A i \in 1 .. Len(s) : s[i] = t[i]
    PROVE  s = t
    OBVIOUS

LEMMA Concat ==
    ASSUME NEW V, NEW s \in Seq(V), NEW t \in Seq(V), NEW u, u = s \o t
    PROVE  /\ u \in Seq(V) /\ Len(u) = Len(s) + Len(t)
           /\ \A i \in 1 .. Len(s) : u[i] = s[i]
           /\ \A i \in 1 .. Len(t) : u[Len(s) + i] = t[i]
    OBVIOUS

LEMMA PushPop ==
    ASSUME NEW V, NEW s \in Seq(V), NEW a \in V
    PROVE  /\ Append(s, a) \in Seq(V) /\ Len(Append(s, a)) = Len(s) + 1
           /\ Append(s, a)[Len(s) + 1] = a
           /\ \A i \in 1 .. Len(s) : Append(s, a)[i] = s[i]
           /\ Append(s, a) # <<>>
    OBVIOUS

-----------------------------------------------------------------------------
(* Lemmas about what is pushed                                             *)

LEMMA FieldNames == Field = Names /\ Register \subseteq Field
    <1>1. Len(Context) = 23 /\ \A i \in 1 .. 23 : Context[i] \in Names
        BY DEF Context, Names
    <1>2. /\ Context[1] = "ds" /\ Context[2] = "r15" /\ Context[3] = "r14"
          /\ Context[4] = "r13" /\ Context[5] = "r12" /\ Context[6] = "r11"
          /\ Context[7] = "r10" /\ Context[8] = "r9" /\ Context[9] = "r8"
          /\ Context[10] = "rbp" /\ Context[11] = "rdi" /\ Context[12] = "rsi"
          /\ Context[13] = "rdx" /\ Context[14] = "rcx" /\ Context[15] = "rbx"
          /\ Context[16] = "rax" /\ Context[17] = "int_num" /\ Context[18] = "error_code"
          /\ Context[19] = "rip" /\ Context[20] = "cs" /\ Context[21] = "rflags"
          /\ Context[22] = "rsp" /\ Context[23] = "ss"
        BY DEF Context
    <1>3. Field = Names
        BY <1>1, <1>2 DEF Field, Names
    <1> QED
        BY <1>3 DEF Names, Register, General

\* A context has its fields where Context says.
LEMMA Places ==
    ASSUME NEW f \in Field
    PROVE  Place(Context, f) \in 1 .. 23 /\ Context[Place(Context, f)] = f
    <1>1. Len(Context) = 23 /\ \E i \in 1 .. 23 : Context[i] = f
        BY DEF Context, Field
    <1> QED
        BY <1>1 DEF Place

\* The stub pops what it has pushed into the register it came from, and the
\* compiler's handler what it has saved.
LEMMA Popping ==
    ASSUME NEW r \in General \cup {"ds"}
    PROVE  /\ Place(PopOrder, r) \in 1 .. 16 /\ Context[Place(PopOrder, r)] = r
           /\ \E i \in 1 .. 16 : PopOrder[i] = r
    <1>1. Len(PopOrder) = 16 /\ \E i \in 1 .. 16 : PopOrder[i] = r
        BY DEF PopOrder, General
    <1>2. Place(PopOrder, r) \in 1 .. 16 /\ PopOrder[Place(PopOrder, r)] = r
        BY <1>1 DEF Place
    <1>3. \A i \in 1 .. 16 : Context[i] = PopOrder[i]
        BY DEF Context, PopOrder
    <1> QED
        BY <1>1, <1>2, <1>3

LEMMA Pushing ==
    ASSUME NEW i \in 1 .. 16
    PROVE  Context[i] = PushOrder[17 - i] /\ Context[i] \in Register
    <1>1. /\ Context[1] = "ds" /\ Context[2] = "r15" /\ Context[3] = "r14"
          /\ Context[4] = "r13" /\ Context[5] = "r12" /\ Context[6] = "r11"
          /\ Context[7] = "r10" /\ Context[8] = "r9" /\ Context[9] = "r8"
          /\ Context[10] = "rbp" /\ Context[11] = "rdi" /\ Context[12] = "rsi"
          /\ Context[13] = "rdx" /\ Context[14] = "rcx" /\ Context[15] = "rbx"
          /\ Context[16] = "rax"
        BY DEF Context
    <1>2. /\ PushOrder[16] = "ds" /\ PushOrder[15] = "r15" /\ PushOrder[14] = "r14"
          /\ PushOrder[13] = "r13" /\ PushOrder[12] = "r12" /\ PushOrder[11] = "r11"
          /\ PushOrder[10] = "r10" /\ PushOrder[9] = "r9" /\ PushOrder[8] = "r8"
          /\ PushOrder[7] = "rbp" /\ PushOrder[6] = "rdi" /\ PushOrder[5] = "rsi"
          /\ PushOrder[4] = "rdx" /\ PushOrder[3] = "rcx" /\ PushOrder[2] = "rbx"
          /\ PushOrder[1] = "rax"
        BY DEF PushOrder
    <1>3. Context[i] = PushOrder[17 - i]
        BY <1>1, <1>2
    <1>4. Context[i] \in General \cup {"ds"}
        BY <1>1 DEF General
    <1> QED
        BY <1>3, <1>4 DEF Register

LEMMA HandlerPushing ==
    ASSUME NEW i \in 1 .. 15
    PROVE  Handler[i] = PushOrder[16 - i] /\ Handler[i] \in Register
    <1>1. Context[i + 1] = PushOrder[17 - (i + 1)] /\ Context[i + 1] \in Register
        BY Pushing
    <1>2. \A j \in 1 .. 15 : Handler[j] = Context[j + 1]
        BY DEF Handler, Context
    <1> QED
        BY <1>1, <1>2

LEMMA HandlerPopping ==
    /\ Len(SubSeq(PopOrder, 2, Len(PopOrder))) = 15
    /\ \A i \in 1 .. 15 : SubSeq(PopOrder, 2, Len(PopOrder))[i] = Handler[i]
    /\ \A r \in General : \E i \in 1 .. 15 : Handler[i] = r
    /\ \A i \in 1 .. 15 : Handler[i] \in General
    <1>1. Len(PopOrder) = 16
        BY DEF PopOrder
    <1>2. SubSeq(PopOrder, 2, Len(PopOrder)) = [i \in 1 .. 15 |-> PopOrder[i + 1]]
        BY <1>1 DEF PopOrder
    <1>3. \A i \in 1 .. 15 : PopOrder[i + 1] = Handler[i]
        BY DEF PopOrder, Handler
    <1>4. \A r \in General : \E i \in 1 .. 15 : Handler[i] = r
        BY DEF General, Handler
    <1>5. \A i \in 1 .. 15 : Handler[i] \in General
        BY DEF General, Handler
    <1> QED
        BY <1>1, <1>2, <1>3, <1>4, <1>5

LEMMA Prefix ==
    ASSUME NEW V, NEW s \in Seq(V), NEW n \in 0 .. Len(s)
    PROVE  /\ SubSeq(s, 1, n) \in Seq(V) /\ Len(SubSeq(s, 1, n)) = n
           /\ \A i \in 1 .. n : SubSeq(s, 1, n)[i] = s[i]
    OBVIOUS

LEMMA Replacing ==
    ASSUME NEW V, NEW s \in Seq(V), NEW n \in 1 .. Len(s), NEW x, NEW t,
           t = [s EXCEPT ![n] = x]
    PROVE  /\ Len(t) = Len(s) /\ t[n] = x
           /\ \A i \in 1 .. Len(s) : i # n => t[i] = s[i]
    OBVIOUS

LEMMA ListOf ==
    ASSUME NEW V, NEW n \in Nat, NEW g \in [1 .. n -> V]
    PROVE  g \in Seq(V) /\ Len(g) = n
    OBVIOUS

\* Where the parts of a concatenation lie.
Joins(u, s, t) ==
    /\ Len(u) = Len(s) + Len(t)
    /\ \A i \in 1 .. Len(s) : u[i] = s[i]
    /\ \A i \in 1 .. Len(t) : u[Len(s) + i] = t[i]

Parts(u, a, b, c, d) ==
    /\ Len(u) = Len(a) + Len(b) + Len(c) + Len(d)
    /\ \A i \in 1 .. Len(a) : u[i] = a[i]
    /\ \A i \in 1 .. Len(b) : u[Len(a) + i] = b[i]
    /\ \A i \in 1 .. Len(c) : u[Len(a) + Len(b) + i] = c[i]
    /\ \A i \in 1 .. Len(d) : u[Len(a) + Len(b) + Len(c) + i] = d[i]

LEMMA Joining ==
    ASSUME NEW V, NEW s \in Seq(V), NEW t \in Seq(V)
    PROVE  s \o t \in Seq(V) /\ Joins(s \o t, s, t)
    BY Concat DEF Joins

LEMMA FourParts ==
    ASSUME NEW V, NEW a \in Seq(V), NEW b \in Seq(V), NEW c \in Seq(V), NEW d \in Seq(V),
           NEW s \in Seq(V), NEW t \in Seq(V), NEW u \in Seq(V),
           Joins(s, a, b), Joins(t, c, d), Joins(u, s, t)
    PROVE  Parts(u, a, b, c, d)
    <1>1. ASSUME NEW i \in 1 .. Len(a) PROVE u[i] = a[i]
        BY DEF Joins
    <1>2. ASSUME NEW i \in 1 .. Len(b) PROVE u[Len(a) + i] = b[i]
        BY DEF Joins
    <1>3. ASSUME NEW i \in 1 .. Len(c) PROVE u[Len(a) + Len(b) + i] = c[i]
        BY DEF Joins
    <1>4. ASSUME NEW i \in 1 .. Len(d) PROVE u[Len(a) + Len(b) + Len(c) + i] = d[i]
        <2>1. /\ Len(c) + i \in 1 .. Len(t) /\ Len(s) = Len(a) + Len(b)
              /\ Len(s) + (Len(c) + i) = Len(a) + Len(b) + Len(c) + i
            BY DEF Joins
        <2> QED
            BY <2>1 DEF Joins
    <1>5. Len(u) = Len(a) + Len(b) + Len(c) + Len(d)
        BY DEF Joins
    <1> QED
        BY <1>1, <1>2, <1>3, <1>4, <1>5 DEF Parts

LEMMA Words ==
    ASSUME NEW n \in Nat
    PROVE  /\ Number(n) \in Word /\ Rsp(n) \in Word
           /\ <<"error", "code", n>> \in Word
           /\ <<"hook", "local", n>> \in Word /\ <<"pad", "", n>> \in Word
           /\ \A f \in Field : /\ <<"hook", f, n>> \in Word
                               /\ <<"edited", f, n>> \in Word
                               /\ <<"program", f, n>> \in Word
    BY FieldNames DEF Word, Names, Number, Rsp

\* The context that the hooks are to see, field by field.
LEMMA Interruption ==
    ASSUME TypeInv, NEW v \in 0 .. 255
    PROVE  /\ Interrupted(v) \in [Field -> Word]
           /\ \A r \in Register : Interrupted(v)[r] = regs[r]
           /\ Interrupted(v)["rsp"] = Rsp(Len(stack))
           /\ Interrupted(v)["int_num"] = Number(v)
           /\ Interrupted(v)["error_code"] =
                 IF v \in HasErrorCode THEN <<"error", "code", v>> ELSE Number(0)
    <1>1. Number(v) \in Word /\ Number(0) \in Word /\ Rsp(Len(stack)) \in Word
          /\ <<"error", "code", v>> \in Word
        <2>1. Len(stack) \in Nat
            BY DEF TypeInv
        <2>2. v \in Nat /\ 0 \in Nat
            OBVIOUS
        <2> QED
            BY <2>1, <2>2, Words
    <1>2. \A r \in Register : regs[r] \in Word
        BY DEF TypeInv
    <1>3. /\ Field = Register \cup {"rsp", "int_num", "error_code"}
          /\ Register \cap {"rsp", "int_num", "error_code"} = {}
        BY FieldNames DEF Names, Register, General
    <1>4. \A r \in Register : Interrupted(v)[r] = regs[r]
        BY <1>3 DEF Interrupted
    <1>5. Interrupted(v)["rsp"] = Rsp(Len(stack))
        BY <1>3 DEF Interrupted
    <1>6. Interrupted(v)["int_num"] = Number(v)
        BY <1>3 DEF Interrupted
    <1>7. Interrupted(v)["error_code"] =
              IF v \in HasErrorCode THEN <<"error", "code", v>> ELSE Number(0)
        BY <1>3 DEF Interrupted
    <1>8. ASSUME NEW f \in Field PROVE Interrupted(v)[f] \in Word
        BY <1>1, <1>2, <1>3, <1>4, <1>5, <1>6, <1>7
    <1> QED
        BY <1>4, <1>5, <1>6, <1>7, <1>8 DEF Interrupted

\* The context that the hooks of an exception are to see is what the CPU and
\* the stub have pushed, from the top down.
LEMMA ExceptionPushes ==
    ASSUME TypeInv, NEW v \in Raised, v \in ErrorStub <=> v \in HasErrorCode,
           NEW p, p = Frame(v) \o Stub(v)
    PROVE  /\ p \in Seq(Word) /\ Len(p) = 23
           /\ \A i \in 1 .. 23 : p[24 - i] = Interrupted(v)[Context[i]]
    <1> DEFINE a == <<regs["ss"], Rsp(Len(stack)), regs["rflags"], regs["cs"], regs["rip"]>>
               b == IF v \in HasErrorCode THEN <<<<"error", "code", v>>>> ELSE <<>>
               x == IF v \in ErrorStub THEN <<>> ELSE <<Number(0)>>
               y == <<Number(v)>>
               z == [i \in 1 .. Len(PushOrder) |-> regs[PushOrder[i]]]
               t == (x \o y) \o z
    <1>0. v \in Nat /\ v \in 0 .. 255
        BY RaisedAssumption DEF ExceptionGate
    <1>1. /\ a \in Seq(Word) /\ Len(a) = 5
          /\ a[1] = regs["ss"] /\ a[2] = Rsp(Len(stack)) /\ a[3] = regs["rflags"]
          /\ a[4] = regs["cs"] /\ a[5] = regs["rip"]
        <2>0. Len(stack) \in Nat
            BY DEF TypeInv
        <2>1. Rsp(Len(stack)) \in Word
            BY <2>0, Words
        <2>2. \A r \in Register : regs[r] \in Word
            BY DEF TypeInv
        <2>3. {"ss", "rflags", "cs", "rip"} \subseteq Register
            BY DEF Register
        <2> QED
            BY <2>1, <2>2, <2>3
    <1>2. <<"error", "code", v>> \in Word /\ Number(v) \in Word /\ Number(0) \in Word
        BY <1>0, Words
    <1>3. /\ b \in Seq(Word)
          /\ v \in HasErrorCode => Len(b) = 1 /\ b[1] = <<"error", "code", v>>
          /\ v \notin HasErrorCode => Len(b) = 0
        BY <1>2
    <1>4. /\ x \in Seq(Word)
          /\ v \in ErrorStub => Len(x) = 0
          /\ v \notin ErrorStub => Len(x) = 1 /\ x[1] = Number(0)
        BY <1>2
    <1>5. y \in Seq(Word) /\ Len(y) = 1 /\ y[1] = Number(v)
        BY <1>2
    <1>6. z \in Seq(Word) /\ Len(z) = 16 /\ \A i \in 1 .. 16 : z[i] = regs[PushOrder[i]]
        <2>1. Len(PushOrder) = 16 /\ \A i \in 1 .. 16 : PushOrder[i] \in Register
            BY DEF PushOrder, Register, General
        <2>2. \A i \in 1 .. 16 : regs[PushOrder[i]] \in Word
            BY <2>1 DEF TypeInv
        <2>3. z = [i \in 1 .. 16 |-> regs[PushOrder[i]]]
            BY <2>1
        <2>4. z \in [1 .. 16 -> Word]
            BY <2>2, <2>3
        <2>6. \A i \in 1 .. 16 : z[i] = regs[PushOrder[i]]
            BY <2>3
        <2> HIDE DEF z
        <2>5. z \in Seq(Word) /\ Len(z) = 16
            BY <2>4, ListOf, ZenonT(60)
        <2> QED
            BY <2>5, <2>6
    <1>7. p = (a \o b) \o t
        BY DEF Frame, Stub
    <1> HIDE DEF a, b, x, y, z
    <1>8. PICK ab \in Seq(Word) : ab = a \o b /\ Joins(ab, a, b)
        BY <1>1, <1>3, Joining
    <1>9. PICK xy \in Seq(Word) : xy = x \o y /\ Joins(xy, x, y)
        BY <1>4, <1>5, Joining
    <1>10. PICK xyz \in Seq(Word) : xyz = xy \o z /\ Joins(xyz, xy, z)
        BY <1>6, Joining
    <1>11. ab \o xyz \in Seq(Word) /\ Joins(ab \o xyz, ab, xyz)
        BY Joining
    <1>12. p = ab \o xyz
        BY <1>7, <1>8, <1>9, <1>10, Zenon DEF t
    <1>13. p \in Seq(Word) /\ Joins(p, ab, xyz)
        BY <1>11, <1>12, Zenon
    <1>14. /\ Len(p) = 23 /\ p[7] = Number(v)
           /\ p[6] = IF v \in HasErrorCode THEN <<"error", "code", v>> ELSE Number(0)
           /\ \A i \in 1 .. 16 : p[7 + i] = z[i]
           /\ \A i \in 1 .. 5 : p[i] = a[i]
        <2>1. /\ Joins(ab, a, b) /\ Joins(xy, x, y) /\ Joins(xyz, xy, z)
              /\ ab \in Seq(Word) /\ xy \in Seq(Word) /\ xyz \in Seq(Word)
            BY <1>8, <1>9, <1>10
        <2>2. Parts(p, a, b, xy, z)
            BY <2>1, <1>1, <1>3, <1>6, <1>13, FourParts, Zenon
        <2>3. /\ Len(xy) = Len(x) + 1
              /\ xy[Len(x) + 1] = Number(v)
              /\ Len(x) = 1 => xy[1] = Number(0)
            <3>1. x \in Seq(Word) /\ Len(x) \in Nat /\ (Len(x) = 1 => x[1] = Number(0))
                BY <1>4
            <3>2. 1 \in 1 .. Len(y) /\ y[1] = Number(v) /\ Len(y) = 1
                BY <1>5
            <3>3. Len(xy) = Len(x) + 1
                BY <2>1, <3>2 DEF Joins
            <3>4. xy[Len(x) + 1] = Number(v)
                BY <2>1, <3>2, Zenon DEF Joins
            <3>5. Len(x) = 1 => xy[1] = Number(0)
                BY <2>1, <3>1, <3>2 DEF Joins
            <3> QED
                BY <3>3, <3>4, <3>5
        <2>4. CASE v \in HasErrorCode
            <3>1. Len(b) = 1 /\ Len(x) = 0 /\ Len(xy) = 1
                BY <2>4, <2>3, <1>3, <1>4
            <3>2. xy[1] = Number(v)
                BY <3>1, <2>3
            <3>3. Len(p) = 23
                BY <3>1, <1>1, <1>6, <2>2 DEF Parts
            <3>4. p[6] = b[1] /\ b[1] = <<"error", "code", v>>
                BY <2>4, <3>1, <1>1, <1>3, <2>2, SMTT(60) DEF Parts
            <3>5. p[7] = xy[1]
                BY <3>1, <1>1, <2>2 DEF Parts
            <3>6. ASSUME NEW i \in 1 .. 16 PROVE p[7 + i] = z[i]
                <4>1. i \in 1 .. Len(z) /\ Len(a) + Len(b) + Len(xy) = 7
                    BY <3>1, <1>1, <1>6
                <4>2. p[Len(a) + Len(b) + Len(xy) + i] = z[i]
                    BY <4>1, <2>2, Zenon DEF Parts
                <4> QED
                    BY <4>1, <4>2
            <3>7. \A i \in 1 .. 5 : p[i] = a[i]
                BY <1>1, <2>2 DEF Parts
            <3> QED
                BY <2>4, <3>2, <3>3, <3>4, <3>5, <3>6, <3>7
        <2>5. CASE v \notin HasErrorCode
            <3>0. Len(b) = 0 /\ Len(x) = 1
                BY <2>5, <1>3, <1>4, Zenon
            <3>1. Len(b) = 0 /\ Len(x) = 1 /\ Len(xy) = 2
                BY <3>0, <2>3
            <3>2. xy[1] = Number(0) /\ xy[2] = Number(v)
                BY <3>1, <2>3
            <3>3. Len(p) = 23
                BY <3>1, <1>1, <1>6, <2>2 DEF Parts
            <3>4. p[6] = xy[1] /\ p[7] = xy[2]
                BY <3>1, <1>1, <2>2, SMTT(60) DEF Parts
            <3>6. ASSUME NEW i \in 1 .. 16 PROVE p[7 + i] = z[i]
                <4>1. i \in 1 .. Len(z) /\ Len(a) + Len(b) + Len(xy) = 7
                    BY <3>1, <1>1, <1>6
                <4>2. p[Len(a) + Len(b) + Len(xy) + i] = z[i]
                    BY <4>1, <2>2, Zenon DEF Parts
                <4> QED
                    BY <4>1, <4>2
            <3>7. \A i \in 1 .. 5 : p[i] = a[i]
                BY <1>1, <2>2 DEF Parts
            <3> QED
                BY <2>5, <3>2, <3>3, <3>4, <3>6, <3>7
        <2> QED
            BY <2>4, <2>5
    <1>15. /\ p[1] = regs["ss"] /\ p[2] = Rsp(Len(stack)) /\ p[3] = regs["rflags"]
           /\ p[4] = regs["cs"] /\ p[5] = regs["rip"]
        <2>1. 1 \in 1 .. 5 /\ 2 \in 1 .. 5 /\ 3 \in 1 .. 5 /\ 4 \in 1 .. 5 /\ 5 \in 1 .. 5
            OBVIOUS
        <2> QED
            BY <2>1, <1>1, <1>14, Zenon
    <1>16. ASSUME NEW i \in 1 .. 23 PROVE p[24 - i] = Interrupted(v)[Context[i]]
        <2>1. CASE i \in 1 .. 16
            <3>1. 24 - i = 7 + (17 - i) /\ 17 - i \in 1 .. 16
                BY <2>1
            <3>2. p[24 - i] = regs[PushOrder[17 - i]]
                BY <3>1, <1>6, <1>14
            <3>3. Context[i] = PushOrder[17 - i] /\ Context[i] \in Register
                BY <2>1, Pushing
            <3> QED
                BY <3>2, <3>3, <1>0, Interruption, ZenonT(60)
        <2>2. CASE i \in 17 .. 23
            <3>1. /\ Context[17] = "int_num" /\ Context[18] = "error_code"
                  /\ Context[19] = "rip" /\ Context[20] = "cs" /\ Context[21] = "rflags"
                  /\ Context[22] = "rsp" /\ Context[23] = "ss"
                BY DEF Context
            <3>2. {"rip", "cs", "rflags", "ss"} \subseteq Register
                BY DEF Register
            <3>3. Interrupted(v)["ss"] = p[1] /\ Interrupted(v)["rsp"] = p[2]
                  /\ Interrupted(v)["rflags"] = p[3] /\ Interrupted(v)["cs"] = p[4]
                  /\ Interrupted(v)["rip"] = p[5]
                BY <3>2, <1>0, <1>15, Interruption
            <3>4. Interrupted(v)["error_code"] = p[6] /\ Interrupted(v)["int_num"] = p[7]
                BY <1>0, <1>14, Interruption
            <3>5. \/ (i = 17 /\ 24 - i = 7) \/ (i = 18 /\ 24 - i = 6)
                  \/ (i = 19 /\ 24 - i = 5) \/ (i = 20 /\ 24 - i = 4)
                  \/ (i = 21 /\ 24 - i = 3) \/ (i = 22 /\ 24 - i = 2)
                  \/ (i = 23 /\ 24 - i = 1)
                BY <2>2
            <3> QED
                BY <3>1, <3>3, <3>4, <3>5, ZenonT(60)
        <2>3. i \in 1 .. 16 \/ i \in 17 .. 23
            OBVIOUS
        <2> QED
            BY <2>1, <2>2, <2>3, Zenon
    <1> QED
        BY <1>13, <1>14, <1>16

\* The same of an interrupt and what its handler saves.
LEMMA InterruptPushes ==
    ASSUME TypeInv, NEW v \in Interrupts, NEW p, p = Frame(v) \o Saved
    PROVE  /\ p \in Seq(Word) /\ Len(p) = 20
           /\ \A i \in 1 .. 20 : p[21 - i] = Interrupted(v)[Handler[i]]
    <1> DEFINE a == <<regs["ss"], Rsp(Len(stack)), regs["rflags"], regs["cs"], regs["rip"]>>
               z == [i \in 1 .. Len(PushOrder) - 1 |-> regs[PushOrder[i]]]
    <1>0. v \in 0 .. 255 /\ v \notin HasErrorCode
        BY InterruptAssumption DEF InterruptGate, HasErrorCode
    <1>1. /\ a \in Seq(Word) /\ Len(a) = 5
          /\ a[1] = regs["ss"] /\ a[2] = Rsp(Len(stack)) /\ a[3] = regs["rflags"]
          /\ a[4] = regs["cs"] /\ a[5] = regs["rip"]
        <2>0. Len(stack) \in Nat
            BY DEF TypeInv
        <2>1. Rsp(Len(stack)) \in Word
            BY <2>0, Words
        <2>2. \A r \in Register : regs[r] \in Word
            BY DEF TypeInv
        <2>3. {"ss", "rflags", "cs", "rip"} \subseteq Register
            BY DEF Register
        <2> QED
            BY <2>1, <2>2, <2>3
    <1>2. z \in Seq(Word) /\ Len(z) = 15 /\ \A i \in 1 .. 15 : z[i] = regs[PushOrder[i]]
        <2>1. Len(PushOrder) - 1 = 15 /\ \A i \in 1 .. 15 : PushOrder[i] \in Register
            BY DEF PushOrder, Register, General
        <2>2. \A i \in 1 .. 15 : regs[PushOrder[i]] \in Word
            BY <2>1 DEF TypeInv
        <2>3. z = [i \in 1 .. 15 |-> regs[PushOrder[i]]]
            BY <2>1
        <2>4. z \in [1 .. 15 -> Word]
            BY <2>2, <2>3
        <2>5. \A i \in 1 .. 15 : z[i] = regs[PushOrder[i]]
            BY <2>3
        <2> HIDE DEF z
        <2>6. z \in Seq(Word) /\ Len(z) = 15
            BY <2>4, ListOf
        <2> QED
            BY <2>5, <2>6
    <1>3. p = a \o z
        <2>1. Frame(v) = a
            BY <1>0 DEF Frame
        <2> QED
            BY <2>1 DEF Saved
    <1> HIDE DEF a, z
    <1>4. p \in Seq(Word) /\ Joins(p, a, z)
        BY <1>1, <1>2, <1>3, Joining
    <1>5. /\ Len(p) = 20
          /\ \A i \in 1 .. 5 : p[i] = a[i]
          /\ \A i \in 1 .. 15 : p[5 + i] = z[i]
        <2>1. Len(p) = 20
            BY <1>1, <1>2, <1>4 DEF Joins
        <2>2. \A i \in 1 .. 5 : p[i] = a[i]
            BY <1>1, <1>4, Zenon DEF Joins
        <2>3. \A i \in 1 .. 15 : p[5 + i] = z[i]
            BY <1>1, <1>2, <1>4, Zenon DEF Joins
        <2> QED
            BY <2>1, <2>2, <2>3
    <1>6. /\ p[1] = regs["ss"] /\ p[2] = Rsp(Len(stack)) /\ p[3] = regs["rflags"]
          /\ p[4] = regs["cs"] /\ p[5] = regs["rip"]
        <2>1. 1 \in 1 .. 5 /\ 2 \in 1 .. 5 /\ 3 \in 1 .. 5 /\ 4 \in 1 .. 5 /\ 5 \in 1 .. 5
            OBVIOUS
        <2> QED
            BY <2>1, <1>1, <1>5, Zenon
    <1>7. ASSUME NEW i \in 1 .. 20 PROVE p[21 - i] = Interrupted(v)[Handler[i]]
        <2>1. CASE i \in 1 .. 15
            <3>1. 21 - i = 5 + (16 - i) /\ 16 - i \in 1 .. 15
                BY <2>1
            <3>2. p[21 - i] = regs[PushOrder[16 - i]]
                BY <3>1, <1>2, <1>5
            <3>3. Handler[i] = PushOrder[16 - i] /\ Handler[i] \in Register
                BY <2>1, HandlerPushing
            <3> QED
                BY <3>2, <3>3, <1>0, Interruption, ZenonT(60)
        <2>2. CASE i \in 16 .. 20
            <3>1. /\ Handler[16] = "rip" /\ Handler[17] = "cs" /\ Handler[18] = "rflags"
                  /\ Handler[19] = "rsp" /\ Handler[20] = "ss"
                BY DEF Handler
            <3>2. {"rip", "cs", "rflags", "ss"} \subseteq Register
                BY DEF Register
            <3>3. Interrupted(v)["ss"] = p[1] /\ Interrupted(v)["rsp"] = p[2]
                  /\ Interrupted(v)["rflags"] = p[3] /\ Interrupted(v)["cs"] = p[4]
                  /\ Interrupted(v)["rip"] = p[5]
                BY <3>2, <1>0, <1>6, Interruption
            <3>4. \/ (i = 16 /\ 21 - i = 5) \/ (i = 17 /\ 21 - i = 4)
                  \/ (i = 18 /\ 21 - i = 3) \/ (i = 19 /\ 21 - i = 2)
                  \/ (i = 20 /\ 21 - i = 1)
                BY <2>2
            <3> QED
                BY <3>1, <3>3, <3>4, ZenonT(60)
        <2>3. i \in 1 .. 15 \/ i \in 16 .. 20
            OBVIOUS
        <2> QED
            BY <2>1, <2>2, <2>3, Zenon
    <1> QED
        BY <1>4, <1>5, <1>7

-----------------------------------------------------------------------------
(* The rings                                                               *)

LEMMA Nodes ==
    /\ Null \notin Node /\ List \cap Link = {} /\ List \subseteq Node /\ Link \subseteq Node
    /\ ExceptionList \in List
    /\ \A v \in Interrupts : HandlerList(v) \in List
    /\ \A v \in HookVectors : HookList(v) \in List
    BY DEF Null, Node, List, Link, ExceptionList, HandlerList, HookList

LEMMA RingKept ==
    ASSUME NEW s \in Seq(Link), NEW l \in List, NEW old, NEW new, Ring(old, l, s),
           new[l] = old[l], \A i \in 1 .. Len(s) : new[s[i]] = old[s[i]]
    PROVE  Ring(new, l, s)
    BY DEF Ring

LEMMA RingGrows ==
    ASSUME NEW s \in Seq(Link), NEW l \in List, NEW e \in Link,
           NEW old \in [Node -> Node \cup {Null}], Ring(old, l, s), old[e] = l,
           \A i \in 1 .. Len(s) : s[i] # e,
           \A i, j \in 1 .. Len(s) : s[i] = s[j] => i = j,
           NEW new, new = [old EXCEPT ![End(l, s)] = e]
    PROVE  Ring(new, l, Append(s, e))
    <1> DEFINE m == Len(s)
               t == Append(s, e)
    <1> SUFFICES Ring(new, l, t)
        OBVIOUS
    <1>1. /\ m \in Nat /\ t \in Seq(Link) /\ Len(t) = m + 1 /\ t[m + 1] = e
          /\ \A i \in 1 .. m : t[i] = s[i]
        BY PushPop
    <1>2. l \in Node /\ e \in Node /\ e # l /\ \A i \in 1 .. m : s[i] \in Node /\ s[i] # l
        BY Nodes
    <1> HIDE DEF t
    <1>3. t # <<>>
        BY <1>1
    <1>4. CASE s = <<>>
        <2>1. m = 0 /\ End(l, s) = l
            BY <1>4 DEF End
        <2>2. new[l] = e /\ new[e] = l
            BY <2>1, <1>2
        <2> QED
            BY <1>1, <1>3, <2>1, <2>2 DEF Ring
    <1>5. CASE s # <<>>
        <2>1. m > 0 /\ End(l, s) = s[m] /\ m \in 1 .. m /\ 1 \in 1 .. m
            BY <1>5 DEF End
        <2>2. /\ new[s[m]] = e /\ new[e] = l /\ new[l] = s[1]
              /\ \A i \in 1 .. m - 1 : new[s[i]] = s[i + 1]
            <3>1. s[m] \in Node /\ s[m] # e /\ s[m] # l
                BY <2>1, <1>2
            <3>2. new[s[m]] = e /\ new[e] = old[e] /\ new[l] = old[l]
                BY <2>1, <3>1, <1>2
            <3>3. old[l] = s[1]
                BY <1>5 DEF Ring
            <3>4. ASSUME NEW i \in 1 .. m - 1 PROVE new[s[i]] = s[i + 1]
                <4>1. i \in 1 .. m /\ i # m /\ s[i] # s[m] /\ s[i] \in Node
                    BY <1>1, <1>2, <2>1
                <4>2. new[s[i]] = old[s[i]]
                    BY <2>1, <4>1
                <4> QED
                    BY <4>1, <4>2 DEF Ring
            <3> QED
                BY <3>2, <3>3, <3>4
        <2>3. t[1] = s[1]
            BY <1>1, <2>1
        <2>4. ASSUME NEW i \in 1 .. Len(t)
              PROVE  new[t[i]] = IF i = Len(t) THEN l ELSE t[i + 1]
            <3>1. CASE i = m + 1
                BY <3>1, <1>1, <2>2
            <3>2. CASE i = m
                BY <3>2, <1>1, <2>1, <2>2
            <3>3. CASE i \in 1 .. m - 1
                <4>1. t[i] = s[i] /\ t[i + 1] = s[i + 1] /\ i # Len(t)
                    BY <3>3, <1>1
                <4> QED
                    BY <3>3, <4>1, <2>2
            <3> QED
                BY <3>1, <3>2, <3>3, <1>1
        <2> QED
            BY <1>3, <2>2, <2>3, <2>4 DEF Ring
    <1> QED
        BY <1>4, <1>5

\* The links of a list point into it.
LEMMA Registered ==
    ASSUME TypeInv, RingInv, NEW l \in List, NEW i \in 1 .. Len(registered[l])
    PROVE  registered[l][i] \in Link /\ ~Unused(registered[l][i])
    <1>1. registered[l] \in Seq(Link)
        BY DEF TypeInv
    <1>2. registered[l][i] \in Link
        BY <1>1
    <1>3. Chain(l) \in Seq(Link) /\ i \in 1 .. Len(Chain(l)) /\ Chain(l)[i] = registered[l][i]
        <2>1. CASE push.stage = "close" /\ push.list = l
            <3>1. push.entry \in Link
                BY <2>1 DEF TypeInv, Idle
            <3> QED
                BY <2>1, <3>1, <1>1, PushPop DEF Chain
        <2>2. CASE ~(push.stage = "close" /\ push.list = l)
            BY <2>2, <1>1 DEF Chain
        <2> QED
            BY <2>1, <2>2
    <1>4. Ring(next, l, Chain(l))
        BY DEF RingInv
    <1>5. next[Chain(l)[i]] \in {l} \cup Link
        BY <1>3, <1>4 DEF Ring
    <1> QED
        BY <1>2, <1>3, <1>5, Nodes DEF Unused

LEMMA ChainType ==
    ASSUME TypeInv, NEW l \in List
    PROVE  registered[l] \in Seq(Link) /\ Chain(l) \in Seq(Link)
    BY PushPop DEF TypeInv, Chain, Idle

LEMMA RingPushLink ==
    ASSUME TypeInv, RingInv, NEW list \in List, NEW e \in Link, PushLink(list, e)
    PROVE  RingInv'
    <1>1. /\ push = Idle /\ Unused(e) /\ registered' = registered
          /\ prev' = [prev EXCEPT ![e] = prev[list]]
          /\ next' = [next EXCEPT ![e] = list]
          /\ push' = [stage |-> "append", list |-> list, entry |-> e]
        BY DEF PushLink
    <1>2. e \in Node /\ e \notin List /\ next \in [Node -> Node \cup {Null}]
          /\ prev \in [Node -> Node \cup {Null}]
        BY Nodes DEF TypeInv
    <1>3. \A l \in List : \A i \in 1 .. Len(registered[l]) : registered[l][i] # e
        BY <1>1, Registered
    <1>4. ASSUME NEW l \in List
          PROVE  Ring(next, l, Chain(l))' /\ (prev[l] = End(l, registered[l]))'
        <2>1. Chain(l)' = registered[l] /\ Chain(l) = registered[l]
            BY <1>1 DEF Chain, Idle
        <2>2. Ring(next, l, registered[l]) /\ prev[l] = End(l, registered[l])
            BY <2>1 DEF RingInv
        <2>3. l \in Node /\ l # e /\ registered[l] \in Seq(Link)
              /\ \A i \in 1 .. Len(registered[l]) : registered[l][i] \in Node
            BY <1>2, ChainType, Nodes
        <2>4. /\ next'[l] = next[l] /\ prev'[l] = prev[l]
              /\ \A i \in 1 .. Len(registered[l]) :
                    next'[registered[l][i]] = next[registered[l][i]]
            BY <1>1, <1>2, <1>3, <2>3
        <2>5. Ring(next', l, registered[l])
            BY <2>2, <2>3, <2>4, RingKept
        <2> QED
            BY <1>1, <2>1, <2>2, <2>4, <2>5
    <1>5. Apart'
        <2>1. Apart
            BY DEF RingInv
        <2> QED
            BY <1>1, <1>3, <2>1 DEF Apart
    <1>6. /\ next'[push'.entry] = push'.list
          /\ prev'[push'.entry] = End(push'.list, registered'[push'.list])
        <2>1. prev[list] = End(list, registered[list])
            BY DEF RingInv
        <2> QED
            BY <1>1, <1>2, <2>1
    <1> QED
        BY <1>4, <1>5, <1>6 DEF RingInv

LEMMA RingPushAppend ==
    ASSUME TypeInv, RingInv, PushAppend
    PROVE  RingInv'
    <1> DEFINE list == push.list
               e == push.entry
    <1>1. /\ list \in List /\ e \in Link /\ push.stage = "append" /\ push # Idle
          /\ registered' = registered /\ prev' = prev
          /\ next' = [next EXCEPT ![prev[e]] = e]
          /\ push' = [push EXCEPT !.stage = "close"]
        BY DEF PushAppend, TypeInv, Idle
    <1>2. push'.stage = "close" /\ push'.list = list /\ push'.entry = e
        BY <1>1 DEF TypeInv, Idle
    <1>3. next[e] = list /\ prev[e] = End(list, registered[list])
        BY <1>1 DEF RingInv
    <1>4. /\ \A l, m \in List : \A i \in 1 .. Len(registered[l]), j \in 1 .. Len(registered[m]) :
                registered[l][i] = registered[m][j] => l = m /\ i = j
          /\ \A l \in List : \A i \in 1 .. Len(registered[l]) : registered[l][i] # e
        BY <1>1 DEF RingInv, Apart
    <1>5. next \in [Node -> Node \cup {Null}]
        BY DEF TypeInv
    <1> HIDE DEF list, e
    <1>6. ASSUME NEW l \in List
          PROVE  Ring(next, l, Chain(l))'
        <2>1. Chain(l) = registered[l] /\ registered[l] \in Seq(Link)
            BY <1>1, ChainType DEF Chain
        <2>2. Ring(next, l, registered[l])
            BY <2>1 DEF RingInv
        <2>3. CASE l = list
            <3>1. Chain(l)' = Append(registered[l], e)
                BY <1>1, <1>2, <2>3 DEF Chain
            <3>2. next[e] = l /\ next' = [next EXCEPT ![End(l, registered[l])] = e]
                BY <1>1, <1>3, <2>3
            <3>3. /\ \A i \in 1 .. Len(registered[l]) : registered[l][i] # e
                  /\ \A i, j \in 1 .. Len(registered[l]) :
                        registered[l][i] = registered[l][j] => i = j
                BY <1>4
            <3>4. e \in Link
                BY <1>1
            <3>5. Ring(next', l, Append(registered[l], e))
                BY <1>5, <2>1, <2>2, <3>2, <3>3, <3>4, RingGrows, Zenon
            <3> QED
                BY <3>1, <3>5
        <2>4. CASE l # list
            <3>1. Chain(l)' = registered[l]
                BY <1>1, <1>2, <2>4 DEF Chain
            <3>2. registered[list] \in Seq(Link)
                BY <1>1, ChainType
            <3>3. /\ prev[e] # l
                  /\ \A i \in 1 .. Len(registered[l]) : prev[e] # registered[l][i]
                <4>1. CASE registered[list] = <<>>
                    BY <4>1, <1>1, <1>3, <2>1, <2>4, Nodes DEF End
                <4>2. CASE registered[list] # <<>>
                    <5>1. /\ Len(registered[list]) \in 1 .. Len(registered[list])
                          /\ prev[e] = registered[list][Len(registered[list])]
                        BY <4>2, <1>3, <3>2 DEF End
                    <5> QED
                        BY <5>1, <1>1, <1>4, <2>4, <3>2, Nodes
                <4> QED
                    BY <4>1, <4>2
            <3>4. l \in Node /\ \A i \in 1 .. Len(registered[l]) : registered[l][i] \in Node
                BY <2>1, Nodes
            <3>5. /\ next'[l] = next[l]
                  /\ \A i \in 1 .. Len(registered[l]) :
                        next'[registered[l][i]] = next[registered[l][i]]
                BY <1>1, <1>5, <3>3, <3>4
            <3>6. Ring(next', l, registered[l])
                BY <2>1, <2>2, <3>5, RingKept
            <3> QED
                BY <3>1, <3>6
        <2> QED
            BY <2>3, <2>4
    <1>7. \A l \in List : (prev[l] = End(l, registered[l]))'
        BY <1>1 DEF RingInv
    <1>8. Apart'
        BY <1>1, <1>2, <1>4 DEF Apart
    <1> QED
        BY <1>2, <1>6, <1>7, <1>8 DEF RingInv

LEMMA RingPushClose ==
    ASSUME TypeInv, RingInv, PushClose
    PROVE  RingInv'
    <1> DEFINE list == push.list
               e == push.entry
    <1>1. /\ list \in List /\ e \in Link /\ push.stage = "close" /\ push # Idle
          /\ registered' = [registered EXCEPT ![list] = Append(@, e)]
          /\ prev' = [prev EXCEPT ![list] = e] /\ next' = next /\ push' = Idle
        BY DEF PushClose, TypeInv, Idle
    <1>2. /\ \A l, m \in List : \A i \in 1 .. Len(registered[l]), j \in 1 .. Len(registered[m]) :
                registered[l][i] = registered[m][j] => l = m /\ i = j
          /\ \A l \in List : \A i \in 1 .. Len(registered[l]) : registered[l][i] # e
        BY <1>1 DEF RingInv, Apart
    <1>3. prev \in [Node -> Node \cup {Null}] /\ registered \in [List -> Seq(Link)]
        BY DEF TypeInv
    <1>4. \A l \in List : Chain(l) = IF l = list THEN Append(registered[l], e) ELSE registered[l]
        BY <1>1 DEF Chain
    <1> HIDE DEF list, e
    <1>5. \A l \in List : registered'[l] = Chain(l)
        BY <1>1, <1>3, <1>4
    <1>6. /\ registered[list] \in Seq(Link) /\ Append(registered[list], e) \in Seq(Link)
          /\ Len(Append(registered[list], e)) = Len(registered[list]) + 1
          /\ Append(registered[list], e)[Len(registered[list]) + 1] = e
          /\ \A i \in 1 .. Len(registered[list]) :
                Append(registered[list], e)[i] = registered[list][i]
        BY <1>1, <1>3, PushPop
    <1>7. ASSUME NEW l \in List
          PROVE  /\ Ring(next, l, Chain(l))'
                 /\ (prev[l] = End(l, registered[l]))'
        <2>1. Chain(l)' = Chain(l)
            BY <1>1, <1>5 DEF Chain, Idle
        <2>2. Ring(next, l, Chain(l)) /\ prev[l] = End(l, registered[l])
            BY DEF RingInv
        <2>3. prev'[l] = End(l, registered'[l])
            <3>1. CASE l = list
                <4>1. registered'[l] = Append(registered[list], e)
                    BY <3>1, <1>4, <1>5
                <4>2. Append(registered[list], e) # <<>>
                    BY <1>1, <1>6, PushPop
                <4>3. prev'[l] = e
                    BY <3>1, <1>1, <1>3, Nodes
                <4> QED
                    BY <3>1, <4>1, <4>2, <4>3, <1>6 DEF End
            <3>2. CASE l # list
                BY <3>2, <2>2, <1>1, <1>3, <1>4, <1>5, Nodes
            <3> QED
                BY <3>1, <3>2
        <2> QED
            BY <1>1, <2>1, <2>2, <2>3
    <1>8. Apart'
        <2>1. ASSUME NEW l \in List, NEW m \in List, NEW i \in 1 .. Len(registered'[l]),
                     NEW j \in 1 .. Len(registered'[m]), registered'[l][i] = registered'[m][j]
              PROVE  l = m /\ i = j
            <3>1. registered[l] \in Seq(Link) /\ registered[m] \in Seq(Link)
                BY <1>3
            <3>2. \/ i \in 1 .. Len(registered[l]) /\ registered'[l][i] = registered[l][i]
                  \/ l = list /\ registered'[l][i] = e /\ i = Len(registered[list]) + 1
                <4>1. CASE l = list
                    <5>1. registered'[l] = Append(registered[list], e)
                        BY <4>1, <1>4, <1>5
                    <5> QED
                        BY <4>1, <5>1, <1>6
                <4>2. CASE l # list
                    BY <4>2, <1>4, <1>5
                <4> QED
                    BY <4>1, <4>2
            <3>3. \/ j \in 1 .. Len(registered[m]) /\ registered'[m][j] = registered[m][j]
                  \/ m = list /\ registered'[m][j] = e /\ j = Len(registered[list]) + 1
                <4>1. CASE m = list
                    <5>1. registered'[m] = Append(registered[list], e)
                        BY <4>1, <1>4, <1>5
                    <5> QED
                        BY <4>1, <5>1, <1>6
                <4>2. CASE m # list
                    BY <4>2, <1>4, <1>5
                <4> QED
                    BY <4>1, <4>2
            <3> QED
                BY <2>1, <3>2, <3>3, <1>2
        <2> QED
            BY <2>1, <1>1 DEF Apart
    <1> QED
        BY <1>1, <1>7, <1>8 DEF RingInv, Idle

LEMMA RingStep == TypeInv /\ RingInv /\ [Next]_vars => RingInv'
    <1> SUFFICES ASSUME TypeInv, RingInv, [Next]_vars PROVE RingInv'
        OBVIOUS
    <1>1. ASSUME UNCHANGED rings PROVE RingInv'
        <2>1. next' = next /\ prev' = prev /\ push' = push /\ registered' = registered
            BY <1>1 DEF rings
        <2>2. \A l : Chain(l)' = Chain(l)
            BY <2>1 DEF Chain
        <2>3. Apart'
            BY <2>1 DEF RingInv, Apart
        <2> QED
            BY <2>1, <2>2, <2>3 DEF RingInv
    <1>2. ASSUME NEW e \in Link, PushLink(ExceptionList, e) PROVE RingInv'
        BY <1>2, Nodes, RingPushLink
    <1>3. ASSUME NEW e \in Link, NEW v \in HookVectors, PushLink(HookList(v), e)
          PROVE  RingInv'
        BY <1>3, Nodes, RingPushLink
    <1>4. CASE PushAppend
        BY <1>4, RingPushAppend
    <1>5. CASE PushClose
        BY <1>5, RingPushClose
    <1>6. ASSUME NEW v \in Raised, Raise(v) PROVE RingInv'
        BY <1>1, <1>6 DEF Raise, Dispatch
    <1>7. ASSUME NEW v \in Interrupts, Interrupt(v) PROVE RingInv'
        BY <1>1, <1>7 DEF Interrupt, Dispatch
    <1>8. CASE CallHook
        BY <1>1, <1>8 DEF CallHook
    <1>9. ASSUME NEW handles, NEW fails, NEW edits, ReturnHook(handles, fails, edits)
          PROVE  RingInv'
        BY <1>1, <1>9 DEF ReturnHook
    <1>10. CASE Finish
        BY <1>1, <1>10 DEF Finish
    <1>11. CASE Return
        BY <1>1, <1>11 DEF Return, Iretq
    <1>12. CASE ReturnInterrupt
        BY <1>1, <1>12 DEF ReturnInterrupt, Iretq
    <1>13. CASE UNCHANGED vars
        BY <1>1, <1>13 DEF vars, rings
    <1> QED
        BY <1>2, <1>3, <1>4, <1>5, <1>6, <1>7, <1>8, <1>9, <1>10, <1>11, <1>12, <1>13
           DEF Next

-----------------------------------------------------------------------------
(* The walks                                                               *)

\* What is in progress besides the innermost is not touched.
LEMMA Innermost ==
    ASSUME TypeInv, acts # <<>>
    PROVE  /\ Len(acts) \in 1 .. Len(acts) /\ act \in Activation
           /\ \A k \in 1 .. Len(acts) : acts[k] \in Activation
           /\ SubSeq(acts, 1, Len(acts) - 1) \in Seq(Activation)
           /\ Len(SubSeq(acts, 1, Len(acts) - 1)) = Len(acts) - 1
           /\ \A k \in 1 .. Len(acts) - 1 : SubSeq(acts, 1, Len(acts) - 1)[k] = acts[k]
    <1>1. acts \in Seq(Activation) /\ Len(acts) \in 1 .. Len(acts)
        BY DEF TypeInv
    <1>2. \A k \in 1 .. Len(acts) : acts[k] \in Activation
        BY <1>1
    <1>3. Len(acts) - 1 \in 0 .. Len(acts)
        BY <1>1
    <1> QED
        BY <1>1, <1>2, <1>3, Prefix DEF act

LEMMA WalkDispatch ==
    ASSUME TypeInv, RingInv, WalkInv, pc \in {"run", "hook"},
           NEW kind, NEW v, NEW list \in List, NEW pushed, Dispatch(kind, v, list, pushed)
    PROVE  WalkInv'
    <1> DEFINE new == [kind |-> kind, ctx |-> Len(stack'), list |-> list,
                       entry |-> next[list], handled |-> FALSE, failed |-> FALSE,
                       expect |-> Interrupted(v), due |-> registered[list],
                       called |-> <<>>]
    <1>1. /\ acts' = Append(acts, new) /\ pc' = "dispatch"
          /\ next' = next /\ push' = push /\ registered' = registered
        BY DEF Dispatch, rings
    <1>2. /\ new.called = <<>> /\ new.failed = FALSE /\ new.list = list
          /\ new.entry = next[list] /\ new.due = registered[list]
        OBVIOUS
    <1> HIDE DEF new
    <1>3. acts \in Seq(Activation) /\ (pc = "run" => acts = <<>>)
        BY DEF TypeInv
    <1>4. /\ Len(acts') = Len(acts) + 1 /\ acts'[Len(acts) + 1] = new
          /\ \A k \in 1 .. Len(acts) : acts'[k] = acts[k]
        BY <1>1, <1>3
    <1>5. \A l : Chain(l)' = Chain(l)
        BY <1>1 DEF Chain
    <1>6. ASSUME NEW k \in 1 .. Len(acts)
          PROVE  /\ Walk(acts'[k], Chain(acts[k].list)', k < Len(acts') \/ pc' = "hook")
                 /\ acts'[k].due = registered'[acts'[k].list]
        <2>1. pc = "hook"
            BY <1>3
        <2>2. Walk(acts[k], Chain(acts[k].list), TRUE) /\ acts[k].due = registered[acts[k].list]
            BY <2>1 DEF WalkInv, Walk
        <2>3. acts'[k] = acts[k] /\ k < Len(acts')
            BY <1>3, <1>4
        <2> QED
            BY <1>1, <2>2, <2>3 DEF Walk, Chain
    <1>7. /\ Walk(new, Chain(list)', pc' = "hook")
          /\ new.due = registered'[list]
        <2>1. Ring(next, list, Chain(list)) /\ Chain(list) \in Seq(Link)
            BY ChainType DEF RingInv
        <2>2. Len(new.called) = 0 /\ pc' # "hook"
            BY <1>1, <1>2
        <2>3. next[list] = IF 0 = Len(Chain(list)) THEN list ELSE Chain(list)[1]
            BY <2>1 DEF Ring
        <2> QED
            BY <1>1, <1>2, <1>5, <2>1, <2>2, <2>3 DEF Walk
    <1>8. \A k \in 1 .. Len(acts') :
              /\ Walk(acts'[k], Chain(acts[k].list)', k < Len(acts') \/ pc' = "hook")
              /\ acts'[k].due = registered'[acts'[k].list]
        <2>1. SUFFICES ASSUME NEW k \in 1 .. Len(acts')
                       PROVE  /\ Walk(acts'[k], Chain(acts[k].list)', k < Len(acts') \/ pc' = "hook")
                              /\ acts'[k].due = registered'[acts'[k].list]
            OBVIOUS
        <2>2. CASE k \in 1 .. Len(acts)
            BY <2>2, <1>6
        <2>3. CASE k = Len(acts) + 1
            <3>1. acts'[k] = new /\ new.list = list /\ ~(k < Len(acts'))
                BY <2>3, <1>2, <1>3, <1>4
            <3>2. Chain(acts[k].list)' = Chain(list)'
                BY <3>1 DEF Chain
            <3> QED
                BY <3>1, <3>2, <1>7 DEF Walk
        <2> QED
            BY <2>2, <2>3, <1>3, <1>4
    <1> QED
        BY <1>1, <1>8 DEF WalkInv

\* A step that changes the innermost activation alone.
LEMMA WalkOn ==
    ASSUME TypeInv, WalkInv, acts # <<>>, UNCHANGED rings, Len(acts') = Len(acts),
           \A k \in 1 .. Len(acts) - 1 : acts'[k] = acts[k],
           LET a == acts'[Len(acts)]
           IN  /\ a.list = act.list /\ a.due = act.due
               /\ Walk(a, Chain(act.list), pc' = "hook")
               /\ pc' = "return" => ~a.failed /\ a.entry = a.list
    PROVE  WalkInv'
    <1>1. push' = push /\ registered' = registered
        BY DEF rings
    <1>2. Len(acts) \in 1 .. Len(acts) /\ act = acts[Len(acts)]
        BY Innermost DEF act
    <1>3. ASSUME NEW k \in 1 .. Len(acts)
          PROVE  /\ Walk(acts'[k], Chain(acts[k].list)', k < Len(acts') \/ pc' = "hook")
                 /\ acts'[k].due = registered'[acts'[k].list]
        <2>1. CASE k = Len(acts)
            <3>1. Chain(acts[k].list)' = Chain(act.list)
                BY <2>1, <1>1 DEF Chain
            <3>2. ~(k < Len(acts'))
                BY <2>1, <1>2
            <3>3. act.due = registered[act.list]
                BY <1>2 DEF WalkInv
            <3> QED
                BY <2>1, <3>1, <3>2, <3>3, <1>1 DEF Walk
        <2>2. CASE k # Len(acts)
            <3>1. k < Len(acts) /\ k \in 1 .. Len(acts) - 1
                BY <2>2, <1>2
            <3>2. Walk(acts[k], Chain(acts[k].list), TRUE)
                BY <3>1 DEF WalkInv, Walk
            <3>3. acts[k].due = registered[acts[k].list]
                BY DEF WalkInv
            <3>4. acts'[k] = acts[k]
                BY <3>1
            <3>5. Chain(acts[k].list)' = Chain(acts[k].list)
                BY <3>4, <1>1 DEF Chain
            <3> QED
                BY <3>1, <3>2, <3>3, <3>4, <3>5, <1>1 DEF Walk
        <2> QED
            BY <2>1, <2>2
    <1>4. pc' = "return" => (~act.failed /\ act.entry = act.list)'
        BY <1>2 DEF act
    <1> QED
        BY <1>3, <1>4 DEF WalkInv

LEMMA WalkCallHook ==
    ASSUME TypeInv, RingInv, WalkInv, CallHook
    PROVE  WalkInv'
    <1>1. /\ acts # <<>> /\ act.entry # act.list /\ ~act.failed /\ pc = "dispatch"
          /\ acts' = [acts EXCEPT ![Len(acts)].called = Append(@, act.entry)]
          /\ pc' = "hook" /\ UNCHANGED rings
        BY DEF CallHook, TypeInv
    <1>2. /\ acts \in Seq(Activation) /\ Len(acts) \in 1 .. Len(acts)
          /\ act = acts[Len(acts)] /\ act \in Activation
        BY <1>1, Innermost DEF TypeInv, act
    <1> DEFINE n == Len(act.called)
               s == Chain(act.list)
               b == acts'[Len(acts)]
    <1>3. act.called \in Seq(Node \cup {Null}) /\ n \in Nat /\ act.list \in List
          /\ act.entry \in Node \cup {Null}
        BY <1>2 DEF Activation
    <1>4. s \in Seq(Link)
        BY <1>3, ChainType
    <1>5. /\ n < Len(s) /\ act.entry = s[n + 1] /\ \A i \in 1 .. n : act.called[i] = s[i]
        <2>1. Walk(act, s, FALSE)
            BY <1>1, <1>2 DEF WalkInv, Walk
        <2> QED
            BY <2>1, <1>1, <1>3, <1>4 DEF Walk
    <1>6. /\ b = [act EXCEPT !.called = Append(@, act.entry)]
          /\ Len(acts') = Len(acts)
          /\ \A k \in 1 .. Len(acts) - 1 : acts'[k] = acts[k]
        <2> DEFINE x == [act EXCEPT !.called = Append(@, act.entry)]
        <2>1. acts' = [acts EXCEPT ![Len(acts)] = x]
            BY <1>1, <1>2, Zenon
        <2> HIDE DEF x
        <2>2. /\ Len(acts') = Len(acts) /\ b = x
              /\ \A i \in 1 .. Len(acts) : i # Len(acts) => acts'[i] = acts[i]
            BY <2>1, <1>2, Replacing
        <2> QED
            BY <2>2, <1>2 DEF x
    <1>7. /\ b.called = Append(act.called, act.entry) /\ b.list = act.list
          /\ b.due = act.due /\ b.entry = act.entry /\ b.failed = act.failed
        BY <1>2, <1>6 DEF Activation
    <1>8. /\ Len(b.called) = n + 1 /\ b.called[n + 1] = act.entry
          /\ \A i \in 1 .. n : b.called[i] = act.called[i]
        BY <1>3, <1>7, PushPop
    <1> HIDE DEF n, s, b
    <1>9. Walk(b, s, pc' = "hook")
        BY <1>1, <1>3, <1>4, <1>5, <1>7, <1>8 DEF Walk
    <1> QED
        BY <1>1, <1>6, <1>7, <1>9, WalkOn DEF s, b

LEMMA WalkReturnHook ==
    ASSUME TypeInv, RingInv, WalkInv, NEW handles \in BOOLEAN, NEW fails \in BOOLEAN,
           NEW edits, ReturnHook(handles, fails, edits)
    PROVE  WalkInv'
    <1> DEFINE expect == [f \in Field |-> IF f \in edits THEN <<"edited", f, count>>
                                          ELSE act.expect[f]]
               b == acts'[Len(acts)]
               n == Len(act.called)
               s == Chain(act.list)
    <1>1. /\ acts # <<>> /\ pc = "hook"
          /\ acts' = [acts EXCEPT ![Len(acts)] =
                         [act EXCEPT !.entry = IF fails THEN @ ELSE next[@],
                                     !.failed = fails, !.handled = @ \/ handles,
                                     !.expect = expect]]
          /\ pc' = "dispatch" /\ UNCHANGED rings
        <2>1. acts # <<>> /\ pc = "hook" /\ pc' = "dispatch" /\ UNCHANGED rings
            BY DEF ReturnHook, TypeInv
        <2>2. acts' = [acts EXCEPT ![Len(acts)] =
                         [act EXCEPT !.entry = IF fails THEN @ ELSE next[@],
                                     !.failed = fails, !.handled = @ \/ handles,
                                     !.expect = expect]]
            BY DEF ReturnHook
        <2> QED
            BY <2>1, <2>2
    <1>2. /\ acts \in Seq(Activation) /\ Len(acts) \in 1 .. Len(acts)
          /\ act = acts[Len(acts)] /\ act \in Activation
        BY <1>1, Innermost DEF TypeInv, act
    <1> HIDE DEF expect
    <1>3. /\ b = [act EXCEPT !.entry = IF fails THEN @ ELSE next[@],
                             !.failed = fails, !.handled = @ \/ handles,
                             !.expect = expect]
          /\ Len(acts') = Len(acts)
          /\ \A k \in 1 .. Len(acts) - 1 : acts'[k] = acts[k]
        <2> DEFINE x == [act EXCEPT !.entry = IF fails THEN @ ELSE next[@],
                             !.failed = fails, !.handled = @ \/ handles,
                             !.expect = expect]
        <2>1. acts' = [acts EXCEPT ![Len(acts)] = x]
            BY <1>1
        <2> HIDE DEF x
        <2>2. /\ Len(acts') = Len(acts) /\ b = x
              /\ \A i \in 1 .. Len(acts) : i # Len(acts) => acts'[i] = acts[i]
            BY <2>1, <1>2, Replacing
        <2> QED
            BY <2>2, <1>2 DEF x
    <1>4. /\ b.list = act.list /\ b.due = act.due /\ b.called = act.called
          /\ b.failed = fails /\ b.entry = IF fails THEN act.entry ELSE next[act.entry]
        BY <1>2, <1>3 DEF Activation
    <1>5. act.list \in List /\ n \in Nat
        BY <1>2 DEF Activation
    <1>6. s \in Seq(Link) /\ Ring(next, act.list, s)
        BY <1>5, ChainType DEF RingInv
    <1>7. n <= Len(s) /\ n > 0 /\ act.entry = s[n] /\ \A i \in 1 .. n : act.called[i] = s[i]
        <2>1. Walk(act, s, TRUE)
            BY <1>1, <1>2 DEF WalkInv, Walk
        <2> QED
            BY <2>1 DEF Walk
    <1>8. next[s[n]] = IF n = Len(s) THEN act.list ELSE s[n + 1]
        BY <1>5, <1>6, <1>7 DEF Ring
    <1> HIDE DEF n, s, b
    <1>9. Walk(b, s, pc' = "hook")
        BY <1>1, <1>4, <1>7, <1>8 DEF Walk, n
    <1> QED
        BY <1>1, <1>3, <1>4, <1>9, WalkOn DEF s, b

LEMMA WalkFinish ==
    ASSUME TypeInv, RingInv, WalkInv, Finish
    PROVE  WalkInv'
    <1>1. /\ acts # <<>> /\ pc = "dispatch" /\ (act.entry = act.list \/ act.failed)
          /\ pc' # "hook" /\ (pc' = "return" => ~act.failed)
          /\ acts' = acts /\ UNCHANGED rings
        BY DEF Finish, TypeInv
    <1>2. Len(acts) \in 1 .. Len(acts) /\ act = acts[Len(acts)]
        BY <1>1, Innermost DEF act
    <1>3. Walk(act, Chain(act.list), FALSE)
        <2>1. Walk(act, Chain(act.list), Len(acts) < Len(acts) \/ pc = "hook")
            BY <1>2 DEF WalkInv
        <2>2. ~(Len(acts) < Len(acts) \/ pc = "hook")
            BY <1>1, <1>2
        <2> QED
            BY <2>1, <2>2, Zenon DEF Walk
    <1>4. Walk(act, Chain(act.list), pc' = "hook")
        <2>1. pc' # "hook"
            BY <1>1
        <2> QED
            BY <2>1, <1>3
    <1> QED
        BY <1>1, <1>2, <1>4, WalkOn

LEMMA WalkIretq ==
    ASSUME TypeInv, RingInv, WalkInv, pc = "return", NEW n, NEW pops, Iretq(n, pops)
    PROVE  WalkInv'
    <1>1. /\ acts # <<>> /\ acts' = SubSeq(acts, 1, Len(acts) - 1)
          /\ pc' = IF Len(acts) = 1 THEN "run" ELSE "hook"
          /\ push' = push /\ registered' = registered
        BY DEF Iretq, TypeInv, rings
    <1>2. /\ Len(acts) \in Nat /\ Len(acts') = Len(acts) - 1
          /\ \A k \in 1 .. Len(acts) - 1 : acts'[k] = acts[k]
        BY <1>1, Innermost
    <1>3. ASSUME NEW k \in 1 .. Len(acts')
          PROVE  /\ Walk(acts'[k], Chain(acts[k].list)', k < Len(acts') \/ pc' = "hook")
                 /\ acts'[k].due = registered'[acts'[k].list]
        <2>1. k < Len(acts) /\ k \in 1 .. Len(acts) /\ acts'[k] = acts[k] /\ pc' = "hook"
            BY <1>1, <1>2
        <2>2. Walk(acts[k], Chain(acts[k].list), TRUE) /\ acts[k].due = registered[acts[k].list]
            BY <2>1 DEF WalkInv, Walk
        <2>3. Chain(acts[k].list)' = Chain(acts[k].list)
            BY <2>1, <1>1 DEF Chain
        <2> QED
            BY <2>1, <2>2, <2>3, <1>1 DEF Walk
    <1> QED
        BY <1>1, <1>3 DEF WalkInv

\* While an exception or interrupt is in progress the program registers nothing.
LEMMA WalkStep == TypeInv /\ RingInv /\ WalkInv /\ [Next]_vars => WalkInv'
    <1> SUFFICES ASSUME TypeInv, RingInv, WalkInv, [Next]_vars PROVE WalkInv'
        OBVIOUS
    <1>1. ASSUME pc = "run", acts' = acts, pc' = pc PROVE WalkInv'
        <2>1. acts' = <<>>
            BY <1>1 DEF TypeInv
        <2> QED
            BY <1>1, <2>1 DEF WalkInv
    <1>2. ASSUME NEW l, NEW e, PushLink(l, e) PROVE WalkInv'
        BY <1>1, <1>2 DEF PushLink
    <1>3. CASE PushAppend
        BY <1>1, <1>3 DEF PushAppend
    <1>4. CASE PushClose
        BY <1>1, <1>4 DEF PushClose
    <1>5. ASSUME NEW v \in Raised, Raise(v) PROVE WalkInv'
        <2>1. /\ pc \in {"run", "hook"}
              /\ Dispatch("exception", v, ExceptionList, Frame(v) \o Stub(v))
            BY <1>5, Zenon DEF Raise
        <2> QED
            BY <2>1, Nodes, WalkDispatch, Zenon
    <1>6. ASSUME NEW v \in Interrupts, Interrupt(v) PROVE WalkInv'
        <2>1. /\ pc \in {"run", "hook"} /\ HandlerList(v) \in List
              /\ Dispatch("interrupt", v, HandlerList(v), Frame(v) \o Saved)
            BY <1>6, Nodes, Zenon DEF Interrupt
        <2> QED
            BY <2>1, WalkDispatch, Zenon
    <1>7. CASE CallHook
        BY <1>7, WalkCallHook
    <1>8. ASSUME NEW handles \in BOOLEAN, NEW fails \in BOOLEAN, NEW edits,
                 ReturnHook(handles, fails, edits)
          PROVE  WalkInv'
        BY <1>8, WalkReturnHook
    <1>9. CASE Finish
        BY <1>9, WalkFinish
    <1>10. CASE Return
        <2>1. pc = "return" /\ Iretq(Len(PopOrder) + 2, Popped(PopOrder))
            BY <1>10, Zenon DEF Return
        <2> QED
            BY <2>1, WalkIretq, Zenon
    <1>11. CASE ReturnInterrupt
        <2>1. PICK order : pc = "return" /\ Iretq(Len(order), Popped(order))
            BY <1>11, Zenon DEF ReturnInterrupt
        <2> QED
            BY <2>1, WalkIretq, Zenon
    <1>12. CASE UNCHANGED vars
        <2>1. /\ acts' = acts /\ pc' = pc /\ push' = push /\ registered' = registered
            BY <1>12 DEF vars
        <2>2. \A k : Chain(acts[k].list)' = Chain(acts[k].list)
            BY <2>1 DEF Chain
        <2> QED
            BY <2>1, <2>2 DEF WalkInv, act, Walk
    <1> QED
        BY <1>2, <1>3, <1>4, <1>5, <1>6, <1>7, <1>8, <1>9, <1>10, <1>11, <1>12 DEF Next

-----------------------------------------------------------------------------
(* The frames                                                              *)

LEMMA Layouts ==
    ASSUME NEW kind \in {"exception", "interrupt"}
    PROVE  /\ Len(Layout(kind)) = IF kind = "exception" THEN 23 ELSE 20
           /\ \A i \in 1 .. Len(Layout(kind)) : Layout(kind)[i] \in Field
    <1>1. Len(Context) = 23 /\ \A i \in 1 .. 23 : Context[i] \in Field
        BY DEF Context, Field
    <1>2. Len(Handler) = 20 /\ \A i \in 1 .. 20 : Handler[i] \in Names
        BY DEF Handler, Names
    <1> QED
        BY <1>1, <1>2, FieldNames DEF Layout

\* What lies above a frame may change.
LEMMA FrameKept ==
    ASSUME NEW a \in Activation, NEW st \in Seq(Word), NEW new \in Seq(Word),
           FrameOf(a, st), a.ctx <= Len(new), \A i \in 1 .. a.ctx : new[i] = st[i]
    PROVE  FrameOf(a, new)
    <1>1. a.kind \in {"exception", "interrupt"} /\ a.ctx \in Nat
        BY DEF Activation
    <1>2. Len(Layout(a.kind)) \in Nat
        BY <1>1, Layouts
    <1>3. Below(a) \in Nat /\ Below(a) + Len(Layout(a.kind)) <= a.ctx
        BY DEF FrameOf
    <1>4. ASSUME NEW i \in 1 .. Len(Layout(a.kind))
          PROVE  new[a.ctx - i + 1] = a.expect[Layout(a.kind)[i]]
        <2>1. a.ctx - i + 1 \in 1 .. a.ctx
            BY <1>1, <1>2, <1>3
        <2> QED
            BY <2>1 DEF FrameOf
    <1> QED
        BY <1>4 DEF FrameOf

\* Every frame but the innermost lies below the innermost.
LEMMA Nested ==
    ASSUME TypeInv, FrameInv, acts # <<>>
    PROVE  /\ FrameOf(act, stack) /\ act.ctx \in Nat /\ Below(act) \in Nat
           /\ Below(act) + 20 <= act.ctx /\ act.ctx <= Len(stack)
           /\ act.kind = "exception" => Below(act) + 23 <= act.ctx
           /\ \A k \in 1 .. Len(acts) - 1 : acts[k].ctx \in Nat /\ acts[k].ctx <= Below(act)
    <1>1. /\ Len(acts) \in 1 .. Len(acts) /\ act = acts[Len(acts)] /\ act \in Activation
          /\ \A k \in 1 .. Len(acts) : acts[k] \in Activation
        BY Innermost DEF act
    <1>2. FrameOf(act, stack)
        BY <1>1 DEF FrameInv
    <1>3. act.kind \in {"exception", "interrupt"} /\ act.ctx \in Nat
        BY <1>1 DEF Activation
    <1>4. Len(Layout(act.kind)) = IF act.kind = "exception" THEN 23 ELSE 20
        BY <1>3, Layouts
    <1>5. /\ Below(act) \in Nat /\ Below(act) + Len(Layout(act.kind)) <= act.ctx
          /\ act.ctx <= Len(stack)
        BY <1>2 DEF FrameOf
    <1>6. ASSUME NEW k \in 1 .. Len(acts) - 1
          PROVE  acts[k].ctx \in Nat /\ acts[k].ctx <= Below(act)
        <2>1. k \in 1 .. Len(acts) /\ acts[k].ctx \in Nat
            BY <1>1 DEF Activation
        <2> QED
            BY <1>1, <2>1 DEF FrameInv
    <1> QED
        BY <1>2, <1>3, <1>4, <1>5, <1>6

LEMMA Alignment ==
    ASSUME TypeInv
    PROVE  /\ Aligned(stack) \in Seq(Word) /\ Len(stack) <= Len(Aligned(stack))
           /\ \A i \in 1 .. Len(stack) : Aligned(stack)[i] = stack[i]
    <1> DEFINE pad == <<"pad", "", 0>>
    <1>1. stack \in Seq(Word) /\ pad \in Word
        BY Words DEF TypeInv
    <1> HIDE DEF pad
    <1>2. /\ Append(stack, pad) \in Seq(Word) /\ Len(Append(stack, pad)) = Len(stack) + 1
          /\ \A i \in 1 .. Len(stack) : Append(stack, pad)[i] = stack[i]
        BY <1>1, PushPop
    <1>3. Aligned(stack) = IF Len(stack) % 2 = 1 THEN Append(stack, pad) ELSE stack
        BY DEF Aligned, pad
    <1>4. CASE Len(stack) % 2 = 1
        <2>1. Aligned(stack) = Append(stack, pad)
            BY <1>3, <1>4
        <2> QED
            BY <2>1, <1>1, <1>2
    <1>5. CASE Len(stack) % 2 # 1
        <2>1. Aligned(stack) = stack
            BY <1>3, <1>5
        <2> QED
            BY <2>1, <1>1
    <1> QED
        BY <1>4, <1>5

\* Entering a handler puts a frame on top and leaves those that are there.
LEMMA Dispatched ==
    ASSUME TypeInv, FrameInv, DsInv,
           NEW kind \in {"exception", "interrupt"}, NEW v \in 0 .. 255,
           NEW list \in List, NEW pushed \in Seq(Word),
           Len(pushed) = Len(Layout(kind)),
           \A i \in 1 .. Len(pushed) :
              pushed[Len(pushed) + 1 - i] = Interrupted(v)[Layout(kind)[i]],
           pc \in {"run", "hook"}, kind = "interrupt" => pc = "run",
           Dispatch(kind, v, list, pushed)
    PROVE  TypeInv' /\ FrameInv' /\ DsInv'
    <1> DEFINE new == [kind |-> kind, ctx |-> Len(stack'), list |-> list,
                       entry |-> next[list], handled |-> FALSE, failed |-> FALSE,
                       expect |-> Interrupted(v), due |-> registered[list],
                       called |-> <<>>]
               n == Len(Aligned(stack))
    <1>1. /\ acts' = Append(acts, new) /\ pc' = "dispatch" /\ count' = count + 1
          /\ stack' = Aligned(stack) \o pushed /\ regs' = regs
          /\ next' = next /\ prev' = prev /\ push' = push /\ registered' = registered
        BY DEF Dispatch, rings
    <1>2. /\ Aligned(stack) \in Seq(Word) /\ Len(stack) <= n /\ Len(stack) \in Nat /\ n \in Nat
          /\ \A i \in 1 .. Len(stack) : Aligned(stack)[i] = stack[i]
        <2>1. stack \in Seq(Word)
            BY DEF TypeInv
        <2> QED
            BY <2>1, Alignment, SMTT(60)
    <1>3. Joins(stack', Aligned(stack), pushed) /\ stack' \in Seq(Word)
        BY <1>1, <1>2, Joining
    <1>4. Interrupted(v) \in [Field -> Word] /\ Interrupted(v)["rsp"] = Rsp(Len(stack))
          /\ \A r \in Register : Interrupted(v)[r] = regs[r]
        BY Interruption
    <1>5. Len(stack') = n + Len(pushed) /\ Len(stack') \in Nat
        BY <1>3 DEF Joins
    <1>6. \A i \in 1 .. Len(stack) : stack'[i] = stack[i]
        BY <1>2, <1>3 DEF Joins
    <1>7. new \in Activation
        <2>1. next[list] \in Node \cup {Null} /\ registered[list] \in Seq(Link)
            BY Nodes DEF TypeInv
        <2>2. <<>> \in Seq(Node \cup {Null})
            OBVIOUS
        <2> QED
            BY <2>1, <2>2, <1>4, <1>5 DEF Activation
    <1>8. /\ new.kind = kind /\ new.ctx = Len(stack') /\ new.expect = Interrupted(v)
        OBVIOUS
    <1> HIDE DEF new, n
    <1>9. /\ acts' \in Seq(Activation) /\ Len(acts') = Len(acts) + 1
          /\ Len(acts) \in Nat /\ acts'[Len(acts) + 1] = new
          /\ \A k \in 1 .. Len(acts) : acts'[k] = acts[k] /\ acts[k] \in Activation
          /\ acts' # <<>>
        <2>1. acts \in Seq(Activation)
            BY DEF TypeInv
        <2>2. /\ Append(acts, new) \in Seq(Activation)
              /\ Len(Append(acts, new)) = Len(acts) + 1
              /\ Append(acts, new)[Len(acts) + 1] = new
              /\ \A k \in 1 .. Len(acts) : Append(acts, new)[k] = acts[k]
              /\ Append(acts, new) # <<>>
            BY <2>1, <1>7, PushPop
        <2>3. Len(acts) \in Nat /\ \A k \in 1 .. Len(acts) : acts[k] \in Activation
            BY <2>1
        <2> QED
            BY <2>2, <2>3, <1>1, Zenon
    <1>10. TypeInv'
        BY <1>1, <1>3, <1>9 DEF TypeInv
    <1>11. Below(new) = Len(stack)
        BY <1>4, <1>8 DEF Below, Rsp
    <1>12. FrameOf(new, stack')
        <2>1. new.expect["rsp"] = Rsp(Below(new)) /\ Below(new) \in Nat
            BY <1>2, <1>4, <1>8, <1>11
        <2>2. Len(pushed) = Len(Layout(new.kind)) /\ Len(pushed) \in Nat
            BY <1>8
        <2>3. Below(new) + Len(Layout(new.kind)) <= new.ctx /\ new.ctx <= Len(stack')
            BY <1>2, <1>5, <1>8, <1>11, <2>2
        <2>4. ASSUME NEW i \in 1 .. Len(Layout(new.kind))
              PROVE  stack'[new.ctx - i + 1] = new.expect[Layout(new.kind)[i]]
            <3>1. /\ i \in 1 .. Len(pushed) /\ Len(pushed) + 1 - i \in 1 .. Len(pushed)
                  /\ new.ctx - i + 1 = n + (Len(pushed) + 1 - i)
                <4>1. i \in 1 .. Len(pushed)
                    BY <2>2, Zenon
                <4>2. n \in Nat /\ Len(pushed) \in Nat /\ new.ctx = n + Len(pushed)
                    BY <2>2, <1>2, <1>5, <1>8, Zenon
                <4> QED
                    BY <4>1, <4>2
            <3>2. stack'[n + (Len(pushed) + 1 - i)] = pushed[Len(pushed) + 1 - i]
                BY <3>1, <1>3 DEF Joins, n
            <3> QED
                BY <3>1, <3>2, <1>8, Zenon
        <2> QED
            BY <2>1, <2>3, <2>4 DEF FrameOf
    <1>13. ASSUME NEW k \in 1 .. Len(acts)
           PROVE  FrameOf(acts[k], stack') /\ acts[k].ctx <= Len(stack) /\ acts[k].ctx \in Nat
        <2>1. FrameOf(acts[k], stack) /\ acts[k] \in Activation /\ acts[k].ctx \in Nat
            BY <1>9 DEF FrameInv, Activation
        <2>2. acts[k].ctx <= Len(stack)
            BY <2>1 DEF FrameOf
        <2>3. acts[k].ctx <= Len(stack') /\ \A i \in 1 .. acts[k].ctx : stack'[i] = stack[i]
            BY <2>1, <2>2, <1>2, <1>5, <1>6
        <2>4. stack \in Seq(Word)
            BY DEF TypeInv
        <2> QED
            BY <2>1, <2>2, <2>3, <2>4, <1>3, FrameKept
    <1>14. FrameInv'
        <2>1. ASSUME NEW k \in 1 .. Len(acts')
              PROVE  /\ FrameOf(acts'[k], stack')
                     /\ \A j \in 1 .. k - 1 : acts'[j].ctx <= Below(acts'[k])
            <3>1. CASE k \in 1 .. Len(acts)
                <4>1. acts'[k] = acts[k] /\ \A j \in 1 .. k - 1 : acts'[j] = acts[j]
                    BY <3>1, <1>9, SMTT(60)
                <4>2. \A j \in 1 .. k - 1 : acts[j].ctx <= Below(acts[k])
                    BY <3>1 DEF FrameInv
                <4> QED
                    BY <3>1, <4>1, <4>2, <1>13
            <3>2. CASE k = Len(acts) + 1
                <4>1. acts'[k] = new
                    BY <3>2, <1>9
                <4>2. ASSUME NEW j \in 1 .. k - 1 PROVE acts'[j].ctx <= Below(new)
                    <5>1. j \in 1 .. Len(acts) /\ acts'[j] = acts[j]
                        BY <3>2, <1>9
                    <5> QED
                        BY <5>1, <1>11, <1>13
                <4> QED
                    BY <4>1, <4>2, <1>12
            <3> QED
                BY <3>1, <3>2, <1>9
        <2> QED
            BY <2>1 DEF FrameInv, FrameOf, Below
    <1>15. DsInv'
        <2>1. "ds" \in Register
            BY DEF Register
        <2>2. ASSUME NEW k \in 1 .. Len(acts'), acts'[k].kind = "interrupt"
              PROVE  /\ k = 1
                     /\ IF Len(acts') = 1 THEN regs'["ds"] = acts'[1].expect["ds"]
                                          ELSE acts'[2].expect["ds"] = acts'[1].expect["ds"]
            <3>1. CASE k = Len(acts) + 1
                <4>1. acts = <<>>
                    BY <3>1, <2>2, <1>8, <1>9 DEF TypeInv
                <4>2. Len(acts) = 0
                    BY <4>1
                <4>3. acts'[1] = new /\ k = 1 /\ Len(acts') = 1
                    BY <3>1, <4>2, <1>9
                <4> QED
                    BY <4>3, <2>1, <1>1, <1>4, <1>8
            <3>2. CASE k \in 1 .. Len(acts)
                <4>1. acts'[k] = acts[k]
                    BY <3>2, <1>9
                <4>2. /\ k = 1
                      /\ IF Len(acts) = 1 THEN regs["ds"] = acts[1].expect["ds"]
                                          ELSE acts[2].expect["ds"] = acts[1].expect["ds"]
                    BY <3>2, <4>1, <2>2 DEF DsInv
                <4>3. CASE Len(acts) = 1
                    <5>1. acts'[2] = new /\ acts'[1] = acts[1] /\ Len(acts') # 1
                        BY <4>3, <1>9
                    <5> QED
                        BY <4>2, <4>3, <5>1, <2>1, <1>4, <1>8
                <4>4. CASE Len(acts) # 1
                    <5>0. 1 \in 1 .. Len(acts) /\ 2 \in 1 .. Len(acts)
                        <6>1. Len(acts) \in Nat
                            BY <1>9
                        <6>2. \A m \in Nat : \A i \in 1 .. m : m # 1 => 1 \in 1 .. m /\ 2 \in 1 .. m
                            OBVIOUS
                        <6> QED
                            BY <6>1, <6>2, <3>2, <4>4, Zenon
                    <5>1. acts'[2] = acts[2] /\ acts'[1] = acts[1] /\ Len(acts') # 1
                        BY <5>0, <1>9
                    <5> QED
                        BY <4>2, <4>4, <5>1
                <4> QED
                    BY <4>3, <4>4
            <3> QED
                BY <3>1, <3>2, <1>9
        <2> QED
            BY <2>2 DEF DsInv
    <1> QED
        BY <1>10, <1>14, <1>15

\* A step that leaves what lies below the innermost frame leaves the others.
LEMMA FramesUnder ==
    ASSUME TypeInv, FrameInv, acts # <<>>, NEW st \in Seq(Word), Below(act) <= Len(st),
           \A i \in 1 .. Below(act) : st[i] = stack[i], NEW k \in 1 .. Len(acts) - 1
    PROVE  FrameOf(acts[k], st)
    <1>1. /\ k \in 1 .. Len(acts) /\ acts[k] \in Activation /\ stack \in Seq(Word)
        BY Innermost DEF TypeInv
    <1>2. acts[k].ctx \in Nat /\ Below(act) \in Nat /\ acts[k].ctx <= Below(act)
        BY Nested
    <1>3. FrameOf(acts[k], stack)
        BY <1>1 DEF FrameInv
    <1>4. acts[k].ctx <= Len(st) /\ \A i \in 1 .. acts[k].ctx : st[i] = stack[i]
        BY <1>2
    <1> QED
        BY <1>1, <1>3, <1>4, FrameKept

LEMMA FramesOn ==
    ASSUME TypeInv, FrameInv, acts # <<>>, stack' \in Seq(Word), Below(act) <= Len(stack'),
           \A i \in 1 .. Below(act) : stack'[i] = stack[i],
           NEW b, Len(acts') = Len(acts), acts'[Len(acts)] = b,
           \A k \in 1 .. Len(acts) - 1 : acts'[k] = acts[k],
           FrameOf(b, stack'), Below(b) = Below(act)
    PROVE  FrameInv'
    <1>1. Len(acts) \in 1 .. Len(acts) /\ act = acts[Len(acts)]
        BY Innermost DEF act
    <1>2. ASSUME NEW k \in 1 .. Len(acts)
          PROVE  /\ FrameOf(acts'[k], stack')
                 /\ \A j \in 1 .. k - 1 : acts'[j].ctx <= Below(acts'[k])
        <2>1. \A j \in 1 .. k - 1 : acts'[j] = acts[j]
            BY <1>1
        <2>2. \A j \in 1 .. k - 1 : acts[j].ctx <= Below(acts[k])
            BY DEF FrameInv
        <2>3. CASE k = Len(acts)
            BY <2>1, <2>2, <2>3, <1>1
        <2>4. CASE k # Len(acts)
            <3>1. k \in 1 .. Len(acts) - 1
                BY <2>4, <1>1
            <3>2. FrameOf(acts[k], stack')
                BY <3>1, FramesUnder
            <3> QED
                BY <3>1, <3>2, <2>1, <2>2
        <2> QED
            BY <2>3, <2>4
    <1> QED
        BY <1>2 DEF FrameInv, FrameOf, Below

LEMMA DsOn ==
    ASSUME TypeInv, DsInv, acts # <<>>, NEW b, Len(acts') = Len(acts),
           acts'[Len(acts)] = b, \A k \in 1 .. Len(acts) - 1 : acts'[k] = acts[k],
           b.kind = act.kind, b.expect["ds"] = act.expect["ds"],
           act.kind = "interrupt" => regs'["ds"] = regs["ds"]
    PROVE  DsInv'
    <1>1. Len(acts) \in 1 .. Len(acts) /\ act = acts[Len(acts)] /\ Len(acts) \in Nat
        BY Innermost DEF act
    <1>2. \A k \in 1 .. Len(acts) :
              acts'[k].kind = acts[k].kind /\ acts'[k].expect["ds"] = acts[k].expect["ds"]
        <2> TAKE k \in 1 .. Len(acts)
        <2>1. k = Len(acts) \/ k \in 1 .. Len(acts) - 1
            BY <1>1
        <2> QED
            BY <2>1, <1>1
    <1>3. ASSUME NEW k \in 1 .. Len(acts), acts'[k].kind = "interrupt"
          PROVE  /\ k = 1
                 /\ IF Len(acts') = 1 THEN regs'["ds"] = acts'[1].expect["ds"]
                                      ELSE acts'[2].expect["ds"] = acts'[1].expect["ds"]
        <2>1. /\ k = 1
              /\ IF Len(acts) = 1 THEN regs["ds"] = acts[1].expect["ds"]
                                  ELSE acts[2].expect["ds"] = acts[1].expect["ds"]
            BY <1>2, <1>3 DEF DsInv
        <2>2. CASE Len(acts) = 1
            BY <2>1, <2>2, <1>1, <1>2, <1>3
        <2>3. CASE Len(acts) # 1
            <3>1. 1 \in 1 .. Len(acts) /\ 2 \in 1 .. Len(acts)
                BY <2>3, <1>1
            <3> QED
                BY <2>1, <2>3, <3>1, <1>2
        <2> QED
            BY <2>2, <2>3
    <1> QED
        BY <1>3 DEF DsInv

LEMMA HookCalled ==
    ASSUME TypeInv, FrameInv, DsInv, CallHook
    PROVE  TypeInv' /\ FrameInv' /\ DsInv'
    <1> DEFINE b == [act EXCEPT !.called = Append(@, act.entry)]
               local == <<<<"hook", "local", count>>>>
               s == SubSeq(stack, 1, act.ctx)
    <1>1. /\ acts # <<>> /\ pc' = "hook" /\ regs' = HookRegisters
          /\ stack' = s \o local
          /\ acts' = [acts EXCEPT ![Len(acts)].called = Append(@, act.entry)]
          /\ next' = next /\ prev' = prev /\ push' = push
          /\ registered' = registered /\ count' = count
        BY DEF CallHook, TypeInv, rings
    <1>2. /\ acts \in Seq(Activation) /\ Len(acts) \in 1 .. Len(acts) /\ Len(acts) \in Nat
          /\ act = acts[Len(acts)] /\ act \in Activation /\ count \in Nat
          /\ stack \in Seq(Word)
        BY <1>1, Innermost DEF TypeInv, act
    <1>3. /\ b \in Activation /\ b.kind = act.kind /\ b.ctx = act.ctx
          /\ b.expect = act.expect
        <2>1. act.called \in Seq(Node \cup {Null}) /\ act.entry \in Node \cup {Null}
            BY <1>2 DEF Activation
        <2>2. Append(act.called, act.entry) \in Seq(Node \cup {Null})
            BY <2>1
        <2> QED
            BY <2>2, <1>2 DEF Activation
    <1>4. acts' = [acts EXCEPT ![Len(acts)] = b]
        BY <1>1, <1>2, Zenon
    <1> HIDE DEF b
    <1>5. /\ acts' \in Seq(Activation) /\ Len(acts') = Len(acts) /\ acts'[Len(acts)] = b
          /\ \A k \in 1 .. Len(acts) - 1 : acts'[k] = acts[k]
        <2>1. /\ Len(acts') = Len(acts) /\ acts'[Len(acts)] = b
              /\ \A i \in 1 .. Len(acts) : i # Len(acts) => acts'[i] = acts[i]
            BY <1>2, <1>4, Replacing
        <2>2. acts' \in Seq(Activation)
            BY <1>2, <1>3, <1>4
        <2> QED
            BY <2>1, <2>2, <1>2, SMTT(60)
    <1>6. /\ FrameOf(act, stack) /\ act.ctx \in Nat /\ Below(act) \in Nat
          /\ Below(act) <= act.ctx /\ act.ctx <= Len(stack)
        BY <1>1, Nested
    <1>7. /\ stack' \in Seq(Word) /\ act.ctx <= Len(stack')
          /\ \A i \in 1 .. act.ctx : stack'[i] = stack[i]
        <2>0. <<"hook", "local", count>> \in Word
            BY <1>2, Words, Zenon
        <2>1. local \in Seq(Word) /\ Len(local) = 1
            BY <2>0
        <2>2. act.ctx \in 0 .. Len(stack)
            BY <1>2, <1>6
        <2>3. /\ s \in Seq(Word) /\ Len(s) = act.ctx
              /\ \A i \in 1 .. act.ctx : s[i] = stack[i]
            BY <2>2, <1>2, Prefix
        <2> HIDE DEF s, local
        <2>4. stack' \in Seq(Word) /\ Joins(stack', s, local)
            BY <2>1, <2>3, <1>1, Joining
        <2> QED
            BY <2>1, <2>3, <2>4, <1>6 DEF Joins
    <1>8. regs' \in [Register -> Word]
        <2>1. ASSUME NEW r \in Register
              PROVE  (IF r = "ds" /\ act.kind = "interrupt" THEN regs[r]
                                                             ELSE <<"hook", r, count>>) \in Word
            <3>1. <<"hook", r, count>> \in Word /\ regs[r] \in Word
                BY <1>2, Words, FieldNames DEF TypeInv
            <3> QED
                BY <3>1
        <2> QED
            BY <2>1, <1>1 DEF HookRegisters
    <1>9. TypeInv'
        <2>1. acts' # <<>>
            BY <1>2, <1>5
        <2> QED
            BY <2>1, <1>1, <1>5, <1>7, <1>8 DEF TypeInv
    <1>10. FrameOf(act, stack')
        BY <1>2, <1>6, <1>7, FrameKept
    <1>11. FrameOf(b, stack') /\ Below(b) = Below(act)
        BY <1>3, <1>10 DEF FrameOf, Below
    <1>12. FrameInv'
        <2>1. Below(act) <= Len(stack') /\ \A i \in 1 .. Below(act) : stack'[i] = stack[i]
            BY <1>6, <1>7
        <2> QED
            BY <2>1, <1>1, <1>5, <1>7, <1>11, FramesOn
    <1>13. DsInv'
        <2>1. act.kind = "interrupt" => regs'["ds"] = regs["ds"]
            BY <1>1 DEF HookRegisters, Register
        <2> QED
            BY <2>1, <1>1, <1>3, <1>5, DsOn
    <1> QED
        BY <1>9, <1>12, <1>13

LEMMA EditPlaces ==
    /\ Place(Context, "rip") = 19 /\ Place(Context, "rflags") = 21
    /\ \A i \in 1 .. 23 : /\ Context[i] = "rip" <=> i = 19
                          /\ Context[i] = "rflags" <=> i = 21
    <1>1. \A i \in 1 .. 23 : /\ Context[i] = "rip" <=> i = 19
                             /\ Context[i] = "rflags" <=> i = 21
        BY DEF Context
    <1>2. {"rip", "rflags"} \subseteq Field
        BY FieldNames DEF Names
    <1> QED
        BY <1>1, <1>2, Places

\* The word that a hook writes.
Edit(f, n) == <<"edited", f, n>>

\* What a hook writes into its context, and that the context is otherwise left.
WithEdits(old, a, edits, n) ==
    [i \in 1 .. a.ctx |-> IF \E f \in edits : i = At(a, f)
                          THEN Edit(CHOOSE f \in edits : i = At(a, f), n)
                          ELSE old[i]]

EditsLie(st, old, c, edits, n) ==
    /\ \A i \in 1 .. 23 : c - i + 1 \in 1 .. c =>
          st[c - i + 1] = IF Context[i] \in edits THEN Edit(Context[i], n)
                                                  ELSE old[c - i + 1]
    /\ \A i \in 1 .. c : i <= c - 23 => st[i] = old[i]
    /\ \A i \in 1 .. c : st[i] = old[i] \/ \E f \in edits : st[i] = Edit(f, n)

LEMMA Edited ==
    ASSUME NEW a, a.ctx \in Nat, NEW edits \in SUBSET {"rip", "rflags"}, NEW n, NEW old
    PROVE  EditsLie(WithEdits(old, a, edits, n), old, a.ctx, edits, n)
    <1> DEFINE c == a.ctx
               st == WithEdits(old, a, edits, n)
    <1>0. c \in Nat
        OBVIOUS
    <1>1. At(a, "rip") = c - 18 /\ At(a, "rflags") = c - 20
        BY EditPlaces DEF At
    <1>7. \A i \in 1 .. c : st[i] = IF \E f \in edits : i = At(a, f)
                               THEN Edit(CHOOSE f \in edits : i = At(a, f), n) ELSE old[i]
        BY DEF WithEdits
    <1>8. c = a.ctx /\ st = WithEdits(old, a, edits, n)
        OBVIOUS
    <1> HIDE DEF c, st
    <1>2. ASSUME NEW i \in 1 .. c
          PROVE  st[i] = IF "rip" \in edits /\ i = c - 18 THEN Edit("rip", n)
                         ELSE IF "rflags" \in edits /\ i = c - 20 THEN Edit("rflags", n)
                         ELSE old[i]
        <2>1. ASSUME NEW f \in edits PROVE f = "rip" \/ f = "rflags"
            OBVIOUS
        <2>2. st[i] = IF \E f \in edits : i = At(a, f)
                      THEN Edit(CHOOSE f \in edits : i = At(a, f), n) ELSE old[i]
            BY <1>7
        <2>3. CASE "rip" \in edits /\ i = c - 18
            <3>1. i # c - 20
                BY <2>3, <1>0
            <3>2. \A f \in edits : i = At(a, f) <=> f = "rip"
                BY <2>1, <2>3, <3>1, <1>1
            <3>3. \E f \in edits : i = At(a, f)
                BY <2>3, <3>2
            <3>4. (CHOOSE f \in edits : i = At(a, f)) = "rip"
                BY <2>3, <3>2
            <3> QED
                BY <2>2, <2>3, <3>3, <3>4, Zenon
        <2>4. CASE "rflags" \in edits /\ i = c - 20
            <3>1. i # c - 18
                BY <2>4, <1>0
            <3>2. \A f \in edits : i = At(a, f) <=> f = "rflags"
                BY <2>1, <2>4, <3>1, <1>1
            <3>3. \E f \in edits : i = At(a, f)
                BY <2>4, <3>2
            <3>4. (CHOOSE f \in edits : i = At(a, f)) = "rflags"
                BY <2>4, <3>2
            <3> QED
                BY <2>2, <2>4, <3>1, <3>3, <3>4, Zenon
        <2>5. CASE ~("rip" \in edits /\ i = c - 18) /\ ~("rflags" \in edits /\ i = c - 20)
            <3>1. ~\E f \in edits : i = At(a, f)
                BY <2>1, <2>5, <1>1
            <3> QED
                BY <2>2, <2>5, <3>1, Zenon
        <2> QED
            BY <2>3, <2>4, <2>5, Zenon
    <1>3. ASSUME NEW i \in 1 .. 23, c - i + 1 \in 1 .. c
          PROVE  st[c - i + 1] = IF Context[i] \in edits THEN Edit(Context[i], n)
                                                         ELSE old[c - i + 1]
        <2>1. (c - i + 1 = c - 18 <=> i = 19) /\ (c - i + 1 = c - 20 <=> i = 21)
            BY <1>0
        <2>2. /\ Context[i] = "rip" <=> i = 19
              /\ Context[i] = "rflags" <=> i = 21
            BY EditPlaces
        <2>3. Context[i] \in edits => Context[i] = "rip" \/ Context[i] = "rflags"
            OBVIOUS
        <2>4. st[c - i + 1] = IF "rip" \in edits /\ i = 19 THEN Edit("rip", n)
                              ELSE IF "rflags" \in edits /\ i = 21 THEN Edit("rflags", n)
                              ELSE old[c - i + 1]
            BY <1>2, <1>3, <2>1, Zenon
        <2>5. i = 19 => i # 21
            OBVIOUS
        <2> QED
            BY <2>2, <2>3, <2>4, <2>5, Zenon
    <1>4. ASSUME NEW i \in 1 .. c, i <= c - 23 PROVE st[i] = old[i]
        <2>1. i # c - 18 /\ i # c - 20
            BY <1>4, <1>0
        <2> QED
            BY <2>1, <1>2, Zenon
    <1>5. ASSUME NEW i \in 1 .. c PROVE st[i] = old[i] \/ \E f \in edits : st[i] = Edit(f, n)
        BY <1>2, Zenon
    <1>6. EditsLie(st, old, c, edits, n)
        BY <1>3, <1>4, <1>5 DEF EditsLie
    <1> QED
        BY <1>6, <1>8

LEMMA HookReturned ==
    ASSUME TypeInv, RingInv, WalkInv, FrameInv, DsInv,
           NEW handles \in BOOLEAN, NEW fails \in BOOLEAN,
           NEW edits \in SUBSET {"rip", "rflags"}, ReturnHook(handles, fails, edits)
    PROVE  TypeInv' /\ FrameInv' /\ DsInv'
    <1> DEFINE expect == [f \in Field |-> IF f \in edits THEN Edit(f, count)
                                          ELSE act.expect[f]]
               b == [act EXCEPT !.entry = IF fails THEN @ ELSE next[@],
                                !.failed = fails, !.handled = @ \/ handles,
                                !.expect = expect]
    <1>1. /\ acts # <<>> /\ pc = "hook" /\ (act.kind = "interrupt" => edits = {})
          /\ pc' = "dispatch" /\ regs' = regs
          /\ next' = next /\ prev' = prev /\ push' = push
          /\ registered' = registered /\ count' = count
        BY DEF ReturnHook, TypeInv, rings
    <1>2. stack' = WithEdits(stack, act, edits, count)
        BY DEF ReturnHook, WithEdits, Edit
    <1>3. acts' = [acts EXCEPT ![Len(acts)] = b]
        BY DEF ReturnHook, Edit
    <1>4. /\ acts \in Seq(Activation) /\ Len(acts) \in 1 .. Len(acts) /\ Len(acts) \in Nat
          /\ act = acts[Len(acts)] /\ act \in Activation /\ count \in Nat
          /\ stack \in Seq(Word)
        BY <1>1, Innermost DEF TypeInv, act
    <1>5. {"rip", "rflags", "ds", "rsp"} \subseteq Field
        BY FieldNames DEF Names
    <1>6. \A f \in Field : Edit(f, count) \in Word
        BY <1>4, Words DEF Edit
    <1>7. /\ expect \in [Field -> Word]
          /\ \A f \in Field : expect[f] = IF f \in edits THEN Edit(f, count)
                                          ELSE act.expect[f]
        <2>1. act.expect \in [Field -> Word]
            BY <1>4 DEF Activation
        <2> QED
            BY <2>1, <1>6
    <1>8. next[act.entry] \in Node \cup {Null}
        <2>1. Walk(act, Chain(act.list), TRUE)
            BY <1>1, <1>4 DEF WalkInv, Walk
        <2>2. Chain(act.list) \in Seq(Link) /\ Len(act.called) \in Nat
            BY <1>4, ChainType, SMTT(60) DEF Activation
        <2>3. act.entry \in Link
            BY <2>1, <2>2 DEF Walk
        <2> QED
            BY <2>3, Nodes DEF TypeInv
    <1> HIDE DEF expect
    <1>9. /\ b \in Activation /\ b.kind = act.kind /\ b.ctx = act.ctx /\ b.expect = expect
        <2>1. /\ (IF fails THEN act.entry ELSE next[act.entry]) \in Node \cup {Null}
              /\ (act.handled \/ handles) \in BOOLEAN
            BY <1>4, <1>8 DEF Activation
        <2> QED
            BY <2>1, <1>4, <1>7 DEF Activation
    <1> HIDE DEF b
    <1>10. /\ acts' \in Seq(Activation) /\ Len(acts') = Len(acts) /\ acts'[Len(acts)] = b
           /\ \A k \in 1 .. Len(acts) - 1 : acts'[k] = acts[k]
        <2>1. /\ Len(acts') = Len(acts) /\ acts'[Len(acts)] = b
              /\ \A i \in 1 .. Len(acts) : i # Len(acts) => acts'[i] = acts[i]
            BY <1>4, <1>3, Replacing
        <2>2. acts' \in Seq(Activation)
            BY <1>3, <1>4, <1>9
        <2> QED
            BY <2>1, <2>2, <1>4
    <1>11. /\ FrameOf(act, stack) /\ act.ctx \in Nat /\ Below(act) \in Nat
           /\ Below(act) + 20 <= act.ctx /\ act.ctx <= Len(stack)
           /\ act.kind = "exception" => Below(act) + 23 <= act.ctx
        BY <1>1, Nested
    <1>12. /\ \A i \in 1 .. 23 : act.ctx - i + 1 \in 1 .. act.ctx =>
                 stack'[act.ctx - i + 1] = IF Context[i] \in edits
                                           THEN Edit(Context[i], count)
                                           ELSE stack[act.ctx - i + 1]
           /\ \A i \in 1 .. act.ctx : i <= act.ctx - 23 => stack'[i] = stack[i]
           /\ \A i \in 1 .. act.ctx :
                 stack'[i] = stack[i] \/ \E f \in edits : stack'[i] = Edit(f, count)
        <2>1. act.ctx \in Nat
            BY <1>11
        <2>2. EditsLie(stack', stack, act.ctx, edits, count)
            BY <2>1, <1>2, Edited, Zenon
        <2> QED
            BY <2>2 DEF EditsLie
    <1>13. stack' \in Seq(Word) /\ Len(stack') = act.ctx
        <2>1. ASSUME NEW i \in 1 .. act.ctx PROVE stack'[i] \in Word
            <3>1. stack[i] \in Word
                BY <1>4, <1>11
            <3>2. \A f \in edits : Edit(f, count) \in Word
                BY <1>5, <1>6
            <3> QED
                BY <3>1, <3>2, <1>12
        <2>2. stack' \in [1 .. act.ctx -> Word]
            BY <2>1, <1>2 DEF WithEdits
        <2> QED
            BY <2>2, <1>11, ListOf
    <1>14. TypeInv'
        <2>1. acts' # <<>>
            BY <1>4, <1>10
        <2> QED
            BY <2>1, <1>1, <1>10, <1>13 DEF TypeInv
    <1>15. CASE edits = {}
        <2>1. \A i \in 1 .. act.ctx : stack'[i] = stack[i]
            BY <1>12, <1>15
        <2>2. FrameOf(act, stack')
            BY <2>1, <1>4, <1>11, <1>13, FrameKept
        <2>3. \A f \in Field : expect[f] = act.expect[f]
            BY <1>7, <1>15
        <2>4. act.kind \in {"exception", "interrupt"}
            BY <1>4 DEF Activation
        <2>5. \A i \in 1 .. Len(Layout(act.kind)) :
                  b.expect[Layout(act.kind)[i]] = act.expect[Layout(act.kind)[i]]
            BY <2>3, <2>4, <1>9, Layouts
        <2>6. b.expect["rsp"] = act.expect["rsp"] /\ b.expect["ds"] = act.expect["ds"]
            BY <2>3, <1>5, <1>9
        <2>7. Below(b) = Below(act)
            BY <2>6 DEF Below
        <2>8. FrameOf(b, stack')
            BY <2>2, <2>5, <2>6, <2>7, <1>9 DEF FrameOf
        <2>9. Below(act) <= Len(stack') /\ \A i \in 1 .. Below(act) : stack'[i] = stack[i]
            BY <2>1, <1>11, <1>13
        <2>10. FrameInv'
            BY <2>7, <2>8, <2>9, <1>1, <1>10, <1>13, FramesOn
        <2>11. DsInv'
            BY <2>6, <1>1, <1>9, <1>10, DsOn
        <2> QED
            BY <2>10, <2>11, <1>14
    <1>16. CASE act.kind = "exception"
        <2>1. /\ b.expect["rsp"] = act.expect["rsp"] /\ b.expect["ds"] = act.expect["ds"]
            BY <1>5, <1>7, <1>9
        <2>2. Below(b) = Below(act)
            BY <2>1 DEF Below
        <2>3. Len(Layout(act.kind)) = 23 /\ Layout(act.kind) = Context
              /\ \A i \in 1 .. 23 : Context[i] \in Field
            BY <1>16, Layouts DEF Layout
        <2>4. ASSUME NEW i \in 1 .. 23 PROVE stack'[act.ctx - i + 1] = b.expect[Context[i]]
            <3>1. act.ctx - i + 1 \in 1 .. act.ctx
                BY <1>11, <1>16, SMTT(60)
            <3>2. stack[act.ctx - i + 1] = act.expect[Context[i]]
                BY <2>3, <1>11 DEF FrameOf
            <3> QED
                BY <3>1, <3>2, <2>3, <1>7, <1>9, <1>12
        <2>5. FrameOf(b, stack')
            <3>1. Below(act) + 23 <= act.ctx /\ act.ctx <= Len(stack')
                BY <1>11, <1>13, <1>16
            <3>2. act.expect["rsp"] = Rsp(Below(act))
                BY <1>11 DEF FrameOf
            <3> QED
                BY <3>1, <3>2, <2>1, <2>2, <2>3, <2>4, <1>9, <1>11 DEF FrameOf
        <2>6. Below(act) <= Len(stack') /\ \A i \in 1 .. Below(act) : stack'[i] = stack[i]
            <3>1. \A i \in 1 .. Below(act) : i \in 1 .. act.ctx /\ i <= act.ctx - 23
                BY <1>11, <1>16
            <3> QED
                BY <3>1, <1>11, <1>12, <1>13
        <2>7. FrameInv'
            BY <2>2, <2>5, <2>6, <1>1, <1>10, <1>13, FramesOn
        <2>8. DsInv'
            BY <2>1, <1>1, <1>9, <1>10, DsOn
        <2> QED
            BY <2>7, <2>8, <1>14
    <1>17. act.kind = "exception" \/ edits = {}
        BY <1>1, <1>4 DEF Activation
    <1> QED
        BY <1>15, <1>16, <1>17

\* The way back from a frame that holds the context, and the registers with it.
Resumed ==
    /\ \A r \in Register : regs'[r] = act.expect[r]
    /\ Rsp(Len(stack')) = act.expect["rsp"]

\* What iretq and the pops find at and below position c.
Restores(c, n, pops) ==
    /\ stack[c - n - 0] = act.expect["rip"]
    /\ stack[c - n - 1] = act.expect["cs"]
    /\ stack[c - n - 2] = act.expect["rflags"]
    /\ stack[c - n - 3] = act.expect["rsp"]
    /\ stack[c - n - 4] = act.expect["ss"]
    /\ \A r \in General \cup {"ds"} : pops[r] = act.expect[r]

LEMMA Resuming ==
    ASSUME TypeInv, FrameInv, DsInv, pc = "return", NEW n, NEW pops, Iretq(n, pops),
           Restores(act.ctx, n, pops)
    PROVE  TypeInv' /\ FrameInv' /\ DsInv' /\ Resumed
    <1>1. /\ acts # <<>> /\ acts' = SubSeq(acts, 1, Len(acts) - 1)
          /\ pc' = IF Len(acts) = 1 THEN "run" ELSE "hook"
          /\ next' = next /\ prev' = prev /\ push' = push
          /\ registered' = registered /\ count' = count
        BY DEF Iretq, TypeInv, rings
    <1>2. /\ acts \in Seq(Activation) /\ Len(acts) \in 1 .. Len(acts) /\ Len(acts) \in Nat
          /\ act = acts[Len(acts)] /\ act \in Activation
          /\ stack \in Seq(Word)
        BY <1>1, Innermost DEF TypeInv, act
    <1>3. /\ acts' \in Seq(Activation) /\ Len(acts') = Len(acts) - 1
          /\ \A k \in 1 .. Len(acts) - 1 : acts'[k] = acts[k]
        BY <1>1, Innermost
    <1>4. /\ FrameOf(act, stack) /\ act.ctx \in Nat /\ Below(act) \in Nat
          /\ Below(act) <= Len(stack)
        BY <1>1, <1>2, Nested
    <1>5. regs' = [r \in Register |->
                      CASE r = "rip" -> act.expect["rip"]
                        [] r = "cs" -> act.expect["cs"]
                        [] r = "rflags" -> act.expect["rflags"]
                        [] r = "ss" -> act.expect["ss"]
                        [] OTHER -> pops[r]]
        BY DEF Iretq, Restores
    <1>6. \A r \in Register : regs'[r] = act.expect[r]
        <2> TAKE r \in Register
        <2>1. CASE r \in {"rip", "cs", "rflags", "ss"}
            BY <1>5, <2>1
        <2>2. CASE r \notin {"rip", "cs", "rflags", "ss"}
            <3>1. r \in General \cup {"ds"}
                BY <2>2 DEF Register
            <3>2. regs'[r] = pops[r]
                BY <1>5, <2>2
            <3> QED
                BY <3>1, <3>2 DEF Restores
        <2> QED
            BY <2>1, <2>2
    <1>7. regs' \in [Register -> Word]
        <2>1. \A r \in Register : act.expect[r] \in Word
            BY <1>2, FieldNames DEF Activation
        <2> QED
            BY <2>1, <1>5, <1>6
    <1>8. stack' = SubSeq(stack, 1, Below(act))
        <2>1. act.expect["rsp"] = Rsp(Below(act))
            BY <1>4 DEF FrameOf
        <2>2. act.expect["rsp"][1] = "stack" /\ act.expect["rsp"][3] = Below(act)
            BY <2>1 DEF Rsp
        <2>3. stack' = IF act.expect["rsp"][1] = "stack"
                       THEN SubSeq(stack, 1, act.expect["rsp"][3]) ELSE <<>>
            BY DEF Iretq, Restores
        <2> QED
            BY <2>2, <2>3, Zenon
    <1>9. /\ stack' \in Seq(Word) /\ Len(stack') = Below(act)
          /\ \A i \in 1 .. Below(act) : stack'[i] = stack[i]
        <2>1. Below(act) \in 0 .. Len(stack)
            BY <1>2, <1>4
        <2> QED
            BY <2>1, <1>2, <1>8, Prefix
    <1>10. Rsp(Len(stack')) = act.expect["rsp"]
        BY <1>4, <1>9 DEF FrameOf
    <1>11. TypeInv'
        <2>1. pc' = "run" <=> acts' = <<>>
            <3>1. acts' = <<>> <=> Len(acts) - 1 = 0
                BY <1>3
            <3> QED
                BY <3>1, <1>1, <1>2
        <2> QED
            BY <2>1, <1>1, <1>3, <1>7, <1>9 DEF TypeInv
    <1>12. FrameInv'
        <2>1. Below(act) <= Len(stack')
            BY <1>4, <1>9
        <2>2. \A k \in 1 .. Len(acts) - 1 : FrameOf(acts[k], stack')
            BY <2>1, <1>1, <1>9, FramesUnder
        <2>3. ASSUME NEW k \in 1 .. Len(acts')
              PROVE  /\ FrameOf(acts'[k], stack')
                     /\ \A j \in 1 .. k - 1 : acts'[j].ctx <= Below(acts'[k])
            <3>1. k \in 1 .. Len(acts) - 1 /\ k \in 1 .. Len(acts)
                BY <1>2, <1>3
            <3>2. \A j \in 1 .. k - 1 : j \in 1 .. Len(acts) - 1
                BY <3>1, <1>2
            <3>3. \A j \in 1 .. k - 1 : acts[j].ctx <= Below(acts[k])
                BY <3>1 DEF FrameInv
            <3> QED
                BY <3>1, <3>2, <3>3, <2>2, <1>3
        <2> QED
            BY <2>3 DEF FrameInv, FrameOf, Below
    <1>13. DsInv'
        <2>1. ASSUME NEW k \in 1 .. Len(acts'), acts'[k].kind = "interrupt"
              PROVE  /\ k = 1
                     /\ IF Len(acts') = 1 THEN regs'["ds"] = acts'[1].expect["ds"]
                                          ELSE acts'[2].expect["ds"] = acts'[1].expect["ds"]
            <3>1. k \in 1 .. Len(acts) - 1 /\ k \in 1 .. Len(acts) /\ Len(acts) # 1
                BY <1>2, <1>3
            <3>2. acts[k].kind = "interrupt"
                BY <2>1, <3>1, <1>3
            <3>3. k = 1 /\ acts[2].expect["ds"] = acts[1].expect["ds"]
                BY <3>1, <3>2 DEF DsInv
            <3>4. acts'[1] = acts[1]
                BY <3>1, <3>3, <1>3
            <3>5. CASE Len(acts') = 1
                <4>1. Len(acts) = 2
                    <5>1. \A m \in Nat : m - 1 = 1 => m = 2
                        OBVIOUS
                    <5> QED
                        BY <5>1, <3>5, <1>2, <1>3, Zenon
                <4>2. act = acts[2] /\ "ds" \in Register
                    BY <4>1, <1>2 DEF Register
                <4>3. regs'["ds"] = acts'[1].expect["ds"]
                    BY <4>2, <3>3, <3>4, <1>6
                <4> QED
                    BY <4>3, <3>3, <3>5
            <3>6. CASE Len(acts') # 1
                <4>1. 2 \in 1 .. Len(acts) - 1
                    BY <3>1, <3>3, <3>6, <1>2, <1>3
                <4>2. acts'[2] = acts[2]
                    BY <4>1, <1>3
                <4> QED
                    BY <4>2, <3>3, <3>4, <3>6
            <3> QED
                BY <3>5, <3>6
        <2> QED
            BY <2>1 DEF DsInv
    <1> QED
        BY <1>6, <1>10, <1>11, <1>12, <1>13 DEF Resumed

LEMMA Returned ==
    ASSUME TypeInv, FrameInv, DsInv, Return
    PROVE  TypeInv' /\ FrameInv' /\ DsInv' /\ Resumed
    <1> DEFINE c == act.ctx
    <1>1. /\ acts # <<>> /\ pc = "return" /\ act.kind = "exception"
          /\ Iretq(Len(PopOrder) + 2, Popped(PopOrder))
        BY DEF Return, TypeInv
    <1>2. Len(PopOrder) = 16
        BY DEF PopOrder
    <1>3. Iretq(18, Popped(PopOrder))
        <2>1. Len(PopOrder) + 2 = 18
            BY <1>2
        <2> QED
            BY <2>1, <1>1, Zenon
    <1>4. c \in Nat /\ \A i \in 1 .. 23 : stack[c - i + 1] = act.expect[Context[i]]
        <2>1. FrameOf(act, stack) /\ act.ctx \in Nat
            BY <1>1, Nested
        <2>2. Layout(act.kind) = Context /\ Len(Context) = 23
            BY <1>1 DEF Layout, Context
        <2> QED
            BY <2>1, <2>2 DEF FrameOf
    <1>5. /\ Context[19] = "rip" /\ Context[20] = "cs" /\ Context[21] = "rflags"
          /\ Context[22] = "rsp" /\ Context[23] = "ss"
        BY DEF Context
    <1> HIDE DEF c
    <1>6. /\ stack[c - 18 - 0] = act.expect["rip"]
          /\ stack[c - 18 - 1] = act.expect["cs"]
          /\ stack[c - 18 - 2] = act.expect["rflags"]
          /\ stack[c - 18 - 3] = act.expect["rsp"]
          /\ stack[c - 18 - 4] = act.expect["ss"]
        <2>1. /\ c - 18 - 0 = c - 19 + 1 /\ c - 18 - 1 = c - 20 + 1
              /\ c - 18 - 2 = c - 21 + 1 /\ c - 18 - 3 = c - 22 + 1
              /\ c - 18 - 4 = c - 23 + 1
            BY <1>4
        <2>2. /\ stack[c - 19 + 1] = act.expect[Context[19]]
              /\ stack[c - 20 + 1] = act.expect[Context[20]]
              /\ stack[c - 21 + 1] = act.expect[Context[21]]
              /\ stack[c - 22 + 1] = act.expect[Context[22]]
              /\ stack[c - 23 + 1] = act.expect[Context[23]]
            <3>1. {19, 20, 21, 22, 23} \subseteq 1 .. 23
                OBVIOUS
            <3> QED
                BY <3>1, <1>4
        <2> QED
            BY <2>1, <2>2, <1>5, Zenon
    <1>7. \A r \in General \cup {"ds"} : Popped(PopOrder)[r] = act.expect[r]
        <2> TAKE r \in General \cup {"ds"}
        <2>1. /\ Place(PopOrder, r) \in 1 .. 16 /\ Context[Place(PopOrder, r)] = r
              /\ \E i \in 1 .. 16 : PopOrder[i] = r
            BY Popping
        <2>2. Popped(PopOrder)[r] = stack[c - Place(PopOrder, r) + 1]
            BY <2>1, <1>2 DEF Popped, c
        <2>3. Place(PopOrder, r) \in 1 .. 23
            BY <2>1
        <2> QED
            BY <2>1, <2>2, <2>3, <1>4
    <1> QED
        <2>1. Restores(act.ctx, 18, Popped(PopOrder))
            BY <1>6, <1>7 DEF Restores, c
        <2>2. pc = "return"
            BY <1>1
        <2> QED
            BY <2>1, <2>2, <1>3, Resuming, Zenon

LEMMA ReturnedInterrupt ==
    ASSUME TypeInv, FrameInv, DsInv, ReturnInterrupt
    PROVE  TypeInv' /\ FrameInv' /\ DsInv' /\ Resumed
    <1> DEFINE c == act.ctx
               order == SubSeq(PopOrder, 2, Len(PopOrder))
    <1>1. /\ acts # <<>> /\ pc = "return" /\ act.kind = "interrupt"
          /\ Iretq(Len(order), Popped(order))
        BY DEF ReturnInterrupt, TypeInv
    <1>2. /\ Len(order) = 15 /\ \A i \in 1 .. 15 : order[i] = Handler[i]
          /\ \A r \in General : \E i \in 1 .. 15 : Handler[i] = r
          /\ \A i \in 1 .. 15 : Handler[i] \in General
        BY HandlerPopping
    <1> HIDE DEF order
    <1>3. Iretq(15, Popped(order))
        BY <1>1, <1>2, Zenon
    <1>4. c \in Nat /\ \A i \in 1 .. 20 : stack[c - i + 1] = act.expect[Handler[i]]
        <2>1. FrameOf(act, stack) /\ act.ctx \in Nat
            BY <1>1, Nested
        <2>2. Layout(act.kind) = Handler /\ Len(Handler) = 20
            BY <1>1 DEF Layout, Handler
        <2> QED
            BY <2>1, <2>2 DEF FrameOf
    <1>5. /\ Handler[16] = "rip" /\ Handler[17] = "cs" /\ Handler[18] = "rflags"
          /\ Handler[19] = "rsp" /\ Handler[20] = "ss"
        BY DEF Handler
    <1> HIDE DEF c
    <1>6. /\ stack[c - 15 - 0] = act.expect["rip"]
          /\ stack[c - 15 - 1] = act.expect["cs"]
          /\ stack[c - 15 - 2] = act.expect["rflags"]
          /\ stack[c - 15 - 3] = act.expect["rsp"]
          /\ stack[c - 15 - 4] = act.expect["ss"]
        <2>1. /\ c - 15 - 0 = c - 16 + 1 /\ c - 15 - 1 = c - 17 + 1
              /\ c - 15 - 2 = c - 18 + 1 /\ c - 15 - 3 = c - 19 + 1
              /\ c - 15 - 4 = c - 20 + 1
            BY <1>4
        <2>2. /\ stack[c - 16 + 1] = act.expect[Handler[16]]
              /\ stack[c - 17 + 1] = act.expect[Handler[17]]
              /\ stack[c - 18 + 1] = act.expect[Handler[18]]
              /\ stack[c - 19 + 1] = act.expect[Handler[19]]
              /\ stack[c - 20 + 1] = act.expect[Handler[20]]
            <3>1. {16, 17, 18, 19, 20} \subseteq 1 .. 20
                OBVIOUS
            <3> QED
                BY <3>1, <1>4
        <2> QED
            BY <2>1, <2>2, <1>5, Zenon
    <1>7. \A r \in General : Popped(order)[r] = act.expect[r]
        <2> TAKE r \in General
        <2>1. \E i \in 1 .. 15 : order[i] = r
            BY <1>2
        <2>2. Place(order, r) \in 1 .. 15 /\ order[Place(order, r)] = r
            BY <2>1, <1>2 DEF Place
        <2>3. Popped(order)[r] = stack[c - Place(order, r) + 1]
            BY <2>1, <1>2 DEF Popped, c
        <2>4. Place(order, r) \in 1 .. 20 /\ Handler[Place(order, r)] = r
            BY <2>2, <1>2
        <2> QED
            BY <2>3, <2>4, <1>4
    <1>8. Popped(order)["ds"] = act.expect["ds"]
        <2>1. ~\E i \in 1 .. 15 : order[i] = "ds"
            BY <1>2 DEF General
        <2>2. Popped(order)["ds"] = regs["ds"]
            BY <2>1, <1>2 DEF Popped
        <2>3. Len(acts) \in 1 .. Len(acts) /\ act = acts[Len(acts)]
            BY <1>1, Innermost DEF act
        <2>4. Len(acts) = 1 /\ regs["ds"] = acts[1].expect["ds"]
            BY <2>3, <1>1 DEF DsInv
        <2> QED
            BY <2>2, <2>3, <2>4
    <1>9. \A r \in General \cup {"ds"} : Popped(order)[r] = act.expect[r]
        BY <1>7, <1>8
    <1> QED
        <2>1. Restores(act.ctx, 15, Popped(order))
            BY <1>6, <1>9 DEF Restores, c
        <2>2. pc = "return"
            BY <1>1
        <2> QED
            BY <2>1, <2>2, <1>3, Resuming, Zenon

\* Registering a hook while nothing is in progress.
LEMMA Pushed ==
    ASSUME TypeInv, pc = "run", pc' = pc, acts' = acts, regs' = regs, stack' = stack,
           count' = count,
           next' \in [Node -> Node \cup {Null}], prev' \in [Node -> Node \cup {Null}],
           push' \in {Idle} \cup [stage : {"append", "close"}, list : List, entry : Link],
           registered' \in [List -> Seq(Link)]
    PROVE  TypeInv' /\ FrameInv' /\ DsInv'
    <1>1. acts' = <<>> /\ TypeInv'
        BY DEF TypeInv
    <1>2. \A k : k \notin 1 .. Len(acts')
        BY <1>1
    <1> QED
        BY <1>1, <1>2 DEF FrameInv, DsInv

LEMMA FrameStep ==
    ASSUME StubsRight
    PROVE  TypeInv /\ RingInv /\ WalkInv /\ FrameInv /\ DsInv /\ [Next]_vars =>
              TypeInv' /\ FrameInv' /\ DsInv'
    <1> SUFFICES ASSUME TypeInv, RingInv, WalkInv, FrameInv, DsInv, [Next]_vars
                 PROVE  TypeInv' /\ FrameInv' /\ DsInv'
        OBVIOUS
    <1>1. ASSUME NEW list \in List, NEW e \in Link, PushLink(list, e)
          PROVE  TypeInv' /\ FrameInv' /\ DsInv'
        <2>1. /\ pc = "run" /\ pc' = pc /\ acts' = acts /\ regs' = regs
              /\ stack' = stack /\ count' = count /\ registered' = registered
              /\ prev' = [prev EXCEPT ![e] = prev[list]]
              /\ next' = [next EXCEPT ![e] = list]
              /\ push' = [stage |-> "append", list |-> list, entry |-> e]
            BY <1>1 DEF PushLink
        <2>2. /\ list \in Node /\ prev[list] \in Node \cup {Null}
            BY Nodes DEF TypeInv
        <2>3. /\ next' \in [Node -> Node \cup {Null}] /\ prev' \in [Node -> Node \cup {Null}]
              /\ registered' \in [List -> Seq(Link)]
            BY <2>1, <2>2 DEF TypeInv
        <2>4. push' \in {Idle} \cup [stage : {"append", "close"}, list : List, entry : Link]
            BY <2>1
        <2> QED
            BY <2>1, <2>3, <2>4, Pushed
    <1>2. CASE PushAppend
        <2>1. /\ pc = "run" /\ pc' = pc /\ acts' = acts /\ regs' = regs
              /\ stack' = stack /\ count' = count /\ registered' = registered
              /\ prev' = prev /\ push.stage = "append"
              /\ next' = [next EXCEPT ![prev[push.entry]] = push.entry]
              /\ push' = [push EXCEPT !.stage = "close"]
            BY <1>2 DEF PushAppend
        <2>2. push \in [stage : {"append", "close"}, list : List, entry : Link]
            BY <2>1 DEF TypeInv, Idle
        <2>3. push' \in {Idle} \cup [stage : {"append", "close"}, list : List, entry : Link]
            BY <2>1, <2>2
        <2>4. push.entry \in Node
            BY <2>2, Nodes
        <2>5. /\ next' \in [Node -> Node \cup {Null}] /\ prev' \in [Node -> Node \cup {Null}]
              /\ registered' \in [List -> Seq(Link)]
            BY <2>1, <2>4 DEF TypeInv
        <2> QED
            BY <2>1, <2>3, <2>5, Pushed
    <1>3. CASE PushClose
        <2>1. /\ pc = "run" /\ pc' = pc /\ acts' = acts /\ regs' = regs
              /\ stack' = stack /\ count' = count /\ next' = next
              /\ push.stage = "close" /\ push' = Idle
              /\ prev' = [prev EXCEPT ![push.list] = push.entry]
              /\ registered' = [registered EXCEPT ![push.list] = Append(@, push.entry)]
            BY <1>3 DEF PushClose
        <2>2. push \in [stage : {"append", "close"}, list : List, entry : Link]
            BY <2>1 DEF TypeInv, Idle
        <2>3. push.entry \in Node /\ push.entry \in Link /\ push.list \in List
            BY <2>2, Nodes
        <2>4. Append(registered[push.list], push.entry) \in Seq(Link)
            BY <2>3 DEF TypeInv
        <2>5. /\ next' \in [Node -> Node \cup {Null}] /\ prev' \in [Node -> Node \cup {Null}]
              /\ registered' \in [List -> Seq(Link)]
            BY <2>1, <2>3, <2>4 DEF TypeInv
        <2> QED
            BY <2>1, <2>5, Pushed
    <1>4. ASSUME NEW v \in Raised, Raise(v) PROVE TypeInv' /\ FrameInv' /\ DsInv'
        <2> DEFINE p == Frame(v) \o Stub(v)
        <2>1. pc \in {"run", "hook"} /\ Dispatch("exception", v, ExceptionList, p)
            BY <1>4, Zenon DEF Raise
        <2>2. v \in ErrorStub <=> v \in HasErrorCode
            BY DEF StubsRight
        <2>3. /\ p \in Seq(Word) /\ Len(p) = 23
              /\ \A i \in 1 .. 23 : p[24 - i] = Interrupted(v)[Context[i]]
            BY <2>2, ExceptionPushes, ZenonT(60)
        <2> HIDE DEF p
        <2>4. Layout("exception") = Context /\ Len(Layout("exception")) = 23
            BY Layouts DEF Layout
        <2>5. v \in 0 .. 255 /\ ExceptionList \in List
            BY RaisedAssumption, Nodes DEF ExceptionGate
        <2>6. \A i \in 1 .. Len(p) :
                  p[Len(p) + 1 - i] = Interrupted(v)[Layout("exception")[i]]
            <3>1. \A i \in 1 .. 23 : 23 + 1 - i = 24 - i
                OBVIOUS
            <3> QED
                BY <3>1, <2>3, <2>4, ZenonT(60)
        <2>7. Len(p) = Len(Layout("exception")) /\ "exception" \in {"exception", "interrupt"}
              /\ ("exception" = "interrupt" => pc = "run")
            BY <2>3, <2>4
        <2>8. p \in Seq(Word)
            BY <2>3
        <2> QED
            BY <2>1, <2>5, <2>6, <2>7, <2>8, Dispatched, Zenon
    <1>5. ASSUME NEW v \in Interrupts, Interrupt(v) PROVE TypeInv' /\ FrameInv' /\ DsInv'
        <2> DEFINE p == Frame(v) \o Saved
        <2>1. /\ pc = "run" /\ pc \in {"run", "hook"}
              /\ Dispatch("interrupt", v, HandlerList(v), p)
            BY <1>5, Zenon DEF Interrupt
        <2>3. /\ p \in Seq(Word) /\ Len(p) = 20
              /\ \A i \in 1 .. 20 : p[21 - i] = Interrupted(v)[Handler[i]]
            BY InterruptPushes, ZenonT(60)
        <2> HIDE DEF p
        <2>4. Layout("interrupt") = Handler /\ Len(Layout("interrupt")) = 20
            BY Layouts DEF Layout
        <2>5. v \in 0 .. 255 /\ HandlerList(v) \in List
            BY InterruptAssumption, Nodes DEF InterruptGate
        <2>6. \A i \in 1 .. Len(p) :
                  p[Len(p) + 1 - i] = Interrupted(v)[Layout("interrupt")[i]]
            <3>1. \A i \in 1 .. 20 : 20 + 1 - i = 21 - i
                OBVIOUS
            <3> QED
                BY <3>1, <2>3, <2>4, ZenonT(60)
        <2>7. Len(p) = Len(Layout("interrupt")) /\ "interrupt" \in {"exception", "interrupt"}
            BY <2>3, <2>4
        <2>8. p \in Seq(Word)
            BY <2>3
        <2> QED
            BY <2>1, <2>5, <2>6, <2>7, <2>8, Dispatched, Zenon
    <1>6. CASE CallHook
        BY <1>6, HookCalled
    <1>7. ASSUME NEW handles \in BOOLEAN, NEW fails \in BOOLEAN,
                 NEW edits \in SUBSET {"rip", "rflags"}, ReturnHook(handles, fails, edits)
          PROVE  TypeInv' /\ FrameInv' /\ DsInv'
        BY <1>7, HookReturned
    <1>8. CASE Finish
        <2>1. /\ pc = "dispatch" /\ pc' \in {"halted", "return"}
              /\ regs' = regs /\ stack' = stack /\ acts' = acts /\ count' = count
              /\ next' = next /\ prev' = prev /\ push' = push /\ registered' = registered
            BY <1>8 DEF Finish, rings
        <2>2. TypeInv'
            BY <2>1 DEF TypeInv
        <2> QED
            BY <2>1, <2>2 DEF FrameInv, DsInv
    <1>9. CASE Return
        BY <1>9, Returned
    <1>10. CASE ReturnInterrupt
        BY <1>10, ReturnedInterrupt
    <1>11. CASE UNCHANGED vars
        <2>1. /\ pc' = pc /\ regs' = regs /\ stack' = stack /\ acts' = acts /\ count' = count
              /\ next' = next /\ prev' = prev /\ push' = push /\ registered' = registered
            BY <1>11 DEF vars
        <2>2. TypeInv'
            BY <2>1 DEF TypeInv
        <2> QED
            BY <2>1, <2>2 DEF FrameInv, DsInv
    <1>12. ASSUME NEW e \in Link, NEW v \in HookVectors, PushLink(HookList(v), e)
           PROVE  TypeInv' /\ FrameInv' /\ DsInv'
        BY <1>1, <1>12, Nodes
    <1>13. ASSUME NEW e \in Link, PushLink(ExceptionList, e)
           PROVE  TypeInv' /\ FrameInv' /\ DsInv'
        BY <1>1, <1>13, Nodes
    <1> QED
        BY <1>2, <1>3, <1>4, <1>5, <1>6, <1>7, <1>8, <1>9, <1>10, <1>11, <1>12, <1>13
           DEF Next

-----------------------------------------------------------------------------
(* The theorems                                                            *)

IInv == TypeInv /\ RingInv /\ WalkInv /\ FrameInv /\ DsInv

LEMMA Starts == Init => IInv
    <1> SUFFICES ASSUME Init PROVE IInv
        OBVIOUS
    <1>1. Null \notin List /\ List \subseteq Node /\ Link \subseteq Node
        BY Nodes DEF Node
    <1>2. TypeInv
        <2>1. regs \in [Register -> Word]
            <3>1. ASSUME NEW r \in Register PROVE <<"program", r, 0>> \in Word
                BY Words, FieldNames
            <3> QED
                BY <3>1 DEF Init, Fresh
        <2>2. stack \in Seq(Word)
            <3>1. <<"program", "local", 0>> \in Word
                BY DEF Word
            <3>2. \A w \in Word : <<w>> \in Seq(Word) /\ <<>> \in Seq(Word)
                OBVIOUS
            <3> QED
                BY <3>1, <3>2, Zenon DEF Init
        <2>3. next \in [Node -> Node \cup {Null}] /\ prev = next
            BY <1>1 DEF Init
        <2>4. registered \in [List -> Seq(Link)]
            BY DEF Init
        <2> QED
            BY <2>1, <2>2, <2>3, <2>4 DEF Init, TypeInv
    <1>3. acts = <<>> /\ pc = "run"
        BY DEF Init
    <1>4. \A k : k \notin 1 .. Len(acts)
        BY <1>3
    <1>5. RingInv
        <2>1. push = Idle /\ push.stage = "idle"
            BY DEF Init, Idle
        <2>2. ASSUME NEW l \in List
              PROVE  Ring(next, l, Chain(l)) /\ prev[l] = End(l, registered[l])
            <3>1. registered[l] = <<>> /\ next[l] = l /\ prev[l] = l
                BY <1>1 DEF Init
            <3>2. Chain(l) = <<>>
                BY <2>1, <3>1 DEF Chain
            <3> QED
                BY <3>1, <3>2 DEF Ring, End
        <2>3. \A l \in List : Len(registered[l]) = 0
            BY DEF Init
        <2>4. Apart
            BY <2>1, <2>3 DEF Apart
        <2> QED
            BY <2>1, <2>2, <2>4 DEF RingInv
    <1> QED
        BY <1>2, <1>3, <1>4, <1>5 DEF IInv, WalkInv, FrameInv, DsInv

LEMMA Invariance ==
    ASSUME StubsRight
    PROVE  Spec => []IInv
    <1>1. IInv /\ [Next]_vars => IInv'
        BY FrameStep, RingStep, WalkStep DEF IInv
    <1> QED
        BY <1>1, Starts, PTL DEF Spec

LEMMA ContextsLie == TypeInv /\ FrameInv => ContextIntact
    <1> SUFFICES ASSUME TypeInv, FrameInv, NEW k \in 1 .. Len(acts), NEW f \in Field,
                        acts[k].kind = "exception"
                 PROVE  stack[At(acts[k], f)] = acts[k].expect[f]
        BY DEF ContextIntact
    <1>1. FrameOf(acts[k], stack) /\ Layout(acts[k].kind) = Context /\ Len(Context) = 23
        BY DEF FrameInv, Layout, Context
    <1>2. Place(Context, f) \in 1 .. 23 /\ Context[Place(Context, f)] = f
        BY Places
    <1> QED
        BY <1>1, <1>2 DEF FrameOf, At

\* At the end of a ring, what was called is the chain.
LEMMA WalksEnd == TypeInv /\ RingInv /\ WalkInv => WalkMeetsHooks
    <1> SUFFICES ASSUME TypeInv, RingInv, WalkInv, pc = "return"
                 PROVE  \/ act.called = act.due
                        \/ push.list = act.list /\ act.called = Append(act.due, push.entry)
        BY DEF WalkMeetsHooks
    <1> DEFINE s == Chain(act.list)
    <1>1. acts # <<>> /\ ~act.failed /\ act.entry = act.list
        BY DEF TypeInv, WalkInv
    <1>2. Len(acts) \in 1 .. Len(acts) /\ act = acts[Len(acts)] /\ act \in Activation
        BY <1>1, Innermost DEF act
    <1>3. /\ act.list \in List /\ act.called \in Seq(Node \cup {Null})
          /\ Len(act.called) \in Nat
        BY <1>2 DEF Activation
    <1>4. s \in Seq(Link) /\ Link \subseteq Node
        BY <1>3, ChainType, Nodes
    <1>5. Walk(act, s, FALSE) /\ act.due = registered[act.list]
        <2>1. Walk(act, s, Len(acts) < Len(acts) \/ pc = "hook")
            BY <1>2 DEF WalkInv
        <2>2. ~(Len(acts) < Len(acts)) /\ pc # "hook"
            BY <1>2
        <2>3. Walk(act, s, FALSE)
            BY <2>1, <2>2 DEF Walk
        <2> QED
            BY <2>3, <1>2 DEF WalkInv
    <1> HIDE DEF s
    <1>6. /\ Len(act.called) <= Len(s)
          /\ \A i \in 1 .. Len(act.called) : act.called[i] = s[i]
          /\ act.entry = IF Len(act.called) = Len(s) THEN act.list ELSE s[Len(act.called) + 1]
        BY <1>1, <1>5 DEF Walk
    <1>7. Len(act.called) = Len(s)
        <2>1. SUFFICES ASSUME Len(act.called) # Len(s) PROVE FALSE
            OBVIOUS
        <2>2. Len(act.called) + 1 \in 1 .. Len(s)
            BY <2>1, <1>3, <1>4, <1>6
        <2>3. s[Len(act.called) + 1] \in Link
            BY <2>2, <1>4
        <2> QED
            BY <2>1, <2>3, <1>1, <1>3, <1>6, Nodes
    <1>8. act.called = s
        <2>1. s \in Seq(Node \cup {Null})
            BY <1>4
        <2> QED
            BY <2>1, <1>3, <1>6, <1>7, SameSeq
    <1> QED
        BY <1>5, <1>8 DEF s, Chain

LEMMA ReturnsResume ==
    ASSUME StubsRight, IInv, [Next]_vars
    PROVE  (pc = "return" => Resumed) \/ UNCHANGED vars
    <1> SUFFICES ASSUME pc = "return", Next PROVE Resumed
        OBVIOUS
    <1>1. Return \/ ReturnInterrupt
        BY DEF Next, PushLink, PushAppend, PushClose, Raise, Interrupt, CallHook,
               ReturnHook, Finish
    <1> QED
        BY <1>1, Returned, ReturnedInterrupt DEF IInv

\* Whatever exceptions and interrupts come, and however deep within one another,
\* the words of a context stay where common_exception_handler() and the stub
\* look for them: every field of every exception in progress holds what it is
\* named for.
THEOREM Contexts ==
    ASSUME StubsRight
    PROVE  Spec => []ContextIntact
    <1>1. IInv => ContextIntact
        BY ContextsLie DEF IInv
    <1> QED
        BY <1>1, Invariance, PTL

\* A handler that an exception or interrupt entered between any two stores of
\* list_push() and that walks its list to the end calls every hook that was
\* registered, once and in the order of registration, and besides at most the
\* hook whose registration it interrupted.
THEOREM HooksMet ==
    ASSUME StubsRight
    PROVE  Spec => []WalkMeetsHooks
    <1>1. IInv => WalkMeetsHooks
        BY WalksEnd DEF IInv
    <1> QED
        BY <1>1, Invariance, PTL

\* The stub's pops and iretq, and those of a compiled interrupt handler, give
\* the registers and the stack pointer of the context back to the program.
THEOREM Resumption ==
    ASSUME StubsRight
    PROVE  Spec => ResumesInterrupted
    <1>1. ASSUME IInv, [Next]_vars
          PROVE  [pc = "return" =>
                    /\ \A r \in Register : regs'[r] = act.expect[r]
                    /\ Rsp(Len(stack')) = act.expect["rsp"]]_vars
        BY <1>1, ReturnsResume DEF Resumed
    <1> QED
        BY <1>1, Invariance, PTL DEF Spec, ResumesInterrupted
=============================================================================
