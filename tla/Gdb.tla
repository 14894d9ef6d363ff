-------------------------------- MODULE Gdb ---------------------------------
(***************************************************************************)
(* The GDB stub of gdb/gdb.c: an exception hook that talks the remote      *)
(* serial protocol over drivers/serial.c to a client, on a line that may   *)
(* lose and damage characters.                                             *)
(*                                                                         *)
(* What goes to the stub is a sequence of character codes, which it reads  *)
(* one by one; what goes to the client is a sequence of acknowledgements   *)
(* and packets.  Log output shares the line (kprintf): of that text only   *)
(* the characters that mean something to the client are kept.              *)
(***************************************************************************)
EXTENDS Integers, Sequences, SequencesExt

CONSTANTS
    Vectors,        \* the exceptions that are raised
    Commands,       \* the packets that the client sends
    DataSize,       \* sizeof(data): 256 in the build
    Tries,          \* `retries`: 10 in the build
    Noise,          \* what a character may be damaged to
    MaxCommands,    \* bound: commands of the client
    MaxFaults       \* bound: characters or packets lost or damaged

ASSUME VectorsAssumption == Vectors \subseteq 0 .. 31
ASSUME CharacterAssumption ==
    Commands \subseteq Seq(1 .. 127) \ {<<>>} /\ Noise \subseteq 0 .. 255
ASSUME SizeAssumption == {DataSize, Tries} \subseteq Nat \ {0}
ASSUME BoundAssumption == {MaxCommands, MaxFaults} \subseteq Nat

\* The characters of the protocol, and the commands that the stub knows.
Hash == 35
Dollar == 36
Plus == 43
Minus == 45
Query == 63
Thread == 72
Continue == 99
Registers == 103
Step == 115

\* str_to_hex(): letters come out as 0 to 5.
Hex(c) ==
    CASE c \in 48 .. 57 -> c - 48
      [] c \in 65 .. 70 -> c - 65
      [] c \in 97 .. 102 -> c - 97
      [] OTHER -> -1

\* serial_read_hex(), digit by digit, as far as its uint8_t keeps it.
Shift(n, c) == IF Hex(c) = -1 THEN 255 ELSE ((n * 16) % 256) + Hex(c)

\* What digits denote in a base; in base 1 it is their sum.
Number(digits, base) ==
    LET n[k \in 0 .. Len(digits)] == IF k = 0 THEN 0 ELSE n[k - 1] * base + digits[k]
    IN  n[Len(digits)]

\* buf_read_hex(), up to the first character that is no digit.
ReadHex(s) ==
    LET end == CHOOSE k \in 0 .. Len(s) :
                  /\ \A i \in 1 .. k : Hex(s[i]) # -1
                  /\ k < Len(s) => Hex(s[k + 1]) = -1
    IN  Number([i \in 1 .. end |-> Hex(s[i])], 16)

\* The signal of an exception; 0 is none.
Signal(v) ==
    CASE v \in {0, 16} -> 8
      [] v \in {1, 3} -> 5
      [] v = 6 -> 4
      [] v = 8 -> 7
      [] v \in {12, 13, 14} -> 11
      [] OTHER -> 0

VARIABLES
    pc,             \* where the stub is
    toStub,         \* characters on their way to the stub
    toClient,       \* acknowledgements and packets on their way to the client
    buf,            \* data[0 .. off - 1]
    sum,            \* expected_checksum
    num,            \* the checksum read so far
    reply,          \* the packet that gdb_send_packet() is sending
    retries,        \* and how often it may send it again
    ctx,            \* of the context: rip and rflags.TF
    refused,        \* history: whether the stub ever asked for a packet again
    phase,          \* the client: "stop", "idle", "ack" or "reply"
    cmd,            \* the client's last command
    skips,          \* the client is inside a packet that log output began
    sent,           \* commands so far
    faults          \* faults so far

packet == <<buf, sum, num>>
sending == <<reply, retries>>
stub == <<packet, sending, ctx, refused>>
client == <<phase, cmd, skips, sent>>
vars == <<pc, toStub, toClient, stub, client, faults>>

Init ==
    /\ pc = "run"
    /\ toStub = <<>> /\ toClient = <<>>
    /\ buf = <<>> /\ sum = 0 /\ num = 0
    /\ reply = "" /\ retries = 0
    /\ ctx = [rip |-> 0, tf |-> FALSE]
    /\ refused = FALSE
    /\ phase = "stop" /\ cmd = <<>> /\ skips = FALSE /\ sent = 0
    /\ faults = 0

-----------------------------------------------------------------------------
(* gdb_send_packet()                                                       *)

\* The first transmission; serial_putc() waits for the device alone.
Transmit(answer) ==
    /\ reply' = answer
    /\ retries' = Tries - 1
    /\ toClient' = Append(toClient, <<"packet", answer>>)
    /\ pc' = "await"

\* serial_getc()
Get(c) ==
    /\ toStub # <<>>
    /\ c = Head(toStub)
    /\ toStub' = Tail(toStub)

Acknowledged ==
    /\ pc = "await" /\ Get(Plus)
    /\ pc' = "start"
    /\ UNCHANGED <<toClient, stub, client, faults>>

\* Mutant of SendAgain: only waits for the acknowledgement.
Deaf_SendAgain(c) ==
    /\ pc = "await" /\ c # Plus /\ Get(c)
    /\ retries > 0
    /\ retries' = retries - 1
    /\ UNCHANGED <<pc, toClient, packet, reply, ctx, refused, client, faults>>

SendAgain(c) ==
    /\ pc = "await" /\ c # Plus /\ Get(c)
    /\ retries > 0
    /\ retries' = retries - 1
    /\ toClient' = Append(toClient, <<"packet", reply>>)
    /\ UNCHANGED <<pc, packet, reply, ctx, refused, client, faults>>

GiveUp(c) ==
    /\ pc = "await" /\ c # Plus /\ Get(c)
    /\ retries = 0
    /\ pc' = "start"
    /\ UNCHANGED <<toClient, stub, client, faults>>

-----------------------------------------------------------------------------
(* gdb_receive_packet()                                                    *)

Skip(c) ==
    /\ pc = "start" /\ c # Dollar /\ Get(c)
    /\ UNCHANGED <<pc, toClient, stub, client, faults>>

Begin ==
    /\ pc = "start" /\ Get(Dollar)
    /\ pc' = "data"
    /\ buf' = <<>> /\ sum' = 0
    /\ UNCHANGED <<toClient, num, sending, ctx, refused, client, faults>>

\* Mutant of Data: the check admits one character more.
Long_Data(c) ==
    /\ pc = "data" /\ Len(buf) <= DataSize
    /\ c # Hash /\ Get(c)
    /\ buf' = Append(buf, c)
    /\ sum' = (sum + c) % 256
    /\ UNCHANGED <<pc, toClient, num, sending, ctx, refused, client, faults>>

Data(c) ==
    /\ pc = "data" /\ Len(buf) < DataSize
    /\ c # Hash /\ Get(c)
    /\ buf' = Append(buf, c)
    /\ sum' = (sum + c) % 256
    /\ UNCHANGED <<pc, toClient, num, sending, ctx, refused, client, faults>>

EndData ==
    /\ pc = "data" /\ Len(buf) < DataSize
    /\ Get(Hash)
    /\ pc' = "sum1" /\ num' = 0
    /\ UNCHANGED <<toClient, buf, sum, sending, ctx, refused, client, faults>>

\* CHECK_ERROR() prints "[-] Check failed with error %R ...": num_fmt() is to
\* print ERROR_BUFFER_TOO_SMALL with base 0, and the divide error that it
\* raises comes back handled from gdb_exception_handler(), again and again.
Overflow ==
    /\ pc = "data" /\ Len(buf) >= DataSize
    /\ toClient' = Append(toClient, <<"-">>)
    /\ pc' = "divide"
    /\ UNCHANGED <<toStub, stub, client, faults>>

\* What WARN() says of a character that is no digit quotes it.
Quoted(c) ==
    CASE Hex(c) # -1 -> <<>>
      [] c = Plus -> <<<<"+">>>>
      [] c = Minus -> <<<<"-">>>>
      [] c = Dollar -> <<<<"$">>>>
      [] OTHER -> <<>>

FirstDigit(c) ==
    /\ pc = "sum1" /\ Get(c)
    /\ num' = Shift(num, c)
    /\ toClient' = toClient \o Quoted(c)
    /\ pc' = "sum2"
    /\ UNCHANGED <<buf, sum, sending, ctx, refused, client, faults>>

\* Mutant of Accept: the checksum is not compared.
Any_Accept(c) ==
    /\ pc = "sum2" /\ Get(c)
    /\ toClient' = toClient \o Quoted(c) \o <<<<"+">>>>
    /\ pc' = "execute"
    /\ UNCHANGED <<stub, client, faults>>

Accept(c) ==
    /\ pc = "sum2" /\ Get(c)
    /\ Shift(num, c) = sum
    /\ toClient' = toClient \o Quoted(c) \o <<<<"+">>>>
    /\ pc' = "execute"
    /\ UNCHANGED <<stub, client, faults>>

\* "tell the client to resend it", and read data without waiting for a '$'.
Refuse(c) ==
    /\ pc = "sum2" /\ Get(c)
    /\ Shift(num, c) # sum
    /\ toClient' = toClient \o Quoted(c) \o <<<<"-">>>>
    /\ pc' = "data"
    /\ buf' = <<>> /\ sum' = 0
    /\ refused' = TRUE
    /\ UNCHANGED <<num, sending, ctx, client, faults>>

-----------------------------------------------------------------------------
(* gdb_exception_handler()                                                 *)

\* An exception that has a signal is marked as handled: the program goes on
\* at the same instruction.  Another one opens a session.
Trap(v) ==
    /\ pc = "run"
    /\ ctx' = [ctx EXCEPT !.tf = FALSE]
    /\ IF Signal(v) # 0
       THEN UNCHANGED <<pc, toClient, sending>>
       ELSE Transmit("signal")
    /\ UNCHANGED <<toStub, packet, refused, client, faults>>

\* The first character, which is the terminator of an empty packet.
Command == IF buf = <<>> THEN 0 ELSE buf[1]

Jump(tf) == [rip |-> IF Len(buf) > 1 THEN ReadHex(Tail(buf)) ELSE ctx.rip, tf |-> tf]

\* The session ends without *handled: kernel_exception_handler() halts.
DoContinue ==
    /\ pc = "execute" /\ Command = Continue
    /\ ctx' = Jump(ctx.tf)
    /\ pc' = "halted"
    /\ UNCHANGED <<toStub, toClient, packet, sending, refused, client, faults>>

\* The commands without a reply.
DoStep ==
    /\ pc = "execute" /\ Command \in {Query, Step}
    /\ ctx' = IF Command = Step THEN Jump(TRUE) ELSE ctx
    /\ pc' = "start"
    /\ UNCHANGED <<toStub, toClient, packet, sending, refused, client, faults>>

Answer(command) ==
    CASE command = Registers -> "registers"
      [] command = Thread -> "OK"
      [] OTHER -> ""

DoAnswer ==
    /\ pc = "execute" /\ Command \notin {Continue, Query, Step}
    /\ Transmit(Answer(Command))
    /\ UNCHANGED <<toStub, packet, ctx, refused, client, faults>>

Receive(c) ==
    \/ SendAgain(c) \/ GiveUp(c) \/ Skip(c) \/ Data(c)
    \/ FirstDigit(c) \/ Accept(c) \/ Refuse(c)

Stub ==
    \/ Acknowledged \/ Begin \/ EndData \/ Overflow
    \/ toStub # <<>> /\ Receive(Head(toStub))
    \/ DoContinue \/ DoStep \/ DoAnswer

-----------------------------------------------------------------------------
(* The client, which does one thing at a time and repeats what the line    *)
(* swallowed once the line is quiet.                                       *)

Digit(n) == IF n < 10 THEN 48 + n ELSE 87 + n
Packet(data) ==
    LET total == Number(data, 1) % 256
    IN  <<Dollar>> \o data \o <<Hash, Digit(total \div 16), Digit(total % 16)>>

Send(chars) == toStub' = toStub \o chars

ClientCommand(data) ==
    /\ phase = "idle" /\ sent < MaxCommands
    /\ cmd' = data /\ phase' = "ack" /\ sent' = sent + 1
    /\ Send(Packet(data))
    /\ UNCHANGED <<pc, toClient, stub, skips, faults>>

\* What it waits for once the command was acknowledged.
Wait == IF cmd[1] \in {Continue, Step, Query} THEN "stop" ELSE "reply"

ReadAck ==
    /\ toClient # <<>> /\ Head(toClient) \in {<<"+">>, <<"-">>}
    /\ IF phase # "ack" \/ skips
       THEN UNCHANGED <<phase, toStub>>
       ELSE IF Head(toClient) = <<"+">>
            THEN phase' = Wait /\ UNCHANGED toStub
            ELSE Send(Packet(cmd)) /\ UNCHANGED phase
    /\ toClient' = Tail(toClient)
    /\ UNCHANGED <<pc, stub, cmd, skips, sent, faults>>

ReadText ==
    /\ toClient # <<>> /\ Head(toClient) = <<"$">>
    /\ skips' = (phase # "idle")
    /\ toClient' = Tail(toClient)
    /\ UNCHANGED <<pc, toStub, stub, phase, cmd, sent, faults>>

\* A packet that is not waited for is acknowledged and dropped.
ReadPacket ==
    /\ toClient # <<>> /\ Head(toClient)[1] = "packet"
    /\ IF phase \in {"stop", "reply"}
       THEN LET good == Head(toClient)[2] # "damaged" /\ ~skips
            IN  /\ phase' = IF good THEN "idle" ELSE phase
                /\ Send(IF good THEN <<Plus>> ELSE <<Minus>>)
       ELSE Send(<<Plus>>) /\ UNCHANGED phase
    /\ skips' = FALSE
    /\ toClient' = Tail(toClient)
    /\ UNCHANGED <<pc, stub, cmd, sent, faults>>

\* Nothing under way, and a stub that waits for the client.
Quiet ==
    /\ toStub = <<>> /\ toClient = <<>>
    /\ pc \in {"await", "start", "data", "sum1", "sum2"}
    /\ pc = "data" => Len(buf) < DataSize

Timeout ==
    /\ Quiet /\ phase \in {"ack", "reply"}
    /\ Send(IF phase = "ack" THEN Packet(cmd) ELSE <<Minus>>)
    /\ skips' = FALSE
    /\ UNCHANGED <<pc, toClient, stub, phase, cmd, sent, faults>>

Client == ReadAck \/ ReadText \/ ReadPacket \/ Timeout

\* The line loses or damages a character, an acknowledgement or a packet.
Fault ==
    /\ faults < MaxFaults
    /\ faults' = faults + 1
    /\ \/ /\ \E i \in 1 .. Len(toStub) :
                \/ toStub' = RemoveAt(toStub, i)
                \/ \E c \in Noise : toStub' = ReplaceAt(toStub, i, c)
          /\ UNCHANGED toClient
       \/ /\ \E i \in 1 .. Len(toClient) :
                \/ toClient' = RemoveAt(toClient, i)
                \/ /\ toClient[i][1] = "packet"
                   /\ toClient' = ReplaceAt(toClient, i, <<"packet", "damaged">>)
          /\ UNCHANGED toStub
    /\ UNCHANGED <<pc, stub, client>>

Next ==
    \/ \E v \in Vectors : Trap(v)
    \/ Stub \/ Client \/ Fault
    \/ \E data \in Commands : ClientCommand(data)

Spec == Init /\ [][Next]_vars

\* The stub and the client keep going.
FairSpec == Spec /\ WF_vars(Stub) /\ WF_vars(Client)

-----------------------------------------------------------------------------
(* Properties                                                              *)

\* Types of the variables; data[] has room for its terminator.
TypeOK ==
    /\ pc \in {"run", "await", "start", "data", "sum1", "sum2", "execute",
               "divide", "halted"}
    /\ \A i \in 1 .. Len(toStub) : toStub[i] \in 0 .. 255
    /\ Len(buf) <= DataSize
    /\ pc \in {"sum1", "sum2", "execute"} => Len(buf) < DataSize
    /\ sum \in 0 .. 255 /\ num \in 0 .. 255
    /\ retries \in 0 .. Tries - 1
    /\ ctx \in [rip : Nat, tf : BOOLEAN]
    /\ phase \in {"stop", "idle", "ack", "reply"}
    /\ refused \in BOOLEAN /\ skips \in BOOLEAN
    /\ sent \in 0 .. MaxCommands /\ faults \in 0 .. MaxFaults

\* What the stub executes begins with what the client asked for last,
\* whichever character the line lost or damaged and however often the packet
\* was repeated.  More may follow: a '#' that was damaged joins two copies,
\* whose common checksum may happen to fit.
CommandIntact == pc = "execute" => IsPrefix(cmd, buf)

\* A reply that the client takes is the reply to its last command and not
\* one of an earlier command that was sent again.
ReplyMatches ==
    [][phase = "reply" /\ phase' = "idle" =>
          Head(toClient)[2] = Answer(cmd[1])]_vars

\* A command is answered or taken, as long as the stub asked for no packet
\* again: lost, damaged and repeated replies and acknowledgements, and the
\* characters that gdb_send_packet() swallows, do not stop the session.
AnsweredUnlessRefused ==
    phase \in {"ack", "reply"} ~>
        \/ phase \in {"idle", "stop"}
        \/ refused \/ pc \in {"divide", "halted"}

\* "got invalid data for the checksum, tell the client to resend it"
\* (gdb.c:133-134): a packet that is sent again is taken in the end.
ResentTaken ==
    phase = "ack" ~> phase # "ack" \/ pc \in {"divide", "halted"}
=============================================================================
