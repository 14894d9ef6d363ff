------------------------------- MODULE MCGdb --------------------------------
(* Gdb for TLC: a breakpoint, which is handled without a session, and an   *)
(* overflow trap, which opens one; commands as GDB sends them.             *)
EXTENDS Gdb

SomeCommands == {<<Registers>>, <<Thread, Continue, Minus, 49>>,   \* g, Hc-1
                 <<68>>, <<Step>>, <<Continue, 49>>}              \* D, s, c1

AnyCharacter == 0 .. 255
=============================================================================
