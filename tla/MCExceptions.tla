---------------------------- MODULE MCExceptions ----------------------------
(* Exceptions for TLC.  A CPU that halted does nothing more.               *)
EXTENDS Exceptions
=============================================================================
