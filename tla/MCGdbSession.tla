---------------------------- MODULE MCGdbSession ----------------------------
(* The code's four sends, and two interrupts: one may come too late while  *)
(* another is under way.                                                   *)
EXTENDS GdbSession

MCMaxSends == 4
MCMaxInterrupts == 2
=============================================================================
