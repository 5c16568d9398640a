--------------------------- MODULE MCHostTransfer ---------------------------
(* Packets of two units in a memory of four: one of RAM and three of flash  *)
(* right behind it.  Operations take one or two packets, both in flash,     *)
(* from RAM into it or half erased.  Of two registers one fits a packet;    *)
(* the run of RegistersInOrder has two of three, as 15 of 16 do.            *)
EXTENDS HostTransfer

MCRegions == {[begin |-> 0, end |-> 1], [begin |-> 1, end |-> 4]}
MCRam == {0}
MCValues == {"new"}
=============================================================================
