--------------------------- MODULE MCDebugMonitor ---------------------------
(* One flash page of the bootloader and one or two of the user: the first   *)
(* holds the firmware's vector table.  A request for the bootloader's page  *)
(* is one that flashEraseLoop refuses.                                      *)
EXTENDS DebugMonitor

CONSTANTS bootPage, userPage, dataPage

MCPages == {bootPage, userPage}
MCUserPages == {userPage}
MCRequests == {{bootPage}, {userPage}}

MCMorePages == {bootPage, userPage, dataPage}
MCMoreUserPages == {userPage, dataPage}
MCMoreRequests == {{bootPage}, {dataPage}, {userPage, dataPage}}
=============================================================================
