--------------------------- MODULE MCPreemptedPut ---------------------------
(* The interrupt levels of gCmdQueue: the erase loop in thread mode, SVC and *)
(* DebugHandler both at 0x20, the USB interrupt at 0x10.                     *)
EXTENDS PreemptedPut, TLC

CONSTANTS thread, svc, debugMonitor, usb, a, b

MCProducers == {thread, svc, usb}
MCData == {a, b}
MCSymmetry == Permutations(MCData)
MCUrgency == (thread :> 0) @@ (svc :> 1) @@ (debugMonitor :> 1) @@ (usb :> 2)
MCPreempts == {pair \in (DOMAIN MCUrgency) \X (DOMAIN MCUrgency) :
                 MCUrgency[pair[1]] > MCUrgency[pair[2]]}
=============================================================================
