---------------------------- MODULE PreemptedPut ----------------------------
(***************************************************************************)
(* gCmdQueue of Bootloader/App/Debug.cpp with all the contexts that put    *)
(* into it: the USB interrupt, the SVC call that restarts the firmware     *)
(* and, once an erase is done, the erase loop in thread mode; DebugHandler *)
(* takes.  A put of a lower level is preempted by a put of a higher one in *)
(* the middle, and resumes with the 'next' it computed before.  Contexts   *)
(* of one level do not preempt each other: SVC and DebugMon have one.      *)
(***************************************************************************)
EXTENDS CircularBuffer

(* Interrupt levels nest, and a producer that interrupts DebugHandler, the *)
(* USB interrupt at 0x10, is itself interrupted by none (SystemInit.cpp    *)
(* 42-49, Usb.cpp 253-254).                                                *)
ASSUME LevelAssumption ==
    \A p, q \in Producers :
        <<p, q>> \in Preempts => <<q, p>> \notin Preempts /\ <<q, Consumer>> \notin Preempts

VARIABLE overtaken  \* the producers inside put since whose start another put ended

OvertakenInit == Init /\ overtaken = {}

(* Others that are inside put when producer p publishes are overtaken;     *)
(* a producer leaves the set when it is back at rest.                      *)
Overtake(p) == {q \in Producers \ {p} : putPc[q] # "idle"}

PutStep(p) ==
    \/ \E v \in Data : PutBegin(p, v) /\ UNCHANGED overtaken
    \/ /\ PutCheck(p)
       /\ overtaken' = IF putPc'[p] = "idle" THEN overtaken \ {p} ELSE overtaken
    \/ (PutAim(p) \/ PutStore(p)) /\ UNCHANGED overtaken
    \/ PutPublish(p) /\ overtaken' = (overtaken \ {p}) \cup Overtake(p)

TakeStep ==
    \/ \E operation \in {"get", "pull"} : TakeBegin(operation)
    \/ TakeRead
    \/ TakeAdvance

OvertakenNext == (\E p \in Producers : PutStep(p)) \/ (TakeStep /\ UNCHANGED overtaken)

OvertakenSpec == OvertakenInit /\ [][OvertakenNext]_<<vars, overtaken>>

(* Queued commands are lost, doubled or invented at two places only, both  *)
(* in a put that was overtaken by another one: the store to a slot that is *)
(* no longer the free one (CircularBuffer.h:16), and the assignment        *)
(* _last = next (CircularBuffer.h:17).  Every other step of every context, *)
(* the rest of the overtaken put included, is a step of the first-in       *)
(* first-out queue.                                                        *)
OnlyOvertakenPutCorrupts ==
    [][\/ \E p \in overtaken : PutStore(p) \/ PutPublish(p)
       \/ Fifo!Next
       \/ UNCHANGED Fifo!vars]_vars

(* What DebugHandler is reading inside get or pull is not overwritten under *)
(* its hands, although an overtaken put may be about to store to that slot. *)
ReadSlotKept == [][takePc # "idle" => buffer'[first] = buffer[first]]_vars
=============================================================================
