------------------------------- MODULE UsbLink -------------------------------
(***************************************************************************)
(* The two USB connections between the server and the bootloader.          *)
(*                                                                         *)
(* Endpoint 1 carries commands and answers.  The server sends a command    *)
(* and reads one answer (sendAndReceive, TargetSTM32F1.cpp); the USB       *)
(* interrupt takes the command out of the receive buffer, which frees the  *)
(* buffer for the next one at once, executes it and puts the answer into   *)
(* the transmit buffer, if that is free (usbDataOutCallback, main.cpp).    *)
(* So three packets can be on their way.  Packets have numbers here: the   *)
(* answer of a command has its number, and No stands for no packet.        *)
(*                                                                         *)
(* Endpoint 2 carries what the firmware prints: SVC 3 cuts a message into  *)
(* chunks (sysCallWriteUsbSerial, Syscalls.cpp) and waits before each for  *)
(* allowUsbTransfer, which the USB interrupt sets when the server has read *)
(* the previous chunk, and DebugHandler when it starts the firmware.       *)
(*                                                                         *)
(* The USB interrupt preempts SVC and DebugHandler, which exclude each     *)
(* other.  A command may wait as long as it likes for the interrupt: the   *)
(* erase loop disables it.                                                 *)
(***************************************************************************)
EXTENDS Naturals, Sequences

CONSTANTS MaxSent,    \* commands a run sends
          MaxChunks,  \* chunks a run prints
          MaxMessage, \* chunks of one message
          MaxStarts   \* starts of the firmware

ASSUME BoundAssumption == /\ MaxSent \in Nat /\ MaxChunks \in Nat
                          /\ MaxMessage \in Nat \ {0} /\ MaxStarts \in Nat

No == 0

VARIABLES
    host,        \* the server: idle, or reading an answer
    sent,        \* the number of the last command sent
    first,       \* that of the first command of this server
    out,         \* the command in the receive buffer of endpoint 1
    frame,       \* usbCmdFrame: the command the interrupt is executing
    in,          \* the answer in the transmit buffer of endpoint 1
    got,         \* history: the answer the last command has brought
    lag,         \* history: answers in front of the last command's own
    configured,  \* the host has configured the device since the last reset
    usbInitialized,
    allowUsbTransfer,
    svc,         \* where sysCallWriteUsbSerial is
    left,        \* chunks its message has left
    chunk,       \* the number of the last chunk it has written
    serial,      \* the chunk in the transmit buffer of endpoint 2
    complete,    \* the interrupt for a chunk that has been read is pending
    starts,      \* starts of the firmware
    overlaps,    \* history: those that met a chunk not yet completed
    lost,        \* history: chunks dropped on a full transmit buffer
    mute         \* history: no start since a bus reset lost a chunk

linkVars == <<host, sent, first, out, frame, in, got, lag>>
serialVars == <<allowUsbTransfer, svc, left, chunk, serial, complete, starts,
                overlaps, lost, mute>>
vars == <<linkVars, configured, usbInitialized, serialVars>>

TypeOK ==
    /\ host \in {"idle", "reading"}
    /\ sent \in 0 .. MaxSent
    /\ first \in 1 .. MaxSent + 1
    /\ {out, frame, in, got} \subseteq 0 .. MaxSent
    /\ lag \in 0 .. 2
    /\ configured \in BOOLEAN /\ usbInitialized \in BOOLEAN
    /\ allowUsbTransfer \in BOOLEAN
    /\ svc \in {"out", "wait", "clear", "write"}
    /\ left \in 0 .. MaxMessage
    /\ chunk \in 0 .. MaxChunks /\ serial \in 0 .. MaxChunks
    /\ complete \in BOOLEAN
    /\ starts \in 0 .. MaxStarts /\ overlaps \in 0 .. MaxStarts
    /\ lost \in 0 .. MaxChunks
    /\ mute \in BOOLEAN

Init ==
    /\ host = "idle" /\ sent = 0 /\ first = 1
    /\ out = No /\ frame = No /\ in = No /\ got = No /\ lag = 0
    /\ configured = TRUE
    /\ usbInitialized = FALSE /\ allowUsbTransfer = FALSE
    /\ svc = "out" /\ left = 0 /\ chunk = 0 /\ serial = No /\ complete = FALSE
    /\ starts = 0 /\ overlaps = 0 /\ lost = 0 /\ mute = TRUE

Full(buffer) == IF buffer = No THEN 0 ELSE 1

(* Packets on their way that no read is waiting for. *)
Behind == Full(out) + Full(frame) + Full(in) - (IF host = "reading" THEN 1 ELSE 0)

---------------------------------------------------------------------------
(* Endpoint 1. *)

(* Fault variant of WritePipe: a command that has not been taken yet is    *)
(* overwritten.                                                            *)
WritePipeOver ==
    /\ host = "idle" /\ configured /\ sent < MaxSent
    /\ sent' = sent + 1
    /\ out' = sent + 1
    /\ lag' = Behind
    /\ got' = No
    /\ host' = "reading"
    /\ UNCHANGED <<first, frame, in, configured, usbInitialized, serialVars>>

(* sendAndReceive: WinUsb_WritePipe waits until the command is accepted. *)
WritePipe ==
    /\ host = "idle" /\ configured /\ out = No /\ sent < MaxSent
    /\ sent' = sent + 1
    /\ out' = sent + 1
    /\ lag' = Behind
    /\ got' = No
    /\ host' = "reading"
    /\ UNCHANGED <<first, frame, in, configured, usbInitialized, serialVars>>

(* The interrupt is entered and reads the packet; the receive buffer is    *)
(* valid again before the command is executed.                             *)
ReadPacket ==
    /\ out # No /\ frame = No
    /\ frame' = out
    /\ out' = No
    /\ usbInitialized' = TRUE
    /\ UNCHANGED <<host, sent, first, in, got, lag, configured, serialVars>>

(* Fault variants of WritePacket: the transmit buffer is not tested; a     *)
(* command goes unanswered.                                                *)
WritePacketOver ==
    /\ frame # No
    /\ in' = frame
    /\ frame' = No
    /\ UNCHANGED <<host, sent, first, out, got, lag, configured, usbInitialized,
                   serialVars>>

WriteNothing ==
    /\ frame # No
    /\ frame' = No
    /\ UNCHANGED <<host, sent, first, out, in, got, lag, configured,
                   usbInitialized, serialVars>>

(* The command has been executed.  usbd_ep_write_packet drops the answer   *)
(* while an older one has not been read, which nobody looks at.            *)
WritePacket ==
    /\ frame # No
    /\ in' = IF in = No THEN frame ELSE in
    /\ frame' = No
    /\ UNCHANGED <<host, sent, first, out, got, lag, configured, usbInitialized,
                   serialVars>>

(* sendAndReceive: WinUsb_ReadPipe waits for any answer, without a limit. *)
ReadPipe ==
    /\ host = "reading" /\ configured /\ in # No
    /\ got' = in
    /\ in' = No
    /\ host' = "idle"
    /\ UNCHANGED <<sent, first, out, frame, lag, configured, usbInitialized,
                   serialVars>>

(* The server's process ends and another is started: what is on its way is *)
(* left to it.                                                             *)
RestartServer ==
    /\ host' = "idle"
    /\ first' = sent + 1
    /\ got' = No /\ lag' = 0
    /\ UNCHANGED <<sent, out, frame, in, configured, usbInitialized, serialVars>>

(* The host resets the bus, after a sleep for example: the transmit        *)
(* buffers are disabled and a read in progress fails, while a command that *)
(* was received is still executed.  The chip keeps its power.              *)
BusReset ==
    /\ configured /\ frame = No
    /\ configured' = FALSE
    /\ in' = No
    /\ serial' = No
    /\ mute' = (mute \/ serial # No)
    /\ host' = "idle"
    /\ got' = IF host = "reading" THEN No ELSE got
    /\ UNCHANGED <<sent, first, out, frame, lag, usbInitialized, allowUsbTransfer,
                   svc, left, chunk, complete, starts, overlaps, lost>>

(* usbSetConfigCallback: all endpoints start afresh.  The interrupt serves *)
(* a pending endpoint 1 first, long before the host gets here.             *)
SetConfig ==
    /\ ~configured /\ out = No /\ frame = No
    /\ configured' = TRUE
    /\ in' = No
    /\ serial' = No
    /\ mute' = (mute \/ serial # No)
    /\ UNCHANGED <<host, sent, first, out, frame, got, lag, usbInitialized,
                   allowUsbTransfer, svc, left, chunk, complete, starts, overlaps,
                   lost>>

---------------------------------------------------------------------------
(* Endpoint 2.  SVC runs while the USB interrupt is not executing a command. *)

Svc(at) == svc = at /\ frame = No

(* sysCallWriteUsbSerial for a message of n chunks: without permission or  *)
(* before the first command it returns and the message is lost.            *)
SvcBegin(n) ==
    /\ Svc("out") /\ usbInitialized /\ allowUsbTransfer
    /\ chunk + n <= MaxChunks
    /\ svc' = "wait"
    /\ left' = n
    /\ UNCHANGED <<linkVars, configured, usbInitialized, allowUsbTransfer, chunk,
                   serial, complete, starts, overlaps, lost, mute>>

(* Fault variant of SvcAllowed: it goes on without permission. *)
SvcAnyway ==
    /\ Svc("wait")
    /\ svc' = "clear"
    /\ UNCHANGED <<linkVars, configured, usbInitialized, allowUsbTransfer, left,
                   chunk, serial, complete, starts, overlaps, lost, mute>>

SvcAllowed ==
    /\ Svc("wait") /\ allowUsbTransfer
    /\ svc' = "clear"
    /\ UNCHANGED <<linkVars, configured, usbInitialized, allowUsbTransfer, left,
                   chunk, serial, complete, starts, overlaps, lost, mute>>

(* The waiting loop ends after a million rounds; the rest is lost. *)
SvcGivesUp ==
    /\ Svc("wait") /\ ~allowUsbTransfer
    /\ svc' = "out"
    /\ left' = 0
    /\ UNCHANGED <<linkVars, configured, usbInitialized, allowUsbTransfer, chunk,
                   serial, complete, starts, overlaps, lost, mute>>

SvcClear ==
    /\ Svc("clear")
    /\ allowUsbTransfer' = FALSE
    /\ svc' = "write"
    /\ UNCHANGED <<linkVars, configured, usbInitialized, left, chunk, serial,
                   complete, starts, overlaps, lost, mute>>

SvcWrite ==
    /\ Svc("write")
    /\ chunk' = chunk + 1
    /\ serial' = IF serial = No THEN chunk + 1 ELSE serial
    /\ lost' = IF serial = No THEN lost ELSE lost + 1
    /\ left' = left - 1
    /\ svc' = IF left = 1 THEN "out" ELSE "wait"
    /\ UNCHANGED <<linkVars, configured, usbInitialized, allowUsbTransfer,
                   complete, starts, overlaps, mute>>

SvcStep == SvcAllowed \/ SvcGivesUp \/ SvcClear \/ SvcWrite

(* The server's serial thread reads a chunk. *)
ReadSerial ==
    /\ configured /\ serial # No
    /\ serial' = No
    /\ complete' = TRUE
    /\ UNCHANGED <<linkVars, configured, usbInitialized, allowUsbTransfer, svc,
                   left, chunk, starts, overlaps, lost, mute>>

(* Fault variant of UsbSerialDataIn: only a waiting writer is let on. *)
SerialDataInWhenAwaited ==
    /\ complete /\ frame = No
    /\ complete' = FALSE
    /\ allowUsbTransfer' = (allowUsbTransfer \/ svc = "wait")
    /\ UNCHANGED <<linkVars, configured, usbInitialized, svc, left, chunk, serial,
                   starts, overlaps, lost, mute>>

(* usbSerialDataInCallback *)
UsbSerialDataIn ==
    /\ complete /\ frame = No
    /\ complete' = FALSE
    /\ allowUsbTransfer' = TRUE
    /\ UNCHANGED <<linkVars, configured, usbInitialized, svc, left, chunk, serial,
                   starts, overlaps, lost, mute>>

(* DebugHandler starts the firmware, whatever is in the transmit buffer. *)
StartFirmware ==
    /\ Svc("out") /\ starts < MaxStarts
    /\ starts' = starts + 1
    /\ overlaps' = IF serial # No \/ complete THEN overlaps + 1 ELSE overlaps
    /\ allowUsbTransfer' = TRUE
    /\ mute' = FALSE
    /\ UNCHANGED <<linkVars, configured, usbInitialized, svc, left, chunk, serial,
                   complete, lost>>

UsbInterrupt == ReadPacket \/ WritePacket \/ UsbSerialDataIn

Next ==
    \/ WritePipe \/ ReadPipe \/ RestartServer
    \/ BusReset \/ SetConfig
    \/ UsbInterrupt
    \/ \E n \in 1 .. MaxMessage : SvcBegin(n)
    \/ SvcStep \/ ReadSerial \/ StartFirmware

Spec == Init /\ [][Next]_vars

(* The interrupt runs, and the host's controller polls for an answer that  *)
(* is awaited.  Nobody has to read the serial endpoint.                    *)
FairSpec ==
    /\ Spec
    /\ WF_vars(ReadPacket) /\ WF_vars(WritePacket) /\ WF_vars(UsbSerialDataIn)
    /\ WF_vars(ReadPipe)

---------------------------------------------------------------------------
(* The answer that sendAndReceive returns is the one of its own command    *)
(* exactly if nothing was on its way when the command was sent: a server   *)
(* that was started over an unread answer works with the answers of other  *)
(* commands, and of at most two (main.cpp 361-368).                        *)
AnswerIsOwnUnlessBehind ==
    /\ got # No => (got = sent <=> lag = 0)
    /\ got >= first => got + 2 >= sent

(* A server falls behind by nothing but the restart that left answers to   *)
(* it: dropping an answer never loses the step, it only regains it.        *)
BehindOnlyByRestart ==
    [][Behind' > Behind => first' # first \/ ~configured']_vars

(* The answers on their way, the oldest first, without regard to where     *)
(* they are.                                                               *)
Part(packet) == IF packet = No THEN <<>> ELSE <<packet>>
Unread == Part(in) \o Part(frame) \o Part(out)

Pipe == INSTANCE AnswerPipe WITH pipe <- Unread

(* For the server the buffers of the chip and the interrupt between them   *)
(* are a pipe of at most three answers, which keeps their order, never     *)
(* drops the oldest and is cut off by nothing but a bus reset.             *)
ImplementsPipe == Pipe!Spec

(* The server that waits for an answer, without a timeout, has one coming: *)
(* an answer is dropped only if another one is there to be read.           *)
HostIsAnswered == host = "reading" ~> host = "idle"

(* At most one chunk is lost on a full buffer for each time the firmware   *)
(* was restarted over a chunk that nobody had read (Debug.cpp 351).        *)
LostOnlyByRestart == lost <= overlaps

(* Once the firmware was started it can print again as soon as its last    *)
(* chunk has been read, unless a bus reset took the chunk away: then       *)
(* allowUsbTransfer stays false until the next start.                      *)
PrintingIsNotLockedOut ==
    ~mute /\ ~allowUsbTransfer => serial # No \/ complete \/ svc = "write"
=============================================================================
