----------------------------- MODULE GdbSession -----------------------------
(***************************************************************************)
(* One gdb after another debugs the target through the server: the TCP     *)
(* connection (Gdb/gdb_if.c), packets and their acknowledgement            *)
(* (gdb_packet.c), the command loop with its wait for a halt (gdb_main.c), *)
(* and attach and detach (target.c).                                       *)
(*                                                                         *)
(* A connection carries packets and single characters; TCP loses nothing   *)
(* and keeps the order, so a packet is one element of a stream.  The       *)
(* device is what DebugMonitor promises: a halt request is served some     *)
(* time later, everything else before the next command, for between two    *)
(* commands lie milliseconds of USB.  A transaction with it may fail, with *)
(* its command executed or not.                                            *)
(***************************************************************************)
EXTENDS Naturals, Sequences, SequencesExt

CONSTANTS MaxSends,      \* times a packet is sent at most, 4 in the code
          MaxInterrupts  \* interrupts gdb has under way at most

ASSUME SendAssumption == MaxSends \in Nat \ {0} /\ MaxInterrupts \in Nat

VARIABLES
    pc,           \* the server: in gdb_getpacket, at target_halt_poll, at
                  \* gdb_if_getchar_to(0), or waiting for an acknowledgement
    sends,        \* times the packet has been sent
    reply,        \* the packet
    cur_target,   \* cur_target and last_target are the target, not NULL
    last_target,
    tc,           \* the target's tc is set
    single_step,
    conn,         \* gdb_if_conn is a connection
    inbox,        \* what is on its way to the server
    outbox,       \* what is on its way to gdb
    dev,          \* what the device does
    failed,       \* history: a transaction has failed since the last stop
    at,           \* gdb: absent, queued, ready, waiting for ack or reply
    cmd,          \* its last command, with a bit that tells it from the one before
    process       \* gdb believes it has a process, and that it is stopped

serverVars == <<pc, sends, reply, single_step>>
targetVars == <<cur_target, last_target, tc>>
wireVars == <<conn, inbox, outbox>>
deviceVars == <<dev, failed>>
gdbVars == <<at, cmd, process>>
vars == <<serverVars, targetVars, wireVars, deviceVars, gdbVars>>

(* access stands for all that is answered at once (g, m, p, Z, ...), xfer  *)
(* for qXfer:features, attachOther for vAttach with a number that is none. *)
Commands == {"xfer", "?", "access", "c", "s", "D", "k", "R", "vRun",
             "attach", "attachOther"}
Unanswered == {"k", "R"}
Runs == {"c", "s"}
Answers == {"data", "OK", "E01", "EFF", "W00", "X1D", "T05"}

Packet == [name : Commands, bit : BOOLEAN]
Reply == [to : Packet, says : Answers]

(* Single characters: the acknowledgement, ^C, ^C whose run has stopped     *)
(* before the server read it, and the end of the connection.               *)
Interrupts == {"interrupt", "late"}
Char(c) == [name |-> c, bit |-> FALSE]

NoPacket == [name |-> "access", bit |-> FALSE]
NoReply == [to |-> NoPacket, says |-> "OK"]
Ack == [to |-> NoPacket, says |-> "+"]

TypeOK ==
    /\ pc \in {"packet", "poll", "char", "ack"}
    /\ sends \in 0 .. MaxSends
    /\ reply \in Reply
    /\ cur_target \in BOOLEAN /\ last_target \in BOOLEAN /\ tc \in BOOLEAN
    /\ single_step \in BOOLEAN /\ conn \in BOOLEAN
    /\ inbox \in Seq(Packet \cup {Char(c) : c \in Interrupts \cup {"+", "eof"}})
    /\ outbox \in Seq(Reply \cup {Ack})
    /\ ~conn => inbox = <<>> /\ outbox = <<>>
    /\ dev \in {"running", "stepping", "halting", "halted"}
    /\ failed \in BOOLEAN
    /\ at \in {"absent", "queued", "ready", "ack", "reply"}
    /\ cmd \in Packet
    /\ process \in {"none", "stopped", "running"}

(* gdbInit: the target is current but not attached, and was told to halt. *)
Init ==
    /\ pc = "packet" /\ sends = 0 /\ reply = NoReply /\ single_step = FALSE
    /\ cur_target = TRUE /\ last_target = FALSE /\ tc = FALSE
    /\ conn = FALSE /\ inbox = <<>> /\ outbox = <<>>
    /\ dev \in {"running", "halting"} /\ failed = (dev = "running")
    /\ at = "absent" /\ cmd = NoPacket /\ process = "none"

---------------------------------------------------------------------------
(* The device. *)

After(command) ==
    CASE command = "Halt"   -> IF dev = "halted" THEN "halted" ELSE "halting"
      [] command = "Resume" -> "running"
      [] command = "Step"   -> "stepping"
      [] command = "Detach" -> "running"

(* A transaction: sendAndReceive with the bootloader's handler. *)
Transact(command) ==
    \/ dev' = After(command) /\ UNCHANGED failed
    \/ dev' \in {dev, After(command)} /\ failed' = TRUE

DeviceStops ==
    /\ dev \in {"stepping", "halting"}
    /\ dev' = "halted"
    /\ UNCHANGED <<serverVars, targetVars, wireVars, failed, gdbVars>>

HitBreakpoint ==
    /\ dev = "running"
    /\ dev' = "halted"
    /\ UNCHANGED <<serverVars, targetVars, wireVars, failed, gdbVars>>

---------------------------------------------------------------------------
(* The packet layer. *)

(* gdb_if_putchar: what is sent to nobody, or to a gdb that has closed, is *)
(* dropped.                                                                *)
Listening == conn /\ ~Contains(inbox, Char("eof"))
Out(packets) == IF Listening THEN outbox \o packets ELSE <<>>

(* gdb_putpacket sends the packet and waits for the acknowledgement; the   *)
(* command before it was acknowledged by gdb_getpacket.                    *)
PutFirst(packet, before) ==
    /\ reply' = packet
    /\ sends' = 1
    /\ outbox' = Out(Append(before, packet))
    /\ pc' = "ack"

(* Fault variants of PutAgain: it is sent without an end; together with    *)
(* the acknowledgement.                                                    *)
PutForEver ==
    /\ pc' = "ack" /\ UNCHANGED sends
    /\ outbox' = Out(<<reply>>)

PutAgainAcked ==
    IF sends < MaxSends
    THEN sends' = sends + 1 /\ outbox' = Out(<<Ack, reply>>) /\ pc' = "ack"
    ELSE pc' = "packet" /\ UNCHANGED <<sends, outbox>>

(* Any other character, or none within the two seconds: send it again. *)
PutAgain ==
    IF sends < MaxSends
    THEN /\ sends' = sends + 1
         /\ outbox' = Out(<<reply>>)
         /\ pc' = "ack"
    ELSE /\ pc' = "packet"
         /\ UNCHANGED <<sends, outbox>>

(* gdb_if_getchar meets the end of the connection: it reports '+'. *)
Drop == conn' = FALSE /\ inbox' = <<>> /\ outbox' = <<>>

(* Fault variant of ReadAck: an acknowledgement is awaited for each time    *)
(* the packet was sent.                                                    *)
ReadAckForEach ==
    /\ pc = "ack" /\ inbox # <<>>
    /\ CASE Head(inbox).name = "eof" -> Drop /\ pc' = "packet" /\ UNCHANGED sends
         [] Head(inbox).name = "+"   -> /\ inbox' = Tail(inbox)
                                        /\ sends' = sends - 1
                                        /\ pc' = IF sends = 1 THEN "packet" ELSE "ack"
                                        /\ UNCHANGED <<conn, outbox>>
         [] OTHER                    -> inbox' = Tail(inbox) /\ PutAgain /\ UNCHANGED conn
    /\ UNCHANGED <<reply, single_step, targetVars, deviceVars, gdbVars>>

(* gdb_if_getchar_to(2000): the first '+' ends the wait, whichever of the  *)
(* packets sent it is for.                                                 *)
ReadAck ==
    /\ pc = "ack" /\ inbox # <<>>
    /\ CASE Head(inbox).name = "eof" -> Drop /\ pc' = "packet" /\ UNCHANGED sends
         [] Head(inbox).name = "+"   -> /\ inbox' = Tail(inbox) /\ pc' = "packet"
                                        /\ UNCHANGED <<conn, outbox, sends>>
         [] OTHER                    -> inbox' = Tail(inbox) /\ PutAgain /\ UNCHANGED conn
    /\ UNCHANGED <<reply, single_step, targetVars, deviceVars, gdbVars>>

AckTimesOut ==
    /\ pc = "ack" /\ inbox = <<>>
    /\ PutAgain
    /\ UNCHANGED <<reply, single_step, targetVars, conn, inbox, deviceVars, gdbVars>>

(* Fault variant of SkipChar: an interrupt is kept for later. *)
SkipCharKept ==
    /\ pc = "packet" /\ inbox # <<>> /\ Head(inbox).name \notin Commands
    /\ IF Head(inbox).name = "eof" THEN Drop
       ELSE /\ inbox' = IF Head(inbox).name \in Interrupts
                        THEN Append(Tail(inbox), Head(inbox)) ELSE Tail(inbox)
            /\ UNCHANGED <<conn, outbox>>
    /\ UNCHANGED <<serverVars, targetVars, deviceVars, gdbVars>>

(* gdb_getpacket passes over whatever is not the start of a packet. *)
SkipChar ==
    /\ pc = "packet" /\ inbox # <<>> /\ Head(inbox).name \notin Commands
    /\ IF Head(inbox).name = "eof" THEN Drop
       ELSE inbox' = Tail(inbox) /\ UNCHANGED <<conn, outbox>>
    /\ UNCHANGED <<serverVars, targetVars, deviceVars, gdbVars>>

(* A new gdb has connected already and sent its first packet. *)
Accept ==
    /\ pc = "packet" /\ ~conn /\ at = "queued"
    /\ conn' = TRUE
    /\ cmd' = [name |-> "xfer", bit |-> ~cmd.bit]
    /\ inbox' = <<cmd'>>
    /\ at' = "ack"
    /\ UNCHANGED <<serverVars, targetVars, outbox, deviceVars, process>>

---------------------------------------------------------------------------
(* The command loop. *)

Serving(names) == /\ pc = "packet" /\ inbox # <<>>
                  /\ Head(inbox).name \in names
                  /\ inbox' = Tail(inbox)
                  /\ UNCHANGED <<conn, gdbVars>>

(* gdb_putpacketz, after the acknowledgement of the command. *)
Respond(says) == PutFirst([to |-> Head(inbox), says |-> says], <<Ack>>)

(* The command is only acknowledged. *)
NoResponse == /\ outbox' = Out(<<Ack>>)
              /\ UNCHANGED <<pc, sends, reply>>

(* It is answered when the target halts. *)
WaitForHalt == /\ outbox' = Out(<<Ack>>)
               /\ pc' = "poll"
               /\ reply' = [to |-> Head(inbox), says |-> "T05"]
               /\ UNCHANGED sends

ServeAccess ==
    /\ Serving({"access"})
    /\ Respond(IF cur_target THEN "data" ELSE "EFF")
    /\ UNCHANGED <<single_step, targetVars, deviceVars>>

(* Fault variant of ServeRun: the step is not taken back after the run. *)
ServeRunKeepsStep ==
    /\ Serving(Runs)
    /\ LET step == single_step \/ Head(inbox).name = "s" IN
         /\ single_step' = step
         /\ IF cur_target
            THEN Transact(IF step THEN "Step" ELSE "Resume") /\ WaitForHalt
            ELSE Respond("X1D") /\ UNCHANGED deviceVars
    /\ UNCHANGED targetVars

(* c and s go on to wait for the halt.  Without a target the step is not   *)
(* taken back.                                                             *)
ServeRun ==
    /\ Serving(Runs)
    /\ LET step == single_step \/ Head(inbox).name = "s" IN
         IF cur_target
         THEN /\ Transact(IF step THEN "Step" ELSE "Resume")
              /\ single_step' = FALSE
              /\ WaitForHalt
         ELSE Respond("X1D") /\ single_step' = step /\ UNCHANGED deviceVars
    /\ UNCHANGED targetVars

ServeQuery ==
    /\ Serving({"?"})
    /\ IF cur_target THEN WaitForHalt ELSE Respond("W00")
    /\ UNCHANGED <<single_step, targetVars, deviceVars>>

(* The wait for the halt ends. *)
Stop == PutFirst(reply, <<>>)

PollHalted ==
    /\ pc = "poll" /\ dev = "halted"
    /\ failed' = FALSE
    /\ Stop
    /\ UNCHANGED <<single_step, targetVars, conn, inbox, dev, gdbVars>>

PollRunning ==
    /\ pc = "poll" /\ dev # "halted"
    /\ pc' = "char"
    /\ UNCHANGED <<sends, reply, single_step, targetVars, wireVars, deviceVars, gdbVars>>

(* resetHaltResume returns Undefined, which is none of the reasons and     *)
(* therefore reported like a breakpoint.                                   *)
PollFails ==
    /\ pc = "poll"
    /\ failed' = TRUE
    /\ Stop
    /\ UNCHANGED <<single_step, targetVars, conn, inbox, dev, gdbVars>>

(* Fault variant of PollChar: the interrupt is not looked for. *)
PollCharUnseen ==
    /\ pc = "char"
    /\ pc' = "poll"
    /\ IF inbox = <<>> THEN UNCHANGED wireVars
       ELSE IF Head(inbox).name = "eof" THEN Drop
       ELSE inbox' = Tail(inbox) /\ UNCHANGED <<conn, outbox>>
    /\ UNCHANGED <<sends, reply, single_step, targetVars, deviceVars, gdbVars>>

(* gdb_if_getchar_to(0) between two polls. *)
PollChar ==
    /\ pc = "char"
    /\ pc' = "poll"
    /\ IF inbox = <<>> THEN UNCHANGED <<wireVars, deviceVars>>
       ELSE /\ IF Head(inbox).name = "eof" THEN Drop
               ELSE inbox' = Tail(inbox) /\ UNCHANGED <<conn, outbox>>
            /\ IF Head(inbox).name \in Interrupts THEN Transact("Halt")
               ELSE UNCHANGED deviceVars
    /\ UNCHANGED <<sends, reply, single_step, targetVars, gdbVars>>

(* target_detach, and what D and k do with the two pointers. *)
Detach == /\ IF cur_target THEN Transact("Detach") ELSE UNCHANGED deviceVars
          /\ last_target' = cur_target
          /\ cur_target' = FALSE
          /\ UNCHANGED tc

ServeDetach ==
    /\ Serving({"D"})
    /\ Detach
    /\ Respond("OK")
    /\ UNCHANGED single_step

(* target_reset asks for a halt, which the detach that follows takes back, *)
(* unless it fails.                                                        *)
ServeKill ==
    /\ Serving({"k"})
    /\ IF cur_target
       THEN \/ Detach
            \/ /\ dev' = After("Halt") /\ failed' = TRUE
               /\ last_target' = TRUE /\ cur_target' = FALSE /\ UNCHANGED tc
       ELSE UNCHANGED <<targetVars, deviceVars>>
    /\ NoResponse
    /\ UNCHANGED single_step

(* Fault variants of Attach: the controller forgets the target afterwards; *)
(* the device is not told.                                                 *)
AttachThenDestroy ==
    /\ cur_target' = ~tc
    /\ last_target' = (last_target /\ ~tc)
    /\ tc' = TRUE
    /\ Transact("Halt")

AttachUntold ==
    /\ cur_target' = TRUE
    /\ last_target' = (last_target /\ ~tc)
    /\ tc' = TRUE
    /\ UNCHANGED deviceVars

(* target_attach: the old controller's destroy_callback clears both        *)
(* pointers, then the caller makes the target current.  The answer of the  *)
(* device is not looked at.                                                *)
Attach ==
    /\ cur_target' = TRUE
    /\ last_target' = (last_target /\ ~tc)
    /\ tc' = TRUE
    /\ Transact("Halt")

CanAttach == ~cur_target /\ last_target

ServeXfer ==
    /\ Serving({"xfer"})
    /\ IF CanAttach THEN Attach ELSE UNCHANGED <<targetVars, deviceVars>>
    /\ Respond(IF cur_target' THEN "data" ELSE "E01")
    /\ UNCHANGED single_step

(* target_reset is a halt request, too; after an attach it changes nothing *)
(* more.                                                                   *)
Restart ==
    IF cur_target THEN Transact("Halt") /\ UNCHANGED targetVars
    ELSE IF last_target THEN Attach
    ELSE UNCHANGED <<targetVars, deviceVars>>

ServeRestart ==
    /\ Serving({"R"})
    /\ Restart
    /\ NoResponse
    /\ UNCHANGED single_step

ServeVRun ==
    /\ Serving({"vRun"})
    /\ Restart
    /\ Respond(IF cur_target' THEN "T05" ELSE "E01")
    /\ UNCHANGED single_step

ServeAttach ==
    /\ Serving({"attach"})
    /\ Attach
    /\ Respond("T05")
    /\ UNCHANGED single_step

ServeAttachOther ==
    /\ Serving({"attachOther"})
    /\ cur_target' = FALSE
    /\ Respond("E01")
    /\ UNCHANGED <<single_step, last_target, tc, deviceVars>>

Serve == \/ ServeAccess \/ ServeRun \/ ServeQuery \/ ServeDetach \/ ServeKill
         \/ ServeXfer \/ ServeRestart \/ ServeVRun \/ ServeAttach \/ ServeAttachOther

Poll == PollHalted \/ PollRunning \/ PollFails

Server == Accept \/ SkipChar \/ Serve \/ Poll \/ PollChar \/ ReadAck \/ AckTimesOut

---------------------------------------------------------------------------
(* gdb. *)

Connect ==
    /\ at = "absent"
    /\ at' = "queued"
    /\ process' = "none"
    /\ UNCHANGED <<serverVars, targetVars, wireVars, deviceVars, cmd>>

(* It is killed, quits or loses patience. *)
Leave ==
    /\ at # "absent"
    /\ at' = "absent"
    /\ process' = "none"
    /\ IF at = "queued" THEN UNCHANGED wireVars
       ELSE /\ inbox' = Append(inbox, Char("eof"))
            /\ outbox' = <<>>
            /\ UNCHANGED conn
    /\ UNCHANGED <<serverVars, targetVars, deviceVars, cmd>>

(* What gdb asks: the reason of the halt when it has connected or has sent *)
(* R, afterwards what suits its process.                                   *)
Asks == IF cmd.name \in {"xfer", "R"} THEN {"?"}
        ELSE IF process = "none" THEN {"R", "vRun", "attach", "attachOther"}
        ELSE {"access", "c", "s", "D", "k", "vRun"}

Send(name) ==
    /\ at = "ready" /\ name \in Asks
    /\ cmd' = [name |-> name, bit |-> ~cmd.bit]
    /\ inbox' = Append(inbox, cmd')
    /\ at' = "ack"
    /\ process' = IF name \in Runs THEN "running" ELSE process
    /\ UNCHANGED <<serverVars, targetVars, conn, outbox, deviceVars>>

Interrupt ==
    /\ at = "reply" /\ process = "running"
    /\ Len(SelectSeq(inbox, LAMBDA x : x.name \in Interrupts)) < MaxInterrupts
    /\ inbox' = Append(inbox, Char("interrupt"))
    /\ UNCHANGED <<serverVars, targetVars, conn, outbox, deviceVars, gdbVars>>

(* The acknowledgement of its command. *)
TakeAck ==
    /\ at = "ack" /\ outbox # <<>> /\ Head(outbox) = Ack
    /\ outbox' = Tail(outbox)
    /\ at' = IF cmd.name \in Unanswered THEN "ready" ELSE "reply"
    /\ process' = IF cmd.name = "k" THEN "none" ELSE process
    /\ UNCHANGED <<serverVars, targetVars, conn, inbox, deviceVars, cmd>>

(* A packet while it waits for that is one it has had already: it          *)
(* acknowledges and ignores it.                                            *)
IgnorePacket ==
    /\ at = "ack" /\ outbox # <<>> /\ Head(outbox) # Ack
    /\ outbox' = Tail(outbox)
    /\ inbox' = Append(inbox, Char("+"))
    /\ UNCHANGED <<serverVars, targetVars, conn, deviceVars, gdbVars>>

(* Interrupts that are still under way when a run stops come too late. *)
Late(stream) == [i \in DOMAIN stream |->
                   IF stream[i].name = "interrupt" THEN Char("late") ELSE stream[i]]

TakeReply ==
    /\ at = "reply" /\ outbox # <<>> /\ Head(outbox) # Ack
    /\ outbox' = Tail(outbox)
    /\ inbox' = Append(Late(inbox), Char("+"))
    /\ at' = "ready"
    /\ process' = CASE Head(outbox).says = "T05" -> "stopped"
                     [] Head(outbox).says \in {"W00", "X1D", "E01", "OK"} -> "none"
                     [] OTHER -> process
    /\ UNCHANGED <<serverVars, targetVars, conn, deviceVars, cmd>>

Reads == TakeAck \/ IgnorePacket \/ TakeReply

Gdb == Connect \/ Leave \/ (\E name \in Commands : Send(name)) \/ Interrupt \/ Reads

Next == Server \/ DeviceStops \/ HitBreakpoint \/ Gdb

Spec == Init /\ [][Next]_vars

(* The server runs, and time passes for its timeouts; gdb reads what it    *)
(* gets as long as it is there; a device that was told to stop does.       *)
FairSpec == Spec /\ WF_vars(Server) /\ WF_vars(Reads) /\ WF_vars(DeviceStops)

---------------------------------------------------------------------------
(* A process that gdb shows as stopped is stopped, or was told to: through *)
(* retransmissions, detach, reconnection and interrupts that come late.    *)
(* Only failed transactions make it wrong.                                 *)
ToldStoppedIsStopped ==
    at = "ready" /\ process = "stopped" /\ ~failed => dev \in {"halted", "halting"}

(* A packet sent again is never taken for the answer to the next command. *)
AnswerIsOwn ==
    at = "reply" /\ outbox # <<>> /\ Head(outbox) # Ack => Head(outbox).to = cmd

(* A gdb that waits has what it waits for under way: no command is read in *)
(* the place of an acknowledgement, and none is left without its reply.    *)
AnswerIsComing ==
    /\ at = "ack" => Contains(inbox, cmd) \/ Contains(outbox, Ack)
    /\ at = "reply" => outbox # <<>> \/ pc \in {"poll", "char"}

(* An interrupt stops the run it was sent to or none: one that the server  *)
(* reads later is skipped or taken for an acknowledgement.                 *)
InterruptIsOfThisRun ==
    pc = "char" /\ inbox # <<>> => Head(inbox).name # "late"

(* No step is left over that would turn a later continue into a step.  A    *)
(* refused one would be: X1D leaves single_step set.  The gdb of this model *)
(* steps only a process it shows, and then the server has a target.         *)
NoStepLeftOver == pc = "packet" => ~single_step

(* The target is lost to qXfer, vRun and R only by an attach to a number   *)
(* that is none; detach, kill and reattach keep one of the pointers.       *)
ForgottenOnlyByOther ==
    [][(cur_target \/ last_target) /\ ~(cur_target' \/ last_target') => ServeAttachOther]_vars

(* A run that gdb has interrupted stops, or a transaction fails. *)
InterruptStops ==
    process = "running" /\ Contains(inbox, Char("interrupt")) ~> process # "running" \/ failed

(* A gdb that has connected is served, unless the server still waits for a *)
(* target that an earlier gdb has left running.                            *)
WaitingGdbIsServed ==
    at = "queued" ~> at # "queued" \/ (pc \in {"poll", "char"} /\ dev = "running")

(* A status that could not be read is not reported as a halt: target.h     *)
(* keeps TARGET_HALT_ERROR for it.                                         *)
FailureIsNoStop ==
    at = "ready" /\ process = "stopped" /\ cmd.name \in Runs \cup {"?"} =>
        dev \in {"halted", "halting"}
=============================================================================
