---------------------------- MODULE HostTransfer ----------------------------
(***************************************************************************)
(* Memory and registers as the server reads and writes them: memRead,      *)
(* memWrite and regsRead cut a request into packets (TargetSTM32F1.cpp),   *)
(* the bootloader serves each (main.cpp), and the server decides by the    *)
(* head of what it receives whether to go on.                              *)
(*                                                                         *)
(* Contents are known by where they come from: what memory holds is the    *)
(* write it was part of with the address it is meant for, a register is its*)
(* index.  Accesses have one alignment, so the mask that rounds a packet's *)
(* size and the comparison of the align fields say nothing here; an address*)
(* is what is accessed at once, in flash the half-word that is programmed. *)
(*                                                                         *)
(* AnswerPipe, which UsbLink implements, says what a transaction may       *)
(* bring: the oldest answer that has not been read, its own or one of up   *)
(* to two of earlier servers, or nothing after a bus reset.                *)
(*                                                                         *)
(* The target is halted: nobody but the server changes its memory.  Flash  *)
(* is erased beforehand, as FlashLoad has it, or not.                      *)
(***************************************************************************)
EXTENDS Naturals, Sequences, Functions

CONSTANTS LastAddress,  \* memory is 0 .. LastAddress
          Regions,      \* memoryAccessRegions: records with begin and end
          Ram,          \* addresses that any access writes to
          FlashBegin,   \* flash is FlashBegin .. FlashEnd - 1
          FlashEnd,
          Payload,      \* bytes in a packet, 56 in the code
          LastRegister, \* registers are 0 .. LastRegister, 16 in the code
          RegPayload,   \* registers in a packet, 15 in the code
          Values,       \* names of the data that is written
          Zero          \* the data that flash takes without being erased

ASSUME SizeAssumption == /\ LastAddress \in Nat /\ LastRegister \in Nat
                         /\ Payload \in Nat \ {0} /\ RegPayload \in Nat \ {0}
ASSUME FlashAssumption == FlashBegin \in Nat /\ FlashEnd \in Nat
ASSUME RegionAssumption == Regions \subseteq [begin : Nat, end : Nat]

Addresses == 0 .. LastAddress
Registers == 0 .. LastRegister

(* What has been written, what was there before, or erased flash. *)
Byte == [from : Values \cup {"before", "erased"}, place : Addresses]

Hole == [from |-> "hole", place |-> 0]   \* 0xFF of memoryReadCommand
Junk == [from |-> "junk", place |-> 0]   \* not filled: 0 of a new vector
Register(r) == [from |-> "register", place |-> r]

VARIABLES mem,    \* the target's memory
          pipe,   \* answers to commands of earlier servers, oldest first
          in,     \* _in: the head of the last answer received
          op,     \* the operation under way, or the last one
          doing,  \* it is under way
          offset, \* its progress, in bytes or registers
          data,   \* what it has read
          synced, \* history: no foreign answers were there when it began
          failed, \* history: one of its transactions has failed
          fresh   \* history: the flash that was erased when it began

opVars == <<op, doing, offset, data, synced, failed, fresh>>
vars == <<mem, pipe, in, opVars>>

Kinds == {"read", "write", "regs"}
NoHead == [cmd |-> "none", addr |-> 0, count |-> 0]
HeadOf(a) == [cmd |-> a.cmd, addr |-> a.addr, count |-> a.count]
NoOp == [kind |-> "none", addr |-> 0, len |-> 0, value |-> "before"]

Lesser(a, b) == IF a < b THEN a ELSE b

TypeOK ==
    /\ mem \in [Addresses -> Byte]
    /\ Len(pipe) <= 2
    /\ in.cmd \in Kinds \cup {"halt", "none"}
    /\ op.kind \in Kinds \cup {"none"}
    /\ doing \in BOOLEAN /\ synced \in BOOLEAN /\ failed \in BOOLEAN
    /\ offset \in 0 .. op.len + (IF op.kind = "read" THEN Payload - 1 ELSE 0)
    /\ DOMAIN data = 0 .. op.len - 1
    /\ fresh \subseteq Addresses

(* isFlashRegion *)
isFlashRegion(a) == FlashBegin <= a /\ a < FlashEnd

ErasedFlash == {a \in Addresses : isFlashRegion(a) /\ mem[a].from = "erased"}

Init ==
    /\ mem \in {[a \in Addresses |-> [from |-> IF a \in E THEN "erased" ELSE "before",
                                      place |-> a]] :
                    E \in SUBSET {a \in Addresses : isFlashRegion(a)}}
    /\ pipe = <<>>
    /\ in = NoHead
    /\ op = NoOp /\ doing = FALSE /\ offset = 0 /\ data = <<>>
    /\ synced = TRUE /\ failed = FALSE
    /\ fresh = {}

---------------------------------------------------------------------------
(* The bootloader. *)

(* checkMemRegionAccess *)
Accessible(a, n) == \E r \in Regions : r.begin <= a /\ a + n <= r.end

(* The packet that goes on with the operation: MakeHead, and the address   *)
(* its caller gives it.                                                    *)
PacketSize == IF op.kind = "regs" THEN RegPayload ELSE Payload
Command == [cmd |-> op.kind, addr |-> op.addr + offset,
            count |-> Lesser(PacketSize, op.len - offset)]

(* memoryReadCommand: a packet that is not within one region is all 0xFF. *)
ReadAnswer(c) ==
    [i \in 0 .. c.count - 1 |-> IF Accessible(c.addr, c.count) THEN mem[c.addr + i]
                                ELSE Hole]

(* regsReadCommand *)
RegsAnswer(c) == [i \in 0 .. c.count - 1 |-> Register(c.addr + i)]

Answer(c) == [cmd |-> c.cmd, addr |-> c.addr, count |-> c.count,
              data |-> CASE c.cmd = "read" -> ReadAnswer(c)
                         [] c.cmd = "regs" -> RegsAnswer(c)
                         [] OTHER -> <<>>]

(* memoryWriteCommand: the address the packet starts at decides between    *)
(* flashWrite and dbg_memcpy.  A half-word of flash that is not erased is  *)
(* not programmed, except to zero, and flash is not written by dbg_memcpy. *)
Takes(start, a) ==
    \/ a \in Ram
    \/ /\ isFlashRegion(start) /\ isFlashRegion(a)
       /\ mem[a].from = "erased" \/ op.value = Zero

(* No region is asked for; what memory does not take is not told from what *)
(* it takes, and the packet is answered in full.                           *)
Execute(c) ==
    mem' = IF c.cmd # "write" THEN mem
           ELSE [a \in Addresses |->
                   IF a \in c.addr .. c.addr + c.count - 1 /\ Takes(c.addr, a)
                   THEN [from |-> op.value, place |-> a] ELSE mem[a]]

---------------------------------------------------------------------------
(* The server. *)

(* Fault variants of Accepts: the address is not compared; the count is    *)
(* not compared with the packet's.                                         *)
AcceptsAnyAddress(c, a) ==
    /\ a.cmd = c.cmd
    /\ c.cmd # "regs" => a.count # 0
    /\ c.cmd # "read" => a.count <= c.count

AcceptsAnyCount(c, a) ==
    /\ a.cmd = c.cmd
    /\ a.addr = c.addr
    /\ c.cmd # "regs" => a.count # 0

(* The tests that end the loops of memRead, memWrite and regsRead. *)
Accepts(c, a) ==
    /\ a.cmd = c.cmd
    /\ a.addr = c.addr
    /\ c.cmd # "regs" => a.count # 0
    /\ c.cmd # "read" => a.count <= c.count

(* Fault variants of Place: memory lands at the start, too; registers land  *)
(* where they belong.                                                      *)
PlaceAtStart(c, a) == 0
PlaceAtOffset(c, a) == offset

(* Where in the result a packet's data goes: regsRead always copies it to  *)
(* the start.                                                              *)
Place(c, a) == IF c.cmd = "regs" THEN 0 ELSE offset

(* The rest of the loop's body.  memRead cuts off what would be past the   *)
(* end of the result, but counts it.                                       *)
Handle(c, a) ==
    IF Accepts(c, a)
    THEN /\ data' = [i \in DOMAIN data |->
                       IF c.cmd # "write" /\ i \in Place(c, a) .. Place(c, a) + a.count - 1
                       THEN a.data[i - Place(c, a)] ELSE data[i]]
         /\ offset' = offset + a.count
         /\ doing' = (offset' < op.len)
    ELSE /\ doing' = FALSE
         /\ UNCHANGED <<data, offset>>

(* What AnswerPipe leaves of at most two answers behind the oldest one:    *)
(* each of them may have been dropped.                                     *)
Survivors(answers) == {answers, <<>>} \cup {<<answers[i]>> : i \in DOMAIN answers}

(* sendAndReceive: the own answer is queued behind those that are there,   *)
(* and the oldest is received.                                             *)
Receive(answers) == /\ in' = HeadOf(Head(answers))
                    /\ pipe' \in Survivors(Tail(answers))

Transact ==
    /\ doing
    /\ LET c == Command
           answers == Append(pipe, Answer(c))
       IN  /\ Execute(c)
           /\ Receive(answers)
           /\ Handle(c, Head(answers))
    /\ UNCHANGED <<op, synced, failed, fresh>>

(* Fault variant of TransactFails: memWrite tries again without an end. *)
TransactFailsAndRepeats ==
    /\ doing
    /\ LET c == Command IN
         /\ Execute(c) \/ UNCHANGED mem
         /\ IF c.cmd = "write" THEN UNCHANGED <<offset, data, doing>>
            ELSE doing' = FALSE /\ UNCHANGED <<offset, data>>
    /\ pipe' = <<>>
    /\ failed' = TRUE
    /\ UNCHANGED <<in, op, synced, fresh>>

(* The command or its answer is lost in a bus reset.  memRead and regsRead *)
(* see that nothing was received; memWrite looks at the last answer again. *)
TransactFails ==
    /\ doing
    /\ LET c == Command IN
         /\ Execute(c) \/ UNCHANGED mem
         /\ IF c.cmd = "write" THEN Handle(c, in)
            ELSE doing' = FALSE /\ UNCHANGED <<offset, data>>
    /\ pipe' = <<>>
    /\ failed' = TRUE
    /\ UNCHANGED <<in, op, synced, fresh>>

(* The server ends before it reads, and another is started: its buffers    *)
(* are new, the answer is still there unless it was dropped.  By the time  *)
(* the new server's first command is taken, only the oldest is before it.  *)
RestartServer ==
    /\ doing
    /\ LET c == Command IN
         /\ Execute(c)
         /\ pipe' \in IF pipe = <<>> THEN {<<Answer(c)>>}
                      ELSE {<<Head(pipe)>>, <<Head(pipe), Answer(c)>>}
    /\ in' = NoHead
    /\ doing' = FALSE
    /\ failed' = TRUE
    /\ UNCHANGED <<op, offset, data, synced, fresh>>

HaltAnswer == [cmd |-> "halt", addr |-> 0, count |-> 0, data |-> <<>>]

(* Another command, such as a poll of the halt state. *)
Poll ==
    /\ ~doing
    /\ Receive(Append(pipe, HaltAnswer))
    /\ UNCHANGED <<mem, opVars>>

Begin(kind, addr, len, value) ==
    /\ ~doing
    /\ op' = [kind |-> kind, addr |-> addr, len |-> len, value |-> value]
    /\ doing' = TRUE
    /\ offset' = 0
    /\ data' = [i \in 0 .. len - 1 |-> Junk]
    /\ synced' = (pipe = <<>>)
    /\ failed' = FALSE
    /\ fresh' = ErasedFlash
    /\ UNCHANGED <<mem, pipe, in>>

(* stm32_mem_read, stm32_flash_wrtie, and stm32_regs_read with _reg_read. *)
MemRead(addr, len) == Begin("read", addr, len, "before")
MemWrite(addr, len, value) == Begin("write", addr, len, value)
RegsRead(index, count) == Begin("regs", index, count, "before")

Next ==
    \/ \E a, b \in Addresses : /\ a <= b
                               /\ \/ MemRead(a, b - a + 1)
                                  \/ \E v \in Values : MemWrite(a, b - a + 1, v)
    \/ \E r, s \in Registers : r <= s /\ RegsRead(r, s - r + 1)
    \/ Transact \/ TransactFails \/ RestartServer \/ Poll

Spec == Init /\ [][Next]_vars

---------------------------------------------------------------------------
(* The packet that carries place i of the operation. *)
PacketAt(i) == PacketSize * (i \div PacketSize)
PacketOf(i) == [addr |-> op.addr + PacketAt(i),
                count |-> Lesser(PacketSize, op.len - PacketAt(i))]

(* A server in step reads what the memory holds: byte by byte, 0xFF in     *)
(* every packet that leaves its region, and nothing beyond the point at    *)
(* which a transaction failed.                                             *)
ReadIsMemory ==
    op.kind = "read" /\ synced =>
        \A i \in DOMAIN data :
            data[i] = IF i >= offset THEN Junk
                      ELSE IF Accessible(PacketOf(i).addr, PacketOf(i).count)
                           THEN mem[op.addr + i] ELSE Hole

(* Even a server that is behind shows for an address only contents of that *)
(* address: never another's, never a register.                             *)
ReadIsOfItsAddress ==
    op.kind = "read" =>
        \A i \in DOMAIN data :
            \/ data[i] \in {Hole, Junk}
            \/ data[i] \in Byte /\ data[i].place = op.addr + i

(* What the memory takes of an operation: flash that was erased when it    *)
(* began, by an operation that begins in flash.                            *)
Writable(a) ==
    \/ a \in Ram
    \/ /\ isFlashRegion(op.addr) /\ isFlashRegion(a)
       /\ a \in fresh \/ op.value = Zero

(* What memWrite counts is in memory where memory takes it: also if a      *)
(* packet is sent twice, or half of it is counted and the rest sent again. *)
(* Excepted is the first packet, which after a failure the answer to an    *)
(* earlier write of the same address may vouch for, because memWrite does  *)
(* not look at what it has received.                                       *)
CountedIsWritten ==
    op.kind = "write" =>
        \A i \in 0 .. offset - 1 :
            \/ ~Writable(op.addr + i)
            \/ mem[op.addr + i] = [from |-> op.value, place |-> op.addr + i]
            \/ failed /\ i < Payload

(* An operation of a server in step is cut short by a failure only. *)
CutShortByFailure ==
    synced /\ ~failed /\ ~doing => offset = op.len

(* No loop goes round for ever: each transaction takes the operation on or *)
(* ends it, though memWrite does not look at whether it has received       *)
(* anything, and what comes may be the answer to an earlier command.       *)
EachRoundAdvances == [][doing /\ doing' => offset' > offset]_vars

(* GDB is shown the registers of the target (Readme.RUS.txt): all of them  *)
(* in their order, as regsRead is asked for them.                          *)
RegistersInOrder ==
    op.kind = "regs" /\ synced /\ ~failed /\ ~doing =>
        \A i \in DOMAIN data : data[i] = Register(op.addr + i)
=============================================================================
