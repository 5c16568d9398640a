----------------------------- MODULE FlashLoad ------------------------------
(***************************************************************************)
(* A load of firmware as the server carries it out: the packets            *)
(* vFlashErase, vFlashWrite, vFlashDone (GdbServer/Gdb/gdb_main.c), the    *)
(* sector buffer between them and the device (target.c, stm32f1.c), and    *)
(* the flash behind it (App/main.cpp).                                     *)
(*                                                                         *)
(* Addresses are a sector and a cell in it, the half-word that is          *)
(* programmed at once.  A sector is the block that is erased at once and   *)
(* the size of the buffer.  The buffer outlives the load that filled it:   *)
(* only vFlashDone empties it.                                             *)
(*                                                                         *)
(* GDB is external.  It erases the sectors of its image range by range,    *)
(* writes the image in ascending order, and says vFlashDone; when its user *)
(* interrupts it or its connection breaks it just stops.                   *)
(*                                                                         *)
(* Any command may fail on USB, executed or not, and is answered with OK   *)
(* all the same (TargetsInit.cpp).  An erase is answered before the erase  *)
(* loop has run; while the loop runs the device serves no command, but     *)
(* DebugMonitor shows that it can be stopped at its first instruction: its *)
(* requests then wait for the next one.                                    *)
(***************************************************************************)
EXTENDS Naturals, Functions

CONSTANTS LastSector, LastCell, \* numbers of sectors, and of cells in each
          Erased,               \* f->erased: a cell that has been erased
          Zero,                 \* the value any cell can be programmed to
          Data                  \* the other values

ASSUME SizeAssumption == LastSector \in Nat /\ LastCell \in Nat
ASSUME ValueAssumption == Erased \notin Data /\ Zero \notin Data /\ Erased # Zero

Sectors == 1 .. LastSector
Cells == 1 .. LastCell
Value == Data \cup {Erased, Zero}

NoSector == 0

VARIABLES flash,     \* what the chip's flash holds
          pending,   \* sectors in gEraseParams, for the loop to erase
          bufAddr,   \* f->buf_addr, NoSector while there is no buffer
          buf,       \* f->buf
          flashMode, \* flash_mode
          phase,     \* of the load: none, under way or answered with OK
          covered,   \* the sectors of the image
          erased,    \* those GDB has had erased for it
          at,        \* the last cell GDB has written
          image,     \* history: what flash is to hold in the end
          leftover,  \* history: the sector in the buffer when it began
          due,       \* history: the sectors pending when it began
          cut,       \* history: its sectors not erased or not all written
          reset,     \* history: it has reset the target
          brokenOff  \* history: the one before it was broken off

deviceVars == <<flash, pending, cut>>
serverVars == <<bufAddr, buf, flashMode>>
loadVars == <<phase, covered, erased, at, image, leftover, due>>
vars == <<deviceVars, serverVars, loadVars, reset, brokenOff>>

Sector == [Cells -> Value]

Blank == [c \in Cells |-> Erased]

TypeOK ==
    /\ flash \in [Sectors -> Sector]
    /\ pending \subseteq Sectors
    /\ bufAddr \in Sectors \cup {NoSector}
    /\ buf \in Sector
    /\ flashMode \in BOOLEAN
    /\ phase \in {"none", "loading", "done"}
    /\ covered \subseteq Sectors
    /\ erased \subseteq covered
    /\ at \in (Sectors \cup {0}) \X (Cells \cup {0})
    /\ image \in [Sectors -> Sector]
    /\ leftover \in Sectors \cup {NoSector}
    /\ due \subseteq Sectors
    /\ cut \subseteq Sectors
    /\ reset \in BOOLEAN
    /\ brokenOff \in BOOLEAN

Init == /\ flash \in [Sectors -> Sector]
        /\ pending = {}
        /\ bufAddr = NoSector
        /\ buf = Blank
        /\ flashMode = FALSE
        /\ phase = "none"
        /\ covered = {} /\ erased = {}
        /\ at = <<0, 0>>
        /\ image = flash
        /\ leftover = NoSector
        /\ due = {} /\ cut = {}
        /\ reset = FALSE
        /\ brokenOff = FALSE

---------------------------------------------------------------------------
(* The device. *)

(* A half-word is programmed if it is erased; else only to zero. *)
Programmed(old, new) == IF old = Erased \/ new = Zero THEN new ELSE old

(* A sector is sent in packets.  memWrite gives up at the first whose      *)
(* answer does not fit, and stm32_flash_wrtie drops what it returns.  The  *)
(* first packets may be lost and taken for written: an answer left from    *)
(* before fits them.                                                       *)
ProgramSector(s, content) ==
    \E first \in Cells, last \in 0 .. LastCell :
        /\ flash' = [flash EXCEPT ![s] =
                       [c \in Cells |-> IF c \in first .. last
                                        THEN Programmed(flash[s][c], content[c])
                                        ELSE flash[s][c]]]
        /\ cut' = IF first .. last = Cells THEN cut ELSE cut \cup {s}
        /\ UNCHANGED pending

Erase(E) == flash' = [s \in Sectors |-> IF s \in E THEN Blank ELSE flash[s]]

(* FlashCommand::Erase for the sectors from a to b.  Either the loop runs, *)
(* for all that is pending (a request that finds gEraseParams full, or a   *)
(* board pulled out meanwhile, leaves some out); or the command is lost;   *)
(* or the loop has yet to run.                                             *)
EraseSectors(a, b) ==
    LET asked == pending \cup (a .. b) IN
    \/ \E E \in SUBSET asked : /\ Erase(E)
                              /\ pending' = {}
                              /\ cut' = (cut \cup (a .. b)) \ E
    \/ /\ UNCHANGED flash
       /\ pending' \in {pending, asked}
       /\ cut' = cut \cup (a .. b)

---------------------------------------------------------------------------
(* The server. *)

(* A sector in the buffer goes to the device. *)
Flush == IF bufAddr = NoSector THEN UNCHANGED deviceVars
         ELSE ProgramSector(bufAddr, buf)

(* Fault variant of WriteBuffered: the buffer is not cleared for a sector. *)
WriteBufferedUncleared(s, c, v) ==
    /\ IF s = bufAddr THEN UNCHANGED deviceVars ELSE Flush
    /\ bufAddr' = s
    /\ buf' = [buf EXCEPT ![c] = v]
    /\ UNCHANGED flashMode

(* target_flash_write_buffered for one cell. *)
WriteBuffered(s, c, v) ==
    /\ IF s = bufAddr THEN UNCHANGED deviceVars ELSE Flush
    /\ bufAddr' = s
    /\ buf' = [(IF s = bufAddr THEN buf ELSE Blank) EXCEPT ![c] = v]
    /\ UNCHANGED flashMode

(* target_flash_done_buffered. *)
DoneBuffered == /\ Flush
                /\ bufAddr' = NoSector
                /\ UNCHANGED buf

---------------------------------------------------------------------------
(* GDB and the packets it sends. *)

(* Its user asks for a load. *)
StartLoad(S) ==
    /\ phase # "loading"
    /\ phase' = "loading"
    /\ covered' = S
    /\ erased' = {}
    /\ at' = <<0, 0>>
    /\ image' = [s \in Sectors |-> IF s \in S THEN Blank ELSE flash[s]]
    /\ leftover' = bufAddr
    /\ due' = pending /\ cut' = {}
    /\ reset' = FALSE
    /\ brokenOff' = (brokenOff /\ phase # "done")
    /\ UNCHANGED <<flash, pending, serverVars>>

(* Fault variant of FlashErase: the range ends one sector too late. *)
FlashEraseTooFar(a, b) ==
    LET end == IF b = LastSector THEN b ELSE b + 1 IN
    /\ phase = "loading"
    /\ a .. b \subseteq covered \ erased
    /\ flashMode' = TRUE
    /\ reset' = (reset \/ ~flashMode)
    /\ EraseSectors(a, end)
    /\ erased' = erased \cup (a .. end)
    /\ UNCHANGED <<bufAddr, buf, phase, covered, at, image, leftover, due, brokenOff>>

(* vFlashErase: the first one resets the target. *)
FlashErase(a, b) ==
    /\ phase = "loading"
    /\ a .. b \subseteq covered \ erased
    /\ flashMode' = TRUE
    /\ reset' = (reset \/ ~flashMode)
    /\ EraseSectors(a, b)
    /\ erased' = erased \cup (a .. b)
    /\ UNCHANGED <<bufAddr, buf, phase, covered, at, image, leftover, due, brokenOff>>

Ascending(s, c) == s > at[1] \/ (s = at[1] /\ c > at[2])

(* vFlashWrite; a packet with several cells is several of these steps. *)
FlashWrite(s, c, v) ==
    /\ phase = "loading" /\ erased = covered
    /\ s \in covered /\ Ascending(s, c)
    /\ WriteBuffered(s, c, v)
    /\ at' = <<s, c>>
    /\ image' = [image EXCEPT ![s][c] = v]
    /\ UNCHANGED <<phase, covered, erased, leftover, due, reset, brokenOff>>

(* vFlashWrite when there is no memory for the buffer: GDB is told EFF and *)
(* gives up.                                                               *)
FlashWriteFails ==
    /\ phase = "loading" /\ erased = covered /\ bufAddr = NoSector
    /\ flashMode' = FALSE
    /\ phase' = "none"
    /\ brokenOff' = FALSE
    /\ UNCHANGED <<deviceVars, bufAddr, buf, covered, erased, at, image,
                   leftover, due, reset>>

(* Fault variant of FlashDone: the mode is kept. *)
FlashDoneKeepsMode ==
    /\ phase = "loading" /\ at # <<0, 0>>
    /\ DoneBuffered
    /\ phase' = "done"
    /\ UNCHANGED <<flashMode, covered, erased, at, image, leftover, due, reset,
                   brokenOff>>

(* vFlashDone; the command that follows starts the firmware. *)
FlashDone ==
    /\ phase = "loading" /\ at # <<0, 0>>
    /\ DoneBuffered
    /\ flashMode' = FALSE
    /\ phase' = "done"
    /\ UNCHANGED <<covered, erased, at, image, leftover, due, reset,
                   brokenOff>>

(* GDB is interrupted, or its connection breaks: the server keeps it all. *)
BreakOff == /\ phase = "loading"
            /\ phase' = "none"
            /\ brokenOff' = TRUE
            /\ UNCHANGED <<deviceVars, serverVars, covered, erased, at,
                           image, leftover, due, reset>>

(* The erase loop runs late: the processor has left its interrupt handlers,*)
(* or the loop had been stopped and the user continues.                    *)
LateErase == /\ pending # {}
             /\ \E E \in SUBSET pending : Erase(E)
             /\ pending' = {}
             /\ UNCHANGED <<cut, serverVars, loadVars, reset, brokenOff>>

(* A new server process. *)
RestartServer == /\ bufAddr' = NoSector /\ buf' = Blank
                 /\ flashMode' = FALSE
                 /\ phase' = "none"
                 /\ brokenOff' = FALSE
                 /\ UNCHANGED <<deviceVars, covered, erased, at, image, leftover,
                                due, reset>>

Next == \/ \E S \in SUBSET Sectors \ {{}} : StartLoad(S)
        \/ \E a, b \in Sectors : a <= b /\ FlashErase(a, b)
        \/ \E s \in Sectors, c \in Cells, v \in Value : FlashWrite(s, c, v)
        \/ FlashWriteFails \/ FlashDone
        \/ BreakOff \/ LateErase \/ RestartServer

Spec == Init /\ [][Next]_vars

---------------------------------------------------------------------------
(* When vFlashDone has been answered the flash holds what GDB has written, *)
(* erased where it has written nothing and as before outside the image.    *)
(* Excepted are the sectors a failing command has left unerased or partly  *)
(* written, those outside the image that an earlier load had left to erase,*)
(* and the sector it has left in the buffer: a failure, an erase that comes*)
(* late and a load that was broken off spoil no other sector.              *)
DoneIsWritten ==
    phase = "done" =>
        \A s \in Sectors \ ({leftover} \cup cut \cup (due \ covered)) :
            flash[s] = image[s]

(* A load, however it ends, touches its own sectors and at most the one    *)
(* that an earlier load has left in the buffer and those it has left to    *)
(* erase.                                                                  *)
OtherSectorsKept ==
    \A s \in Sectors \ (covered \cup {leftover} \cup due) : flash[s] = image[s]

(* The target is reset before the first sector is erased, by every load    *)
(* but one that follows a load which was broken off.                       *)
FirstEraseResets == phase # "none" /\ erased # {} /\ ~brokenOff => reset

(* When vFlashDone has been answered, and no command of the load has failed*)
(* and no erase was left to do, the flash holds the image.                 *)
LoadedIsImage == phase = "done" /\ cut = {} /\ due = {} => flash = image
=============================================================================
