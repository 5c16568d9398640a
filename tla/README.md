# TLA+ verification of the Blue Pill USB debugger

The repository turns an STM32F103C8 ("Blue Pill") into a board that is flashed
and debugged over USB without an SWD probe.  A bootloader (`src/Bootloader`)
debugs the chip from inside, with the Cortex-M3 debug monitor exception; a
server for Windows (`src/GdbServer`) speaks the remote protocol to GDB and a
64-byte packet protocol to the bootloader.  This directory holds TLA+ modules
of the bootloader, of the server and of the two connections between them, the
TLC runs that check them on small instances, and proofs, checked by TLAPS, that
hold for every value of the constants.

Run a model with `tlc -config <file>.cfg <module>.tla`, a proof with
`tlapm <module>.tla`.

## 1. Inventory

| Part | Source | State it keeps | Operations |
|---|---|---|---|
| Queues | `App/CircularBuffer.h` | `_first`, `_last`, `_buffer` | `put`, `get`, `pull`, `isEmpty` |
| Debug monitor | `App/Debug.cpp` | `gCmdQueue`, `gEraseParams`, `gHaltState`, `stepOnThread`, `exitFromInterrupt`, the registers DEMCR, DFSR, BASEPRI, the NVIC enables | `DebugHandler`, `debugHaltRequest` and its siblings, `flashEraseLoop`, `debugLocalLoop` |
| Low-level handlers | `App/LoLevelDebug.s` | the saved context of 17 registers | `DebugMon_Handler`, `AnyUserIRQHandler`, the fault, NMI and watchdog handlers |
| System calls | `App/Syscalls.cpp` | `allowUsbTransfer` | reset, milliseconds, interrupt enable, serial write |
| USB commands | `App/main.cpp` | one command and one answer buffer, the FPB comparators | memory, register, breakpoint, halt, flash and attach commands |
| Start-up | `App/SystemInit.cpp`, `startup_*.s` | priorities, clocks | `systemInit` |
| USB device | `App/Usb.cpp`, `usb_common.h` | descriptors, configuration | set-configuration and control callbacks |
| Memory access | `App/Memory.cpp` | a table of regions | `checkMemRegionAccess`, `dbg_memcpy` |
| USB stack | `libopencm3` (vendored) | endpoint registers, control state | poll, read and write packet |
| GDB loop | `GdbServer/Gdb/gdb_main.c`, `command.c`, `gdb_hostio.c` | `cur_target`, `last_target`, `flash_mode` | the packets `g G m M s c ? D k R v* z Z` |
| GDB packets | `Gdb/gdb_packet.c`, `gdb_if.c` | the connection, the send buffer | `gdb_getpacket`, `gdb_putpacket` |
| Target | `Gdb/target.c`, `stm32f1.c` | `bw_list`, the flash sector buffer | breakpoints, buffered flash writes |
| Host protocol | `Target/TargetSTM32F1.cpp`, `TargetsInit.cpp`, `TargetInterface/` | one packet each way | `memRead`, `memWrite`, `regsRead`, `regsWrite`, ... |
| Left-overs | `Gdb/cortexm.c`, `remote.c`, `Source.cpp`, ... | | not part of the built server |
| Demo | `src/Template` | | an example of user code |

### How the parts interact

GDB sends a packet; the server turns it into one or more USB commands and waits
for each answer.  The **USB interrupt** (priority 0x10) executes a command to
its end: memory, registers and breakpoints at once, everything that changes who
runs by a **post**: a command is put into `gCmdQueue` and DEMCR.MON_PEND is set.
`SVC 0` posts in the same way.  **DebugMon** (0x20) is then taken as soon as the
processor is at a lower level; `DebugHandler` serves the queue, and while the
target is halted it sleeps inside the exception, where only USB and SysTick get
through.  It lets go by clearing or setting DEMCR.MON_STEP and by replacing the
saved program counter: **thread mode** then runs the firmware, an idle local
loop, or `flashEraseLoop`, which needs thread mode because flash cannot be
erased from an exception.  The erase loop takes its requests from the second
queue and posts `StartLocalLoop` when it is done.  **User interrupts** are
configured to 0x30 and below by the rules of `src/Binary/Readme.RUS.txt`.

### What is hard

* The command queue has three producers at three levels (USB, SVC, the erase
  loop) and no lock.
* DEMCR is a read-modify-write register shared by all of them.
* A step of thread mode may end inside a user interrupt; the handler then raises
  BASEPRI, single-steps out of the interrupt, executes the instruction and lowers
  BASEPRI, over four entries, with two statics as its only memory.
* Start commands are deferred in the same way while an interrupt is active.
* The erase loop disables the interrupts the debugger is reached by.
* The answer to a USB command has no number.  An answer nobody has read is still
  there for the next server, and the device drops one that finds it unread.
* The firmware's permission to print, `allowUsbTransfer`, is cleared by SVC, set by
  the USB interrupt and by `DebugHandler`, and lost with a bus reset.
* On the host: transfers split into packets that fail half-way, buffered flash
  writes, a static `flash_mode`, `single_step`, `cur_target` and `last_target` that
  outlive a connection, retransmission, an interrupt character that races the
  stop it was meant to cause.

### What makes each part correct

* Queues: a bounded FIFO for the consumer and each producer; no slot race.
* Debug monitor: a step is one instruction; a step-out ends and unmasks; a
  deferred command is kept; what the host is told agrees with who runs; loops
  run alone; commands are not stranded; an erase is carried out and returns.
* USB commands and endpoints: the answer a server reads is the one of its
  command, or the restart that made it another is known; a waiting server gets one;
  the breakpoint list and the comparators agree.
* System calls: the permission to print is neither lost nor granted twice.
* Host protocol: what is read is the memory of the address asked for, what is
  counted as written is written, every loop over packets ends.
* GDB loop and packets: a process shown as stopped is stopped; a reply is of its own
  command; an interrupt stops the run it was sent to; a connection is served; a
  load erases before it writes.
* Target: after `done` the flash holds what GDB wrote.

`PROJECT.json` lists the hazards with the line at which each one bites and the
properties that cover it.

## 2. Modules

| Module | What it is |
|---|---|
| `BoundedFifo` | the abstract specification of a queue: put, get, remove, each indivisible |
| `CircularBuffer` | `CircularBuffer.h`, one step per access to a volatile index, contexts some of which preempt others |
| `PreemptedPut` | `CircularBuffer` with a history of the puts that were overtaken |
| `CircularBufferProofs` | proofs about `CircularBuffer` |
| `PreemptedPutProofs` | proofs about `PreemptedPut` |
| `DebugMonitor` | `Debug.cpp` with the contexts around it |
| `DebugMonitorProofs` | proofs about `DebugMonitor` |
| `Breakpoints` | breakpoints from GDB over the server's list to the comparators |
| `BreakpointsProofs` | proofs about `Breakpoints` |
| `FlashLoad` | a load of firmware: the flash packets, the sector buffer, the flash |
| `FlashLoadProofs` | proofs about `FlashLoad` |
| `AnswerPipe` | the abstract specification of endpoint 1: a pipe of answers for the server |
| `UsbLink` | the two endpoints: commands with their answers, the firmware's serial output |
| `UsbLinkProofs` | proofs about `UsbLink` |
| `HostTransfer` | memory and register transfers, cut into packets |
| `HostTransferProofs` | proofs about `HostTransfer` |
| `GdbSession` | gdb connections, packets and acknowledgements, the command loop |
| `GdbSessionProofs` | proofs about `GdbSession` |
| `MC*` | constants for TLC |

The modules meet at what one promises the next.  `CircularBuffer` promises
`DebugMonitor` a queue whose operations are indivisible.  `DebugMonitor` promises
`GdbSession` a device that serves a halt some time later and everything else before the
next command.  `UsbLink` implements `AnswerPipe` (checked and proved), and
`AnswerPipe` is what `HostTransfer` assumes of a transaction: the oldest answer not
read is received, be it the own one or one of at most two of an earlier server, any
behind it may be dropped, and a bus reset leaves nothing.
`HostTransfer` promises `FlashLoad` that of a sector a run of the packets arrives, the
last ones missing after a failure and the first ones where an old answer vouched for
them; `DebugMonitor` promises it that an erase is carried out before the next command or,
if its loop was stopped, later or never.  They are separate specifications: the product
of two of them has nothing to interleave that one of them does not, because the server
has one thread and one command under way.

Operators introduced by a comment "Mutation of" or "Fault variant of" are not
used by any specification.  Each is a plausible mistake in the definition it
names; substituting it makes TLC find the property that guards the definition
violated, which shows that the property depends on the code.

### CircularBuffer

`first`, `last`, `buffer` are the fields.  `put` is five actions, one for each access
to the fields: `PutBegin` reads `_last` for `next`, `PutCheck` reads `_first`, `PutAim`
reads `_last` again for the slot (`_buffer[_last] = value` is a load and a store),
`PutStore`, `PutPublish`.  `get` and
`pull` are `TakeBegin`, `TakeRead` and, for `pull`, `TakeAdvance`.  `isEmpty` is
the test in `TakeBegin`.  A context moves only while every other one that is inside
an operation is one it may interrupt (`Runs`); `Preempts` says who may interrupt whom.
`PreemptedPut` has the three producers of `gCmdQueue`: the erase loop in thread mode, SVC
at the level of `DebugHandler`, and the USB interrupt above both.  `LevelAssumption` says
what levels have in common with every nesting: preemption goes one way, and a producer
that interrupts `DebugHandler` is interrupted by none.

### DebugMonitor

* `gCmdQueue`, `gEraseParams`, `gHaltState`, `stepOnThread` and
  `exitFromInterrupt` have the names of the code.  `monPend`, `monStep`,
  `dfsrBkpt`, `basepri` are the register bits, `userIrq` and `usbIrq` the NVIC
  enables, `isr` the number of active user interrupts (IPSR # 0 is `isr > 0`).
* `pc` is the place of `DebugHandler`.  Since only the USB interrupt runs while
  the handler is active, and it touches only the queue, MON_PEND and the flash,
  a step of the handler ends at an access to those: the entry (everything up to
  the first access), each load and each store of DEMCR (`LoadDemcr`,
  `StoreDemcr`, with `copy` the loaded value), `ReportState`, and one `Serve*`
  or `Refuse*` per command.  `After` gives the point that follows an update,
  with the lines of the code.
* `program`, `eraseAt`, `erasing`, `threadStep` are thread mode: what it runs
  and, in `flashEraseLoop`, the next instruction with an effect.  The
  instructions in between are `Instruction`.  `|=` of MON_PEND there is two
  instructions, `EraseLoad` and `EraseStore`.
* `written` is the set of pages that are not erased.  Addresses are pages, a
  request is a set of pages, and one with a page outside `UserPages` stands for
  the requests that lines 146-147 refuse.  Whether a written vector page is a
  valid firmware is left open (`ServeStartFirmware` or `RefuseStartFirmware`);
  an erased one is none.
* `ran` is a history variable: the thread instructions since the last
  `ResumeStep`, counted to 2.
* The queue is atomic here.  `CircularBuffer` and `PreemptedPut` say when that
  is exact: for one producer, and for several while no put is overtaken (both
  proved).  The effects of an overtaken put are left to those
  modules.

The hardware (exception entry, MON_STEP, breakpoints, interrupt return) is
modelled from how the code uses it and marked external in `PROJECT.json`.

### Breakpoints

* `bwList` is `bw_list`, newest first; `SetBreakwatch` and `ClearBreakwatch` are
  `target_breakwatch_set` and `_clear` with the command they send and what
  `breakpointCommand` does with it (`DeviceSet`, `DeviceClear`).  `fpComp` are the
  comparators: a word and the half-words they stop at, which are the two bits of
  FP_COMP.  `fpEnabled` is FP_CTRL, set by the first breakpoint.
* The transaction of a set or a clear may be lost.  `breakpointsSetClear` gives up, its
  result is ignored and GDB is told OK all the same (TargetsInit.cpp 164-166, 187-189):
  the list changes and the comparators do not.  The history `unset` has the breakpoints
  that GDB takes for inserted and whose setting was lost.
* The device does not hear of a breakpoint's type; the list tells types apart.
* `ClearBreakwatch` sends the entry *and all behind it*, because
  `stm32_breakwatch_clear` follows the `next` pointers of the list (`Behind`).
  The packet is modelled, not the copying of `breakpointsSetClear`, which counts
  bytes as elements and runs past its buffers; more entries than fit a packet
  (`MaxSent`) are left out, as are breakpoints at address 0, the mark of a free
  comparator, and in RAM.
* GDB is external.  `AlwaysInserted` is its setting: by default it inserts
  before it lets the target run and removes all when it has stopped.
* A broken connection (`ConnectionLost`) is accepted anew without a detach
  (`gdb_if_getchar`), so the list stays; a new server (`ServerEnds`) has an empty
  one while the comparators stay.  `leftover` is what was armed when GDB
  connected, and what stayed armed because its removal was lost.

### FlashLoad

* An address is a sector and a cell (a half-word).  `bufAddr` and `buf` are
  `buf_addr` and `buf`; a buffer without a sector does not exist between packets,
  so `NoSector` stands for both.  `flashMode` is `flash_mode`.
* `FlashErase`, `FlashWrite`, `FlashDone` are the packets, `FlashWrite` one cell
  at a time: `target_flash_write_buffered` treats a chunk as it would its cells.
  `WriteBuffered`, `Flush` and `DoneBuffered` are the operations of `target.c`.
* `ProgramSector` is `memWrite` and the device's `flashWrite`: the packets from some
  cell to another arrive, all of them or fewer, and a half-word is programmed
  only if it is erased or the value is zero.  `memWrite` gives up at an answer that is
  missing or not its own, with the board still there (TargetSTM32F1.cpp 193-197), the
  count is dropped (TargetsInit.cpp 242) and GDB is told OK.  The history `cut` has the
  sectors of the load that were not erased or not all written.
* GDB is external: it erases the sectors of its image range by range, writes in
  ascending order, and may stop anywhere (`BreakOff`).  Loads lie in the pages of
  the user; the device ignores others.
* An erase is answered before it is carried out (main.cpp 215).  As a rule the device
  erases before it serves the next command, because the erase loop disables the USB
  interrupts; but the loop may be stopped by a step that was left over
  (`EraseIsNotStopped`), the request may find its queue full or be lost.  So
  `EraseSectors` erases, or leaves the sectors in `pending`, from where `LateErase` takes
  them at any later time, also behind the writes; or nothing happens.  The history
  `due` has the sectors that were pending when the load began.
* `image` is what flash is to hold: the old content, erased where the load
  covers it, with GDB's writes.  `leftover` is the sector that was in the buffer
  when the load began, `reset` and `brokenOff` record the load's history.

### UsbLink

* A packet is the number of its command.  `out` and `in` are the buffers of endpoint
  1, `frame` is `usbCmdFrame`.  `WritePipe` and `ReadPipe` are the halves of
  `sendAndReceive`; `ReadPacket` and `WritePacket` are `usbDataOutCallback` before
  and after it executes the command.  Between them the receive buffer is free
  again, so three packets can be on their way, and a full transmit buffer drops the
  answer (`main.cpp` 368 ignores the result).
* `RestartServer` is a new server process: it does not know that an answer is due.
  `BusReset` and `SetConfig` are what the device does when the bus is reset and it
  is configured anew.
* `Unread`, the packets in `in`, `frame` and `out` in that order, is the `pipe` of
  `AnswerPipe`.
* `lag`, `first`, `overlaps`, `lost` and `mute` are history variables.
* `sysCallWriteUsbSerial` is one action for each access to `allowUsbTransfer`, because
  the USB interrupt preempts SVC.  Its wait is bounded by a counter in the code
  (`SvcGivesUp`).

### HostTransfer

* An `op` is one call of `memRead`, `memWrite` or `regsRead`; `offset` is its progress
  and `data` its result.  A step is one transaction: the command for the next
  packet (`Command`), what the bootloader does and answers (`Execute`, `Answer`), and the
  tests and the body of the loop (`Accepts`, `Handle`).  `pipe` has the answers an
  earlier server has left; a transaction receives the oldest one, and of those behind
  it any may have been dropped (`Survivors`), as `AnswerPipe` allows.
* A byte is known by the write it comes from and its address, so that a byte in the
  wrong place differs from every right one.  `Accessible` is
  `checkMemRegionAccess`, which only reads ask.
* `Takes` is what a write leaves in memory.  The address a packet starts at decides
  between `flashWrite` and `dbg_memcpy` (main.cpp 101-105); a half-word of flash that
  is not erased is not programmed, except to `Zero`, the result of `flashWrite` is ignored
  and the packet is answered in full.  `Writable` says the same of an operation, from
  `fresh`, the flash that was erased when it began; what is counted has been written
  there and need not have been elsewhere.
* `in` is the head of the receive buffer, which a failed transaction leaves as it
  was; `memWrite` compares it without a look at the size it has received.
* All accesses have one alignment.

### GdbSession

* The server is where it can wait: in `gdb_getpacket` ("packet"), at
  `target_halt_poll` ("poll"), at `gdb_if_getchar_to(0)` ("char"), and in
  `gdb_putpacket` for an acknowledgement ("ack").  One action leads from one such
  point to the next.
* `inbox` and `outbox` are the two directions of the TCP connection, elements are
  packets or single characters.  `access` stands for every packet that is
  answered at once without a change of who runs.
* gdb is external: it sends the next command after the reply to the last, an interrupt
  while it believes the process runs, may close the connection anywhere, and a new
  gdb may connect anywhere.  It acknowledges packets and ignores those
  before the acknowledgement of its own.  The bit of a command tells it from the one
  before; the protocol has none, it is there to state `AnswerIsOwn`.
* A transaction may fail, with its command executed or not.  `dev` is the device
  as `DebugMonitor` shows it to the host.
* The interrupt character is renamed "late" when its run has stopped before the
  server read it.

## 3. Runs

| Run | Question | Bounds |
|---|---|---|
| `ring` | is the ring a FIFO with one producer? | 4 slots (the size of `gEraseParams`), 2 values |
| `preempted_put` | where does it stop being one with the real producers? | 3 slots, 2 values that are symmetric, 3 producers on 3 levels, one of them the consumer's |
| `debugger` | masking, step-out, one instruction per step, deferral, what the host is told, loops run alone | 3 queued commands, 1 request, 2 nested interrupts, 2 pages |
| `step_out` | does a step-out end? | 2 commands, 2 nested interrupts |
| `erase` | does the erase loop return, having erased? | 2 commands, 2 queued requests of 3, 3 pages |
| `breakpoints` | do list and comparators agree; does the target stop where asked? | 5 breakpoints in 3 words, 2 comparators, 1 that stops, list of 4 |
| `load` | does flash hold the image after a load; is anything else touched? | 2 sectors of 2 cells, 3 values |
| `usb` | which answer does a server get; is endpoint 1 a pipe of answers; is a waiting server answered; is the permission to print kept? | 5 commands, 3 chunks, 2 starts of the firmware |
| `transfer` | do transfers bring what they should, and end? | 4 units of memory, 1 of RAM and 3 of flash, packets of 2; 2 registers, packets of 1 |
| `registers` | finding | as `transfer`, 3 registers, packets of 2 |
| `session` | who is shown as stopped, whose reply is it and is it under way, what does an interrupt stop, who is served? | 4 sends, 2 interrupts under way |
| `lost_target` | finding | as `session` |

Bounds and why they are enough:

* Three slots hold two commands: a put meets a full ring, and one that was overtaken
  finds its `next` behind, at and in front of `_last`.  Each producer puts any number of
  times, so each of them is overtaken by each above it, and by both.
* `QueueCap` is 15 in the code (16 slots).  With 3 a full queue, a deferred
  command behind which others pile up, and the pair of commands that Detach and
  SVC post are all reached; the handler looks at the head and at emptiness only.
* `ParamsCap` is 3 in the code; 2 gives an empty, a partial and a full queue.
* `MaxNesting` 2 has an interrupt that is itself interrupted, where stepping out of the
  inner one ends in the outer; deeper nesting is the same test `isr > 0`.  The proofs cover every value of these.
* Pages are one refused, one with the vector table, one more.
* `Comparators` is 8 in the code, 6 of which compare instructions; with 2 and 1
  both kinds run out.  `MaxListed` 4 lets an abandoned session leave entries
  behind the ones of the next.  The words with one breakpoint are symmetric.
* Two sectors are the one in the buffer and another; two cells give a partial
  write and a broken transfer; the values are erased, zero, which overwrites
  anything, and one that does not.  Flash is arbitrary at the start, every erase may
  wait or be lost, and every sector be cut off anywhere.
* Five commands let a server be two answers behind, the most that can be, and
  regain the step.  Three chunks and two starts lose a chunk and print another.
* Memory of one unit of RAM and three of flash behind it has packets within a region
  and across its end, flash that is erased, not erased and partly so, a write of two
  packets into flash and one that begins in RAM; operations take one or two packets.
  The finding about registers has two of three in a packet, as 15 of 16 are.  The data
  of a write is one that needs erased flash; zero would multiply the states by four,
  and the proof covers it.
* Four sends are the code's.  With two interrupts one comes late while another is
  under way.

`CHECK_DEADLOCK FALSE` stands in the configurations of `DebugMonitor`, where a debugger
that waits with the USB interrupts disabled is a real stop of the system (by the erase
loop, section 4, or by a firmware that has disabled them itself), and in that of
`usb`, where the commands, chunks and starts are used up in the end.

The `debugger` run sends every command; the runs of liveness and of the findings
send those that matter to them (`HostCommands`).  `DebugMonitor` sends any command at
any time, which is more than the server of this repository does.

### Fairness

`step_out` and `erase` assume weak fairness of the handler and of SVC, which
nothing but the USB interrupt preempts, and strong fairness of the thread's
instructions, the erase loop's and, for each level of nesting, the return of the user
interrupt there: between two
USB packets the processor executes instructions, since a packet takes longer to
arrive than to serve, and a user interrupt handler returns because
`Readme.RUS.txt` forbids handlers that loop ("Нельзя зацикливать обрабтчики
прерываний").  Fairness of returns from whatever level would not do: an inner interrupt
that is entered and left for ever would pass for a handler that returns, while the outer
one never does.  The host is under no fairness at all in these two runs.

`usb` assumes that the USB interrupt runs and that the host's controller polls the
endpoint a server reads from; nobody has to read the serial endpoint, to start a
server or to send a command.  `session` assumes that the server runs and its timeouts
pass, that gdb reads what it is sent as long as it is there, and that a device
that was told to stop does, which is `StepOutEnds` and the service of the
queue in `DebugMonitor`.  A running target need not stop by itself.

## 4. Findings

* `registers` (TargetSTM32F1.cpp:220).  `regsRead` copies every packet to the start of
  its result; the line it replaced, kept as a comment, added the offset.  Sixteen
  registers take two packets, so GDB sees the last register in the place of the first
  and nothing in the last place.
* `lost_target` (TargetSTM32F1.cpp:288).  A poll of the halt state that fails yields
  `Undefined`, which ends the wait for a halt and is reported as a stop at a
  breakpoint; `TARGET_HALT_ERROR`, which is there for it, is never returned.

Five more disagreements between the texts and the code have a definition and a
configuration that shows the counterexample:

* `NoStrandedCommand`, `MCDebugStranded.cfg` (Debug.cpp:380).  Leaving MON_PEND alone
  on a non-empty queue does not bring the handler back, because taking the
  exception has cleared it.  With no firmware in flash a Detach leaves its Resume in
  the queue, and the next USB command serves it first.
* `EraseIsNotStopped`, `MCDebugEraseHalts.cfg` (Debug.cpp:301-313).  StartEraseLoop
  does not clear MON_STEP.  Halted after a single step, or after the firmware was
  started by an earlier load, a new load stops in the first instruction of the
  erase loop; the writes that follow program pages that were not erased.
* `WaitingIsReachable`, `MCDebugUnreachable.cfg` (Debug.cpp:140).  A step inside the
  erase loop over the instruction that disables the USB interrupts leaves the
  debugger waiting for a command that cannot arrive.  `UnreachableOnlyWhenStepping`,
  checked and proved, says that for an erase loop there is no other way.  (A firmware may
  disable the USB interrupts by its system call, which takes any number up to 255:
  `SvcEnableDisableIrq`.  It is then out of reach at its next breakpoint.)
* `AcceptedIsArmed`, `MCBreakpointsDeleted.cfg` (TargetsInit.cpp:174).  With GDB's
  "always-inserted" setting, deleting one breakpoint disarms all older ones, because
  the entry is sent with the rest of the list behind it.  (The same property also
  fails when the comparators run out: `breakpointCommand` answers as if it had set
  the breakpoint; and where the transaction was lost, `stm32_breakwatch_set` does.)
* `LoadedIsImage`, `MCFlashLoadBroken.cfg` (target.c:303).  The sector buffer survives
  a load that is broken off, and so does its content: the next load is answered
  with OK while a sector of it holds data of the broken one, or a sector outside it is
  programmed.

Three answers of OK have no sentence in the repository's texts to disagree with, but a
user of the debugger should know of them.  The models have them as behaviours, and the
properties except exactly them:

* A breakpoint is set or removed in the list although the command was lost (`unset`,
  `leftover` of `Breakpoints`).
* A sector is programmed in part, or its erase has not been carried out, and vFlashDone is
  answered with OK (`cut`, `due` of `FlashLoad`).
* A half-word of flash that was not erased keeps its content and is counted as written
  (`Writable` of `HostTransfer`).

## 5. Proofs

`CircularBufferProofs`: `TypeCorrect` for any producers; with one producer
`NoSlotRaceHolds` and `RingRefinesFifo`.  The invariant says that a producer's
`next` is the slot after `_last` from its computation to its publication, that
between check and publication the ring is not full, and that a consumer inside
`get` or `pull` has a non-empty ring and, at `advance`, a copy of the oldest
value.  A publication then appends to `Items`, an advance removes the head, every
other step leaves `Items` alone.  Assumptions: the ring has at least two slots,
the consumer is not a producer.

`PreemptedPutProofs`, for any number of producers on levels that nest.  The ring's
contents may be corrupted here, so the invariant speaks of each put on its own: one that
is not overtaken has as its `next` the slot after `_last` (`PutUndisturbed`), if one is
overtaken so is every one it has interrupted (`OvertakenBelow`), and the consumer inside
an operation has a non-empty ring (`TakeProgress`), because whoever interrupts it is not
interrupted.  From it: `OnlyOvertakenPutCorruptsAlways`, every step but the
store and the publication of an overtaken put is a step of `BoundedFifo`;
`UndisturbedPutAppends`, a put that is not overtaken appends its own value, whatever
began, failed or wrote to the same slot in between; and `ReadSlotKeptAlways`, the slot
the consumer is reading keeps its content while it reads.  `NoSlotRace` itself
does not hold with several producers: a put that has aimed at a slot and is overtaken may
find it published and read by the consumer, but does not resume before the consumer has
left its operation.

`DebugMonitorProofs`: `TypeCorrect`, then `InvariantHolds` for `IInv`, from which
the safety properties of the run follow, but for one.  The properties are not inductive:
that BASEPRI is lowered, for example, depends on where a stepping phase can be,
which depends on MON_STEP surviving the handler's own updates of DEMCR.  The
parts of `IInv`:

* `CopyInv`: the handler's copy of DEMCR can be stale in MON_PEND only, since
  nobody else changes MON_STEP while it is active.
* `ProgramInv`: interrupts and step-outs need the firmware in thread mode.
* `StepOutInv`: during a step-out the handler is at its start or leaving, and
  leaves with MON_STEP; BASEPRI is raised exactly in the phases 2 and 3.
* `OrderedStepInv`, `PhaseInv`, `StepCountInv`: what the values 1, 2, 3 of
  `stepOnThread` say about where the processor is and what it has executed.
* `HaltStateInv`: what `gHaltState` says about the handler.

`UnreachableOnlyWhenStepping` needs `OffInv` as well, which is inductive relative to
`IInv`: while the USB interrupts are disabled in the erase loop nothing pends the handler
but MON_STEP, no stale copy of DEMCR can bring MON_PEND back, and the loop does not
reach its own post before it has enabled them.  Two more facts about stepping out and
about what a waiting debugger reports, `StepOutStaysArmed` and `WaitingIsReported`,
are proved only.

Of the two liveness properties of the erase loop the safety cores are proved.
`FreeEraseComesCloser`: while the loop runs with the USB interrupts disabled and MON_STEP
clear, nothing else moves (`OnlyEraseLoopMoves`) and each step is one closer to their
re-enabling, in the lexical order of the stage of the loop, the requests queued and the
pages left of the one under way; it assumes that `Pages` is finite.
`RequestedPagesAreKept`: meanwhile a page that was asked for stays asked for until it is
erased.  What is left to TLC is that the processor goes on, which is the fairness, and that the order
has no infinite descent.

`NextIInv` has one step per action; the entry is split by its six cases and
`StoreDemcr` by the point it is at.  TLC checked `IInv` before it was proved.

`BreakpointsProofs`: `TypeCorrect`, `OneComparatorPerWordHolds`,
`InsertedIsListedHolds` and `OnlyInsertedStopsHolds` for either setting, from an
invariant that adds `CompInv` (a comparator has a word exactly while it has a
half-word).  Any transaction may be lost: what a lost removal leaves armed is in
`leftover`, what a lost set leaves unarmed in `unset`, and the theorems say that nothing
else differs.  `StopsWhereAskedHolds` assumes GDB's default setting.  Its invariant,
`LazyInv`, says that a session that began with free comparators has them filled
from the lowest (`LowestFirst`) and that what GDB has inserted is armed, found all of
them taken or was lost on its way (`Reached`).

`FlashLoadProofs`: the four properties of the run, for every size of flash and every set
of values. `DoneIsWritten` needs to know where each sector is during a load: the buffer
has the sector written last (`BufferInv`), what is ahead of it is still blank in the
image because GDB writes in ascending order (`AheadInv`), and of the erased sectors the
buffered one is blank in flash and all others are as in the image (`FlashInv`), but for
those in `cut` or `due`. Programming a blank sector then makes it so. `PendingInv` says
that what is still to be erased is in `due` or `cut`, and of the sectors GDB has had
erased in `cut`: so `LateErase` spoils no other.

`UsbLinkProofs`: the safety properties, for any number of commands, chunks and starts.
The invariant counts.  On endpoint 1 it bounds what is in front of an answer
(`Distance`): a server sends the next command only after it has read an answer, so
one that found two packets in front of its own is answered two commands
later at the latest; `NextAnswer` says which answer the read under way will bring.
On endpoint 2 it counts permissions (`Permissions`): `allowUsbTransfer`, a chunk being
written, in the buffer, or read but not completed each hold one, and only
a start of the firmware creates one, so a chunk is lost only where a start
has met one on its way.  `BehindOnlyByRestartAlways` adds that a server falls behind by a
restart only; dropping an answer never loses the step.

`LinkImplementsPipe` is the refinement of `AnswerPipe`, one lemma per action: sending
appends to `Unread`, which the invariant keeps at no more than two before; reading takes
the oldest, because `in` is in front; the interrupt that takes a command moves it from one
buffer to the next and stutters; the one that answers stutters or, on a full buffer,
drops the second of the answers.  `AnswerIsOnItsWayAlways` is the safety core of `HostIsAnswered`: a server that reads
has a packet on its way that brings it an answer.

`HostTransferProofs`: for every memory, set of regions, size of packet and of
operation, `ReadIsMemory`, `ReadIsOfItsAddress`, `CountedIsWritten`, `EachRoundAdvances` and
`CutShortByFailure`.  The invariant says of every answer on its way that it is one the
bootloader gives, with contents of its address (`GoodAnswers`), and of the memory that it
holds at each address what is meant for it (`MemoryInPlace`).  `FreshKept` says that
flash that was erased when a write began is erased still or holds what was sent.  The difficult case is a
write of which a transaction fails: `memWrite` then compares the head of the last answer
again.  `AnswerIsPast` says that past the first packet this head is of an earlier
address and ends the loop; in the first packet it may be the answer to an earlier write of
the same address, which is why `CountedIsWritten` excepts that packet.  `ReadIsMemory`
speaks of the packet that carries a byte, a multiple of the packet's size: the invariant
says that `offset` is one until the last packet, and from the bounds of a division by a
positive number follows that no other packet covers the byte.

`GdbSessionProofs`: the safety properties, for any number of sends and interrupts.
The invariant is that of an alternating bit: at most one command is in `inbox`, the one gdb
waits for an acknowledgement of, with nothing late behind it (`InboxInv`); what is in
`outbox` before that acknowledgement answers an earlier command, what is behind it this
one (`OutboxInv`); the packet the server repeats is on the same side (`ReplyInv`).  On top
of it `PollInv`, `GoodReply` and `ProcessInv` relate where the server is, what the
device does and what gdb believes.  `NoStepLeftOverAlways` proves that no step is left
over for a later continue.  It rests on the gdb that is modelled: a refused step would
leave `single_step` set, but gdb steps only a process it shows, and then the server has
a target.  `AnswerIsComingAlways` adds `ComingInv`: when the server expects an
acknowledgement, one is in front of gdb's command, so the character `gdb_putpacket` reads
is never the start of that command; and behind the acknowledgement of the command is
its reply, or the server waits for the halt that it reports.

The type invariants of `CircularBuffer`, `UsbLink` and `GdbSession` are proved and in no
run of their own; the runs check what is hard instead.

Not proved, and left to TLC, are the liveness properties: `StepOutEnds`,
`EraseLoopComesBack`, `RequestedPagesAreErased`, `HostIsAnswered`, `InterruptStops` and
`WaitingGdbIsServed`.  Fairness and ENABLED are out of the prover's reach; the
safety core of four of them is proved, as said above (`StepOutStaysArmed`,
`FreeEraseComesCloser`, `RequestedPagesAreKept`, `AnswerIsOnItsWay`).  The two findings that
are runs are counterexamples and have no proof to be had.

## 6. Plan

Done: queues, debug monitor, breakpoints, flash load, the USB link with the serial
channel, host transfers, the gdb session with its packet layer.

Left, in this order:

1. **EraseBounds** (`Debug.cpp` 141-162): the bounds of an erase in 32-bit
   arithmetic against a reference definition.
2. **DebugMonitor with FlashLoad**, so that "an erase precedes the writes" becomes
   a property of the composition.
3. An abstract **DebugTarget** (halted, running, stepping, erasing) that
   `DebugMonitor` implements, with the proof of the refinement; it would
   replace what `GdbSession` says of the device.
4. The monitor commands (`command.c`) as actions of `GdbSession`.

## 7. Not modelled

* Register contents and the context copied by `DebugMon_Handler`; the order in which
  `stm32_regs_read` and `stm32_reg_read` copy bytes (TargetsInit.cpp 26-52); USB
  descriptors and enumeration; clocks and pins.
* `regsWrite`: it is called with one register only, and `stm32_reg_write` and
  `stm32_mem_write` send bytes of the pointer or vector object (TargetsInit.cpp 85,
  113), which is a matter of contents.  `check_error` of the target is always
  false, so memory accesses are answered to GDB as successes.
* Escapes and checksums of GDB packets: TCP delivers what was sent, whole.
* An unknown or too short USB command, which spins for ever (`main.cpp` 361-366): the
  server sends none.
* Semihosting (`gdb_hostio.c`): nothing in the server starts such a call.
* The demo firmware, which is an arbitrary firmware here.
* The vendored library beyond the endpoint code, and the unused host
  sources (`cortexm.c`, `remote.c`, ...).  They are most of the repository: of some
  112000 lines about 104000 are headers and drivers of libopencm3 for
  other chips and sources of Black Magic Probe that no project builds.  They
  keep no state of this system.

A firmware that breaks the rules of `Readme.RUS.txt` (interrupt priorities above 0x30,
a moved vector table) is outside the model, and so are writes by the host into DEMCR
or the NVIC through the memory commands.
