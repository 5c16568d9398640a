---------------------------- MODULE DebugMonitor ----------------------------
(***************************************************************************)
(* The on-chip debugger of the bootloader: the DebugMon exception and its  *)
(* DebugHandler (Bootloader/App/Debug.cpp), the command queue the USB      *)
(* interrupt and the SVC call fill, the code the handler switches thread   *)
(* mode to (firmware, local loop, flash erase loop), and the Cortex-M3     *)
(* exception behaviour they rely on.                                       *)
(*                                                                         *)
(* Contexts, most urgent first: the USB interrupt (0x10) preempts all the  *)
(* others anywhere; DebugMon and SVC (both 0x20) preempt user code but not *)
(* each other; user interrupts (0x30 and below); thread mode.              *)
(*                                                                         *)
(* The USB interrupt is the only context that runs while DebugHandler is   *)
(* active, so a step of the handler ends where it touches what that        *)
(* interrupt also touches: the command queue and the register DEMCR, which *)
(* every |= and &= loads, changes and stores.                              *)
(***************************************************************************)
EXTENDS Naturals, Sequences, FiniteSets

CONSTANTS Pages,         \* flash pages
          UserPages,     \* those from 0x8004000 on, behind the bootloader
          FirmwarePage,  \* the page of the firmware's vector table
          Requests,      \* the page sets a host asks to erase
          HostCommands,  \* the commands this instance's host sends
          QueueCap,      \* places in gCmdQueue
          ParamsCap,     \* places in gEraseParams
          MaxNesting     \* user interrupts active at once

Commands == {"Halt", "Resume", "ResumeStep",
             "StartFirmware", "StartLocalLoop", "StartEraseLoop"}

(* The commands that replace the code of thread mode. *)
StartCommands == {"StartFirmware", "StartLocalLoop", "StartEraseLoop"}

HostCommand == {"Halt", "Resume", "ResumeStep", "FlashDetach", "Unlock",
                "Erase", "Detach", "Write"}

ASSUME PageAssumption == UserPages \subseteq Pages /\ FirmwarePage \in UserPages
ASSUME RequestAssumption == Requests \subseteq (SUBSET Pages) \ {{}}
ASSUME HostAssumption == HostCommands \subseteq HostCommand
ASSUME BoundAssumption == /\ QueueCap \in Nat \ {0}
                          /\ ParamsCap \in Nat \ {0}
                          /\ MaxNesting \in Nat

VARIABLES
    gCmdQueue,          \* commands waiting for DebugHandler, oldest first
    gEraseParams,       \* page sets waiting for flashEraseLoop, oldest first
    gHaltState,         \* what the host is told: Running, Request, Breakpoint
    monPend, monStep,   \* DEMCR.MON_PEND, DEMCR.MON_STEP
    dfsrBkpt,           \* DFSR.BKPT
    basepri,            \* BASEPRI is 0x30: user interrupts are masked
    stepOnThread,       \* statics of DebugHandler
    exitFromInterrupt,
    pc,                 \* where DebugHandler is, "out" when it is not active
    copy,               \* the value of DEMCR it has loaded and not yet stored
    isr,                \* user interrupts active below DebugMon
    userIrq,            \* some user interrupt is enabled in the NVIC
    usbIrq,             \* the USB interrupts 19 and 20 are enabled
    svc,                \* sysCallReset is between its two puts
    program,            \* what thread mode runs
    eraseAt,            \* where flashEraseLoop is
    erasing,            \* the pages its current request has left
    threadStep,         \* MON_STEP in the value of DEMCR it has loaded
    written,            \* pages that are not erased
    ran                 \* history: thread instructions since the last ResumeStep

handlerVars == <<stepOnThread, exitFromInterrupt, pc, copy, basepri>>
threadVars == <<program, eraseAt, erasing, threadStep>>
nvicVars == <<userIrq, usbIrq>>
demcr == <<monPend, monStep>>
vars == <<gCmdQueue, gEraseParams, gHaltState, monPend, monStep, dfsrBkpt,
          handlerVars, isr, nvicVars, svc, threadVars, written, ran>>

---------------------------------------------------------------------------
(* DebugHandler's straight-line code.  Each point that loads and stores    *)
(* DEMCR is named after what it does and what follows.                     *)
SetsStep == {"arm", "single", "enterLoop"}
ClearsStep == {"disarm", "resume"}
ClearsPend == {"release", "singleRelease", "loopRelease", "exitRelease"}
Updates == SetsStep \cup ClearsStep \cup ClearsPend

Points == Updates \cup {"out", "state", "fetch", "running", "entered", "exit"}

After == [arm           |-> "release",        \* 196, 291, 316, 349, 359
          release       |-> "out",            \* 197, 292, 317, 350, 360
          disarm        |-> "state",          \* 184, 215
          resume        |-> "running",        \* 254
          single        |-> "singleRelease",  \* 268
          singleRelease |-> "running",        \* 269
          enterLoop     |-> "loopRelease",    \* 283, 285
          loopRelease   |-> "entered",        \* 286, 311
          exitRelease   |-> "out"]            \* 382

NoCopy == [loaded |-> FALSE, pend |-> FALSE, step |-> FALSE]
Copies == [loaded : BOOLEAN, pend : BOOLEAN, step : BOOLEAN]

QueueOK(queue, entries, cap) == queue \in Seq(entries) /\ Len(queue) <= cap

TypeOK ==
    /\ QueueOK(gCmdQueue, Commands, QueueCap)
    /\ QueueOK(gEraseParams, Requests, ParamsCap)
    /\ gHaltState \in {"Running", "Request", "Breakpoint"}
    /\ monPend \in BOOLEAN /\ monStep \in BOOLEAN /\ dfsrBkpt \in BOOLEAN
    /\ basepri \in BOOLEAN
    /\ stepOnThread \in 0 .. 3
    /\ exitFromInterrupt \in BOOLEAN
    /\ pc \in Points
    /\ copy \in Copies
    /\ isr \in 0 .. MaxNesting
    /\ userIrq \in BOOLEAN /\ usbIrq \in BOOLEAN
    /\ svc \in BOOLEAN
    /\ program \in {"boot", "idle", "firmware", "localLoop", "eraseLoop"}
    /\ eraseAt \in {"start", "enter", "pull", "erase", "reenable", "put", "load", "store", "spin"}
    /\ erasing \in SUBSET Pages
    /\ threadStep \in BOOLEAN
    /\ written \in SUBSET Pages
    /\ ran \in 0 .. 2

Init ==
    /\ gCmdQueue = <<>> /\ gEraseParams = <<>>
    /\ gHaltState = "Running"
    /\ monPend = FALSE /\ monStep = FALSE /\ dfsrBkpt = FALSE
    /\ basepri = FALSE
    /\ stepOnThread = 0 /\ exitFromInterrupt = FALSE
    /\ pc = "out" /\ copy = NoCopy
    /\ isr = 0
    /\ userIrq = FALSE /\ usbIrq = TRUE
    /\ svc = FALSE
    /\ program = "boot" /\ eraseAt = "start" /\ erasing = {} /\ threadStep = FALSE
    /\ written \in {w \in SUBSET Pages : Pages \ UserPages \subseteq w}
    /\ ran = 0

---------------------------------------------------------------------------
(* Fault variant of Put: the test for a full queue is missing. *)
PutUnchecked(queue, entry, cap) == Append(queue, entry)

(* CircularBuffer::put with its result ignored, as every caller does. *)
Put(queue, entry, cap) == IF Len(queue) < cap THEN Append(queue, entry) ELSE queue

(* Post one command and pend the debug monitor (debugHaltRequest and its   *)
(* siblings).  The USB interrupt is never preempted and SVC only by an     *)
(* interrupt that sets the same bit, so the |= is one step.                *)
Post(command) ==
    /\ gCmdQueue' = Put(gCmdQueue, command, QueueCap)
    /\ monPend' = TRUE

(* The packets of the USB interrupt that change state.  It runs whenever   *)
(* its interrupts are enabled, DebugHandler active or not.                 *)
UsbPost(packet, command) ==
    /\ packet \in HostCommands /\ usbIrq
    /\ Post(command)
    /\ UNCHANGED <<gEraseParams, gHaltState, monStep, dfsrBkpt, handlerVars, isr,
                   nvicVars, svc, threadVars, written, ran>>

(* resetHaltCommand, and attachCommand for Attach. *)
UsbHalt == UsbPost("Halt", "Halt")
UsbResume == UsbPost("Resume", "Resume")
UsbResumeStep == UsbPost("ResumeStep", "ResumeStep")

(* flashCommand *)
UsbFlashDetach == UsbPost("FlashDetach", "StartFirmware")
UsbUnlock == UsbPost("Unlock", "StartLocalLoop")

(* attachCommand for Detach: start the firmware, then resume. *)
UsbDetach ==
    /\ "Detach" \in HostCommands /\ usbIrq
    /\ gCmdQueue' = Put(Put(gCmdQueue, "StartFirmware", QueueCap), "Resume", QueueCap)
    /\ monPend' = TRUE
    /\ UNCHANGED <<gEraseParams, gHaltState, monStep, dfsrBkpt, handlerVars, isr,
                   nvicVars, svc, threadVars, written, ran>>

(* flashCommand for Erase: debugStartEraseLoop fills both queues. *)
UsbErase(request) ==
    /\ "Erase" \in HostCommands /\ usbIrq
    /\ gEraseParams' = Put(gEraseParams, request, ParamsCap)
    /\ Post("StartEraseLoop")
    /\ UNCHANGED <<gHaltState, monStep, dfsrBkpt, handlerVars, isr,
                   nvicVars, svc, threadVars, written, ran>>

(* memoryWriteCommand into flash programs at once, in the interrupt. *)
UsbWrite(page) ==
    /\ "Write" \in HostCommands /\ usbIrq
    /\ written' = written \cup {page}
    /\ UNCHANGED <<gCmdQueue, gEraseParams, gHaltState, demcr, dfsrBkpt, handlerVars,
                   isr, nvicVars, svc, threadVars, ran>>

UsbInterrupt ==
    \/ UsbHalt \/ UsbResume \/ UsbResumeStep
    \/ UsbFlashDetach \/ UsbUnlock \/ UsbDetach
    \/ \E request \in Requests : UsbErase(request)
    \/ \E page \in UserPages : UsbWrite(page)

---------------------------------------------------------------------------
(* The top of DebugHandler: what it does with the context it interrupted.  *)
BreakpointWhileStepping == stepOnThread # 0 /\ dfsrBkpt

(* Fault variant of StopInInterrupt: BASEPRI stays raised. *)
StopMasked ==
    /\ isr > 0 /\ BreakpointWhileStepping
    /\ stepOnThread' = 0 /\ exitFromInterrupt' = FALSE
    /\ pc' = "disarm"
    /\ UNCHANGED basepri

(* A step of thread mode met a breakpoint inside a user interrupt: halt there. *)
StopInInterrupt ==
    /\ isr > 0 /\ BreakpointWhileStepping
    /\ stepOnThread' = 0 /\ exitFromInterrupt' = FALSE /\ basepri' = FALSE
    /\ pc' = "disarm"

(* A step of thread mode ended in a user interrupt: mask further ones and  *)
(* step out of this one.                                                   *)
BeginStepOut ==
    /\ isr > 0 /\ ~BreakpointWhileStepping /\ stepOnThread = 1
    /\ stepOnThread' = 2 /\ exitFromInterrupt' = TRUE /\ basepri' = TRUE
    /\ pc' = "arm"

ContinueStepOut ==
    /\ isr > 0 /\ ~BreakpointWhileStepping /\ stepOnThread # 1
    /\ exitFromInterrupt
    /\ pc' = "arm"
    /\ UNCHANGED <<stepOnThread, exitFromInterrupt, basepri>>

(* Fault variant of FinishStep: the phase is not advanced. *)
FinishStepAgain ==
    /\ isr = 0 /\ stepOnThread = 2
    /\ pc' = "arm"
    /\ UNCHANGED <<stepOnThread, exitFromInterrupt, basepri>>

(* Back in thread mode: execute the instruction that was to be stepped. *)
FinishStep ==
    /\ isr = 0 /\ stepOnThread = 2
    /\ stepOnThread' = 3
    /\ pc' = "arm"
    /\ UNCHANGED <<exitFromInterrupt, basepri>>

HaltInInterrupt ==
    /\ isr > 0 /\ ~BreakpointWhileStepping /\ stepOnThread # 1
    /\ ~exitFromInterrupt
    /\ stepOnThread' = 0
    /\ pc' = "state"
    /\ UNCHANGED <<exitFromInterrupt, basepri>>

(* Fault variants of HaltInThread: the step-out is not ended ... *)
HaltSteppingOut ==
    /\ isr = 0 /\ stepOnThread # 2
    /\ stepOnThread' = 0
    /\ basepri' = IF stepOnThread = 3 THEN FALSE ELSE basepri
    /\ pc' = IF exitFromInterrupt THEN "disarm" ELSE "state"
    /\ UNCHANGED exitFromInterrupt

(* ... and every halt takes the step back. *)
HaltAndDisarm ==
    /\ isr = 0 /\ stepOnThread # 2
    /\ stepOnThread' = 0 /\ exitFromInterrupt' = FALSE
    /\ basepri' = IF stepOnThread = 3 THEN FALSE ELSE basepri
    /\ pc' = "disarm"

HaltInThread ==
    /\ isr = 0 /\ stepOnThread # 2
    /\ stepOnThread' = 0 /\ exitFromInterrupt' = FALSE
    /\ basepri' = IF stepOnThread = 3 THEN FALSE ELSE basepri
    /\ pc' = IF exitFromInterrupt THEN "disarm" ELSE "state"

(* The pended exception is taken as soon as neither DebugHandler nor SVC   *)
(* is active; taking it clears MON_PEND.                                   *)
DebugMonEntry ==
    /\ monPend /\ pc = "out" /\ ~svc
    /\ monPend' = FALSE
    /\ \/ StopInInterrupt \/ BeginStepOut \/ ContinueStepOut
       \/ FinishStep \/ HaltInInterrupt \/ HaltInThread
    /\ UNCHANGED <<gCmdQueue, gEraseParams, gHaltState, monStep, dfsrBkpt, copy, isr,
                   nvicVars, svc, threadVars, written, ran>>

(* DEMCR |= or &=: the load ... *)
LoadDemcr ==
    /\ pc \in Updates /\ ~copy.loaded
    /\ copy' = [loaded |-> TRUE, pend |-> monPend, step |-> monStep]
    /\ UNCHANGED <<gCmdQueue, gEraseParams, gHaltState, demcr, dfsrBkpt, stepOnThread,
                   exitFromInterrupt, pc, basepri, isr, nvicVars, svc, threadVars,
                   written, ran>>

(* ... and the store of the changed copy. *)
StoreDemcr ==
    /\ pc \in Updates /\ copy.loaded
    /\ monPend' = (copy.pend /\ pc \notin ClearsPend)
    /\ monStep' = ((copy.step \/ pc \in SetsStep) /\ pc \notin ClearsStep)
    /\ copy' = NoCopy
    /\ pc' = After[pc]
    /\ UNCHANGED <<gCmdQueue, gEraseParams, gHaltState, dfsrBkpt, stepOnThread,
                   exitFromInterrupt, basepri, isr, nvicVars, svc, threadVars,
                   written, ran>>

(* 224-234: MON_REQ is never set, so only an empty queue means Breakpoint. *)
ReportState ==
    /\ pc = "state"
    /\ gHaltState' = IF gCmdQueue = <<>> THEN "Breakpoint" ELSE gHaltState
    /\ pc' = "fetch"
    /\ UNCHANGED <<gCmdQueue, gEraseParams, demcr, dfsrBkpt, stepOnThread,
                   exitFromInterrupt, copy, basepri, isr, nvicVars, svc, threadVars,
                   written, ran>>

---------------------------------------------------------------------------
(* The command loop, 241-377.  With an empty queue the handler sleeps.     *)
Serving(command) ==
    /\ pc = "fetch"
    /\ gCmdQueue # <<>> /\ Head(gCmdQueue) = command

Pull == gCmdQueue' = Tail(gCmdQueue)

ServeHalt ==
    /\ Serving("Halt") /\ Pull
    /\ gHaltState' = "Request"
    /\ UNCHANGED <<gEraseParams, demcr, dfsrBkpt, handlerVars, isr, nvicVars, svc,
                   threadVars, written, ran>>

ServeResume ==
    /\ Serving("Resume") /\ Pull
    /\ pc' = "resume"
    /\ UNCHANGED <<gEraseParams, gHaltState, demcr, dfsrBkpt, stepOnThread,
                   exitFromInterrupt, copy, basepri, isr, nvicVars, svc, threadVars,
                   written, ran>>

ServeResumeStep ==
    /\ Serving("ResumeStep") /\ Pull
    /\ stepOnThread' = IF isr = 0 THEN 1 ELSE stepOnThread
    /\ ran' = 0
    /\ dfsrBkpt' = FALSE
    /\ pc' = "single"
    /\ UNCHANGED <<gEraseParams, gHaltState, demcr, exitFromInterrupt, copy, basepri,
                   isr, nvicVars, svc, threadVars, written>>

(* Fault variant of DeferStart: the command is taken from the queue although *)
(* it was not served.                                                      *)
DeferAndPull ==
    /\ \E command \in StartCommands : Serving(command)
    /\ isr > 0
    /\ Pull
    /\ exitFromInterrupt' = TRUE
    /\ pc' = "arm"
    /\ UNCHANGED <<gEraseParams, gHaltState, demcr, dfsrBkpt, stepOnThread,
                   copy, basepri, isr, nvicVars, svc, threadVars, written, ran>>

(* A start command in a user interrupt stays queued: step out first. *)
DeferStart ==
    /\ \E command \in StartCommands : Serving(command)
    /\ isr > 0
    /\ exitFromInterrupt' = TRUE
    /\ pc' = "arm"
    /\ UNCHANGED <<gCmdQueue, gEraseParams, gHaltState, demcr, dfsrBkpt, stepOnThread,
                   copy, basepri, isr, nvicVars, svc, threadVars, written, ran>>

(* Fault variant of SwitchTo: user interrupts stay enabled. *)
SwitchWithInterrupts(newProgram) ==
    /\ isr = 0
    /\ Pull
    /\ program' = newProgram
    /\ eraseAt' = "start" /\ erasing' = {} /\ threadStep' = FALSE
    /\ UNCHANGED <<gEraseParams, gHaltState, demcr, dfsrBkpt, stepOnThread,
                   exitFromInterrupt, copy, basepri, isr, nvicVars, svc, written, ran>>

(* In thread mode user interrupts are disabled and the saved context is    *)
(* replaced: whatever thread mode was doing is abandoned.                  *)
SwitchTo(newProgram) ==
    /\ isr = 0
    /\ Pull
    /\ userIrq' = FALSE
    /\ program' = newProgram
    /\ eraseAt' = "start" /\ erasing' = {} /\ threadStep' = FALSE
    /\ UNCHANGED <<gEraseParams, gHaltState, demcr, dfsrBkpt, stepOnThread,
                   exitFromInterrupt, copy, basepri, isr, usbIrq, svc, written, ran>>

ServeStartLocalLoop ==
    /\ Serving("StartLocalLoop") /\ SwitchTo("localLoop")
    /\ pc' = "enterLoop"

ServeStartEraseLoop ==
    /\ Serving("StartEraseLoop") /\ SwitchTo("eraseLoop")
    /\ pc' = "loopRelease"

(* Fault variant of ServeStartFirmware: the firmware starts without MON_STEP. *)
StartFirmwareFreely ==
    /\ Serving("StartFirmware") /\ SwitchTo("firmware")
    /\ FirmwarePage \in written
    /\ pc' = "release"

(* An erased vector table is no firmware; other contents may be one.       *)
ServeStartFirmware ==
    /\ Serving("StartFirmware") /\ SwitchTo("firmware")
    /\ FirmwarePage \in written
    /\ pc' = "arm"

RefuseStartFirmware ==
    /\ Serving("StartFirmware") /\ isr = 0
    /\ Pull
    /\ userIrq' = FALSE
    /\ pc' = IF gHaltState = "Running" THEN "exit" ELSE "fetch"
    /\ UNCHANGED <<gEraseParams, gHaltState, demcr, dfsrBkpt, stepOnThread,
                   exitFromInterrupt, copy, basepri, isr, usbIrq, svc, threadVars,
                   written, ran>>

(* gHaltState = Running, then the loop's condition ends it (256, 270) or   *)
(* the handler returns (287, 312).                                         *)
ReportRunning ==
    /\ pc \in {"running", "entered"}
    /\ gHaltState' = "Running"
    /\ pc' = IF pc = "running" THEN "exit" ELSE "out"
    /\ UNCHANGED <<gCmdQueue, gEraseParams, demcr, dfsrBkpt, stepOnThread,
                   exitFromInterrupt, copy, basepri, isr, nvicVars, svc, threadVars,
                   written, ran>>

(* 380: MON_PEND is cleared only if no command is left. *)
Leave ==
    /\ pc = "exit"
    /\ pc' = IF gCmdQueue = <<>> THEN "exitRelease" ELSE "out"
    /\ UNCHANGED <<gCmdQueue, gEraseParams, gHaltState, demcr, dfsrBkpt, stepOnThread,
                   exitFromInterrupt, copy, basepri, isr, nvicVars, svc, threadVars,
                   written, ran>>

Handler ==
    \/ DebugMonEntry \/ LoadDemcr \/ StoreDemcr \/ ReportState
    \/ ServeHalt \/ ServeResume \/ ServeResumeStep \/ DeferStart
    \/ ServeStartLocalLoop \/ ServeStartEraseLoop
    \/ ServeStartFirmware \/ RefuseStartFirmware
    \/ ReportRunning \/ Leave

---------------------------------------------------------------------------
(* User code: what runs while the debugger is neither active nor pended.   *)
(* With MON_STEP set the exception is pended after every instruction.      *)
UserRuns == pc = "out" /\ ~svc /\ ~monPend

Retire ==
    /\ monPend' = monStep
    /\ ran' = IF isr = 0 /\ stepOnThread # 0 /\ ran < 2 THEN ran + 1 ELSE ran

Instruction ==
    /\ UserRuns /\ monStep
    /\ Retire
    /\ UNCHANGED <<gCmdQueue, gEraseParams, gHaltState, monStep, dfsrBkpt, handlerVars,
                   isr, nvicVars, svc, threadVars, written>>

UserInterruptEnter ==
    /\ UserRuns
    /\ userIrq /\ ~basepri /\ isr < MaxNesting
    /\ isr' = isr + 1
    /\ monPend' = monStep
    /\ UNCHANGED <<gCmdQueue, gEraseParams, gHaltState, monStep, dfsrBkpt, handlerVars,
                   nvicVars, svc, threadVars, written, ran>>

UserInterruptReturn ==
    /\ UserRuns
    /\ isr > 0
    /\ isr' = isr - 1
    /\ monPend' = monStep
    /\ UNCHANGED <<gCmdQueue, gEraseParams, gHaltState, monStep, dfsrBkpt, handlerVars,
                   nvicVars, svc, threadVars, written, ran>>

(* A flash-patch breakpoint in front of an instruction of the firmware. *)
Breakpoint ==
    /\ UserRuns /\ program = "firmware"
    /\ dfsrBkpt' = TRUE /\ monPend' = TRUE
    /\ UNCHANGED <<gCmdQueue, gEraseParams, gHaltState, monStep, handlerVars, isr,
                   nvicVars, svc, threadVars, written, ran>>

(* The fault, NMI and watchdog handlers set both bits and return. *)
Fault ==
    /\ UserRuns /\ program = "firmware"
    /\ monPend' = TRUE /\ monStep' = TRUE
    /\ UNCHANGED <<gCmdQueue, gEraseParams, gHaltState, dfsrBkpt, handlerVars, isr,
                   nvicVars, svc, threadVars, written, ran>>

(* SVC 1: sysCallEnableDisableIrq, for any interrupt: a user's or USB's.    *)
SvcEnableDisableIrq ==
    /\ UserRuns /\ program = "firmware"
    /\ \/ userIrq' \in BOOLEAN /\ UNCHANGED usbIrq
       \/ usbIrq' \in BOOLEAN /\ UNCHANGED userIrq
    /\ Retire
    /\ UNCHANGED <<gCmdQueue, gEraseParams, gHaltState, monStep, dfsrBkpt, handlerVars,
                   isr, svc, threadVars, written>>

(* SVC 0: sysCallReset, from systemMain at power-up or from the firmware.  *)
SvcResetStart ==
    /\ UserRuns /\ program \in {"boot", "firmware"}
    /\ svc' = TRUE
    /\ Post("StartFirmware")
    /\ program' = IF program = "boot" THEN "idle" ELSE program
    /\ ran' = IF isr = 0 /\ stepOnThread # 0 /\ ran < 2 THEN ran + 1 ELSE ran
    /\ UNCHANGED <<gEraseParams, gHaltState, monStep, dfsrBkpt, handlerVars, isr,
                   nvicVars, eraseAt, erasing, threadStep, written>>

SvcResetResume ==
    /\ svc
    /\ svc' = FALSE
    /\ Post("Resume")
    /\ UNCHANGED <<gEraseParams, gHaltState, monStep, dfsrBkpt, handlerVars, isr,
                   nvicVars, threadVars, written, ran>>

---------------------------------------------------------------------------
(* flashEraseLoop in thread mode.  An action is the instruction that takes *)
(* effect; the instructions around it are Instruction.                     *)
EraseLoopAt(point) == UserRuns /\ program = "eraseLoop" /\ isr = 0 /\ eraseAt = point

(* The instructions in front of the first effect: at least one. *)
EraseStart ==
    /\ EraseLoopAt("start")
    /\ eraseAt' = "enter"
    /\ Retire
    /\ UNCHANGED <<gCmdQueue, gEraseParams, gHaltState, monStep, dfsrBkpt, handlerVars,
                   isr, nvicVars, svc, program, erasing, threadStep, written>>

EraseEnter ==
    /\ EraseLoopAt("enter")
    /\ usbIrq' = FALSE
    /\ eraseAt' = "pull"
    /\ Retire
    /\ UNCHANGED <<gCmdQueue, gEraseParams, gHaltState, monStep, dfsrBkpt, handlerVars,
                   isr, userIrq, svc, program, erasing, threadStep, written>>

(* Fault variant of ErasePull: a refused request returns at once. *)
PullOrReturn ==
    /\ EraseLoopAt("pull")
    /\ erasing' = IF gEraseParams = <<>> THEN {} ELSE Head(gEraseParams) \cap UserPages
    /\ eraseAt' = IF gEraseParams = <<>> THEN "reenable"
                  ELSE IF Head(gEraseParams) \subseteq UserPages THEN "erase" ELSE "spin"
    /\ gEraseParams' = IF gEraseParams = <<>> THEN <<>> ELSE Tail(gEraseParams)
    /\ Retire
    /\ UNCHANGED <<gCmdQueue, gHaltState, monStep, dfsrBkpt, handlerVars, isr, nvicVars,
                   svc, program, threadStep, written>>

(* A request outside the user pages ends the loop (146-147). *)
ErasePull ==
    /\ EraseLoopAt("pull")
    /\ IF gEraseParams # <<>> /\ Head(gEraseParams) \subseteq UserPages
       THEN erasing' = Head(gEraseParams) /\ eraseAt' = "erase"
       ELSE erasing' = {} /\ eraseAt' = "reenable"
    /\ gEraseParams' = IF gEraseParams = <<>> THEN <<>> ELSE Tail(gEraseParams)
    /\ Retire
    /\ UNCHANGED <<gCmdQueue, gHaltState, monStep, dfsrBkpt, handlerVars, isr, nvicVars,
                   svc, program, threadStep, written>>

(* Fault variant of ErasePage: the loop ends with the first request. *)
EraseOneRequest ==
    /\ EraseLoopAt("erase")
    /\ \E page \in erasing :
         /\ written' = written \ {page}
         /\ erasing' = erasing \ {page}
         /\ eraseAt' = IF erasing = {page} THEN "reenable" ELSE "erase"
    /\ Retire
    /\ UNCHANGED <<gCmdQueue, gEraseParams, gHaltState, monStep, dfsrBkpt, handlerVars,
                   isr, nvicVars, svc, program, threadStep>>

ErasePage ==
    /\ EraseLoopAt("erase")
    /\ \E page \in erasing :
         /\ written' = written \ {page}
         /\ erasing' = erasing \ {page}
         /\ eraseAt' = IF erasing = {page} THEN "pull" ELSE "erase"
    /\ Retire
    /\ UNCHANGED <<gCmdQueue, gEraseParams, gHaltState, monStep, dfsrBkpt, handlerVars,
                   isr, nvicVars, svc, program, threadStep>>

EraseReenable ==
    /\ EraseLoopAt("reenable")
    /\ usbIrq' = TRUE
    /\ eraseAt' = "put"
    /\ Retire
    /\ UNCHANGED <<gCmdQueue, gEraseParams, gHaltState, monStep, dfsrBkpt, handlerVars,
                   isr, userIrq, svc, program, erasing, threadStep, written>>

(* debugStartLocalLoop in thread mode: the put, and the load and store of  *)
(* DEMCR |= MON_PEND.                                                      *)
ErasePut ==
    /\ EraseLoopAt("put")
    /\ gCmdQueue' = Put(gCmdQueue, "StartLocalLoop", QueueCap)
    /\ eraseAt' = "load"
    /\ Retire
    /\ UNCHANGED <<gEraseParams, gHaltState, monStep, dfsrBkpt, handlerVars, isr,
                   nvicVars, svc, program, erasing, threadStep, written>>

EraseLoad ==
    /\ EraseLoopAt("load")
    /\ threadStep' = monStep
    /\ eraseAt' = "store"
    /\ Retire
    /\ UNCHANGED <<gCmdQueue, gEraseParams, gHaltState, monStep, dfsrBkpt, handlerVars,
                   isr, nvicVars, svc, program, erasing, written>>

EraseStore ==
    /\ EraseLoopAt("store")
    /\ monPend' = TRUE /\ monStep' = threadStep
    /\ threadStep' = FALSE
    /\ eraseAt' = "spin"
    /\ ran' = IF stepOnThread # 0 /\ ran < 2 THEN ran + 1 ELSE ran
    /\ UNCHANGED <<gCmdQueue, gEraseParams, gHaltState, dfsrBkpt, handlerVars, isr,
                   nvicVars, svc, program, erasing, written>>

EraseLoop ==
    \/ EraseStart \/ EraseEnter \/ ErasePull \/ ErasePage \/ EraseReenable
    \/ ErasePut \/ EraseLoad \/ EraseStore

User ==
    \/ Instruction \/ UserInterruptEnter \/ UserInterruptReturn
    \/ Breakpoint \/ Fault
    \/ SvcEnableDisableIrq \/ SvcResetStart \/ SvcResetResume
    \/ EraseLoop

Next == UsbInterrupt \/ Handler \/ User

Spec == Init /\ [][Next]_vars

---------------------------------------------------------------------------
(* Safety.                                                                 *)

(* The debugger sleeps in its command loop. *)
Waiting == pc = "fetch" /\ gCmdQueue = <<>>

(* BASEPRI masks the firmware's interrupts only while a step of thread     *)
(* mode is stepping out of a user interrupt (Debug.cpp 189-212): never     *)
(* while the debugger waits for commands and never while the firmware runs *)
(* freely, whatever commands, breakpoints and faults came in between.      *)
MaskedOnlyWhileSteppingOut ==
    /\ basepri <=> stepOnThread \in {2, 3}
    /\ basepri => exitFromInterrupt
    /\ Waiting \/ (pc = "out" /\ ~monStep /\ ~monPend) => ~basepri

(* A step-out cannot be orphaned: as long as exitFromInterrupt is set the  *)
(* handler leaves with MON_STEP set and so is entered again, although the  *)
(* USB interrupt and the erase loop change DEMCR between its loads and     *)
(* stores.                                                                 *)
StepOutStaysArmed == pc = "out" /\ exitFromInterrupt => monStep

(* A start command that arrives in a user interrupt stays at the head of   *)
(* the queue until the step-out it causes has reached thread mode.         *)
DeferredCommandWaits ==
    exitFromInterrupt /\ stepOnThread = 0 =>
        gCmdQueue # <<>> /\ Head(gCmdQueue) \in StartCommands

(* One ResumeStep executes at most one instruction of thread mode, also    *)
(* when a user interrupt came first and had to be stepped out of.          *)
StepIsOneInstruction == ran <= 1

(* While the debugger waits the host is never told Running.                *)
WaitingIsReported == Waiting => gHaltState # "Running"

(* As long as the host is told the target is halted, the debugger has it:  *)
(* the handler is active or will be entered before a second instruction.   *)
ReportedHaltIsControlled ==
    gHaltState # "Running" => pc # "out" \/ monPend \/ monStep

(* The debugger stops an erase loop where no USB packet can reach it only  *)
(* because MON_STEP is set: a step that was left over is the one way for   *)
(* the loop to cut the host off (Debug.cpp 140, 311).                      *)
UnreachableOnlyWhenStepping ==
    program = "eraseLoop" /\ Waiting /\ ~usbIrq => monStep

(* Flash is erased, and the bootloader's loops run, with no user interrupt *)
(* active or able to start.                                                *)
LoopsRunAlone ==
    program \in {"localLoop", "eraseLoop"} => isr = 0 /\ ~userIrq

---------------------------------------------------------------------------
(* Statements of the repository's texts that the code does not keep.       *)

(* A command left in the queue brings the handler back: MON_PEND is cleared *)
(* only on an empty queue (Debug.cpp 380-382), the erase loop pends it at   *)
(* its end.                                                                 *)
NoStrandedCommand ==
    gCmdQueue # <<>> /\ pc = "out" /\ ~svc /\ program # "eraseLoop" => monPend \/ monStep

(* An erase that was started is not stopped by the debugger of itself: it   *)
(* halts in the erase loop only where the host asked for it.                *)
EraseIsNotStopped ==
    Waiting /\ program = "eraseLoop" => gHaltState # "Breakpoint"

(* The debugger can always be reached where it waits for commands, in an    *)
(* erase loop too.  (A firmware that has disabled the USB interrupts itself *)
(* stops out of the host's reach at its next breakpoint.)                   *)
WaitingIsReachable == Waiting /\ program = "eraseLoop" => usbIrq

---------------------------------------------------------------------------
(* Liveness.  The handler and SVC run to their end.  The processor gets to *)
(* execute instructions between USB packets, and every user interrupt      *)
(* handler returns, also one that others interrupt again and again.        *)
Fairness ==
    /\ WF_vars(Handler)
    /\ WF_vars(SvcResetResume)
    /\ SF_vars(EraseLoop)
    /\ SF_vars(Instruction)
    /\ \A level \in 1 .. MaxNesting : SF_vars(UserInterruptReturn /\ isr = level)

FairSpec == Spec /\ Fairness

(* Stepping out of a user interrupt comes to an end. *)
StepOutEnds == exitFromInterrupt ~> ~exitFromInterrupt

(* The erase loop past its first effect, with nothing left that stops it. *)
ErasingFreely ==
    /\ program = "eraseLoop" /\ ~usbIrq
    /\ pc = "out" /\ ~monStep /\ ~monPend

(* While it erases the bootloader does not answer over USB, but unless it   *)
(* is single-stepped it comes back (Debug.cpp 140 and 163).                 *)
EraseLoopComesBack == ErasingFreely ~> usbIrq

(* All the pages of all the requests that are queued while the loop works   *)
(* get erased, unless one of them is a request the loop refuses.            *)
RequestedPagesAreErased ==
    \A page \in UserPages :
        /\ ErasingFreely /\ eraseAt \in {"pull", "erase"}
        /\ \A i \in DOMAIN gEraseParams : gEraseParams[i] \subseteq UserPages
        /\ \E i \in DOMAIN gEraseParams : page \in gEraseParams[i]
        ~> page \notin written
===========================================================================
