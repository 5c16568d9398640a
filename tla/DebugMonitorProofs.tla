------------------------- MODULE DebugMonitorProofs -------------------------
(***************************************************************************)
(* Theorems about DebugMonitor, for every set of pages and requests, every *)
(* set of host commands, every queue size and every nesting of user        *)
(* interrupts.                                                             *)
(***************************************************************************)
EXTENDS DebugMonitor, FiniteSetTheorems, TLAPS

(* A put respects the queue's capacity. *)
LEMMA PutKeepsType ==
    ASSUME NEW S, NEW queue, NEW entry \in S, NEW cap \in Nat,
           QueueOK(queue, S, cap)
    PROVE  QueueOK(Put(queue, entry, cap), S, cap)
  BY DEF Put, QueueOK

LEMMA TailKeepsType ==
    ASSUME NEW S, NEW queue, NEW cap \in Nat,
           QueueOK(queue, S, cap), queue # <<>>
    PROVE  QueueOK(Tail(queue), S, cap) /\ Head(queue) \in S
  BY DEF QueueOK

LEMMA PutCommandType ==
    ASSUME NEW queue, NEW entry \in Commands, QueueOK(queue, Commands, QueueCap)
    PROVE  QueueOK(Put(queue, entry, QueueCap), Commands, QueueCap)
  BY PutKeepsType, BoundAssumption

LEMMA PullCommandType ==
    ASSUME QueueOK(gCmdQueue, Commands, QueueCap), gCmdQueue # <<>>
    PROVE  QueueOK(Tail(gCmdQueue), Commands, QueueCap)
  BY TailKeepsType, BoundAssumption

LEMMA InitTypeOK == Init => TypeOK
<1> SUFFICES ASSUME Init PROVE TypeOK
  OBVIOUS
<1>1. /\ monPend \in BOOLEAN /\ monStep \in BOOLEAN /\ dfsrBkpt \in BOOLEAN
      /\ basepri \in BOOLEAN /\ exitFromInterrupt \in BOOLEAN
      /\ userIrq \in BOOLEAN /\ usbIrq \in BOOLEAN /\ svc \in BOOLEAN
      /\ threadStep \in BOOLEAN
  BY Zenon DEF Init
<1>2. QED
  BY <1>1, PageAssumption, BoundAssumption
  DEF Init, TypeOK, QueueOK, Points, Copies, NoCopy

(* The top of DebugHandler leaves its statics in their ranges. *)
LEMMA EntryType ==
    ASSUME TypeOK, DebugMonEntry
    PROVE  /\ pc' \in {"arm", "disarm", "state"}
           /\ stepOnThread' \in 0 .. 3
           /\ exitFromInterrupt' \in BOOLEAN
           /\ basepri' \in BOOLEAN
<1> USE DEF TypeOK
<1>1. CASE StopInInterrupt
  <2>1. exitFromInterrupt' \in BOOLEAN /\ basepri' \in BOOLEAN
    BY <1>1, Zenon DEF StopInInterrupt
  <2>2. QED
    BY <1>1, <2>1 DEF StopInInterrupt
<1>2. CASE BeginStepOut
  <2>1. exitFromInterrupt' \in BOOLEAN /\ basepri' \in BOOLEAN
    BY <1>2, Zenon DEF BeginStepOut
  <2>2. QED
    BY <1>2, <2>1 DEF BeginStepOut
<1>3. CASE ContinueStepOut
  BY <1>3 DEF ContinueStepOut
<1>4. CASE FinishStep
  BY <1>4 DEF FinishStep
<1>5. CASE HaltInInterrupt
  BY <1>5 DEF HaltInInterrupt
<1>6. CASE HaltInThread
  <2>1. exitFromInterrupt' \in BOOLEAN
    BY <1>6, Zenon DEF HaltInThread
  <2>2. basepri' \in BOOLEAN
    BY <1>6 DEF HaltInThread
  <2>3. pc' \in {"arm", "disarm", "state"}
    BY <1>6, Zenon DEF HaltInThread
  <2>4. stepOnThread' \in 0 .. 3
    BY <1>6 DEF HaltInThread
  <2>5. QED
    BY <2>1, <2>2, <2>3, <2>4
<1>7. QED
  BY <1>1, <1>2, <1>3, <1>4, <1>5, <1>6 DEF DebugMonEntry

LEMMA NextTypeOK == TypeOK /\ [Next]_vars => TypeOK'
<1> SUFFICES ASSUME TypeOK, [Next]_vars PROVE TypeOK'
  OBVIOUS
<1> USE BoundAssumption
    DEF TypeOK, handlerVars, threadVars, nvicVars, demcr,
        Points, Updates, SetsStep, ClearsStep, ClearsPend
<1>1. CASE UsbHalt
  BY <1>1, PutCommandType DEF UsbHalt, UsbPost, Post, Commands
<1>2. CASE UsbResume
  BY <1>2, PutCommandType DEF UsbResume, UsbPost, Post, Commands
<1>3. CASE UsbResumeStep
  BY <1>3, PutCommandType DEF UsbResumeStep, UsbPost, Post, Commands
<1>4. CASE UsbFlashDetach
  BY <1>4, PutCommandType DEF UsbFlashDetach, UsbPost, Post, Commands
<1>5. CASE UsbUnlock
  BY <1>5, PutCommandType DEF UsbUnlock, UsbPost, Post, Commands
<1>6. CASE UsbDetach
  BY <1>6, PutCommandType DEF UsbDetach, Commands
<1>7. ASSUME NEW request \in Requests, UsbErase(request) PROVE TypeOK'
  BY <1>7, PutCommandType, PutKeepsType DEF UsbErase, Post, Commands
<1>8. ASSUME NEW page \in UserPages, UsbWrite(page) PROVE TypeOK'
  BY <1>8, PageAssumption DEF UsbWrite
<1>9. CASE DebugMonEntry
  <2>1. monPend' \in BOOLEAN
    BY <1>9, Zenon DEF DebugMonEntry
  <2>2. /\ pc' \in Points /\ stepOnThread' \in 0 .. 3
        /\ exitFromInterrupt' \in BOOLEAN /\ basepri' \in BOOLEAN
    BY <1>9, EntryType
  <2>3. QED
    BY <1>9, <2>1, <2>2 DEF DebugMonEntry
<1>10. CASE LoadDemcr
  BY <1>10 DEF LoadDemcr, Copies
<1>11. CASE StoreDemcr
  BY <1>11 DEF StoreDemcr, Copies, NoCopy, After
<1>12. CASE ReportState
  BY <1>12 DEF ReportState
<1>13. CASE ServeHalt
  BY <1>13, PullCommandType DEF ServeHalt, Serving, Pull
<1>14. CASE ServeResume
  BY <1>14, PullCommandType DEF ServeResume, Serving, Pull
<1>15. CASE ServeResumeStep
  <2>1. dfsrBkpt' \in BOOLEAN
    BY <1>15, Zenon DEF ServeResumeStep
  <2>2. QED
    BY <1>15, <2>1, PullCommandType DEF ServeResumeStep, Serving, Pull
<1>16. CASE DeferStart
  BY <1>16 DEF DeferStart, Serving, StartCommands
<1>17. CASE ServeStartLocalLoop
  BY <1>17, PullCommandType DEF ServeStartLocalLoop, Serving, SwitchTo, Pull
<1>18. CASE ServeStartEraseLoop
  BY <1>18, PullCommandType DEF ServeStartEraseLoop, Serving, SwitchTo, Pull
<1>19. CASE ServeStartFirmware
  BY <1>19, PullCommandType DEF ServeStartFirmware, Serving, SwitchTo, Pull
<1>20. CASE RefuseStartFirmware
  <2>1. userIrq' \in BOOLEAN
    BY <1>20, Zenon DEF RefuseStartFirmware
  <2>2. QED
    BY <1>20, <2>1, PullCommandType DEF RefuseStartFirmware, Serving, Pull
<1>21. CASE ReportRunning
  BY <1>21 DEF ReportRunning
<1>22. CASE Leave
  BY <1>22 DEF Leave
<1>23. CASE Instruction
  BY <1>23 DEF Instruction, UserRuns, Retire
<1>24. CASE UserInterruptEnter
  BY <1>24 DEF UserInterruptEnter, UserRuns
<1>25. CASE UserInterruptReturn
  BY <1>25 DEF UserInterruptReturn, UserRuns
<1>26. CASE Breakpoint
  BY <1>26 DEF Breakpoint, UserRuns
<1>27. CASE Fault
  BY <1>27 DEF Fault, UserRuns
<1>28. CASE SvcEnableDisableIrq
  BY <1>28 DEF SvcEnableDisableIrq, UserRuns, Retire
<1>29. CASE SvcResetStart
  BY <1>29, PutCommandType DEF SvcResetStart, UserRuns, Post, Commands
<1>30. CASE SvcResetResume
  <2>1. svc' \in BOOLEAN
    BY <1>30, Zenon DEF SvcResetResume
  <2>2. QED
    BY <1>30, <2>1, PutCommandType DEF SvcResetResume, Post, Commands
<1>31. CASE EraseStart
  BY <1>31 DEF EraseStart, EraseLoopAt, UserRuns, Retire
<1>32. CASE EraseEnter
  <2>1. usbIrq' \in BOOLEAN
    BY <1>32, Zenon DEF EraseEnter
  <2>2. QED
    BY <1>32, <2>1 DEF EraseEnter, EraseLoopAt, UserRuns, Retire
<1>33. CASE ErasePull
  BY <1>33, TailKeepsType, RequestAssumption DEF ErasePull, EraseLoopAt, UserRuns, Retire
<1>34. CASE ErasePage
  BY <1>34 DEF ErasePage, EraseLoopAt, UserRuns, Retire
<1>35. CASE EraseReenable
  BY <1>35 DEF EraseReenable, EraseLoopAt, UserRuns, Retire
<1>36. CASE ErasePut
  BY <1>36, PutCommandType DEF ErasePut, EraseLoopAt, UserRuns, Retire, Commands
<1>37. CASE EraseLoad
  BY <1>37 DEF EraseLoad, EraseLoopAt, UserRuns, Retire
<1>38. CASE EraseStore
  <2>1. threadStep' \in BOOLEAN
    BY <1>38, Zenon DEF EraseStore
  <2>2. QED
    BY <1>38, <2>1 DEF EraseStore, EraseLoopAt, UserRuns
<1>39. CASE UNCHANGED vars
  BY <1>39 DEF vars
<1>40. QED
  BY <1>1, <1>2, <1>3, <1>4, <1>5, <1>6, <1>7, <1>8, <1>9, <1>10, <1>11,
     <1>12, <1>13, <1>14, <1>15, <1>16, <1>17, <1>18, <1>19, <1>20,
     <1>21, <1>22, <1>23, <1>24, <1>25, <1>26, <1>27, <1>28, <1>29,
     <1>30, <1>31, <1>32, <1>33, <1>34, <1>35, <1>36, <1>37, <1>38,
     <1>39
  DEF Next, UsbInterrupt, Handler, User, EraseLoop

(* Every variable keeps its range, whatever the host sends and whenever. *)
THEOREM TypeCorrect == Spec => []TypeOK
  BY InitTypeOK, NextTypeOK, PTL DEF Spec

-----------------------------------------------------------------------------
(***************************************************************************)
(* The inductive invariant.  Its parts say what the handler's statics mean *)
(* at each of its points, which the properties leave open.                 *)
(***************************************************************************)

(* Only the handler changes MON_STEP while it is active, so the copy of    *)
(* DEMCR it works on can be out of date in MON_PEND only.                  *)
CopyInv == copy.loaded => pc \in Updates /\ copy.step = monStep

(* User interrupts, and so stepping out of one, need the firmware. *)
ProgramInv == program # "firmware" => isr = 0 /\ ~userIrq /\ ~exitFromInterrupt

StepOutInv ==
    /\ exitFromInterrupt => pc \in {"out", "arm", "release"}
    /\ exitFromInterrupt /\ pc # "arm" => monStep
    /\ pc = "release" => monStep
    /\ basepri <=> stepOnThread \in {2, 3}
    /\ stepOnThread \in {2, 3} => exitFromInterrupt

(* A step that was just ordered is armed, or the handler is pended anyway. *)
OrderedStepInv ==
    stepOnThread = 1 =>
        /\ ~exitFromInterrupt
        /\ pc \in {"out", "single", "singleRelease", "running", "exit", "exitRelease"}
        /\ pc # "single" => monStep \/ (pc = "out" /\ monPend)

(* Where a step that steps out is: 2 in the interrupt, 3 back in the thread. *)
PhaseInv ==
    /\ stepOnThread = 3 => isr = 0
    /\ stepOnThread = 2 => ran = 0 /\ (isr = 0 => pc = "out" /\ monPend)

(* Once the stepped instruction was executed the handler is pended. *)
StepCountInv ==
    /\ ran <= 1
    /\ ran = 1 /\ stepOnThread # 0 => isr = 0 /\ pc = "out" /\ monPend

HaltStateInv ==
    /\ pc \in {"exit", "exitRelease"} => gHaltState = "Running"
    /\ pc = "out" /\ gHaltState # "Running" => monPend \/ monStep
    /\ pc = "fetch" /\ gHaltState = "Running" => gCmdQueue # <<>>

IInv == /\ TypeOK
        /\ CopyInv
        /\ ProgramInv
        /\ StepOutInv
        /\ OrderedStepInv
        /\ PhaseInv
        /\ StepCountInv
        /\ HaltStateInv
        /\ DeferredCommandWaits

(* A put leaves the head of a queue alone. *)
LEMMA PutKeepsHead ==
    ASSUME NEW S, NEW queue \in Seq(S), NEW entry, NEW cap, queue # <<>>, entry \in S
    PROVE  Put(queue, entry, cap) # <<>> /\ Head(Put(queue, entry, cap)) = Head(queue)
  BY DEF Put

LEMMA PutCommandKeepsHead ==
    ASSUME NEW queue, QueueOK(queue, Commands, QueueCap), queue # <<>>, NEW entry \in Commands
    PROVE  Put(queue, entry, QueueCap) # <<>> /\ Head(Put(queue, entry, QueueCap)) = Head(queue)
  BY PutKeepsHead DEF QueueOK

LEMMA InitIInv == Init => IInv
  BY InitTypeOK
  DEF Init, IInv, CopyInv, ProgramInv, StepOutInv, OrderedStepInv, PhaseInv, StepCountInv,
      HaltStateInv, DeferredCommandWaits, NoCopy

LEMMA NextIInv == IInv /\ TypeOK' /\ [Next]_vars => IInv'
<1> SUFFICES ASSUME IInv, TypeOK', [Next]_vars PROVE IInv'
  OBVIOUS
<1> USE DEF IInv, TypeOK, CopyInv, ProgramInv, StepOutInv, OrderedStepInv, PhaseInv,
        StepCountInv, HaltStateInv, DeferredCommandWaits,
        handlerVars, threadVars, nvicVars, demcr,
        Updates, SetsStep, ClearsStep, ClearsPend
<1>1. CASE UsbHalt
  BY <1>1, PutCommandKeepsHead, PutCommandType DEF UsbHalt, UsbPost, Post, Commands
<1>2. CASE UsbResume
  BY <1>2, PutCommandKeepsHead, PutCommandType DEF UsbResume, UsbPost, Post, Commands
<1>3. CASE UsbResumeStep
  BY <1>3, PutCommandKeepsHead, PutCommandType DEF UsbResumeStep, UsbPost, Post, Commands
<1>4. CASE UsbFlashDetach
  BY <1>4, PutCommandKeepsHead, PutCommandType DEF UsbFlashDetach, UsbPost, Post, Commands
<1>5. CASE UsbUnlock
  BY <1>5, PutCommandKeepsHead, PutCommandType DEF UsbUnlock, UsbPost, Post, Commands
<1>6. CASE UsbDetach
  BY <1>6, PutCommandKeepsHead, PutCommandType DEF UsbDetach, Commands
<1>7. ASSUME NEW request \in Requests, UsbErase(request) PROVE IInv'
  BY <1>7, PutCommandKeepsHead, PutCommandType DEF UsbErase, Post, Commands
<1>8. ASSUME NEW page \in UserPages, UsbWrite(page) PROVE IInv'
  BY <1>8 DEF UsbWrite
<1>9. CASE DebugMonEntry
  <2>1. CASE StopInInterrupt
    BY <1>9, <2>1 DEF DebugMonEntry, StopInInterrupt
  <2>2. CASE BeginStepOut
    BY <1>9, <2>2 DEF DebugMonEntry, BeginStepOut
  <2>3. CASE ContinueStepOut
    <3>1. CopyInv'
      BY <1>9, <2>3 DEF DebugMonEntry, ContinueStepOut
    <3>2. ProgramInv'
      BY <1>9, <2>3 DEF DebugMonEntry, ContinueStepOut
    <3>3. StepOutInv'
      BY <1>9, <2>3 DEF DebugMonEntry, ContinueStepOut
    <3>4. OrderedStepInv'
      BY <1>9, <2>3 DEF DebugMonEntry, ContinueStepOut
    <3>5. PhaseInv'
      BY <1>9, <2>3 DEF DebugMonEntry, ContinueStepOut
    <3>6. StepCountInv'
      BY <1>9, <2>3 DEF DebugMonEntry, ContinueStepOut
    <3>7. HaltStateInv'
      BY <1>9, <2>3 DEF DebugMonEntry, ContinueStepOut
    <3>8. DeferredCommandWaits'
      BY <1>9, <2>3 DEF DebugMonEntry, ContinueStepOut
    <3>9. QED
      BY <3>1, <3>2, <3>3, <3>4, <3>5, <3>6, <3>7, <3>8
  <2>4. CASE FinishStep
    <3>1. CopyInv'
      BY <1>9, <2>4 DEF DebugMonEntry, FinishStep
    <3>2. ProgramInv'
      BY <1>9, <2>4 DEF DebugMonEntry, FinishStep
    <3>3. StepOutInv'
      BY <1>9, <2>4 DEF DebugMonEntry, FinishStep
    <3>4. OrderedStepInv'
      BY <1>9, <2>4 DEF DebugMonEntry, FinishStep
    <3>5. PhaseInv'
      BY <1>9, <2>4 DEF DebugMonEntry, FinishStep
    <3>6. StepCountInv'
      BY <1>9, <2>4 DEF DebugMonEntry, FinishStep
    <3>7. HaltStateInv'
      BY <1>9, <2>4 DEF DebugMonEntry, FinishStep
    <3>8. DeferredCommandWaits'
      BY <1>9, <2>4 DEF DebugMonEntry, FinishStep
    <3>9. QED
      BY <3>1, <3>2, <3>3, <3>4, <3>5, <3>6, <3>7, <3>8
  <2>5. CASE HaltInInterrupt
    BY <1>9, <2>5 DEF DebugMonEntry, HaltInInterrupt
  <2>6. CASE HaltInThread
    <3>1. CopyInv'
      BY <1>9, <2>6 DEF DebugMonEntry, HaltInThread
    <3>2. ProgramInv'
      BY <1>9, <2>6 DEF DebugMonEntry, HaltInThread
    <3>3. StepOutInv'
      BY <1>9, <2>6 DEF DebugMonEntry, HaltInThread
    <3>4. OrderedStepInv'
      BY <1>9, <2>6 DEF DebugMonEntry, HaltInThread
    <3>5. PhaseInv'
      BY <1>9, <2>6 DEF DebugMonEntry, HaltInThread
    <3>6. StepCountInv'
      BY <1>9, <2>6 DEF DebugMonEntry, HaltInThread
    <3>7. HaltStateInv'
      BY <1>9, <2>6 DEF DebugMonEntry, HaltInThread
    <3>8. DeferredCommandWaits'
      BY <1>9, <2>6 DEF DebugMonEntry, HaltInThread
    <3>9. QED
      BY <3>1, <3>2, <3>3, <3>4, <3>5, <3>6, <3>7, <3>8
  <2>7. QED
    BY <1>9, <2>1, <2>2, <2>3, <2>4, <2>5, <2>6 DEF DebugMonEntry
<1>10. CASE LoadDemcr
  BY <1>10 DEF LoadDemcr
<1>11. CASE StoreDemcr
  <2>1. copy.step = monStep /\ ~copy'.loaded
    BY <1>11 DEF StoreDemcr, NoCopy
  <2>2. CASE pc = "arm"
    BY <1>11, <2>1, <2>2 DEF StoreDemcr, After
  <2>3. CASE pc = "release"
    BY <1>11, <2>1, <2>3 DEF StoreDemcr, After
  <2>4. CASE pc = "disarm"
    BY <1>11, <2>1, <2>4 DEF StoreDemcr, After
  <2>5. CASE pc = "resume"
    BY <1>11, <2>1, <2>5 DEF StoreDemcr, After
  <2>6. CASE pc = "single"
    BY <1>11, <2>1, <2>6 DEF StoreDemcr, After
  <2>7. CASE pc = "singleRelease"
    BY <1>11, <2>1, <2>7 DEF StoreDemcr, After
  <2>8. CASE pc = "enterLoop"
    BY <1>11, <2>1, <2>8 DEF StoreDemcr, After
  <2>9. CASE pc = "loopRelease"
    BY <1>11, <2>1, <2>9 DEF StoreDemcr, After
  <2>10. CASE pc = "exitRelease"
    BY <1>11, <2>1, <2>10 DEF StoreDemcr, After
  <2>11. QED
    BY <1>11, <2>2, <2>3, <2>4, <2>5, <2>6, <2>7, <2>8, <2>9, <2>10 DEF StoreDemcr
<1>12. CASE ReportState
  BY <1>12 DEF ReportState
<1>13. CASE ServeHalt
  BY <1>13 DEF ServeHalt, Serving, Pull
<1>14. CASE ServeResume
  BY <1>14 DEF ServeResume, Serving, Pull
<1>15. CASE ServeResumeStep
  BY <1>15 DEF ServeResumeStep, Serving, Pull
<1>16. CASE DeferStart
  BY <1>16 DEF DeferStart, Serving, StartCommands
<1>17. CASE ServeStartLocalLoop
  BY <1>17 DEF ServeStartLocalLoop, Serving, SwitchTo, Pull
<1>18. CASE ServeStartEraseLoop
  BY <1>18 DEF ServeStartEraseLoop, Serving, SwitchTo, Pull
<1>19. CASE ServeStartFirmware
  BY <1>19 DEF ServeStartFirmware, Serving, SwitchTo, Pull
<1>20. CASE RefuseStartFirmware
  BY <1>20 DEF RefuseStartFirmware, Serving, Pull
<1>21. CASE ReportRunning
  BY <1>21 DEF ReportRunning
<1>22. CASE Leave
  BY <1>22 DEF Leave
<1>23. CASE Instruction
  BY <1>23 DEF Instruction, UserRuns, Retire
<1>24. CASE UserInterruptEnter
  BY <1>24 DEF UserInterruptEnter, UserRuns
<1>25. CASE UserInterruptReturn
  BY <1>25 DEF UserInterruptReturn, UserRuns
<1>26. CASE Breakpoint
  BY <1>26 DEF Breakpoint, UserRuns
<1>27. CASE Fault
  BY <1>27 DEF Fault, UserRuns
<1>28. CASE SvcEnableDisableIrq
  BY <1>28 DEF SvcEnableDisableIrq, UserRuns, Retire
<1>29. CASE SvcResetStart
  <2>1. CASE gCmdQueue = <<>>
    BY <1>29, <2>1 DEF SvcResetStart, UserRuns, Post
  <2>2. CASE gCmdQueue # <<>>
    <3>1. gCmdQueue' # <<>> /\ Head(gCmdQueue') = Head(gCmdQueue)
      BY <1>29, <2>2, PutCommandKeepsHead DEF SvcResetStart, Post, Commands
    <3>2. QED
      BY <1>29, <3>1 DEF SvcResetStart, UserRuns, Post
  <2>3. QED
    BY <2>1, <2>2
<1>30. CASE SvcResetResume
  BY <1>30, PutCommandKeepsHead, PutCommandType DEF SvcResetResume, Post, Commands
<1>31. CASE EraseStart
  BY <1>31 DEF EraseStart, EraseLoopAt, UserRuns, Retire
<1>32. CASE EraseEnter
  BY <1>32 DEF EraseEnter, EraseLoopAt, UserRuns, Retire
<1>33. CASE ErasePull
  BY <1>33 DEF ErasePull, EraseLoopAt, UserRuns, Retire
<1>34. CASE ErasePage
  BY <1>34 DEF ErasePage, EraseLoopAt, UserRuns, Retire
<1>35. CASE EraseReenable
  BY <1>35 DEF EraseReenable, EraseLoopAt, UserRuns, Retire
<1>36. CASE ErasePut
  BY <1>36, PutCommandKeepsHead, PutCommandType DEF ErasePut, EraseLoopAt, UserRuns, Retire, Commands
<1>37. CASE EraseLoad
  BY <1>37 DEF EraseLoad, EraseLoopAt, UserRuns, Retire
<1>38. CASE EraseStore
  BY <1>38 DEF EraseStore, EraseLoopAt, UserRuns
<1>39. CASE UNCHANGED vars
  BY <1>39 DEF vars
<1>40. QED
  BY <1>1, <1>2, <1>3, <1>4, <1>5, <1>6, <1>7, <1>8, <1>9, <1>10, <1>11,
     <1>12, <1>13, <1>14, <1>15, <1>16, <1>17, <1>18, <1>19, <1>20,
     <1>21, <1>22, <1>23, <1>24, <1>25, <1>26, <1>27, <1>28, <1>29,
     <1>30, <1>31, <1>32, <1>33, <1>34, <1>35, <1>36, <1>37, <1>38,
     <1>39
  DEF Next, UsbInterrupt, Handler, User, EraseLoop

(* The invariant holds at every point of the handler, of the erase loop    *)
(* and of the user's code.                                                 *)
THEOREM InvariantHolds == Spec => []IInv
<1>1. IInv => TypeOK
  BY DEF IInv
<1>2. QED
  BY InitIInv, NextTypeOK, NextIInv, <1>1, PTL DEF Spec

-----------------------------------------------------------------------------
(* The safety properties follow from the invariant.                        *)

(* Debug.cpp 189-212: user interrupts are masked only while a step of      *)
(* thread mode steps out of one, never while the debugger waits for        *)
(* commands and never while the firmware runs freely.                      *)
THEOREM MaskedOnlyWhileSteppingOutHolds == Spec => []MaskedOnlyWhileSteppingOut
<1>1. IInv => MaskedOnlyWhileSteppingOut
  BY DEF IInv, StepOutInv, MaskedOnlyWhileSteppingOut, Waiting
<1>2. QED
  BY InvariantHolds, <1>1, PTL

(* Debug.cpp 195-218: once a step-out has begun, no write to DEMCR by the  *)
(* USB interrupt or the erase loop takes away the MON_STEP that will       *)
(* bring the handler back.                                                 *)
THEOREM StepOutStaysArmedHolds == Spec => []StepOutStaysArmed
<1>1. IInv => StepOutStaysArmed
  BY DEF IInv, StepOutInv, StepOutStaysArmed
<1>2. QED
  BY InvariantHolds, <1>1, PTL

(* Debug.cpp 289-293: a start command deferred in a user interrupt is      *)
(* still the head of the queue when thread mode is reached.                *)
THEOREM DeferredCommandWaitsHolds == Spec => []DeferredCommandWaits
<1>1. IInv => DeferredCommandWaits
  BY DEF IInv
<1>2. QED
  BY InvariantHolds, <1>1, PTL

(* Debug.cpp 201-212 and 259-272: one ResumeStep executes at most one      *)
(* instruction of thread mode, stepped out of an interrupt or not.         *)
THEOREM StepIsOneInstructionHolds == Spec => []StepIsOneInstruction
<1>1. IInv => StepIsOneInstruction
  BY DEF IInv, StepCountInv, StepIsOneInstruction
<1>2. QED
  BY InvariantHolds, <1>1, PTL

(* Debug.cpp 224-234 and 377: while the debugger waits for a command the   *)
(* host is never told the target runs.                                     *)
THEOREM WaitingIsReportedHolds == Spec => []WaitingIsReported
<1>1. IInv => WaitingIsReported
  BY DEF IInv, HaltStateInv, WaitingIsReported, Waiting
<1>2. QED
  BY InvariantHolds, <1>1, PTL

(* Debug.cpp 224-386: while the host is told the target is halted, the     *)
(* handler is active or will be entered again within one instruction.      *)
THEOREM ReportedHaltIsControlledHolds == Spec => []ReportedHaltIsControlled
<1>1. IInv => ReportedHaltIsControlled
  BY DEF IInv, HaltStateInv, ReportedHaltIsControlled
<1>2. QED
  BY InvariantHolds, <1>1, PTL

(* Debug.cpp 110-122: the local loop and the flash erase loop run with no  *)
(* user interrupt active or able to start.                                 *)
THEOREM LoopsRunAloneHolds == Spec => []LoopsRunAlone
<1>1. IInv => LoopsRunAlone
  BY DEF IInv, ProgramInv, LoopsRunAlone
<1>2. QED
  BY InvariantHolds, <1>1, PTL
-----------------------------------------------------------------------------
(***************************************************************************)
(* What is left of the debugger's reach while the erase loop has disabled  *)
(* the USB interrupts: nothing pends the handler then but MON_STEP.        *)
(***************************************************************************)
OffInv ==
    /\ svc => pc = "out" /\ program \in {"idle", "firmware"}
    /\ eraseAt \in {"put", "load", "store", "spin"} => usbIrq
    /\ program # "eraseLoop" => eraseAt = "start"
    /\ pc = "disarm" => program = "firmware"
    /\ ~usbIrq /\ pc # "out" => ~monPend /\ (copy.loaded => ~copy.pend)
    /\ program = "eraseLoop" /\ ~usbIrq =>
          ((pc = "out" /\ monPend) \/ pc \in {"state", "fetch"} => monStep)

LEMMA InitOffInv == Init => OffInv
  BY DEF Init, OffInv

LEMMA NextOffInv == IInv /\ OffInv /\ TypeOK' /\ [Next]_vars => OffInv'
<1> SUFFICES ASSUME IInv, OffInv, TypeOK', [Next]_vars PROVE OffInv'
  OBVIOUS
<1> USE DEF IInv, OffInv, TypeOK, CopyInv, ProgramInv, StepOutInv,
        handlerVars, threadVars, nvicVars, demcr,
        Updates, SetsStep, ClearsStep, ClearsPend
<1>1. CASE UsbHalt
  BY <1>1 DEF UsbHalt, UsbPost, Post
<1>2. CASE UsbResume
  BY <1>2 DEF UsbResume, UsbPost, Post
<1>3. CASE UsbResumeStep
  BY <1>3 DEF UsbResumeStep, UsbPost, Post
<1>4. CASE UsbFlashDetach
  BY <1>4 DEF UsbFlashDetach, UsbPost, Post
<1>5. CASE UsbUnlock
  BY <1>5 DEF UsbUnlock, UsbPost, Post
<1>6. CASE UsbDetach
  BY <1>6 DEF UsbDetach
<1>7. ASSUME NEW request \in Requests, UsbErase(request) PROVE OffInv'
  BY <1>7 DEF UsbErase, Post
<1>8. ASSUME NEW page \in UserPages, UsbWrite(page) PROVE OffInv'
  BY <1>8 DEF UsbWrite
<1>9. CASE DebugMonEntry
  <2>1. CASE StopInInterrupt
    BY <1>9, <2>1 DEF DebugMonEntry, StopInInterrupt
  <2>2. CASE BeginStepOut
    BY <1>9, <2>2 DEF DebugMonEntry, BeginStepOut
  <2>3. CASE ContinueStepOut
    BY <1>9, <2>3 DEF DebugMonEntry, ContinueStepOut
  <2>4. CASE FinishStep
    BY <1>9, <2>4 DEF DebugMonEntry, FinishStep
  <2>5. CASE HaltInInterrupt
    BY <1>9, <2>5 DEF DebugMonEntry, HaltInInterrupt
  <2>6. CASE HaltInThread
    BY <1>9, <2>6 DEF DebugMonEntry, HaltInThread
  <2>7. QED
    BY <1>9, <2>1, <2>2, <2>3, <2>4, <2>5, <2>6 DEF DebugMonEntry
<1>10. CASE LoadDemcr
  BY <1>10 DEF LoadDemcr
<1>11. CASE StoreDemcr
  <2>1. copy.step = monStep /\ ~copy'.loaded
    BY <1>11 DEF StoreDemcr, NoCopy
  <2>2. CASE pc = "arm"
    BY <1>11, <2>1, <2>2 DEF StoreDemcr, After
  <2>3. CASE pc = "release"
    BY <1>11, <2>1, <2>3 DEF StoreDemcr, After
  <2>4. CASE pc = "disarm"
    BY <1>11, <2>1, <2>4 DEF StoreDemcr, After
  <2>5. CASE pc = "resume"
    BY <1>11, <2>1, <2>5 DEF StoreDemcr, After
  <2>6. CASE pc = "single"
    BY <1>11, <2>1, <2>6 DEF StoreDemcr, After
  <2>7. CASE pc = "singleRelease"
    BY <1>11, <2>1, <2>7 DEF StoreDemcr, After
  <2>8. CASE pc = "enterLoop"
    BY <1>11, <2>1, <2>8 DEF StoreDemcr, After
  <2>9. CASE pc = "loopRelease"
    BY <1>11, <2>1, <2>9 DEF StoreDemcr, After
  <2>10. CASE pc = "exitRelease"
    BY <1>11, <2>1, <2>10 DEF StoreDemcr, After
  <2>11. QED
    BY <1>11, <2>2, <2>3, <2>4, <2>5, <2>6, <2>7, <2>8, <2>9, <2>10 DEF StoreDemcr
<1>12. CASE ReportState
  BY <1>12 DEF ReportState
<1>13. CASE ServeHalt
  BY <1>13 DEF ServeHalt, Serving, Pull
<1>14. CASE ServeResume
  BY <1>14 DEF ServeResume, Serving, Pull
<1>15. CASE ServeResumeStep
  BY <1>15 DEF ServeResumeStep, Serving, Pull
<1>16. CASE DeferStart
  BY <1>16 DEF DeferStart, Serving, StartCommands
<1>17. CASE ServeStartLocalLoop
  BY <1>17 DEF ServeStartLocalLoop, Serving, SwitchTo, Pull
<1>18. CASE ServeStartEraseLoop
  BY <1>18 DEF ServeStartEraseLoop, Serving, SwitchTo, Pull
<1>19. CASE ServeStartFirmware
  BY <1>19 DEF ServeStartFirmware, Serving, SwitchTo, Pull
<1>20. CASE RefuseStartFirmware
  BY <1>20 DEF RefuseStartFirmware, Serving, Pull
<1>21. CASE ReportRunning
  BY <1>21 DEF ReportRunning
<1>22. CASE Leave
  BY <1>22 DEF Leave
<1>23. CASE Instruction
  BY <1>23 DEF Instruction, UserRuns, Retire
<1>24. CASE UserInterruptEnter
  BY <1>24 DEF UserInterruptEnter, UserRuns
<1>25. CASE UserInterruptReturn
  BY <1>25 DEF UserInterruptReturn, UserRuns
<1>26. CASE Breakpoint
  BY <1>26 DEF Breakpoint, UserRuns
<1>27. CASE Fault
  BY <1>27 DEF Fault, UserRuns
<1>28. CASE SvcEnableDisableIrq
  BY <1>28 DEF SvcEnableDisableIrq, UserRuns, Retire
<1>29. CASE SvcResetStart
  BY <1>29 DEF SvcResetStart, UserRuns, Post
<1>30. CASE SvcResetResume
  BY <1>30 DEF SvcResetResume, Post
<1>31. CASE EraseStart
  BY <1>31 DEF EraseStart, EraseLoopAt, UserRuns, Retire
<1>32. CASE EraseEnter
  BY <1>32 DEF EraseEnter, EraseLoopAt, UserRuns, Retire
<1>33. CASE ErasePull
  BY <1>33 DEF ErasePull, EraseLoopAt, UserRuns, Retire
<1>34. CASE ErasePage
  BY <1>34 DEF ErasePage, EraseLoopAt, UserRuns, Retire
<1>35. CASE EraseReenable
  BY <1>35 DEF EraseReenable, EraseLoopAt, UserRuns, Retire
<1>36. CASE ErasePut
  BY <1>36 DEF ErasePut, EraseLoopAt, UserRuns, Retire
<1>37. CASE EraseLoad
  BY <1>37 DEF EraseLoad, EraseLoopAt, UserRuns, Retire
<1>38. CASE EraseStore
  BY <1>38 DEF EraseStore, EraseLoopAt, UserRuns
<1>39. CASE UNCHANGED vars
  BY <1>39 DEF vars
<1>40. QED
  BY <1>1, <1>2, <1>3, <1>4, <1>5, <1>6, <1>7, <1>8, <1>9, <1>10, <1>11,
     <1>12, <1>13, <1>14, <1>15, <1>16, <1>17, <1>18, <1>19, <1>20,
     <1>21, <1>22, <1>23, <1>24, <1>25, <1>26, <1>27, <1>28, <1>29,
     <1>30, <1>31, <1>32, <1>33, <1>34, <1>35, <1>36, <1>37, <1>38,
     <1>39
  DEF Next, UsbInterrupt, Handler, User, EraseLoop

(* Debug.cpp 140, 301-313 and 375: where the debugger waits in an erase    *)
(* loop that has disabled the USB interrupts, MON_STEP is set; a loop that *)
(* was entered without it cannot be stopped out of the host's reach.       *)
THEOREM UnreachableOnlyWhenSteppingHolds == Spec => []UnreachableOnlyWhenStepping
<1>1. IInv => TypeOK
  BY DEF IInv
<1>2. OffInv => UnreachableOnlyWhenStepping
  BY DEF OffInv, UnreachableOnlyWhenStepping, Waiting
<1>3. QED
  BY InvariantHolds, InitOffInv, NextTypeOK, NextOffInv, <1>1, <1>2, PTL DEF Spec

-----------------------------------------------------------------------------
(***************************************************************************)
(* Why the erase loop comes back, and what it has erased by then.  The     *)
(* runs check the temporal statements; what follows is their argument.     *)
(***************************************************************************)

(* The way of the loop's points to the end of the erasing. *)
Stage == [start |-> 3, enter |-> 2, pull |-> 1, erase |-> 1, reenable |-> 0]

(* Fewer stages ahead, fewer requests, or fewer pages of this one. *)
Closer ==
    /\ {eraseAt, eraseAt'} \subseteq DOMAIN Stage
    /\ \/ Stage[eraseAt'] < Stage[eraseAt]
       \/ /\ Stage[eraseAt'] = Stage[eraseAt]
          /\ \/ Len(gEraseParams') < Len(gEraseParams)
             \/ /\ Len(gEraseParams') = Len(gEraseParams)
                /\ Cardinality(erasing') < Cardinality(erasing)

(* The loop runs alone: USB, the debugger, user interrupts and SVC are all *)
(* kept out.                                                               *)
LEMMA OnlyEraseLoopMoves ==
    ASSUME IInv, OffInv, ErasingFreely, Next
    PROVE  EraseLoop
<1> USE DEF ErasingFreely
<1>1. ~usbIrq /\ ~monPend /\ ~monStep /\ pc = "out" /\ ~svc /\ program = "eraseLoop"
      /\ isr = 0 /\ ~userIrq
  BY DEF IInv, OffInv, ProgramInv
<1>2. ~UsbInterrupt
  BY <1>1 DEF UsbInterrupt, UsbHalt, UsbResume, UsbResumeStep, UsbFlashDetach, UsbUnlock,
              UsbDetach, UsbErase, UsbWrite, UsbPost
<1>3. ~Handler
  BY <1>1 DEF Handler, DebugMonEntry, LoadDemcr, StoreDemcr, ReportState, Serving,
              ServeHalt, ServeResume, ServeResumeStep, DeferStart, ServeStartLocalLoop,
              ServeStartEraseLoop, ServeStartFirmware, RefuseStartFirmware,
              ReportRunning, Leave, Updates, SetsStep, ClearsStep, ClearsPend
<1>4. QED
  BY <1>1, <1>2, <1>3
     DEF Next, User, Instruction, UserInterruptEnter, UserInterruptReturn, Breakpoint,
         Fault, SvcEnableDisableIrq, SvcResetStart, SvcResetResume

(* Taking the oldest request makes the queue shorter. *)
LEMMA PullShortens ==
    ASSUME TypeOK, gEraseParams # <<>>
    PROVE  /\ Len(Tail(gEraseParams)) < Len(gEraseParams)
           /\ Head(gEraseParams) \in Requests
           /\ \A i \in DOMAIN Tail(gEraseParams) :
                Tail(gEraseParams)[i] = gEraseParams[i + 1] /\ i + 1 \in DOMAIN gEraseParams
           /\ \A i \in DOMAIN gEraseParams :
                \/ gEraseParams[i] = Head(gEraseParams)
                \/ i - 1 \in DOMAIN Tail(gEraseParams)
                   /\ gEraseParams[i] = Tail(gEraseParams)[i - 1]
  BY DEF TypeOK, QueueOK

(* Each step of the loop brings the host back or takes the loop closer to   *)
(* it, and leaves nothing that could stop it.                              *)
LEMMA EraseStepIsCloser ==
    ASSUME IsFiniteSet(Pages), IInv, OffInv, ErasingFreely, EraseLoop
    PROVE  usbIrq' \/ (ErasingFreely' /\ Closer)
<1> USE DEF Stage, Closer, ErasingFreely, EraseLoopAt, UserRuns, Retire, handlerVars, nvicVars
<1>1. CASE EraseStart
  BY <1>1 DEF EraseStart
<1>2. CASE EraseEnter
  BY <1>2 DEF EraseEnter
<1>3. CASE ErasePull
  <2>1. ErasingFreely'
    BY <1>3 DEF ErasePull
  <2>2. CASE gEraseParams = <<>>
    BY <1>3, <2>1, <2>2 DEF ErasePull
  <2>3. CASE gEraseParams # <<>>
    <3>1. Len(gEraseParams') < Len(gEraseParams)
      BY <1>3, <2>3, PullShortens DEF ErasePull, IInv
    <3>2. eraseAt = "pull" /\ eraseAt' \in {"erase", "reenable"}
      BY <1>3 DEF ErasePull
    <3>3. QED
      BY <2>1, <3>1, <3>2
  <2>4. QED
    BY <2>2, <2>3
<1>4. CASE ErasePage
  <2>1. ErasingFreely' /\ gEraseParams' = gEraseParams
    BY <1>4 DEF ErasePage
  <2>2. PICK page \in erasing :
          erasing' = erasing \ {page} /\ eraseAt' = IF erasing = {page} THEN "pull" ELSE "erase"
    BY <1>4 DEF ErasePage
  <2>3. IsFiniteSet(erasing)
    BY FS_Subset DEF IInv, TypeOK
  <2>4. /\ Cardinality(erasing') = Cardinality(erasing) - 1
        /\ Cardinality(erasing) \in Nat
    BY <2>2, <2>3, FS_RemoveElement, FS_CardinalityType
  <2>5. eraseAt = "erase" /\ eraseAt' \in {"pull", "erase"}
    BY <1>4, <2>2 DEF ErasePage
  <2>6. QED
    BY <2>1, <2>4, <2>5
<1>5. CASE EraseReenable
  BY <1>5 DEF EraseReenable
<1>6. CASE ErasePut \/ EraseLoad \/ EraseStore
  BY <1>6 DEF ErasePut, EraseLoad, EraseStore, OffInv
<1>7. QED
  BY <1>1, <1>2, <1>3, <1>4, <1>5, <1>6 DEF EraseLoop

(* Debug.cpp 132-164: once the erase loop is left alone, every step that   *)
(* anything takes is one of its own and a step towards enabling the USB    *)
(* interrupts again; by the order Closer, whose values cannot decrease for *)
(* ever, it needs but finitely many of them.                               *)
THEOREM FreeEraseComesCloser ==
    ASSUME IsFiniteSet(Pages)
    PROVE  Spec => [][ErasingFreely => usbIrq' \/ (ErasingFreely' /\ Closer)]_vars
<1>1. IInv /\ OffInv /\ [Next]_vars =>
        [ErasingFreely => usbIrq' \/ (ErasingFreely' /\ Closer)]_vars
  BY OnlyEraseLoopMoves, EraseStepIsCloser
<1>2. IInv => TypeOK
  BY DEF IInv
<1>3. QED
  BY InvariantHolds, InitOffInv, NextTypeOK, NextOffInv, <1>1, <1>2, PTL DEF Spec

-----------------------------------------------------------------------------
(* A page that is to be erased: of the request under way or of a later one. *)
Requested(page) ==
    \/ eraseAt = "erase" /\ page \in erasing
    \/ \E i \in DOMAIN gEraseParams : page \in gEraseParams[i]

(* The loop is at work on requests of which it refuses none. *)
Working ==
    /\ ErasingFreely /\ eraseAt \in {"pull", "erase"}
    /\ \A i \in DOMAIN gEraseParams : gEraseParams[i] \subseteq UserPages

LEMMA RequestIsKept ==
    ASSUME IInv, OffInv, Working, NEW page \in UserPages, Requested(page), EraseLoop
    PROVE  page \notin written' \/ (Working' /\ Requested(page)')
<1> USE DEF Working, Requested, ErasingFreely, EraseLoopAt, UserRuns, Retire, handlerVars, nvicVars
<1>1. CASE ErasePull
  <2>1. ErasingFreely'
    BY <1>1 DEF ErasePull
  <2>2. gEraseParams # <<>>
    BY <1>1 DEF ErasePull
  <2>3. Head(gEraseParams) \subseteq UserPages
    BY <2>2, PullShortens DEF IInv, TypeOK, QueueOK
  <2>4. eraseAt' = "erase" /\ erasing' = Head(gEraseParams) /\ gEraseParams' = Tail(gEraseParams)
    BY <1>1, <2>2, <2>3 DEF ErasePull
  <2>5. \A i \in DOMAIN gEraseParams' : gEraseParams'[i] \subseteq UserPages
    BY <2>2, <2>4, PullShortens DEF IInv
  <2>6. PICK i \in DOMAIN gEraseParams : page \in gEraseParams[i]
    BY <1>1 DEF ErasePull
  <2>7. Requested(page)'
    BY <2>2, <2>4, <2>6, PullShortens DEF IInv
  <2>8. QED
    BY <2>1, <2>4, <2>5, <2>7
<1>2. CASE ErasePage
  <2>1. ErasingFreely' /\ gEraseParams' = gEraseParams
    BY <1>2 DEF ErasePage
  <2>2. PICK other \in erasing :
          /\ written' = written \ {other} /\ erasing' = erasing \ {other}
          /\ eraseAt' = IF erasing = {other} THEN "pull" ELSE "erase"
    BY <1>2 DEF ErasePage
  <2>3. CASE other = page
    BY <2>2, <2>3
  <2>4. CASE other # page
    BY <2>1, <2>2, <2>4
  <2>5. QED
    BY <2>3, <2>4
<1>3. QED
  BY <1>1, <1>2 DEF EraseLoop, EraseStart, EraseEnter, EraseReenable, ErasePut, EraseLoad,
                    EraseStore

(* Debug.cpp 142-159: a page that was asked for stays asked for until it    *)
(* has been erased, and so long the loop does not go on to enable the USB   *)
(* interrupts: with FreeEraseComesCloser, when the host can reach the       *)
(* bootloader again every page of every queued request has been erased.     *)
THEOREM RequestedPagesAreKept ==
    Spec => [][\A page \in UserPages :
                 Working /\ Requested(page) =>
                   page \notin written' \/ (Working' /\ Requested(page)')]_vars
<1>1. IInv /\ OffInv /\ [Next]_vars =>
        [\A page \in UserPages :
           Working /\ Requested(page) =>
             page \notin written' \/ (Working' /\ Requested(page)')]_vars
  <2> SUFFICES ASSUME IInv, OffInv, Next, NEW page \in UserPages, Working, Requested(page)
               PROVE  page \notin written' \/ (Working' /\ Requested(page)')
    OBVIOUS
  <2>1. EraseLoop
    BY OnlyEraseLoopMoves DEF Working
  <2>2. QED
    BY <2>1, RequestIsKept
<1>2. IInv => TypeOK
  BY DEF IInv
<1>3. QED
  BY InvariantHolds, InitOffInv, NextTypeOK, NextOffInv, <1>1, <1>2, PTL DEF Spec
=============================================================================
