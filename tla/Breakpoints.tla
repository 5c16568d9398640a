---------------------------- MODULE Breakpoints -----------------------------
(***************************************************************************)
(* Breakpoints from GDB down to the comparators: the list the server keeps *)
(* (GdbServer/Gdb/target.c, TargetsInit.cpp), the packet it sends, and the *)
(* flash patch unit as breakpointCommand (App/main.cpp) drives it.         *)
(*                                                                         *)
(* A comparator covers a word of code; two bits select its half-words, so  *)
(* two breakpoints may share one.  The device never hears of a breakpoint's*)
(* type, and it answers the same whether it has set it or not.             *)
(*                                                                         *)
(* GDB is external: by default it inserts all its breakpoints before the   *)
(* target runs and removes them all when it has stopped.  With "set        *)
(* breakpoint always-inserted on" it leaves them and removes one when the  *)
(* user deletes it.                                                        *)
(*                                                                         *)
(* A USB transaction may fail at any time, with the command executed or    *)
(* not.  The server drops the result (TargetsInit.cpp) and tells GDB OK.   *)
(***************************************************************************)
EXTENDS Naturals, Sequences, FiniteSets, Functions

CONSTANTS Words,            \* the words of code that breakpoints are set in
          NoWord,           \* the address of a comparator that is free
          UserBreakpoints,  \* what the user may ask for
          Comparators,      \* NUMOFBKPTS
          CodeComparators,  \* those the hardware compares instructions with
          AlwaysInserted,   \* GDB's setting
          MaxListed,        \* bound: entries of bw_list
          MaxSent           \* breakpoints that fit into a packet

Halves == {1, 2}

(* A type stands for a breakwatch's type and size. *)
Breakpoint == [type : {"soft", "hard"}, word : Words, half : Halves]

ASSUME WordAssumption == NoWord \notin Words
ASSUME UserAssumption == UserBreakpoints \subseteq Breakpoint
ASSUME SizeAssumption == /\ CodeComparators \in Nat /\ Comparators \in Nat
                         /\ CodeComparators <= Comparators
                         /\ MaxListed \in Nat /\ MaxSent \in Nat
ASSUME SettingAssumption == AlwaysInserted \in BOOLEAN

VARIABLES bwList,    \* bw_list of the target, newest first
          fpEnabled, \* FP_CTRL.ENABLE
          fpComp,    \* FP_COMP: the word and the half-words each stops at
          gdb,       \* what GDB is doing
          wanted,    \* the breakpoints its user has set
          inserted,  \* those it has sent and not removed
          leftover,  \* history: addresses armed when GDB connected, or
                     \* still armed because their removal was lost
          unset      \* history: what is inserted but its setting was lost

gdbVars == <<gdb, wanted, inserted>>
deviceVars == <<fpEnabled, fpComp>>
historyVars == <<leftover, unset>>
vars == <<bwList, deviceVars, gdbVars, historyVars>>

Free == [word |-> NoWord, halves |-> {}]

Phases == {"away", "stopped", "inserting", "running", "removing"}

Address == Words \X Halves

TypeOK ==
    /\ bwList \in Seq(UserBreakpoints)
    /\ fpEnabled \in BOOLEAN
    /\ fpComp \in [1 .. Comparators ->
                     [word : Words \cup {NoWord}, halves : SUBSET Halves]]
    /\ gdb \in Phases
    /\ wanted \subseteq UserBreakpoints
    /\ inserted \subseteq wanted
    /\ leftover \subseteq Address
    /\ unset \subseteq inserted

Init == /\ bwList = <<>>
        /\ fpEnabled = FALSE
        /\ fpComp = [i \in 1 .. Comparators |-> Free]
        /\ gdb = "away"
        /\ wanted = {}
        /\ inserted = {}
        /\ leftover = {}
        /\ unset = {}

---------------------------------------------------------------------------
(* breakpointCommand.  A free comparator holds 0, so that its word is that *)
(* of no breakpoint in flash.                                              *)

Lowest(S) == {i \in S : \A j \in S : i <= j}

HoldingWord(w) == {i \in 1 .. Comparators : fpComp[i].word = w}

Unused == {i \in 1 .. Comparators : fpComp[i].halves = {}}

(* Fault variant of DeviceSet: the highest free comparator is taken. *)
DeviceSetFromTop(b) ==
    /\ fpEnabled' = TRUE
    /\ \/ \E i \in HoldingWord(b.word) :
            fpComp' = [fpComp EXCEPT ![i].halves = @ \cup {b.half}]
       \/ /\ HoldingWord(b.word) = {}
          /\ \E i \in {k \in Unused : \A j \in Unused : j <= k} :
               fpComp' = [fpComp EXCEPT ![i] = [word |-> b.word,
                                                halves |-> {b.half}]]
       \/ /\ HoldingWord(b.word) = {} /\ Unused = {}
          /\ UNCHANGED fpComp

(* Fault variant of DeviceSet: a comparator that holds the word is shared  *)
(* only if it has the half-word already.                                   *)
DeviceSetUnshared(b) ==
    LET same == {i \in HoldingWord(b.word) : b.half \in fpComp[i].halves} IN
    /\ fpEnabled' = TRUE
    /\ IF same # {} \/ Unused = {} THEN UNCHANGED fpComp
       ELSE \E i \in Lowest(Unused) :
              fpComp' = [fpComp EXCEPT ![i] = [word |-> b.word,
                                               halves |-> {b.half}]]

DeviceSet(b) ==
    /\ fpEnabled' = TRUE
    /\ \/ \E i \in Lowest(HoldingWord(b.word)) :
            fpComp' = [fpComp EXCEPT ![i].halves = @ \cup {b.half}]
       \/ /\ HoldingWord(b.word) = {}
          /\ \E i \in Lowest(Unused) :
               fpComp' = [fpComp EXCEPT ![i] = [word |-> b.word,
                                                halves |-> {b.half}]]
       \/ /\ HoldingWord(b.word) = {} /\ Unused = {}
          /\ UNCHANGED fpComp

(* Fault variant of DeviceClear: a comparator whose two half-words are in  *)
(* use is left alone.                                                      *)
DeviceClearWhole(bs) ==
    LET Cleared(i) == {b.half : b \in {c \in bs : c.word = fpComp[i].word}} IN
    /\ fpComp' = [i \in 1 .. Comparators |->
                    IF fpComp[i].halves \subseteq Cleared(i) THEN Free
                    ELSE fpComp[i]]
    /\ UNCHANGED fpEnabled

(* Every comparator that holds the word of a breakpoint of bs loses its    *)
(* half-word, and is freed when it has none left.                          *)
DeviceClear(bs) ==
    LET Cleared(i) == {b.half : b \in {c \in bs : c.word = fpComp[i].word}}
        Left(i) == fpComp[i].halves \ Cleared(i)
    IN  /\ fpComp' = [i \in 1 .. Comparators |->
                        IF Left(i) = {} THEN Free
                        ELSE [word |-> fpComp[i].word, halves |-> Left(i)]]
        /\ UNCHANGED fpEnabled

---------------------------------------------------------------------------
(* The half-words at which a comparator of cs stops the processor. *)
ArmedBy(cs) ==
    {a \in Address : fpEnabled /\ \E i \in cs : /\ fpComp[i].word = a[1]
                                              /\ a[2] \in fpComp[i].halves}

AddressesOf(bs) == {<<b.word, b.half>> : b \in bs}

---------------------------------------------------------------------------
(* The server's list.  A packet Z is answered with OK, whatever the device *)
(* has done and whether the command has reached it: breakpointsSetClear    *)
(* gives up at a failed transaction, stm32_breakwatch_set and _clear look  *)
(* at the length of their list only.                                       *)

Listed == Range(bwList)

Places(b) == {k \in DOMAIN bwList : bwList[k] = b}

SetBreakwatch(b) ==
    /\ Len(bwList) < MaxListed
    /\ \/ DeviceSet(b) /\ unset' = unset \ {b}
       \/ UNCHANGED deviceVars /\ unset' = unset \cup {b}
    /\ bwList' = <<b>> \o bwList
    /\ UNCHANGED leftover

(* stm32_breakwatch_clear is given the entry of the list itself and follows*)
(* its next pointers: the packet holds the entry and everything behind it. *)
Behind(k) == {bwList[j] : j \in k .. Len(bwList)}

(* Longer packets than the buffer takes are left out. *)
OnePacket(k) == Len(bwList) - k < MaxSent

(* The command for the entries from place k on, to remove b. *)
SendClear(k, b) ==
    /\ OnePacket(k)
    /\ \/ DeviceClear(Behind(k)) /\ leftover' = leftover \ AddressesOf(Behind(k))
       \/ /\ UNCHANGED deviceVars
          /\ leftover' = leftover \cup (AddressesOf({b}) \cap ArmedBy(1 .. Comparators))
    /\ unset' = unset \ {b}

(* Fault variant of ClearBreakwatch: what has been sent leaves the list. *)
ClearBreakwatches(b) ==
    \E k \in Lowest(Places(b)) :
        /\ SendClear(k, b)
        /\ bwList' = SubSeq(bwList, 1, k - 1)

(* Only the entry leaves the list. *)
ClearBreakwatch(b) ==
    \E k \in Lowest(Places(b)) :
        /\ SendClear(k, b)
        /\ bwList' = [j \in 1 .. Len(bwList) - 1 |->
                        IF j < k THEN bwList[j] ELSE bwList[j + 1]]

---------------------------------------------------------------------------
(* GDB. *)

Connect == /\ gdb = "away"
           /\ gdb' = "stopped"
           /\ leftover' = ArmedBy(1 .. Comparators)
           /\ UNCHANGED <<bwList, deviceVars, wanted, inserted, unset>>

Add(b) == /\ gdb = "stopped"
          /\ wanted' = wanted \cup {b}
          /\ UNCHANGED <<bwList, deviceVars, gdb, inserted, historyVars>>

(* An inserted breakpoint is removed first. *)
Delete(b) == /\ gdb = "stopped" /\ b \in wanted
             /\ IF b \in inserted THEN ClearBreakwatch(b)
                ELSE UNCHANGED <<bwList, deviceVars, historyVars>>
             /\ wanted' = wanted \ {b}
             /\ inserted' = inserted \ {b}
             /\ UNCHANGED gdb

Resume == /\ gdb = "stopped"
          /\ gdb' = "inserting"
          /\ UNCHANGED <<bwList, deviceVars, wanted, inserted, historyVars>>

Insert(b) == /\ gdb = "inserting" /\ b \in wanted \ inserted
             /\ SetBreakwatch(b)
             /\ inserted' = inserted \cup {b}
             /\ UNCHANGED <<gdb, wanted>>

Run == /\ gdb = "inserting" /\ inserted = wanted
       /\ gdb' = "running"
       /\ UNCHANGED <<bwList, deviceVars, wanted, inserted, historyVars>>

Stop == /\ gdb = "running"
        /\ gdb' = IF AlwaysInserted THEN "stopped" ELSE "removing"
        /\ UNCHANGED <<bwList, deviceVars, wanted, inserted, historyVars>>

Remove(b) == /\ gdb = "removing" /\ b \in inserted
             /\ ClearBreakwatch(b)
             /\ inserted' = inserted \ {b}
             /\ UNCHANGED <<gdb, wanted>>

Removed == /\ gdb = "removing" /\ inserted = {}
           /\ gdb' = "stopped"
           /\ UNCHANGED <<bwList, deviceVars, wanted, inserted, historyVars>>

(* Fault variant of ConnectionLost: the next GDB is taken to have inserted *)
(* what the last one has.                                                  *)
ConnectionTakenOver == /\ gdb # "away"
                       /\ gdb' = "away"
                       /\ wanted' = {}
                       /\ UNCHANGED <<bwList, deviceVars, inserted, historyVars>>

(* A connection that breaks is dropped and the next one accepted; target   *)
(* and list stay as they are.  From "stopped" this is a detach as well,    *)
(* which leaves them alone too.                                            *)
ConnectionLost == /\ gdb # "away"
                  /\ gdb' = "away"
                  /\ wanted' = {} /\ inserted' = {} /\ unset' = {}
                  /\ UNCHANGED <<bwList, deviceVars, leftover>>

---------------------------------------------------------------------------
(* A new server process starts with an empty list; nothing has told the    *)
(* device.                                                                 *)
ServerEnds == /\ gdb' = "away"
              /\ wanted' = {} /\ inserted' = {} /\ unset' = {}
              /\ bwList' = <<>>
              /\ UNCHANGED <<deviceVars, leftover>>

Next == \/ Connect \/ Resume \/ Run \/ Stop \/ Removed
        \/ \E b \in UserBreakpoints : \/ Add(b) \/ Delete(b)
                                      \/ Insert(b) \/ Remove(b)
        \/ ConnectionLost \/ ServerEnds

Spec == Init /\ [][Next]_vars

---------------------------------------------------------------------------
(* A word is in one comparator at most: whoever looks for it finds all its *)
(* half-words, and breakpointCommand may stop its first search at a match. *)
OneComparatorPerWord ==
    \A i, j \in 1 .. Comparators :
        fpComp[i].word = fpComp[j].word /\ fpComp[i].word # NoWord => i = j

(* Nothing stops the target but what GDB has inserted, what was armed      *)
(* before it connected, and what stayed armed because its removal was lost *)
(* on USB: what the device was told to remove is gone, though half-words   *)
(* share a comparator, two types share a half-word, and a failed removal   *)
(* leaves a comparator that the list no longer knows.                      *)
OnlyInsertedStops ==
    gdb # "away" =>
        ArmedBy(1 .. Comparators) \subseteq AddressesOf(inserted) \cup leftover

(* Every breakpoint GDB believes to be inserted can still be removed: the  *)
(* list has it, however many sessions have listed the same one.            *)
InsertedIsListed == inserted \subseteq Listed

(* While the target runs it stops at each breakpoint its user has set and  *)
(* USB has not lost; while nothing armed is left over from before, one is  *)
(* missed only when all comparators that could have held it are taken.     *)
StopsWhereAsked ==
    gdb = "running" /\ leftover = {} =>
        \/ AddressesOf(wanted \ unset) \subseteq ArmedBy(1 .. CodeComparators)
        \/ \A i \in 1 .. CodeComparators : fpComp[i].halves # {}

(* What GDB has been told is inserted stops the processor when it runs,    *)
(* unless USB has lost it.                                                 *)
AcceptedIsArmed ==
    gdb = "running" => AddressesOf(inserted \ unset) \subseteq ArmedBy(1 .. CodeComparators)
=============================================================================
