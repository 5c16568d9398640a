------------------------- MODULE PreemptedPutProofs -------------------------
(***************************************************************************)
(* Where a queue with several producers goes wrong, for every size, every  *)
(* set of values and any number of producers on levels that nest.          *)
(***************************************************************************)
EXTENDS PreemptedPut, CircularBufferProofs

-----------------------------------------------------------------------------
(* A put that no other has overtaken still finds _last where it was: what  *)
(* it computed and loaded before it was preempted is right.                *)
PutUndisturbed(p) ==
    /\ putPc[p] # "idle" => next[p] = NextPos(last)
    /\ putPc[p] \in {"aim", "store", "publish"} => next[p] # first
    /\ putPc[p] = "store" => slot[p] = last
    /\ putPc[p] = "publish" => buffer[last] \in Data

(* Only a put of a level below DebugHandler is ever overtaken: when it goes *)
(* on, DebugHandler is not inside get or pull.                              *)
OvertakenBelow ==
    \A p \in overtaken : p \in Producers /\ putPc[p] # "idle"
                         /\ <<p, Consumer>> \notin Preempts

PInv == /\ TypeOK
        /\ \A p \in Producers : putPc[p] # "idle" => value[p] \in Data
        /\ \A p \in Producers \ overtaken : PutUndisturbed(p)
        /\ OvertakenBelow
        /\ TakeProgress

(* What is in the free slot when a put publishes is its own value, or the  *)
(* value of a put that interrupted it and will publish first.              *)
OwnValue ==
    \A p \in Producers \ overtaken :
        putPc[p] = "publish" =>
            \/ buffer[last] = value[p]
            \/ \E q \in Producers : putPc[q] = "publish" /\ <<q, p>> \in Preempts

-----------------------------------------------------------------------------
(* The history variable only watches. *)
LEMMA WatchesOnly == OvertakenSpec => Spec
<1>1. OvertakenInit => Init
  BY DEF OvertakenInit
<1>2. [OvertakenNext]_<<vars, overtaken>> => [Next]_vars
  BY DEF OvertakenNext, PutStep, TakeStep, Next, vars
<1>3. QED
  BY <1>1, <1>2, PTL DEF OvertakenSpec, Spec

(* A context that moves preempts every other that is inside an operation. *)
LEMMA MovesAbove ==
    ASSUME NEW p \in Producers, Runs(p)
    PROVE  /\ \A q \in Producers \ {p} : putPc[q] # "idle" => <<p, q>> \in Preempts
           /\ takePc # "idle" => <<p, Consumer>> \in Preempts
  BY ActorAssumption DEF Runs, Busy

LEMMA InitPInv == OvertakenInit => PInv /\ OwnValue
<1> SUFFICES ASSUME OvertakenInit PROVE PInv /\ OwnValue
  OBVIOUS
<1>1. TypeOK
  BY SizeAssumption DEF OvertakenInit, Init, TypeOK, Slots
<1>2. QED
  BY <1>1 DEF OvertakenInit, Init, PInv, OwnValue, PutUndisturbed, OvertakenBelow, TakeProgress

LEMMA BeginKeeps ==
    ASSUME PInv, NEW p \in Producers, NEW v \in Data, PutBegin(p, v), UNCHANGED overtaken
    PROVE  /\ \A q \in Producers : putPc'[q] # "idle" => value'[q] \in Data
           /\ \A q \in Producers \ overtaken : PutUndisturbed(q)'
           /\ OvertakenBelow'
           /\ TakeProgress'
<1>1. /\ putPc' = [putPc EXCEPT ![p] = "check"]
      /\ next' = [next EXCEPT ![p] = NextPos(last)]
      /\ value' = [value EXCEPT ![p] = v]
      /\ UNCHANGED <<first, last, buffer, slot, takePc, handed, overtaken>>
  BY DEF PutBegin, consumerVars
<1>2. \A q \in Producers : putPc'[q] # "idle" => value'[q] \in Data
  BY <1>1 DEF PInv, TypeOK
<1>3. ASSUME NEW q \in Producers \ overtaken PROVE PutUndisturbed(q)'
  <2>1. NextPos(last)' = NextPos(last)
    BY <1>1 DEF NextPos
  <2>2. CASE q = p
    BY <1>1, <2>1, <2>2 DEF PInv, TypeOK, PutUndisturbed
  <2>3. CASE q # p
    BY <1>1, <2>1, <2>3 DEF PInv, TypeOK, PutUndisturbed
  <2>4. QED
    BY <2>2, <2>3
<1>4. OvertakenBelow'
  BY <1>1 DEF PInv, TypeOK, OvertakenBelow
<1>5. TakeProgress'
  BY <1>1 DEF PInv, TakeProgress
<1>6. QED
  BY <1>2, <1>3, <1>4, <1>5

LEMMA CheckKeeps ==
    ASSUME PInv, NEW p \in Producers, PutCheck(p),
           overtaken' = IF putPc'[p] = "idle" THEN overtaken \ {p} ELSE overtaken
    PROVE  /\ \A q \in Producers : putPc'[q] # "idle" => value'[q] \in Data
           /\ \A q \in Producers \ overtaken' : PutUndisturbed(q)'
           /\ OvertakenBelow'
           /\ TakeProgress'
<1>1. /\ putPc[p] = "check"
      /\ putPc' = [putPc EXCEPT ![p] = IF next[p] = first THEN "idle" ELSE "aim"]
      /\ UNCHANGED <<first, last, buffer, next, slot, value, takePc, handed>>
  BY DEF PutCheck, consumerVars
<1>2. \A q \in Producers : putPc'[q] # "idle" => value'[q] \in Data
  BY <1>1 DEF PInv, TypeOK
<1>3. ASSUME NEW q \in Producers \ overtaken' PROVE PutUndisturbed(q)'
  <2>1. NextPos(last)' = NextPos(last)
    BY <1>1 DEF NextPos
  <2>2. CASE q = p
    <3>1. CASE putPc'[p] = "idle"
      BY <2>2, <3>1 DEF PutUndisturbed
    <3>2. CASE putPc'[p] # "idle"
      <4>1. p \notin overtaken /\ next[p] # first /\ putPc'[p] = "aim"
        BY <1>1, <2>2, <3>2 DEF PInv, TypeOK
      <4>2. QED
        BY <1>1, <2>1, <2>2, <4>1 DEF PInv, PutUndisturbed
    <3>3. QED
      BY <3>1, <3>2
  <2>3. CASE q # p
    BY <1>1, <2>1, <2>3 DEF PInv, TypeOK, PutUndisturbed
  <2>4. QED
    BY <2>2, <2>3
<1>4. OvertakenBelow'
  BY <1>1 DEF PInv, TypeOK, OvertakenBelow
<1>5. TakeProgress'
  BY <1>1 DEF PInv, TakeProgress
<1>6. QED
  BY <1>2, <1>3, <1>4, <1>5

(* Whoever stores while DebugHandler is inside get or pull interrupts it,   *)
(* so that it has not been overtaken and stores to the free slot.           *)
LEMMA StoreLeavesReadSlot ==
    ASSUME PInv, NEW p \in Producers, PutStore(p), takePc # "idle"
    PROVE  buffer'[first] = buffer[first]
<1>1. Runs(p) /\ putPc[p] = "store" /\ buffer' = [buffer EXCEPT ![slot[p]] = value[p]]
  BY DEF PutStore
<1>2. p \notin overtaken
  BY <1>1, MovesAbove DEF PInv, OvertakenBelow
<1>3. slot[p] # first
  BY <1>1, <1>2 DEF PInv, PutUndisturbed, TakeProgress
<1>4. QED
  BY <1>1, <1>3 DEF PInv, TypeOK

LEMMA AimKeeps ==
    ASSUME PInv, NEW p \in Producers, PutAim(p), UNCHANGED overtaken
    PROVE  /\ \A q \in Producers : putPc'[q] # "idle" => value'[q] \in Data
           /\ \A q \in Producers \ overtaken : PutUndisturbed(q)'
           /\ OvertakenBelow'
           /\ TakeProgress'
<1>1. /\ putPc[p] = "aim"
      /\ putPc' = [putPc EXCEPT ![p] = "store"]
      /\ slot' = [slot EXCEPT ![p] = last]
      /\ UNCHANGED <<first, last, buffer, next, value, takePc, handed, overtaken>>
  BY DEF PutAim, consumerVars
<1>2. \A q \in Producers : putPc'[q] # "idle" => value'[q] \in Data
  BY <1>1 DEF PInv, TypeOK
<1>3. ASSUME NEW q \in Producers \ overtaken PROVE PutUndisturbed(q)'
  <2>1. NextPos(last)' = NextPos(last)
    BY <1>1 DEF NextPos
  <2>2. QED
    BY <1>1, <2>1 DEF PInv, TypeOK, PutUndisturbed
<1>4. OvertakenBelow'
  BY <1>1 DEF PInv, TypeOK, OvertakenBelow
<1>5. TakeProgress'
  BY <1>1 DEF PInv, TakeProgress
<1>6. QED
  BY <1>2, <1>3, <1>4, <1>5

(* The store of an overtaken put may go to any slot, but not while          *)
(* DebugHandler is inside get or pull.                                      *)
LEMMA StoreKeeps ==
    ASSUME PInv, NEW p \in Producers, PutStore(p), UNCHANGED overtaken
    PROVE  /\ \A q \in Producers : putPc'[q] # "idle" => value'[q] \in Data
           /\ \A q \in Producers \ overtaken : PutUndisturbed(q)'
           /\ OvertakenBelow'
           /\ TakeProgress'
<1>1. /\ putPc[p] = "store"
      /\ putPc' = [putPc EXCEPT ![p] = "publish"]
      /\ slot' = [slot EXCEPT ![p] = 0]
      /\ buffer' = [buffer EXCEPT ![slot[p]] = value[p]]
      /\ UNCHANGED <<first, last, next, value, takePc, handed, overtaken>>
  BY DEF PutStore, consumerVars
<1>2. \A q \in Producers : putPc'[q] # "idle" => value'[q] \in Data
  BY <1>1 DEF PInv, TypeOK
<1>3. /\ p \notin overtaken => buffer'[last] \in Data
      /\ \A s \in Slots : buffer[s] \in Data => buffer'[s] \in Data
  BY <1>1 DEF PInv, PutUndisturbed, TypeOK
<1>4. ASSUME NEW q \in Producers \ overtaken PROVE PutUndisturbed(q)'
  <2>1. NextPos(last)' = NextPos(last) /\ PutUndisturbed(q)
    BY <1>1 DEF NextPos, PInv
  <2>2. CASE q = p
    BY <1>1, <1>3, <2>1, <2>2 DEF PInv, TypeOK, PutUndisturbed
  <2>3. CASE q # p
    BY <1>1, <1>3, <2>1, <2>3 DEF PInv, TypeOK, PutUndisturbed
  <2>4. QED
    BY <2>2, <2>3
<1>5. OvertakenBelow'
  BY <1>1 DEF PInv, TypeOK, OvertakenBelow
<1>6. TakeProgress'
  BY <1>1, StoreLeavesReadSlot DEF PInv, TypeOK, TakeProgress
<1>7. QED
  BY <1>2, <1>4, <1>5, <1>6

(* Whoever publishes overtakes all the others that are inside put. *)
LEMMA PublishKeeps ==
    ASSUME PInv, NEW p \in Producers, PutPublish(p),
           overtaken' = (overtaken \ {p}) \cup Overtake(p)
    PROVE  /\ \A q \in Producers : putPc'[q] # "idle" => value'[q] \in Data
           /\ \A q \in Producers \ overtaken' : putPc'[q] = "idle"
           /\ OvertakenBelow'
           /\ TakeProgress'
<1>1. /\ putPc[p] = "publish" /\ Runs(p)
      /\ putPc' = [putPc EXCEPT ![p] = "idle"]
      /\ last' = next[p]
      /\ UNCHANGED <<first, buffer, next, slot, value, takePc, handed>>
  BY DEF PutPublish, consumerVars
<1>2. \A q \in Producers : putPc'[q] # "idle" => value'[q] \in Data
  BY <1>1 DEF PInv, TypeOK
<1>3. \A q \in Producers \ overtaken' : putPc'[q] = "idle"
  BY <1>1 DEF PInv, TypeOK, Overtake
<1>4. OvertakenBelow'
  <2> SUFFICES ASSUME NEW q \in overtaken'
               PROVE  q \in Producers /\ putPc'[q] # "idle" /\ <<q, Consumer>> \notin Preempts
    BY DEF OvertakenBelow
  <2>1. CASE q \in overtaken \ {p}
    BY <1>1, <2>1 DEF PInv, TypeOK, OvertakenBelow
  <2>2. CASE q \in Overtake(p)
    <3>1. q \in Producers \ {p} /\ putPc[q] # "idle"
      BY <2>2 DEF Overtake
    <3>2. <<p, q>> \in Preempts
      BY <1>1, <3>1, MovesAbove
    <3>3. <<q, Consumer>> \notin Preempts
      BY <3>1, <3>2, LevelAssumption
    <3>4. QED
      BY <1>1, <3>1, <3>3 DEF PInv, TypeOK
  <2>3. QED
    BY <2>1, <2>2
<1>5. TakeProgress'
  <2>1. CASE takePc = "idle"
    BY <1>1, <2>1 DEF TakeProgress
  <2>2. CASE takePc # "idle"
    <3>1. p \notin overtaken
      BY <1>1, <2>2, MovesAbove DEF PInv, OvertakenBelow
    <3>2. next[p] # first
      BY <1>1, <3>1 DEF PInv, PutUndisturbed
    <3>3. QED
      BY <1>1, <3>2 DEF PInv, TakeProgress
  <2>3. QED
    BY <2>1, <2>2
<1>6. QED
  BY <1>2, <1>3, <1>4, <1>5

LEMMA TakeKeeps ==
    ASSUME PInv, TakeStep, UNCHANGED overtaken
    PROVE  /\ \A q \in Producers : putPc'[q] # "idle" => value'[q] \in Data
           /\ \A q \in Producers \ overtaken : PutUndisturbed(q)'
           /\ OvertakenBelow'
           /\ TakeProgress'
<1>1. UNCHANGED <<last, buffer, putPc, next, slot, value>>
  BY DEF TakeStep, TakeBegin, TakeRead, TakeAdvance, producerVars
<1>2. OvertakenBelow' /\ \A q \in Producers : putPc'[q] # "idle" => value'[q] \in Data
  BY <1>1 DEF PInv, OvertakenBelow
<1>3. \A q \in Producers : NextPos(last) # first => NextPos(last) # first'
  <2>1. first' = first \/ (first' = NextPos(first) /\ first # last)
    BY DEF TakeStep, TakeBegin, TakeRead, TakeAdvance, PInv, TakeProgress
  <2>2. QED
    BY <2>1, NextPosInjective DEF PInv, TypeOK
<1>4. ASSUME NEW q \in Producers \ overtaken PROVE PutUndisturbed(q)'
  <2>1. NextPos(last)' = NextPos(last)
    BY <1>1 DEF NextPos
  <2>2. PutUndisturbed(q)
    BY DEF PInv
  <2>3. QED
    BY <1>1, <1>3, <2>1, <2>2 DEF PutUndisturbed
<1>5. TakeProgress'
  BY <1>1 DEF TakeStep, TakeBegin, TakeRead, TakeAdvance, PInv, TakeProgress
<1>6. QED
  BY <1>2, <1>4, <1>5

(* What a put and DebugHandler rely on holds in every state, also in those *)
(* that an overtaken put has corrupted.                                    *)
THEOREM OvertakenInvariant == OvertakenSpec => []PInv
<1>1. PInv /\ TypeOK' /\ [OvertakenNext]_<<vars, overtaken>> => PInv'
  <2> SUFFICES ASSUME PInv, TypeOK', [OvertakenNext]_<<vars, overtaken>> PROVE PInv'
    OBVIOUS
  <2>1. ASSUME NEW p \in Producers, NEW v \in Data, PutBegin(p, v), UNCHANGED overtaken
        PROVE  PInv'
    BY <2>1, BeginKeeps DEF PInv
  <2>2. ASSUME NEW p \in Producers, PutCheck(p),
               overtaken' = IF putPc'[p] = "idle" THEN overtaken \ {p} ELSE overtaken
        PROVE  PInv'
    BY <2>2, CheckKeeps DEF PInv
  <2>3. ASSUME NEW p \in Producers, PutStore(p), UNCHANGED overtaken
        PROVE  PInv'
    BY <2>3, StoreKeeps DEF PInv
  <2>3a. ASSUME NEW p \in Producers, PutAim(p), UNCHANGED overtaken
        PROVE  PInv'
    BY <2>3a, AimKeeps DEF PInv
  <2>4. ASSUME NEW p \in Producers, PutPublish(p),
               overtaken' = (overtaken \ {p}) \cup Overtake(p)
        PROVE  PInv'
    BY <2>4, PublishKeeps DEF PInv, PutUndisturbed
  <2>5. CASE TakeStep /\ UNCHANGED overtaken
    BY <2>5, TakeKeeps DEF PInv
  <2>6. CASE UNCHANGED <<vars, overtaken>>
    BY <2>6 DEF vars, PInv, TypeOK, PutUndisturbed, OvertakenBelow, TakeProgress, NextPos
  <2>7. QED
    BY <2>1, <2>2, <2>3, <2>4, <2>5, <2>6, <2>3a DEF OvertakenNext, PutStep
<1>2. OvertakenInit => PInv
  BY InitPInv
<1>3. QED
  BY <1>1, <1>2, WatchesOnly, TypeCorrect, PTL DEF OvertakenSpec

-----------------------------------------------------------------------------
LEMMA UndisturbedPublishAppends ==
    ASSUME PInv, TypeOK', NEW p \in Producers \ overtaken, PutPublish(p)
    PROVE  buffer[last] \in Data /\ Fifo!Put(buffer[last])
<1>1. /\ next[p] = NextPos(last) /\ next[p] # first /\ buffer[last] \in Data
  BY DEF PInv, PutUndisturbed, PutPublish
<1>2. QED
  BY <1>1, PublishAppends DEF PInv

(* The queue of Debug.cpp loses, doubles or invents commands at two places *)
(* only, the store and the publication of a put that another has overtaken *)
(* (CircularBuffer.h 16 and 17), whatever the size of the queue and        *)
(* however many contexts put into it.                                      *)
THEOREM OnlyOvertakenPutCorruptsAlways == OvertakenSpec => OnlyOvertakenPutCorrupts
<1>1. PInv /\ TypeOK' /\ [OvertakenNext]_<<vars, overtaken>> =>
        [\/ \E p \in overtaken : PutStore(p) \/ PutPublish(p)
         \/ Fifo!Next
         \/ UNCHANGED Fifo!vars]_vars
  <2> SUFFICES ASSUME PInv, TypeOK', OvertakenNext
               PROVE  \/ \E p \in overtaken : PutStore(p) \/ PutPublish(p)
                      \/ Fifo!Next
                      \/ UNCHANGED Fifo!vars
    BY DEF vars
  <2>1. TypeOK /\ TakeProgress
    BY DEF PInv
  <2>2. ASSUME NEW p \in Producers, NEW v \in Data, PutBegin(p, v)
        PROVE  UNCHANGED Fifo!vars
    BY <2>2 DEF PutBegin, Fifo!vars, Items, Count, SlotOf, consumerVars
  <2>3. ASSUME NEW p \in Producers, PutCheck(p) PROVE UNCHANGED Fifo!vars
    BY <2>3 DEF PutCheck, Fifo!vars, Items, Count, SlotOf, consumerVars
  <2>4. ASSUME NEW p \in Producers \ overtaken, PutStore(p) PROVE UNCHANGED Fifo!vars
    <3>1. slot[p] = last
      BY <2>4 DEF PutStore, PInv, PutUndisturbed
    <3>2. QED
      BY <2>1, <2>4, <3>1, StoreKeepsItems DEF PutStore, Fifo!vars, consumerVars
  <2>4a. ASSUME NEW p \in Producers, PutAim(p) PROVE UNCHANGED Fifo!vars
    BY <2>4a DEF PutAim, Fifo!vars, Items, Count, SlotOf, consumerVars
  <2>5. ASSUME NEW p \in Producers \ overtaken, PutPublish(p) PROVE Fifo!Next
    BY <2>5, UndisturbedPublishAppends DEF Fifo!Next
  <2>6. ASSUME NEW operation \in {"get", "pull"}, TakeBegin(operation)
        PROVE  UNCHANGED Fifo!vars
    BY <2>6 DEF TakeBegin, Fifo!vars, Items, Count, SlotOf
  <2>7. CASE TakeRead
    <3>1. first # last /\ handed' = buffer[first]
      BY <2>1, <2>7 DEF TakeRead, TakeProgress
    <3>2. Items' = Items
      BY <2>7 DEF TakeRead, Items, Count, SlotOf
    <3>3. QED
      BY <2>1, <3>1, <3>2, HeadOfItems DEF Fifo!Next, Fifo!Get
  <2>8. CASE TakeAdvance
    BY <2>1, <2>8, AdvanceRemoves DEF Fifo!Next
  <2>9. QED
    BY <2>2, <2>3, <2>4, <2>5, <2>6, <2>7, <2>8, <2>4a
       DEF OvertakenNext, PutStep, TakeStep
<1>2. QED
  BY <1>1, OvertakenInvariant, WatchesOnly, TypeCorrect, PTL
     DEF OvertakenSpec, OnlyOvertakenPutCorrupts

-----------------------------------------------------------------------------
LEMMA OwnValueKept ==
    ASSUME PInv, OwnValue, [OvertakenNext]_<<vars, overtaken>>
    PROVE  OwnValue'
<1>1. ASSUME NEW p \in Producers, NEW v \in Data, PutBegin(p, v), UNCHANGED overtaken
      PROVE  OwnValue'
  BY <1>1 DEF PutBegin, PInv, TypeOK, OwnValue
<1>2. ASSUME NEW p \in Producers, PutCheck(p),
             overtaken' = IF putPc'[p] = "idle" THEN overtaken \ {p} ELSE overtaken
      PROVE  OwnValue'
  BY <1>2 DEF PutCheck, PInv, TypeOK, OwnValue
<1>3. ASSUME NEW p \in Producers, PutStore(p), UNCHANGED overtaken
      PROVE  OwnValue'
  <2>1. /\ Runs(p) /\ putPc[p] = "store"
        /\ putPc' = [putPc EXCEPT ![p] = "publish"]
        /\ buffer' = [buffer EXCEPT ![slot[p]] = value[p]]
        /\ last' = last /\ value' = value
    BY <1>3 DEF PutStore
  <2> SUFFICES ASSUME NEW q \in Producers \ overtaken, putPc'[q] = "publish"
               PROVE  \/ buffer'[last] = value[q]
                      \/ \E r \in Producers : putPc'[r] = "publish" /\ <<r, q>> \in Preempts
    BY <1>3, <2>1 DEF OwnValue
  <2>2. CASE q = p
    BY <1>3, <2>1, <2>2 DEF PInv, PutUndisturbed, TypeOK
  <2>3. CASE q # p
    <3>1. putPc[q] = "publish"
      BY <2>1, <2>3 DEF PInv, TypeOK
    <3>2. <<p, q>> \in Preempts
      BY <2>1, <2>3, <3>1, MovesAbove
    <3>3. QED
      BY <2>1, <3>2 DEF PInv, TypeOK
  <2>4. QED
    BY <2>2, <2>3
<1>3a. ASSUME NEW p \in Producers, PutAim(p), UNCHANGED overtaken
      PROVE  OwnValue'
  BY <1>3a DEF PutAim, PInv, TypeOK, OwnValue
<1>4. ASSUME NEW p \in Producers, PutPublish(p),
             overtaken' = (overtaken \ {p}) \cup Overtake(p)
      PROVE  OwnValue'
  BY <1>4, PublishKeeps DEF OwnValue
<1>5. CASE TakeStep /\ UNCHANGED overtaken
  BY <1>5 DEF TakeStep, TakeBegin, TakeRead, TakeAdvance, producerVars, OwnValue
<1>6. CASE UNCHANGED <<vars, overtaken>>
  BY <1>6 DEF vars, OwnValue
<1>7. QED
  BY <1>1, <1>2, <1>3, <1>4, <1>5, <1>6, <1>3a DEF OvertakenNext, PutStep

(* A put that is not overtaken appends its own value, even if another put  *)
(* has begun, was refused or wrote to the same slot in between: where a    *)
(* command is lost, the put that lost it was itself interrupted by a put   *)
(* that succeeded.                                                         *)
THEOREM UndisturbedPutAppends ==
    OvertakenSpec =>
        [][\A p \in Producers \ overtaken : PutPublish(p) => Fifo!Put(value[p])]_vars
<1>1. PInv /\ OwnValue /\ TypeOK' /\ [OvertakenNext]_<<vars, overtaken>> =>
        [\A p \in Producers \ overtaken : PutPublish(p) => Fifo!Put(value[p])]_vars
  <2> SUFFICES ASSUME PInv, OwnValue, TypeOK', NEW p \in Producers \ overtaken, PutPublish(p)
               PROVE  Fifo!Put(value[p])
    OBVIOUS
  <2>1. Runs(p) /\ putPc[p] = "publish"
    BY DEF PutPublish
  <2>2. ASSUME NEW q \in Producers, putPc[q] = "publish", <<q, p>> \in Preempts
        PROVE  FALSE
    <3>1. CASE q = p
      BY <2>2, <3>1, LevelAssumption
    <3>2. CASE q # p
      BY <2>1, <2>2, <3>2, MovesAbove, LevelAssumption
    <3>3. QED
      BY <3>1, <3>2
  <2>3. buffer[last] = value[p]
    BY <2>1, <2>2 DEF OwnValue
  <2>4. QED
    BY <2>3, UndisturbedPublishAppends
<1>2. PInv /\ OwnValue /\ [OvertakenNext]_<<vars, overtaken>> => OwnValue'
  BY OwnValueKept
<1>3. OvertakenInit => OwnValue
  BY InitPInv
<1>4. QED
  BY <1>1, <1>2, <1>3, OvertakenInvariant, WatchesOnly, TypeCorrect, PTL DEF OvertakenSpec

(* However many contexts put, the slot DebugHandler is reading from is not  *)
(* overwritten meanwhile (CircularBuffer.h 16 against 23 and 29).           *)
THEOREM ReadSlotKeptAlways == OvertakenSpec => ReadSlotKept
<1>1. PInv /\ [OvertakenNext]_<<vars, overtaken>> =>
        [takePc # "idle" => buffer'[first] = buffer[first]]_vars
  <2> SUFFICES ASSUME PInv, OvertakenNext, takePc # "idle"
               PROVE  buffer'[first] = buffer[first]
    BY DEF vars
  <2>1. ASSUME NEW p \in Producers, PutStore(p) PROVE buffer'[first] = buffer[first]
    BY <2>1, StoreLeavesReadSlot
  <2>2. CASE UNCHANGED buffer
    BY <2>2
  <2>3. QED
    BY <2>1, <2>2 DEF OvertakenNext, PutStep, TakeStep, PutBegin, PutCheck, PutAim,
                      PutPublish, TakeBegin, TakeRead, TakeAdvance
<1>2. QED
  BY <1>1, OvertakenInvariant, PTL DEF OvertakenSpec, ReadSlotKept
=============================================================================
