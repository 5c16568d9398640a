------------------------ MODULE CircularBufferProofs ------------------------
(***************************************************************************)
(* Theorems about the ring of CircularBuffer, for every size, every set of *)
(* values and every assignment of priorities.                              *)
(***************************************************************************)
EXTENDS CircularBuffer, TLAPS

(* nextPos never leaves the ring. *)
LEMMA NextPosInSlots ==
    ASSUME NEW s \in Slots
    PROVE  NextPos(s) \in Slots /\ NextPos(s) # s
  BY SizeAssumption DEF Slots, NextPos

(* Every index, program counter and local keeps its range, however many    *)
(* producers preempt one another: put can lose a value (CircularBuffer.h   *)
(* 13-19) but never write outside _buffer.                                 *)
THEOREM TypeCorrect == Spec => []TypeOK
<1>1. Init => TypeOK
  BY SizeAssumption DEF Init, TypeOK, Slots
<1>2. TypeOK /\ [Next]_vars => TypeOK'
  <2> SUFFICES ASSUME TypeOK, [Next]_vars PROVE TypeOK'
    OBVIOUS
  <2> USE DEF TypeOK, producerVars, consumerVars
  <2>1. ASSUME NEW p \in Producers, NEW v \in Data, PutBegin(p, v) PROVE TypeOK'
    BY <2>1, NextPosInSlots DEF PutBegin
  <2>2. ASSUME NEW p \in Producers, PutCheck(p) PROVE TypeOK'
    BY <2>2 DEF PutCheck
  <2>3. ASSUME NEW p \in Producers, PutAim(p) \/ PutStore(p) PROVE TypeOK'
    <3>1. CASE PutAim(p)
      BY <3>1 DEF PutAim
    <3>2. CASE PutStore(p)
      <4>1. 0 \in Slots
        BY SizeAssumption DEF Slots
      <4>2. QED
        BY <3>2, <4>1 DEF PutStore
    <3>3. QED
      BY <2>3, <3>1, <3>2
  <2>4. ASSUME NEW p \in Producers, PutPublish(p) PROVE TypeOK'
    BY <2>4 DEF PutPublish
  <2>5. ASSUME NEW operation \in {"get", "pull"}, TakeBegin(operation) PROVE TypeOK'
    BY <2>5 DEF TakeBegin
  <2>6. CASE TakeRead
    BY <2>6 DEF TakeRead
  <2>7. CASE TakeAdvance
    BY <2>7, NextPosInSlots DEF TakeAdvance
  <2>8. CASE UNCHANGED vars
    BY <2>8 DEF vars
  <2>9. QED
    BY <2>1, <2>2, <2>3, <2>4, <2>5, <2>6, <2>7, <2>8 DEF Next
<1>3. QED
  BY <1>1, <1>2, PTL DEF Spec

-----------------------------------------------------------------------------
(* What a producer inside put and a consumer inside get or pull rely on:   *)
(* nobody else moves _last, and the tests against an equal index stay true *)
(* because the other side only moves its index away from them.             *)
PutProgress(p) ==
    /\ putPc[p] # "idle" => next[p] = NextPos(last) /\ value[p] \in Data
    /\ putPc[p] \in {"aim", "store", "publish"} => next[p] # first
    /\ putPc[p] = "store" => slot[p] = last
    /\ putPc[p] = "publish" => buffer[last] = value[p]

TakeProgress ==
    /\ takePc # "idle" => first # last
    /\ takePc = "advance" => handed = buffer[first]

IInv == /\ TypeOK
        /\ \A p \in Producers : PutProgress(p)
        /\ TakeProgress

(* nextPos is one-to-one: it moves distinct indices to distinct slots. *)
LEMMA NextPosInjective ==
    ASSUME NEW s \in Slots, NEW t \in Slots, NextPos(s) = NextPos(t)
    PROVE  s = t
  BY SizeAssumption DEF Slots, NextPos

LEMMA InitIInv == Init => IInv
  BY SizeAssumption DEF Init, IInv, TypeOK, Slots, PutProgress, TakeProgress

(* The strengthened invariant is inductive as soon as there is one producer. *)
LEMMA NextIInv ==
    ASSUME NEW producer, Producers = {producer}, TypeOK', IInv, [Next]_vars
    PROVE  IInv'
<1> USE DEF IInv, TypeOK, PutProgress, TakeProgress, producerVars, consumerVars
<1>1. ASSUME NEW p \in Producers, NEW v \in Data, PutBegin(p, v) PROVE IInv'
  BY <1>1 DEF PutBegin, NextPos
<1>2. ASSUME NEW p \in Producers, PutCheck(p) PROVE IInv'
  BY <1>2 DEF PutCheck, NextPos
<1>3. ASSUME NEW p \in Producers, PutAim(p) \/ PutStore(p) PROVE IInv'
  BY <1>3 DEF PutAim, PutStore, NextPos
<1>4. ASSUME NEW p \in Producers, PutPublish(p) PROVE IInv'
  <2>1. putPc'[producer] = "idle" /\ p = producer /\ last' = next[p]
    BY <1>4 DEF PutPublish
  <2>2. TakeProgress'
    BY <1>4 DEF PutPublish
  <2>3. QED
    BY <2>1, <2>2
<1>5. ASSUME NEW operation \in {"get", "pull"}, TakeBegin(operation) PROVE IInv'
  BY <1>5 DEF TakeBegin, NextPos
<1>6. CASE TakeRead
  BY <1>6 DEF TakeRead, NextPos
<1>7. CASE TakeAdvance
  <2>1. first # last /\ first' = NextPos(first) /\ first' # NextPos(last)
    BY <1>7, NextPosInjective DEF TakeAdvance
  <2>2. \A p \in Producers : PutProgress(p)'
    BY <1>7, <2>1 DEF TakeAdvance, NextPos
  <2>3. TakeProgress'
    BY <1>7 DEF TakeAdvance
  <2>4. QED
    BY <2>2, <2>3
<1>8. CASE UNCHANGED vars
  BY <1>8 DEF vars, NextPos
<1>9. QED
  BY <1>1, <1>2, <1>3, <1>4, <1>5, <1>6, <1>7, <1>8 DEF Next

(* With one producer, what a context relies on inside an operation holds   *)
(* at every step of every interleaving.                                    *)
THEOREM SingleProducerInvariant ==
    ASSUME NEW producer, Producers = {producer}
    PROVE  Spec => []IInv
<1>1. TypeOK' /\ IInv /\ [Next]_vars => IInv'
  BY NextIInv
<1>2. QED
  BY <1>1, InitIInv, TypeCorrect, PTL DEF Spec

(* With one producer, a put never writes the slot a get or pull reads. *)
THEOREM NoSlotRaceHolds ==
    ASSUME NEW producer, Producers = {producer}
    PROVE  Spec => []NoSlotRace
<1>1. IInv => NoSlotRace
  BY DEF IInv, PutProgress, TakeProgress, NoSlotRace
<1>2. QED
  BY <1>1, SingleProducerInvariant, PTL

-----------------------------------------------------------------------------
(* The refinement: what each step does to the queue that the ring stands for. *)

(* The ring never holds more than Size - 1 values. *)
LEMMA CountRange ==
    ASSUME first \in Slots, last \in Slots
    PROVE  /\ Count \in 0 .. Size - 1
           /\ Count = 0 <=> first = last
           /\ \A i \in 1 .. Count : SlotOf(i) \in Slots /\ SlotOf(i) # last
  BY SizeAssumption DEF Slots, Count, SlotOf

LEMMA ItemsIsSequence ==
    ASSUME TypeOK
    PROVE  Items \in Seq(Data \cup {NoValue}) /\ Len(Items) = Count
<1>1. Count \in Nat /\ \A i \in 1 .. Count : SlotOf(i) \in Slots
  BY CountRange, SizeAssumption DEF TypeOK
<1>2. Items \in [1 .. Count -> Data \cup {NoValue}]
  BY <1>1 DEF TypeOK, Items
<1>3. QED
  BY <1>1, <1>2

(* The slot at _first is the head of the queue. *)
LEMMA HeadOfItems ==
    ASSUME TypeOK, first # last
    PROVE  Items # <<>> /\ Head(Items) = buffer[first]
<1>1. 1 \in 1 .. Count /\ SlotOf(1) = first
  BY CountRange, SizeAssumption DEF TypeOK, SlotOf, Slots
<1>2. Items[1] = buffer[first]
  BY <1>1 DEF Items
<1>3. QED
  BY <1>1, <1>2, ItemsIsSequence

(* A publication that moves _last to the next slot appends what is in the  *)
(* slot that was free.                                                     *)
LEMMA PublishAppends ==
    ASSUME NEW p \in Producers, TypeOK, TypeOK', PutPublish(p),
           next[p] = NextPos(last), next[p] # first
    PROVE  Fifo!Put(buffer[last])
<1>1. /\ last' = NextPos(last) /\ last' # first
      /\ first' = first /\ buffer' = buffer /\ handed' = handed
  BY DEF PutPublish, TypeOK, consumerVars
<1>2. first \in Slots /\ last \in Slots
  BY DEF TypeOK
<1>3. /\ Count < Size - 1 /\ Count' = Count + 1
      /\ SlotOf(Count + 1) = last
  BY <1>1, <1>2, SizeAssumption DEF Count, NextPos, Slots, SlotOf
<1>4. \A i \in 1 .. Count : SlotOf(i)' = SlotOf(i)
  BY <1>1 DEF SlotOf
<1>5. Items' = [i \in 1 .. Count + 1 |-> buffer[SlotOf(i)]]
  BY <1>1, <1>3 DEF Items, SlotOf
<1>6. Items' = Append(Items, buffer[last])
  <2>1. Len(Items) = Count /\ Items \in Seq(Data \cup {NoValue})
    BY ItemsIsSequence
  <2>2. Items' \in Seq(Data \cup {NoValue}) /\ Len(Items') = Count + 1
    <3>1. Count \in Nat /\ \A i \in 1 .. Count + 1 : SlotOf(i) \in Slots
      BY <1>2, <1>3, CountRange, SizeAssumption
    <3>2. Items' \in [1 .. Count + 1 -> Data \cup {NoValue}]
      BY <1>5, <3>1 DEF TypeOK
    <3>3. QED
      BY <3>1, <3>2
  <2>3. ASSUME NEW i \in 1 .. Count + 1 PROVE Items'[i] = Append(Items, buffer[last])[i]
    <3>1. CASE i = Count + 1
      BY <3>1, <1>1, <1>3, <1>5, <2>1
    <3>2. CASE i \in 1 .. Count
      <4>1. Items'[i] = buffer[SlotOf(i)] /\ Items[i] = buffer[SlotOf(i)]
        BY <3>2, <1>5 DEF Items
      <4>2. Append(Items, buffer[last])[i] = Items[i]
        BY <3>2, <2>1
      <4>3. QED
        BY <4>1, <4>2
    <3>3. QED
      BY <3>1, <3>2, <2>1, <1>2, CountRange
  <2>4. QED
    BY <2>1, <2>2, <2>3
<1>7. QED
  BY <1>1, <1>3, <1>6, ItemsIsSequence DEF Fifo!Put

LEMMA StoreKeepsItems ==
    ASSUME NEW p \in Producers, TypeOK, PutStore(p), slot[p] = last
    PROVE  Items' = Items
<1>1. \A i \in 1 .. Count : SlotOf(i) \in Slots /\ SlotOf(i) # last
  BY CountRange DEF TypeOK
<1>2. \A i \in 1 .. Count : buffer'[SlotOf(i)] = buffer[SlotOf(i)]
  BY <1>1 DEF PutStore, TypeOK
<1>3. QED
  BY <1>2 DEF PutStore, Items, Count, SlotOf

LEMMA AdvanceRemoves ==
    ASSUME TypeOK, TypeOK', TakeProgress, TakeAdvance
    PROVE  Fifo!Remove
<1>1. /\ first' = NextPos(first) /\ last' = last /\ buffer' = buffer
      /\ handed' = handed /\ first # last /\ handed = buffer[first]
  BY DEF TakeProgress, TakeAdvance, producerVars
<1>2. first \in Slots /\ last \in Slots
  BY DEF TypeOK
<1>3. /\ Count \in 1 .. Size - 1 /\ Count' = Count - 1
      /\ \A i \in 1 .. Count - 1 : SlotOf(i)' = SlotOf(i + 1)
  BY <1>1, <1>2, SizeAssumption DEF Count, NextPos, Slots, SlotOf
<1>4. Items' = Tail(Items)
  <2>1. Len(Items) = Count /\ Items \in Seq(Data \cup {NoValue})
    BY ItemsIsSequence
  <2>2. Items' \in Seq(Data \cup {NoValue}) /\ Len(Items') = Count - 1
    <3>1. Items' = [i \in 1 .. Count - 1 |-> buffer[SlotOf(i + 1)]]
      BY <1>1, <1>3 DEF Items
    <3>2. \A i \in 1 .. Count - 1 : SlotOf(i + 1) \in Slots
      BY <1>2, <1>3, CountRange
    <3>3. Items' \in [1 .. Count - 1 -> Data \cup {NoValue}]
      BY <3>1, <3>2 DEF TypeOK
    <3>4. QED
      BY <1>3, <3>3, SizeAssumption
  <2>3. ASSUME NEW i \in 1 .. Count - 1 PROVE Items'[i] = Items[i + 1]
    <3>1. Items'[i] = buffer[SlotOf(i + 1)]
      BY <1>1, <1>3 DEF Items
    <3>2. i + 1 \in 1 .. Count
      BY <1>3
    <3>3. QED
      BY <3>1, <3>2 DEF Items
  <2>4. QED
    BY <1>3, <2>1, <2>2, <2>3
<1>5. QED
  BY <1>1, <1>4, HeadOfItems DEF Fifo!Remove

LEMMA StepRefines ==
    ASSUME NEW producer, Producers = {producer}, IInv, TypeOK', [Next]_vars
    PROVE  Fifo!Next \/ UNCHANGED Fifo!vars
<1> USE DEF IInv
<1>1. ASSUME NEW p \in Producers, NEW v \in Data, PutBegin(p, v)
      PROVE  UNCHANGED Fifo!vars
  BY <1>1 DEF PutBegin, Fifo!vars, Items, Count, SlotOf, consumerVars
<1>2. ASSUME NEW p \in Producers, PutCheck(p) PROVE UNCHANGED Fifo!vars
  BY <1>2 DEF PutCheck, Fifo!vars, Items, Count, SlotOf, consumerVars
<1>3. ASSUME NEW p \in Producers, PutAim(p) \/ PutStore(p) PROVE UNCHANGED Fifo!vars
  <2>1. CASE PutAim(p)
    BY <2>1 DEF PutAim, Fifo!vars, Items, Count, SlotOf, consumerVars
  <2>2. CASE PutStore(p)
    BY <2>2, StoreKeepsItems DEF PutStore, PutProgress, Fifo!vars, consumerVars
  <2>3. QED
    BY <1>3, <2>1, <2>2
<1>4. ASSUME NEW p \in Producers, PutPublish(p) PROVE Fifo!Next
  <2>1. /\ next[p] = NextPos(last) /\ next[p] # first
        /\ value[p] \in Data /\ buffer[last] = value[p]
    BY <1>4 DEF PutPublish, PutProgress
  <2>2. Fifo!Put(buffer[last])
    BY <1>4, <2>1, PublishAppends
  <2>3. QED
    BY <2>1, <2>2 DEF Fifo!Next
<1>5. ASSUME NEW operation \in {"get", "pull"}, TakeBegin(operation)
      PROVE  UNCHANGED Fifo!vars
  BY <1>5 DEF TakeBegin, Fifo!vars, Items, Count, SlotOf
<1>6. CASE TakeRead
  <2>1. first # last /\ handed' = buffer[first]
    BY <1>6 DEF TakeRead, TakeProgress
  <2>2. Items' = Items
    BY <1>6 DEF TakeRead, Items, Count, SlotOf
  <2>3. QED
    BY <2>1, <2>2, HeadOfItems DEF Fifo!Next, Fifo!Get
<1>7. CASE TakeAdvance
  BY <1>7, AdvanceRemoves DEF Fifo!Next
<1>8. CASE UNCHANGED vars
  BY <1>8 DEF vars, Fifo!vars, Items, Count, SlotOf
<1>9. QED
  BY <1>1, <1>2, <1>3, <1>4, <1>5, <1>6, <1>7, <1>8 DEF Next

(* With one producer the lock-free ring implements the first-in first-out   *)
(* queue of Size - 1 places, for every size, every set of values and every  *)
(* interleaving of put, get and pull.                                       *)
THEOREM RingRefinesFifo ==
    ASSUME NEW producer, Producers = {producer}
    PROVE  Spec => RefinesFifo
<1>1. Init => Fifo!Init
  <2> SUFFICES ASSUME Init PROVE Items = <<>> /\ handed = NoValue
    BY DEF Fifo!Init
  <2>1. Count = 0
    BY DEF Init, Count
  <2>2. QED
    BY <2>1 DEF Init, Items
<1>2. IInv /\ TypeOK' /\ [Next]_vars => [Fifo!Next]_Fifo!vars
  BY StepRefines
<1>3. QED
  BY <1>1, <1>2, SingleProducerInvariant, TypeCorrect, PTL DEF Spec, Fifo!Spec, RefinesFifo
=============================================================================
