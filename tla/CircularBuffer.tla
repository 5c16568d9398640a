-------------------------- MODULE CircularBuffer --------------------------
(***************************************************************************)
(* CircularBuffer<DataType, size> of Bootloader/App/CircularBuffer.h: a    *)
(* ring of Size slots, one of them always free, shared without any lock    *)
(* between producers that put and one consumer that gets and pulls.        *)
(*                                                                         *)
(* _first and _last are volatile, so every access to them is a step of its *)
(* own and another context may run between any two of them.  Contexts are  *)
(* interrupt levels: while one is inside an operation, only a context that *)
(* preempts it moves.                                                      *)
(***************************************************************************)
EXTENDS Naturals, Sequences

CONSTANTS Size,       \* template parameter: slots of the ring
          Data,       \* the values of DataType
          NoValue,    \* the content of a local nobody assigned
          Producers,  \* the contexts that call put
          Consumer,   \* the context that calls get and pull
          Preempts    \* pairs of contexts: the first may interrupt the second

ASSUME SizeAssumption == Size \in Nat /\ Size >= 2
ASSUME NoValueAssumption == NoValue \notin Data
ASSUME ActorAssumption == /\ Consumer \notin Producers
                          /\ Preempts \subseteq (Producers \cup {Consumer})
                                                \X (Producers \cup {Consumer})

VARIABLES first, last,  \* _first, _last
          buffer,       \* _buffer
          putPc,        \* where each producer is inside put
          next,         \* its local 'next'
          slot,         \* the index it stores to: _last as it was loaded for it
          value,        \* its argument 'value'
          takePc,       \* where the consumer is inside get or pull
          handed        \* the value get or pull copied out last

producerVars == <<putPc, next, slot, value>>
consumerVars == <<takePc, handed>>
vars == <<first, last, buffer, putPc, next, slot, value, takePc, handed>>

Slots == 0 .. Size - 1

(* The next slot after one, wrapping at the end of the ring. *)
NextPos(current) == IF current + 1 >= Size THEN 0 ELSE current + 1

TypeOK ==
    /\ first \in Slots
    /\ last \in Slots
    /\ buffer \in [Slots -> Data \cup {NoValue}]
    /\ putPc \in [Producers -> {"idle", "check", "aim", "store", "publish"}]
    /\ next \in [Producers -> Slots]
    /\ slot \in [Producers -> Slots]
    /\ value \in [Producers -> Data \cup {NoValue}]
    /\ takePc \in {"idle", "get", "pull", "advance"}
    /\ handed \in Data \cup {NoValue}

Init ==
    /\ first = 0 /\ last = 0
    /\ buffer = [s \in Slots |-> NoValue]
    /\ putPc = [p \in Producers |-> "idle"]
    /\ next = [p \in Producers |-> 0]
    /\ slot = [p \in Producers |-> 0]
    /\ value = [p \in Producers |-> NoValue]
    /\ takePc = "idle"
    /\ handed = NoValue

---------------------------------------------------------------------------
(* The contexts that are inside an operation, and who may run. *)
Busy == {p \in Producers : putPc[p] # "idle"}
        \cup (IF takePc # "idle" THEN {Consumer} ELSE {})

Runs(actor) == \A other \in Busy \ {actor} : <<actor, other>> \in Preempts

(* put: size_t next = nextPos(_last). *)
PutBegin(p, v) ==
    /\ Runs(p) /\ putPc[p] = "idle"
    /\ putPc' = [putPc EXCEPT ![p] = "check"]
    /\ next' = [next EXCEPT ![p] = NextPos(last)]
    /\ value' = [value EXCEPT ![p] = v]
    /\ UNCHANGED <<first, last, buffer, slot, consumerVars>>

(* Mutation of PutCheck: a full ring is not noticed. *)
PutCheckAlways(p) ==
    /\ Runs(p) /\ putPc[p] = "check"
    /\ putPc' = [putPc EXCEPT ![p] = "aim"]
    /\ UNCHANGED <<first, last, buffer, next, slot, value, consumerVars>>

(* put: if (next == _first) return false. *)
PutCheck(p) ==
    /\ Runs(p) /\ putPc[p] = "check"
    /\ putPc' = [putPc EXCEPT ![p] = IF next[p] = first THEN "idle" ELSE "aim"]
    /\ UNCHANGED <<first, last, buffer, next, slot, value, consumerVars>>

(* put: _buffer[_last] = value begins with another load of _last. *)
PutAim(p) ==
    /\ Runs(p) /\ putPc[p] = "aim"
    /\ slot' = [slot EXCEPT ![p] = last]
    /\ putPc' = [putPc EXCEPT ![p] = "store"]
    /\ UNCHANGED <<first, last, buffer, next, value, consumerVars>>

(* Mutation of PutStore: the value goes one slot too far. *)
PutStoreAtNext(p) ==
    /\ Runs(p) /\ putPc[p] = "store"
    /\ buffer' = [buffer EXCEPT ![next[p]] = value[p]]
    /\ slot' = [slot EXCEPT ![p] = 0]
    /\ putPc' = [putPc EXCEPT ![p] = "publish"]
    /\ UNCHANGED <<first, last, next, value, consumerVars>>

(* put: the store itself, to the slot that was found before. *)
PutStore(p) ==
    /\ Runs(p) /\ putPc[p] = "store"
    /\ buffer' = [buffer EXCEPT ![slot[p]] = value[p]]
    /\ slot' = [slot EXCEPT ![p] = 0]
    /\ putPc' = [putPc EXCEPT ![p] = "publish"]
    /\ UNCHANGED <<first, last, next, value, consumerVars>>

(* put: _last = next; return true. *)
PutPublish(p) ==
    /\ Runs(p) /\ putPc[p] = "publish"
    /\ last' = next[p]
    /\ putPc' = [putPc EXCEPT ![p] = "idle"]
    /\ UNCHANGED <<first, buffer, next, slot, value, consumerVars>>

(* Mutation of TakeBegin: an empty ring is not noticed. *)
TakeBeginAlways(operation) ==
    /\ Runs(Consumer) /\ takePc = "idle"
    /\ takePc' = operation
    /\ UNCHANGED <<first, last, buffer, producerVars, handed>>

(* get and pull: if (_first == _last) return false, otherwise go on. *)
TakeBegin(operation) ==
    /\ Runs(Consumer) /\ takePc = "idle"
    /\ first # last
    /\ takePc' = operation
    /\ UNCHANGED <<first, last, buffer, producerVars, handed>>

(* get and pull: value = _buffer[_first]; get returns here. *)
TakeRead ==
    /\ Runs(Consumer) /\ takePc \in {"get", "pull"}
    /\ handed' = buffer[first]
    /\ takePc' = IF takePc = "get" THEN "idle" ELSE "advance"
    /\ UNCHANGED <<first, last, buffer, producerVars>>

(* pull: _first = nextPos(_first); return true. *)
TakeAdvance ==
    /\ Runs(Consumer) /\ takePc = "advance"
    /\ first' = NextPos(first)
    /\ takePc' = "idle"
    /\ UNCHANGED <<last, buffer, producerVars, handed>>

Next ==
    \/ \E p \in Producers :
         \/ \E v \in Data : PutBegin(p, v)
         \/ PutCheck(p)
         \/ PutAim(p)
         \/ PutStore(p)
         \/ PutPublish(p)
    \/ \E operation \in {"get", "pull"} : TakeBegin(operation)
    \/ TakeRead
    \/ TakeAdvance

Spec == Init /\ [][Next]_vars

---------------------------------------------------------------------------
(* The values the ring holds, oldest first: what isEmpty, get and pull see *)
(* of first, last and buffer.                                              *)
Count == IF first <= last THEN last - first ELSE last - first + Size
SlotOf(i) == IF first + i - 1 < Size THEN first + i - 1 ELSE first + i - 1 - Size
Items == [i \in 1 .. Count |-> buffer[SlotOf(i)]]

Fifo == INSTANCE BoundedFifo WITH Capacity <- Size - 1, items <- Items

(* The slot that put writes is never a slot the consumer reads: between    *)
(* the two accesses to _buffer (CircularBuffer.h:16 and 23, 29) no other   *)
(* synchronisation exists than the order in which _first and _last move.   *)
NoSlotRace ==
    \A p \in Producers : putPc[p] = "store" /\ takePc \in {"get", "pull"} => slot[p] # first

(* With a single producer the ring is a bounded first-in first-out queue,  *)
(* whatever the points at which put, get and pull preempt one another.     *)
RefinesFifo == Fifo!Spec
===========================================================================
