---------------------------- MODULE BoundedFifo ----------------------------
(***************************************************************************)
(* What CircularBuffer<DataType, size> promises its users: a first-in      *)
(* first-out queue of at most Capacity values.  A put appends or, on a     *)
(* full queue, leaves it alone; a get hands out the oldest value; a pull   *)
(* hands it out and removes it.  Every operation is one indivisible step.  *)
(***************************************************************************)
EXTENDS Naturals, Sequences

CONSTANTS Data,      \* the values a queue may hold
          Capacity,  \* how many of them it holds at most
          NoValue    \* what nobody was handed yet

VARIABLES items,     \* the queued values, oldest first
          handed     \* the value the last get or pull handed out

vars == <<items, handed>>

TypeOK == /\ items \in Seq(Data)
          /\ Len(items) <= Capacity
          /\ handed \in Data \cup {NoValue}

Init == items = <<>> /\ handed = NoValue

Put(v) == /\ Len(items) < Capacity
          /\ items' = Append(items, v)
          /\ UNCHANGED handed

Get == /\ items # <<>>
       /\ handed' = Head(items)
       /\ UNCHANGED items

Remove == /\ items # <<>>
          /\ handed = Head(items)
          /\ items' = Tail(items)
          /\ UNCHANGED handed

Next == (\E v \in Data : Put(v)) \/ Get \/ Remove

Spec == Init /\ [][Next]_vars
=============================================================================
