-------------------------- MODULE MCCircularBuffer --------------------------
(* One producer and one consumer on a small ring.  Each preempts the other  *)
(* anywhere here: more interleavings than any pair of interrupt levels has. *)
EXTENDS CircularBuffer

CONSTANTS producer, consumer

MCProducers == {producer}
MCPreempts == {<<producer, consumer>>, <<consumer, producer>>}
=============================================================================
