SPECIFICATION Spec
CONSTANTS
    producer = producer
    consumer = consumer
    Size = 4
    Data = {a, b}
    NoValue = none
    Producers <- MCProducers
    Consumer = consumer
    Preempts <- MCPreempts
INVARIANT NoSlotRace
PROPERTY RefinesFifo
