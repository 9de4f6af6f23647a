\* Three workers, processes behind a bounded queue or threads that share one
\* generator and an unbounded one.
SPECIFICATION Spec
CONSTANTS
    w1 = w1
    w2 = w2
    w3 = w3
    Workers <- ThreeWorkers
    MAX_QUEUE_SIZE = 2
INVARIANTS
    TypeOK
    QueueBounded
    GetNeverBlocks
    NoneMeansFailure
    StopLeavesNobody
PROPERTIES
    BatchOrNews
    StopCompletes
    WorkersEnd
CHECK_DEADLOCK FALSE
