SPECIFICATION Spec
CONSTANTS
    Subscriber = {s1, s2}
    Future = {f1, f2, f3}
    Flush = {}
    Watcher = {}
    MaxQueueSize = 2
    MaxPublishers = 2
SYMMETRY Symmetry
INVARIANTS TypeOK QueueBound SlotAccounting ExactlyOnce SameOrder ReaderNotStranded SenderNotStranded EndsOnlyWhenClosed
CHECK_DEADLOCK FALSE
