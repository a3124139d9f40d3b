SPECIFICATION SteadySpec
CONSTANTS
    Subscriber = {s1, s2}
    Future = {f1, f2, f3}
    Flush = {}
    Watcher = {}
    MaxQueueSize = 2
    MaxPublishers = 1
INVARIANTS AtMostOnce SenderNotStranded LosesOnlyOverflow LosesTheOldest
PROPERTY PublishCompletes
CHECK_DEADLOCK FALSE
