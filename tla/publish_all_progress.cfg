SPECIFICATION SteadySpec
CONSTANTS
    Subscriber = {s1, s2}
    Future = {f1, f2, f3}
    Flush = {}
    Watcher = {}
    MaxQueueSize = 1
    MaxPublishers = 1
INVARIANT NoWaitCycle
PROPERTIES PublishCompletes MessagesArrive IsAtomic
CHECK_DEADLOCK FALSE
