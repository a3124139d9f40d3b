SPECIFICATION SteadySpec
CONSTANTS
    Subscriber = {s1}
    Future = {f1, f2}
    Flush = {}
    Watcher = {}
    MaxQueueSize = 1
    MaxPublishers = 1
PROPERTY AvailableIsUsed
CHECK_DEADLOCK FALSE
