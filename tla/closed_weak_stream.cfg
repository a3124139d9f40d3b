SPECIFICATION WeakJoinSpec
CONSTANTS
    Subscriber = {s1}
    Future = {}
    Flush = {}
    Watcher = {}
    MaxQueueSize = 1
    MaxPublishers = 1
PROPERTY StreamsEnd
CHECK_DEADLOCK FALSE
