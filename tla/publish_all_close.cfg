SPECIFICATION DisciplinedSpec
CONSTANTS
    Subscriber = {s1}
    Future = {f1, f2}
    Flush = {e1}
    Watcher = {c1}
    MaxQueueSize = 1
    MaxPublishers = 2
PROPERTIES StreamsEnd FlushCompletes CloseSeen
CHECK_DEADLOCK FALSE
