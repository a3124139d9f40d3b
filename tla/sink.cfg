SPECIFICATION FairSinkSpec
CONSTANTS
    Subscriber = {s1}
    Future = {f1, f2}
    Flush = {e1}
    Watcher = {}
    MaxQueueSize = 1
    MaxPublishers = 1
    RequiredSubscribers = {0, 1, 2}
    ClientTask = {f1, f2, e1}
INVARIANTS SinkTypeOK GateHolds SinkNotStranded
PROPERTY SinkReadies
CHECK_DEADLOCK FALSE
