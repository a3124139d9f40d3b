SPECIFICATION JoinDuringPublishSpec
CONSTANTS
    Subscriber = {s1, s2, s3}
    Future = {f1, f2, f3}
    Flush = {}
    Watcher = {}
    MaxQueueSize = 1
    MaxPublishers = 1
SYMMETRY Symmetry
INVARIANT NoWaitCycle
CHECK_DEADLOCK FALSE
