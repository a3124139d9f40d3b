SPECIFICATION FairRelaySpec
CONSTANTS
    Subscriber = {s1}
    Future = {f1, f2, f3}
    Message = {f1, f2, f3}
    Flush = {}
    Watcher = {c1}
    Closed = c1
    Source = {g1, g2}
    MaxQueueSize = 1
    MaxPublishers = 1
INVARIANTS RelayTypeOK RelaysAll RelayNotStranded
PROPERTY RelayEnds
CHECK_DEADLOCK FALSE
