SPECIFICATION FairSinkSpec
CONSTANTS
    Subscriber = {s1}
    Future = {f1}
    Flush = {e1}
    Watcher = {}
    MaxQueueSize = 1
    MaxPublishers = 1
    RequiredSubscribers = {0}
    ClientTask = {}
PROPERTY CloseCompletes
CHECK_DEADLOCK FALSE
