SPECIFICATION SteadySpec
CONSTANTS
    Subscriber = {s1, s2}
    Future = {f1, f2, f3}
    Flush = {}
    Watcher = {}
    MaxQueueSize = 1
    MaxPublishers = 1
INVARIANTS OneReader EvenTurns
PROPERTIES RoomIsHeard RoomIsTaken
CHECK_DEADLOCK FALSE
