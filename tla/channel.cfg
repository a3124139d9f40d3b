SPECIFICATION FairSpec
CONSTANTS
    Sender = {h1, h2}
    First = h1
    Receiver = r
    Message = {m1, m2}
    QueueLens = {0, 1, 2}
INVARIANTS TypeOK ReservationsHold ReceiverNotStranded SenderNotStranded FlushNotStranded
CHECK_DEADLOCK FALSE
PROPERTIES IsQueue AllArrives WaitersServed
