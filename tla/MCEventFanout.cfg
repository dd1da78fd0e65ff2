\* One connection that may subscribe twice; the queue is smaller than the
\* number of broadcasts, so it overflows.
SPECIFICATION Spec
CONSTANTS
    Conns = {c1}
    Watcher = w
    Others = {o1}
    Cap = 2
    MaxSubs = 2
    MaxVersion = 2
    MaxNotices = 1
INVARIANTS TypeOK NoSendOnClosed FifoPerSubscription
PROPERTIES UpdateReachesSubscriber GoneClientUnregistered
CHECK_DEADLOCK FALSE
