\* One subscription, one event, one other broadcast: enough for two
\* broadcasters to read the cache in one order and enqueue in the other.
SPECIFICATION Spec
CONSTANTS
    Conns = {c1}
    Watcher = w
    Others = {o1}
    Cap = 2
    MaxSubs = 1
    MaxVersion = 1
    MaxNotices = 1
INVARIANT NoStaleAfterFresh
CHECK_DEADLOCK FALSE
