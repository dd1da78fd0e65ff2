\* One inhibitor, enabled while the dispatch loop reconnects.
SPECIFICATION Spec
CONSTANTS
    Dispatcher = d
    Request = r
    Requests = {r}
    MaxConns = 7
    MaxRestarts = 1
    MaxIds = 1
    MaxOps = 1
PROPERTY ClearedOnlyIfDead
CHECK_DEADLOCK FALSE
