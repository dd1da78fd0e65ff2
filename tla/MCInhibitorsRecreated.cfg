\* One inhibitor, enabled again after the compositor restarted.
SPECIFICATION Spec
CONSTANTS
    Dispatcher = d
    Request = r
    Requests = {r}
    MaxConns = 7
    MaxRestarts = 1
    MaxIds = 1
    MaxOps = 2
PROPERTY RecreatedOnNextUse
CHECK_DEADLOCK FALSE
