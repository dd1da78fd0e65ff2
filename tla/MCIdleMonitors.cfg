\* Two requests at a time, three in all, on one monitor; one compositor exit.
\* A request creates at most one notification, and more connections are never
\* open than four: MaxNotifs and MaxConns leave nothing out.
\* The requests end: nothing is left to do but to read events.
SPECIFICATION Spec
CONSTANTS
    Dispatcher = d
    Requests = {r1, r2}
    MaxConns = 5
    MaxRestarts = 1
    MaxIds = 1
    MaxOps = 3
    MaxNotifs = 3
INVARIANTS TypeOK OneNotificationPerMonitor SingleOwner ToldState
CHECK_DEADLOCK FALSE
