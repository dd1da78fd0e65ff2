\* Two inhibitors, three requests and two exits of the compositor.  With these
\* at most eight connections are opened: MaxConns is never in the way.
SPECIFICATION Spec
CONSTANTS
    Dispatcher = d
    Request = r
    Requests = {r}
    MaxConns = 9
    MaxRestarts = 2
    MaxIds = 2
    MaxOps = 3
INVARIANTS TypeOK ReferencedMeansOn InhibitsExactlyEnabled ReferencedObjectExists
PROPERTIES RequestsAreAtomic RequestReturns DispatchResumes
CHECK_DEADLOCK FALSE
