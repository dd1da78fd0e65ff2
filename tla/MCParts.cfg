SPECIFICATION Spec
CONSTANTS
    Clients = {c1, c2}
    Off = Off
    Dispatcher = "dispatcher"
    Advertised <- McAdvertised
    Created <- McCreated
    MaxId = 8
    MaxSent = 1
    Win = {"w1", "w2"}
    None = "none"
    Requests <- McRequests
    MaxRequests = 2
    MaxDisturbances = 3
    Inputs = {"kbd", "mouse"}
    KeysOf <- McKeysOf
    Modifiers = {"super"}
    MaxInputs = 3
    MaxSets = 2
    Main = "main"
    MaxImportDepth = 2
    Writes <- McWrites
    MaxEdits = 2
    MaxFailures = 1
    Displays <- McDisplays
    Values = {0}
    Deltas = {40}
    MaxSettings = 3
    MaxPlugs = 1
INVARIANTS PartsTypeOK OnlyEarlyUseFails NothingMisread ActsOnNamedWindow SetTakesEffect DialectMatches FiresOncePerCleanTap NoChangeLost ImportsOverride RestoreBringsBack ZombiesLeave
CHECK_DEADLOCK FALSE
