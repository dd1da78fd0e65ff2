SPECIFICATION Spec
CONSTANTS
    Clients = {c1, c2}
    Reloaders = {r1}
    Settings = {s1}
    Groups = {super}
    Keys = {left, right}
    Group <- McGroup
    Values = {Unset, v1, v2}
    super = super
    left = left
    right = right
    v1 = v1
    v2 = v2
    Unset = Unset
    NoKey = NoKey
    Removed = Removed
    Emptied = Emptied
    Garbled = Garbled
    Requested <- McRequested
    Changes <- McChanges
    MaxRequests = 3
    MaxFailures = 1
SYMMETRY Symmetry
INVARIANT TypeOK
PROPERTIES AcknowledgedIsKept SettlesAlone
CHECK_DEADLOCK FALSE
