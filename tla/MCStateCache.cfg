SPECIFICATION Spec
CONSTANTS
    None = None
    Win = {w1, w2}
    Workspaces = {1, 2}
    Mons = {1, 2}
    Cap = 1
    MaxChanges = 2
    MaxExtras = 1
INVARIANTS TypeOK NoDuplicateWindows CacheConverges FocusConverges ReplyKeepsIds
PROPERTIES GhostsLeave
CHECK_DEADLOCK FALSE
