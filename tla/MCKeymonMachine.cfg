\* Two keys of one group, a key of another group and two ordinary keys.
SPECIFICATION Spec
CONSTANTS
    lsuper = lsuper
    rsuper = rsuper
    alt = alt
    a = a
    b = b
    Groups <- MCGroups
    Modifiers <- MCModifiers
    GroupOf <- MCGroupOf
    Ordinary <- MCOrdinary
    Wheel = wheel
    Lost = lost
    NoGroup = none
INVARIANTS TypeOK NoStuckKey CandidateIsAlone
PROPERTY TapFires
