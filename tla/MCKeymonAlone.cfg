\* The same keyboard as in MCKeymonMachine.cfg.
SPECIFICATION Spec
CONSTANTS
    lsuper = lsuper
    rsuper = rsuper
    alt = alt
    a = a
    b = b
    Groups <- MCGroups
    Modifiers <- MCModifiers
    GroupOf <- MCGroupOf
    Ordinary <- MCOrdinary
    Wheel = wheel
    Lost = lost
    NoGroup = none
PROPERTY FiresOnlyAlone
