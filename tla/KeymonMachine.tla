--------------------------- MODULE KeymonMachine ----------------------------
(***************************************************************************)
(* pkg/keymon/machine.go: the state machine that is fed the evdev events   *)
(* of all input devices and reports a modifier that was pressed and        *)
(* released alone.  One action per kind of event that Process tells apart, *)
(* and Reset, which a reader calls when its device fails.                  *)
(*                                                                         *)
(* The devices are the environment: a key that is up is pressed, one that  *)
(* is down repeats or is released.  down, unseen and company are history:  *)
(* the code does not have them.                                            *)
(***************************************************************************)
EXTENDS FiniteSets

CONSTANTS
    Groups,        \* "SUPER", "ALT", ...
    Modifiers,     \* keycodes of modifierGroups
    GroupOf,       \* modifierGroups
    Ordinary,      \* every other key, and the mouse buttons
    Wheel,         \* mark in company: a wheel event
    Lost,          \* mark in company: a Reset
    NoGroup        \* Process returned ""

ASSUME MachineAssumption ==
    /\ GroupOf \in [Modifiers -> Groups]
    /\ Modifiers \cap Ordinary = {}
    /\ NoGroup \notin Groups
    /\ {Wheel, Lost} \cap (Modifiers \cup Ordinary) = {}

VARIABLES
    held,       \* ordinary keys the machine knows to be down
    modifiers,  \* modifiers the machine knows to be down
    candidate,  \* a modifier may turn out to have been pressed alone
    fired,      \* what the last call of Process returned
    down,       \* history: keys that are physically down
    unseen,     \* history: keys whose press the machine has not seen, or forgot
    company     \* history, modifier: what was down when it was pressed and
                \* what was pressed or scrolled since

machineVars == <<held, modifiers, candidate, fired>>
vars == <<machineVars, down, unseen, company>>

Keys   == Modifiers \cup Ordinary
Marks  == Keys \cup {Wheel, Lost}

TypeOK ==
    /\ held \subseteq Ordinary
    /\ modifiers \subseteq Modifiers
    /\ candidate \in BOOLEAN
    /\ fired \in Groups \cup {NoGroup}
    /\ down \subseteq Keys
    /\ unseen \subseteq Keys
    /\ company \in [Modifiers -> SUBSET Marks]

\* The daemon may start while keys are held down.
Init ==
    /\ held = {}
    /\ modifiers = {}
    /\ candidate = FALSE
    /\ fired = NoGroup
    /\ down \in SUBSET Keys
    /\ unseen = down
    /\ company = [m \in Modifiers |-> {Lost}]

Joined(mark) == [m \in Modifiers |-> company[m] \cup {mark}]

----------------------------------------------------------------------------
\* Mutant of ModifierDown: the modifier is noted among the other keys as well.
ModifierDownHeld(k) ==
    /\ k \in Modifiers \ down
    /\ modifiers' = modifiers \cup {k}
    /\ held' = held \cup {k}
    /\ candidate' = (candidate \/ held = {})
    /\ fired' = NoGroup
    /\ down' = down \cup {k}
    /\ company' = [Joined(k) EXCEPT ![k] = held \cup modifiers]
    /\ UNCHANGED unseen

\* processKey, value 1, a modifier.
ModifierDown(k) ==
    /\ k \in Modifiers \ down
    /\ modifiers' = modifiers \cup {k}
    /\ candidate' = (candidate \/ held = {})
    /\ fired' = NoGroup
    /\ down' = down \cup {k}
    /\ company' = [Joined(k) EXCEPT ![k] = held \cup modifiers]
    /\ UNCHANGED <<held, unseen>>

\* Mutant of OrdinaryDown: the key is noted, the candidate survives.
OrdinaryDownKeepsCandidate(k) ==
    /\ k \in Ordinary \ down
    /\ held' = held \cup {k}
    /\ fired' = NoGroup
    /\ down' = down \cup {k}
    /\ company' = Joined(k)
    /\ UNCHANGED <<modifiers, candidate, unseen>>

\* processKey, value 1, any other key or button.
OrdinaryDown(k) ==
    /\ k \in Ordinary \ down
    /\ held' = held \cup {k}
    /\ candidate' = FALSE
    /\ fired' = NoGroup
    /\ down' = down \cup {k}
    /\ company' = Joined(k)
    /\ UNCHANGED <<modifiers, unseen>>

\* processKey, value 0, a modifier: it fires if it is the last one.
ModifierUp(k) ==
    LET last == candidate /\ modifiers \subseteq {k} IN
    /\ k \in Modifiers \cap down
    /\ modifiers' = modifiers \ {k}
    /\ candidate' = (candidate /\ ~last)
    /\ fired' = IF last THEN GroupOf[k] ELSE NoGroup
    /\ down' = down \ {k}
    /\ unseen' = unseen \ {k}
    /\ UNCHANGED <<held, company>>

\* Mutant of OrdinaryUp: a release is not a press, it is not looked at.
OrdinaryUpIgnored(k) ==
    /\ k \in Ordinary \cap down
    /\ fired' = NoGroup
    /\ down' = down \ {k}
    /\ unseen' = unseen \ {k}
    /\ UNCHANGED <<held, modifiers, candidate, company>>

\* processKey, value 0, any other key or button.
OrdinaryUp(k) ==
    /\ k \in Ordinary \cap down
    /\ held' = held \ {k}
    /\ fired' = NoGroup
    /\ down' = down \ {k}
    /\ unseen' = unseen \ {k}
    /\ UNCHANGED <<modifiers, candidate, company>>

\* Mutant of Ignored: an autorepeat counts as a press of another key.
IgnoredCancels ==
    /\ candidate' = FALSE
    /\ fired' = NoGroup
    /\ UNCHANGED <<held, modifiers, down, unseen, company>>

\* Autorepeat (value 2), pointer motion, any other event.
Ignored ==
    /\ fired' = NoGroup
    /\ UNCHANGED <<held, modifiers, candidate, down, unseen, company>>

\* A wheel event.
Scroll ==
    /\ candidate' = FALSE
    /\ fired' = NoGroup
    /\ company' = Joined(Wheel)
    /\ UNCHANGED <<held, modifiers, down, unseen>>

\* Reset: a device fails; the keys in gone were held down on it and no
\* release is ever read.
Reset(gone) ==
    /\ held' = {}
    /\ modifiers' = {}
    /\ candidate' = FALSE
    /\ down' = down \ gone
    /\ unseen' = down \ gone
    /\ company' = Joined(Lost)
    /\ UNCHANGED fired

Next ==
    \/ \E k \in Modifiers : ModifierDown(k) \/ ModifierUp(k)
    \/ \E k \in Ordinary : OrdinaryDown(k) \/ OrdinaryUp(k)
    \/ Ignored
    \/ Scroll
    \/ \E gone \in SUBSET down : Reset(gone)

Spec == Init /\ [][Next]_vars

----------------------------------------------------------------------------
(* Properties *)

\* The machine's picture of the devices is exact, whatever the daemon started
\* or a failed device left behind: it holds the keys whose press it saw, and
\* no key is stuck, which would block every later candidate.
NoStuckKey ==
    /\ held = (down \cap Ordinary) \ unseen
    /\ modifiers = (down \cap Modifiers) \ unseen

\* A candidate is only pending between a modifier's press and the release of
\* the last modifier, with no other key held; and since some modifier was
\* pressed no other key was pressed, nothing was scrolled and no device
\* failed.
CandidateIsAlone ==
    candidate =>
        /\ held = {}
        /\ modifiers # {}
        /\ \E m \in Modifiers : company[m] \subseteq Modifiers

\* The promise to the user: a modifier that is pressed with nothing held and
\* released with nothing pressed or scrolled in between fires its group,
\* autorepeat and pointer motion notwithstanding.
TapFires ==
    [][\A m \in Modifiers :
          ModifierUp(m) /\ company[m] = {} => fired' = GroupOf[m]]_vars

\* The package comment: a command is fired when a modifier key is pressed and
\* released without any other key press in between.
FiresOnlyAlone ==
    [][\A m \in Modifiers :
          ModifierUp(m) /\ fired' # NoGroup =>
              company[m] \cap Ordinary = {}]_vars
=============================================================================
