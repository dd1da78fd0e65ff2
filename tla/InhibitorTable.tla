--------------------------- MODULE InhibitorTable ---------------------------
(***************************************************************************)
(* What the clients are promised of the idle inhibitors, whatever happens  *)
(* to the Wayland connection: a table of inhibitors that are on or off.    *)
(* A request takes effect as a whole or, when it is to turn one on, may be *)
(* refused and then leaves the table as it found it.  An id is given to    *)
(* one inhibitor only.  IdleInhibitors implements this.                    *)
(***************************************************************************)
CONSTANT Ids   \* positive numbers

VARIABLES
    used,      \* ids that were given to an inhibitor
    known,     \* inhibitors that the clients can name
    on,        \* those that are on
    pending    \* the inhibitor a request is turning on, 0 = none

tableVars == <<used, known, on, pending>>

Init == used = {} /\ known = {} /\ on = {} /\ pending = 0

\* CreateIdleInhibitor(false), or the first Inhibit(false).
Create(i) ==
    /\ pending = 0 /\ i \notin used
    /\ used' = used \cup {i} /\ known' = known \cup {i}
    /\ UNCHANGED <<on, pending>>

\* A request to turn an inhibitor on: one that is off, a new one that is
\* there only if it succeeds, or the one that Inhibit makes on first use.
Ask(i) ==
    /\ pending = 0 /\ pending' = i
    /\ \/ i \in known \ on /\ UNCHANGED <<used, known>>
       \/ i \notin used /\ used' = used \cup {i} /\ known' \in {known, known \cup {i}}
    /\ UNCHANGED on

Grant ==
    /\ pending # 0 /\ pending' = 0
    /\ known' = known \cup {pending} /\ on' = on \cup {pending}
    /\ UNCHANGED used

Refuse ==
    /\ pending # 0 /\ pending' = 0
    /\ UNCHANGED <<used, known, on>>

Disable(i) ==
    /\ pending = 0 /\ i \in on
    /\ on' = on \ {i}
    /\ UNCHANGED <<used, known, pending>>

Destroy(i) ==
    /\ pending = 0 /\ i \in known
    /\ known' = known \ {i} /\ on' = on \ {i}
    /\ UNCHANGED <<used, pending>>

Next ==
    \/ Grant \/ Refuse
    \/ \E i \in Ids : Create(i) \/ Ask(i) \/ Disable(i) \/ Destroy(i)

Spec == Init /\ [][Next]_tableVars
=============================================================================
