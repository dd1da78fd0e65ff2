--------------------------- MODULE KeymonMonitor ---------------------------
(***************************************************************************)
(* pkg/keymon/monitor.go: the goroutines around the machine of             *)
(* KeymonMachine.  Configuration requests call SetBinds, which opens the   *)
(* input devices outside its lock and starts a reader for each; every      *)
(* reader has its own copy of its device's events and feeds the one shared *)
(* machine, whose groups it dispatches.  A device may be unreadable when   *)
(* it is opened and may fail later.                                        *)
(***************************************************************************)
EXTENDS Naturals, Sequences, Functions

CONSTANTS
    Callers,     \* goroutines that call SetBinds
    Devices,     \* /dev/input/event*
    KeysOf,      \* device -> its keys and buttons
    Modifiers,   \* those of modifierGroups, each its own group here
    MaxEvents,   \* bound: events of the devices
    MaxSets      \* bound: calls of SetBinds

MonitorAssumption ==
    /\ \A d \in Devices, e \in Devices : d # e => KeysOf[d] \cap KeysOf[e] = {}
    /\ MaxEvents \in Nat /\ MaxSets \in Nat

VARIABLES
    binds,    \* Monitor.binds: the groups that have a command
    open,     \* Monitor.open
    listed,   \* Monitor.devices
    failing,  \* keys of Monitor.errors
    machine,  \* Monitor.machine
    caller,   \* caller -> the devices it has still to open, and has opened
    readers,  \* running readers, <<caller, device>>
    inbox,    \* reader -> events it has not read
    running,  \* commands dispatch has started, in order
    sets, events,
    working,  \* history: devices that have not failed
    down,     \* history: keys that are down
    tap,      \* history: modifier -> no other key of its device was pressed since it was
    latest,   \* history: the modifier whose press was read last
    mistaken, \* history: a command was run for no clean tap, or twice
    overlap   \* history: two callers have opened the devices at the same time

bindVars    == <<binds, open, listed, failing>>
historyVars == <<working, down, tap, latest, mistaken, overlap>>
vars == <<bindVars, machine, caller, readers, inbox, running, sets, events, historyVars>>

AllKeys == UNION {KeysOf[d] : d \in Devices}
Idle    == [phase |-> "idle", left |-> {}, opened |-> {}, failed |-> {}]
Blank   == [held |-> {}, modifiers |-> {}, candidate |-> FALSE]

TypeOK ==
    /\ binds \subseteq Modifiers /\ open \in BOOLEAN
    /\ listed \subseteq Devices /\ failing \subseteq Devices
    /\ machine \in [held : SUBSET (AllKeys \ Modifiers), modifiers : SUBSET Modifiers,
                    candidate : BOOLEAN]
    /\ readers \subseteq Callers \X Devices /\ DOMAIN inbox = Callers \X Devices
    /\ \A c \in Callers : caller[c].phase = "idle" => caller[c] = Idle
    /\ down \subseteq AllKeys /\ latest \subseteq Modifiers

Init ==
    /\ binds = {} /\ open = FALSE /\ listed = {} /\ failing = {}
    /\ machine = Blank
    /\ caller = [c \in Callers |-> Idle]
    /\ readers = {} /\ inbox = [r \in Callers \X Devices |-> << >>]
    /\ running = << >>
    /\ sets = 0 /\ events = 0
    /\ working = Devices /\ down = {}
    /\ tap = [m \in Modifiers |-> FALSE]
    /\ latest = {} /\ mistaken = FALSE /\ overlap = FALSE

----------------------------------------------------------------------------
(* SetBinds: the binds are replaced and open is read under the lock, the   *)
(* devices are opened without it, then the outcome is noted.               *)

SetBinds(c) ==
    /\ caller[c].phase = "idle" /\ sets < MaxSets /\ sets' = sets + 1
    /\ \E B \in SUBSET Modifiers :
         /\ binds' = B
         /\ caller' = [caller EXCEPT ![c] =
                         IF ~open /\ B # {}
                         THEN [Idle EXCEPT !.phase = "opening", !.left = Devices] ELSE Idle]
    /\ overlap' = (overlap \/ \E d \in Callers \ {c} :
                                caller[d].phase = "opening" /\ caller'[c].phase = "opening")
    /\ UNCHANGED <<open, listed, failing, machine, readers, inbox, running, events,
                   working, down, tap, latest, mistaken>>

OpenDevice(c, d) ==
    /\ caller[c].phase = "opening" /\ d \in caller[c].left
    /\ \/ /\ d \in working
          /\ caller' = [caller EXCEPT ![c].left = @ \ {d}, ![c].opened = @ \union {d}]
          /\ readers' = readers \union {<<c, d>>}
          /\ inbox' = [inbox EXCEPT ![<<c, d>>] = << >>]
       \/ /\ caller' = [caller EXCEPT ![c].left = @ \ {d}, ![c].failed = @ \union {d}]
          /\ UNCHANGED <<readers, inbox>>
    /\ UNCHANGED <<bindVars, machine, running, sets, events, historyVars>>

\* Mutant: the devices are opened again for every set of binds.
OpenedAgain(c) == UNCHANGED open

Opened(c) == open' = (open \/ caller[c].opened # {})

NoteOpened(c) ==
    /\ caller[c].phase = "opening" /\ caller[c].left = {}
    /\ Opened(c)
    /\ failing' = caller[c].failed
    /\ listed' = listed \union caller[c].opened
    /\ caller' = [caller EXCEPT ![c] = Idle]
    /\ UNCHANGED <<binds, machine, readers, inbox, running, sets, events, historyVars>>

----------------------------------------------------------------------------
(* readLoop. *)

\* Machine.Process for a press or a release: the machine afterwards and
\* whether the modifier's group fires.
Process(m, k, press) ==
    LET last == k \in Modifiers /\ ~press /\ m.candidate /\ m.modifiers \subseteq {k}
        set(S) == IF press THEN S \union {k} ELSE S \ {k}
    IN  [machine |-> IF k \in Modifiers
                     THEN [m EXCEPT !.modifiers = set(@),
                                    !.candidate = IF press THEN @ \/ m.held = {} ELSE @ /\ ~last]
                     ELSE [m EXCEPT !.held = set(@), !.candidate = @ /\ ~press],
         fires |-> last]

\* One event: handleEvent under machineMu, then dispatch.
Read(r) ==
    LET e == Head(inbox[r])
        step == Process(machine, e.key, e.press)
        runs == step.fires /\ e.key \in binds
    IN
    /\ r \in readers /\ inbox[r] # << >>
    /\ inbox' = [inbox EXCEPT ![r] = Tail(@)]
    /\ machine' = step.machine
    /\ running' = IF runs THEN Append(running, e.at) ELSE running
    /\ latest' = IF e.press /\ e.key \in Modifiers THEN {e.key} ELSE latest
    /\ mistaken' = (mistaken \/ (runs /\ \/ e.key \in latest /\ ~e.clean
                                         \/ e.at \in Range(running)))
    /\ UNCHANGED <<bindVars, caller, readers, sets, events, working, down, tap, overlap>>

ReadFails(r) ==
    /\ r \in readers /\ r[2] \notin working /\ inbox[r] = << >>
    /\ machine' = Blank
    /\ readers' = readers \ {r}
    /\ listed' = listed \ {r[2]} /\ failing' = failing \union {r[2]}
    /\ UNCHANGED <<binds, open, caller, inbox, running, sets, events, historyVars>>

----------------------------------------------------------------------------
(* The devices (external). *)

Event(d) ==
    /\ d \in working /\ events < MaxEvents /\ events' = events + 1
    /\ \E k \in KeysOf[d] :
         LET press == k \notin down
             e == [key |-> k, press |-> press, at |-> events,
                   clean |-> k \in Modifiers /\ ~press /\ tap[k]]
         IN  /\ down' = IF press THEN down \union {k} ELSE down \ {k}
             /\ tap' = [m \in Modifiers |->
                          IF m = k THEN press ELSE tap[m] /\ ~(press /\ m \in KeysOf[d])]
             /\ inbox' = [r \in DOMAIN inbox |->
                            IF r \in readers /\ r[2] = d THEN Append(inbox[r], e) ELSE inbox[r]]
    /\ UNCHANGED <<bindVars, machine, caller, readers, running, sets, working, latest, mistaken,
                   overlap>>

Unplug(d) ==
    /\ d \in working /\ events < MaxEvents /\ events' = events + 1
    /\ working' = working \ {d} /\ down' = down \ KeysOf[d]
    /\ UNCHANGED <<bindVars, machine, caller, readers, inbox, running, sets, tap, latest,
                   mistaken, overlap>>

Next ==
    \/ \E c \in Callers : SetBinds(c) \/ NoteOpened(c) \/ \E d \in Devices : OpenDevice(c, d)
    \/ \E r \in Callers \X Devices : Read(r) \/ ReadFails(r)
    \/ \E d \in Devices : Event(d) \/ Unplug(d)

Spec == Init /\ [][Next]_vars

----------------------------------------------------------------------------
(* A command is run at most once for a release of its modifier and, for    *)
(* the modifier pressed last, only if no other key of that device was      *)
(* pressed while it was down, in whatever order the readers take the       *)
(* events of several devices and though a failing device clears the        *)
(* machine - unless two SetBinds calls have opened the devices at the same *)
(* time and every event is read twice.  A modifier pressed before another  *)
(* one may fire after other keys: FiresOnlyAlone in KeymonMachine.         *)
FiresOncePerCleanTap == mistaken => overlap
=============================================================================
