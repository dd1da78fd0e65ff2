------------------------------- MODULE Parts -------------------------------
(***************************************************************************)
(* Five parts of the daemon that share no state with each other: a         *)
(* behaviour is a behaviour of one of them, chosen at the start, and the   *)
(* variables of the others stay Off.  A variable that several parts have   *)
(* belongs to the one that runs.  The modules of the parts explain their   *)
(* constants and their properties.                                         *)
(***************************************************************************)
EXTENDS Integers, Sequences, FiniteSets

CONSTANTS
    Clients,   \* connections, timers, callers: the goroutines of each part
    Off,
    Dispatcher, Advertised, Created, MaxId, MaxSent,         \* WaylandObjects
    Win, Requests, None, MaxRequests, MaxDisturbances,       \* BackendRequests
    Inputs, KeysOf, Modifiers, MaxInputs, MaxSets,           \* KeymonMonitor
    Main, MaxImportDepth, Writes, MaxEdits, MaxFailures,     \* ConfigWatcher
    Displays, Values, Deltas, MaxSettings, MaxPlugs          \* Brightness

VARIABLES
    part,
    connector, ready, currentID, objects, bound, done, wlMu, pc, task, own, toClient,
    server, granted, events, failure, shared, kind, comp, dialect, job, calls, binds, open,
    listed, failing, machine, caller, readers, inbox, running, sets, working, down, tap,
    latest, mistaken, overlap, disk, watches, watched, armed, stopped, loaded, applied,
    seeded, edits, failures, excused, level, attached, file, kept, clean

waylandVars == <<connector, ready, currentID, objects, bound, done, wlMu, pc, task, own,
                 toClient, server, granted, events, failure, shared>>
requestsVars == <<kind, comp, dialect, job, calls, events>>
monitorVars == <<binds, open, listed, failing, machine, caller, readers, inbox, running,
                 sets, events, working, down, tap, latest, mistaken, overlap>>
watcherVars == <<disk, watches, watched, inbox, armed, stopped, pc, loaded, applied, seeded,
                 edits, failures, excused>>
brightnessVars == <<level, attached, file, job, calls, events, kept, clean>>
allVars == <<part, waylandVars, requestsVars, monitorVars, watcherVars, brightnessVars>>

----------------------------------------------------------------------------
(* The parts. *)

W == INSTANCE WaylandObjects WITH Requesters <- Clients, MaxEvents <- MaxSent
R == INSTANCE BackendRequests WITH MaxCalls <- MaxRequests, MaxEvents <- MaxDisturbances
K == INSTANCE KeymonMonitor WITH Callers <- Clients, Devices <- Inputs, MaxEvents <- MaxInputs
F == INSTANCE ConfigWatcher WITH Timers <- Clients
B == INSTANCE Brightness WITH Devices <- Displays, MaxCalls <- MaxSettings, MaxEvents <- MaxPlugs

ASSUME PartsAssumption ==
    /\ W!ObjectsAssumption /\ R!RequestsAssumption /\ K!MonitorAssumption
    /\ F!FilesAssumption /\ F!WatcherAssumption /\ B!BrightnessAssumption

----------------------------------------------------------------------------
(* One part runs. *)

OnlyWayland ==
    /\ kind = Off /\ comp = Off /\ dialect = Off /\ job = Off /\ calls = Off /\ binds = Off
    /\ open = Off /\ listed = Off /\ failing = Off /\ machine = Off /\ caller = Off
    /\ readers = Off /\ inbox = Off /\ running = Off /\ sets = Off /\ working = Off
    /\ down = Off /\ tap = Off /\ latest = Off /\ mistaken = Off /\ overlap = Off /\ disk = Off
    /\ watches = Off /\ watched = Off /\ armed = Off /\ stopped = Off /\ loaded = Off
    /\ applied = Off /\ seeded = Off /\ edits = Off /\ failures = Off /\ excused = Off
    /\ level = Off /\ attached = Off /\ file = Off /\ kept = Off /\ clean = Off
OnlyRequests ==
    /\ connector = Off /\ ready = Off /\ currentID = Off /\ objects = Off /\ bound = Off
    /\ done = Off /\ wlMu = Off /\ pc = Off /\ task = Off /\ own = Off /\ toClient = Off
    /\ server = Off /\ granted = Off /\ failure = Off /\ shared = Off /\ binds = Off
    /\ open = Off /\ listed = Off /\ failing = Off /\ machine = Off /\ caller = Off
    /\ readers = Off /\ inbox = Off /\ running = Off /\ sets = Off /\ working = Off
    /\ down = Off /\ tap = Off /\ latest = Off /\ mistaken = Off /\ overlap = Off /\ disk = Off
    /\ watches = Off /\ watched = Off /\ armed = Off /\ stopped = Off /\ loaded = Off
    /\ applied = Off /\ seeded = Off /\ edits = Off /\ failures = Off /\ excused = Off
    /\ level = Off /\ attached = Off /\ file = Off /\ kept = Off /\ clean = Off
OnlyMonitor ==
    /\ connector = Off /\ ready = Off /\ currentID = Off /\ objects = Off /\ bound = Off
    /\ done = Off /\ wlMu = Off /\ pc = Off /\ task = Off /\ own = Off /\ toClient = Off
    /\ server = Off /\ granted = Off /\ failure = Off /\ shared = Off /\ kind = Off
    /\ comp = Off /\ dialect = Off /\ job = Off /\ calls = Off /\ disk = Off /\ watches = Off
    /\ watched = Off /\ armed = Off /\ stopped = Off /\ loaded = Off /\ applied = Off
    /\ seeded = Off /\ edits = Off /\ failures = Off /\ excused = Off /\ level = Off
    /\ attached = Off /\ file = Off /\ kept = Off /\ clean = Off
OnlyWatcher ==
    /\ connector = Off /\ ready = Off /\ currentID = Off /\ objects = Off /\ bound = Off
    /\ done = Off /\ wlMu = Off /\ task = Off /\ own = Off /\ toClient = Off /\ server = Off
    /\ granted = Off /\ events = Off /\ failure = Off /\ shared = Off /\ kind = Off
    /\ comp = Off /\ dialect = Off /\ job = Off /\ calls = Off /\ binds = Off /\ open = Off
    /\ listed = Off /\ failing = Off /\ machine = Off /\ caller = Off /\ readers = Off
    /\ running = Off /\ sets = Off /\ working = Off /\ down = Off /\ tap = Off /\ latest = Off
    /\ mistaken = Off /\ overlap = Off /\ level = Off /\ attached = Off /\ file = Off
    /\ kept = Off /\ clean = Off
OnlyBrightness ==
    /\ connector = Off /\ ready = Off /\ currentID = Off /\ objects = Off /\ bound = Off
    /\ done = Off /\ wlMu = Off /\ pc = Off /\ task = Off /\ own = Off /\ toClient = Off
    /\ server = Off /\ granted = Off /\ failure = Off /\ shared = Off /\ kind = Off
    /\ comp = Off /\ dialect = Off /\ binds = Off /\ open = Off /\ listed = Off
    /\ failing = Off /\ machine = Off /\ caller = Off /\ readers = Off /\ inbox = Off
    /\ running = Off /\ sets = Off /\ working = Off /\ down = Off /\ tap = Off /\ latest = Off
    /\ mistaken = Off /\ overlap = Off /\ disk = Off /\ watches = Off /\ watched = Off
    /\ armed = Off /\ stopped = Off /\ loaded = Off /\ applied = Off /\ seeded = Off
    /\ edits = Off /\ failures = Off /\ excused = Off

Init ==
    \/ part = "wayland" /\ W!Init /\ OnlyWayland
    \/ part = "requests" /\ R!Init /\ OnlyRequests
    \/ part = "monitor" /\ K!Init /\ OnlyMonitor
    \/ part = "watcher" /\ F!Init /\ OnlyWatcher
    \/ part = "brightness" /\ B!Init /\ OnlyBrightness

WaylandNext ==
    /\ part = "wayland" /\ W!Next
    /\ UNCHANGED <<part, kind, comp, dialect, job, calls, binds, open, listed, failing,
                   machine, caller, readers, inbox, running, sets, working, down, tap,
                   latest, mistaken, overlap, disk, watches, watched, armed, stopped,
                   loaded, applied, seeded, edits, failures, excused, level, attached, file,
                   kept, clean>>
RequestsNext ==
    /\ part = "requests" /\ R!Next
    /\ UNCHANGED <<part, connector, ready, currentID, objects, bound, done, wlMu, pc, task,
                   own, toClient, server, granted, failure, shared, binds, open, listed,
                   failing, machine, caller, readers, inbox, running, sets, working, down,
                   tap, latest, mistaken, overlap, disk, watches, watched, armed, stopped,
                   loaded, applied, seeded, edits, failures, excused, level, attached, file,
                   kept, clean>>
MonitorNext ==
    /\ part = "monitor" /\ K!Next
    /\ UNCHANGED <<part, connector, ready, currentID, objects, bound, done, wlMu, pc, task,
                   own, toClient, server, granted, failure, shared, kind, comp, dialect,
                   job, calls, disk, watches, watched, armed, stopped, loaded, applied,
                   seeded, edits, failures, excused, level, attached, file, kept, clean>>
WatcherNext ==
    /\ part = "watcher" /\ F!Next
    /\ UNCHANGED <<part, connector, ready, currentID, objects, bound, done, wlMu, task, own,
                   toClient, server, granted, events, failure, shared, kind, comp, dialect,
                   job, calls, binds, open, listed, failing, machine, caller, readers,
                   running, sets, working, down, tap, latest, mistaken, overlap, level,
                   attached, file, kept, clean>>
BrightnessNext ==
    /\ part = "brightness" /\ B!Next
    /\ UNCHANGED <<part, connector, ready, currentID, objects, bound, done, wlMu, pc, task,
                   own, toClient, server, granted, failure, shared, kind, comp, dialect,
                   binds, open, listed, failing, machine, caller, readers, inbox, running,
                   sets, working, down, tap, latest, mistaken, overlap, disk, watches,
                   watched, armed, stopped, loaded, applied, seeded, edits, failures,
                   excused>>

Next == WaylandNext \/ RequestsNext \/ MonitorNext \/ WatcherNext \/ BrightnessNext

Spec == Init /\ [][Next]_allVars

----------------------------------------------------------------------------
(* Properties: those of the parts, where they are explained. *)

(* The variables of every part have their types. *)
PartsTypeOK ==
    /\ part = "wayland" => W!TypeOK
    /\ part = "requests" => R!TypeOK
    /\ part = "monitor" => K!TypeOK
    /\ part = "watcher" => F!TypeOK
    /\ part = "brightness" => B!TypeOK

(* connectWayland and dispatchLoop use the connection one at a time. *)
OnlyEarlyUseFails == part = "wayland" => W!OnlyEarlyUseFails

(* No event meets a proxy of another interface. *)
NothingMisread == part = "wayland" => W!NothingMisread

(* Destroyed proxies leave the table. *)
ZombiesLeave == part = "wayland" => W!ZombiesLeave

(* A request changes no window but the one it names. *)
ActsOnNamedWindow == part = "requests" => R!ActsOnNamedWindow

(* A state that was asked for is the state afterwards. *)
SetTakesEffect == part = "requests" => R!SetTakesEffect

(* Hyprland is spoken to in the dialect of its version. *)
DialectMatches == part = "requests" => R!DialectMatches

(* A command is run once for a clean tap of its modifier. *)
FiresOncePerCleanTap == part = "monitor" => K!FiresOncePerCleanTap

(* Once the watcher is quiet the files are applied. *)
NoChangeLost == part = "watcher" => F!NoChangeLost

(* Imports are layered as the example configuration says. *)
ImportsOverride == part = "watcher" => F!ImportsOverride

(* A restore brings back what was saved. *)
RestoreBringsBack == part = "brightness" => B!RestoreBringsBack
=============================================================================
