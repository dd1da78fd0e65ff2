# axctl: a verification development

axctl is a daemon and a command line that give one JSON-RPC interface to three
Wayland compositors (Hyprland, niri, MangoWC). This directory holds TLA+
models of its concurrent parts, the TLC configurations that check them and
machine-checked proofs about them. Source references are to `src/`.

## 1. The system

| Part | Source | State | Operations | Models |
| --- | --- | --- | --- | --- |
| Event fan-out | `pkg/server/server.go` | `clients` under `clientsMu`, a bounded queue and a `writeLoop` per subscription | `System.Subscribe`, `broadcastEvent`, cleanup of a connection | `EventFanout` |
| State cache | `pkg/ipc/cache.go`, `initCache`, `watchEvents` | windows, workspaces, monitors | initial queries, refresh, patch on event, replies that encode the slice | `StateCache`, over `CompositorEvents` |
| Event streams | `pkg/ipc/hyprland`, `niri`, `mango` | a stream, a decoder, a channel of 64 events | decode, send or drop | `CompositorEvents`, `StateCache` |
| Requests to the compositor | the three clients, `handleConnection` | the client's mutex, Hyprland's dialect | resolve the window, read, toggle, set, batch, cycle the layout | `BackendRequests` |
| Wayland protocol, objects | `pkg/ipc/wayland`, `mango/dwlipc` | `Context.objects`, `currentID` | register, write, read, dispatch, delete | `WaylandProtocol`, `WaylandObjects` |
| Wayland session | `pkg/server/idle.go` | `display`, the bound globals | `connectWayland`, `invalidateStaleProxies`, `dispatchLoop` | `WaylandSession` |
| Idle inhibitors | `pkg/server/idle.go` | `inhibitors`, the legacy one, their proxies, under `mu` | create, enable, destroy, `Inhibit` | `IdleInhibitors`, implements `InhibitorTable` |
| Idle monitors | `pkg/server/idle.go` | `monitors`, their notifications | create, update, destroy, idle and resumed handlers | `IdleMonitors` |
| Modifier-alone machine | `pkg/keymon/machine.go` | held keys, held modifiers, candidate | `Process`, `Reset` | `KeymonMachine` |
| Modifier-alone monitor | `pkg/keymon/monitor.go` | binds, devices, the machine under `mu` | `SetBinds`, one reader per device, `dispatch` | `KeymonMonitor` |
| Config state and requests | `pkg/server/config_state.go`, `config_handler.go`, `server.go` | last payload, generated file, keymon binds | `Config.Set`, `Batch`, `KeybindsBatch`, `Apply`, `Reload`, `BindKey`, `UnbindKey`, seeding | `ConfigPipeline` (niri), `BackendRequests` (the commands of the others) |
| Config loader, watcher | `pkg/config/loader.go`, `watcher.go`, `main.go` | files, kernel watches, a debounce timer | merge of imports, events, reload | `ConfigFiles`, `ConfigWatcher` |
| Brightness | `pkg/server/brightness.go` | devices, `brightness.tsv` | set, adjust, save, restore | `Brightness` |

Section 5 lists what is not modelled.

How they interact. One goroutine per client connection reads requests and runs
them to the end; requests of different connections run at the same time.
`watchEvents` reads the compositor's event channel, updates the cache and
broadcasts. The idle manager has one Wayland connection: `dispatchLoop` reads
it, requests write to it, and either may replace it when it breaks. Idle
handlers call back into `broadcastEvent`, as do brightness requests. Config
requests change the config state, write the generated file, make the
compositor reload it and hand the modifier-alone binds to the keymon monitor,
whose readers feed one shared machine.

What is hard here: several broadcasters under a read lock, a channel that is
closed while others send, a queue that overflows; a cache that is filled by
several queries and patched by events about an earlier or a later state; a
connection that two goroutines replace at once, and a lock held across a wait
for the other one; objects that must be destroyed exactly once over compositor
restarts, whose ids meet events that are still on their way; requests that read
a state, decide, and act on what has changed by then; a state machine fed by
several readers and cut off at any point; files that are replaced while they are
loaded. `PROJECT.json` lists each hazard at its line with the properties that
cover it.

What makes each part correct:

* fan-out: no send on a closed channel, order and completeness per
  subscription, no leaked registration, no stale dump after a fresh one;
* cache: it converges to the compositor's state, without ghosts or duplicates,
  and a reply shows the windows of one list;
* requests: they act on the window that was meant and have the effect they
  acknowledge, in the dialect the compositor speaks;
* Wayland objects: an event meets the object it was sent for, nobody tears a
  message apart or uses an object that is gone, the table forgets what was
  destroyed;
* session: the dispatch loop gets back to a live connection, every request ends;
* inhibitors: the compositor holds one object for each inhibitor that is on, and
  requests are atomic;
* monitors: one notification per enabled monitor, owned by one party, and
  clients that know the state;
* machine: a clean tap fires, nothing else does, no key is stuck;
* config: an acknowledged update is not lost; the file, the reload and the binds
  agree with the last state after a request that met no other;
* keymon monitor: one command per clean tap, whatever the readers' order;
* watcher and loader: the last version of every file is applied, layered as the
  imports say;
* brightness: a restore brings back what was saved.

## 2. Modules

`EventFanout` has one connection handler, one queue and writer per
subscription, the watcher and any number of other broadcasters. The sections
under `clientsMu.Lock` are single actions guarded by `~ReadLocked`; a broadcast
under `RLock` is one action that takes the snapshot and one per client. The
writer that took a notification and has not written it is a state of its own.
A dump is the cache version it was read at. `WatcherRefresh` is the branch of
`watchEvents` for a window-created event without a window, which is how
MangoWC's list of clients arrives: it refreshes the cache and broadcasts nothing.

`WaylandSession` models the connection by numbers in the order they are opened.
`im.display` and the globals are separate variables, because the code sets them
at different times and neither is under a lock. Its actions are
`connectWayland` cut at the points where another goroutine can act, and the
loop of `dispatchLoop`. It has no `Next` of its own: the two modules that EXTEND
it add what requests and events do, and compose its actions.

`IdleInhibitors` adds the inhibitor operations. They hold `im.mu` from
beginning to end, so one process stands for the request that holds it, and the
dispatch loop's event handler waits until it is idle. The compositor's side is
the number of inhibitor objects per inhibitor and connection. A nil manager at
idle.go:966 ends the daemon (`crashed`).

`IdleMonitors` adds the monitor operations, which hold `im.mu` for short
sections only: each section is an action, and two requests interleave between
them. The history variables `told`, `overlapped` and `raced` record what the
clients were told and which monitors saw two refreshes, or a refresh and an
event, at the same time.

`InhibitorTable` is what the clients are promised: a table of inhibitors that
are on or off, where a request takes effect as a whole or, if it is to turn one
on, is refused and leaves the table alone. `IdleInhibitors!Table` maps to it: an
inhibitor that is being created is not in the table yet, one that is being
enabled is `pending`; connections, surfaces and retries are stutters.

`StateCache` is the goroutine that runs `initCache` and then `watchEvents`. Each
query is an action, because the compositor may move between two of them; the
updates of one event are one action, because nobody else writes the cache. The
stream has two stages, the lines the decoder has not read and the channel, which
drops an event when it is full (niri, MangoWC) and may end. A handler that
encodes the slice it got from `GetWindows` copies one window per step while the
slice may change below it, in place (`shared`), until an update allocates a new
array. `CompositorEvents` is what a change of the compositor
puts on the stream and what each client's decoder makes of a line, for the
three compositors; niri's fullscreen state is inferred there from sizes, as in
the client, and MangoWC sends its complete list. The focus may leave a window for none and come
back while the window stays open, with nothing else on the stream (a layer
surface, the overview: `blur`), which niri and Hyprland report as an event
without a window, and it may pass to another window or none when the focused
one is sent to another workspace (`away`). `lost` records whether a change
fell into the gap between a query and the subscription or an event was dropped.

`BackendRequests` cuts a request of a connection into its round trips: the server
resolves the active window, the client reads the state, the active window or the
version if it has to, then sends its commands one after the other. Users and
other connections act in between, round trips fail. Operators
say for each method and each of four compositors (Hyprland in the old and in the
Lua dialect, niri, MangoWC) which commands it sends, and what the compositor does
with each, a command of the other dialect included. Hyprland's group request
toggles the group of the focused window, whatever id it was given. Niri's
fullscreen state takes three round trips (`look`, `spaces`, `outputs`): the
windows, the workspaces with their outputs, the sizes of the outputs. A failure
of the first is an error; one of the others reads as "not fullscreen", and the
request goes on (`Missed`, which sets `guessed`). The state is inferred from the
size, so a window that is as large as its output for another reason (`Covers`:
maximized, or resized by both `ResizeWindow` commands) may read either way. `cycleLayout`
is the arithmetic of the code: an unknown layout has index -1 (`j.current = 0` in
`SetTakesEffect` leaves those requests out: the previous one is then
computed from a negative index).
Workspaces and outputs stay as they are, a window is always on a workspace of an
output, and its size follows its fullscreen state at once.

`WaylandProtocol` holds every interface of the bindings as data: the requests
and events with opcode, order and kind of their arguments, and the lengths the
buffers are given. `WaylandObjects` is the context that uses them: `objects` maps
ids to proxies, a reader reads the header and then the arguments of a message
(two steps, as in `ReadMsg`: `part` says which of the two lies first on the
wire), looks the sender up and calls its handler; a request takes `wlMu`,
registers an object and writes. `connector` is the goroutine that connects,
`dispatchLoop` or a request, and the globals are those it binds (`Bindable`).
`Handle` has a case for each event that changes the table or the globals
(`HandleDeleteId`, `HandleDone`, `HandleGlobal`). The compositor's side
(`server`, `granted`) knows which ids exist and sends events about them until it
has read their destruction, and then `delete_id`. `failure` is the first
thing that went wrong: an unknown object, ids out of sequence, a torn message, a
nil proxy.

`KeymonMachine` has one action per kind of input event and `Reset`. The devices
are the environment: a key that is up may be pressed, one that is down may
repeat or be released, a device may fail with some of its keys held, and the
daemon may start with keys held. A key code is one physical key (no two
devices have a key in common). `company`
records for each modifier what was down when it was pressed and what has
happened since.

`ConfigPipeline` models the daemon under niri, where every partial update
rewrites the generated file. A goroutine is one request, or one application of
the TOML file, and its steps are the sections of `ConfigState`'s mutex, the two
system calls of `os.WriteFile`, the request to niri and `SetBinds`. A payload
has settings, which the file holds, and the binds of modifiers alone, which the
file leaves out: two sets without an order (`Ambxst.System` and `Ambxst.Binds`,
which are Go maps) and the list `Custom`. A bind has a key (modifiers and key as
the code compares them, `Super_L` or `Super_R`), and several keys belong to one
`Group`, of which the monitor holds one command. `BindsOf` is the fold of
`keymonBindsFromPayload`: the last enabled bind of a group wins, `Custom` after
the maps, and which of two in a map comes last is open. `Changed` is
`applyKeybindsPayload`: an unbind removes all binds of its keys everywhere and
leaves a gap in the list, so that the order of the others stays; a bind replaces
the first of its key in `Custom` or is appended. A `KeybindsBatch` has at most
one bind of a modifier alone; its other binds are among the settings. What a
file holds after two overlapping writes is either text or a mixture (`Garbled`),
depending on their lengths; niri may accept a mixture or refuse it. `Fail` is
any error of `ConfigHandler.ApplyConfig`. The history variables `asked`, `wish`,
`over` and `calm` record what a request set, who set it since, and whether
another goroutine was busy meanwhile.

`KeymonMonitor` has one copy of the device's events per reader (`inbox`), since
every open file has its own queue in the kernel, and the machine in between.
`SetBinds` is a section under the lock, one step per device it opens without it,
and a last section. `overlap` records that two calls opened the devices at the
same time, and `latest` the modifier whose press was read last, of which the
property speaks: after a second modifier the first may fire although another key
came and went, which is the finding of `keymon_alone`. The run has one modifier,
the theorem any number. The machine here is `KeymonMachine`'s for one key per
group.

`ConfigFiles` is `loadRecursive`, `mergeConfig` and `collectIncludePaths`
over a disk that maps names to contents; a value is known by the file it is
from. What a file sets is reduced to one value for each way `mergeConfig` treats
one: overridden (`layout`), appended (`binds`), replaced together (the two
options of the keyboard) and not merged (`target`, and `style`, the workspace
style of the animations). A `[input.keyboard]` table that sets nothing is like
none. `ConfigWatcher` has the start of the daemon and the reloads as threads of
four steps (load, watch, apply, seed), the kernel's watches on files rather than
names, the event queue and the timer. `excused` collects why a change may be lost.

`Brightness` has one step per run of an external tool and per access to
`brightness.tsv`, which is empty between `os.Create` and `Flush`. `kept` is the
level each device had when it was last saved, `clean` the requests that met no
other.

`Parts` composes the five modules above that share no state with the rest
(`WaylandObjects`, `BackendRequests`, `KeymonMonitor`, `ConfigWatcher`,
`Brightness`), so that one run checks them: a behaviour of `Parts` is a behaviour
of one of them, chosen in the initial state (`part`), while the variables of the
others keep the value `Off`. Since no two parts use a variable in one behaviour,
the run explores the sum of their state spaces, not the product.
`PartsAssumption` is what the five assume of their constants. `MCParts` gives the
constants their values.

The theorems are in `EventFanoutProofs`, `KeymonMachineProofs`,
`ConfigPipelineProofs`, `IdleInhibitorsProofs`, `IdleMonitorsProofs`,
`PartsProofs`, `WaylandProofs` and `StateCacheProofs`.

## 3. Runs

| Run | Shows | Bounds |
| --- | --- | --- |
| `fanout` | `NoSendOnClosed`, `FifoPerSubscription`, `UpdateReachesSubscriber`, `GoneClientUnregistered` | one connection with two subscriptions, two events, one other broadcast, queue of 2 |
| `fanout_stale` | `NoStaleAfterFresh` fails | one subscription, one event, one other broadcast |
| `inhibitors` | `ReferencedMeansOn`, `InhibitsExactlyEnabled`, `ReferencedObjectExists`, `RequestsAreAtomic` (the refinement), `RequestReturns`, `DispatchResumes` | two inhibitors, three requests, two compositor exits |
| `inhibitors_recreated` | `RecreatedOnNextUse` fails | one inhibitor, two requests, one exit |
| `inhibitors_cleared` | `ClearedOnlyIfDead` fails | one inhibitor, one request, one exit |
| `monitors` | `OneNotificationPerMonitor`, `SingleOwner`, `ToldState` | one monitor, two requests at a time, three in all, one exit |
| `keymon` | `NoStuckKey`, `CandidateIsAlone`, `TapFires` | two keys of one group, one of another, two other keys |
| `keymon_alone` | `FiresOnlyAlone` fails | the same keyboard |
| `config` | `AcknowledgedIsKept`, `SettlesAlone` | two connections and one reload, three requests, one failure, one setting, one group with a left and a right key, two commands, four payloads that are applied, seven partial updates |
| `config_cached` | `CacheIsLastApplied` fails | one connection and one reload, two requests, one failure |
| `cache` | `NoDuplicateWindows`, `CacheConverges`, `FocusConverges`, `ReplyKeepsIds`, `GhostsLeave` | each compositor, two windows, two workspaces, two monitors, a channel of one event, two changes, one failed query or reply |
| `parts` | `OnlyEarlyUseFails`, `NothingMisread`, `ZombiesLeave`; `ActsOnNamedWindow`, `SetTakesEffect`, `DialectMatches`; `FiresOncePerCleanTap`; `NoChangeLost`, `ImportsOverride`; `RestoreBringsBack` | see below |

In `parts` the Wayland objects have two requests beside `dispatchLoop`, three
globals, two kinds of created objects (one destroyed by a destructor, one that is
only marked), eight ids and one event; the requests two connections, one with
requests of every kind and one with those that disturb, two windows, two requests and three
changes, failures or calls; the monitor a keyboard and a mouse, three events and
two `SetBinds`; the watcher three files that import each other as a tree, a
diamond or a cycle, two changes, two timers and a refusal; brightness a
panel and a monitor, two connections, three requests and one (un)plugging.

Why the bounds are enough. In `fanout` three broadcasts and two State.Dumps meet
a queue of two, so it overflows, also behind a State.Dump that blocks, and the
second subscription replaces the first in every state of its queue. Connections
only meet in the read lock, which the second broadcaster shows as well; the
theorems hold for any number of them. In `inhibitors` three requests suffice to
enable, fail or reconnect and enable again, or to enable two inhibitors and
destroy one, and the second exit hits the retry of a request; at most eight
connections are opened, so `MaxConns` (9)
cuts nothing off. In `monitors` three requests are a creation, an update or a
second creation attempt, and a destruction at any point of either; monitors do
not share state other than the session. A larger `MaxConns` than 5 gives the
same states. A reconnect whose retry meets a second exit is not reached with one
exit there. `keymon` has no bound but the keyboard: two keys of one group are
what the groups add, and two other keys may be pressed in each other's presence.
In `config` three requests are a payload that is applied and two that race on
it, or two that race and one undisturbed request. The payloads that are applied
bind the two keys of the group in one map, in both, in a map and the list, or a
key twice in the list; the updates set the setting, bind either key, disable
one, unbind one, and unbind and bind one at once. The connections are symmetric:
they make the same requests. `MCConfigPipeline` gives the constants. The
theorems cover the rest: nothing in them depends on the bounds.

In `cache` two changes suffice for one whose
event crosses a dump, two whose events meet in a full channel, and a window that
is closed after it was opened, moved, focused or lost; of three changes whose
events are all under way at once the run sees none, but the theorems hold for any
number of them. In `parts` two
requests race on the connection's ids while the dispatch loop works, a request
and another one's disturbance of it meet between any two of its round trips, two
`SetBinds` overlap, two reloads overlap, and a save, a set and a restore are
three requests; the theorems hold for any numbers, `ImportsOverride` only for the
files of the run.

`CHECK_DEADLOCK FALSE` appears where requests, events and exits are bounded or
need not happen: the daemon may be quiet. `keymon` checks for deadlock.

Fairness. The Go scheduler runs every runnable goroutine, so each goroutine's
own steps are weakly fair. A blocked send on a full queue, a lock that is held
and a read without data are disabled steps, which fairness does not force. That
a connected client reads what is written to it is assumed in `WriterWrite`: the
daemon sets no write deadline. In `IdleInhibitors` the compositor answers a
handshake and the two-second timer ends. In `StateCache` some goroutine of
the daemon, the decoder included, runs while one can; the compositor changes or not as it likes. No fairness
is assumed of events, requests, subscriptions, disconnections and compositor
exits and starts: `DispatchResumes` speaks of the time a compositor is up. All other modules have
safety properties only and state no fairness; what must eventually hold there is
stated of the states in which nothing is left to do (`Quiet`, `Settled`).

What fails, and is therefore listed under "findings": a stale dump may follow a
fresh one; after a reconnect an inhibitor that is on is not recreated on its
next use; an inhibitor created while the reconnect ends is forgotten though its
display is alive; a second modifier pressed after another key came and went
makes the first one fire; and an update whose file cannot be written stays in
the cached payload, to be applied by the next one.

Properties whose statement carries an exception say so where the code gives no
more:

* `GoneClientUnregistered`: a handler blocked on the State.Dump behind a full
  queue stays. `RequestReturns`, `DispatchResumes`: a handshake whose end was
  dispatched by the other goroutine waits for another event.
* `OneNotificationPerMonitor`, `ToldState`: overlapping updates of a monitor, and
  after a reconnect.
* `SettlesAlone`: two requests that overlap may leave an older file, a mixture or
  an older set of binds behind. `AcknowledgedIsKept`: a BindKey before the first
  payload is answered without an error and changes nothing, and so is one whose
  group has a later bind, of another key or of the same key: the cached payload
  has it, the monitor runs the later one. After an UnbindKey the monitor may run
  the command of another key of the group.
* `CacheConverges`, `FocusConverges`: a change that fell between a query
  and the subscription, or a dropped event; Hyprland's titles and niri's
  attributes of known windows are not followed at all; MangoWC's focus is not in
  the list. `FocusConverges`: while no window has the focus the cache may mark the
  one that had it, since an event without a window unmarks none. `GhostsLeave`: a stream that has ended.
* `OnlyEarlyUseFails`: `connectWayland` publishes the display before its handshake
  is over and each global before it is bound, and all that can go wrong on a
  connection goes wrong then.
* `ActsOnNamedWindow`: Hyprland's fullscreen, maximize and group requests act on
  whatever has the focus, and niri's MoveWindow focuses first and moves then.
  `SetTakesEffect`: requests that were disturbed, states a client toggles
  blindly, requests that took a failed query for an answer (niri's workspaces and
  outputs, Hyprland's version), and niri windows that cover their output without
  being fullscreen. `DialectMatches`: a request whose own query for the version failed, and
  layouts.
* `FiresOncePerCleanTap`: two `SetBinds` that open the devices at the same time.
* `NoChangeLost`: overlapping reloads, a file that was gone for a time, one that
  changed between the load that found it and its watch. `ImportsOverride`: the
  target and the workspace style of the animations, which a file with imports
  loses, the options of the keyboard, which all come from the last file that sets
  one, and imports that are no tree.
* `RestoreBringsBack`: overlapping requests, of which values may be lost.

## 4. Proofs

`EventFanoutProofs`, for every set of connections and broadcasters and every
capacity and bound, from `ConstantsAssumption`:

* `TypeCorrect` and `SendsAreSafe` rest on the inductive invariant
  `TypeOK /\ RegistryConsistent`. `NoSendOnClosed` is not inductive: that a
  broadcaster's targets are open needs that every registered channel is open,
  which needs that a registered channel is the last one made for its connection
  (so that a new subscription closes another one) and that channels not made yet
  are not closed. The step that could break it is one that unregisters a client
  with a broadcaster in its loop, and `~ReadLocked` excludes it.
* `DeliveryInOrder` proves `FifoPerSubscription` with lemmas on sequences: what
  a channel accepted is `received \o hand \o queue`, and appending to the queue,
  taking its head and writing it keep that equation.

`KeymonMachineProofs`, for every set of groups, modifiers and keys, from
`MachineAssumption`: `TypeCorrect`, `NoKeyIsStuck`, `CandidatesAreAlone` and the
action property `CleanTapsFire`. The invariant of the last one says that a
modifier that is down and seen, pressed in no company and still alone, is the
only one held, with nothing else, and the candidate is pending; `NoStuckKey` is
part of it because what the machine holds must be what is down.

`ConfigPipelineProofs`, for every set of goroutines, fields and values, from
`PipelineAssumption`: `TypeCorrect`, `UpdatesAreKept` (`AcknowledgedIsKept`) and
`OneRequestSettles` (`SettlesAlone`). The second rests on `Kept`: from the
moment a request sets its fields in the cached payload they stay there but for
what others set, and the copy it hands to the monitor has them too; a payload
that is applied first and cached later is still the one requested. What an
update does to a list of binds is in `ChangedHas` and `ChangedKeeps`, which use
that a list with a key has a first bind of it (`FirstExists`, by the least
element of a set of numbers, `Least`); that a bind with nothing of its group
after it is the monitor's, and that an unbound key is not, are `PrevailingWins`
and `UnboundIsGone`. The third
rests on `Calm`, which says how far an undisturbed request has brought the file,
niri and the payload into line at each of its steps, the emptied file before
the write among them.

`IdleInhibitorsProofs`, for every number of connections, exits,
inhibitors and requests, from `SessionAssumption` and `InhibitorAssumption`:
`TypeCorrect`, `ReferenceMeansOn`, `ExactlyEnabledInhibit`, `ReferencesExist`, and
`TableImplemented`, the refinement of `InhibitorTable`. All rest on one inductive
invariant, `IInv`. `InhibitsExactlyEnabled` speaks of the first connection only
and is not inductive: that a destroy takes away the object that is counted needs
that the reference is of that connection (`FirstConnection`, which also says that
nobody reconnects while it lasts), and that a creation adds the first object
needs that the inhibitor a request works on is off until it is assigned
(`Pending`). `ReferencedObjectExists` needs that the object a request was given
and has not assigned yet exists, too (`ObjectsExist`). The refinement needs
`Pending` for the step that assigns: it is `Grant` only if the inhibitor was off.

`IdleMonitorsProofs`, for every set of requests and every bound, from
`SessionAssumption` and `MonitorAssumption`:

* `TypeCorrect`, and `OneHand` (`SingleOwner`), which needs `Holding`: which
  notification a request may hold at which of its labels, and that two requests
  never created the same one.
* `NotificationsMatch` (`OneNotificationPerMonitor`) rests on `IInv1`: while the
  first connection lasts nobody reconnects (`FirstSession`), a monitor is
  refreshed by one request, whose label says what it has cleared and created so
  far (`Alone`, `Stage`), and every notification of a monitor is in its field or
  in a request's hand (`Accounted`). The step that could break it is the
  assignment to a monitor that was destroyed meanwhile; the second check of
  `deleted` turns it into a destroy.
* `ClientsAreTold` (`ToldState`) holds on every connection and rests on `IInv2`:
  the idle flag differs from what the clients heard only while the goroutine that
  set it has the callback before it (`Telling`), and an idle monitor is enabled or
  has a refresh in front of the step that clears the flag (`IdleEnabled`, first
  connection only).

`StateCacheProofs`, for all windows, workspaces and monitors, every capacity of
the channel and every number of changes, from `CacheAssumption`:

* `TypeCorrect`, `NoneTwice` (`NoDuplicateWindows`) and `RepliesShowOneList`
  (`ReplyKeepsIds`) rest on `CacheInv`. Its part `StreamOK` says what a line and an
  event can carry and that nothing follows the end of a stream. `HandedOut` says
  that as long as the cache and a reply use one array, it begins with the windows
  of the list that was handed out: updates in place change attributes only, and
  whoever takes a window out allocates.
* `CacheIsRight` (`CacheConverges`) and `FocusIsRight` (`FocusConverges`). The
  properties speak of the states in which nothing is left to do, so they are not
  inductive at all; `Converges` proves what holds at every time before. Each event
  that was decoded and each line that was not is reduced to its effect (it
  refreshes, takes a window out, adds one, marks the focus, sets whether one floats),
  and `Pending` is the sequence of the effects to come. For each window and each
  topic (whether it is open, its attributes, floating, focus), `StreamMends` says
  that an effect which would leave the cache wrong is followed by one that puts it
  right, and `CacheMends` that the cache is right or such an effect is to come. A
  change of the compositor makes wrong what was right, and the lines it puts on
  the stream mend it; an answer to a query mends everything it brings, but events
  about earlier states are still to come, which is what `StreamMends` is for. Both
  are conditional: not after a dropped event, and for the cache only while it is
  `Trusted`, which a change between query and subscription suspends and a
  complete refresh restores. `Unmarked` is the time between Hyprland's two queries,
  when no window has the focus.

`PartsProofs`, from `PartsAssumption`. `OnePartSteps` reduces each part's proof to
its own steps: the others' variables do not change.

* Brightness, for any displays and levels: `RestoreIsFaithful`
  (`RestoreBringsBack`). `BrightnessInv` says that the file has what was kept except
  while it is written (`FileIsKept`), that an undisturbed save holds what was kept
  and its own readings (`SavesExtend`), and which displays an undisturbed restore
  has set already (`RestoresFollow`).
* Keymon monitor, for any devices, keys and callers: `TapsFireOnce`
  (`FiresOncePerCleanTap`). Unless two calls opened the devices at once, a device has
  one reader (`OneOpens`); an event lies in one inbox or was read, never both
  (`ReadOnce`); a modifier the machine holds is of a device that still has its
  reader (`HeldAreRead`); and a release before which the reader will find nothing
  but its modifier was marked as a clean tap when it happened (`CleanTaps`). The last
  one runs along the inbox because the keyboard is ahead of the reader.
* Requests, for any windows and connections: `RequestsActOnTheirWindow`
  (`ActsOnNamedWindow`), `AcknowledgedIsEffective` (`SetTakesEffect`),
  `HyprlandUnderstands` (`DialectMatches`). `RequestsInv` says of each request which
  answers it can be waiting for (`Stage`), that what it saw is still so unless it
  was disturbed (`Accurate`; on niri, unless it covers its output or a failure was taken for an
  answer), and that the commands it has yet to send are for its
  window, in the dialect, and will have the effect (`Meant`, `Shape`).
* Watcher, for any files and imports: `ChangesAreApplied` (`NoChangeLost`).
  `WatcherInv` distinguishes the start of the daemon, where nothing is watched yet
  (`Starting`), from the time after it, where either something will load the files
  again (`Reloads`) or what is loaded, watched and in force is what the files say
  (`UpToDate`); it needs that the main file stays watched (`MainIsWatched`). The
  hypothesis of the theorem, `LoadsWhatItWatches`, is a fact about `loadRecursive`
  and `collectIncludePaths` alone: a file that is not watched can change and
  nothing else is loaded or watched. It is an induction along the imports, which
  the prover cannot do; TLC evaluates it for every state of the run's files
  (`ImportsAssumption` in `MCParts`).

`WaylandProofs`, from `PartsAssumption`, for any goroutines, globals, created
interfaces and numbers of ids and events: `ConnectionHolds` is the invariant
`WaylandInv`, from which `EarlyUseAlone` (`OnlyEarlyUseFails`),
`EventsFindTheirProxies` (`NothingMisread`) and `ZombiesAreDeleted`
(`ZombiesLeave`) follow. Three parts hold whoever uses the connection: the
compositor's objects, the events and the requests about to be written agree with
the proxies of their ids, because no id is given twice (`IdsFit`); a proxy that is
or will be marked has its `delete_id` on the way (`ZombiesGo`); the display and
the registry stay (`Permanent`). The rest, `Orderly`, holds while goroutines take
turns: one goroutine reads (`OneUses`), so an event is read whole (`EventsWhole`),
ids reach the compositor in the order they were registered (`IdsInSequence`), the
objects that requests are for exist and nobody destroys what another one uses
(`ObjectsThere`), and when the callback of the Sync runs all globals are bound
(`GlobalsFirst`), so that no field is nil once `connectWayland` has returned.
`EveryPartIsTyped` (`PartsTypeOK`) combines this with the invariants of
`PartsProofs`, under the watcher's hypothesis.

Only model-checked: the liveness properties (`UpdateReachesSubscriber`,
`GoneClientUnregistered`, `RequestReturns`, `DispatchResumes`, `GhostsLeave`),
because the prover has no fairness; and `ImportsOverride` with
`LoadsWhatItWatches`, because they say what recursive functions compute for every
disk, which takes an induction over data. The five properties that fail have
counterexamples and no theorems.

## 5. Not modelled

* Idle waits (`waitIdle`, `waitResume`, `IsIdle`): each creates one notification
  and waits for one event, on a connection that may be gone; a model needs a timer
  per wait beside the session. The hazard is listed without a property. The system
  inhibitor is a child process and a reading of external programs' text.
* `IdleMonitorUpdate` writes back all fields it read in an earlier call: of two
  partial updates of different fields one may be lost. `IdleMonitors` keeps only
  the enabled flag, which each update sets.
* `ConfigPipeline` has niri, whose partial updates all go through the file. A
  `[target]` section that names another file, and the files of compositors that
  are not running, are left out.
* MangoWC's `ListLayouts` compares the layout's symbol with the layouts' names;
  `BackendRequests` takes the layout it marks for the current one. Its `SetConfig`
  of the gaps, like the one of its batch, is two dispatches; the model's
  `SetConfig` sets another option. Reasons for a niri window to be as large as
  its output other than being maximized or resized, and the moment between the
  change of the state and of the size, are left out.
* Compositor clients: workspace and monitor requests, which are single commands,
  input devices, animations, tag arithmetic, the time to live of niri's
  caches, a second `Subscribe` of the MangoWC client.
* Wayland: file descriptors in messages, setters of handlers, enumerations, and
  globals that are announced after the handshake. `WaylandProtocol` lists every
  interface, of which the properties use the few that `idle.go` creates.
* Brightness: the broadcast after a set, `Get` and `List`, several panels.
* The config generators are text formatting; peer credentials, paths, dark mode,
  colours and the command line keep no state; the mock compositor is a test
  double.
