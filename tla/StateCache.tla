----------------------------- MODULE StateCache -----------------------------
(***************************************************************************)
(* The server's cache of the compositor's state (pkg/ipc/cache.go) and the *)
(* goroutine that maintains it: initCache at start, then watchEvents of    *)
(* pkg/server/server.go, which subscribes and handles one event after the  *)
(* other.  The compositor changes at any time, its event stream passes     *)
(* through the client's decoder and a channel, and a request handler       *)
(* encodes the windows it got from GetWindows while the cache goes on      *)
(* changing.                                                               *)
(*                                                                         *)
(* Only this goroutine writes the cache, so one event's updates are one    *)
(* action; the queries of initCache are separate actions, each a round     *)
(* trip to a compositor that may have moved on.                            *)
(***************************************************************************)
EXTENDS CompositorEvents, SequencesExt

CONSTANTS
    Cap,         \* capacity of the niri and MangoWC event channels (64 in the code)
    MaxChanges,  \* bound: changes of the compositor
    MaxExtras    \* bound: queries that fail and replies a handler encodes

Window == [id : Win, title : 0..1, ws : Workspaces \union {None},
           floating : BOOLEAN, full : BOOLEAN, focused : BOOLEAN]

ASSUME CacheAssumption ==
    /\ IsFiniteSet(Win) /\ Win # {} /\ None \notin Win \union Window \union BOOLEAN
    /\ 1 \in Workspaces /\ 1 \in Mons
    /\ Cap \in Nat \ {0} /\ MaxChanges \in Nat /\ MaxExtras \in Nat

VARIABLES
    kind,     \* the compositor the daemon found
    comp,     \* the compositor's state
    windows,  \* StateCache.windows
    spaces,   \* StateCache.workspaces: the active one, None before the first query
    monitors, \* StateCache.monitors
    pc,       \* the watching goroutine
    event,    \* the event it handles
    wire,     \* lines of the event stream the decoder has not read
    channel,  \* decoded events in the channel
    sizes,    \* niri: fsSizes
    known,    \* niri: fsOutputs has been fetched
    fetching, \* niri: mapsRefreshing
    reply,    \* the handler: the slice it encodes, whether the cache still
              \*   uses that array, the windows it has encoded
    changes,  \* changes so far
    extras,   \* failed queries and replies so far
    intact,   \* history: the refresh under way has had all its answers
    lost      \* history: "missed", until a refresh, a change before the subscription
              \*   or the answer of a query; "dropped", an event

cacheVars  == <<windows, spaces, monitors>>
streamVars == <<wire, channel, sizes, known, fetching>>
bounds     == <<changes, extras>>
vars == <<kind, comp, cacheVars, pc, event, streamVars, reply, bounds, intact, lost>>

NoReply == [slice |-> << >>, shared |-> FALSE, out |-> << >>, ids |-> << >>]
Ids(ws) == [i \in DOMAIN ws |-> ws[i].id]

TypeOK ==
    /\ kind \in Kinds
    /\ windows \in Seq(Window)
    /\ spaces \in Workspaces \union {None}
    /\ monitors \subseteq Mons
    /\ pc \in {"start", "subscribe", "receive", "handle", "active", "workspaces",
               "monitors", "closed"}
    /\ \A i \in DOMAIN channel : i > Cap => i = Cap + 1 /\ channel[i].type = "closed"
    /\ sizes \in [Win -> BOOLEAN \union {None}]
    /\ known \in BOOLEAN /\ fetching \in BOOLEAN
    /\ reply.slice \in Seq(Window) /\ reply.out \in Seq(Window)
    /\ Len(reply.out) <= Len(reply.slice)

Init ==
    /\ kind \in Kinds
    /\ comp \in {[wins |-> [w \in S |-> [title |-> 0, ws |-> 1, floating |-> FALSE,
                                         full |-> FALSE]],
                  focus |-> IF S = {} THEN None ELSE CHOOSE w \in S : TRUE,
                  active |-> 1, mons |-> {1}] : S \in {{}, {CHOOSE w \in Win : TRUE}}}
    /\ windows = << >> /\ spaces = None /\ monitors = {}
    /\ pc = "start" /\ event = Event("")
    /\ wire = << >> /\ channel = << >>
    /\ sizes = [w \in Win |-> None] /\ known = FALSE /\ fetching = FALSE
    /\ reply = NoReply
    /\ changes = 0 /\ extras = 0
    /\ intact = FALSE /\ lost = "no"

(***************************************************************************)
(* The cache.  SetWindows, RemoveWindow and an AddWindow that grows the    *)
(* array leave the old array to the handlers that hold it; the others      *)
(* change elements in place, which those handlers see.                     *)
(***************************************************************************)
Replace(new) ==
    /\ windows' = new
    /\ reply' = [reply EXCEPT !.shared = FALSE]

InPlace(new) ==
    /\ windows' = new
    /\ reply' = IF reply.shared
                THEN [reply EXCEPT !.slice = [i \in DOMAIN @ |-> new[i]]] ELSE reply

(* The first window with that id, if there is one. *)
First(w) == {i \in DOMAIN windows : windows[i].id = w /\ \A j \in 1..i - 1 : windows[j].id # w}

SetWindows(ws) == Replace(ws)

(* The other windows, in their order. *)
Without(w) ==
    LET others == {i \in DOMAIN windows : windows[i].id # w}
        at     == CHOOSE f \in [1..Cardinality(others) -> others] :
                    \A i, j \in DOMAIN f : i < j => f[i] < f[j]
    IN  [i \in DOMAIN at |-> windows[at[i]]]

(* Mutant: the window is taken out of the array the handlers hold.         *)
RemoveInPlace(w) ==
    /\ windows' = Without(w)
    /\ reply' = IF reply.shared
                THEN [reply EXCEPT !.shared = FALSE, !.slice = [i \in DOMAIN @ |->
                         IF i \in DOMAIN windows' THEN windows'[i] ELSE @[i]]] ELSE reply

RemoveWindow(w) == Replace(Without(w))

(* Mutant: the window that was focused keeps its mark.                     *)
MarkedToo(w) == [i \in DOMAIN windows |->
                   [windows[i] EXCEPT !.focused = @ \/ windows[i].id = w]]

(* The windows after MarkWindowFocused and after UpdateWindowTitle. *)
Marked(w)    == [i \in DOMAIN windows |->
                   [windows[i] EXCEPT !.focused = windows[i].id = w]]
Titled(w, t) == [i \in DOMAIN windows |->
                   IF i \in First(w) THEN [windows[i] EXCEPT !.title = t] ELSE windows[i]]

MarkWindowFocused(w) == InPlace(Marked(w))

(* Mutant: the event is taken for a toggle.                                *)
ToggleWindowFloating(w, f) ==
    InPlace([i \in DOMAIN windows |->
               IF i \in First(w) THEN [windows[i] EXCEPT !.floating = ~@] ELSE windows[i]])

UpdateWindowFloating(w, f) ==
    InPlace([i \in DOMAIN windows |->
               IF i \in First(w) THEN [windows[i] EXCEPT !.floating = f] ELSE windows[i]])

(* AddWindow of the window an event carries, after the updates that event  *)
(* made, unless a window of that id is there.                              *)
(* Mutant: every event adds its window.                                    *)
NeverTracked(win, ws) == win = None

Tracked(win, ws) == win = None \/ \E i \in DOMAIN ws : ws[i].id = win.id
AddUnlessTracked(win, ws) ==
    /\ windows' = IF Tracked(win, ws) THEN ws ELSE Append(ws, win)
    /\ reply' \in {IF reply.shared
                   THEN [reply EXCEPT !.slice = [i \in DOMAIN @ |-> ws[i]],
                                      !.shared = ~grows]
                   ELSE reply :
                   grows \in IF Tracked(win, ws) THEN {FALSE} ELSE BOOLEAN}

(***************************************************************************)
(* initCache: four queries, each of which may fail and then leaves its     *)
(* part as it was.                                                         *)
(***************************************************************************)
Listed == SetToSeq({WindowOf(comp, w, ListedFocus(kind, comp, w)) : w \in DOMAIN comp.wins})

NiriListed == \* ListWindows of the niri client remembers the windows' sizes
    IF kind = "niri"
    THEN sizes' = [w \in Win |-> IF w \in DOMAIN comp.wins THEN comp.wins[w].full
                                 ELSE sizes[w]]
    ELSE UNCHANGED sizes

Extra == extras < MaxExtras /\ extras' = extras + 1

(* A refresh that got all its answers has seen what an earlier one missed. *)
Missed == lost' = IF lost = "dropped" THEN lost ELSE "missed"

QueryWindows ==
    \/ /\ SetWindows(Listed) /\ NiriListed
       /\ intact' = TRUE /\ UNCHANGED <<extras, lost>>
    \/ /\ Extra /\ Missed
       /\ intact' = FALSE /\ UNCHANGED <<windows, reply, sizes>>

QueryActiveWindow ==
    /\ pc = "active" /\ pc' = "workspaces"
    /\ \/ /\ IF comp.focus = None THEN UNCHANGED <<windows, reply>>
             ELSE MarkWindowFocused(comp.focus)
          /\ UNCHANGED <<extras, lost, intact>>
       \/ /\ Extra /\ Missed
          /\ intact' = FALSE /\ UNCHANGED <<windows, reply>>
    /\ UNCHANGED <<kind, comp, spaces, monitors, event, streamVars, changes>>

QueryWorkspaces ==
    /\ pc = "workspaces" /\ pc' = "monitors"
    /\ \/ spaces' = comp.active /\ UNCHANGED <<extras, lost, intact>>
       \/ Extra /\ Missed /\ intact' = FALSE /\ UNCHANGED spaces
    /\ UNCHANGED <<kind, comp, windows, monitors, event, streamVars, reply, changes>>

(* The last query.  New then starts the goroutine that subscribes;         *)
(* watchEvents broadcasts and takes the next event.                        *)
QueryMonitors ==
    /\ pc = "monitors"
    /\ pc' = IF event.type = "start" THEN "subscribe" ELSE "receive"
    /\ event' = Event("")
    /\ \/ /\ monitors' = comp.mons /\ UNCHANGED <<extras, intact>>
          /\ lost' = IF intact /\ lost = "missed" /\ event.type # "start" THEN "no" ELSE lost
       \/ Extra /\ Missed /\ intact' = FALSE /\ UNCHANGED monitors
    /\ UNCHANGED <<kind, comp, windows, spaces, streamVars, reply, changes>>

(***************************************************************************)
(* New and watchEvents.                                                    *)
(***************************************************************************)
Start ==
    /\ pc = "start" /\ pc' = "active" /\ event' = Event("start")
    /\ QueryWindows
    /\ UNCHANGED <<kind, comp, spaces, monitors, wire, channel, known, fetching, changes>>

Subscribe ==
    /\ pc = "subscribe" /\ pc' = "receive"
    /\ wire' = Greeting(kind, comp)
    /\ UNCHANGED <<kind, comp, cacheVars, event, channel, sizes, known, fetching, reply,
                   bounds, intact, lost>>

(* The next event of the channel; the range loop ends when it is closed    *)
(* and nothing subscribes again.                                           *)
Receive ==
    /\ pc = "receive" /\ channel # << >>
    /\ event' = Head(channel) /\ channel' = Tail(channel)
    /\ pc' = IF event'.type = "closed" THEN "closed" ELSE "handle"
    /\ UNCHANGED <<kind, comp, cacheVars, wire, sizes, known, fetching, reply, bounds,
                   intact, lost>>

Refreshing == {"WindowCreated", "WorkspaceChanged", "WindowMoved", "MonitorChanged",
               "ConfigReloaded", "FullscreenChanged", "FocusedMonitorChanged"}

HandleRefresh ==
    /\ pc = "handle" /\ event.type \in Refreshing /\ pc' = "active"
    /\ QueryWindows
    /\ UNCHANGED <<kind, comp, spaces, monitors, event, wire, channel, known, fetching,
                   changes>>

Id(e) == IF e.address # None THEN e.address ELSE e.id

(* Mutant: a closed window is looked up by its address only.               *)
HandleClosedByAddress ==
    /\ event.type = "WindowClosed"
    /\ IF event.address = None THEN UNCHANGED <<windows, reply>>
       ELSE RemoveWindow(event.address)

HandleClosed ==
    /\ event.type = "WindowClosed"
    /\ IF Id(event) = None THEN UNCHANGED <<windows, reply>> ELSE RemoveWindow(Id(event))

HandleFocused ==
    /\ event.type = "WindowFocused"
    /\ AddUnlessTracked(event.win, IF event.address = None THEN windows
                                   ELSE Marked(event.address))

HandleTitle ==
    /\ event.type = "WindowTitleChanged"
    /\ AddUnlessTracked(event.win, IF event.title = None THEN windows
                                   ELSE Titled(Id(event), event.title))

HandleFloating ==
    /\ event.type = "" /\ event.floating # None
    /\ UpdateWindowFloating(event.address, event.floating)

HandleUpdate ==
    /\ pc = "handle" /\ pc' = "receive" /\ event' = Event("")
    /\ HandleClosed \/ HandleFocused \/ HandleTitle \/ HandleFloating
    /\ UNCHANGED <<kind, comp, spaces, monitors, streamVars, bounds, intact, lost>>

(***************************************************************************)
(* The client's decoder.  The Hyprland client sends on an unbuffered       *)
(* channel and waits for watchEvents; the others drop the event when the   *)
(* channel is full.                                                        *)
(***************************************************************************)
DecodeEnd ==
    /\ channel' = Append(channel, Event("closed"))
    /\ UNCHANGED <<pc, event, sizes, fetching, lost>>

DecodeHyprland ==
    LET e == HyprlandEvent(Head(wire)) IN
    /\ pc = "receive" /\ pc' = "handle" /\ event' = e
    /\ UNCHANGED <<channel, sizes, fetching, lost>>

(* Mutant: the event is sent whatever the channel holds.                   *)
OfferAlways(e) ==
    /\ channel' = IF Silent(kind, e) THEN channel ELSE Append(channel, e)
    /\ UNCHANGED <<pc, event, lost>>

Offer(e) ==
    /\ IF Silent(kind, e) THEN UNCHANGED <<channel, lost>>
       ELSE IF Len(channel) < Cap THEN channel' = Append(channel, e) /\ UNCHANGED lost
       ELSE lost' = "dropped" /\ UNCHANGED channel
    /\ UNCHANGED <<pc, event>>

(* A line of niri that needs the outputs' sizes finds them fetched or      *)
(* starts to fetch them.                                                   *)
DecodeNiri ==
    LET line == Head(wire) IN
    /\ Offer(NiriEvent(line, sizes, known))
    /\ sizes' = NiriSizes(line, sizes)
    /\ fetching' = (fetching \/ (~known /\ line.ev \in {"WindowOpenedOrChanged", "WindowLayoutsChanged"}))

Decode ==
    /\ wire # << >> /\ wire' = Tail(wire)
    /\ CASE Head(wire).ev = "eof" -> DecodeEnd
         [] kind = "hyprland" /\ Head(wire).ev # "eof" -> DecodeHyprland
         [] kind = "niri" /\ Head(wire).ev # "eof" -> DecodeNiri
         [] kind = "mango" /\ Head(wire).ev # "eof" ->
              Offer(MangoEvent(Head(wire))) /\ UNCHANGED <<sizes, fetching>>
    /\ UNCHANGED <<kind, comp, cacheVars, known, reply, bounds, intact>>

(* refreshStateMapsAsync, in a goroutine of its own; it may fail. *)
FetchOutputs ==
    /\ fetching /\ fetching' = FALSE
    /\ known' \in {known, TRUE}
    /\ UNCHANGED <<kind, comp, cacheVars, pc, event, wire, channel, sizes, reply, bounds,
                   intact, lost>>

(***************************************************************************)
(* The compositor, and the end of its event stream.                        *)
(***************************************************************************)
Streaming ==
    /\ pc \notin {"start", "subscribe", "closed"} /\ event.type # "start"
    /\ \A l \in Range(wire) : l.ev # "eof"
    /\ \A e \in Range(channel) : e.type # "closed"

Change ==
    /\ changes < MaxChanges /\ changes' = changes + 1
    /\ \E c \in Changes(comp) :
         /\ comp' = c.to
         /\ wire' = IF Streaming THEN wire \o Lines(kind, c.what, c.w, c.to) ELSE wire
    /\ IF Streaming \/ pc = "start" THEN UNCHANGED lost ELSE Missed
    /\ UNCHANGED <<kind, cacheVars, pc, event, channel, sizes, known, fetching, reply,
                   extras, intact>>

StreamEnds ==
    /\ Streaming /\ changes < MaxChanges /\ changes' = MaxChanges
    /\ wire' = Append(wire, Line("eof", None, comp))
    /\ UNCHANGED <<kind, comp, cacheVars, pc, event, channel, sizes, known, fetching, reply,
                   extras, intact, lost>>

(***************************************************************************)
(* A handler that answers Window.List: GetWindows, then one window after   *)
(* the other is encoded.                                                   *)
(***************************************************************************)
GetWindows ==
    /\ Extra
    /\ Len(reply.out) = Len(reply.slice) /\ windows # << >>
    /\ reply' = [slice |-> windows, shared |-> TRUE, out |-> << >>, ids |-> Ids(windows)]
    /\ UNCHANGED <<kind, comp, cacheVars, pc, event, streamVars, changes, intact, lost>>

Encode ==
    /\ Len(reply.out) < Len(reply.slice)
    /\ reply' = [reply EXCEPT !.out = Append(@, reply.slice[Len(@) + 1])]
    /\ UNCHANGED <<kind, comp, cacheVars, pc, event, streamVars, bounds, intact, lost>>

Watcher == Start \/ Subscribe \/ Receive \/ HandleRefresh \/ HandleUpdate
           \/ QueryActiveWindow \/ QueryWorkspaces \/ QueryMonitors
Daemon == Watcher \/ Decode \/ FetchOutputs
Next == Daemon \/ Change \/ StreamEnds \/ GetWindows \/ Encode

(* Some goroutine of the daemon runs while one can; the compositor and the *)
(* clients need not do anything.                                           *)
Spec == Init /\ [][Next]_vars /\ WF_vars(Daemon)

(***************************************************************************)
(* Properties.                                                             *)
(***************************************************************************)
Settled == pc = "receive" /\ wire = << >> /\ channel = << >> /\ lost = "no"

(* An event adds a window only when no window of its id is there, so       *)
(* Window.List never shows one twice, whatever dumps and events cross.     *)
NoDuplicateWindows == IsInjective(Ids(windows))

(* Once the events are handled, and none was lost, the cache holds the     *)
(* windows, workspace and monitors of the compositor, although the dump    *)
(* and the events were taken at different times.  Each client follows only *)
(* the attributes its events report: Hyprland's windowtitle has no title,  *)
(* and an event of niri leaves a known window as it is, its title only if  *)
(* the window is focused.                                                  *)
Followed == CASE kind = "hyprland" -> {"ws", "floating", "full"}
              [] kind = "niri"     -> {}
              [] kind = "mango"    -> {"title", "ws", "floating", "full"}

CacheConverges ==
    Settled =>
      /\ Range(Ids(windows)) = DOMAIN comp.wins
      /\ \A i \in DOMAIN windows : \A a \in Followed :
            windows[i][a] = comp.wins[windows[i].id][a]
      /\ spaces = comp.active /\ monitors = comp.mons

(* On Hyprland and niri the cache then also marks the focused window and   *)
(* no other, although ListWindows and ActiveWindow are two queries.  When  *)
(* no window has the focus nothing is promised: an event without a window  *)
(* unmarks none, and the one that was marked keeps its mark.               *)
FocusConverges ==
    Settled /\ kind # "mango" /\ comp.focus # None =>
      \A i \in DOMAIN windows : windows[i].focused = (windows[i].id = comp.focus)

(* A handler encodes the slice of the cache without its lock: the windows  *)
(* of its answer are the windows of one list, in that list's order, though *)
(* their fields may be of different times.                                 *)
ReplyKeepsIds == Ids(reply.out) = SubSeq(reply.ids, 1, Len(reply.out))

(* Windows that are closed leave the cache (or are opened again), unless   *)
(* an event or an answer was lost or the stream has ended.                 *)
Ghosts == Range(Ids(windows)) \ DOMAIN comp.wins
GhostsLeave == (Ghosts # {}) ~> (Ghosts = {} \/ lost # "no" \/ pc = "closed")

=============================================================================
